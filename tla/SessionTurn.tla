----------------------------- MODULE SessionTurn -----------------------------
(***************************************************************************)
(* Who may run a turn in a session (jobs/lifecycle.py): the request        *)
(* registry that makes a client request idempotent, the one reusable job   *)
(* of the session with its active_turn snapshot, and everyone who writes   *)
(* them: the HTTP and WebSocket handlers (backend/api/agent_routes.py,     *)
(* backend/ws/agent_ws.py), the cancel endpoint, the maintenance thread    *)
(* (agent/runtime/turn_closeout.py) and startup (jobs/store.py).           *)
(*                                                                         *)
(* The session lock serializes claims, the closing of records and the      *)
(* maintenance of one request; the job record has a lock of its own, which *)
(* is all that the snapshot, the attachment of a run, stage events and     *)
(* cancellation take.  One session is modelled: sessions share nothing.    *)
(***************************************************************************)
EXTENDS Naturals, FiniteSets

CONSTANTS
    SessionRequests,   \* client_request_ids
    SessionHandlers,   \* threads that serve a message
    SocketHandlers,    \* those of the WebSocket; the others serve HTTP
    NoRequest,         \* no request
    MaxDisturbances,   \* bound: cancellations and disturbances in a behaviour
    SessionFaults      \* which of the disturbances below may happen

ASSUME SessionAssumption ==
    /\ NoRequest \notin SessionRequests \cup SessionHandlers
    /\ SocketHandlers \subseteq SessionHandlers
    /\ MaxDisturbances \in Nat
    /\ SessionFaults \subseteq {"cancel", "restart", "raise"}

Finished == {"succeeded", "failed", "cancelled"}

VARIABLES
    sjob,      \* the session's job: its status and cancel_requested
    active,    \* metadata.active_turn: its request and status
    registry,  \* the request records
    answer,    \* what the turn of a request stored in the history
    frame,     \* the terminal frame of its log
    hpc,       \* the handlers
    hreq, hout,  \* their request and result
    hseen,     \* active_turn as a stage event read it
    closing,   \* the request the maintenance thread is closing
    slock,     \* who holds the session lock between two steps
    boot,      \* is startup reconciliation still to come?
    disturbances,
    starts     \* history: turns started for each request

sessionRecords == <<sjob, active, registry, answer, frame>>
sessionHandler == <<hpc, hreq, hout, hseen>>
sessionVars == <<sessionRecords, sessionHandler, closing, slock, boot, disturbances,
                 starts>>

NoActive == [req |-> NoRequest, status |-> "none"]

SessionInit ==
    /\ sjob = [status |-> "none", cancel |-> FALSE]
    /\ active = NoActive
    /\ registry = [r \in SessionRequests |-> "none"]
    /\ answer = [r \in SessionRequests |-> "none"]
    /\ frame = [r \in SessionRequests |-> "none"]
    /\ hpc = [h \in SessionHandlers |-> "idle"]
    /\ hreq = [h \in SessionHandlers |-> NoRequest]
    /\ hout = [h \in SessionHandlers |-> "failed"]
    /\ hseen = [h \in SessionHandlers |-> NoActive]
    /\ closing = NoRequest
    /\ slock = "free"
    /\ boot = FALSE
    /\ disturbances = 0
    /\ starts = [r \in SessionRequests |-> 0]

-----------------------------------------------------------------------------
(* The registry, under the session lock.                                   *)

Cancelled == sjob.cancel \/ sjob.status = "cancelled"

\* _reconcile_running_request_record: what a running record is folded into.
Folded(r) ==
    CASE active.req # NoRequest /\ active.req # r -> "failed"
      [] Cancelled -> "cancelled"
      [] sjob.status \in {"succeeded", "failed"} -> sjob.status
      [] OTHER -> "running"

\* _prune_request_registry_unlocked: fold what is stranded.  (It also drops
\* finished records after a week or past 256 of them, which no step awaits.)
Pruned ==
    [r \in SessionRequests |->
        IF registry[r] = "running" THEN Folded(r) ELSE registry[r]]

\* _running_session_turn_unlocked
Busy == sjob.status = "running" /\ active.status = "running"

\* mark_running: the new status, and the reset of cancel_requested.
Running(j) ==
    IF j.status = "running" THEN j ELSE [status |-> "running", cancel |-> FALSE]

\* _session_lock
Unguarded == slock = "free"

\* A cancellation, a restart or an exception, of which there are a few.
Disturbs ==
    /\ disturbances < MaxDisturbances
    /\ disturbances' = disturbances + 1

Goes(h, point) == hpc' = [hpc EXCEPT ![h] = point]

-----------------------------------------------------------------------------
(* A message arrives.                                                      *)

\* claim_session_turn up to _ensure_running.  A known request is answered
\* from its record, a busy session with a conflict; both execute nothing.
TurnClaimable_known(r, records) == ~Busy

TurnClaimable(r, records) == records[r] = "none" /\ ~Busy

Claim(h, r) ==
    /\ hpc[h] = "idle" /\ Unguarded /\ ~boot
    /\ registry' = Pruned
    /\ IF TurnClaimable(r, registry')
       THEN /\ sjob' = Running(sjob)
            /\ slock' = "claim"
            /\ Goes(h, "begun")
            /\ hreq' = [hreq EXCEPT ![h] = r]
       ELSE UNCHANGED <<sjob, slock, hpc, hreq>>
    /\ UNCHANGED <<active, answer, frame, hout, hseen, closing, boot, disturbances,
                   starts>>

\* _begin_session_turn_unlocked: the snapshot.
BeginSnapshot(h) ==
    /\ hpc[h] = "begun"
    /\ active' = [req |-> hreq[h], status |-> "running"]
    /\ Goes(h, "snapshot")
    /\ UNCHANGED <<sjob, registry, answer, frame, hreq, hout, hseen,
                   closing, slock, boot, disturbances, starts>>

\* The record, and the end of the session lock: the turn runs.
BeginRecord(h) ==
    /\ hpc[h] = "snapshot"
    /\ registry' = [registry EXCEPT ![hreq[h]] = "running"]
    /\ starts' = [starts EXCEPT ![hreq[h]] = @ + 1]
    /\ slock' = "free"
    /\ Goes(h, "exec")
    /\ UNCHANGED <<sjob, active, answer, frame, hreq, hout, hseen, closing,
                   boot, disturbances>>

-----------------------------------------------------------------------------
(* The turn runs and ends.                                                 *)

\* update_session_turn_stage: reads the job, and later writes metadata back.
StageRead(h) ==
    /\ hpc[h] = "exec"
    /\ active.status = "running"
    /\ h \notin SocketHandlers => active.req = hreq[h]
    /\ hseen' = [hseen EXCEPT ![h] = active]
    /\ Goes(h, "stage")
    /\ UNCHANGED <<sessionRecords, hreq, hout, closing, slock, boot,
                   disturbances, starts>>

StageWrite(h) ==
    /\ hpc[h] = "stage"
    /\ active' = hseen[h]
    /\ hseen' = [hseen EXCEPT ![h] = NoActive]
    /\ Goes(h, "exec")
    /\ UNCHANGED <<sjob, registry, answer, frame, hreq, hout, closing,
                   slock, boot, disturbances, starts>>

\* submit_user_message returns, with the answer stored, or raises.
SessionTurnEnds(h, out) ==
    /\ hpc[h] = "exec"
    /\ IF out = "raised" THEN "raise" \in SessionFaults /\ Disturbs
       ELSE UNCHANGED disturbances
    /\ hout' = [hout EXCEPT ![h] = IF out = "succeeded" THEN out ELSE "failed"]
    /\ answer' = [answer EXCEPT ![hreq[h]] = IF out = "raised" THEN @ ELSE out]
    /\ Goes(h, CASE h \in SocketHandlers /\ out = "raised" -> "snap.raised"
                 [] h \in SocketHandlers -> "snap"
                 [] out = "raised" -> "record"
                 [] OTHER -> "attach")
    /\ UNCHANGED <<sjob, active, registry, frame, hreq, hseen, closing,
                   slock, boot, starts>>

\* finish_session_turn_snapshot, for request r with outcome out: it ignores a
\* snapshot that belongs to another request.
FinishSnapshot(r, out) ==
    IF active.req \in {r, NoRequest}
    THEN /\ active' = [req |-> active.req,
                       status |-> IF sjob.cancel THEN "cancelled" ELSE out]
         /\ sjob' = IF sjob.cancel /\ sjob.status \notin {"succeeded", "none"}
                    THEN [sjob EXCEPT !.status = "cancelled"] ELSE sjob
    ELSE UNCHANGED <<active, sjob>>

SnapshotFinishes(h) ==
    /\ hpc[h] \in {"snap", "snap.raised"}
    /\ FinishSnapshot(hreq[h], hout[h])
    /\ Goes(h, IF hpc[h] = "snap" THEN "record.attach" ELSE "record")
    /\ UNCHANGED <<registry, answer, frame, hreq, hout, hseen, closing,
                   slock, boot, disturbances, starts>>

\* finish_claimed_session_turn
FinishClaimed(h) ==
    /\ hpc[h] \in {"record", "record.attach", "record.last"}
    /\ Unguarded
    /\ LET out  == IF Cancelled THEN "cancelled" ELSE hout[h]
       IN  registry' = [Pruned EXCEPT ![hreq[h]] = out]
    /\ Goes(h, IF hpc[h] = "record.attach" THEN "attach.last" ELSE "terminal")
    /\ UNCHANGED <<sjob, active, answer, frame, hreq, hout, hseen, closing,
                   slock, boot, disturbances, starts>>

\* attach_run_to_session_job: reactivate the job unless it was cancelled, and
\* finish it.
Attached(j, out) ==
    CASE ~j.cancel -> [status |-> out, cancel |-> FALSE]
      [] j.cancel /\ j.status = "succeeded" -> j
      [] OTHER -> [status |-> "cancelled", cancel |-> TRUE]

AttachRun(h) ==
    /\ hpc[h] \in {"attach", "attach.last"}
    /\ sjob' = Attached(sjob, hout[h])
    /\ Goes(h, IF hpc[h] = "attach" THEN "record.last" ELSE "terminal")
    /\ UNCHANGED <<active, registry, answer, frame, hreq, hout, hseen,
                   closing, slock, boot, disturbances, starts>>

\* put_terminal (WebSocket) or the response (HTTP): the handler is done.
HandlerDone(h) ==
    /\ hpc[h] = "terminal"
    /\ frame' = IF h \in SocketHandlers /\ frame[hreq[h]] = "none"
                THEN [frame EXCEPT ![hreq[h]] = hout[h]] ELSE frame
    /\ Goes(h, "idle")
    /\ hreq' = [hreq EXCEPT ![h] = NoRequest]
    /\ hout' = [hout EXCEPT ![h] = "failed"]
    /\ UNCHANGED <<sjob, active, registry, answer, hseen, closing,
                   slock, boot, disturbances, starts>>

-----------------------------------------------------------------------------
(* Cancellation, maintenance and restart.                                  *)

\* request_job_cancellation with the request the user saw running.
CancelTurn(r) ==
    /\ "cancel" \in SessionFaults
    /\ Disturbs
    /\ sjob.status = "running" /\ ~sjob.cancel
    /\ active.req = r
    /\ sjob' = [sjob EXCEPT !.cancel = TRUE]
    /\ UNCHANGED <<active, registry, answer, frame, sessionHandler, closing, slock,
                   boot, starts>>

\* close_restarted_turns, one request: fold its record (or take the job's
\* word when there is none) and make sure its log has a terminal frame.
CloseTurn(r) ==
    /\ Unguarded /\ closing = NoRequest /\ ~boot
    /\ registry[r] # "none" \/ active.req = r
    /\ LET s == CASE registry[r] = "running" -> Folded(r)
                  [] registry[r] = "none" -> sjob.status
                  [] OTHER -> registry[r]
       IN  /\ registry' = IF registry[r] = "running"
                          THEN [registry EXCEPT ![r] = s] ELSE registry
           /\ IF s \in Finished
              THEN /\ frame' = IF frame[r] # "none" THEN frame
                               ELSE [frame EXCEPT ![r] =
                                       IF answer[r] = "succeeded"
                                       THEN "succeeded" ELSE "failed"]
                   /\ closing' = r
                   /\ slock' = "close"
              ELSE UNCHANGED <<frame, closing, slock>>
    /\ UNCHANGED <<sjob, active, answer, sessionHandler, boot, disturbances, starts>>

\* ... and bring record, snapshot and job in line with the frame.
CloseJob_recordOnly ==
    /\ closing # NoRequest
    /\ closing' = NoRequest /\ slock' = "free"
    /\ UNCHANGED <<sessionRecords, sessionHandler, boot, disturbances, starts>>

CloseJob ==
    /\ closing # NoRequest
    /\ LET r == closing
           s == IF registry[r] = "cancelled" THEN "cancelled" ELSE frame[r]
       IN  /\ registry' = IF registry[r] = "none" THEN registry
                          ELSE [registry EXCEPT ![r] = s]
           /\ IF active.req = r /\ (sjob.status # s \/ active.status # s)
              THEN /\ active' = [active EXCEPT !.status =
                                   IF sjob.cancel THEN "cancelled" ELSE frame[r]]
                   /\ sjob' = [sjob EXCEPT !.status = s]
              ELSE UNCHANGED <<active, sjob>>
    /\ closing' = NoRequest /\ slock' = "free"
    /\ UNCHANGED <<answer, frame, sessionHandler, boot, disturbances, starts>>

\* The backend dies with all its threads ...
SessionRestart ==
    /\ "restart" \in SessionFaults
    /\ Disturbs
    /\ boot' = TRUE
    /\ hpc' = [h \in SessionHandlers |-> "idle"]
    /\ hreq' = [h \in SessionHandlers |-> NoRequest]
    /\ hout' = [h \in SessionHandlers |-> "failed"]
    /\ hseen' = [h \in SessionHandlers |-> NoActive]
    /\ closing' = NoRequest /\ slock' = "free"
    /\ UNCHANGED <<sessionRecords, starts>>

\* ... and reconcile_running_jobs ends the job it left running.
StartupReconcile ==
    /\ boot
    /\ boot' = FALSE
    /\ LET s == IF sjob.cancel THEN "cancelled" ELSE "failed" IN
       IF sjob.status = "running"
       THEN /\ sjob' = [sjob EXCEPT !.status = s]
            /\ active' = IF active.status = "running"
                         THEN [active EXCEPT !.status = s] ELSE active
       ELSE UNCHANGED <<sjob, active>>
    /\ UNCHANGED <<registry, answer, frame, sessionHandler, closing, slock,
                   disturbances, starts>>

-----------------------------------------------------------------------------
SessionTurnStep(h) ==
    \/ BeginSnapshot(h) \/ BeginRecord(h)
    \/ \E out \in {"succeeded", "failed", "raised"} : SessionTurnEnds(h, out)
    \/ SnapshotFinishes(h) \/ FinishClaimed(h) \/ AttachRun(h) \/ HandlerDone(h)

Maintenance == CloseJob \/ \E r \in SessionRequests : CloseTurn(r)

SessionNext ==
    \/ \E h \in SessionHandlers :
          \/ SessionTurnStep(h) \/ StageRead(h) \/ StageWrite(h)
          \/ \E r \in SessionRequests : Claim(h, r)
    \/ \E r \in SessionRequests : CancelTurn(r)
    \/ Maintenance
    \/ SessionRestart \/ StartupReconcile

SessionSpec == SessionInit /\ [][SessionNext]_sessionVars

\* Handlers run on and turns end, however often they report a stage; the
\* maintenance visits every request every 30 s; startup reconciles.  The file
\* lock is not a queue, hence the strong fairness.
SessionFairness ==
    /\ \A h \in SessionHandlers :
          /\ SF_sessionVars(SessionTurnStep(h))
          /\ WF_sessionVars(StageWrite(h))
    /\ \A r \in SessionRequests : SF_sessionVars(CloseTurn(r))
    /\ WF_sessionVars(CloseJob \/ StartupReconcile)

-----------------------------------------------------------------------------
\* Values of the state; the session lock has one holder.
SessionTypeOK ==
    /\ sjob \in [status : {"none", "running"} \cup Finished, cancel : BOOLEAN]
    /\ active \in [req : SessionRequests \cup {NoRequest},
                   status : {"none", "running"} \cup Finished]
    /\ registry \in [SessionRequests -> {"none", "running"} \cup Finished]
    /\ answer \in [SessionRequests -> {"none", "succeeded", "failed"}]
    /\ frame \in [SessionRequests -> {"none", "succeeded", "failed"}]
    /\ hpc \in [SessionHandlers ->
                  {"idle", "begun", "snapshot", "exec", "stage", "snap",
                   "snap.raised", "record", "record.attach", "record.last",
                   "attach", "attach.last", "terminal"}]
    /\ hreq \in [SessionHandlers -> SessionRequests \cup {NoRequest}]
    /\ hout \in [SessionHandlers -> {"succeeded", "failed"}]
    /\ hseen \in [SessionHandlers -> [req : SessionRequests \cup {NoRequest},
                     status : {"none", "running"} \cup Finished]]
    /\ closing \in SessionRequests \cup {NoRequest}
    /\ slock = CASE closing # NoRequest -> "close"
                 [] \E h \in SessionHandlers : hpc[h] \in {"begun", "snapshot"}
                      -> "claim"
                 [] OTHER -> "free"
    /\ boot \in BOOLEAN
    /\ disturbances \in Nat
    /\ starts \in [SessionRequests -> Nat]

\* A request is executed at most once, whatever is resent, cancelled, folded
\* or restarted in between (while its record is kept).
StartedOnce == \A r \in SessionRequests : starts[r] <= 1

\* The session is busy and refuses the next message; that ends also when the
\* turn raised or died.
SessionWaits == Busy

\* A session runs one turn at a time.
OneTurnAtATime ==
    Cardinality({h \in SessionHandlers : hpc[h] \in {"exec", "stage"}}) <= 1
=============================================================================
