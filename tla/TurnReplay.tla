----------------------------- MODULE TurnReplay -----------------------------
(***************************************************************************)
(* The frames of one agent turn on their way to the browser: the durable   *)
(* log (agent/runtime/turn_replay.py), the thread that produces the frames *)
(* and the sockets that carry them (backend/ws/agent_ws.py), the repair of *)
(* turns that ended without a terminal frame                               *)
(* (agent/runtime/turn_closeout.py) and the client that applies them       *)
(* (frontend/src/realtime/turnTransport.ts).                               *)
(*                                                                         *)
(* A turn has one producer, in process Home.  Every frame is appended to   *)
(* the log before it is handed to the socket that submitted the message.   *)
(* A client that loses that socket reconnects to any process and resumes   *)
(* at its cursor; a pump thread then reads the log from there.  Each       *)
(* process caches the frames it has loaded, and all threads of a process   *)
(* share that cache.  One step is one section under the log's FileLock,    *)
(* one queue operation, or one message applied by the client.              *)
(***************************************************************************)
EXTENDS Naturals, Sequences

CONSTANTS
    Procs,       \* backend processes
    Home,        \* the process that runs the turn
    MaxFrames,   \* bound: no more tokens once the log has this many frames
    MaxConns,    \* bound: sockets the client opens for this turn
    MaxPumps,    \* bound: resume subscriptions
    MaxCrashes,  \* bound: process restarts
    Faults       \* which of the disturbances below may happen

ASSUME ReplayAssumption ==
    /\ Home \in Procs
    /\ {MaxFrames, MaxConns, MaxPumps, MaxCrashes} \subseteq Nat
    /\ Faults \subseteq {"crash", "peerRestart", "cancel", "disk", "drop",
                         "slow", "noAnswer", "listener", "again"}

VARIABLES
    file,     \* complete lines of the log, in order; the seq is the position
    torn,     \* does an incomplete line follow them?
    cache,    \* TurnLog.frames of each process
    prod,     \* the producing thread
    live,     \* its event queue to the submitting socket
    record,   \* the request record: running or finished
    job,      \* the session job: running, cancelling or ended
    answers,  \* assistant messages stored for the request
    closer,   \* the process inside ensure_turn_terminal, under its locks
    pump,     \* replay subscriptions
    net,      \* outbox and socket of the client's current connection
    resume,   \* a resume request on its way, with its cursor
    client,   \* the client's turn
    crashes

vars == <<file, torn, cache, prod, live, record, job, answers, closer, pump,
          net, resume, client, crashes>>

Frame == [by : {"turn", "repair"}, last : BOOLEAN]
Token == [by |-> "turn", last |-> FALSE]
Done == [by |-> "turn", last |-> TRUE]
Repair == [by |-> "repair", last |-> TRUE]

Sent(n, f) == [kind |-> "frame", seq |-> n, frame |-> f]
Notice(k) == [kind |-> k, seq |-> 0, frame |-> Token]   \* carries no frame
Message == [kind : {"frame", "fault", "pending", "interrupted"},
            seq : Nat, frame : Frame]

Pumps == 1 .. MaxPumps
NoPump == [pc |-> "none", at |-> Home, conn |-> 0, cursor |-> 0,
           batch |-> << >>, closed |-> FALSE]

LogOK ==
    /\ file \in Seq(Frame)
    /\ torn \in BOOLEAN
    /\ cache \in [Procs -> Seq(Frame)]

TurnOK ==
    /\ prod \in [pc : {"run", "answered", "recorded", "over", "dead"},
                 open : BOOLEAN, faulted : BOOLEAN]
    /\ record \in {"running", "finished"}
    /\ job \in {"running", "cancelling", "ended"}
    /\ answers \in Seq({"own", "repair"})
    /\ closer \in {{}} \cup {{p} : p \in Procs}

PumpsOK ==
    pump \in [Pumps -> [pc : {"none", "read", "send", "wait", "ended"},
                       at : Procs, conn : Nat, cursor : Nat,
                       batch : Seq(Frame), closed : BOOLEAN]]

SocketsOK ==
    /\ live \in [open : BOOLEAN, queue : Seq(Message)]
    /\ net \in Seq(Message)
    /\ resume \in Seq(Nat)
    /\ client \in [shown : Seq(Frame), up : BOOLEAN, conn : Nat, at : Procs,
                   fault : BOOLEAN,
                   mode : {"stream", "pending", "history", "finished"}]
    /\ crashes \in Nat

TypeOK == LogOK /\ TurnOK /\ PumpsOK /\ SocketsOK

Init ==
    /\ file = << >>
    /\ torn = FALSE
    /\ cache = [p \in Procs |-> << >>]
    /\ prod = [pc |-> "run", open |-> TRUE, faulted |-> FALSE]
    /\ live = [open |-> TRUE, queue |-> << >>]
    /\ record = "running"
    /\ job = "running"
    /\ answers = << >>
    /\ closer = {}
    /\ pump = [i \in Pumps |-> NoPump]
    /\ net = << >>
    /\ resume = << >>
    /\ client = [shown |-> << >>, up |-> TRUE, conn |-> 1, at |-> Home,
                 fault |-> FALSE, mode |-> "stream"]
    /\ crashes = 0

-----------------------------------------------------------------------------
(***************************************************************************)
(* TurnLog.  _load_locked extends the cached frames with the lines that    *)
(* follow them, or starts afresh when the file has become shorter.         *)
(***************************************************************************)
Ended(frames) == Len(frames) > 0 /\ frames[Len(frames)].last

Loaded(p) ==
    IF Len(file) < Len(cache[p])
    THEN file
    ELSE cache[p] \o SubSeq(file, Len(cache[p]) + 1, Len(file))

Load(p) == cache' = [cache EXCEPT ![p] = Loaded(p)]

\* Mutant: append trusts the cached frames instead of loading the file.
AppendLine_stale(p, f) ==
    /\ file' = Append(SubSeq(file, 1, Len(cache[p])), f)
    /\ torn' = FALSE
    /\ cache' = [cache EXCEPT ![p] = Append(cache[p], f)]

\* append: load, cut the file behind what was loaded, write one line, sync
AppendLine(p, f) ==
    /\ file' = Append(SubSeq(file, 1, Len(Loaded(p))), f)
    /\ torn' = FALSE
    /\ cache' = [cache EXCEPT ![p] = Append(Loaded(p), f)]

\* the write leaves part of a line, or the sync of a whole line fails
FailLine(p, f) ==
    /\ "disk" \in Faults
    /\ \/ file' = SubSeq(file, 1, Len(Loaded(p))) /\ torn' = TRUE
       \/ file' = Append(SubSeq(file, 1, Len(Loaded(p))), f) /\ torn' = FALSE
    /\ Load(p)

\* reload, when another process announces a frame on the bus
Reload(p) ==
    /\ "listener" \in Faults
    /\ cache[p] # Loaded(p)
    /\ Load(p)
    /\ UNCHANGED <<file, torn, prod, live, record, job, answers, closer, pump,
                   net, resume, client, crashes>>

-----------------------------------------------------------------------------
(***************************************************************************)
(* The producer, _run_agent_thread.  emission_lock covers the append and   *)
(* the hand-over to the event queue: one step here, since a message may    *)
(* stay in that queue for as long as it could stay in the thread's hands.  *)
(***************************************************************************)
\* enqueue_live; after transport_closed the producer only keeps the log
Enqueued(m) == IF live.open THEN [live EXCEPT !.queue = Append(@, m)] ELSE live

\* Mutant: the producer goes on after a frame that it did not send.
\* emit_persist_fault
Fault(pc) ==
    /\ prod' = [prod EXCEPT !.pc = pc, !.open = FALSE, !.faulted = TRUE]
    /\ live' = Enqueued(Notice("fault"))

\* stamp_or_fault: a frame is queued once it is durable, or not at all.  The
\* log refuses a frame after its terminal and answers a terminal with it,
\* once it could sync the file.
Stamp(f, pc) ==
    \/ /\ ~Ended(Loaded(Home))
       /\ AppendLine(Home, f)
       /\ prod' = [prod EXCEPT !.pc = pc, !.open = ~f.last]
       /\ live' = Enqueued(Sent(Len(file'), f))
    \/ /\ Ended(Loaded(Home)) /\ f.last
       /\ Load(Home)
       /\ prod' = [prod EXCEPT !.pc = pc, !.open = FALSE]
       /\ live' = Enqueued(Sent(Len(Loaded(Home)),
                               Loaded(Home)[Len(Loaded(Home))]))
       /\ UNCHANGED <<file, torn>>
    \/ /\ Ended(Loaded(Home)) /\ (~f.last \/ "disk" \in Faults)
       /\ Load(Home)
       /\ Fault(pc)
       /\ UNCHANGED <<file, torn>>
    \/ /\ ~Ended(Loaded(Home))
       /\ FailLine(Home, f)
       /\ Fault(pc)

\* realtime_callback, and the flush of buffered text before the terminal
Emit ==
    /\ prod.pc \in {"run", "answered", "recorded"}
    /\ prod.open
    /\ Len(file) < MaxFrames
    /\ Stamp(Token, prod.pc)
    /\ UNCHANGED <<record, job, answers, closer, pump, net, resume, client,
                   crashes>>

\* the runtime stores the answer of the turn
RunAnswers ==
    /\ prod.pc = "run"
    /\ prod' = [prod EXCEPT !.pc = "answered"]
    /\ answers' = Append(answers, "own")
    /\ UNCHANGED <<file, torn, cache, live, record, job, closer, pump, net,
                   resume, client, crashes>>

\* finish_session_turn_snapshot and finish_claimed_session_turn
FinishRecord ==
    /\ record' = "finished"
    /\ job' = "ended"

\* the run may have raised, or have had nothing to store
RunFinishes ==
    /\ \/ prod.pc = "answered"
       \/ prod.pc = "run" /\ "noAnswer" \in Faults
    /\ prod' = [prod EXCEPT !.pc = "recorded"]
    /\ FinishRecord
    /\ UNCHANGED <<file, torn, cache, live, answers, closer, pump, net,
                   resume, client, crashes>>

\* put_terminal; a faulted turn is left to ensure_turn_terminal
PutTerminal ==
    /\ prod.pc = "recorded"
    /\ \/ /\ prod.faulted
          /\ prod' = [prod EXCEPT !.pc = "over"]
          /\ UNCHANGED <<file, torn, cache, live>>
       \/ /\ ~prod.faulted
          /\ Stamp(Done, "over")
    /\ UNCHANGED <<record, job, answers, closer, pump, net, resume, client,
                   crashes>>

-----------------------------------------------------------------------------
(***************************************************************************)
(* Closing a turn that ended without a terminal frame: the maintenance     *)
(* thread of a process (close_restarted_turns), or the producer itself     *)
(* after a fault.  The session and closeout locks admit one at a time, but *)
(* the producer's appends and messages do not take them.                   *)
(***************************************************************************)
\* _reconcile_running_request_record: a cancelled or ended job closes its
\* request, whether its turn still runs or not
Closable == record = "finished" \/ job # "running"

\* Mutant: the closeout lock is not taken.
StartCloseout_unlocked(p) ==
    /\ Closable
    /\ ~Ended(file)
    /\ record' = "finished"
    /\ answers' = IF answers = << >> THEN <<"repair">> ELSE answers
    /\ Load(p)
    /\ closer' = closer \cup {p}
    /\ UNCHANGED <<file, torn, prod, live, job, pump, net, resume, client,
                   crashes>>

\* Mutant: a failed append repeats the message on the next round.
StartCloseout_repeats(p) ==
    /\ closer = {}
    /\ Closable
    /\ ~Ended(file)
    /\ record' = "finished"
    /\ answers' = Append(answers, "repair")
    /\ Load(p)
    /\ closer' = {p}
    /\ UNCHANGED <<file, torn, prod, live, job, pump, net, resume, client,
                   crashes>>

\* Mutant: a turn that has its answer is taken for closed.
StartCloseout_answered(p) ==
    /\ closer = {}
    /\ Closable
    /\ answers = << >>
    /\ record' = "finished"
    /\ answers' = <<"repair">>
    /\ Load(p)
    /\ closer' = {p}
    /\ UNCHANGED <<file, torn, prod, live, job, pump, net, resume, client,
                   crashes>>

\* ensure_turn_terminal up to its append: the missing answer is stored, the
\* log is read
StartCloseout(p) ==
    /\ closer = {}
    /\ Closable
    /\ ~(Ended(file) /\ answers # << >> /\ record = "finished"
                     /\ job = "ended")
    /\ record' = "finished"
    /\ answers' = IF answers = << >> THEN <<"repair">> ELSE answers
    /\ Load(p)
    /\ IF Ended(Loaded(p))
       THEN job' = "ended" /\ UNCHANGED closer
       ELSE closer' = {p} /\ UNCHANGED job
    /\ UNCHANGED <<file, torn, prod, live, pump, net, resume, client, crashes>>

\* append_frame of the terminal, then the job's own record; a failure is
\* logged and left to the next round
FinishCloseout(p) ==
    /\ closer = {p}
    /\ closer' = {}
    /\ \/ /\ ~Ended(Loaded(p))
          /\ AppendLine(p, Repair)
          /\ job' = "ended"
       \/ /\ Ended(Loaded(p))
          /\ Load(p)
          /\ job' = "ended" \/ ("disk" \in Faults /\ UNCHANGED job)
          /\ UNCHANGED <<file, torn>>
       \/ /\ ~Ended(Loaded(p))
          /\ FailLine(p, Repair)
          /\ UNCHANGED job
    /\ UNCHANGED <<prod, live, record, answers, pump, net, resume, client,
                   crashes>>

\* the cancel endpoint records the intent; the run notices it in its own time
Cancel ==
    /\ "cancel" \in Faults
    /\ job = "running"
    /\ job' = "cancelling"
    /\ UNCHANGED <<file, torn, cache, prod, live, record, answers, closer,
                   pump, net, resume, client, crashes>>

-----------------------------------------------------------------------------
(***************************************************************************)
(* Sockets.  The client's current connection carries the messages of the   *)
(* submitting socket's queue and of the pumps subscribed on it.            *)
(***************************************************************************)
LostLive == [open |-> FALSE, queue |-> << >>]

\* _drain_turn_queue; an outbox that stays full for 30 s refuses the message
Drain ==
    /\ live.queue # << >>
    /\ \/ /\ net' = Append(net, live.queue[1])
          /\ live' = [live EXCEPT !.queue = Tail(@)]
       \/ /\ "slow" \in Faults
          /\ live' = LostLive
          /\ UNCHANGED net
    /\ UNCHANGED <<file, torn, cache, prod, record, job, answers, closer,
                   pump, resume, client, crashes>>

\* the socket is lost, or the client's watchdog closes it
Disconnect ==
    /\ "drop" \in Faults
    /\ client.up /\ client.conn < MaxConns
    /\ client' = [client EXCEPT !.up = FALSE]
    /\ net' = << >>
    /\ resume' = << >>
    /\ live' = LostLive
    /\ UNCHANGED <<file, torn, cache, prod, record, job, answers, closer,
                   pump, crashes>>

\* the receive loop of a lost socket ends and unsubscribes its pumps
Unsubscribe(i) ==
    /\ pump[i].pc \in {"read", "send", "wait"}
    /\ ~pump[i].closed
    /\ pump[i].conn # client.conn \/ ~client.up
    /\ pump' = [pump EXCEPT ![i].closed = TRUE]
    /\ UNCHANGED <<file, torn, cache, prod, live, record, job, answers,
                   closer, net, resume, client, crashes>>

\* resume_disposition, from the log as loaded, the record and the job
Disposition(p) ==
    IF Ended(Loaded(p)) THEN "ready"
    ELSE IF record = "finished" \/ job = "ended" THEN "interrupted"
    ELSE IF Loaded(p) = << >> THEN "pending"
    ELSE "ready"

\* Mutant: the cursor is taken for the first frame to send.
Attach_skips ==
    LET p == client.at IN
    /\ resume # << >> /\ client.up
    /\ resume' = << >>
    /\ Load(p)
    /\ Disposition(p) = "ready"
    /\ \E i \in Pumps :
          /\ pump[i].pc = "none"
          /\ pump' = [pump EXCEPT ![i] = [NoPump EXCEPT
                         !.pc = "read", !.at = p, !.conn = client.conn,
                         !.cursor = resume[1] + 1]]
    /\ UNCHANGED <<file, torn, prod, live, record, job, answers, closer,
                   net, client, crashes>>

\* _attach_turn_replay: a subscription replaces the connection's earlier one
Attach ==
    LET p == client.at IN
    /\ resume # << >>
    /\ client.up
    /\ resume' = << >>
    /\ Load(p)
    /\ \/ /\ Disposition(p) # "ready"
          /\ net' = Append(net, Notice(Disposition(p)))
          /\ UNCHANGED pump
       \/ /\ Disposition(p) = "ready"
          /\ \E i \in Pumps :
                /\ pump[i].pc = "none"
                /\ \A k \in Pumps : k < i => pump[k].pc # "none"
                /\ pump' = [k \in Pumps |->
                     IF k = i THEN [NoPump EXCEPT !.pc = "read", !.at = p,
                                        !.conn = client.conn,
                                        !.cursor = resume[1]]
                     ELSE IF pump[k].conn = client.conn
                     THEN [pump[k] EXCEPT !.closed = TRUE]
                     ELSE pump[k]]
          /\ UNCHANGED net
    /\ UNCHANGED <<file, torn, prod, live, record, job, answers, closer,
                   client, crashes>>

-----------------------------------------------------------------------------
(***************************************************************************)
(* A pump, TurnLog._pump: read what follows the cursor, send it frame by   *)
(* frame, leave if the cached log has ended, otherwise wait for a wake-up  *)
(* or a quarter of a second.                                               *)
(***************************************************************************)
SetPump(i, r) == pump' = [pump EXCEPT ![i] = r]

PumpRead(i) ==
    /\ pump[i].pc = "read"
    /\ IF pump[i].closed
       THEN /\ SetPump(i, [pump[i] EXCEPT !.pc = "ended"])
            /\ UNCHANGED cache
       ELSE /\ Load(pump[i].at)
            /\ SetPump(i, [pump[i] EXCEPT !.pc = "send",
                                          !.batch = Loaded(pump[i].at)])
    /\ UNCHANGED <<file, torn, prod, live, record, job, answers, closer, net,
                   resume, client, crashes>>

Attached(i) == client.up /\ client.conn = pump[i].conn

PumpSend(i) ==
    LET n == pump[i].cursor + 1
        f == pump[i].batch[n]
    IN
    /\ pump[i].pc = "send"
    /\ n <= Len(pump[i].batch)
    /\ \/ /\ pump[i].closed \/ ~Attached(i) \/ "slow" \in Faults
          /\ SetPump(i, [pump[i] EXCEPT !.pc = "ended"])
          /\ UNCHANGED net
       \/ /\ ~pump[i].closed
          /\ SetPump(i, [pump[i] EXCEPT !.cursor = n,
                             !.pc = IF f.last THEN "ended" ELSE "send"])
          /\ net' = IF Attached(i) THEN Append(net, Sent(n, f)) ELSE net
    /\ UNCHANGED <<file, torn, cache, prod, live, record, job, answers,
                   closer, resume, client, crashes>>

\* the check behind the loop reads self.frames without the lock: a terminal
\* that another thread loaded since the pump's own read ends it unsent
PumpCheck(i) ==
    /\ pump[i].pc = "send"
    /\ pump[i].cursor >= Len(pump[i].batch)
    /\ SetPump(i, [pump[i] EXCEPT !.pc = IF Ended(cache[pump[i].at])
                                         THEN "ended" ELSE "wait"])
    /\ UNCHANGED <<file, torn, cache, prod, live, record, job, answers,
                   closer, net, resume, client, crashes>>

PumpWait(i) ==
    /\ pump[i].pc = "wait"
    /\ SetPump(i, [pump[i] EXCEPT !.pc = IF pump[i].closed THEN "ended"
                                         ELSE "read"])
    /\ UNCHANGED <<file, torn, cache, prod, live, record, job, answers,
                   closer, net, resume, client, crashes>>

-----------------------------------------------------------------------------
(***************************************************************************)
(* The client, turnTransport.ts and streamSequence.ts.                     *)
(***************************************************************************)
\* decideStreamFrame: the sequence number that follows the cursor
Expected(m) == m.seq = Len(client.shown) + 1

\* Mutant: the last applied frame is applied again when it is sent again.
\* handle: the expected frame is applied, an old one is dropped, a
\* later one closes the socket; a notice sends the client to the history, and
\* after a fault (persistFault) it does not resume
Handle(m) ==
    IF client.mode = "finished" THEN client
    ELSE IF m.kind # "frame"
    THEN [client EXCEPT !.fault = (m.kind = "fault"),
                        !.mode = IF m.kind = "pending" THEN "pending"
                                 ELSE "history"]
    ELSE IF Expected(m)
    THEN [client EXCEPT !.shown = Append(@, m.frame),
                        !.mode = IF m.frame.last THEN "finished" ELSE "stream"]
    ELSE [client EXCEPT !.up = m.seq < Len(client.shown) + 1]

Receive ==
    /\ client.up
    /\ net # << >>
    /\ client' = Handle(net[1])
    /\ net' = IF client'.up THEN Tail(net) ELSE << >>
    /\ resume' = IF client'.up THEN resume ELSE << >>
    /\ live' = IF client'.up THEN live ELSE LostLive
    /\ UNCHANGED <<file, torn, cache, prod, record, job, answers, closer,
                   pump, crashes>>

\* reconnectOpenTurns over a new socket
Reconnect(p) ==
    /\ ~client.up /\ client.conn < MaxConns
    /\ client.mode # "finished"
    /\ client' = [client EXCEPT !.up = TRUE, !.at = p, !.conn = @ + 1]
    /\ resume' = IF client.mode = "history" \/ client.fault THEN << >>
                 ELSE <<Len(client.shown)>>
    /\ UNCHANGED <<file, torn, cache, prod, live, record, job, answers,
                   closer, pump, net, crashes>>

\* bound: the client asks again only when earlier answers have arrived
NoticesRead == \A k \in DOMAIN net : net[k].kind = "frame"

\* the poll of a pending turn, or reconnectOpenTurns over the same socket
ResumeAgain ==
    /\ client.up
    /\ \/ client.mode = "pending"
       \/ client.mode = "stream" /\ ~client.fault /\ "again" \in Faults
    /\ resume = << >> /\ NoticesRead
    /\ resume' = <<Len(client.shown)>>
    /\ UNCHANGED <<file, torn, cache, prod, live, record, job, answers,
                   closer, pump, net, client, crashes>>

\* Mutant: only a client that was told to reads the history.
PollHistory_told ==
    /\ client.mode \in {"history", "pending"}
    /\ answers # << >>
    /\ client' = [client EXCEPT !.mode = "finished"]
    /\ UNCHANGED <<file, torn, cache, prod, live, record, job, answers,
                   closer, pump, net, resume, crashes>>

\* reconcileFinishedTurns, every 2.5 s: the stored answer ends the turn
PollHistory ==
    /\ client.mode # "finished"
    /\ answers # << >>
    /\ client.mode \in {"history", "pending"} \/ job = "ended"
    /\ client' = [client EXCEPT !.mode = "finished"]
    /\ UNCHANGED <<file, torn, cache, prod, live, record, job, answers,
                   closer, pump, net, resume, crashes>>

-----------------------------------------------------------------------------
(***************************************************************************)
(* A process stops, with whatever its threads were doing, and starts       *)
(* again; its startup marks the running job ended                          *)
(* (reconcile_running_jobs), whichever process was running it.             *)
(***************************************************************************)
Crash(p) ==
    /\ IF p = Home THEN "crash" \in Faults ELSE "peerRestart" \in Faults
    /\ crashes < MaxCrashes
    /\ crashes' = crashes + 1
    /\ torn' \in IF p = Home \/ closer = {p} THEN {torn, TRUE} ELSE {torn}
    /\ cache' = [cache EXCEPT ![p] = << >>]
    /\ prod' = IF p = Home
               THEN [prod EXCEPT !.pc = "dead", !.open = FALSE]
               ELSE prod
    /\ job' = "ended"
    /\ closer' = closer \ {p}
    /\ pump' = [i \in Pumps |->
                  IF pump[i].at = p /\ pump[i].pc # "none"
                  THEN [pump[i] EXCEPT !.pc = "ended"]
                  ELSE pump[i]]
    /\ client' = IF client.at = p THEN [client EXCEPT !.up = FALSE]
                 ELSE client
    /\ IF client.at = p
       THEN net' = << >> /\ resume' = << >>
       ELSE UNCHANGED <<net, resume>>
    /\ live' = IF p = Home THEN LostLive ELSE live
    /\ UNCHANGED <<file, record, answers>>

Producer == Emit \/ RunAnswers \/ RunFinishes \/ PutTerminal

PumpStep(i) == PumpRead(i) \/ PumpSend(i) \/ PumpCheck(i) \/ PumpWait(i)

Next ==
    \/ Producer
    \/ Cancel
    \/ Drain \/ Disconnect \/ Attach
    \/ Receive \/ ResumeAgain \/ PollHistory
    \/ \E p \in Procs : \/ Reload(p)
                        \/ StartCloseout(p) \/ FinishCloseout(p)
                        \/ Reconnect(p)
                        \/ Crash(p)
    \/ \E i \in Pumps : PumpStep(i) \/ Unsubscribe(i)

Spec == Init /\ [][Next]_vars

(***************************************************************************)
(* Threads run, the turn ends (assumed), the maintenance round repeats     *)
(* every 30 s, the client polls every 2.5 s.  A disk that fails now and    *)
(* then does not fail for ever, hence the strong fairness of the success.  *)
(***************************************************************************)
CloseoutSucceeds(p) == FinishCloseout(p) /\ Ended(file')

FairSpec ==
    /\ Spec
    /\ WF_vars(RunFinishes) /\ WF_vars(RunAnswers)
    /\ WF_vars(PutTerminal)
    /\ WF_vars(\E p \in Procs : StartCloseout(p))
    /\ \A p \in Procs : WF_vars(FinishCloseout(p))
    /\ SF_vars(\E p \in Procs : CloseoutSucceeds(p))
    /\ WF_vars(Drain) /\ WF_vars(Receive) /\ WF_vars(Attach)
    /\ \A i \in Pumps : WF_vars(PumpStep(i))
    /\ WF_vars(\E p \in Procs : Reconnect(p))
    /\ WF_vars(PollHistory)

-----------------------------------------------------------------------------
(***************************************************************************)
(* Properties                                                              *)
(***************************************************************************)
Stream == INSTANCE TurnStream WITH log <- file, shown <- client.shown

\* Whatever the interleaving of appends by several processes, torn lines,
\* restarts, lost sockets and repeated resumes: the log only grows, ends
\* with its one terminal frame, and the client applies exactly its frames,
\* each once and in order (append, _load_locked, _pump, decideStreamFrame).
StreamSpec == Stream!Spec

\* A frame that reaches the client over its current socket is never ahead of
\* the next one it expects: what a socket carries continues the cursor it was
\* opened with, from the live queue, from pumps, or from both at once, so the
\* socket-closing branch of turnTransport.ts is never needed.
NoGap ==
    net # << >> /\ net[1].kind = "frame" /\ client.mode # "finished"
        => net[1].seq <= Len(client.shown) + 1

\* One request gets one assistant message: ensure_turn_terminal adds its
\* interruption notice only to a turn that stores no answer of its own.
OneAnswer == Len(answers) <= 1

\* A turn whose request record is finished gets its terminal frame and its
\* assistant message, even if the producer died or could not write.
TurnIsClosed == record = "finished" ~> Ended(file) /\ answers # << >>

\* The client's turn ends, through the stream or through the history.
ClientFinishes == <>(client.mode = "finished")
=============================================================================
