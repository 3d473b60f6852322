------------------------------ MODULE Approval ------------------------------
(***************************************************************************)
(* The approval extension (extensions/approval/service.py and backend.py)  *)
(* and the two places of the query loop it meets: execution_interceptor,   *)
(* which freezes a configure call instead of running it, and the end of    *)
(* the round, where query_loop.py saves the continuation checkpoint.       *)
(*                                                                         *)
(* A turn freezes the calls of one model round (its decision set), saves   *)
(* one checkpoint for all of them and stops.  HTTP requests decide the     *)
(* frozen operations one by one; an approved one is checked again, claimed *)
(* and sent to the device by the request that claimed it.  The request     *)
(* that finds the whole decision set closed claims the checkpoint and      *)
(* hands it to a thread pool, which resumes the loop.  Every record is a   *)
(* file with its own lock, so each locked section is one step, and the     *)
(* turn, the requests and the pool interleave between them.                *)
(***************************************************************************)
EXTENDS Naturals, FiniteSets

CONSTANTS
    AppOps,      \* prepared operations (operation ids are never reused)
    AppTurns,    \* turns of the query loop
    Requests,    \* requests to the decision route that may run at once
    NoAppOp,     \* "no operation"
    MaxCrashes,  \* bound on the backend restarts
    Faults       \* what else may happen, see FaultKinds

\* early: a user decides before the turn saved its checkpoint;
\* scope: the skill, the device or the connection is edited;
\* persist: a record cannot be saved; crash: the backend dies.
FaultKinds == {"early", "scope", "persist", "crash"}

ASSUME ApprovalAssumption ==
    /\ NoAppOp \notin AppOps
    /\ MaxCrashes \in Nat
    /\ Faults \subseteq FaultKinds

\* The statuses at which claim_ready_continuation counts a call as closed.
Closed == {"executed", "unknown", "invalidated", "rejected", "cancelled"}

OpStatuses == {"none", "pending", "approved", "executing"} \cup Closed

Decisions == {"approved", "rejected", "cancelled"}

VARIABLES
    status,     \* the status of each prepared operation
    attached,   \* it has its continuation's checkpoint_id
    scope,      \* frozen, or edited before (stale) or after (moved) its claim
    calls,      \* how often its commands went to the device
    apc,        \* control point of each turn
    batch,      \* the operations a turn froze: its decision set
    todo,       \* those it has still to attach or to invalidate
    cont,       \* the status of the turn's continuation record
    evidence,   \* checkpoint["operations"]: the statuses the loop resumes on
    pool,       \* the continuation in the executor: none, queued or running
    resumes,    \* how often the turn's loop was resumed
    rpc, rop,   \* control point and operation of each request
    crashes     \* backend restarts so far

opVars   == <<status, attached, scope, calls>>
appTurnVars == <<apc, batch, todo>>
contVars == <<cont, evidence, pool, resumes>>
reqVars  == <<rpc, rop>>

vars == <<opVars, appTurnVars, contVars, reqVars, crashes>>

Init ==
    /\ status = [o \in AppOps |-> "none"]
    /\ attached = [o \in AppOps |-> FALSE]
    /\ scope = [o \in AppOps |-> "frozen"]
    /\ calls = [o \in AppOps |-> 0]
    /\ apc = [t \in AppTurns |-> "running"]
    /\ batch = [t \in AppTurns |-> {}]
    /\ todo = [t \in AppTurns |-> {}]
    /\ cont = [t \in AppTurns |-> "none"]
    /\ evidence = [t \in AppTurns |-> [o \in AppOps |-> "none"]]
    /\ pool = [t \in AppTurns |-> "none"]
    /\ resumes = [t \in AppTurns |-> 0]
    /\ rpc = [r \in Requests |-> "idle"]
    /\ rop = [r \in Requests |-> NoAppOp]
    /\ crashes = 0

-----------------------------------------------------------------------------
(* The turn: freeze the calls, then save the checkpoint.                   *)

Prepare(t, o) ==
    /\ apc[t] = "running"
    /\ status[o] = "none"
    /\ status' = [status EXCEPT ![o] = "pending"]
    /\ batch' = [batch EXCEPT ![t] = @ \cup {o}]
    /\ UNCHANGED <<attached, scope, calls, apc, todo, contVars, reqVars,
                   crashes>>

\* attach_continuation_checkpoint: first the continuation record ...
SaveContinuation(t) ==
    /\ apc[t] = "running"
    /\ batch[t] # {}
    /\ cont' = [cont EXCEPT ![t] = "waiting_decisions"]
    /\ apc' = [apc EXCEPT ![t] = "attaching"]
    /\ todo' = [todo EXCEPT ![t] = batch[t]]
    /\ UNCHANGED <<opVars, batch, evidence, pool, resumes, reqVars, crashes>>

\* ... then its id into each operation, whatever its status is by now.
Attach(t, o) ==
    /\ apc[t] = "attaching"
    /\ o \in todo[t]
    /\ attached' = [attached EXCEPT ![o] = TRUE]
    /\ todo' = [todo EXCEPT ![t] = @ \ {o}]
    /\ apc' = [apc EXCEPT ![t] = IF todo[t] = {o} THEN "waiting" ELSE @]
    /\ UNCHANGED <<status, scope, calls, batch, contVars, reqVars, crashes>>

\* An exception in either step: query_loop.py goes on to invalidate.
PersistFails(t) ==
    /\ "persist" \in Faults
    /\ \/ apc[t] = "running" /\ batch[t] # {}
       \/ apc[t] = "attaching"
    /\ apc' = [apc EXCEPT ![t] = "invalidating"]
    /\ todo' = [todo EXCEPT ![t] = batch[t]]
    /\ UNCHANGED <<opVars, batch, contVars, reqVars, crashes>>

\* invalidate_uncheckpointed_operations: only what is still pending.
Invalidate(t, o) ==
    /\ apc[t] = "invalidating"
    /\ o \in todo[t]
    /\ status' = [status EXCEPT ![o] = IF @ = "pending" THEN "invalidated"
                                       ELSE @]
    /\ todo' = [todo EXCEPT ![t] = @ \ {o}]
    /\ apc' = [apc EXCEPT ![t] = IF todo[t] = {o} THEN "failed" ELSE @]
    /\ UNCHANGED <<attached, scope, calls, batch, contVars, reqVars, crashes>>

\* A second exception leaves the except block: the turn ends without a word
\* about its operations.
InvalidateFails(t) ==
    /\ "persist" \in Faults
    /\ apc[t] = "invalidating"
    /\ apc' = [apc EXCEPT ![t] = "dead"]
    /\ UNCHANGED <<opVars, batch, todo, contVars, reqVars, crashes>>

-----------------------------------------------------------------------------
(* The decision route: one request runs from Decide to Wake.               *)

Goto(r, point) == rpc' = [rpc EXCEPT ![r] = point]

\* A user of the normal flow decides once the turn is waiting.
Decidable(o) ==
    /\ status[o] # "none"
    /\ \/ "early" \in Faults
       \/ \A t \in AppTurns : o \in batch[t] =>
              apc[t] \notin {"running", "attaching", "invalidating"}

Decided(o, d) == IF status[o] = "pending" THEN d ELSE status[o]

\* Mutant: a record that was not approved ends the request.
AfterDecision_ends(s) == IF s = "approved" THEN "claim" ELSE "idle"

AfterDecision(s) == IF s = "approved" THEN "claim" ELSE "wake"

Decide(r, o, d) ==
    /\ rpc[r] = "idle"
    /\ Decidable(o)
    /\ status' = [status EXCEPT ![o] = Decided(o, d)]
    /\ rop' = [rop EXCEPT ![r] = o]
    /\ Goto(r, AfterDecision(Decided(o, d)))
    /\ UNCHANGED <<attached, scope, calls, appTurnVars, contVars, crashes>>

\* Mutant: an operation that was claimed already can be claimed again.
Claimable_again(o) == status[o] \in {"approved", "executing"}

Claimable(o) == status[o] = "approved"

\* Mutant: the revision check is dropped.
ScopeValid_any(o) == TRUE

\* The digest and the current skill, device and connection against the
\* frozen ones.
ScopeValid(o) == scope[o] = "frozen"

\* claim_execution.
Claim(r) ==
    LET o == rop[r]
    IN  /\ rpc[r] = "claim"
        /\ \/ /\ ~Claimable(o)                     \* operation_not_approved
              /\ Goto(r, "idle")
              /\ UNCHANGED status
           \/ /\ Claimable(o)
              /\ ~(ScopeValid(o) /\ attached[o])
              /\ status' = [status EXCEPT ![o] = "invalidated"]
              /\ Goto(r, "wake")
           \/ /\ Claimable(o) /\ ScopeValid(o) /\ attached[o]
              /\ status' = [status EXCEPT ![o] = "executing"]
              /\ Goto(r, "invoke")
        /\ UNCHANGED <<attached, scope, calls, appTurnVars, contVars, rop,
                       crashes>>

\* ToolRuntimeClient.invoke sends the frozen commands, or fails before it
\* reaches the device.
InvokeFrozen(r) ==
    /\ rpc[r] = "invoke"
    /\ \E sent \in {0, 1} : calls' = [calls EXCEPT ![rop[r]] = @ + sent]
    /\ Goto(r, "settle")
    /\ UNCHANGED <<status, attached, scope, appTurnVars, contVars, rop, crashes>>

\* settle_execution; an exception or execution_may_continue is "unknown".
Settle(r, outcome) ==
    LET o == rop[r]
    IN  /\ rpc[r] = "settle"
        /\ outcome \in {"executed", "unknown"}
        /\ status' = [status EXCEPT ![o] = IF @ = "executing" THEN outcome
                                           ELSE @]
        /\ Goto(r, "wake")
        /\ UNCHANGED <<attached, scope, calls, appTurnVars, contVars, rop,
                       crashes>>

\* Mutant: only the request's own operation is looked at.
Ready_own(t, o) == cont[t] = "waiting_decisions" /\ status[o] \in Closed

\* The continuation's lock is held; Closed statuses are final, so reading
\* the operations one after the other is the same as reading them at once.
Ready(t, o) ==
    /\ cont[t] = "waiting_decisions"
    /\ \A p \in batch[t] : status[p] \in Closed

\* claim_ready_continuation and the hand-over to the executor.
Wake(r) ==
    LET o == rop[r]
        ready == {t \in AppTurns : attached[o] /\ o \in batch[t] /\ Ready(t, o)}
    IN  /\ rpc[r] = "wake"
        /\ cont' = [t \in AppTurns |->
                      IF t \in ready THEN "resuming" ELSE cont[t]]
        /\ evidence' = [t \in AppTurns |->
                          IF t \in ready
                          THEN [p \in AppOps |-> IF p \in batch[t] THEN status[p]
                                                 ELSE "none"]
                          ELSE evidence[t]]
        /\ pool' = [t \in AppTurns |-> IF t \in ready THEN "queued" ELSE pool[t]]
        /\ Goto(r, "idle")
        /\ UNCHANGED <<opVars, appTurnVars, resumes, rop, crashes>>

\* A lock or a save raises: the route has no handler for it and answers 500.
RequestFails(r) ==
    /\ "persist" \in Faults
    /\ rpc[r] \in {"claim", "settle", "wake"}
    /\ Goto(r, "idle")
    /\ UNCHANGED <<opVars, appTurnVars, contVars, rop, crashes>>

-----------------------------------------------------------------------------
(* The executor: _resume_checkpoint.                                       *)

Resume(t) ==
    /\ pool[t] = "queued"
    /\ pool' = [pool EXCEPT ![t] = "running"]
    /\ resumes' = [resumes EXCEPT ![t] = @ + 1]
    /\ UNCHANGED <<opVars, appTurnVars, cont, evidence, reqVars, crashes>>

\* Mutant: the executor forgets to settle the continuation.
SettleContinuation_keeps(t) ==
    /\ pool[t] = "running"
    /\ pool' = [pool EXCEPT ![t] = "none"]
    /\ UNCHANGED <<opVars, appTurnVars, cont, evidence, resumes, reqVars, crashes>>

\* settle_continuation, after the turn or after its exception.
SettleContinuation(t) ==
    /\ pool[t] = "running"
    /\ pool' = [pool EXCEPT ![t] = "none"]
    /\ cont' = [cont EXCEPT ![t] = "resumed"]
    /\ UNCHANGED <<opVars, appTurnVars, evidence, resumes, reqVars, crashes>>

\* The save in the except block raises too, into the executor's future.
SettleContinuationFails(t) ==
    /\ "persist" \in Faults
    /\ pool[t] = "running"
    /\ pool' = [pool EXCEPT ![t] = "none"]
    /\ UNCHANGED <<opVars, appTurnVars, cont, evidence, resumes, reqVars, crashes>>

-----------------------------------------------------------------------------
(* The environment.                                                        *)

EditScope(o) ==
    /\ "scope" \in Faults
    /\ scope[o] = "frozen"
    /\ status[o] # "none"
    /\ scope' = [scope EXCEPT ![o] =
                   IF status[o] \in {"pending", "approved"} THEN "stale"
                   ELSE "moved"]
    /\ UNCHANGED <<status, attached, calls, appTurnVars, contVars, reqVars,
                   crashes>>

\* The turns, the requests and the executor are gone; the records stay, and
\* nothing at startup looks at them.
Crash ==
    /\ "crash" \in Faults
    /\ crashes < MaxCrashes
    /\ crashes' = crashes + 1
    /\ apc' = [t \in AppTurns |->
                 IF apc[t] \in {"waiting", "failed"} \/ batch[t] = {}
                 THEN apc[t] ELSE "dead"]
    /\ pool' = [t \in AppTurns |-> "none"]
    /\ rpc' = [r \in Requests |-> "idle"]
    /\ UNCHANGED <<opVars, batch, todo, cont, evidence, resumes, rop>>

AppTurnStep(t) ==
    \/ \E o \in AppOps : Prepare(t, o) \/ Attach(t, o) \/ Invalidate(t, o)
    \/ SaveContinuation(t) \/ PersistFails(t) \/ InvalidateFails(t)

RequestStep(r) ==
    \/ Claim(r) \/ InvokeFrozen(r) \/ Wake(r)
    \/ \E outcome \in {"executed", "unknown"} : Settle(r, outcome)

Next ==
    \/ \E t \in AppTurns :
          \/ AppTurnStep(t) \/ Resume(t)
          \/ SettleContinuation(t) \/ SettleContinuationFails(t)
    \/ \E r \in Requests :
          \/ RequestStep(r) \/ RequestFails(r)
          \/ \E o \in AppOps, d \in Decisions : Decide(r, o, d)
    \/ \E o \in AppOps : EditScope(o)
    \/ Crash

\* Threads that run keep running; a user need never decide anything.
Fairness ==
    /\ \A t \in AppTurns : /\ WF_vars(\E o \in AppOps : Attach(t, o))
                           /\ WF_vars(Resume(t))
                           /\ WF_vars(SettleContinuation(t))
    /\ \A r \in Requests : WF_vars(RequestStep(r))

Spec == Init /\ [][Next]_vars

FairSpec == Spec /\ Fairness

-----------------------------------------------------------------------------
(* Properties.                                                             *)

OpsOK ==
    /\ status \in [AppOps -> OpStatuses]
    /\ attached \in [AppOps -> BOOLEAN]
    /\ scope \in [AppOps -> {"frozen", "stale", "moved"}]
    /\ calls \in [AppOps -> Nat]

AppTurnsOK ==
    /\ apc \in [AppTurns -> {"running", "attaching", "invalidating", "waiting",
                             "failed", "dead"}]
    /\ batch \in [AppTurns -> SUBSET AppOps]
    /\ todo \in [AppTurns -> SUBSET AppOps]

ContOK ==
    /\ cont \in [AppTurns -> {"none", "waiting_decisions", "resuming",
                              "resumed"}]
    /\ evidence \in [AppTurns -> [AppOps -> OpStatuses]]
    /\ pool \in [AppTurns -> {"none", "queued", "running"}]
    /\ resumes \in [AppTurns -> Nat]

RequestsOK ==
    /\ rpc \in [Requests -> {"idle", "claim", "invoke", "settle", "wake"}]
    /\ rop \in [Requests -> AppOps \cup {NoAppOp}]
    /\ \A r \in Requests : rpc[r] # "idle" => rop[r] \in AppOps

\* Every variable of the approval records, the turns, the requests and the
\* executor keeps its type, and a request inside the decision route always
\* has its operation.
TypeOK ==
    /\ OpsOK /\ AppTurnsOK /\ ContOK /\ RequestsOK
    /\ crashes \in Nat

\* A frozen call goes to the device at most once, and only while or after it
\* was approved and claimed: not when two tabs decide at once, not when a
\* decision is sent again, not after a restart, and never when it was
\* rejected, cancelled or invalidated.
DeviceOnce ==
    \A o \in AppOps :
        /\ calls[o] <= 1
        /\ calls[o] > 0 => status[o] \in {"executing", "executed", "unknown"}

\* APPROVAL_EXTENSION.md: a changed skill, device or connection voids the
\* approval; what was edited before the claim never reaches the device.
StaleNeverRuns == \A o \in AppOps : scope[o] = "stale" => calls[o] = 0

\* The loop is resumed once, on a decision set that is closed, and what it is
\* told of each call stays true: no operation moves on after the resumption.
ResumedOnFinalEvidence ==
    \A t \in AppTurns :
        /\ resumes[t] <= 1
        /\ cont[t] \in {"resuming", "resumed"} =>
              \A o \in batch[t] :
                  evidence[t][o] = status[o] /\ status[o] \in Closed

\* Whoever closes the last operation of a decision set resumes the loop: two
\* requests that end at the same time never leave it to each other.
ClosedSetIsClaimed ==
    \A t \in AppTurns :
        (/\ cont[t] = "waiting_decisions"
         /\ \A o \in batch[t] : status[o] \in Closed)
        ~> (cont[t] # "waiting_decisions")

\* A continuation that was claimed is resumed.
ClaimedIsResumed ==
    \A t \in AppTurns : (cont[t] = "resuming") ~> (cont[t] = "resumed")
=============================================================================
