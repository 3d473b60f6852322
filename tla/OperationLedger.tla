--------------------------- MODULE OperationLedger ---------------------------
(***************************************************************************)
(* The durable ledger of side-effecting tool calls                         *)
(* (core/runtime_engine/operation_ledger.py) and everyone who writes it:   *)
(* the tool executor of a turn (loop_tools.py), the callbacks of handlers  *)
(* that outlive a timeout (tool_runtime.py, loop_tools.py), the read-back  *)
(* of a later call, the administrator, and the reconciliation that runs    *)
(* at backend start (backend/main.py) or when the ledger is listed         *)
(* (backend/api/admin_routes.py).                                          *)
(*                                                                         *)
(* A turn runs in the backend process or, as an agent job, in the worker   *)
(* process (jobs/runner.py); both share the ledger files.  Every ledger    *)
(* function holds the record's FileLock, so each is one atomic step; what  *)
(* happens between two of them is not.                                     *)
(***************************************************************************)
EXTENDS Naturals

CONSTANTS
    Ops,          \* operations: one per (turn, call id), never reused
    Turns,        \* agent turns
    WorkerTurns,  \* the turns that run in the job worker's process
    NoOp,         \* no operation
    NoTurn,       \* no turn
    MaxBoots,     \* bound: backend restarts
    Outside,      \* which outside parties act
    LedgerFaults        \* which failures may happen

ASSUME LedgerAssumption ==
    /\ WorkerTurns \subseteq Turns
    /\ NoOp \notin Ops
    /\ NoTurn \notin Turns
    /\ MaxBoots \in Nat
    /\ Outside \subseteq {"resources", "admin", "listing"}
    /\ LedgerFaults \subseteq {"backendRestart", "workerCrash", "ledgerError"}

Open == {"planned", "running", "unknown"}

LedgerTerminal == {"succeeded", "failed", "blocked", "reconciled", "indeterminate"}

\* Who wrote the status last (resolved_by; "finish" when finish_operation did).
Resolvers == {"none", "finish", "timed_out_handler", "request_budget_handler",
              "network_readback", "manual", "durable_resource",
              "startup_reconciliation"}

\* What a handler returns: ok; not ok; executed = FALSE; or
\* execution_may_continue = TRUE, when the handler itself does not know.
Reports == {"ok", "error", "notExecuted", "uncertain"}

\* `at` orders started_at (planned_at until then) against the backend boots.
Record ==
    [status : {"none"} \cup Open \cup LedgerTerminal, turn : Turns \cup {NoTurn},
     at : Nat, linked : BOOLEAN, by : Resolvers]

NoRecord ==
    [status |-> "none", turn |-> NoTurn, at |-> 0, linked |-> FALSE,
     by |-> "none"]

Reconcilers == {"startup", "admin"}

VARIABLES
    ledger,      \* the record of each operation
    handler,     \* the handler call: idle, running, returned, or dead
    report,      \* what the handler returned
    watch,       \* the done-callback waiting for a handler that timed out
    resource,    \* the job or subagent the handler created
    tpc,         \* control point of each turn
    cur,         \* the operation the turn is executing
    heard,       \* the result the turn got for it
    pending,     \* ctx.extras["unknown_outcome"]: its operation
    reconciled,  \* ctx.extras["unknown_outcome_reconciliation"] is set
    boots,       \* backend starts since the first
    due,         \* startup reconciliation has not read the ledger yet
    lscan         \* the records each reconciler read and has not handled

ledgerVars == <<ledger, handler, report, watch, resource, tpc, cur, heard, pending,
          reconciled, boots, due, lscan>>

turnVars == <<tpc, cur, heard, pending, reconciled>>
callVars == <<handler, report, watch>>
bootVars == <<boots, due, lscan>>

LedgerInit ==
    /\ ledger = [o \in Ops |-> NoRecord]
    /\ handler = [o \in Ops |-> "idle"]
    /\ report = [o \in Ops |-> "none"]
    /\ watch = [o \in Ops |-> "none"]
    /\ resource = [o \in Ops |-> "none"]
    /\ tpc = [t \in Turns |-> "new"]
    /\ cur = [t \in Turns |-> NoOp]
    /\ heard = [t \in Turns |-> "none"]
    /\ pending = [t \in Turns |-> NoOp]
    /\ reconciled = [t \in Turns |-> FALSE]
    /\ boots = 0
    /\ due = FALSE
    /\ lscan = [r \in Reconcilers |-> {}]

-----------------------------------------------------------------------------
(* The record operations.                                                  *)

PlannedRecord(t) ==
    [NoRecord EXCEPT !.status = "planned", !.turn = t, !.at = boots]

SetStarted(rec) ==
    IF rec.status = "planned"
    THEN [rec EXCEPT !.status = "running", !.at = boots]
    ELSE rec

\* Mutant: may_continue is tested after ok, so a timeout counts as a failure.
FinishStatus_timeoutFails(result) ==
    CASE result = "uncertain"   -> "unknown"
      [] result = "notExecuted" -> "blocked"
      [] result = "ok"          -> "succeeded"
      [] OTHER                  -> "failed"

FinishStatus(result) ==
    CASE result \in {"timeout", "uncertain"} -> "unknown"
      [] result = "notExecuted"              -> "blocked"
      [] result = "ok"                       -> "succeeded"
      [] OTHER                               -> "failed"

\* Mutant: no look at the status the record already has.
SetFinished_always(rec, result) ==
    [rec EXCEPT !.status = FinishStatus(result), !.by = "finish"]

SetFinished(rec, result) ==
    IF \/ rec.status \notin Open
       \/ rec.status = "unknown" /\ FinishStatus(result) = "unknown"
    THEN rec
    ELSE [rec EXCEPT !.status = FinishStatus(result), !.by = "finish"]

\* settle_operation; with require_unresolved the caller tests CanSettle first.
CanSettle(rec) == rec.status \in Open

Settled(rec, status, by) ==
    IF CanSettle(rec) THEN [rec EXCEPT !.status = status, !.by = by] ELSE rec

-----------------------------------------------------------------------------
(* A turn executes one side-effecting call.                                *)

AtRest == {"new", "ready"}

\* The results the turn waits for: the handler is still its own.
Waiting(t) == tpc[t] = "executing" /\ heard[t] = "none"

Plan(t, o) ==
    /\ tpc[t] \in AtRest
    /\ ledger[o].status = "none"
    /\ ledger' = [ledger EXCEPT ![o] = PlannedRecord(t)]
    /\ tpc' = [tpc EXCEPT ![t] = "planned"]
    /\ cur' = [cur EXCEPT ![t] = o]
    /\ UNCHANGED <<callVars, resource, heard, pending, reconciled, bootVars>>

\* remaining_execution_seconds() <= 0: the call is never started.
BudgetExhausted(t) ==
    /\ tpc[t] = "planned"
    /\ tpc' = [tpc EXCEPT ![t] = "executing"]
    /\ heard' = [heard EXCEPT ![t] = "notExecuted"]
    /\ UNCHANGED <<ledger, callVars, resource, cur, pending, reconciled,
                   bootVars>>

\* The record start_operation returns is not looked at.
Start(t) ==
    /\ tpc[t] = "planned"
    /\ ledger' = [ledger EXCEPT ![cur[t]] = SetStarted(@)]
    /\ tpc' = [tpc EXCEPT ![t] = "executing"]
    /\ UNCHANGED <<callVars, resource, cur, heard, pending, reconciled,
                   bootVars>>

\* execute_node refuses: cancelled before start, or no such handler/caller.
Refuse(t, result) ==
    /\ Waiting(t)
    /\ handler[cur[t]] = "idle"
    /\ result \in {"notExecuted", "error"}
    /\ heard' = [heard EXCEPT ![t] = result]
    /\ UNCHANGED <<ledger, callVars, resource, tpc, cur, pending, reconciled,
                   bootVars>>

Invoke(t) ==
    /\ Waiting(t)
    /\ handler[cur[t]] = "idle"
    /\ handler' = [handler EXCEPT ![cur[t]] = "running"]
    /\ UNCHANGED <<ledger, report, watch, resource, turnVars, bootVars>>

\* create_job or create_subagent_task inside the handler ...
CreateResource(o) ==
    /\ "resources" \in Outside
    /\ handler[o] = "running"
    /\ resource[o] = "none"
    /\ resource' = [resource EXCEPT ![o] = "live"]
    /\ UNCHANGED <<ledger, callVars, turnVars, bootVars>>

\* ... and link_operation_resource, whatever the status of the record.
LinkResource(o) ==
    /\ handler[o] = "running"
    /\ resource[o] # "none"
    /\ ~ledger[o].linked
    /\ ledger' = [ledger EXCEPT ![o].linked = TRUE]
    /\ UNCHANGED <<callVars, resource, turnVars, bootVars>>

ResourceEnds(o, status) ==
    /\ resource[o] = "live"
    /\ status \in {"succeeded", "failed"}
    /\ resource' = [resource EXCEPT ![o] = status]
    /\ UNCHANGED <<ledger, callVars, turnVars, bootVars>>

ResourceDeleted(o) ==
    /\ resource[o] \in {"succeeded", "failed"}
    /\ resource' = [resource EXCEPT ![o] = "deleted"]
    /\ UNCHANGED <<ledger, callVars, turnVars, bootVars>>

\* The handler's thread ends; the turn gets the result unless it gave up.
HandlerReturns(o, result) ==
    /\ handler[o] = "running"
    /\ resource[o] # "none" => ledger[o].linked
    /\ handler' = [handler EXCEPT ![o] = "returned"]
    /\ report' = [report EXCEPT ![o] = result]
    /\ heard' = [t \in Turns |->
                   IF Waiting(t) /\ cur[t] = o THEN result ELSE heard[t]]
    /\ UNCHANGED <<ledger, watch, resource, tpc, cur, pending, reconciled,
                   bootVars>>

\* The per-tool timeout of execute_node.
NodeTimeout(t) ==
    /\ Waiting(t)
    /\ handler[cur[t]] = "running"
    /\ heard' = [heard EXCEPT ![t] = "timeout"]
    /\ watch' = [watch EXCEPT ![cur[t]] = "node"]
    /\ UNCHANGED <<ledger, handler, report, resource, tpc, cur, pending,
                   reconciled, bootVars>>

\* The request budget ends first; execute_node keeps waiting, detached ...
BudgetTimeout(t) ==
    /\ Waiting(t)
    /\ handler[cur[t]] = "running"
    /\ heard' = [heard EXCEPT ![t] = "timeout"]
    /\ watch' = [watch EXCEPT ![cur[t]] = "budget"]
    /\ UNCHANGED <<ledger, handler, report, resource, tpc, cur, pending,
                   reconciled, bootVars>>

\* ... until its own timeout: its "may continue" ends the budget's callback.
DetachedNodeTimeout(o) ==
    /\ handler[o] = "running"
    /\ watch[o] = "budget"
    /\ watch' = [watch EXCEPT ![o] = "node"]
    /\ UNCHANGED <<ledger, handler, report, resource, turnVars, bootVars>>

\* finish_operation, then _mark_unknown_write_outcome: only the first
\* uncertain write of a turn is remembered for read-back.
Finish(t) ==
    /\ tpc[t] = "executing"
    /\ heard[t] # "none"
    /\ ledger' = [ledger EXCEPT ![cur[t]] = SetFinished(@, heard[t])]
    /\ pending' = [pending EXCEPT ![t] =
                     IF FinishStatus(heard[t]) = "unknown" /\ @ = NoOp
                     THEN cur[t] ELSE @]
    /\ tpc' = [tpc EXCEPT ![t] = "ready"]
    /\ cur' = [cur EXCEPT ![t] = NoOp]
    /\ heard' = [heard EXCEPT ![t] = "none"]
    /\ UNCHANGED <<callVars, resource, reconciled, bootVars>>

-----------------------------------------------------------------------------
(* Handlers that outlive their timeout.                                    *)

\* Mutant: the callback takes any returned value for a success.
LateStatus_anyReturn(result) == "succeeded"

\* _settle_detached_operation looks at `ok` only.
LateStatus(result) == IF result = "ok" THEN "succeeded" ELSE "failed"

NodeSettles(o) ==
    /\ handler[o] = "returned"
    /\ watch[o] = "node"
    /\ watch' = [watch EXCEPT ![o] = "none"]
    /\ ledger' = [ledger EXCEPT ![o] =
                    Settled(@, LateStatus(report[o]), "timed_out_handler")]
    /\ UNCHANGED <<handler, report, resource, turnVars, bootVars>>

\* _settle_budget_detached_operation keeps "may continue" out of the ledger.
BudgetSettles(o) ==
    /\ handler[o] = "returned"
    /\ watch[o] = "budget"
    /\ watch' = [watch EXCEPT ![o] = "none"]
    /\ ledger' = [ledger EXCEPT ![o] =
                    IF report[o] = "uncertain" THEN @
                    ELSE Settled(@, FinishStatus(report[o]),
                                 "request_budget_handler")]
    /\ UNCHANGED <<handler, report, resource, turnVars, bootVars>>

\* Both callbacks swallow an error of the ledger.
LateSettleFails(o) ==
    /\ "ledgerError" \in LedgerFaults
    /\ handler[o] = "returned"
    /\ watch[o] # "none"
    /\ watch' = [watch EXCEPT ![o] = "none"]
    /\ UNCHANGED <<ledger, handler, report, resource, turnVars, bootVars>>

\* asyncio.run cancels every task that is still pending when the turn's
\* coroutine ends: a detached callback then sees CancelledError and returns.
Detached(t) ==
    [o \in Ops |-> IF ledger[o].turn = t /\ handler[o] = "running"
                   THEN "none" ELSE watch[o]]

TurnEnds(t) ==
    /\ tpc[t] = "ready"
    /\ tpc' = [tpc EXCEPT ![t] = "ended"]
    /\ watch' = Detached(t)
    /\ UNCHANGED <<ledger, handler, report, resource, cur, heard, pending,
                   reconciled, bootVars>>

\* A reliable same-connection read settles the remembered write; the
\* context is marked before the ledger is asked, and a refusal ends the turn.
ReadBack(t) ==
    /\ tpc[t] = "ready"
    /\ pending[t] # NoOp
    /\ ~reconciled[t]
    /\ reconciled' = [reconciled EXCEPT ![t] = TRUE]
    /\ \/ /\ CanSettle(ledger[pending[t]])
          /\ ledger' = [ledger EXCEPT ![pending[t]] =
                          Settled(@, "reconciled", "network_readback")]
          /\ UNCHANGED <<tpc, watch>>
       \/ /\ ~CanSettle(ledger[pending[t]])
          /\ tpc' = [tpc EXCEPT ![t] = "aborted"]
          /\ watch' = Detached(t)
          /\ UNCHANGED ledger
    /\ UNCHANGED <<handler, report, resource, cur, heard, pending, bootVars>>

\* A ledger call of the turn raises: RUNTIME_EXCEPTION ends the turn.
TurnFails(t) ==
    /\ "ledgerError" \in LedgerFaults
    /\ \/ tpc[t] \in {"ready", "planned"}
       \/ tpc[t] = "executing" /\ heard[t] # "none"
    /\ tpc' = [tpc EXCEPT ![t] = "failed"]
    /\ watch' = Detached(t)
    /\ UNCHANGED <<ledger, handler, report, resource, cur, heard, pending,
                   reconciled, bootVars>>

-----------------------------------------------------------------------------
(* The administrator and the reconcilers.                                  *)

ResolveManually(o, status) ==
    /\ "admin" \in Outside
    /\ status \in {"succeeded", "failed"}
    /\ CanSettle(ledger[o])
    /\ ledger' = [ledger EXCEPT ![o] = Settled(@, status, "manual")]
    /\ UNCHANGED <<callVars, resource, turnVars, bootVars>>

\* list_operations: the open records as they are now.
Snapshot ==
    {[op |-> o, status |-> ledger[o].status, at |-> ledger[o].at,
      linked |-> ledger[o].linked] : o \in {p \in Ops : CanSettle(ledger[p])}}

ListForStartup ==
    /\ due
    /\ due' = FALSE
    /\ lscan' = [lscan EXCEPT !["startup"] = Snapshot]
    /\ UNCHANGED <<ledger, callVars, resource, turnVars, boots>>

ListForAdmin ==
    /\ "listing" \in Outside
    /\ lscan["admin"] = {}
    /\ Snapshot # {}
    /\ lscan' = [lscan EXCEPT !["admin"] = Snapshot]
    /\ UNCHANGED <<ledger, callVars, resource, turnVars, boots, due>>

\* Mutant: off by one, a record of this process is taken for an older one.
StartedBefore_orNow(r, s) == r = "startup" /\ s.at <= boots

\* _started_before, with the boundary only startup has.
StartedBefore(r, s) == r = "startup" /\ s.at < boots

\* Mutant: a record without a result is taken for one that never ran.
OrphanStatus_noResult(s) ==
    IF s.status \in {"planned", "running"} THEN "blocked" ELSE "indeterminate"

OrphanStatus(s) == IF s.status = "planned" THEN "blocked" ELSE "indeterminate"

\* Mutant: a record that was never started is left alone.
Reconciled_skipsPlanned(r, s) ==
    LET rec == ledger[s.op]
        found == s.linked /\ resource[s.op] \in {"live", "succeeded", "failed"}
    IN  CASE found /\ resource[s.op] # "live" ->
               Settled(rec, resource[s.op], "durable_resource")
          [] ~found /\ StartedBefore(r, s) /\ s.status # "planned" ->
               Settled(rec, OrphanStatus(s), "startup_reconciliation")
          [] OTHER -> rec

\* Mutant: the resource's status is copied whatever it is.
Reconciled_copies(r, s) ==
    LET rec == ledger[s.op]
        found == s.linked /\ resource[s.op] \in {"live", "succeeded", "failed"}
    IN  CASE found -> Settled(rec, resource[s.op], "durable_resource")
          [] ~found /\ StartedBefore(r, s) ->
               Settled(rec, OrphanStatus(s), "startup_reconciliation")
          [] OTHER -> rec

\* One iteration of reconcile_operations: decided on the record that was
\* read, written to the record that is there now.
Reconciled(r, s) ==
    LET rec == ledger[s.op]
        found == s.linked /\ resource[s.op] \in {"live", "succeeded", "failed"}
    IN  CASE found /\ resource[s.op] # "live" ->
               Settled(rec, resource[s.op], "durable_resource")
          [] ~found /\ StartedBefore(r, s) ->
               Settled(rec, OrphanStatus(s), "startup_reconciliation")
          [] OTHER -> rec

Reconcile(r, s) ==
    /\ s \in lscan[r]
    /\ lscan' = [lscan EXCEPT ![r] = @ \ {s}]
    /\ ledger' = [ledger EXCEPT ![s.op] = Reconciled(r, s)]
    /\ UNCHANGED <<callVars, resource, turnVars, boots, due>>

ReconcileFails(r) ==
    /\ "ledgerError" \in LedgerFaults
    /\ lscan[r] # {}
    /\ lscan' = [lscan EXCEPT ![r] = {}]
    /\ UNCHANGED <<ledger, callVars, resource, turnVars, boots, due>>

-----------------------------------------------------------------------------
(* Process failures.                                                       *)

\* The turns of a process die with it, and so do its handlers' threads.
Kill(ts) ==
    /\ tpc' = [t \in Turns |-> IF t \in ts /\ tpc[t] # "new" THEN "dead"
                               ELSE tpc[t]]
    /\ handler' = [o \in Ops |->
                     IF ledger[o].turn \in ts /\ handler[o] = "running"
                     THEN "dead" ELSE handler[o]]
    /\ watch' = [o \in Ops |->
                   IF ledger[o].turn \in ts THEN "none" ELSE watch[o]]
    /\ UNCHANGED <<ledger, report, resource, cur, heard, pending, reconciled>>

BackendRestart ==
    /\ "backendRestart" \in LedgerFaults
    /\ boots < MaxBoots
    /\ Kill(Turns \ WorkerTurns)
    /\ boots' = boots + 1
    /\ due' = TRUE
    /\ lscan' = [r \in Reconcilers |-> {}]

LedgerWorkerCrash ==
    /\ "workerCrash" \in LedgerFaults
    /\ \E t \in WorkerTurns : tpc[t] \notin {"new", "dead"}
    /\ Kill(WorkerTurns)
    /\ UNCHANGED bootVars

TurnStep(t) ==
    \/ \E o \in Ops : Plan(t, o)
    \/ BudgetExhausted(t) \/ Start(t) \/ Invoke(t)
    \/ \E result \in {"notExecuted", "error"} : Refuse(t, result)
    \/ NodeTimeout(t) \/ BudgetTimeout(t) \/ Finish(t)
    \/ ReadBack(t) \/ TurnEnds(t) \/ TurnFails(t)

HandlerStep(o) ==
    \/ CreateResource(o) \/ LinkResource(o)
    \/ \E result \in Reports : HandlerReturns(o, result)
    \/ DetachedNodeTimeout(o) \/ NodeSettles(o) \/ BudgetSettles(o)
    \/ LateSettleFails(o)

OutsideStep(o) ==
    \/ \E status \in {"succeeded", "failed"} :
          ResourceEnds(o, status) \/ ResolveManually(o, status)
    \/ ResourceDeleted(o)

ReconcilerStep ==
    \/ ListForStartup \/ ListForAdmin
    \/ \E r \in Reconcilers : ReconcileFails(r) \/ \E s \in lscan[r] : Reconcile(r, s)

LedgerNext ==
    \/ \E t \in Turns : TurnStep(t)
    \/ \E o \in Ops : HandlerStep(o) \/ OutsideStep(o)
    \/ ReconcilerStep
    \/ BackendRestart \/ LedgerWorkerCrash

\* A live process keeps running its turns' code, its callbacks and its
\* startup thread; handlers, users and administrators need never act.
LedgerFairness ==
    /\ \A t \in Turns : WF_ledgerVars(Start(t)) /\ WF_ledgerVars(Finish(t))
    /\ \A o \in Ops : WF_ledgerVars(NodeSettles(o)) /\ WF_ledgerVars(BudgetSettles(o))
    /\ WF_ledgerVars(ListForStartup)
    /\ WF_ledgerVars(\E s \in lscan["startup"] : Reconcile("startup", s))

LedgerSpec == LedgerInit /\ [][LedgerNext]_ledgerVars

LedgerFairSpec == LedgerSpec /\ LedgerFairness

-----------------------------------------------------------------------------
(* Properties.                                                             *)

HandlerStates == {"idle", "running", "returned", "dead"}

TurnStates == {"new", "ready", "planned", "executing", "ended", "aborted",
               "failed", "dead"}

Scanned == [op : Ops, status : Open, at : Nat, linked : BOOLEAN]

\* Types of the durable records (operation_ledger.py, jobs and subagents).
RecordsOK ==
    /\ ledger \in [Ops -> Record]
    /\ resource \in [Ops -> {"none", "live", "succeeded", "failed", "deleted"}]

\* Types of the handler calls and their callbacks.
CallsOK ==
    /\ handler \in [Ops -> HandlerStates]
    /\ report \in [Ops -> {"none"} \cup Reports]
    /\ watch \in [Ops -> {"none", "node", "budget"}]

\* Types of the turns; a turn inside a call has an operation.
TurnsOK ==
    /\ tpc \in [Turns -> TurnStates]
    /\ cur \in [Turns -> Ops \cup {NoOp}]
    /\ heard \in [Turns -> {"none", "timeout"} \cup Reports]
    /\ pending \in [Turns -> Ops \cup {NoOp}]
    /\ reconciled \in [Turns -> BOOLEAN]
    /\ \A t \in Turns : tpc[t] \in {"planned", "executing"} => cur[t] \in Ops

\* Types of the backend's boot counter and of the reconcilers.
BootsOK ==
    /\ boots \in Nat
    /\ due \in BOOLEAN
    /\ lscan \in [Reconcilers -> SUBSET Scanned]

\* Every variable of the ledger and its writers keeps its type, and a turn
\* between plan_operation and finish_operation always has its operation.
LedgerTypeOK == RecordsOK /\ CallsOK /\ TurnsOK /\ BootsOK

\* The first verdict stands: once finish_operation, a late callback, a
\* read-back, the administrator or a reconciler has closed a record, none of
\* the others, however stale what it read, changes status or resolved_by.
FirstVerdictStands ==
    [][\A o \in Ops : ledger[o].status \in LedgerTerminal =>
          /\ ledger'[o].status = ledger[o].status
          /\ ledger'[o].by = ledger[o].by]_ledgerVars

\* "blocked" is a promise that nothing happened: the handler was never
\* called, or it said itself that it did not execute.
BlockedNeverRan ==
    \A o \in Ops : ledger[o].status = "blocked" =>
        handler[o] = "idle" \/ report[o] = "notExecuted"

OwnerDead(o) == tpc[ledger[o].turn] = "dead"

\* reconcile_operations closes only what a dead process left: as long as the
\* turn's process lives, a read-back or a late result can still decide.
OwnerGone ==
    \A o \in Ops : ledger[o].by = "startup_reconciliation" => OwnerDead(o)

\* A record is "succeeded" only on evidence: the handler returned ok, the
\* linked job or subagent succeeded (and may be deleted since), or a person
\* said so; whichever of the racing resolvers came first.
SucceededOnEvidence ==
    \A o \in Ops : ledger[o].status = "succeeded" =>
        CASE ledger[o].by = "manual" -> TRUE
          [] ledger[o].by = "durable_resource" ->
               resource[o] \in {"succeeded", "deleted"}
          [] OTHER -> report[o] = "ok"

\* A write whose result nobody knows is never recorded as failed by
\* finish_operation or by the callback of the request budget.
FailedIsKnown ==
    \A o \in Ops :
        /\ ledger[o].status = "failed"
        /\ ledger[o].by \in {"finish", "request_budget_handler"}
        => \/ handler[o] = "idle"
           \/ handler[o] = "returned" /\ report[o] = "error"

\* A dead backend turn left the record of an operation open, and no job or
\* subagent can resolve it: only startup reconciliation can close it.
OrphanedRecord(o) ==
    /\ ledger[o].status \in Open
    /\ ledger[o].turn \in Turns \ WorkerTurns
    /\ OwnerDead(o)
    /\ ~ledger[o].linked

RecordWaits == \E o \in Ops : OrphanedRecord(o)
=============================================================================
