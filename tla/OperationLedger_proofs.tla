----------------------- MODULE OperationLedger_proofs -----------------------
(***************************************************************************)
(* Theorems about the ledger of tool calls that act on the outside         *)
(* (OperationLedger), for every number of operations, turns and restarts.  *)
(***************************************************************************)
EXTENDS OperationLedger, TLAPS

-----------------------------------------------------------------------------
(* Type correctness.                                                       *)

\* finish_operation maps every result to a status.
LEMMA FinishStatusType ==
    ASSUME NEW x
    PROVE  FinishStatus(x) \in {"unknown", "blocked", "succeeded", "failed"}
BY DEF FinishStatus

\* A result that is not "may continue" is a verdict.
LEMMA FinishStatusBudget ==
    ASSUME NEW x \in {"none"} \cup Reports, x # "uncertain"
    PROVE  FinishStatus(x) \in {"blocked", "succeeded", "failed"}
BY DEF FinishStatus, Reports

\* The record operations return records.
LEMMA RecordHelpers ==
    ASSUME boots \in Nat
    PROVE  /\ \A t \in Turns : PlannedRecord(t) \in Record
           /\ \A rec \in Record : SetStarted(rec) \in Record
           /\ \A rec \in Record :
                [rec EXCEPT !.linked = TRUE] \in Record
           /\ \A rec \in Record : \A x : SetFinished(rec, x) \in Record
           /\ \A rec \in Record : \A st \in LedgerTerminal, by \in Resolvers :
                Settled(rec, st, by) \in Record
<1>1. \A t \in Turns : PlannedRecord(t) \in Record
  BY DEF PlannedRecord, NoRecord, Record, Open, Resolvers
<1>2. \A rec \in Record : SetStarted(rec) \in Record
  BY DEF SetStarted, Record, Open
<1>3. \A rec \in Record : [rec EXCEPT !.linked = TRUE] \in Record
  BY DEF Record
<1>4. \A rec \in Record : \A x : SetFinished(rec, x) \in Record
  <2> TAKE rec \in Record
  <2> TAKE x
  <2>1. FinishStatus(x) \in Open \cup LedgerTerminal
    BY FinishStatusType DEF Open, LedgerTerminal
  <2> QED BY <2>1 DEF SetFinished, Record, Resolvers
<1>5. \A rec \in Record : \A st \in LedgerTerminal, by \in Resolvers :
        Settled(rec, st, by) \in Record
  BY DEF Settled, Record
<1> QED BY <1>1, <1>2, <1>3, <1>4, <1>5

\* The literals that the resolvers write.
LEMMA Verdicts ==
    /\ {"succeeded", "failed", "blocked", "reconciled"} \subseteq LedgerTerminal
    /\ {"timed_out_handler", "request_budget_handler", "network_readback",
        "manual"} \subseteq Resolvers
    /\ \A x : LateStatus(x) \in {"succeeded", "failed"}
BY DEF LedgerTerminal, Resolvers, LateStatus

\* One iteration of reconcile_operations returns a record.
LEMMA ReconciledType ==
    ASSUME LedgerTypeOK, NEW r \in Reconcilers, NEW s \in lscan[r]
    PROVE  s.op \in Ops /\ Reconciled(r, s) \in Record
<1>1. s.op \in Ops /\ ledger[s.op] \in Record
  BY DEF LedgerTypeOK, BootsOK, Scanned, RecordsOK
<1>2. /\ OrphanStatus(s) \in LedgerTerminal
      /\ {"durable_resource", "startup_reconciliation"} \subseteq Resolvers
  BY DEF OrphanStatus, LedgerTerminal, Resolvers
<1>3. resource[s.op] \in {"succeeded", "failed"} => resource[s.op] \in LedgerTerminal
  BY DEF LedgerTerminal
<1>4. boots \in Nat
  BY DEF LedgerTypeOK, BootsOK
<1> QED BY <1>1, <1>2, <1>3, <1>4, RecordHelpers DEF Reconciled

\* list_operations returns scanned records.
LEMMA SnapshotType ==
    ASSUME LedgerTypeOK
    PROVE  Snapshot \subseteq Scanned
BY DEF LedgerTypeOK, RecordsOK, Record, Snapshot, Scanned, CanSettle

\* Every step leaves well-typed records.
LEMMA RecordsStep ==
    ASSUME LedgerTypeOK, [LedgerNext]_ledgerVars
    PROVE  RecordsOK'
<1>1. ASSUME UNCHANGED <<ledger, resource>>
      PROVE  RecordsOK'
  BY <1>1 DEF LedgerTypeOK, RecordsOK
<1>2. ASSUME NEW t \in Turns, NEW o \in Ops, Plan(t, o)
      PROVE  RecordsOK'
  BY <1>2, RecordHelpers
  DEF Plan, RecordsOK, turnVars, callVars, bootVars, LedgerTypeOK, BootsOK
<1>3. ASSUME NEW t \in Turns, Start(t)
      PROVE  RecordsOK'
  BY <1>3, RecordHelpers
  DEF Start, RecordsOK, turnVars, callVars, bootVars, LedgerTypeOK, BootsOK
<1>4. ASSUME NEW o \in Ops, CreateResource(o)
      PROVE  RecordsOK'
  BY <1>4 DEF CreateResource, RecordsOK, turnVars, callVars, bootVars, LedgerTypeOK
<1>5. ASSUME NEW o \in Ops, LinkResource(o)
      PROVE  RecordsOK'
  BY <1>5, RecordHelpers
  DEF LinkResource, RecordsOK, turnVars, callVars, bootVars, LedgerTypeOK, BootsOK
<1>6. ASSUME NEW o \in Ops, NEW x \in {"succeeded", "failed"}, ResourceEnds(o, x)
      PROVE  RecordsOK'
  BY <1>6 DEF ResourceEnds, RecordsOK, turnVars, callVars, bootVars, LedgerTypeOK
<1>7. ASSUME NEW o \in Ops, ResourceDeleted(o)
      PROVE  RecordsOK'
  BY <1>7 DEF ResourceDeleted, RecordsOK, turnVars, callVars, bootVars, LedgerTypeOK
<1>8. ASSUME NEW t \in Turns, Finish(t)
      PROVE  RecordsOK'
  BY <1>8, RecordHelpers
  DEF Finish, RecordsOK, turnVars, callVars, bootVars, LedgerTypeOK, BootsOK
<1>9. ASSUME NEW o \in Ops, NodeSettles(o)
      PROVE  RecordsOK'
  BY <1>9, RecordHelpers, Verdicts
  DEF NodeSettles, RecordsOK, turnVars, callVars, bootVars, LedgerTypeOK, BootsOK
<1>10. ASSUME NEW o \in Ops, BudgetSettles(o)
      PROVE  RecordsOK'
  BY <1>10, RecordHelpers, Verdicts, FinishStatusBudget
  DEF BudgetSettles, RecordsOK, turnVars, callVars, bootVars, LedgerTypeOK, BootsOK,
      CallsOK
<1>11. ASSUME NEW t \in Turns, ReadBack(t)
      PROVE  RecordsOK'
  BY <1>11, RecordHelpers, Verdicts
  DEF ReadBack, RecordsOK, turnVars, callVars, bootVars, LedgerTypeOK, BootsOK,
      TurnsOK
<1>12. ASSUME NEW o \in Ops, NEW x \in {"succeeded", "failed"}, ResolveManually(o, x)
      PROVE  RecordsOK'
  BY <1>12, RecordHelpers, Verdicts
  DEF ResolveManually, RecordsOK, turnVars, callVars, bootVars, LedgerTypeOK,
      BootsOK
<1>13. ASSUME NEW r \in Reconcilers, NEW s \in lscan[r], Reconcile(r, s)
      PROVE  RecordsOK'
  BY <1>13, ReconciledType
  DEF Reconcile, RecordsOK, turnVars, callVars, bootVars, LedgerTypeOK
<1> QED
  BY <1>1, <1>2, <1>3, <1>4, <1>5, <1>6, <1>7, <1>8, <1>9, <1>10, <1>11,
     <1>12, <1>13
  DEF LedgerNext, TurnStep, HandlerStep, OutsideStep, ReconcilerStep,
      BudgetExhausted, Refuse, Invoke, HandlerReturns, NodeTimeout,
      BudgetTimeout, DetachedNodeTimeout, LateSettleFails, TurnEnds,
      TurnFails, ListForStartup, ListForAdmin, ReconcileFails, BackendRestart,
      LedgerWorkerCrash, Kill, ledgerVars, turnVars, callVars, bootVars

\* Every step leaves well-typed handler calls.
LEMMA CallsStep ==
    ASSUME LedgerTypeOK, [LedgerNext]_ledgerVars
    PROVE  CallsOK'
<1>1. ASSUME UNCHANGED <<handler, report, watch>>
      PROVE  CallsOK'
  BY <1>1 DEF LedgerTypeOK, CallsOK
<1>2. ASSUME NEW t \in Turns, Invoke(t)
      PROVE  CallsOK'
  BY <1>2
  DEF Invoke, CallsOK, turnVars, callVars, bootVars, LedgerTypeOK, TurnsOK, Waiting,
      HandlerStates
<1>3. ASSUME NEW o \in Ops, NEW x \in Reports, HandlerReturns(o, x)
      PROVE  CallsOK'
  BY <1>3
  DEF HandlerReturns, CallsOK, turnVars, callVars, bootVars, LedgerTypeOK,
      HandlerStates
<1>4. ASSUME NEW t \in Turns, NodeTimeout(t)
      PROVE  CallsOK'
  BY <1>4
  DEF NodeTimeout, CallsOK, turnVars, callVars, bootVars, LedgerTypeOK, TurnsOK,
      Waiting
<1>5. ASSUME NEW t \in Turns, BudgetTimeout(t)
      PROVE  CallsOK'
  BY <1>5
  DEF BudgetTimeout, CallsOK, turnVars, callVars, bootVars, LedgerTypeOK, TurnsOK,
      Waiting
<1>6. ASSUME NEW o \in Ops, DetachedNodeTimeout(o)
      PROVE  CallsOK'
  BY <1>6
  DEF DetachedNodeTimeout, CallsOK, turnVars, callVars, bootVars, LedgerTypeOK
<1>7. ASSUME NEW o \in Ops, NodeSettles(o)
      PROVE  CallsOK'
  BY <1>7 DEF NodeSettles, CallsOK, turnVars, callVars, bootVars, LedgerTypeOK
<1>8. ASSUME NEW o \in Ops, BudgetSettles(o)
      PROVE  CallsOK'
  BY <1>8 DEF BudgetSettles, CallsOK, turnVars, callVars, bootVars, LedgerTypeOK
<1>9. ASSUME NEW o \in Ops, LateSettleFails(o)
      PROVE  CallsOK'
  BY <1>9 DEF LateSettleFails, CallsOK, turnVars, callVars, bootVars, LedgerTypeOK
<1>10. ASSUME NEW t \in Turns, TurnEnds(t)
      PROVE  CallsOK'
  BY <1>10
  DEF TurnEnds, CallsOK, turnVars, callVars, bootVars, LedgerTypeOK, Detached
<1>11. ASSUME NEW t \in Turns, ReadBack(t)
      PROVE  CallsOK'
  BY <1>11
  DEF ReadBack, CallsOK, turnVars, callVars, bootVars, LedgerTypeOK, Detached
<1>12. ASSUME NEW t \in Turns, TurnFails(t)
      PROVE  CallsOK'
  BY <1>12
  DEF TurnFails, CallsOK, turnVars, callVars, bootVars, LedgerTypeOK, Detached
<1>13. CASE BackendRestart
  BY <1>13
  DEF BackendRestart, CallsOK, turnVars, callVars, bootVars, LedgerTypeOK, Kill,
      HandlerStates
<1>14. CASE LedgerWorkerCrash
  BY <1>14
  DEF LedgerWorkerCrash, CallsOK, turnVars, callVars, bootVars, LedgerTypeOK, Kill,
      HandlerStates
<1> QED
  BY <1>1, <1>2, <1>3, <1>4, <1>5, <1>6, <1>7, <1>8, <1>9, <1>10, <1>11,
     <1>12, <1>13, <1>14
  DEF LedgerNext, TurnStep, HandlerStep, OutsideStep, ReconcilerStep, Plan,
      BudgetExhausted, Start, Refuse, CreateResource, LinkResource,
      ResourceEnds, ResourceDeleted, Finish, ResolveManually, ListForStartup,
      ListForAdmin, Reconcile, ReconcileFails, ledgerVars, turnVars, callVars,
      bootVars

\* Every step leaves well-typed turns.
LEMMA TurnsStep ==
    ASSUME LedgerTypeOK, [LedgerNext]_ledgerVars
    PROVE  TurnsOK'
<1>1. ASSUME UNCHANGED <<tpc, cur, heard, pending, reconciled>>
      PROVE  TurnsOK'
  BY <1>1 DEF LedgerTypeOK, TurnsOK
<1>2. ASSUME NEW t \in Turns, NEW o \in Ops, Plan(t, o)
      PROVE  TurnsOK'
  BY <1>2 DEF Plan, TurnsOK, turnVars, callVars, bootVars, LedgerTypeOK, TurnStates
<1>3. ASSUME NEW t \in Turns, BudgetExhausted(t)
      PROVE  TurnsOK'
  BY <1>3
  DEF BudgetExhausted, TurnsOK, turnVars, callVars, bootVars, LedgerTypeOK,
      TurnStates, Reports
<1>4. ASSUME NEW t \in Turns, Start(t)
      PROVE  TurnsOK'
  BY <1>4 DEF Start, TurnsOK, turnVars, callVars, bootVars, LedgerTypeOK, TurnStates
<1>5. ASSUME NEW t \in Turns, NEW x \in {"notExecuted", "error"}, Refuse(t, x)
      PROVE  TurnsOK'
  BY <1>5
  DEF Refuse, TurnsOK, turnVars, callVars, bootVars, LedgerTypeOK, TurnStates,
      Waiting, Reports
<1>6. ASSUME NEW o \in Ops, NEW x \in Reports, HandlerReturns(o, x)
      PROVE  TurnsOK'
  BY <1>6
  DEF HandlerReturns, TurnsOK, turnVars, callVars, bootVars, LedgerTypeOK,
      TurnStates, Waiting
<1>7. ASSUME NEW t \in Turns, NodeTimeout(t)
      PROVE  TurnsOK'
  BY <1>7
  DEF NodeTimeout, TurnsOK, turnVars, callVars, bootVars, LedgerTypeOK, TurnStates,
      Waiting
<1>8. ASSUME NEW t \in Turns, BudgetTimeout(t)
      PROVE  TurnsOK'
  BY <1>8
  DEF BudgetTimeout, TurnsOK, turnVars, callVars, bootVars, LedgerTypeOK,
      TurnStates, Waiting
<1>9. ASSUME NEW t \in Turns, Finish(t)
      PROVE  TurnsOK'
  BY <1>9
  DEF Finish, TurnsOK, turnVars, callVars, bootVars, LedgerTypeOK, TurnStates
<1>10. ASSUME NEW t \in Turns, TurnEnds(t)
      PROVE  TurnsOK'
  BY <1>10
  DEF TurnEnds, TurnsOK, turnVars, callVars, bootVars, LedgerTypeOK, TurnStates
<1>11. ASSUME NEW t \in Turns, ReadBack(t)
      PROVE  TurnsOK'
  BY <1>11
  DEF ReadBack, TurnsOK, turnVars, callVars, bootVars, LedgerTypeOK, TurnStates
<1>12. ASSUME NEW t \in Turns, TurnFails(t)
      PROVE  TurnsOK'
  BY <1>12
  DEF TurnFails, TurnsOK, turnVars, callVars, bootVars, LedgerTypeOK, TurnStates
<1>13. CASE BackendRestart
  BY <1>13
  DEF BackendRestart, TurnsOK, turnVars, callVars, bootVars, LedgerTypeOK,
      TurnStates, Kill
<1>14. CASE LedgerWorkerCrash
  BY <1>14
  DEF LedgerWorkerCrash, TurnsOK, turnVars, callVars, bootVars, LedgerTypeOK, TurnStates,
      Kill
<1> QED
  BY <1>1, <1>2, <1>3, <1>4, <1>5, <1>6, <1>7, <1>8, <1>9, <1>10, <1>11,
     <1>12, <1>13, <1>14
  DEF LedgerNext, TurnStep, HandlerStep, OutsideStep, ReconcilerStep, Invoke,
      CreateResource, LinkResource, ResourceEnds, ResourceDeleted,
      DetachedNodeTimeout, NodeSettles, BudgetSettles, LateSettleFails,
      ResolveManually, ListForStartup, ListForAdmin, Reconcile,
      ReconcileFails, ledgerVars, turnVars, callVars, bootVars

\* Every step leaves a well-typed boot counter and well-typed scans.
LEMMA BootsStep ==
    ASSUME LedgerTypeOK, [LedgerNext]_ledgerVars
    PROVE  BootsOK'
<1>1. ASSUME UNCHANGED <<boots, due, lscan>>
      PROVE  BootsOK'
  BY <1>1 DEF LedgerTypeOK, BootsOK
<1>2. CASE ListForStartup
  BY <1>2, SnapshotType
  DEF ListForStartup, BootsOK, turnVars, callVars, bootVars, LedgerTypeOK
<1>3. CASE ListForAdmin
  BY <1>3, SnapshotType
  DEF ListForAdmin, BootsOK, turnVars, callVars, bootVars, LedgerTypeOK
<1>4. ASSUME NEW r \in Reconcilers, NEW s \in lscan[r], Reconcile(r, s)
      PROVE  BootsOK'
  BY <1>4 DEF Reconcile, BootsOK, turnVars, callVars, bootVars, LedgerTypeOK
<1>5. ASSUME NEW r \in Reconcilers, ReconcileFails(r)
      PROVE  BootsOK'
  BY <1>5 DEF ReconcileFails, BootsOK, turnVars, callVars, bootVars, LedgerTypeOK
<1>6. CASE BackendRestart
  BY <1>6 DEF BackendRestart, BootsOK, turnVars, callVars, bootVars, LedgerTypeOK
<1> QED
  BY <1>1, <1>2, <1>3, <1>4, <1>5, <1>6
  DEF LedgerNext, TurnStep, HandlerStep, OutsideStep, ReconcilerStep, Plan,
      BudgetExhausted, Start, Refuse, Invoke, CreateResource, LinkResource,
      ResourceEnds, ResourceDeleted, HandlerReturns, NodeTimeout,
      BudgetTimeout, DetachedNodeTimeout, Finish, NodeSettles, BudgetSettles,
      LateSettleFails, TurnEnds, ReadBack, TurnFails, ResolveManually,
      LedgerWorkerCrash, Kill, ledgerVars, turnVars, callVars, bootVars

\* The initial state is well typed.
LEMMA InitTypeOK == LedgerInit => LedgerTypeOK
<1> SUFFICES ASSUME LedgerInit PROVE LedgerTypeOK
  OBVIOUS
<1>1. RecordsOK
  BY DEF LedgerInit, RecordsOK, Record, NoRecord, Resolvers
<1>2. CallsOK
  BY DEF LedgerInit, CallsOK, HandlerStates
<1>3. TurnsOK
  BY DEF LedgerInit, TurnsOK, TurnStates
<1>4. BootsOK
  BY DEF LedgerInit, BootsOK
<1> QED BY <1>1, <1>2, <1>3, <1>4 DEF LedgerTypeOK

\* And every step keeps it so.
LEMMA TypeStep == LedgerTypeOK /\ [LedgerNext]_ledgerVars => LedgerTypeOK'
BY RecordsStep, CallsStep, TurnsStep, BootsStep DEF LedgerTypeOK

\* Type correctness: no interleaving of turns, late callbacks, reconcilers,
\* administrators and process failures takes a variable out of its type.
THEOREM LedgerTypeCorrect == LedgerSpec => []LedgerTypeOK
BY InitTypeOK, TypeStep, PTL DEF LedgerSpec

-----------------------------------------------------------------------------
(* The first verdict stands.                                               *)

\* A closed record passes unchanged through every record operation.
LEMMA ClosedIsFixed ==
    ASSUME NEW rec \in Record, rec.status \in LedgerTerminal
    PROVE  /\ rec.status # "none"
           /\ SetStarted(rec) = rec
           /\ \A x : SetFinished(rec, x) = rec
           /\ \A x, y : Settled(rec, x, y) = rec
BY DEF LedgerTerminal, Open, SetStarted, SetFinished, Settled, CanSettle

\* So it does through an iteration of reconcile_operations.
LEMMA ReconcileKeeps ==
    ASSUME LedgerTypeOK, NEW r \in Reconcilers, NEW s \in lscan[r],
           ledger[s.op].status \in LedgerTerminal
    PROVE  Reconciled(r, s) = ledger[s.op]
<1>1. ledger[s.op] \in Record
  BY ReconciledType DEF LedgerTypeOK, RecordsOK
<1> QED BY <1>1, ClosedIsFixed DEF Reconciled

VerdictKept(p) ==
    ledger[p].status \in LedgerTerminal =>
        ledger'[p].status = ledger[p].status /\ ledger'[p].by = ledger[p].by

\* No step changes the verdict of a closed record.
LEMMA VerdictStep ==
    ASSUME LedgerTypeOK, NEW p \in Ops, [LedgerNext]_ledgerVars
    PROVE  VerdictKept(p)
<1>1. ASSUME UNCHANGED <<ledger>>
      PROVE  VerdictKept(p)
  BY <1>1 DEF VerdictKept
<1>2. ASSUME NEW t \in Turns, NEW o \in Ops, Plan(t, o)
      PROVE  VerdictKept(p)
  BY <1>2, ClosedIsFixed
  DEF Plan, VerdictKept, LedgerTypeOK, RecordsOK, turnVars, callVars
<1>3. ASSUME NEW t \in Turns, Start(t)
      PROVE  VerdictKept(p)
  BY <1>3, ClosedIsFixed
  DEF Start, VerdictKept, LedgerTypeOK, RecordsOK, turnVars, callVars, bootVars
<1>4. ASSUME NEW o \in Ops, LinkResource(o)
      PROVE  VerdictKept(p)
  BY <1>4
  DEF LinkResource, VerdictKept, LedgerTypeOK, RecordsOK, turnVars, callVars,
      bootVars
<1>5. ASSUME NEW t \in Turns, Finish(t)
      PROVE  VerdictKept(p)
  BY <1>5, ClosedIsFixed
  DEF Finish, VerdictKept, LedgerTypeOK, RecordsOK, turnVars, callVars, bootVars
<1>6. ASSUME NEW o \in Ops, NodeSettles(o)
      PROVE  VerdictKept(p)
  BY <1>6, ClosedIsFixed
  DEF NodeSettles, VerdictKept, LedgerTypeOK, RecordsOK, turnVars, callVars
<1>7. ASSUME NEW o \in Ops, BudgetSettles(o)
      PROVE  VerdictKept(p)
  BY <1>7, ClosedIsFixed
  DEF BudgetSettles, VerdictKept, LedgerTypeOK, RecordsOK, turnVars, callVars
<1>8. ASSUME NEW t \in Turns, ReadBack(t)
      PROVE  VerdictKept(p)
  BY <1>8, ClosedIsFixed
  DEF ReadBack, VerdictKept, LedgerTypeOK, RecordsOK, turnVars, callVars, bootVars
<1>9. ASSUME NEW o \in Ops, NEW x \in {"succeeded", "failed"}, ResolveManually(o, x)
      PROVE  VerdictKept(p)
  BY <1>9, ClosedIsFixed
  DEF ResolveManually, VerdictKept, LedgerTypeOK, RecordsOK, turnVars, callVars
<1>10. ASSUME NEW r \in Reconcilers, NEW s \in lscan[r], Reconcile(r, s)
      PROVE  VerdictKept(p)
  BY <1>10, ReconcileKeeps, ReconciledType
  DEF Reconcile, VerdictKept, LedgerTypeOK, RecordsOK, turnVars, callVars
<1> QED
  BY <1>1, <1>2, <1>3, <1>4, <1>5, <1>6, <1>7, <1>8, <1>9, <1>10
  DEF LedgerNext, TurnStep, HandlerStep, OutsideStep, ReconcilerStep,
      BudgetExhausted, Refuse, Invoke, CreateResource, ResourceEnds,
      ResourceDeleted, HandlerReturns, NodeTimeout, BudgetTimeout,
      DetachedNodeTimeout, LateSettleFails, TurnEnds, TurnFails,
      ListForStartup, ListForAdmin, ReconcileFails, BackendRestart,
      LedgerWorkerCrash, Kill, ledgerVars, turnVars, callVars, bootVars

\* Whatever a turn, a callback, a reconciler with a stale list or an
\* administrator does, a closed record keeps its status and its resolver.
THEOREM FirstVerdictHolds == LedgerSpec => FirstVerdictStands
<1>1. LedgerTypeOK /\ [LedgerNext]_ledgerVars =>
        [\A o \in Ops : ledger[o].status \in LedgerTerminal =>
            /\ ledger'[o].status = ledger[o].status
            /\ ledger'[o].by = ledger[o].by]_ledgerVars
  BY VerdictStep DEF VerdictKept
<1> QED BY <1>1, LedgerTypeCorrect, PTL DEF LedgerSpec, FirstVerdictStands

-----------------------------------------------------------------------------
(* "succeeded" is always backed by evidence.                               *)

\* A turn outside a call has heard nothing; one that heard "ok" heard it from
\* the handler of its own operation, and only a handler that has returned
\* has a report.
Hearing ==
    /\ \A t \in Turns : tpc[t] \in {"new", "ready", "planned"} => heard[t] = "none"
    /\ \A o \in Ops : report[o] # "none" => handler[o] = "returned"
    /\ \A t \in Turns : tpc[t] = "executing" /\ heard[t] = "ok" =>
          report[cur[t]] = "ok"

EvidenceInv == LedgerTypeOK /\ Hearing /\ SucceededOnEvidence

\* A turn hears what its own handler reports.
LEMMA HearingStep ==
    ASSUME LedgerTypeOK, Hearing, [LedgerNext]_ledgerVars
    PROVE  Hearing'
<1>1. ASSUME UNCHANGED <<tpc, cur, heard, handler, report>>
      PROVE  Hearing'
  BY <1>1 DEF Hearing
<1>2. ASSUME NEW t \in Turns, NEW o \in Ops, Plan(t, o)
      PROVE  Hearing'
  BY <1>2
  DEF Plan, Hearing, LedgerTypeOK, RecordsOK, CallsOK, TurnsOK, BootsOK, turnVars,
      callVars, bootVars, AtRest
<1>3. ASSUME NEW t \in Turns, BudgetExhausted(t)
      PROVE  Hearing'
  BY <1>3
  DEF BudgetExhausted, Hearing, LedgerTypeOK, RecordsOK, CallsOK, TurnsOK, BootsOK,
      turnVars, callVars
<1>4. ASSUME NEW t \in Turns, Start(t)
      PROVE  Hearing'
  BY <1>4
  DEF Start, Hearing, LedgerTypeOK, RecordsOK, CallsOK, TurnsOK, BootsOK, turnVars,
      callVars
<1>5. ASSUME NEW t \in Turns, NEW x \in {"notExecuted", "error"}, Refuse(t, x)
      PROVE  Hearing'
  BY <1>5
  DEF Refuse, Hearing, LedgerTypeOK, RecordsOK, CallsOK, TurnsOK, BootsOK, turnVars,
      callVars, bootVars, Waiting
<1>6. ASSUME NEW t \in Turns, Invoke(t)
      PROVE  Hearing'
  BY <1>6
  DEF Invoke, Hearing, LedgerTypeOK, RecordsOK, CallsOK, TurnsOK, BootsOK, turnVars,
      callVars, bootVars
<1>7. ASSUME NEW o \in Ops, NEW x \in Reports, HandlerReturns(o, x)
      PROVE  Hearing'
  BY <1>7
  DEF HandlerReturns, Hearing, LedgerTypeOK, RecordsOK, CallsOK, TurnsOK, BootsOK,
      turnVars, callVars, bootVars, Waiting
<1>8. ASSUME NEW t \in Turns, NodeTimeout(t)
      PROVE  Hearing'
  BY <1>8
  DEF NodeTimeout, Hearing, LedgerTypeOK, RecordsOK, CallsOK, TurnsOK, BootsOK,
      turnVars, callVars, bootVars, Waiting
<1>9. ASSUME NEW t \in Turns, BudgetTimeout(t)
      PROVE  Hearing'
  BY <1>9
  DEF BudgetTimeout, Hearing, LedgerTypeOK, RecordsOK, CallsOK, TurnsOK, BootsOK,
      turnVars, callVars, bootVars, Waiting
<1>10. ASSUME NEW t \in Turns, Finish(t)
      PROVE  Hearing'
  BY <1>10
  DEF Finish, Hearing, LedgerTypeOK, RecordsOK, CallsOK, TurnsOK, BootsOK, turnVars,
      callVars
<1>11. ASSUME NEW t \in Turns, TurnEnds(t)
      PROVE  Hearing'
  BY <1>11
  DEF TurnEnds, Hearing, LedgerTypeOK, RecordsOK, CallsOK, TurnsOK, BootsOK,
      turnVars, callVars, bootVars
<1>12. ASSUME NEW t \in Turns, ReadBack(t)
      PROVE  Hearing'
  BY <1>12
  DEF ReadBack, Hearing, LedgerTypeOK, RecordsOK, CallsOK, TurnsOK, BootsOK,
      turnVars, callVars, bootVars
<1>13. ASSUME NEW t \in Turns, TurnFails(t)
      PROVE  Hearing'
  BY <1>13
  DEF TurnFails, Hearing, LedgerTypeOK, RecordsOK, CallsOK, TurnsOK, BootsOK,
      turnVars, callVars, bootVars
<1>14. CASE BackendRestart
  BY <1>14
  DEF BackendRestart, Hearing, LedgerTypeOK, RecordsOK, CallsOK, TurnsOK, BootsOK,
      turnVars, callVars, bootVars, Kill
<1>15. CASE LedgerWorkerCrash
  BY <1>15
  DEF LedgerWorkerCrash, Hearing, LedgerTypeOK, RecordsOK, CallsOK, TurnsOK, BootsOK,
      turnVars, callVars, bootVars, Kill
<1> QED
  BY <1>1, <1>2, <1>3, <1>4, <1>5, <1>6, <1>7, <1>8, <1>9, <1>10, <1>11,
     <1>12, <1>13, <1>14, <1>15
  DEF LedgerNext, TurnStep, HandlerStep, OutsideStep, ReconcilerStep,
      CreateResource, LinkResource, ResourceEnds, ResourceDeleted,
      DetachedNodeTimeout, NodeSettles, BudgetSettles, LateSettleFails,
      ResolveManually, ListForStartup, ListForAdmin, Reconcile,
      ReconcileFails, ledgerVars, turnVars, callVars, bootVars

\* No step turns a record into "succeeded" without evidence, and evidence
\* is never withdrawn.
LEMMA EvidenceStep ==
    ASSUME LedgerTypeOK, Hearing, SucceededOnEvidence, [LedgerNext]_ledgerVars
    PROVE  SucceededOnEvidence'
<1>1. ASSUME UNCHANGED <<ledger, resource, report>>
      PROVE  SucceededOnEvidence'
  BY <1>1 DEF SucceededOnEvidence
<1>2. ASSUME NEW t \in Turns, NEW o \in Ops, Plan(t, o)
      PROVE  SucceededOnEvidence'
  BY <1>2
  DEF Plan, SucceededOnEvidence, LedgerTypeOK, RecordsOK, CallsOK, TurnsOK, BootsOK,
      turnVars, callVars, bootVars, PlannedRecord
<1>3. ASSUME NEW t \in Turns, Start(t)
      PROVE  SucceededOnEvidence'
  BY <1>3
  DEF Start, SucceededOnEvidence, LedgerTypeOK, RecordsOK, CallsOK, TurnsOK,
      BootsOK, turnVars, callVars, bootVars, SetStarted
<1>4. ASSUME NEW o \in Ops, CreateResource(o)
      PROVE  SucceededOnEvidence'
  BY <1>4
  DEF CreateResource, SucceededOnEvidence, LedgerTypeOK, RecordsOK, CallsOK,
      TurnsOK, BootsOK, turnVars, callVars
<1>5. ASSUME NEW o \in Ops, LinkResource(o)
      PROVE  SucceededOnEvidence'
  BY <1>5
  DEF LinkResource, SucceededOnEvidence, LedgerTypeOK, RecordsOK, CallsOK, TurnsOK,
      BootsOK, turnVars, callVars, bootVars
<1>6. ASSUME NEW o \in Ops, NEW x \in {"succeeded", "failed"}, ResourceEnds(o, x)
      PROVE  SucceededOnEvidence'
  BY <1>6
  DEF ResourceEnds, SucceededOnEvidence, LedgerTypeOK, RecordsOK, CallsOK, TurnsOK,
      BootsOK, turnVars, callVars
<1>7. ASSUME NEW o \in Ops, ResourceDeleted(o)
      PROVE  SucceededOnEvidence'
  BY <1>7
  DEF ResourceDeleted, SucceededOnEvidence, LedgerTypeOK, RecordsOK, CallsOK,
      TurnsOK, BootsOK, turnVars, callVars
<1>8. ASSUME NEW o \in Ops, NEW x \in Reports, HandlerReturns(o, x)
      PROVE  SucceededOnEvidence'
  BY <1>8
  DEF HandlerReturns, SucceededOnEvidence, LedgerTypeOK, RecordsOK, CallsOK,
      TurnsOK, BootsOK, turnVars, callVars, bootVars, Hearing
<1>9. ASSUME NEW t \in Turns, Finish(t)
      PROVE  SucceededOnEvidence'
  BY <1>9
  DEF Finish, SucceededOnEvidence, LedgerTypeOK, RecordsOK, CallsOK, TurnsOK,
      BootsOK, turnVars, callVars, bootVars, Hearing, SetFinished,
      FinishStatus
<1>10. ASSUME NEW o \in Ops, NodeSettles(o)
      PROVE  SucceededOnEvidence'
  BY <1>10
  DEF NodeSettles, SucceededOnEvidence, LedgerTypeOK, RecordsOK, CallsOK, TurnsOK,
      BootsOK, turnVars, callVars, bootVars, Settled, CanSettle, Record,
      LateStatus
<1>11. ASSUME NEW o \in Ops, BudgetSettles(o)
      PROVE  SucceededOnEvidence'
  BY <1>11
  DEF BudgetSettles, SucceededOnEvidence, LedgerTypeOK, RecordsOK, CallsOK, TurnsOK,
      BootsOK, turnVars, callVars, bootVars, Settled, CanSettle, Record,
      FinishStatus
<1>12. ASSUME NEW t \in Turns, ReadBack(t)
      PROVE  SucceededOnEvidence'
  <2>1. CASE ledger' = ledger
    BY <1>12, <2>1 DEF ReadBack, SucceededOnEvidence
  <2>2. CASE ledger' = [ledger EXCEPT ![pending[t]] =
                          Settled(@, "reconciled", "network_readback")]
    BY <1>12, <2>2
    DEF ReadBack, SucceededOnEvidence, LedgerTypeOK, RecordsOK, Record, Settled
  <2> QED BY <1>12, <2>1, <2>2 DEF ReadBack
<1>13. ASSUME NEW o \in Ops, NEW x \in {"succeeded", "failed"}, ResolveManually(o, x)
      PROVE  SucceededOnEvidence'
  BY <1>13
  DEF ResolveManually, SucceededOnEvidence, LedgerTypeOK, RecordsOK, CallsOK,
      TurnsOK, BootsOK, turnVars, callVars, bootVars, Settled, CanSettle
<1>14. ASSUME NEW r \in Reconcilers, NEW s \in lscan[r], Reconcile(r, s)
      PROVE  SucceededOnEvidence'
  <2>1. s.op \in Ops /\ ledger[s.op] \in Record
    BY ReconciledType DEF LedgerTypeOK, RecordsOK
  <2>2. /\ ledger' = [ledger EXCEPT ![s.op] = Reconciled(r, s)]
        /\ resource' = resource /\ report' = report
    BY <1>14 DEF Reconcile, callVars
  <2>3. \/ Reconciled(r, s) = ledger[s.op]
        \/ Reconciled(r, s).status \in {"blocked", "indeterminate"}
        \/ /\ Reconciled(r, s).status = resource[s.op]
           /\ Reconciled(r, s).by = "durable_resource"
    BY <2>1 DEF Reconciled, Settled, OrphanStatus
  <2> QED BY <2>1, <2>2, <2>3 DEF SucceededOnEvidence, LedgerTypeOK
<1> QED
  BY <1>1, <1>2, <1>3, <1>4, <1>5, <1>6, <1>7, <1>8, <1>9, <1>10, <1>11,
     <1>12, <1>13, <1>14
  DEF LedgerNext, TurnStep, HandlerStep, OutsideStep, ReconcilerStep,
      BudgetExhausted, Refuse, Invoke, NodeTimeout, BudgetTimeout,
      DetachedNodeTimeout, LateSettleFails, TurnEnds, TurnFails,
      ListForStartup, ListForAdmin, ReconcileFails, BackendRestart,
      LedgerWorkerCrash, Kill, ledgerVars, turnVars, callVars, bootVars

\* Every "succeeded" in the ledger rests on a handler that returned ok, a
\* linked job or subagent that succeeded, or a person's word.
THEOREM SucceededHasEvidence == LedgerSpec => []SucceededOnEvidence
<1>1. LedgerInit => EvidenceInv
  <2>1. LedgerInit => Hearing /\ SucceededOnEvidence
    BY DEF LedgerInit, Hearing, SucceededOnEvidence, NoRecord
  <2>2. LedgerInit => LedgerTypeOK
    BY InitTypeOK
  <2> QED BY <2>1, <2>2 DEF EvidenceInv
<1>2. EvidenceInv /\ [LedgerNext]_ledgerVars => EvidenceInv'
  BY TypeStep, HearingStep, EvidenceStep DEF EvidenceInv
<1>3. EvidenceInv => SucceededOnEvidence
  BY DEF EvidenceInv
<1> QED BY <1>1, <1>2, <1>3, PTL DEF LedgerSpec

-----------------------------------------------------------------------------
(* The ledger never calls a write blocked that ran.                        *)

\* A record belongs to a turn that has begun, and a turn inside a call works
\* on a record of its own.
Ownership ==
    /\ \A o \in Ops :
          IF ledger[o].status = "none"
          THEN handler[o] = "idle" /\ ledger[o].by = "none"
          ELSE ledger[o].turn \in Turns /\ tpc[ledger[o].turn] # "new"
    /\ \A t \in Turns : tpc[t] \in {"planned", "executing"} =>
          ledger[cur[t]].status # "none" /\ ledger[cur[t]].turn = t

\* Where a turn is in its call, and what the record and the handler say then.
Progress ==
    /\ \A t \in Turns : tpc[t] = "planned" => handler[cur[t]] = "idle"
    /\ \A t \in Turns : Waiting(t) => ledger[cur[t]].status # "planned"
    /\ \A o \in Ops : ledger[o].status = "planned" => handler[o] = "idle"

\* A turn that may still call its handler is not blocked, and one that heard
\* "not executed" heard it of a call that did not run.
NotBlocked ==
    /\ \A t \in Turns :
          /\ tpc[t] = "planned" \/ Waiting(t)
          /\ handler[cur[t]] = "idle"
          => ledger[cur[t]].status # "blocked"
    /\ \A t \in Turns : tpc[t] = "executing" /\ heard[t] = "notExecuted" =>
          handler[cur[t]] = "idle" \/ report[cur[t]] = "notExecuted"

\* A record stamped before the last boot, or read so by a reconciler, belongs
\* to a dead turn; if it was planned then, it was never run.
Boundary ==
    /\ \A o \in Ops : ledger[o].status # "none" /\ ledger[o].at < boots =>
          tpc[ledger[o].turn] = "dead"
    /\ \A r \in Reconcilers : \A s \in lscan[r] :
          /\ ledger[s.op].status # "none"
          /\ s.at < boots => tpc[ledger[s.op].turn] = "dead"
          /\ s.at < boots /\ s.status = "planned" => handler[s.op] = "idle"

BlockedInv == LedgerTypeOK /\ Hearing /\ Ownership /\ Progress /\ NotBlocked /\ Boundary
              /\ BlockedNeverRan /\ OwnerGone

\* What an iteration of reconcile_operations can do to a record: nothing, or
\* close an open one with a verdict; "blocked" only for one read as planned
\* and stamped before the boot.
LEMMA ReconciledEffect ==
    ASSUME LedgerTypeOK, NEW r \in Reconcilers, NEW s \in lscan[r]
    PROVE  LET old == ledger[s.op]
               new == Reconciled(r, s)
           IN  /\ new.turn = old.turn /\ new.at = old.at
               /\ \/ new = old
                  \/ /\ old.status \in Open
                     /\ new.status \in LedgerTerminal
                     /\ new.by = "startup_reconciliation" => s.at < boots
                     /\ new.status = "blocked" =>
                          s.status = "planned" /\ s.at < boots
<1>1. s.op \in Ops /\ ledger[s.op] \in Record
  BY ReconciledType DEF LedgerTypeOK, RecordsOK
<1>2. resource[s.op] \in {"none", "live", "succeeded", "failed", "deleted"}
  BY <1>1 DEF LedgerTypeOK, RecordsOK
<1> QED
  BY <1>1, <1>2
  DEF Reconciled, Settled, CanSettle, StartedBefore, OrphanStatus, Record,
      LedgerTerminal

\* A step that only closes records: each keeps its turn and its stamp, and is
\* left alone unless it was open.
Closing ==
    \A o \in Ops :
        /\ ledger'[o].turn = ledger[o].turn
        /\ ledger'[o].at = ledger[o].at
        /\ \/ ledger'[o] = ledger[o]
           \/ /\ ledger[o].status \in Open
              /\ ledger'[o].status \in LedgerTerminal \cup {"unknown"}

\* What settle_operation and finish_operation do to a record.
LEMMA SettledEffect ==
    ASSUME NEW rec \in Record
    PROVE  /\ \A x \in LedgerTerminal, y \in Resolvers :
                LET new == Settled(rec, x, y)
                IN  /\ new.turn = rec.turn /\ new.at = rec.at
                    /\ \/ new = rec
                       \/ rec.status \in Open /\ new.status = x /\ new.by = y
           /\ \A x :
                LET new == SetFinished(rec, x)
                IN  /\ new.turn = rec.turn /\ new.at = rec.at
                    /\ \/ new = rec
                       \/ /\ rec.status \in Open
                          /\ new.status = FinishStatus(x)
                          /\ new.by = "finish"
BY DEF Settled, SetFinished, CanSettle, Record

\* finish_operation, the callbacks, the read-back, the administrator and the
\* reconcilers only close records.
LEMMA LedgerClosingStep ==
    ASSUME LedgerTypeOK
    PROVE  /\ \A t \in Turns : Finish(t) => Closing
           /\ \A o \in Ops : NodeSettles(o) => Closing
           /\ \A o \in Ops : BudgetSettles(o) => Closing
           /\ \A t \in Turns : ReadBack(t) => Closing
           /\ \A o \in Ops, x \in {"succeeded", "failed"} :
                ResolveManually(o, x) => Closing
           /\ \A r \in Reconcilers : \A s \in lscan[r] :
                Reconcile(r, s) => Closing
<1> USE DEF LedgerTypeOK, RecordsOK
<1>1. \A x : FinishStatus(x) \in LedgerTerminal \cup {"unknown"}
  BY FinishStatusType DEF LedgerTerminal
<1>2. ASSUME NEW t \in Turns, Finish(t)
      PROVE  Closing
  BY <1>1, <1>2, SettledEffect DEF Finish, Closing
<1>3. ASSUME NEW o \in Ops, NodeSettles(o)
      PROVE  Closing
  BY <1>3, SettledEffect, Verdicts DEF NodeSettles, Closing
<1>4. ASSUME NEW o \in Ops, BudgetSettles(o)
      PROVE  Closing
  <2>1. report[o] # "uncertain" => FinishStatus(report[o]) \in LedgerTerminal
    BY FinishStatusBudget, Verdicts DEF CallsOK
  <2> QED BY <1>4, <2>1, SettledEffect, Verdicts DEF BudgetSettles, Closing
<1>5. ASSUME NEW t \in Turns, ReadBack(t)
      PROVE  Closing
  BY <1>5, SettledEffect, Verdicts DEF ReadBack, Closing
<1>6. ASSUME NEW o \in Ops, NEW x \in {"succeeded", "failed"},
             ResolveManually(o, x)
      PROVE  Closing
  BY <1>6, SettledEffect, Verdicts DEF ResolveManually, Closing
<1>7. ASSUME NEW r \in Reconcilers, NEW s \in lscan[r], Reconcile(r, s)
      PROVE  Closing
  BY <1>7, ReconciledEffect, ReconciledType DEF Reconcile, Closing
<1> QED BY <1>2, <1>3, <1>4, <1>5, <1>6, <1>7

\* Records keep their turn, and turns their record.
LEMMA OwnershipStep ==
    ASSUME LedgerTypeOK, Ownership, [LedgerNext]_ledgerVars
    PROVE  Ownership'
<1>1. ASSUME UNCHANGED <<ledger, handler, tpc, cur>>
      PROVE  Ownership'
  BY <1>1 DEF Ownership
<1>2. ASSUME NEW t \in Turns, NEW o \in Ops, Plan(t, o)
      PROVE  Ownership'
  BY <1>2
  DEF Plan, Ownership, LedgerTypeOK, RecordsOK, CallsOK, TurnsOK, BootsOK, turnVars,
      callVars, bootVars, AtRest, PlannedRecord, NoRecord
<1>3. ASSUME NEW t \in Turns, BudgetExhausted(t)
      PROVE  Ownership'
  BY <1>3
  DEF BudgetExhausted, Ownership, LedgerTypeOK, RecordsOK, CallsOK, TurnsOK,
      BootsOK, turnVars, callVars
<1>4. ASSUME NEW t \in Turns, Start(t)
      PROVE  Ownership'
  BY <1>4
  DEF Start, Ownership, LedgerTypeOK, RecordsOK, CallsOK, TurnsOK, BootsOK,
      turnVars, callVars, bootVars, SetStarted
<1>5. ASSUME NEW t \in Turns, Invoke(t)
      PROVE  Ownership'
  BY <1>5
  DEF Invoke, Ownership, LedgerTypeOK, RecordsOK, CallsOK, TurnsOK, BootsOK,
      turnVars, callVars, bootVars, Waiting
<1>6. ASSUME NEW o \in Ops, LinkResource(o)
      PROVE  Ownership'
  BY <1>6
  DEF LinkResource, Ownership, LedgerTypeOK, RecordsOK, CallsOK, TurnsOK, BootsOK,
      turnVars, callVars, bootVars
<1>7. ASSUME NEW o \in Ops, NEW x \in Reports, HandlerReturns(o, x)
      PROVE  Ownership'
  BY <1>7
  DEF HandlerReturns, Ownership, LedgerTypeOK, RecordsOK, CallsOK, TurnsOK, BootsOK,
      turnVars, callVars, bootVars
<1>8. ASSUME NEW t \in Turns, Finish(t)
      PROVE  Ownership'
  <2>1. Closing
    BY <1>8, LedgerClosingStep
  <2>2. /\ tpc[t] = "executing" /\ heard[t] # "none"
        /\ tpc' = [tpc EXCEPT ![t] = "ready"]
        /\ cur' = [cur EXCEPT ![t] = NoOp]
        /\ heard' = [heard EXCEPT ![t] = "none"]
        /\ UNCHANGED <<handler, report, boots, lscan>>
    BY <1>8 DEF Finish, turnVars, callVars, bootVars
  <2> QED
    BY <2>1, <2>2 DEF Closing, Open, LedgerTerminal, Ownership, LedgerTypeOK, TurnsOK
<1>9. ASSUME NEW o \in Ops, NodeSettles(o)
      PROVE  Ownership'
  <2>1. Closing
    BY <1>9, LedgerClosingStep
  <2>2. UNCHANGED <<handler, report, tpc, cur, heard, boots, lscan>>
    BY <1>9 DEF NodeSettles, turnVars, callVars, bootVars
  <2> QED
    BY <2>1, <2>2 DEF Closing, Open, LedgerTerminal, Ownership, LedgerTypeOK, TurnsOK
<1>10. ASSUME NEW o \in Ops, BudgetSettles(o)
      PROVE  Ownership'
  <2>1. Closing
    BY <1>10, LedgerClosingStep
  <2>2. UNCHANGED <<handler, report, tpc, cur, heard, boots, lscan>>
    BY <1>10 DEF BudgetSettles, turnVars, callVars, bootVars
  <2> QED
    BY <2>1, <2>2 DEF Closing, Open, LedgerTerminal, Ownership, LedgerTypeOK, TurnsOK
<1>11. ASSUME NEW t \in Turns, TurnEnds(t)
      PROVE  Ownership'
  BY <1>11
  DEF TurnEnds, Ownership, LedgerTypeOK, RecordsOK, CallsOK, TurnsOK, BootsOK,
      turnVars, callVars, bootVars
<1>12. ASSUME NEW t \in Turns, ReadBack(t)
      PROVE  Ownership'
  <2>1. Closing
    BY <1>12, LedgerClosingStep
  <2>2. /\ tpc[t] = "ready"
        /\ tpc' = tpc \/ tpc' = [tpc EXCEPT ![t] = "aborted"]
        /\ UNCHANGED <<handler, report, cur, heard, boots, lscan>>
    BY <1>12 DEF ReadBack, turnVars, callVars, bootVars
  <2> QED
    BY <2>1, <2>2 DEF Closing, Open, LedgerTerminal, Ownership, LedgerTypeOK, TurnsOK
<1>13. ASSUME NEW t \in Turns, TurnFails(t)
      PROVE  Ownership'
  BY <1>13
  DEF TurnFails, Ownership, LedgerTypeOK, RecordsOK, CallsOK, TurnsOK, BootsOK,
      turnVars, callVars, bootVars
<1>14. ASSUME NEW o \in Ops, NEW x \in {"succeeded", "failed"}, ResolveManually(o, x)
      PROVE  Ownership'
  <2>1. Closing
    BY <1>14, LedgerClosingStep
  <2>2. UNCHANGED <<handler, report, tpc, cur, heard, boots, lscan>>
    BY <1>14 DEF ResolveManually, turnVars, callVars, bootVars
  <2> QED
    BY <2>1, <2>2 DEF Closing, Open, LedgerTerminal, Ownership, LedgerTypeOK, TurnsOK
<1>15. ASSUME NEW r \in Reconcilers, NEW s \in lscan[r], Reconcile(r, s)
      PROVE  Ownership'
  <2>1. Closing
    BY <1>15, LedgerClosingStep
  <2>2. /\ lscan' = [lscan EXCEPT ![r] = lscan[r] \ {s}]
        /\ UNCHANGED <<handler, report, tpc, cur, heard, boots>>
    BY <1>15 DEF Reconcile, turnVars, callVars
  <2> QED
    BY <2>1, <2>2 DEF Closing, Open, LedgerTerminal, Ownership, LedgerTypeOK, TurnsOK
<1>16. CASE BackendRestart
  BY <1>16
  DEF BackendRestart, Ownership, LedgerTypeOK, RecordsOK, CallsOK, TurnsOK, BootsOK,
      turnVars, callVars, bootVars, Kill
<1>17. CASE LedgerWorkerCrash
  BY <1>17
  DEF LedgerWorkerCrash, Ownership, LedgerTypeOK, RecordsOK, CallsOK, TurnsOK, BootsOK,
      turnVars, callVars, bootVars, Kill
<1> QED
  BY <1>1, <1>2, <1>3, <1>4, <1>5, <1>6, <1>7, <1>8, <1>9, <1>10, <1>11,
     <1>12, <1>13, <1>14, <1>15, <1>16, <1>17
  DEF LedgerNext, TurnStep, HandlerStep, OutsideStep, ReconcilerStep, Refuse,
      CreateResource, ResourceEnds, ResourceDeleted, NodeTimeout,
      BudgetTimeout, DetachedNodeTimeout, LateSettleFails, ListForStartup,
      ListForAdmin, ReconcileFails, ledgerVars, turnVars, callVars, bootVars

\* The record and the handler keep pace with the turn.
LEMMA ProgressStep ==
    ASSUME LedgerTypeOK, Ownership, Hearing, Progress, [LedgerNext]_ledgerVars
    PROVE  Progress'
<1>1. ASSUME UNCHANGED <<ledger, handler, tpc, cur, heard>>
      PROVE  Progress'
  BY <1>1 DEF Progress, Waiting
<1>2. ASSUME NEW t \in Turns, NEW o \in Ops, Plan(t, o)
      PROVE  Progress'
  BY <1>2
  DEF Plan, Progress, Ownership, Waiting, LedgerTypeOK, RecordsOK, CallsOK, TurnsOK,
      BootsOK, turnVars, callVars, bootVars, AtRest, PlannedRecord, NoRecord
<1>3. ASSUME NEW t \in Turns, BudgetExhausted(t)
      PROVE  Progress'
  BY <1>3
  DEF BudgetExhausted, Progress, Ownership, Waiting, LedgerTypeOK, RecordsOK,
      CallsOK, TurnsOK, BootsOK, turnVars, callVars
<1>4. ASSUME NEW t \in Turns, Start(t)
      PROVE  Progress'
  BY <1>4
  DEF Start, Progress, Ownership, Waiting, LedgerTypeOK, RecordsOK, CallsOK,
      TurnsOK, BootsOK, turnVars, callVars, bootVars, SetStarted, Record
<1>5. ASSUME NEW t \in Turns, NEW x \in {"notExecuted", "error"}, Refuse(t, x)
      PROVE  Progress'
  BY <1>5
  DEF Refuse, Progress, Ownership, Waiting, LedgerTypeOK, RecordsOK, CallsOK,
      TurnsOK, BootsOK, turnVars, callVars
<1>6. ASSUME NEW t \in Turns, Invoke(t)
      PROVE  Progress'
  BY <1>6
  DEF Invoke, Progress, Ownership, Waiting, LedgerTypeOK, RecordsOK, CallsOK,
      TurnsOK, BootsOK, turnVars, callVars
<1>7. ASSUME NEW o \in Ops, LinkResource(o)
      PROVE  Progress'
  BY <1>7
  DEF LinkResource, Progress, Ownership, Waiting, LedgerTypeOK, RecordsOK, CallsOK,
      TurnsOK, BootsOK, turnVars, callVars, bootVars
<1>8. ASSUME NEW o \in Ops, NEW x \in Reports, HandlerReturns(o, x)
      PROVE  Progress'
  BY <1>8
  DEF HandlerReturns, Progress, Ownership, Waiting, LedgerTypeOK, RecordsOK,
      CallsOK, TurnsOK, BootsOK, turnVars, callVars
<1>9. ASSUME NEW t \in Turns, NodeTimeout(t)
      PROVE  Progress'
  BY <1>9
  DEF NodeTimeout, Progress, Ownership, Waiting, LedgerTypeOK, RecordsOK, CallsOK,
      TurnsOK, BootsOK, turnVars, callVars
<1>10. ASSUME NEW t \in Turns, BudgetTimeout(t)
      PROVE  Progress'
  BY <1>10
  DEF BudgetTimeout, Progress, Ownership, Waiting, LedgerTypeOK, RecordsOK, CallsOK,
      TurnsOK, BootsOK, turnVars, callVars
<1>11. ASSUME NEW t \in Turns, Finish(t)
      PROVE  Progress'
  <2>1. Closing
    BY <1>11, LedgerClosingStep
  <2>2. /\ tpc[t] = "executing" /\ heard[t] # "none"
        /\ tpc' = [tpc EXCEPT ![t] = "ready"]
        /\ cur' = [cur EXCEPT ![t] = NoOp]
        /\ heard' = [heard EXCEPT ![t] = "none"]
        /\ UNCHANGED <<handler, report, boots, lscan>>
    BY <1>11 DEF Finish, turnVars, callVars, bootVars
  <2> QED
    BY <2>1, <2>2
    DEF Closing, Open, LedgerTerminal, Progress, Waiting, LedgerTypeOK, TurnsOK
<1>12. ASSUME NEW o \in Ops, NodeSettles(o)
      PROVE  Progress'
  <2>1. Closing
    BY <1>12, LedgerClosingStep
  <2>2. UNCHANGED <<handler, report, tpc, cur, heard, boots, lscan>>
    BY <1>12 DEF NodeSettles, turnVars, callVars, bootVars
  <2> QED
    BY <2>1, <2>2
    DEF Closing, Open, LedgerTerminal, Progress, Waiting, LedgerTypeOK, TurnsOK
<1>13. ASSUME NEW o \in Ops, BudgetSettles(o)
      PROVE  Progress'
  <2>1. Closing
    BY <1>13, LedgerClosingStep
  <2>2. UNCHANGED <<handler, report, tpc, cur, heard, boots, lscan>>
    BY <1>13 DEF BudgetSettles, turnVars, callVars, bootVars
  <2> QED
    BY <2>1, <2>2
    DEF Closing, Open, LedgerTerminal, Progress, Waiting, LedgerTypeOK, TurnsOK
<1>14. ASSUME NEW t \in Turns, TurnEnds(t)
      PROVE  Progress'
  BY <1>14
  DEF TurnEnds, Progress, Ownership, Waiting, LedgerTypeOK, RecordsOK, CallsOK,
      TurnsOK, BootsOK, turnVars, callVars, bootVars
<1>15. ASSUME NEW t \in Turns, ReadBack(t)
      PROVE  Progress'
  <2>1. Closing
    BY <1>15, LedgerClosingStep
  <2>2. /\ tpc[t] = "ready"
        /\ tpc' = tpc \/ tpc' = [tpc EXCEPT ![t] = "aborted"]
        /\ UNCHANGED <<handler, report, cur, heard, boots, lscan>>
    BY <1>15 DEF ReadBack, turnVars, callVars, bootVars
  <2> QED
    BY <2>1, <2>2
    DEF Closing, Open, LedgerTerminal, Progress, Waiting, LedgerTypeOK, TurnsOK
<1>16. ASSUME NEW t \in Turns, TurnFails(t)
      PROVE  Progress'
  BY <1>16
  DEF TurnFails, Progress, Ownership, Waiting, LedgerTypeOK, RecordsOK, CallsOK,
      TurnsOK, BootsOK, turnVars, callVars, bootVars
<1>17. ASSUME NEW o \in Ops, NEW x \in {"succeeded", "failed"}, ResolveManually(o, x)
      PROVE  Progress'
  <2>1. Closing
    BY <1>17, LedgerClosingStep
  <2>2. UNCHANGED <<handler, report, tpc, cur, heard, boots, lscan>>
    BY <1>17 DEF ResolveManually, turnVars, callVars, bootVars
  <2> QED
    BY <2>1, <2>2
    DEF Closing, Open, LedgerTerminal, Progress, Waiting, LedgerTypeOK, TurnsOK
<1>18. ASSUME NEW r \in Reconcilers, NEW s \in lscan[r], Reconcile(r, s)
      PROVE  Progress'
  <2>1. Closing
    BY <1>18, LedgerClosingStep
  <2>2. /\ lscan' = [lscan EXCEPT ![r] = lscan[r] \ {s}]
        /\ UNCHANGED <<handler, report, tpc, cur, heard, boots>>
    BY <1>18 DEF Reconcile, turnVars, callVars
  <2> QED
    BY <2>1, <2>2
    DEF Closing, Open, LedgerTerminal, Progress, Waiting, LedgerTypeOK, TurnsOK
<1>19. CASE BackendRestart
  BY <1>19
  DEF BackendRestart, Progress, Ownership, Waiting, LedgerTypeOK, RecordsOK,
      CallsOK, TurnsOK, BootsOK, turnVars, callVars, bootVars, Kill
<1>20. CASE LedgerWorkerCrash
  BY <1>20
  DEF LedgerWorkerCrash, Progress, Ownership, Waiting, LedgerTypeOK, RecordsOK, CallsOK,
      TurnsOK, BootsOK, turnVars, callVars, bootVars, Kill
<1> QED
  BY <1>1, <1>2, <1>3, <1>4, <1>5, <1>6, <1>7, <1>8, <1>9, <1>10, <1>11,
     <1>12, <1>13, <1>14, <1>15, <1>16, <1>17, <1>18, <1>19, <1>20
  DEF LedgerNext, TurnStep, HandlerStep, OutsideStep, ReconcilerStep,
      CreateResource, ResourceEnds, ResourceDeleted, DetachedNodeTimeout,
      LateSettleFails, ListForStartup, ListForAdmin, ReconcileFails, ledgerVars,
      turnVars, callVars, bootVars

NewlyBlocked(p) == ledger'[p].status = "blocked" /\ ledger[p].status # "blocked"

NewlyOrphaned(p) ==
    /\ ledger'[p].by = "startup_reconciliation"
    /\ ledger[p].by # "startup_reconciliation"

\* Where a "blocked" can come from: a turn that heard "not executed", a late
\* handler that said so, or a reconciler that read a planned record of an
\* earlier boot; and only the last signs as startup reconciliation.
LEMMA BlockedCause ==
    ASSUME LedgerTypeOK, NEW p \in Ops
    PROVE  /\ \A t \in Turns : Finish(t) =>
                /\ NewlyBlocked(p) => p = cur[t] /\ heard[t] = "notExecuted"
                /\ ~NewlyOrphaned(p)
           /\ \A o \in Ops : NodeSettles(o) =>
                ~NewlyBlocked(p) /\ ~NewlyOrphaned(p)
           /\ \A o \in Ops : BudgetSettles(o) =>
                /\ NewlyBlocked(p) => p = o /\ handler[p] = "returned"
                                          /\ report[p] = "notExecuted"
                /\ ~NewlyOrphaned(p)
           /\ \A t \in Turns : ReadBack(t) =>
                ~NewlyBlocked(p) /\ ~NewlyOrphaned(p)
           /\ \A o \in Ops, x \in {"succeeded", "failed"} :
                ResolveManually(o, x) => ~NewlyBlocked(p) /\ ~NewlyOrphaned(p)
           /\ \A r \in Reconcilers : \A s \in lscan[r] : Reconcile(r, s) =>
                /\ NewlyBlocked(p) => p = s.op /\ s.status = "planned"
                                          /\ s.at < boots
                /\ NewlyOrphaned(p) => p = s.op /\ s.at < boots
<1> USE DEF LedgerTypeOK, RecordsOK, NewlyBlocked, NewlyOrphaned
<1>1. ASSUME NEW t \in Turns, Finish(t)
      PROVE  /\ NewlyBlocked(p) => p = cur[t] /\ heard[t] = "notExecuted"
             /\ ~NewlyOrphaned(p)
  <2>1. FinishStatus(heard[t]) = "blocked" => heard[t] = "notExecuted"
    BY DEF FinishStatus
  <2> QED BY <1>1, <2>1, SettledEffect DEF Finish
<1>2. ASSUME NEW o \in Ops, NodeSettles(o)
      PROVE  ~NewlyBlocked(p) /\ ~NewlyOrphaned(p)
  <2>1. /\ LateStatus(report[o]) \in {"succeeded", "failed"}
        /\ "timed_out_handler" \in Resolvers
    BY Verdicts
  <2>2. p # o => ledger'[p] = ledger[p]
    BY <1>2 DEF NodeSettles
  <2>3. ledger'[o] = Settled(ledger[o], LateStatus(report[o]), "timed_out_handler")
    BY <1>2 DEF NodeSettles
  <2> QED BY <2>1, <2>2, <2>3, SettledEffect, Verdicts
<1>3. ASSUME NEW o \in Ops, BudgetSettles(o)
      PROVE  /\ NewlyBlocked(p) => p = o /\ handler[p] = "returned"
                                       /\ report[p] = "notExecuted"
             /\ ~NewlyOrphaned(p)
  <2>1. report[o] # "uncertain" => FinishStatus(report[o]) \in LedgerTerminal
    BY FinishStatusBudget, Verdicts DEF CallsOK
  <2>2. FinishStatus(report[o]) = "blocked" => report[o] = "notExecuted"
    BY DEF FinishStatus
  <2> QED BY <1>3, <2>1, <2>2, SettledEffect, Verdicts DEF BudgetSettles
<1>4. ASSUME NEW t \in Turns, ReadBack(t)
      PROVE  ~NewlyBlocked(p) /\ ~NewlyOrphaned(p)
  <2>1. CASE ledger' = ledger
    BY <2>1
  <2>2. CASE ledger' = [ledger EXCEPT ![pending[t]] =
                          Settled(@, "reconciled", "network_readback")]
    <3>1. p # pending[t] => ledger'[p] = ledger[p]
      BY <2>2
    <3>2. p = pending[t] =>
            ledger'[p] = Settled(ledger[p], "reconciled", "network_readback")
      BY <2>2
    <3> QED BY <3>1, <3>2, SettledEffect, Verdicts
  <2> QED BY <1>4, <2>1, <2>2 DEF ReadBack
<1>5. ASSUME NEW o \in Ops, NEW x \in {"succeeded", "failed"},
             ResolveManually(o, x)
      PROVE  ~NewlyBlocked(p) /\ ~NewlyOrphaned(p)
  BY <1>5, SettledEffect, Verdicts DEF ResolveManually
<1>6. ASSUME NEW r \in Reconcilers, NEW s \in lscan[r], Reconcile(r, s)
      PROVE  /\ NewlyBlocked(p) => p = s.op /\ s.status = "planned"
                                       /\ s.at < boots
             /\ NewlyOrphaned(p) => p = s.op /\ s.at < boots
  BY <1>6, ReconciledEffect, ReconciledType DEF Reconcile
<1> QED BY <1>1, <1>2, <1>3, <1>4, <1>5, <1>6

\* A turn that may still call its handler stays unblocked.
LEMMA NotBlockedStep ==
    ASSUME LedgerTypeOK, Ownership, Hearing, Progress, Boundary, NotBlocked, [LedgerNext]_ledgerVars
    PROVE  NotBlocked'
<1>1. ASSUME UNCHANGED <<ledger, handler, report, tpc, cur, heard>>
      PROVE  NotBlocked'
  BY <1>1 DEF NotBlocked, Waiting
<1>2. ASSUME NEW t \in Turns, NEW o \in Ops, Plan(t, o)
      PROVE  NotBlocked'
  BY <1>2
  DEF Plan, NotBlocked, Waiting, LedgerTypeOK, RecordsOK, CallsOK, TurnsOK, BootsOK,
      turnVars, callVars, bootVars, AtRest, PlannedRecord, NoRecord, Record,
      Ownership
<1>3. ASSUME NEW t \in Turns, BudgetExhausted(t)
      PROVE  NotBlocked'
  BY <1>3
  DEF BudgetExhausted, NotBlocked, Waiting, LedgerTypeOK, RecordsOK, CallsOK,
      TurnsOK, BootsOK, turnVars, callVars, bootVars, Progress
<1>4. ASSUME NEW t \in Turns, Start(t)
      PROVE  NotBlocked'
  BY <1>4
  DEF Start, NotBlocked, Waiting, LedgerTypeOK, RecordsOK, CallsOK, TurnsOK,
      BootsOK, turnVars, callVars, bootVars, SetStarted, Record, Ownership,
      Progress
<1>5. ASSUME NEW t \in Turns, NEW x \in {"notExecuted", "error"}, Refuse(t, x)
      PROVE  NotBlocked'
  BY <1>5
  DEF Refuse, NotBlocked, Waiting, LedgerTypeOK, RecordsOK, CallsOK, TurnsOK,
      BootsOK, turnVars, callVars
<1>6. ASSUME NEW t \in Turns, Invoke(t)
      PROVE  NotBlocked'
  BY <1>6
  DEF Invoke, NotBlocked, Waiting, LedgerTypeOK, RecordsOK, CallsOK, TurnsOK,
      BootsOK, turnVars, callVars, bootVars, Ownership
<1>7. ASSUME NEW o \in Ops, LinkResource(o)
      PROVE  NotBlocked'
  BY <1>7
  DEF LinkResource, NotBlocked, Waiting, LedgerTypeOK, RecordsOK, CallsOK, TurnsOK,
      BootsOK, turnVars, callVars, bootVars
<1>8. ASSUME NEW o \in Ops, NEW x \in Reports, HandlerReturns(o, x)
      PROVE  NotBlocked'
  BY <1>8
  DEF HandlerReturns, NotBlocked, Waiting, LedgerTypeOK, RecordsOK, CallsOK,
      TurnsOK, BootsOK, turnVars, callVars, bootVars, Hearing
<1>9. ASSUME NEW t \in Turns, NodeTimeout(t)
      PROVE  NotBlocked'
  BY <1>9
  DEF NodeTimeout, NotBlocked, Waiting, LedgerTypeOK, RecordsOK, CallsOK, TurnsOK,
      BootsOK, turnVars, callVars
<1>10. ASSUME NEW t \in Turns, BudgetTimeout(t)
      PROVE  NotBlocked'
  BY <1>10
  DEF BudgetTimeout, NotBlocked, Waiting, LedgerTypeOK, RecordsOK, CallsOK, TurnsOK,
      BootsOK, turnVars, callVars
<1>11. ASSUME NEW t \in Turns, Finish(t)
      PROVE  NotBlocked'
  <2>1. Closing
    BY <1>11, LedgerClosingStep
  <2>2. /\ tpc[t] = "executing" /\ heard[t] # "none"
        /\ tpc' = [tpc EXCEPT ![t] = "ready"]
        /\ cur' = [cur EXCEPT ![t] = NoOp]
        /\ heard' = [heard EXCEPT ![t] = "none"]
        /\ UNCHANGED <<handler, report, boots, lscan>>
    BY <1>11 DEF Finish, turnVars, callVars, bootVars
  <2>3. \A p \in Ops : NewlyBlocked(p) =>
          p = cur[t] /\ heard[t] = "notExecuted"
    BY <1>11, BlockedCause
  <2> QED
    BY <2>1, <2>2, <2>3
    DEF Closing, Open, LedgerTerminal, NotBlocked, Ownership, Waiting, LedgerTypeOK,
        TurnsOK, NewlyBlocked
<1>12. ASSUME NEW o \in Ops, NodeSettles(o)
      PROVE  NotBlocked'
  <2>1. Closing
    BY <1>12, LedgerClosingStep
  <2>2. UNCHANGED <<handler, report, tpc, cur, heard, boots, lscan>>
    BY <1>12 DEF NodeSettles, turnVars, callVars, bootVars
  <2>3. \A p \in Ops : ~NewlyBlocked(p)
    BY <1>12, BlockedCause
  <2> QED
    BY <2>1, <2>2, <2>3
    DEF Closing, Open, LedgerTerminal, NotBlocked, Ownership, Waiting, LedgerTypeOK,
        TurnsOK, NewlyBlocked
<1>13. ASSUME NEW o \in Ops, BudgetSettles(o)
      PROVE  NotBlocked'
  <2>1. Closing
    BY <1>13, LedgerClosingStep
  <2>2. UNCHANGED <<handler, report, tpc, cur, heard, boots, lscan>>
    BY <1>13 DEF BudgetSettles, turnVars, callVars, bootVars
  <2>3. \A p \in Ops : NewlyBlocked(p) =>
          p = o /\ handler[p] = "returned" /\ report[p] = "notExecuted"
    BY <1>13, BlockedCause
  <2> QED
    BY <2>1, <2>2, <2>3
    DEF Closing, Open, LedgerTerminal, NotBlocked, Ownership, Waiting, LedgerTypeOK,
        TurnsOK, NewlyBlocked
<1>14. ASSUME NEW t \in Turns, TurnEnds(t)
      PROVE  NotBlocked'
  BY <1>14
  DEF TurnEnds, NotBlocked, Waiting, LedgerTypeOK, RecordsOK, CallsOK, TurnsOK,
      BootsOK, turnVars, callVars, bootVars
<1>15. ASSUME NEW t \in Turns, ReadBack(t)
      PROVE  NotBlocked'
  <2>1. Closing
    BY <1>15, LedgerClosingStep
  <2>2. /\ tpc[t] = "ready"
        /\ tpc' = tpc \/ tpc' = [tpc EXCEPT ![t] = "aborted"]
        /\ UNCHANGED <<handler, report, cur, heard, boots, lscan>>
    BY <1>15 DEF ReadBack, turnVars, callVars, bootVars
  <2>3. \A p \in Ops : ~NewlyBlocked(p)
    BY <1>15, BlockedCause
  <2> QED
    BY <2>1, <2>2, <2>3
    DEF Closing, Open, LedgerTerminal, NotBlocked, Ownership, Waiting, LedgerTypeOK,
        TurnsOK, NewlyBlocked
<1>16. ASSUME NEW t \in Turns, TurnFails(t)
      PROVE  NotBlocked'
  BY <1>16
  DEF TurnFails, NotBlocked, Waiting, LedgerTypeOK, RecordsOK, CallsOK, TurnsOK,
      BootsOK, turnVars, callVars, bootVars
<1>17. ASSUME NEW o \in Ops, NEW x \in {"succeeded", "failed"}, ResolveManually(o, x)
      PROVE  NotBlocked'
  <2>1. Closing
    BY <1>17, LedgerClosingStep
  <2>2. UNCHANGED <<handler, report, tpc, cur, heard, boots, lscan>>
    BY <1>17 DEF ResolveManually, turnVars, callVars, bootVars
  <2>3. \A p \in Ops : ~NewlyBlocked(p)
    BY <1>17, BlockedCause
  <2> QED
    BY <2>1, <2>2, <2>3
    DEF Closing, Open, LedgerTerminal, NotBlocked, Ownership, Waiting, LedgerTypeOK,
        TurnsOK, NewlyBlocked
<1>18. ASSUME NEW r \in Reconcilers, NEW s \in lscan[r], Reconcile(r, s)
      PROVE  NotBlocked'
  <2>1. Closing
    BY <1>18, LedgerClosingStep
  <2>2. /\ lscan' = [lscan EXCEPT ![r] = lscan[r] \ {s}]
        /\ UNCHANGED <<handler, report, tpc, cur, heard, boots>>
    BY <1>18 DEF Reconcile, turnVars, callVars
  <2>3. \A p \in Ops : NewlyBlocked(p) =>
          p = s.op /\ s.status = "planned" /\ s.at < boots
    BY <1>18, BlockedCause
  <2> QED
    BY <2>1, <2>2, <2>3
    DEF Closing, Open, LedgerTerminal, NotBlocked, Ownership, Waiting, LedgerTypeOK,
        TurnsOK, NewlyBlocked, Boundary
<1>19. CASE BackendRestart
  BY <1>19
  DEF BackendRestart, NotBlocked, Waiting, LedgerTypeOK, RecordsOK, CallsOK,
      TurnsOK, BootsOK, turnVars, callVars, bootVars, Kill
<1>20. CASE LedgerWorkerCrash
  BY <1>20
  DEF LedgerWorkerCrash, NotBlocked, Waiting, LedgerTypeOK, RecordsOK, CallsOK, TurnsOK,
      BootsOK, turnVars, callVars, bootVars, Kill
<1> QED
  BY <1>1, <1>2, <1>3, <1>4, <1>5, <1>6, <1>7, <1>8, <1>9, <1>10, <1>11,
     <1>12, <1>13, <1>14, <1>15, <1>16, <1>17, <1>18, <1>19, <1>20
  DEF LedgerNext, TurnStep, HandlerStep, OutsideStep, ReconcilerStep,
      CreateResource, ResourceEnds, ResourceDeleted, DetachedNodeTimeout,
      LateSettleFails, ListForStartup, ListForAdmin, ReconcileFails, ledgerVars,
      turnVars, callVars, bootVars

\* No step runs a blocked call or blocks a call that ran.
LEMMA BlockedStep ==
    ASSUME LedgerTypeOK, Ownership, Hearing, Progress, Boundary, NotBlocked, BlockedNeverRan, [LedgerNext]_ledgerVars
    PROVE  BlockedNeverRan'
<1>1. ASSUME UNCHANGED <<ledger, handler, report>>
      PROVE  BlockedNeverRan'
  BY <1>1 DEF BlockedNeverRan
<1>2. ASSUME NEW t \in Turns, NEW o \in Ops, Plan(t, o)
      PROVE  BlockedNeverRan'
  BY <1>2
  DEF Plan, BlockedNeverRan, LedgerTypeOK, RecordsOK, CallsOK, TurnsOK, BootsOK,
      turnVars, callVars, bootVars, PlannedRecord, NoRecord
<1>3. ASSUME NEW t \in Turns, Start(t)
      PROVE  BlockedNeverRan'
  BY <1>3
  DEF Start, BlockedNeverRan, LedgerTypeOK, RecordsOK, CallsOK, TurnsOK, BootsOK,
      turnVars, callVars, bootVars, SetStarted
<1>4. ASSUME NEW t \in Turns, Invoke(t)
      PROVE  BlockedNeverRan'
  BY <1>4
  DEF Invoke, BlockedNeverRan, LedgerTypeOK, RecordsOK, CallsOK, TurnsOK, BootsOK,
      turnVars, callVars, bootVars, Waiting, NotBlocked
<1>5. ASSUME NEW o \in Ops, LinkResource(o)
      PROVE  BlockedNeverRan'
  BY <1>5
  DEF LinkResource, BlockedNeverRan, LedgerTypeOK, RecordsOK, CallsOK, TurnsOK,
      BootsOK, turnVars, callVars, bootVars
<1>6. ASSUME NEW o \in Ops, NEW x \in Reports, HandlerReturns(o, x)
      PROVE  BlockedNeverRan'
  BY <1>6
  DEF HandlerReturns, BlockedNeverRan, LedgerTypeOK, RecordsOK, CallsOK, TurnsOK,
      BootsOK, turnVars, callVars, bootVars, Hearing
<1>7. ASSUME NEW t \in Turns, Finish(t)
      PROVE  BlockedNeverRan'
  <2>1. Closing
    BY <1>7, LedgerClosingStep
  <2>2. /\ tpc[t] = "executing" /\ heard[t] # "none"
        /\ tpc' = [tpc EXCEPT ![t] = "ready"]
        /\ cur' = [cur EXCEPT ![t] = NoOp]
        /\ heard' = [heard EXCEPT ![t] = "none"]
        /\ UNCHANGED <<handler, report, boots, lscan>>
    BY <1>7 DEF Finish, turnVars, callVars, bootVars
  <2>3. \A p \in Ops : NewlyBlocked(p) =>
          p = cur[t] /\ heard[t] = "notExecuted"
    BY <1>7, BlockedCause
  <2> QED
    BY <2>1, <2>2, <2>3
    DEF Closing, Open, LedgerTerminal, BlockedNeverRan, NotBlocked, Ownership,
        LedgerTypeOK, TurnsOK, NewlyBlocked
<1>8. ASSUME NEW o \in Ops, NodeSettles(o)
      PROVE  BlockedNeverRan'
  <2>1. Closing
    BY <1>8, LedgerClosingStep
  <2>2. UNCHANGED <<handler, report, tpc, cur, heard, boots, lscan>>
    BY <1>8 DEF NodeSettles, turnVars, callVars, bootVars
  <2>3. \A p \in Ops : ~NewlyBlocked(p)
    BY <1>8, BlockedCause
  <2> QED
    BY <2>1, <2>2, <2>3
    DEF Closing, Open, LedgerTerminal, BlockedNeverRan, NotBlocked, Ownership,
        LedgerTypeOK, TurnsOK, NewlyBlocked
<1>9. ASSUME NEW o \in Ops, BudgetSettles(o)
      PROVE  BlockedNeverRan'
  <2>1. Closing
    BY <1>9, LedgerClosingStep
  <2>2. UNCHANGED <<handler, report, tpc, cur, heard, boots, lscan>>
    BY <1>9 DEF BudgetSettles, turnVars, callVars, bootVars
  <2>3. \A p \in Ops : NewlyBlocked(p) =>
          p = o /\ handler[p] = "returned" /\ report[p] = "notExecuted"
    BY <1>9, BlockedCause
  <2> QED
    BY <2>1, <2>2, <2>3
    DEF Closing, Open, LedgerTerminal, BlockedNeverRan, NotBlocked, Ownership,
        LedgerTypeOK, TurnsOK, NewlyBlocked
<1>10. ASSUME NEW t \in Turns, ReadBack(t)
      PROVE  BlockedNeverRan'
  <2>1. Closing
    BY <1>10, LedgerClosingStep
  <2>2. /\ tpc[t] = "ready"
        /\ tpc' = tpc \/ tpc' = [tpc EXCEPT ![t] = "aborted"]
        /\ UNCHANGED <<handler, report, cur, heard, boots, lscan>>
    BY <1>10 DEF ReadBack, turnVars, callVars, bootVars
  <2>3. \A p \in Ops : ~NewlyBlocked(p)
    BY <1>10, BlockedCause
  <2> QED
    BY <2>1, <2>2, <2>3
    DEF Closing, Open, LedgerTerminal, BlockedNeverRan, NotBlocked, Ownership,
        LedgerTypeOK, TurnsOK, NewlyBlocked
<1>11. ASSUME NEW o \in Ops, NEW x \in {"succeeded", "failed"}, ResolveManually(o, x)
      PROVE  BlockedNeverRan'
  <2>1. Closing
    BY <1>11, LedgerClosingStep
  <2>2. UNCHANGED <<handler, report, tpc, cur, heard, boots, lscan>>
    BY <1>11 DEF ResolveManually, turnVars, callVars, bootVars
  <2>3. \A p \in Ops : ~NewlyBlocked(p)
    BY <1>11, BlockedCause
  <2> QED
    BY <2>1, <2>2, <2>3
    DEF Closing, Open, LedgerTerminal, BlockedNeverRan, NotBlocked, Ownership,
        LedgerTypeOK, TurnsOK, NewlyBlocked
<1>12. ASSUME NEW r \in Reconcilers, NEW s \in lscan[r], Reconcile(r, s)
      PROVE  BlockedNeverRan'
  <2>1. Closing
    BY <1>12, LedgerClosingStep
  <2>2. /\ lscan' = [lscan EXCEPT ![r] = lscan[r] \ {s}]
        /\ UNCHANGED <<handler, report, tpc, cur, heard, boots>>
    BY <1>12 DEF Reconcile, turnVars, callVars
  <2>3. \A p \in Ops : NewlyBlocked(p) =>
          p = s.op /\ s.status = "planned" /\ s.at < boots
    BY <1>12, BlockedCause
  <2> QED
    BY <2>1, <2>2, <2>3
    DEF Closing, Open, LedgerTerminal, BlockedNeverRan, NotBlocked, Ownership,
        LedgerTypeOK, TurnsOK, NewlyBlocked, Boundary
<1>13. CASE BackendRestart
  BY <1>13
  DEF BackendRestart, BlockedNeverRan, LedgerTypeOK, RecordsOK, CallsOK, TurnsOK,
      BootsOK, turnVars, callVars, bootVars, Kill
<1>14. CASE LedgerWorkerCrash
  BY <1>14
  DEF LedgerWorkerCrash, BlockedNeverRan, LedgerTypeOK, RecordsOK, CallsOK, TurnsOK,
      BootsOK, turnVars, callVars, bootVars, Kill
<1> QED
  BY <1>1, <1>2, <1>3, <1>4, <1>5, <1>6, <1>7, <1>8, <1>9, <1>10, <1>11,
     <1>12, <1>13, <1>14
  DEF LedgerNext, TurnStep, HandlerStep, OutsideStep, ReconcilerStep,
      BudgetExhausted, Refuse, CreateResource, ResourceEnds, ResourceDeleted,
      NodeTimeout, BudgetTimeout, DetachedNodeTimeout, LateSettleFails,
      TurnEnds, TurnFails, ListForStartup, ListForAdmin, ReconcileFails, ledgerVars,
      turnVars, callVars, bootVars

\* Startup reconciliation closes only records of dead turns, and the dead
\* stay dead.
LEMMA OwnerGoneStep ==
    ASSUME LedgerTypeOK, Ownership, Boundary, OwnerGone, [LedgerNext]_ledgerVars
    PROVE  OwnerGone'
<1>1. ASSUME UNCHANGED <<ledger, tpc>>
      PROVE  OwnerGone'
  BY <1>1 DEF OwnerGone, OwnerDead
<1>2. ASSUME NEW t \in Turns, NEW o \in Ops, Plan(t, o)
      PROVE  OwnerGone'
  BY <1>2
  DEF Plan, OwnerGone, OwnerDead, Ownership, LedgerTypeOK, RecordsOK, CallsOK,
      TurnsOK, BootsOK, turnVars, callVars, bootVars, AtRest, PlannedRecord,
      NoRecord, Record
<1>3. ASSUME NEW t \in Turns, BudgetExhausted(t)
      PROVE  OwnerGone'
  BY <1>3
  DEF BudgetExhausted, OwnerGone, OwnerDead, Ownership, LedgerTypeOK, RecordsOK,
      CallsOK, TurnsOK, BootsOK, turnVars, callVars
<1>4. ASSUME NEW t \in Turns, Start(t)
      PROVE  OwnerGone'
  BY <1>4
  DEF Start, OwnerGone, OwnerDead, Ownership, LedgerTypeOK, RecordsOK, CallsOK,
      TurnsOK, BootsOK, turnVars, callVars, bootVars, SetStarted
<1>5. ASSUME NEW o \in Ops, LinkResource(o)
      PROVE  OwnerGone'
  BY <1>5
  DEF LinkResource, OwnerGone, OwnerDead, Ownership, LedgerTypeOK, RecordsOK,
      CallsOK, TurnsOK, BootsOK, turnVars, callVars, bootVars
<1>6. ASSUME NEW t \in Turns, Finish(t)
      PROVE  OwnerGone'
  <2>1. Closing
    BY <1>6, LedgerClosingStep
  <2>2. /\ tpc[t] = "executing" /\ heard[t] # "none"
        /\ tpc' = [tpc EXCEPT ![t] = "ready"]
        /\ cur' = [cur EXCEPT ![t] = NoOp]
        /\ heard' = [heard EXCEPT ![t] = "none"]
        /\ UNCHANGED <<handler, report, boots, lscan>>
    BY <1>6 DEF Finish, turnVars, callVars, bootVars
  <2>3. \A p \in Ops : ~NewlyOrphaned(p)
    BY <1>6, BlockedCause
  <2> QED
    BY <2>1, <2>2, <2>3
    DEF Closing, Open, LedgerTerminal, OwnerGone, OwnerDead, Ownership, LedgerTypeOK,
        TurnsOK, NewlyOrphaned
<1>7. ASSUME NEW o \in Ops, NodeSettles(o)
      PROVE  OwnerGone'
  <2>1. Closing
    BY <1>7, LedgerClosingStep
  <2>2. UNCHANGED <<handler, report, tpc, cur, heard, boots, lscan>>
    BY <1>7 DEF NodeSettles, turnVars, callVars, bootVars
  <2>3. \A p \in Ops : ~NewlyOrphaned(p)
    BY <1>7, BlockedCause
  <2> QED
    BY <2>1, <2>2, <2>3
    DEF Closing, Open, LedgerTerminal, OwnerGone, OwnerDead, Ownership, LedgerTypeOK,
        TurnsOK, NewlyOrphaned
<1>8. ASSUME NEW o \in Ops, BudgetSettles(o)
      PROVE  OwnerGone'
  <2>1. Closing
    BY <1>8, LedgerClosingStep
  <2>2. UNCHANGED <<handler, report, tpc, cur, heard, boots, lscan>>
    BY <1>8 DEF BudgetSettles, turnVars, callVars, bootVars
  <2>3. \A p \in Ops : ~NewlyOrphaned(p)
    BY <1>8, BlockedCause
  <2> QED
    BY <2>1, <2>2, <2>3
    DEF Closing, Open, LedgerTerminal, OwnerGone, OwnerDead, Ownership, LedgerTypeOK,
        TurnsOK, NewlyOrphaned
<1>9. ASSUME NEW t \in Turns, TurnEnds(t)
      PROVE  OwnerGone'
  BY <1>9
  DEF TurnEnds, OwnerGone, OwnerDead, Ownership, LedgerTypeOK, RecordsOK, CallsOK,
      TurnsOK, BootsOK, turnVars, callVars, bootVars
<1>10. ASSUME NEW t \in Turns, ReadBack(t)
      PROVE  OwnerGone'
  <2>1. Closing
    BY <1>10, LedgerClosingStep
  <2>2. /\ tpc[t] = "ready"
        /\ tpc' = tpc \/ tpc' = [tpc EXCEPT ![t] = "aborted"]
        /\ UNCHANGED <<handler, report, cur, heard, boots, lscan>>
    BY <1>10 DEF ReadBack, turnVars, callVars, bootVars
  <2>3. \A p \in Ops : ~NewlyOrphaned(p)
    BY <1>10, BlockedCause
  <2> QED
    BY <2>1, <2>2, <2>3
    DEF Closing, Open, LedgerTerminal, OwnerGone, OwnerDead, Ownership, LedgerTypeOK,
        TurnsOK, NewlyOrphaned
<1>11. ASSUME NEW t \in Turns, TurnFails(t)
      PROVE  OwnerGone'
  BY <1>11
  DEF TurnFails, OwnerGone, OwnerDead, Ownership, LedgerTypeOK, RecordsOK, CallsOK,
      TurnsOK, BootsOK, turnVars, callVars, bootVars
<1>12. ASSUME NEW o \in Ops, NEW x \in {"succeeded", "failed"}, ResolveManually(o, x)
      PROVE  OwnerGone'
  <2>1. Closing
    BY <1>12, LedgerClosingStep
  <2>2. UNCHANGED <<handler, report, tpc, cur, heard, boots, lscan>>
    BY <1>12 DEF ResolveManually, turnVars, callVars, bootVars
  <2>3. \A p \in Ops : ~NewlyOrphaned(p)
    BY <1>12, BlockedCause
  <2> QED
    BY <2>1, <2>2, <2>3
    DEF Closing, Open, LedgerTerminal, OwnerGone, OwnerDead, Ownership, LedgerTypeOK,
        TurnsOK, NewlyOrphaned
<1>13. ASSUME NEW r \in Reconcilers, NEW s \in lscan[r], Reconcile(r, s)
      PROVE  OwnerGone'
  <2>1. Closing
    BY <1>13, LedgerClosingStep
  <2>2. /\ lscan' = [lscan EXCEPT ![r] = lscan[r] \ {s}]
        /\ UNCHANGED <<handler, report, tpc, cur, heard, boots>>
    BY <1>13 DEF Reconcile, turnVars, callVars
  <2>3. \A p \in Ops : NewlyOrphaned(p) => p = s.op /\ s.at < boots
    BY <1>13, BlockedCause
  <2> QED
    BY <2>1, <2>2, <2>3
    DEF Closing, Open, LedgerTerminal, OwnerGone, OwnerDead, Ownership, LedgerTypeOK,
        TurnsOK, NewlyOrphaned, Boundary
<1>14. CASE BackendRestart
  BY <1>14
  DEF BackendRestart, OwnerGone, OwnerDead, Ownership, LedgerTypeOK, RecordsOK,
      CallsOK, TurnsOK, BootsOK, turnVars, callVars, bootVars, Kill
<1>15. CASE LedgerWorkerCrash
  BY <1>15
  DEF LedgerWorkerCrash, OwnerGone, OwnerDead, Ownership, LedgerTypeOK, RecordsOK,
      CallsOK, TurnsOK, BootsOK, turnVars, callVars, bootVars, Kill
<1> QED
  BY <1>1, <1>2, <1>3, <1>4, <1>5, <1>6, <1>7, <1>8, <1>9, <1>10, <1>11,
     <1>12, <1>13, <1>14, <1>15
  DEF LedgerNext, TurnStep, HandlerStep, OutsideStep, ReconcilerStep, Refuse,
      Invoke, CreateResource, ResourceEnds, ResourceDeleted, HandlerReturns,
      NodeTimeout, BudgetTimeout, DetachedNodeTimeout, LateSettleFails,
      ListForStartup, ListForAdmin, ReconcileFails, ledgerVars, turnVars, callVars,
      bootVars

\* With every turn in the backend, a stamp older than the boot means that
\* its turn is dead.
LEMMA BoundaryStep ==
    ASSUME WorkerTurns = {}, LedgerTypeOK, Ownership, Progress, Boundary, [LedgerNext]_ledgerVars
    PROVE  Boundary'
<1>1. ASSUME UNCHANGED <<ledger, handler, tpc, boots, lscan>>
      PROVE  Boundary'
  BY <1>1 DEF Boundary
<1>2. ASSUME NEW t \in Turns, NEW o \in Ops, Plan(t, o)
      PROVE  Boundary'
  BY <1>2
  DEF Plan, Boundary, LedgerTypeOK, RecordsOK, CallsOK, TurnsOK, BootsOK, turnVars,
      callVars, bootVars, AtRest, PlannedRecord, NoRecord, Record
<1>3. ASSUME NEW t \in Turns, BudgetExhausted(t)
      PROVE  Boundary'
  BY <1>3
  DEF BudgetExhausted, Boundary, LedgerTypeOK, RecordsOK, CallsOK, TurnsOK, BootsOK,
      turnVars, callVars, bootVars
<1>4. ASSUME NEW t \in Turns, Start(t)
      PROVE  Boundary'
  BY <1>4
  DEF Start, Boundary, LedgerTypeOK, RecordsOK, CallsOK, TurnsOK, BootsOK, turnVars,
      callVars, bootVars, SetStarted, Record, Ownership
<1>5. ASSUME NEW t \in Turns, Invoke(t)
      PROVE  Boundary'
  BY <1>5
  DEF Invoke, Boundary, LedgerTypeOK, RecordsOK, CallsOK, TurnsOK, BootsOK,
      turnVars, callVars, bootVars, Waiting, Ownership
<1>6. ASSUME NEW o \in Ops, LinkResource(o)
      PROVE  Boundary'
  BY <1>6
  DEF LinkResource, Boundary, LedgerTypeOK, RecordsOK, CallsOK, TurnsOK, BootsOK,
      turnVars, callVars, bootVars, Record
<1>7. ASSUME NEW o \in Ops, NEW x \in Reports, HandlerReturns(o, x)
      PROVE  Boundary'
  BY <1>7
  DEF HandlerReturns, Boundary, LedgerTypeOK, RecordsOK, CallsOK, TurnsOK, BootsOK,
      turnVars, callVars, bootVars, Scanned
<1>8. ASSUME NEW t \in Turns, Finish(t)
      PROVE  Boundary'
  <2>1. Closing
    BY <1>8, LedgerClosingStep
  <2>2. /\ tpc[t] = "executing" /\ heard[t] # "none"
        /\ tpc' = [tpc EXCEPT ![t] = "ready"]
        /\ cur' = [cur EXCEPT ![t] = NoOp]
        /\ heard' = [heard EXCEPT ![t] = "none"]
        /\ UNCHANGED <<handler, report, boots, lscan>>
    BY <1>8 DEF Finish, turnVars, callVars, bootVars
  <2> QED
    BY <2>1, <2>2
    DEF Closing, Open, LedgerTerminal, Boundary, Ownership, LedgerTypeOK, TurnsOK,
        BootsOK, Scanned
<1>9. ASSUME NEW o \in Ops, NodeSettles(o)
      PROVE  Boundary'
  <2>1. Closing
    BY <1>9, LedgerClosingStep
  <2>2. UNCHANGED <<handler, report, tpc, cur, heard, boots, lscan>>
    BY <1>9 DEF NodeSettles, turnVars, callVars, bootVars
  <2> QED
    BY <2>1, <2>2
    DEF Closing, Open, LedgerTerminal, Boundary, Ownership, LedgerTypeOK, TurnsOK,
        BootsOK, Scanned
<1>10. ASSUME NEW o \in Ops, BudgetSettles(o)
      PROVE  Boundary'
  <2>1. Closing
    BY <1>10, LedgerClosingStep
  <2>2. UNCHANGED <<handler, report, tpc, cur, heard, boots, lscan>>
    BY <1>10 DEF BudgetSettles, turnVars, callVars, bootVars
  <2> QED
    BY <2>1, <2>2
    DEF Closing, Open, LedgerTerminal, Boundary, Ownership, LedgerTypeOK, TurnsOK,
        BootsOK, Scanned
<1>11. ASSUME NEW t \in Turns, TurnEnds(t)
      PROVE  Boundary'
  BY <1>11
  DEF TurnEnds, Boundary, LedgerTypeOK, RecordsOK, CallsOK, TurnsOK, BootsOK,
      turnVars, callVars, bootVars
<1>12. ASSUME NEW t \in Turns, ReadBack(t)
      PROVE  Boundary'
  <2>1. Closing
    BY <1>12, LedgerClosingStep
  <2>2. /\ tpc[t] = "ready"
        /\ tpc' = tpc \/ tpc' = [tpc EXCEPT ![t] = "aborted"]
        /\ UNCHANGED <<handler, report, cur, heard, boots, lscan>>
    BY <1>12 DEF ReadBack, turnVars, callVars, bootVars
  <2>3. \A u \in Turns : tpc[u] = "dead" => tpc'[u] = "dead"
    BY <2>2 DEF LedgerTypeOK, TurnsOK
  <2>4. \A q \in Reconcilers : \A s \in lscan[q] : s.op \in Ops
    BY DEF LedgerTypeOK, BootsOK, Scanned
  <2> QED
    BY <2>1, <2>2, <2>3, <2>4 DEF Closing, Open, LedgerTerminal, Boundary, Ownership
<1>13. ASSUME NEW t \in Turns, TurnFails(t)
      PROVE  Boundary'
  BY <1>13
  DEF TurnFails, Boundary, LedgerTypeOK, RecordsOK, CallsOK, TurnsOK, BootsOK,
      turnVars, callVars, bootVars
<1>14. ASSUME NEW o \in Ops, NEW x \in {"succeeded", "failed"}, ResolveManually(o, x)
      PROVE  Boundary'
  <2>1. Closing
    BY <1>14, LedgerClosingStep
  <2>2. UNCHANGED <<handler, report, tpc, cur, heard, boots, lscan>>
    BY <1>14 DEF ResolveManually, turnVars, callVars, bootVars
  <2> QED
    BY <2>1, <2>2
    DEF Closing, Open, LedgerTerminal, Boundary, Ownership, LedgerTypeOK, TurnsOK,
        BootsOK, Scanned
<1>15. CASE ListForStartup
  BY <1>15
  DEF ListForStartup, Boundary, LedgerTypeOK, RecordsOK, CallsOK, TurnsOK, BootsOK,
      turnVars, callVars, bootVars, Snapshot, CanSettle, Open, Progress
<1>16. CASE ListForAdmin
  BY <1>16
  DEF ListForAdmin, Boundary, LedgerTypeOK, RecordsOK, CallsOK, TurnsOK, BootsOK,
      turnVars, callVars, bootVars, Snapshot, CanSettle, Open, Progress
<1>17. ASSUME NEW r \in Reconcilers, NEW s \in lscan[r], Reconcile(r, s)
      PROVE  Boundary'
  <2>1. Closing
    BY <1>17, LedgerClosingStep
  <2>2. /\ lscan' = [lscan EXCEPT ![r] = lscan[r] \ {s}]
        /\ UNCHANGED <<handler, report, tpc, cur, heard, boots>>
    BY <1>17 DEF Reconcile, turnVars, callVars
  <2> QED
    BY <2>1, <2>2
    DEF Closing, Open, LedgerTerminal, Boundary, Ownership, LedgerTypeOK, TurnsOK,
        BootsOK, Scanned
<1>18. ASSUME NEW r \in Reconcilers, ReconcileFails(r)
      PROVE  Boundary'
  BY <1>18
  DEF ReconcileFails, Boundary, LedgerTypeOK, RecordsOK, CallsOK, TurnsOK, BootsOK,
      turnVars, callVars, bootVars
<1>19. CASE BackendRestart
  BY <1>19
  DEF BackendRestart, Boundary, LedgerTypeOK, RecordsOK, CallsOK, TurnsOK, BootsOK,
      turnVars, callVars, bootVars, Kill, Ownership
<1>20. CASE LedgerWorkerCrash
  BY <1>20
  DEF LedgerWorkerCrash, Boundary, LedgerTypeOK, RecordsOK, CallsOK, TurnsOK, BootsOK,
      turnVars, callVars, bootVars
<1> QED
  BY <1>1, <1>2, <1>3, <1>4, <1>5, <1>6, <1>7, <1>8, <1>9, <1>10, <1>11,
     <1>12, <1>13, <1>14, <1>15, <1>16, <1>17, <1>18, <1>19, <1>20
  DEF LedgerNext, TurnStep, HandlerStep, OutsideStep, ReconcilerStep, Refuse,
      CreateResource, ResourceEnds, ResourceDeleted, NodeTimeout,
      BudgetTimeout, DetachedNodeTimeout, LateSettleFails, ledgerVars, turnVars,
      callVars, bootVars

\* The invariant holds initially and every step keeps it.
LEMMA BlockedInvariant ==
    ASSUME WorkerTurns = {}
    PROVE  LedgerSpec => []BlockedInv
<1>1. LedgerInit => BlockedInv
  <2>1. LedgerInit => /\ Hearing /\ Ownership /\ Progress /\ NotBlocked /\ Boundary
                      /\ BlockedNeverRan /\ OwnerGone
    BY DEF LedgerInit, NoRecord, Hearing, Ownership, Progress, NotBlocked, Boundary,
           BlockedNeverRan, OwnerGone, Waiting
  <2> QED BY <2>1, InitTypeOK DEF BlockedInv
<1>2. BlockedInv /\ [LedgerNext]_ledgerVars => BlockedInv'
  BY TypeStep, HearingStep, OwnershipStep, ProgressStep, NotBlockedStep,
     BoundaryStep, BlockedStep, OwnerGoneStep
  DEF BlockedInv
<1> QED BY <1>1, <1>2, PTL DEF LedgerSpec

\* With all turns in the backend, startup reconciliation never calls a write
\* blocked that a handler ran, however its reads and writes interleave with new
\* turns.
THEOREM BlockedIsHonest ==
    ASSUME WorkerTurns = {}
    PROVE  LedgerSpec => []BlockedNeverRan
<1>1. BlockedInv => BlockedNeverRan
  BY DEF BlockedInv
<1> QED BY <1>1, BlockedInvariant, PTL

\* Nor does it ever close the record of a turn that lives.
THEOREM OrphansHaveNoOwner ==
    ASSUME WorkerTurns = {}
    PROVE  LedgerSpec => []OwnerGone
<1>1. BlockedInv => OwnerGone
  BY DEF BlockedInv
<1> QED BY <1>1, BlockedInvariant, PTL

-----------------------------------------------------------------------------
(* "failed" is never written over a result nobody knows.                   *)

\* A turn that heard "error" heard it of a call that was refused or of its own
\* handler; it has not finished the record it works on; and the callback of the
\* request budget writes after the handler has reported.
Outcomes ==
    /\ \A t \in Turns : tpc[t] = "executing" /\ heard[t] = "error" =>
          \/ handler[cur[t]] = "idle"
          \/ handler[cur[t]] = "returned" /\ report[cur[t]] = "error"
    /\ \A t \in Turns : tpc[t] \in {"planned", "executing"} =>
          ledger[cur[t]].by # "finish"
    /\ \A o \in Ops : handler[o] = "returned" => report[o] \in Reports
    /\ \A o \in Ops : ledger[o].by = "request_budget_handler" => handler[o] = "returned"

FailedInv == LedgerTypeOK /\ Hearing /\ Ownership /\ Outcomes /\ FailedIsKnown

\* Who can have written the record of o in a step.
Written(o) ==
    \/ /\ ledger'[o].by = ledger[o].by
       /\ ledger'[o].status = "failed" => ledger[o].status = "failed"
    \/ ledger'[o].by \notin {"finish", "request_budget_handler"}
    \/ /\ \E t \in Turns : Finish(t) /\ cur[t] = o
                           /\ ledger'[o].status = FinishStatus(heard[t])
       /\ ledger'[o].by = "finish"
    \/ /\ BudgetSettles(o) /\ report[o] # "uncertain"
       /\ ledger'[o].status = FinishStatus(report[o])
       /\ ledger'[o].by = "request_budget_handler"

\* Only finish_operation of the record's own turn and the budget's callback sign
\* as they do.
LEMMA WrittenStep ==
    ASSUME LedgerTypeOK, [LedgerNext]_ledgerVars, NEW p \in Ops
    PROVE  Written(p)
<1> USE DEF LedgerTypeOK, RecordsOK
<1>0. ledger[p] \in Record
  OBVIOUS
<1>1. CASE UNCHANGED ledger
  BY <1>1 DEF Written
<1>2. ASSUME NEW t \in Turns, NEW o \in Ops, Plan(t, o)
      PROVE  Written(p)
  <2>1. PlannedRecord(t).by = "none"
    BY DEF PlannedRecord, NoRecord
  <2> QED BY <1>2, <2>1 DEF Plan, Written
<1>3. ASSUME NEW t \in Turns, Start(t)
      PROVE  Written(p)
  <2>1. SetStarted(ledger[p]).by = ledger[p].by
        /\ (SetStarted(ledger[p]).status = "failed" => ledger[p].status = "failed")
    BY <1>0 DEF SetStarted, Record
  <2> QED BY <1>3, <2>1 DEF Start, Written
<1>4. ASSUME NEW o \in Ops, LinkResource(o)
      PROVE  Written(p)
  BY <1>4 DEF LinkResource, Written, Record
<1>5. ASSUME NEW t \in Turns, Finish(t)
      PROVE  Written(p)
  <2>1. ledger'[p] = IF p = cur[t] THEN SetFinished(ledger[p], heard[t]) ELSE ledger[p]
    BY <1>5 DEF Finish
  <2>2. CASE ledger'[p] = ledger[p]
    BY <2>2 DEF Written
  <2>3. CASE p = cur[t] /\ ledger'[p].status = FinishStatus(heard[t])
             /\ ledger'[p].by = "finish"
    BY <1>5, <2>3 DEF Written
  <2> QED BY <1>0, <2>1, <2>2, <2>3, SettledEffect
<1>6. ASSUME NEW o \in Ops, NEW x \in LedgerTerminal,
             NEW y \in Resolvers \ {"finish", "request_budget_handler"},
             ledger' = [ledger EXCEPT ![o] = Settled(@, x, y)]
      PROVE  Written(p)
  <2>1. ledger'[p] = IF p = o THEN Settled(ledger[p], x, y) ELSE ledger[p]
    BY <1>6
  <2> QED BY <1>0, <2>1, SettledEffect DEF Written
<1>7. ASSUME NEW o \in Ops, NodeSettles(o)
      PROVE  Written(p)
  <2>1. LateStatus(report[o]) \in LedgerTerminal
        /\ "timed_out_handler" \in Resolvers \ {"finish", "request_budget_handler"}
    BY Verdicts
  <2>2. ledger' = [ledger EXCEPT ![o] =
                     Settled(@, LateStatus(report[o]), "timed_out_handler")]
    BY <1>7 DEF NodeSettles
  <2> QED BY <1>6, <2>1, <2>2
<1>8. ASSUME NEW o \in Ops, BudgetSettles(o)
      PROVE  Written(p)
  <2>1. CASE p = o /\ report[o] # "uncertain"
             /\ ledger'[p] = Settled(ledger[p], FinishStatus(report[p]),
                                     "request_budget_handler")
    <3>1. FinishStatus(report[p]) \in LedgerTerminal
          /\ "request_budget_handler" \in Resolvers
      BY <2>1, FinishStatusBudget, Verdicts DEF CallsOK
    <3> QED BY <1>0, <1>8, <2>1, <3>1, SettledEffect DEF Written
  <2>2. CASE ledger'[p] = ledger[p]
    BY <2>2 DEF Written
  <2> QED BY <1>8, <2>1, <2>2 DEF BudgetSettles
<1>9. ASSUME NEW t \in Turns, ReadBack(t)
      PROVE  Written(p)
  <2>1. pending[t] \in Ops
    BY <1>9 DEF ReadBack, TurnsOK
  <2> QED BY <1>1, <1>6, <1>9, <2>1, Verdicts DEF ReadBack
<1>10. ASSUME NEW o \in Ops, NEW x \in {"succeeded", "failed"}, ResolveManually(o, x)
      PROVE  Written(p)
  <2>1. x \in LedgerTerminal
        /\ "manual" \in Resolvers \ {"finish", "request_budget_handler"}
    BY Verdicts
  <2>2. ledger' = [ledger EXCEPT ![o] = Settled(@, x, "manual")]
    BY <1>10 DEF ResolveManually
  <2> QED BY <1>6, <2>1, <2>2
<1>11. ASSUME NEW r \in Reconcilers, NEW s \in lscan[r], Reconcile(r, s)
      PROVE  Written(p)
  <2>1. ledger'[p] = IF p = s.op THEN Reconciled(r, s) ELSE ledger[p]
    BY <1>11, ReconciledType DEF Reconcile
  <2>2. Reconciled(r, s) = ledger[s.op]
        \/ Reconciled(r, s).by \in {"durable_resource", "startup_reconciliation"}
    <3>1. ledger[s.op] \in Record
      BY ReconciledType
    <3> QED BY <3>1 DEF Reconciled, Settled, Record
  <2> QED BY <2>1, <2>2 DEF Written
<1> QED
  BY <1>1, <1>2, <1>3, <1>4, <1>5, <1>7, <1>8, <1>9, <1>10, <1>11
  DEF LedgerNext, TurnStep, HandlerStep, OutsideStep, ReconcilerStep,
      BudgetExhausted, Refuse, Invoke, CreateResource, ResourceEnds, ResourceDeleted,
      HandlerReturns, NodeTimeout, BudgetTimeout, DetachedNodeTimeout,
      LateSettleFails, TurnEnds, TurnFails, ListForStartup, ListForAdmin,
      ReconcileFails, BackendRestart, LedgerWorkerCrash, Kill, ledgerVars, turnVars,
      callVars, bootVars

\* Outcomes is kept: turns move, handlers report, and only Finish and the budget's
\* callback sign.
LEMMA HeardErrorStep ==
    ASSUME LedgerTypeOK, Hearing, Ownership, Outcomes, [LedgerNext]_ledgerVars,
           NEW u \in Turns, tpc'[u] = "executing", heard'[u] = "error"
    PROVE  \/ handler'[cur'[u]] = "idle"
           \/ handler'[cur'[u]] = "returned" /\ report'[cur'[u]] = "error"
<1> DEFINE Goal == \/ handler'[cur'[u]] = "idle"
                   \/ handler'[cur'[u]] = "returned" /\ report'[cur'[u]] = "error"
<1> USE DEF LedgerTypeOK, TurnsOK, CallsOK
<1>1. CASE UNCHANGED <<tpc, cur, heard, handler, report>>
  BY <1>1 DEF Outcomes
<1>2. ASSUME NEW t \in Turns, NEW o \in Ops, Plan(t, o) PROVE Goal
  BY <1>2 DEF Plan, Outcomes, callVars
<1>3. ASSUME NEW t \in Turns, BudgetExhausted(t) \/ Start(t) PROVE Goal
  BY <1>3 DEF BudgetExhausted, Start, Outcomes, Hearing, callVars
<1>4. ASSUME NEW t \in Turns, NEW x \in {"notExecuted", "error"}, Refuse(t, x)
      PROVE  Goal
  BY <1>4 DEF Refuse, Outcomes, callVars
<1>5. ASSUME NEW t \in Turns, Invoke(t) PROVE Goal
  <2>1. cur[u] = cur[t] => u = t
    BY <1>5 DEF Invoke, Waiting, turnVars, Ownership
  <2> QED BY <1>5, <2>1 DEF Invoke, Waiting, turnVars, Outcomes
<1>6. ASSUME NEW o \in Ops, NEW x \in Reports, HandlerReturns(o, x) PROVE Goal
  BY <1>6 DEF HandlerReturns, Waiting, Outcomes
<1>7. ASSUME NEW t \in Turns, NodeTimeout(t) \/ BudgetTimeout(t) PROVE Goal
  BY <1>7 DEF NodeTimeout, BudgetTimeout, Outcomes
<1>8. ASSUME NEW t \in Turns, Finish(t) PROVE Goal
  BY <1>8 DEF Finish, Outcomes, callVars
<1>9. ASSUME NEW t \in Turns, TurnEnds(t) \/ ReadBack(t) \/ TurnFails(t) PROVE Goal
  BY <1>9 DEF TurnEnds, ReadBack, TurnFails, Outcomes
<1>10. ASSUME NEW ts, Kill(ts) PROVE Goal
  BY <1>10 DEF Kill, Outcomes
<1> QED
  BY <1>1, <1>2, <1>3, <1>4, <1>5, <1>6, <1>7, <1>8, <1>9, <1>10
  DEF LedgerNext, TurnStep, HandlerStep, OutsideStep, ReconcilerStep, CreateResource,
      LinkResource, ResourceEnds, ResourceDeleted, DetachedNodeTimeout, NodeSettles,
      BudgetSettles, LateSettleFails, ResolveManually, ListForStartup, ListForAdmin,
      Reconcile, ReconcileFails, BackendRestart, LedgerWorkerCrash, ledgerVars,
      turnVars, callVars, bootVars

\* A turn that plans, or is inside, a call was there before the step or has just
\* planned it.
LEMMA CallStarts ==
    ASSUME LedgerTypeOK, [LedgerNext]_ledgerVars,
           NEW u \in Turns, tpc'[u] \in {"planned", "executing"}
    PROVE  \/ tpc[u] \in {"planned", "executing"} /\ cur'[u] = cur[u]
              /\ ~Finish(u)
           \/ \E o \in Ops : Plan(u, o)
<1> USE DEF LedgerTypeOK, TurnsOK
<1>1. CASE UNCHANGED <<tpc, cur>>
  <2>1. Finish(u) => FALSE
    BY <1>1 DEF Finish
  <2> QED BY <1>1, <2>1
<1>2. ASSUME NEW t \in Turns, t # u, TurnStep(t)
      PROVE  tpc'[u] = tpc[u] /\ cur'[u] = cur[u]
  BY <1>2 DEF TurnStep, Plan, BudgetExhausted, Start, Invoke, Refuse, NodeTimeout,
     BudgetTimeout, Finish, ReadBack, TurnEnds, TurnFails, turnVars
<1>3. tpc'[u] = tpc[u] => ~Finish(u)
  BY DEF Finish
<1>4. CASE TurnStep(u) /\ ~Finish(u)
  BY <1>1, <1>4 DEF TurnStep, BudgetExhausted, Start, Invoke, Refuse, NodeTimeout,
     BudgetTimeout, ReadBack, TurnEnds, TurnFails, turnVars
<1>5. ~Finish(u)
  BY DEF Finish
<1>6. ASSUME NEW ts, Kill(ts)
      PROVE  tpc[u] \in {"planned", "executing"} /\ cur'[u] = cur[u]
  BY <1>6 DEF Kill
<1> QED
  BY <1>1, <1>2, <1>3, <1>4, <1>5, <1>6
  DEF LedgerNext, HandlerStep, OutsideStep, ReconcilerStep, CreateResource,
      LinkResource, ResourceEnds, ResourceDeleted, HandlerReturns, DetachedNodeTimeout,
      NodeSettles, BudgetSettles, LateSettleFails, ResolveManually, ListForStartup,
      ListForAdmin, Reconcile, ReconcileFails, BackendRestart, LedgerWorkerCrash,
      ledgerVars, turnVars, callVars, bootVars

\* A handler that has returned stays so, with its report; one starts only when its
\* turn waits for it.
LEMMA HandlerMoves ==
    ASSUME LedgerTypeOK, Hearing, Outcomes, [LedgerNext]_ledgerVars, NEW o \in Ops
    PROVE  /\ handler[o] = "returned" => handler'[o] = "returned"
                                         /\ report'[o] = report[o]
           /\ handler'[o] = "returned" => report'[o] \in Reports
           /\ handler[o] = "idle" /\ handler'[o] # "idle"
                => \E t \in Turns : Waiting(t) /\ cur[t] = o
<1> DEFINE Kept    == handler[o] = "returned" => handler'[o] = "returned"
                                                 /\ report'[o] = report[o]
           Reported == handler'[o] = "returned" => report'[o] \in Reports
           Called  == handler[o] = "idle" /\ handler'[o] # "idle"
                         => \E t \in Turns : Waiting(t) /\ cur[t] = o
<1> USE DEF LedgerTypeOK, CallsOK
<1>1. CASE UNCHANGED <<handler, report>>
  BY <1>1 DEF Outcomes
<1>2. ASSUME NEW t \in Turns, Invoke(t) PROVE Kept /\ Reported /\ Called
  BY <1>2 DEF Invoke, Outcomes, TurnsOK, Waiting
<1>3. ASSUME NEW p \in Ops, NEW x \in Reports, HandlerReturns(p, x)
      PROVE  Kept /\ Reported /\ Called
  BY <1>3 DEF HandlerReturns, Outcomes
<1>4. ASSUME NEW ts, Kill(ts) PROVE Kept /\ Reported /\ Called
  BY <1>4 DEF Kill, Outcomes
<1> QED
  BY <1>1, <1>2, <1>3, <1>4
  DEF LedgerNext, TurnStep, HandlerStep, OutsideStep, ReconcilerStep, Plan,
      BudgetExhausted, Start, Refuse, CreateResource, LinkResource, ResourceEnds,
      ResourceDeleted, NodeTimeout, BudgetTimeout, DetachedNodeTimeout, Finish,
      NodeSettles, BudgetSettles, LateSettleFails, TurnEnds, ReadBack, TurnFails,
      ResolveManually, ListForStartup, ListForAdmin, Reconcile, ReconcileFails,
      BackendRestart, LedgerWorkerCrash, ledgerVars, turnVars, callVars, bootVars

LEMMA OutcomesStep ==
    ASSUME LedgerTypeOK, Hearing, Ownership, Outcomes, [LedgerNext]_ledgerVars
    PROVE  Outcomes'
<1>1. ASSUME NEW u \in Turns, tpc'[u] \in {"planned", "executing"}
      PROVE  ledger'[cur'[u]].by # "finish"
  <2>1. ASSUME NEW o \in Ops, Plan(u, o) PROVE ledger'[cur'[u]].by # "finish"
    BY <2>1 DEF Plan, PlannedRecord, NoRecord, LedgerTypeOK, RecordsOK, TurnsOK
  <2>2. ASSUME tpc[u] \in {"planned", "executing"}, cur'[u] = cur[u], ~Finish(u)
        PROVE  ledger'[cur'[u]].by # "finish"
    <3>1. cur[u] \in Ops /\ ledger[cur[u]].by # "finish" /\ ledger[cur[u]].turn = u
      BY <2>2 DEF LedgerTypeOK, TurnsOK, Outcomes, Ownership
    <3>2. Written(cur[u])
      BY <3>1, WrittenStep
    <3>3. ASSUME NEW t \in Turns, Finish(t), cur[t] = cur[u] PROVE FALSE
      <4>1. ledger[cur[t]].turn = t
        BY <3>3 DEF Finish, Ownership
      <4> QED BY <2>2, <3>1, <3>3, <4>1
    <3> QED BY <2>2, <3>1, <3>2, <3>3 DEF Written
  <2> QED BY <1>1, <2>1, <2>2, CallStarts
<1>2. ASSUME NEW o \in Ops, ledger'[o].by = "request_budget_handler"
      PROVE  handler'[o] = "returned"
  <2>1. handler[o] = "returned"
    BY <1>2, WrittenStep DEF Written, BudgetSettles, Outcomes
  <2> QED BY <2>1, HandlerMoves
<1> QED BY <1>1, <1>2, HeardErrorStep, HandlerMoves DEF Outcomes

LEMMA FailedIsKnownStep ==
    ASSUME LedgerTypeOK, Hearing, Ownership, Outcomes, FailedIsKnown,
           [LedgerNext]_ledgerVars
    PROVE  FailedIsKnown'
<1> SUFFICES ASSUME NEW o \in Ops, ledger'[o].status = "failed",
                    ledger'[o].by \in {"finish", "request_budget_handler"}
             PROVE  \/ handler'[o] = "idle"
                    \/ handler'[o] = "returned" /\ report'[o] = "error"
  BY DEF FailedIsKnown
<1>1. \A x : FinishStatus(x) = "failed" =>
          x \notin {"timeout", "uncertain", "notExecuted", "ok"}
  BY DEF FinishStatus
<1>2. \/ handler[o] = "idle"
      \/ handler[o] = "returned" /\ report[o] = "error"
  <2>1. CASE ledger[o].by = ledger'[o].by /\ ledger[o].status = "failed"
    BY <2>1 DEF FailedIsKnown
  <2>2. ASSUME NEW t \in Turns, Finish(t), cur[t] = o, FinishStatus(heard[t]) = "failed"
        PROVE  \/ handler[o] = "idle"
               \/ handler[o] = "returned" /\ report[o] = "error"
    <3>1. heard[t] = "error" /\ tpc[t] = "executing"
      BY <1>1, <2>2 DEF Finish, LedgerTypeOK, TurnsOK, Reports
    <3> QED BY <2>2, <3>1 DEF Outcomes
  <2>3. CASE BudgetSettles(o) /\ FinishStatus(report[o]) = "failed"
    BY <1>1, <2>3 DEF BudgetSettles, Outcomes, Reports
  <2> QED BY <2>1, <2>2, <2>3, WrittenStep DEF Written
<1>3. handler[o] = "idle" => handler'[o] = "idle"
  <2> SUFFICES ASSUME NEW t \in Turns, Waiting(t), cur[t] = o, handler[o] = "idle"
               PROVE  handler'[o] = "idle"
    BY HandlerMoves DEF LedgerTypeOK
  <2>1. ledger[o].by \notin {"finish", "request_budget_handler"}
    BY DEF Waiting, Outcomes
  <2>2. \E u \in Turns : Finish(u) /\ cur[u] = o
    BY <2>1, WrittenStep DEF Written, BudgetSettles
  <2> QED BY <2>2 DEF Finish, callVars
<1> QED BY <1>2, <1>3, HandlerMoves

\* An uncertain outcome is never recorded as failed by finish_operation or by the
\* callback of the request budget: with turns in both processes, for any number of
\* operations, restarts and crashes.
THEOREM FailureIsKnown == LedgerSpec => []FailedIsKnown
<1>1. LedgerInit => FailedInv
  <2>1. LedgerInit => Hearing /\ Ownership /\ Outcomes /\ FailedIsKnown
    BY DEF LedgerInit, NoRecord, Hearing, Ownership, Outcomes, FailedIsKnown
  <2> QED BY <2>1, InitTypeOK DEF FailedInv
<1>2. FailedInv /\ [LedgerNext]_ledgerVars => FailedInv'
  BY TypeStep, HearingStep, OwnershipStep, OutcomesStep, FailedIsKnownStep DEF FailedInv
<1>3. FailedInv => FailedIsKnown
  BY DEF FailedInv
<1> QED BY <1>1, <1>2, <1>3, PTL DEF LedgerSpec
=============================================================================
