--------------------------- MODULE Session_proofs ---------------------------
(***************************************************************************)
(* Proofs about a session: its task state (TaskState), its turns           *)
(* (SessionTurn), the query loop of a turn (TurnLoop) and the agents it    *)
(* delegates to (Subagent), for any sets of runs, requests, handlers,      *)
(* goals, writes and tasks, any number of restarts and tool calls and any  *)
(* combination of faults; and what follows for the instance that MCPlatform *)
(* makes of them.                                                          *)
(***************************************************************************)
EXTENDS MCPlatform, JobQueue_proofs, OperationLedger_proofs, TLAPS

-----------------------------------------------------------------------------
(* The task state: types.                                                  *)

TaskRecords ==
    [rev    : Nat,
     id     : TaskRuns \cup {NoRunId},
     status : {"none", "active", "completed", "failed", "interrupted"},
     run    : TaskRuns \cup {NoRunId}]

TaskWrites ==
    [by   : TaskRuns \cup {NoRunId},
     kind : {"none", "started", "checkpoint", "commit", "interrupted"},
     task : TaskRecords]

TaskPcs == {"idle", "resolved", "running", "done", "dead"}

TaskContracts == [id : TaskRuns \cup {NoRunId}, rev : Nat]

TaskRecordTypes ==
    tsk \in TaskRecords /\ tskLogged \in TaskRecords /\ tskPending \in TaskWrites

TaskRunTypes ==
    /\ tskPc \in [TaskRuns -> TaskPcs]
    /\ tcontract \in [TaskRuns -> TaskContracts]
    /\ ttracked \in [TaskRuns -> BOOLEAN]

TaskFlagTypes ==
    /\ tskFresh \in BOOLEAN /\ tboot \in BOOLEAN
    /\ tchecks \in 0..MaxCheckpoints /\ trestarts \in 0..MaxTaskRestarts

TaskTypes == TaskRecordTypes /\ TaskRunTypes /\ TaskFlagTypes

\* A write under way is the last event of the log, one revision ahead of the
\* snapshot, and its writer is where it began it.
TaskWriteOK ==
    tskPending # NoPending =>
        /\ tskPending.task = tskLogged /\ tskLogged.rev = tsk.rev + 1
        /\ \/ /\ tskPending.kind = "started" /\ tskPending.by \in TaskRuns
              /\ tskPc[tskPending.by] = "resolved"
              /\ tskLogged.run = tskPending.by /\ tskLogged.status = "active"
           \/ /\ tskPending.kind = "checkpoint" /\ tskPending.by \in TaskRuns
              /\ tskPc[tskPending.by] = "running"
              /\ tsk.run = tskPending.by /\ tsk.status = "active"
              /\ tskLogged.run = tskPending.by /\ tskLogged.status = "active"
           \/ /\ tskPending.kind = "commit" /\ tskPending.by \in TaskRuns
              /\ tskPc[tskPending.by] = "running"
              /\ ttracked[tskPending.by]
                 => tsk.run = tskPending.by /\ tsk.status = "active"
              /\ tskLogged.run = tskPending.by
              /\ tskLogged.status \in {"completed", "failed"}
           \/ /\ tskPending.kind = "interrupted" /\ tskPending.by = NoRunId
              /\ Stranded
              /\ tskLogged.run = tsk.run /\ tskLogged.status = "interrupted"

\* A run that began knows a revision that was written, and while that revision
\* is current the active task is its own.
TaskTracked ==
    \A r \in TaskRuns : ttracked[r] =>
        /\ tskPc[r] = "running"
        /\ tcontract[r].rev > 0 /\ tcontract[r].rev <= tsk.rev
        /\ tcontract[r].rev = tsk.rev
           => tcontract[r].id = tsk.id /\ tsk.run = r /\ tsk.status = "active"

\* The run named by the snapshot has begun; it is over if the task is active
\* and was not updated since the start of the service.
TaskOwner ==
    /\ \A r \in TaskRuns : tsk.run = r => tskPc[r] \notin {"idle", "resolved"}
    /\ tsk.status = "active" => tsk.run \in TaskRuns
    /\ Stranded => tskPc[tsk.run] \in {"dead", "done"}

TaskInv == TaskTypes /\ LogLeads /\ TaskWriteOK /\ TaskTracked /\ TaskOwner

-----------------------------------------------------------------------------
(* The task state: what every step does.                                   *)

\* The values that stand for nothing, the records a write makes, and what a
\* run, a checkpoint and an interruption write.
LEMMA TaskConstantsOK ==
  NoTask \in TaskRecords /\ NoPending \in TaskWrites /\ NoContract \in TaskContracts
  BY DEF NoTask, NoPending, NoContract, TaskRecords, TaskWrites, TaskContracts

LEMMA TaskWriteMade ==
  ASSUME NEW by \in TaskRuns \cup {NoRunId},
         NEW kind \in {"started", "checkpoint", "commit", "interrupted"},
         NEW task \in TaskRecords
  PROVE  [by |-> by, kind |-> kind, task |-> task] \in TaskWrites
  BY DEF TaskWrites

LEMMA TaskContractMade == \A t \in TaskRecords : TaskContract(t) \in TaskContracts
  BY DEF TaskContract, TaskRecords, TaskContracts

LEMMA TaskWrittenIsNext ==
  ASSUME tsk \in TaskRecords, tcontract \in [TaskRuns -> TaskContracts],
         NEW r \in TaskRuns, NEW status \in {"active", "completed", "failed"}
  PROVE  /\ TaskWritten(r, status) \in TaskRecords
         /\ TaskWritten(r, status).rev = tsk.rev + 1
         /\ TaskWritten(r, status).run = r
         /\ TaskWritten(r, status).status = status
  BY DEF TaskRecords, TaskWritten

LEMMA TaskEdited ==
  ASSUME NEW t \in TaskRecords
  PROVE  /\ [t EXCEPT !.rev = @ + 1] \in TaskRecords
         /\ [t EXCEPT !.rev = @ + 1].rev = t.rev + 1
         /\ [t EXCEPT !.rev = @ + 1].run = t.run
         /\ [t EXCEPT !.rev = @ + 1].status = t.status
         /\ [rev |-> t.rev + 1, id |-> t.id, status |-> "interrupted", run |-> t.run]
              \in TaskRecords
<1>1. [t EXCEPT !.rev = @ + 1]
        = [rev |-> t.rev + 1, id |-> t.id, status |-> t.status, run |-> t.run]
  BY DEF TaskRecords
<1>2. /\ [rev |-> t.rev + 1, id |-> t.id, status |-> t.status, run |-> t.run]
           \in TaskRecords
      /\ [rev |-> t.rev + 1, id |-> t.id, status |-> "interrupted", run |-> t.run]
           \in TaskRecords
  BY DEF TaskRecords
<1> QED BY <1>1, <1>2

LEMMA TaskInitInv == TaskInit => TaskInv
<1> SUFFICES ASSUME TaskInit PROVE TaskInv
  OBVIOUS
<1> USE DEF TaskInit
<1>1. TaskRecordTypes
  BY TaskConstantsOK DEF TaskRecordTypes
<1>2. TaskRunTypes
  BY TaskConstantsOK DEF TaskRunTypes, TaskPcs
<1>3. TaskFlagTypes
  <2>1. tchecks \in 0..MaxCheckpoints /\ trestarts \in 0..MaxTaskRestarts
    BY TaskAssumption
  <2> QED BY <2>1 DEF TaskFlagTypes
<1>4. LogLeads /\ TaskWriteOK /\ TaskTracked /\ TaskOwner
  BY TaskAssumption
  DEF LogLeads, TaskWriteOK, TaskTracked, TaskOwner, Stranded, NoTask
<1> QED BY <1>1, <1>2, <1>3, <1>4 DEF TaskInv, TaskTypes

-----------------------------------------------------------------------------
(* The task state keeps its types.                                         *)

LEMMA TaskRecordStep == TaskInv /\ [TaskNext]_tskVars => TaskRecordTypes'
<1> SUFFICES ASSUME TaskInv, [TaskNext]_tskVars PROVE TaskRecordTypes'
  OBVIOUS
<1> USE DEF TaskInv, TaskTypes, TaskRecordTypes
<1>1. ASSUME UNCHANGED <<tsk, tskLogged, tskPending>> PROVE TaskRecordTypes'
  BY <1>1
<1>2. ASSUME NEW by \in TaskRuns \cup {NoRunId},
             NEW kind \in {"started", "checkpoint", "commit", "interrupted"},
             NEW task \in TaskRecords, LogTask(by, kind, task), UNCHANGED tsk
      PROVE  TaskRecordTypes'
  BY <1>2, TaskWriteMade DEF LogTask
<1>3. ASSUME NEW r \in TaskRuns, BeginTask(r) PROVE TaskRecordTypes'
  <2>1. TaskWritten(r, "active") \in TaskRecords
    BY TaskWrittenIsNext DEF TaskRunTypes
  <2> QED BY <1>3, <1>1, <1>2, <2>1 DEF BeginTask
<1>4. ASSUME NEW r \in TaskRuns, CheckpointTask(r) PROVE TaskRecordTypes'
  BY <1>4, <1>2, TaskEdited DEF CheckpointTask
<1>5. ASSUME NEW r \in TaskRuns, NEW status \in {"completed", "failed"},
             CommitTask(r, status)
      PROVE  TaskRecordTypes'
  <2>1. TaskWritten(r, status) \in TaskRecords
    BY TaskWrittenIsNext DEF TaskRunTypes
  <2> QED BY <1>5, <1>1, <1>2, <2>1 DEF CommitTask
<1>6. ASSUME PublishTask PROVE TaskRecordTypes'
  <2>1. tskPending.task \in TaskRecords
    BY DEF TaskWrites
  <2> QED BY <1>6, <2>1, TaskConstantsOK DEF PublishTask
<1>7. ASSUME PublishTaskFails \/ ServiceRestarts PROVE TaskRecordTypes'
  BY <1>7, TaskConstantsOK DEF PublishTaskFails, ServiceRestarts
<1>8. ASSUME ReconcileTasks PROVE TaskRecordTypes'
  BY <1>8, <1>1, <1>2, TaskEdited DEF ReconcileTasks
<1> QED
  BY <1>1, <1>3, <1>4, <1>5, <1>6, <1>7, <1>8
  DEF TaskNext, TaskRunStep, ResolveTask, ResolveTaskFails, tskVars

LEMMA TaskRunTypesStep == TaskInv /\ [TaskNext]_tskVars => TaskRunTypes'
<1> SUFFICES ASSUME TaskInv, [TaskNext]_tskVars PROVE TaskRunTypes'
  OBVIOUS
<1> USE DEF TaskInv, TaskTypes, TaskRunTypes
<1>1. ASSUME UNCHANGED tskRun PROVE TaskRunTypes'
  BY <1>1 DEF tskRun
<1>2. ASSUME NEW r \in TaskRuns, NEW point \in TaskPcs,
             NEW contract \in TaskContracts, NEW tracked \in BOOLEAN,
             TaskAdvance(r, point, contract, tracked)
      PROVE  TaskRunTypes'
  BY <1>2 DEF TaskAdvance
<1>3. {"resolved", "running", "done", "dead"} \subseteq TaskPcs
  BY DEF TaskPcs
<1>4. ASSUME NEW r \in TaskRuns, TaskRunStep(r) PROVE TaskRunTypes'
  <2>1. TaskContract(tsk) \in TaskContracts /\ tcontract[r] \in TaskContracts
    BY TaskContractMade DEF TaskRecordTypes
  <2> QED BY <1>4, <1>1, <1>2, <1>3, <2>1, TaskConstantsOK
          DEF TaskRunStep, ResolveTask, ResolveTaskFails, BeginTask, CheckpointTask,
              CommitTask
<1>5. ASSUME PublishTask PROVE TaskRunTypes'
  <2>1. TaskContract(tskPending.task) \in TaskContracts
    BY TaskContractMade DEF TaskRecordTypes, TaskWrites
  <2>2. tskPending.kind \in {"started", "checkpoint", "commit"}
        => tskPending.by \in TaskRuns
    BY <1>5 DEF PublishTask, TaskUnlocked, TaskWriteOK
  <2> QED BY <1>5, <1>1, <1>2, <1>3, <2>1, <2>2, TaskConstantsOK DEF PublishTask
<1>6. ASSUME PublishTaskFails PROVE TaskRunTypes'
  <2>1. tcontract[tskPending.by] \in TaskContracts /\ ttracked[tskPending.by] \in BOOLEAN
    BY <1>6 DEF PublishTaskFails
  <2> QED BY <1>6, <1>2, <1>3, <2>1, TaskConstantsOK DEF PublishTaskFails
<1>7. ASSUME ServiceRestarts PROVE TaskRunTypes'
  BY <1>7, <1>3, TaskConstantsOK DEF ServiceRestarts
<1> QED
  BY <1>1, <1>4, <1>5, <1>6, <1>7 DEF TaskNext, ReconcileTasks, tskVars, tskRun

LEMMA TaskFlagStep == TaskInv /\ [TaskNext]_tskVars => TaskFlagTypes'
<1> SUFFICES ASSUME TaskInv, [TaskNext]_tskVars PROVE TaskFlagTypes'
  OBVIOUS
<1> USE TaskAssumption DEF TaskInv, TaskTypes, TaskFlagTypes
<1>1. ASSUME UNCHANGED <<tskFresh, tboot, tchecks, trestarts>> PROVE TaskFlagTypes'
  BY <1>1
<1>2. ASSUME NEW r \in TaskRuns, CheckpointTask(r) PROVE TaskFlagTypes'
  BY <1>2 DEF CheckpointTask
<1>3. ASSUME PublishTask \/ PublishTaskFails PROVE TaskFlagTypes'
  BY <1>3 DEF PublishTask, PublishTaskFails
<1>4. ASSUME ServiceRestarts PROVE TaskFlagTypes'
  <2>1. trestarts' \in 0..MaxTaskRestarts
    BY <1>4 DEF ServiceRestarts
  <2> QED BY <1>4, <2>1 DEF ServiceRestarts
<1>5. ASSUME ReconcileTasks PROVE TaskFlagTypes'
  BY <1>5 DEF ReconcileTasks
<1> QED
  BY <1>1, <1>2, <1>3, <1>4, <1>5
  DEF TaskNext, TaskRunStep, ResolveTask, ResolveTaskFails, BeginTask, CommitTask,
      tskVars

-----------------------------------------------------------------------------
(* The log, the write under way and the runs.                              *)

\* A write that appends its event leaves the log one revision ahead.
LEMMA LogLeadsStep == TaskInv /\ [TaskNext]_tskVars => LogLeads'
<1> SUFFICES ASSUME TaskInv, [TaskNext]_tskVars PROVE LogLeads'
  OBVIOUS
<1> USE DEF TaskInv, TaskTypes, TaskRecordTypes
<1>0. tsk.rev \in Nat
  BY DEF TaskRecords
<1>1. ASSUME UNCHANGED <<tsk, tskLogged>> PROVE LogLeads'
  BY <1>1 DEF LogLeads
<1>2. ASSUME NEW by, NEW kind, NEW task, task.rev = tsk.rev + 1,
             LogTask(by, kind, task), UNCHANGED tsk
      PROVE  LogLeads'
  BY <1>0, <1>2 DEF LogTask, LogLeads
<1>3. ASSUME NEW r \in TaskRuns, TaskRunStep(r) PROVE LogLeads'
  <2>1. \A status \in {"active", "completed", "failed"} :
           TaskWritten(r, status).rev = tsk.rev + 1
    BY TaskWrittenIsNext DEF TaskRunTypes
  <2> QED BY <1>1, <1>2, <1>3, <2>1, TaskEdited
          DEF TaskRunStep, ResolveTask, ResolveTaskFails, BeginTask, CheckpointTask,
              CommitTask
<1>4. ASSUME PublishTask PROVE LogLeads'
  BY <1>4 DEF PublishTask, TaskUnlocked, TaskWriteOK, LogLeads, TaskRecords
<1>5. ASSUME ReconcileTasks PROVE LogLeads'
  BY <1>1, <1>2, <1>5, TaskEdited DEF ReconcileTasks
<1> QED
  BY <1>1, <1>3, <1>4, <1>5
  DEF TaskNext, PublishTaskFails, ServiceRestarts, tskVars

\* Only the run whose write it is moves while a write is under way.
LEMMA TaskWriteStep == TaskInv /\ [TaskNext]_tskVars => TaskWriteOK'
<1> SUFFICES ASSUME TaskInv, [TaskNext]_tskVars PROVE TaskWriteOK'
  OBVIOUS
<1> USE DEF TaskInv, TaskTypes, TaskRecordTypes, TaskRunTypes
<1>1. ASSUME UNCHANGED <<tsk, tskFresh, tskLogged, tskPending, tskRun>>
      PROVE  TaskWriteOK'
  BY <1>1 DEF TaskWriteOK, tskRun, Stranded
<1>2. ASSUME TaskUnlocked, UNCHANGED tskPending PROVE TaskWriteOK'
  BY <1>2 DEF TaskUnlocked, TaskWriteOK
<1>3. ASSUME NEW r \in TaskRuns, ResolveTaskFails(r) PROVE TaskWriteOK'
  BY <1>3, TaskAssumption
  DEF ResolveTaskFails, TaskAdvance, TaskWriteOK, Stranded
<1>4. ASSUME NEW r \in TaskRuns, BeginTask(r) PROVE TaskWriteOK'
  <2>1. CASE UNCHANGED <<tskLogged, tskPending>>
    BY <1>2, <1>4, <2>1 DEF BeginTask
  <2>2. CASE LogTask(r, "started", TaskWritten(r, "active")) /\ UNCHANGED tskRun
    BY <1>4, <2>2, TaskWrittenIsNext
    DEF BeginTask, LogTask, TaskWriteOK, tskRun
  <2> QED BY <1>4, <2>1, <2>2 DEF BeginTask
<1>5. ASSUME NEW r \in TaskRuns, CheckpointTask(r) PROVE TaskWriteOK'
  BY <1>5, TaskEdited DEF CheckpointTask, LogTask, TaskWriteOK, tskRun
<1>6. ASSUME NEW r \in TaskRuns, NEW status \in {"completed", "failed"},
             CommitTask(r, status)
      PROVE  TaskWriteOK'
  <2>1. CASE UNCHANGED <<tskLogged, tskPending>>
    BY <1>2, <1>6, <2>1 DEF CommitTask
  <2>2. CASE LogTask(r, "commit", TaskWritten(r, status)) /\ UNCHANGED tskRun
               /\ (tcontract[r] = NoContract \/ TaskHolds(r))
    <3>1. ttracked[r] => tcontract[r].rev = tsk.rev
      BY <2>2 DEF TaskTracked, TaskHolds, TaskContract, NoContract
    <3>2. ttracked[r] => tsk.run = r /\ tsk.status = "active"
      BY <3>1 DEF TaskTracked
    <3> QED BY <1>6, <2>2, <3>2, TaskWrittenIsNext
            DEF CommitTask, LogTask, TaskWriteOK, tskRun
  <2> QED BY <1>6, <2>1, <2>2 DEF CommitTask
<1>7. ASSUME PublishTask \/ PublishTaskFails \/ ServiceRestarts PROVE TaskWriteOK'
  BY <1>7 DEF PublishTask, PublishTaskFails, ServiceRestarts, TaskWriteOK
<1>8. ASSUME ReconcileTasks PROVE TaskWriteOK'
  <2>1. CASE UNCHANGED <<tskLogged, tskPending>>
    BY <1>2, <1>8, <2>1 DEF ReconcileTasks
  <2>2. CASE Stranded /\ LogTask(NoRunId, "interrupted",
                            [rev |-> tsk.rev + 1, id |-> tsk.id, status |-> "interrupted",
                             run |-> tsk.run])
    BY <1>8, <2>2, TaskEdited DEF ReconcileTasks, LogTask, TaskWriteOK, Stranded
  <2> QED BY <1>8, <2>1, <2>2 DEF ReconcileTasks
<1> QED
  BY <1>1, <1>2, <1>3, <1>4, <1>5, <1>6, <1>7, <1>8
  DEF TaskNext, TaskRunStep, ResolveTask, tskVars

LEMMA TaskTrackedStep == TaskInv /\ [TaskNext]_tskVars => TaskTracked'
<1> SUFFICES ASSUME TaskInv, [TaskNext]_tskVars PROVE TaskTracked'
  OBVIOUS
<1> USE DEF TaskInv, TaskTypes, TaskRecordTypes, TaskRunTypes
<1>1. ASSUME UNCHANGED <<tsk, tskRun>> PROVE TaskTracked'
  BY <1>1 DEF TaskTracked, tskRun
<1>2. ASSUME NEW r \in TaskRuns, NEW point, NEW contract,
             TaskAdvance(r, point, contract, FALSE), UNCHANGED tsk
      PROVE  TaskTracked'
  BY <1>2 DEF TaskTracked, TaskAdvance
<1>3. ASSUME NEW r \in TaskRuns, TaskRunStep(r) PROVE TaskTracked'
  BY <1>1, <1>2, <1>3
  DEF TaskRunStep, ResolveTask, ResolveTaskFails, BeginTask, CheckpointTask, CommitTask
<1>4. ASSUME PublishTask PROVE TaskTracked'
  <2>1. tsk'.rev = tsk.rev + 1 /\ tsk' = tskLogged /\ tsk.rev \in Nat
    BY <1>4 DEF PublishTask, TaskUnlocked, TaskWriteOK, TaskRecords
  <2>2. ASSUME NEW r \in TaskRuns, ttracked'[r], tcontract'[r] = tcontract[r],
               ttracked'[r] = ttracked[r], tskPc'[r] = tskPc[r]
        PROVE  tskPc'[r] = "running" /\ tcontract'[r].rev > 0
               /\ tcontract'[r].rev < tsk'.rev
    BY <2>1, <2>2 DEF TaskTracked, TaskContracts
  <2>3. CASE tskPending.kind \in {"started", "checkpoint"}
    <3>1. /\ tskPending.by \in TaskRuns
          /\ TaskAdvance(tskPending.by, "running", TaskContract(tsk'), TRUE)
          /\ tsk'.run = tskPending.by /\ tsk'.status = "active"
      BY <1>4, <2>1, <2>3 DEF PublishTask, TaskUnlocked, TaskWriteOK
    <3>2. tcontract'[tskPending.by] = TaskContract(tsk')
          /\ tskPc'[tskPending.by] = "running"
      BY <3>1 DEF TaskAdvance
    <3>3. \A r \in TaskRuns \ {tskPending.by} :
             /\ tcontract'[r] = tcontract[r] /\ ttracked'[r] = ttracked[r]
             /\ tskPc'[r] = tskPc[r]
      BY <3>1 DEF TaskAdvance
    <3>4. \A r \in TaskRuns \ {tskPending.by} : ttracked'[r] =>
             tskPc'[r] = "running" /\ tcontract'[r].rev > 0
             /\ tcontract'[r].rev < tsk'.rev
      BY <2>2, <3>3
    <3>5. tsk'.rev \in Nat /\ \A r \in TaskRuns \ {tskPending.by} :
                                 tcontract'[r].rev \in Nat
      BY <2>1, <3>3 DEF TaskContracts
    <3> QED BY <2>1, <3>1, <3>2, <3>4, <3>5 DEF TaskTracked, TaskContract
  <2>4. CASE tskPending.kind = "commit"
    <3>1. /\ tskPending.by \in TaskRuns
          /\ TaskAdvance(tskPending.by, "done", NoContract, FALSE)
      BY <1>4, <2>4 DEF PublishTask, TaskUnlocked, TaskWriteOK
    <3>2. ~ttracked'[tskPending.by] /\ \A r \in TaskRuns \ {tskPending.by} :
             /\ tcontract'[r] = tcontract[r] /\ ttracked'[r] = ttracked[r]
             /\ tskPc'[r] = tskPc[r]
      BY <3>1 DEF TaskAdvance
    <3>3. \A r \in TaskRuns : ttracked'[r] =>
             tskPc'[r] = "running" /\ tcontract'[r].rev > 0
             /\ tcontract'[r].rev < tsk'.rev /\ tcontract'[r].rev \in Nat
      BY <2>2, <3>2 DEF TaskContracts
    <3> QED BY <2>1, <3>3 DEF TaskTracked
  <2>5. CASE tskPending.kind = "interrupted"
    <3>1. UNCHANGED tskRun
      BY <1>4, <2>5 DEF PublishTask
    <3>2. \A r \in TaskRuns : ttracked'[r] =>
             tskPc'[r] = "running" /\ tcontract'[r].rev > 0
             /\ tcontract'[r].rev < tsk'.rev /\ tcontract'[r].rev \in Nat
      BY <2>2, <3>1 DEF TaskContracts, tskRun
    <3> QED BY <2>1, <3>2 DEF TaskTracked
  <2> QED BY <1>4, <2>3, <2>4, <2>5 DEF PublishTask, TaskUnlocked, TaskWriteOK
<1>5. ASSUME PublishTaskFails PROVE TaskTracked'
  <2>1. CASE tskPending.kind = "commit"
    BY <1>2, <1>5, <2>1 DEF PublishTaskFails
  <2>2. CASE tskPending.kind = "started"
    <3>1. ttracked[tskPending.by] = FALSE
      BY <1>5, <2>2 DEF PublishTaskFails, TaskWriteOK, TaskTracked, NoPending
    <3> QED BY <1>2, <1>5, <2>2, <3>1 DEF PublishTaskFails
  <2>3. CASE tskPending.kind = "checkpoint"
    <3>1. tskPc[tskPending.by] = "running"
      BY <1>5, <2>3 DEF PublishTaskFails, TaskWriteOK, NoPending
    <3>2. UNCHANGED tskRun
      BY <1>5, <2>3, <3>1 DEF PublishTaskFails, TaskAdvance, tskRun
    <3> QED BY <1>1, <1>5, <3>2 DEF PublishTaskFails
  <2>4. tskPending # NoPending /\ tskPending.by # NoRunId
    BY <1>5, TaskAssumption DEF PublishTaskFails, NoPending
  <2> QED BY <2>1, <2>2, <2>3, <2>4 DEF TaskWriteOK
<1>6. ASSUME ServiceRestarts PROVE TaskTracked'
  BY <1>6 DEF ServiceRestarts, TaskTracked
<1> QED
  BY <1>1, <1>3, <1>4, <1>5, <1>6 DEF TaskNext, ReconcileTasks, tskVars

\* A run never returns to where it had not begun.
LEMMA TaskPcForward ==
  ASSUME TaskInv, [TaskNext]_tskVars, NEW r \in TaskRuns
  PROVE  /\ tskPc[r] \notin {"idle", "resolved"} => tskPc'[r] \notin {"idle", "resolved"}
         /\ tskPc[r] \in {"dead", "done"} => tskPc'[r] \in {"dead", "done"}
<1> USE DEF TaskInv, TaskTypes, TaskRunTypes
<1>1. ASSUME NEW q \in TaskRuns, NEW contract, NEW tracked,
             NEW point \in {"running", "done"},
             TaskAdvance(q, point, contract, tracked),
             tskPc[q] \in {"dead", "done"} => point = "done"
      PROVE  /\ tskPc[r] \notin {"idle", "resolved"}
                => tskPc'[r] \notin {"idle", "resolved"}
             /\ tskPc[r] \in {"dead", "done"} => tskPc'[r] \in {"dead", "done"}
  BY <1>1 DEF TaskAdvance, TaskPcs
<1>2. CASE UNCHANGED tskPc
  BY <1>2
<1>3. ASSUME NEW q \in TaskRuns, TaskRunStep(q)
      PROVE  /\ tskPc[r] \notin {"idle", "resolved"}
                => tskPc'[r] \notin {"idle", "resolved"}
             /\ tskPc[r] \in {"dead", "done"} => tskPc'[r] \in {"dead", "done"}
  <2>1. CASE \E continue \in BOOLEAN : ResolveTask(q, continue)
    BY <2>1 DEF ResolveTask, TaskAdvance
  <2>2. CASE ResolveTaskFails(q)
    BY <2>2, <1>1 DEF ResolveTaskFails
  <2>3. CASE BeginTask(q) \/ CheckpointTask(q)
             \/ \E status \in {"completed", "failed"} : CommitTask(q, status)
    BY <2>3, <1>1 DEF BeginTask, CheckpointTask, CommitTask, tskRun
  <2> QED BY <1>3, <2>1, <2>2, <2>3 DEF TaskRunStep
<1>4. CASE PublishTask \/ PublishTaskFails
  <2>1. tskPending # NoPending
    <3>1. PublishTask => tskPending # NoPending
      BY DEF PublishTask, TaskUnlocked
    <3>2. PublishTaskFails => tskPending # NoPending
      BY TaskAssumption DEF PublishTaskFails, NoPending
    <3> QED BY <1>4, <3>1, <3>2
  <2>2. tskPending.kind = "interrupted" \/
        /\ tskPending.by \in TaskRuns
        /\ tskPc[tskPending.by] \in {"resolved", "running"}
        /\ tskPending.kind \in {"started", "checkpoint", "commit"}
    BY <2>1 DEF TaskWriteOK
  <2>3. tskPending.kind = "interrupted" => tskPending.by = NoRunId
    BY <2>1 DEF TaskWriteOK
  <2> QED BY <1>1, <1>4, <2>2, <2>3, TaskAssumption
          DEF PublishTask, PublishTaskFails, tskRun
<1>5. CASE ServiceRestarts
  BY <1>5 DEF ServiceRestarts
<1> QED
  BY <1>2, <1>3, <1>4, <1>5 DEF TaskNext, ReconcileTasks, tskVars, tskRun

LEMMA TaskOwnerStep == TaskInv /\ [TaskNext]_tskVars => TaskOwner'
<1> SUFFICES ASSUME TaskInv, [TaskNext]_tskVars PROVE TaskOwner'
  OBVIOUS
<1> USE DEF TaskInv, TaskTypes, TaskRecordTypes, TaskRunTypes
<1>0. \A r \in TaskRuns :
        /\ tskPc[r] \notin {"idle", "resolved"} => tskPc'[r] \notin {"idle", "resolved"}
        /\ tskPc[r] \in {"dead", "done"} => tskPc'[r] \in {"dead", "done"}
  BY TaskPcForward
<1>1. ASSUME UNCHANGED <<tsk, tskFresh>> PROVE TaskOwner'
  BY <1>0, <1>1 DEF TaskOwner, Stranded
<1>2. ASSUME PublishTask PROVE TaskOwner'
  <2>1. tsk' = tskLogged /\ tskFresh' = TRUE
    BY <1>2 DEF PublishTask, TaskUnlocked, TaskWriteOK
  <2>2. ~Stranded'
    BY <2>1 DEF Stranded
  <2>3. CASE tskPending.kind \in {"started", "checkpoint", "commit"}
    <3>1. tskPending.by \in TaskRuns /\ tsk'.run = tskPending.by
      BY <1>2, <2>1, <2>3 DEF PublishTask, TaskUnlocked, TaskWriteOK
    <3>2. tskPc'[tskPending.by] \in {"running", "done"}
      BY <1>2, <2>3, <3>1 DEF PublishTask, TaskAdvance
    <3> QED BY <2>2, <3>1, <3>2 DEF TaskOwner
  <2>4. CASE tskPending.kind = "interrupted"
    <3>1. tsk'.run = tsk.run /\ tsk'.status = "interrupted"
      BY <1>2, <2>1, <2>4 DEF PublishTask, TaskUnlocked, TaskWriteOK
    <3> QED BY <1>0, <2>2, <3>1 DEF TaskOwner
  <2> QED BY <1>2, <2>3, <2>4 DEF PublishTask, TaskUnlocked, TaskWriteOK
<1>3. ASSUME ServiceRestarts PROVE TaskOwner'
  <2>1. tsk.status = "active" => tsk.run \in TaskRuns /\ tskPc[tsk.run] \in TaskPcs
                                /\ tskPc[tsk.run] \notin {"idle", "resolved"}
    BY DEF TaskOwner
  <2>2. tsk.status = "active" => tskPc'[tsk.run] \in {"dead", "done"}
    BY <1>3, <2>1 DEF ServiceRestarts, TaskPcs
  <2> QED BY <1>0, <1>3, <2>1, <2>2 DEF ServiceRestarts, TaskOwner, Stranded
<1> QED
  BY <1>1, <1>2, <1>3
  DEF TaskNext, TaskRunStep, ResolveTask, ResolveTaskFails, BeginTask, CheckpointTask,
      CommitTask, PublishTaskFails, ReconcileTasks, tskVars

-----------------------------------------------------------------------------
(* The task state: theorems.                                               *)

LEMMA TaskInvariant == TaskSpec => []TaskInv
<1>1. TaskInit => TaskInv
  BY TaskInitInv
<1>2. TaskInv /\ [TaskNext]_tskVars => TaskInv'
  BY TaskRecordStep, TaskRunTypesStep, TaskFlagStep, LogLeadsStep, TaskWriteStep,
     TaskTrackedStep, TaskOwnerStep
  DEF TaskInv, TaskTypes
<1> QED BY <1>1, <1>2, PTL DEF TaskSpec

\* task_state.py keeps the types of its snapshot and of its runs; only a running
\* run is tracked.
THEOREM TaskTypeCorrect == TaskSpec => []TaskTypeOK
<1>1. TaskInv => TaskTypeOK
  BY DEF TaskInv, TaskTypes, TaskRecordTypes, TaskRunTypes, TaskFlagTypes, TaskTracked,
         TaskTypeOK, TaskRecords, TaskPcs
<1> QED BY <1>1, TaskInvariant, PTL

\* "Append the immutable fact before publishing its matching snapshot": the last
\* event of the log is the snapshot or the step after it, for any number of runs,
\* restarts and failed publications.
THEOREM LogNeverBehind == TaskSpec => []LogLeads
<1>1. TaskInv => LogLeads
  BY DEF TaskInv
<1> QED BY <1>1, TaskInvariant, PTL

\* A run that began writes only over its own active state, and the
\* reconciliation after a restart takes no task from a run that is alive.
THEOREM RunsOwnTheirTask == TaskSpec => RunOwnsTask
<1>1. ASSUME TaskInv, [TaskNext]_tskVars, tsk' # tsk
      PROVE  /\ \A r \in TaskRuns :
                   tskPending.by = r /\ tskPending.kind \in {"checkpoint", "commit"}
                   /\ ttracked[r]
                   => tsk.run = r /\ tsk.status = "active"
             /\ tsk'.status = "interrupted" => tskPc[tsk.run] \in {"dead", "done"}
  <2>1. PublishTask
    BY <1>1
    DEF TaskNext, TaskRunStep, ResolveTask, ResolveTaskFails, BeginTask, CheckpointTask,
        CommitTask, PublishTaskFails, ServiceRestarts, ReconcileTasks, tskVars
  <2>2. tsk' = tskLogged /\ TaskWriteOK /\ tskPending # NoPending
    BY <1>1, <2>1 DEF TaskInv, PublishTask, TaskUnlocked, TaskWriteOK
  <2>3. tsk'.status = "interrupted" => Stranded
    BY <2>2 DEF TaskWriteOK
  <2> QED BY <1>1, <2>2, <2>3 DEF TaskInv, TaskOwner, TaskWriteOK
<1> QED BY <1>1, TaskInvariant, PTL DEF TaskSpec, RunOwnsTask

-----------------------------------------------------------------------------
(* The turns of a session: types, and who holds the session lock.          *)

JobStatuses == {"none", "running"} \cup Finished

SessionJobs == [status : JobStatuses, cancel : BOOLEAN]

ActiveTurns == [req : SessionRequests \cup {NoRequest}, status : JobStatuses]

HandlerPcs ==
    {"idle", "begun", "snapshot", "exec", "stage", "snap", "snap.raised", "record",
     "record.attach", "record.last", "attach", "attach.last", "terminal"}

SessionRecordTypes ==
    /\ sjob \in SessionJobs /\ active \in ActiveTurns
    /\ registry \in [SessionRequests -> JobStatuses]
    /\ answer \in [SessionRequests -> {"none", "succeeded", "failed"}]
    /\ frame \in [SessionRequests -> {"none", "succeeded", "failed"}]

SessionHandlerTypes ==
    /\ hpc \in [SessionHandlers -> HandlerPcs]
    /\ hreq \in [SessionHandlers -> SessionRequests \cup {NoRequest}]
    /\ hout \in [SessionHandlers -> {"succeeded", "failed"}]
    /\ hseen \in [SessionHandlers -> ActiveTurns]
    /\ \A h \in SessionHandlers : hpc[h] # "idle" => hreq[h] \in SessionRequests

SessionOtherTypes ==
    /\ closing \in SessionRequests \cup {NoRequest}
    /\ boot \in BOOLEAN /\ disturbances \in Nat
    /\ starts \in [SessionRequests -> Nat]

\* h is between its claim and its record.
Claiming(h) == hpc[h] \in {"begun", "snapshot"}

\* The session lock has one holder, and the maintenance holds it only for a
\* request with a terminal frame.
SessionLock ==
    /\ slock \in {"free", "claim", "close"}
    /\ slock = "close" <=> closing # NoRequest
    /\ slock = "claim" <=> \E h \in SessionHandlers : Claiming(h)
    /\ \A h, k \in SessionHandlers : Claiming(h) /\ Claiming(k) => h = k
    /\ closing # NoRequest => frame[closing] # "none"

\* A request that was started is known to the registry; a claim is made for a
\* request that is not.
SessionClaims ==
    /\ \A r \in SessionRequests : starts[r] <= 1 /\ (starts[r] = 1 => registry[r] # "none")
    /\ \A h \in SessionHandlers : Claiming(h) => registry[hreq[h]] = "none"

SessionInv ==
    /\ SessionRecordTypes /\ SessionHandlerTypes /\ SessionOtherTypes
    /\ SessionLock /\ SessionClaims

\* Folding a record keeps a status; pruning forgets no request.
LEMMA PrunedKeeps ==
  ASSUME SessionRecordTypes
  PROVE  /\ Pruned \in [SessionRequests -> JobStatuses]
         /\ \A r \in SessionRequests : Folded(r) \in JobStatuses \ {"none"}
         /\ \A r \in SessionRequests : Pruned[r] = "none" <=> registry[r] = "none"
<1>1. \A r \in SessionRequests : Folded(r) \in JobStatuses \ {"none"}
  BY DEF Folded, SessionRecordTypes, SessionJobs, JobStatuses, Finished
<1>2. \A r \in SessionRequests : registry[r] \in JobStatuses
  BY DEF SessionRecordTypes
<1> QED BY <1>1, <1>2 DEF Pruned

LEMMA SessionInitInv == SessionInit => SessionInv
<1> SUFFICES ASSUME SessionInit PROVE SessionInv
  OBVIOUS
<1> USE DEF SessionInit
<1>1. SessionRecordTypes
  BY DEF SessionRecordTypes, SessionJobs, ActiveTurns, JobStatuses, NoActive
<1>2. SessionHandlerTypes
  BY DEF SessionHandlerTypes, ActiveTurns, HandlerPcs, JobStatuses, NoActive
<1>3. SessionOtherTypes
  BY DEF SessionOtherTypes
<1>4. SessionLock /\ SessionClaims
  BY DEF SessionLock, SessionClaims, Claiming
<1> QED BY <1>1, <1>2, <1>3, <1>4 DEF SessionInv

\* The job and the snapshot, as the writers outside the session lock leave them.
LEMMA SnapshotTypes ==
  ASSUME SessionRecordTypes, NEW r \in SessionRequests,
         NEW out \in {"succeeded", "failed"}, FinishSnapshot(r, out)
  PROVE  sjob' \in SessionJobs /\ active' \in ActiveTurns
<1>1. [sjob EXCEPT !.status = "cancelled"] \in SessionJobs
  BY DEF SessionRecordTypes, SessionJobs, JobStatuses, Finished
<1>2. [req |-> active.req, status |-> IF sjob.cancel THEN "cancelled" ELSE out]
        \in ActiveTurns
  BY DEF SessionRecordTypes, ActiveTurns, JobStatuses, Finished
<1> QED BY <1>1, <1>2 DEF FinishSnapshot, SessionRecordTypes

LEMMA AttachedTypes ==
  ASSUME NEW j \in SessionJobs, NEW out \in {"succeeded", "failed"}
  PROVE  Attached(j, out) \in SessionJobs
  BY DEF Attached, SessionJobs, JobStatuses, Finished

LEMMA RunningTypes == ASSUME NEW j \in SessionJobs PROVE Running(j) \in SessionJobs
  BY DEF Running, SessionJobs, JobStatuses

LEMMA SessionRecordStep == SessionInv /\ [SessionNext]_sessionVars => SessionRecordTypes'
<1> SUFFICES ASSUME SessionInv, [SessionNext]_sessionVars PROVE SessionRecordTypes'
  OBVIOUS
<1> USE DEF SessionInv
<1>1. ASSUME UNCHANGED sessionRecords PROVE SessionRecordTypes'
  BY <1>1 DEF SessionRecordTypes, sessionRecords
<1>2. ASSUME NEW h \in SessionHandlers, NEW r \in SessionRequests, Claim(h, r)
      PROVE  SessionRecordTypes'
  BY <1>2, PrunedKeeps, RunningTypes DEF Claim, SessionRecordTypes
<1>3. ASSUME NEW h \in SessionHandlers, BeginSnapshot(h) PROVE SessionRecordTypes'
  <2>1. [req |-> hreq[h], status |-> "running"] \in ActiveTurns
    BY DEF SessionHandlerTypes, ActiveTurns, JobStatuses
  <2> QED BY <1>3, <2>1 DEF BeginSnapshot, SessionRecordTypes
<1>4. ASSUME NEW h \in SessionHandlers, BeginRecord(h) PROVE SessionRecordTypes'
  BY <1>4 DEF BeginRecord, SessionRecordTypes, JobStatuses
<1>5. ASSUME NEW h \in SessionHandlers, NEW out \in {"succeeded", "failed", "raised"},
             SessionTurnEnds(h, out)
      PROVE  SessionRecordTypes'
  BY <1>5 DEF SessionTurnEnds, SessionRecordTypes
<1>6. ASSUME NEW h \in SessionHandlers, SnapshotFinishes(h) PROVE SessionRecordTypes'
  <2>1. hreq[h] \in SessionRequests /\ hout[h] \in {"succeeded", "failed"}
    BY <1>6 DEF SnapshotFinishes, SessionHandlerTypes
  <2> QED BY <1>6, <2>1, SnapshotTypes DEF SnapshotFinishes, SessionRecordTypes
<1>7. ASSUME NEW h \in SessionHandlers, FinishClaimed(h) PROVE SessionRecordTypes'
  <2>1. \E out \in JobStatuses : registry' = [Pruned EXCEPT ![hreq[h]] = out]
    <3>1. hout[h] \in JobStatuses /\ "cancelled" \in JobStatuses
      BY DEF SessionHandlerTypes, JobStatuses, Finished
    <3> QED BY <1>7, <3>1 DEF FinishClaimed
  <2> QED BY <1>7, <2>1, PrunedKeeps DEF FinishClaimed, SessionRecordTypes
<1>8. ASSUME NEW h \in SessionHandlers, AttachRun(h) PROVE SessionRecordTypes'
  <2>1. hout[h] \in {"succeeded", "failed"}
    BY DEF SessionHandlerTypes
  <2> QED BY <1>8, <2>1, AttachedTypes DEF AttachRun, SessionRecordTypes
<1>9. ASSUME NEW h \in SessionHandlers, HandlerDone(h) PROVE SessionRecordTypes'
  <2>1. hout[h] \in {"succeeded", "failed"}
    BY DEF SessionHandlerTypes
  <2> QED BY <1>9, <2>1 DEF HandlerDone, SessionRecordTypes
<1>10. ASSUME NEW h \in SessionHandlers, StageWrite(h) PROVE SessionRecordTypes'
  <2>1. hseen[h] \in ActiveTurns
    BY DEF SessionHandlerTypes
  <2> QED BY <1>10, <2>1 DEF StageWrite, SessionRecordTypes
<1>11. ASSUME NEW r \in SessionRequests, CancelTurn(r) PROVE SessionRecordTypes'
  <2>1. [sjob EXCEPT !.cancel = TRUE] \in SessionJobs
    BY DEF SessionRecordTypes, SessionJobs
  <2> QED BY <1>11, <2>1 DEF CancelTurn, SessionRecordTypes
<1>12. ASSUME NEW r \in SessionRequests, CloseTurn(r) PROVE SessionRecordTypes'
  <2>1. \E s \in JobStatuses : registry' = IF registry[r] = "running"
                          THEN [registry EXCEPT ![r] = s] ELSE registry
    BY <1>12, PrunedKeeps DEF CloseTurn, JobStatuses
  <2>2. frame' = frame \/ \E s \in {"succeeded", "failed"} :
                            frame' = [frame EXCEPT ![r] = s]
    BY <1>12 DEF CloseTurn
  <2> QED BY <1>12, <2>1, <2>2 DEF CloseTurn, SessionRecordTypes
<1>13. ASSUME CloseJob PROVE SessionRecordTypes'
  <2>1. closing \in SessionRequests /\ frame[closing] \in JobStatuses
    BY <1>13 DEF CloseJob, SessionOtherTypes, SessionRecordTypes, JobStatuses, Finished
  <2>2. \A s \in JobStatuses : /\ [sjob EXCEPT !.status = s] \in SessionJobs
                                /\ [active EXCEPT !.status = s] \in ActiveTurns
                                /\ [registry EXCEPT ![closing] = s]
                                     \in [SessionRequests -> JobStatuses]
    BY DEF SessionRecordTypes, SessionJobs, ActiveTurns
  <2>3. "cancelled" \in JobStatuses
    BY DEF JobStatuses, Finished
  <2> QED BY <1>13, <2>1, <2>2, <2>3 DEF CloseJob, SessionRecordTypes
<1>14. ASSUME StartupReconcile PROVE SessionRecordTypes'
  <2>1. \A s \in JobStatuses : /\ [sjob EXCEPT !.status = s] \in SessionJobs
                                /\ [active EXCEPT !.status = s] \in ActiveTurns
    BY DEF SessionRecordTypes, SessionJobs, ActiveTurns
  <2>2. "cancelled" \in JobStatuses /\ "failed" \in JobStatuses
    BY DEF JobStatuses, Finished
  <2> QED BY <1>14, <2>1, <2>2 DEF StartupReconcile, SessionRecordTypes
<1> QED
  BY <1>1, <1>2, <1>3, <1>4, <1>5, <1>6, <1>7, <1>8, <1>9, <1>10, <1>11, <1>12, <1>13,
     <1>14
  DEF SessionNext, SessionTurnStep, StageRead, Maintenance, SessionRestart, sessionVars

LEMMA SessionHandlerStep ==
  SessionInv /\ [SessionNext]_sessionVars => SessionHandlerTypes'
<1> SUFFICES ASSUME SessionInv, [SessionNext]_sessionVars PROVE SessionHandlerTypes'
  OBVIOUS
<1> USE DEF SessionInv, SessionHandlerTypes
<1>1. ASSUME UNCHANGED sessionHandler PROVE SessionHandlerTypes'
  BY <1>1 DEF sessionHandler
<1>2. ASSUME NEW h \in SessionHandlers, NEW r \in SessionRequests, Claim(h, r)
      PROVE  SessionHandlerTypes'
  BY <1>2 DEF Claim, Goes, HandlerPcs
<1>3. ASSUME NEW h \in SessionHandlers, BeginSnapshot(h) \/ BeginRecord(h)
      PROVE  SessionHandlerTypes'
  BY <1>3 DEF BeginSnapshot, BeginRecord, Goes, HandlerPcs
<1>4. ASSUME NEW h \in SessionHandlers, StageRead(h) PROVE SessionHandlerTypes'
  BY <1>4 DEF StageRead, SessionRecordTypes, Goes, HandlerPcs
<1>5. ASSUME NEW h \in SessionHandlers, StageWrite(h) PROVE SessionHandlerTypes'
  BY <1>5 DEF StageWrite, Goes, HandlerPcs, NoActive, ActiveTurns, JobStatuses
<1>6. ASSUME NEW h \in SessionHandlers, NEW out \in {"succeeded", "failed", "raised"},
             SessionTurnEnds(h, out)
      PROVE  SessionHandlerTypes'
  BY <1>6 DEF SessionTurnEnds, Goes, HandlerPcs
<1>7. ASSUME NEW h \in SessionHandlers,
             SnapshotFinishes(h) \/ FinishClaimed(h) \/ AttachRun(h)
      PROVE  SessionHandlerTypes'
  BY <1>7 DEF SnapshotFinishes, FinishClaimed, AttachRun, Goes, HandlerPcs
<1>8. ASSUME NEW h \in SessionHandlers, HandlerDone(h) PROVE SessionHandlerTypes'
  BY <1>8 DEF HandlerDone, Goes, HandlerPcs
<1>9. ASSUME SessionRestart PROVE SessionHandlerTypes'
  <2>1. NoActive \in ActiveTurns
    BY DEF NoActive, ActiveTurns, JobStatuses
  <2> QED BY <1>9, <2>1 DEF SessionRestart, HandlerPcs
<1> QED
  BY <1>1, <1>2, <1>3, <1>4, <1>5, <1>6, <1>7, <1>8, <1>9
  DEF SessionNext, SessionTurnStep, Maintenance, CancelTurn, CloseTurn, CloseJob,
      StartupReconcile, sessionVars

LEMMA SessionOtherStep == SessionInv /\ [SessionNext]_sessionVars => SessionOtherTypes'
<1> SUFFICES ASSUME SessionInv, [SessionNext]_sessionVars PROVE SessionOtherTypes'
  OBVIOUS
<1> USE DEF SessionInv, SessionOtherTypes
<1>1. ASSUME NEW h \in SessionHandlers, BeginRecord(h) PROVE SessionOtherTypes'
  <2>1. starts' = [starts EXCEPT ![hreq[h]] = @ + 1]
    BY <1>1 DEF BeginRecord
  <2>2. starts' \in [SessionRequests -> Nat]
    <3> HIDE DEF SessionInv
    <3>1. hreq[h] \in SessionRequests /\ starts[hreq[h]] + 1 \in Nat
      BY <1>1 DEF BeginRecord, SessionInv, SessionHandlerTypes
    <3> QED BY <2>1, <3>1, SMTT(30) DEF SessionInv
  <2> QED BY <1>1, <2>2 DEF BeginRecord
<1>2. ASSUME NEW h \in SessionHandlers, NEW out \in {"succeeded", "failed", "raised"},
             SessionTurnEnds(h, out)
      PROVE  SessionOtherTypes'
  BY <1>2 DEF SessionTurnEnds, Disturbs
<1>3. ASSUME NEW r \in SessionRequests, CancelTurn(r) \/ CloseTurn(r)
      PROVE  SessionOtherTypes'
  BY <1>3 DEF CancelTurn, CloseTurn, Disturbs
<1>4. ASSUME CloseJob \/ StartupReconcile PROVE SessionOtherTypes'
  BY <1>4 DEF CloseJob, StartupReconcile
<1>5. ASSUME SessionRestart PROVE SessionOtherTypes'
  BY <1>5 DEF SessionRestart, Disturbs
<1>6. ASSUME UNCHANGED <<closing, boot, disturbances, starts>> PROVE SessionOtherTypes'
  BY <1>6
<1> QED
  BY <1>1, <1>2, <1>3, <1>4, <1>5, <1>6
  DEF SessionNext, SessionTurnStep, Maintenance, BeginSnapshot, StageRead, StageWrite,
      SnapshotFinishes, FinishClaimed, AttachRun, HandlerDone, Claim, sessionVars

\* The lock passes from its holder to nobody, and from nobody to one holder.
LEMMA SessionLockStep == SessionInv /\ [SessionNext]_sessionVars => SessionLock'
<1> SUFFICES ASSUME SessionInv, [SessionNext]_sessionVars PROVE SessionLock'
  OBVIOUS
<1> USE DEF SessionInv, SessionHandlerTypes, Claiming
<1>1. ASSUME NEW h \in SessionHandlers, NEW r \in SessionRequests, Claim(h, r)
      PROVE  SessionLock'
  BY <1>1 DEF Claim, Goes, Unguarded, SessionLock
<1>2. ASSUME NEW h \in SessionHandlers, BeginSnapshot(h) PROVE SessionLock'
  BY <1>2 DEF BeginSnapshot, Goes, SessionLock
<1>3. ASSUME NEW h \in SessionHandlers, BeginRecord(h) PROVE SessionLock'
  BY <1>3 DEF BeginRecord, Goes, SessionLock
<1>4. ASSUME UNCHANGED <<slock, closing, frame>>,
             NEW h \in SessionHandlers, ~Claiming(h),
             NEW point \in HandlerPcs \ {"begun", "snapshot"}, Goes(h, point)
      PROVE  SessionLock'
  BY <1>4 DEF Goes, SessionLock
<1>5. ASSUME NEW h \in SessionHandlers, StageRead(h) \/ StageWrite(h) PROVE SessionLock'
  BY <1>4, <1>5 DEF StageRead, StageWrite, sessionRecords, HandlerPcs
<1>6. ASSUME NEW h \in SessionHandlers, NEW out \in {"succeeded", "failed", "raised"},
             SessionTurnEnds(h, out)
      PROVE  SessionLock'
  BY <1>4, <1>6 DEF SessionTurnEnds, HandlerPcs
<1>7. ASSUME NEW h \in SessionHandlers,
             SnapshotFinishes(h) \/ FinishClaimed(h) \/ AttachRun(h)
      PROVE  SessionLock'
  BY <1>4, <1>7 DEF SnapshotFinishes, FinishClaimed, AttachRun, HandlerPcs
<1>8. ASSUME NEW h \in SessionHandlers, HandlerDone(h) PROVE SessionLock'
  <2>1. \A r \in SessionRequests : frame[r] # "none" => frame'[r] # "none"
    BY <1>8 DEF HandlerDone, SessionRecordTypes
  <2>2. closing # NoRequest => closing \in SessionRequests
    BY DEF SessionOtherTypes
  <2> QED BY <1>8, <2>1, <2>2 DEF HandlerDone, Goes, SessionLock
<1>9. ASSUME NEW r \in SessionRequests, CloseTurn(r) PROVE SessionLock'
  <2>1. CASE UNCHANGED <<frame, closing, slock>>
    BY <1>9, <2>1 DEF CloseTurn, sessionHandler, SessionLock
  <2>2. CASE closing' = r /\ slock' = "close"
    <3>1. frame'[r] # "none"
      BY <1>9, <2>2, SessionAssumption DEF CloseTurn, SessionRecordTypes
    <3> QED BY <1>9, <2>2, <3>1, SessionAssumption
            DEF CloseTurn, Unguarded, sessionHandler, SessionLock
  <2> QED BY <1>9, <2>1, <2>2 DEF CloseTurn
<1>10. ASSUME CloseJob \/ SessionRestart PROVE SessionLock'
  BY <1>10 DEF CloseJob, SessionRestart, sessionHandler, SessionLock
<1>11. ASSUME UNCHANGED <<slock, closing, frame, hpc>> PROVE SessionLock'
  BY <1>11 DEF SessionLock
<1>12. ASSUME NEW h \in SessionHandlers, SessionTurnStep(h) PROVE SessionLock'
  BY <1>2, <1>3, <1>6, <1>7, <1>8, <1>12 DEF SessionTurnStep
<1>13. ASSUME StartupReconcile \/ \E r \in SessionRequests : CancelTurn(r)
       PROVE  SessionLock'
  BY <1>11, <1>13 DEF StartupReconcile, CancelTurn, sessionHandler
<1>14. CASE UNCHANGED sessionVars
  BY <1>11, <1>14 DEF sessionVars, sessionRecords, sessionHandler
<1> QED
  BY <1>1, <1>5, <1>9, <1>10, <1>12, <1>13, <1>14 DEF SessionNext, Maintenance

\* No step takes a request out of the registry, and while a handler claims only
\* that handler writes the registry.
LEMMA RegistryKeeps ==
  ASSUME SessionInv, [SessionNext]_sessionVars, NEW r \in SessionRequests,
         registry[r] # "none"
  PROVE  registry'[r] # "none"
<1> USE DEF SessionInv, SessionRecordTypes
<1>1. ASSUME NEW h \in SessionHandlers, NEW q \in SessionRequests, Claim(h, q)
      PROVE  registry'[r] # "none"
  BY <1>1, PrunedKeeps DEF Claim
<1>2. ASSUME NEW h \in SessionHandlers, BeginRecord(h) PROVE registry'[r] # "none"
  BY <1>2 DEF BeginRecord
<1>3. ASSUME NEW h \in SessionHandlers, FinishClaimed(h) PROVE registry'[r] # "none"
  <2>1. Pruned \in [SessionRequests -> JobStatuses] /\ Pruned[r] # "none"
    BY PrunedKeeps
  <2>2. hout[h] # "none"
    BY DEF SessionHandlerTypes
  <2> QED BY <1>3, <2>1, <2>2 DEF FinishClaimed
<1>4. ASSUME NEW q \in SessionRequests, CloseTurn(q) PROVE registry'[r] # "none"
  <2>1. Folded(q) # "none"
    BY PrunedKeeps
  <2> QED BY <1>4, <2>1 DEF CloseTurn
<1>5. ASSUME CloseJob PROVE registry'[r] # "none"
  <2>1. frame[closing] # "none"
    BY <1>5 DEF CloseJob, SessionLock
  <2> QED BY <1>5, <2>1 DEF CloseJob
<1>6. CASE UNCHANGED registry
  BY <1>6
<1> QED
  BY <1>1, <1>2, <1>3, <1>4, <1>5, <1>6
  DEF SessionNext, SessionTurnStep, Maintenance, BeginSnapshot, SessionTurnEnds,
      StageRead, StageWrite, SnapshotFinishes, AttachRun, HandlerDone, CancelTurn,
      SessionRestart, StartupReconcile, sessionRecords, sessionVars

LEMMA SessionClaimsStep == SessionInv /\ [SessionNext]_sessionVars => SessionClaims'
<1> SUFFICES ASSUME SessionInv, [SessionNext]_sessionVars PROVE SessionClaims'
  OBVIOUS
<1> USE DEF SessionInv, SessionOtherTypes, SessionHandlerTypes, Claiming
<1>0. \A r \in SessionRequests : registry[r] # "none" => registry'[r] # "none"
  BY RegistryKeeps
<1>1. ASSUME NEW h \in SessionHandlers, NEW r \in SessionRequests, Claim(h, r)
      PROVE  SessionClaims'
  BY <1>0, <1>1 DEF Claim, TurnClaimable, Goes, Unguarded, SessionLock, SessionClaims
<1>2. ASSUME NEW h \in SessionHandlers, BeginRecord(h) PROVE SessionClaims'
  <2>1. hreq[h] \in SessionRequests /\ Claiming(h) /\ starts[hreq[h]] = 0
    BY <1>2 DEF BeginRecord, SessionClaims
  <2>2. \A k \in SessionHandlers : hpc'[k] \notin {"begun", "snapshot"}
    BY <1>2, <2>1 DEF BeginRecord, Goes, SessionLock
  <2> QED BY <1>0, <1>2, <2>1, <2>2 DEF BeginRecord, SessionRecordTypes, SessionClaims
<1>3. ASSUME NEW h \in SessionHandlers, BeginSnapshot(h) PROVE SessionClaims'
  BY <1>3 DEF BeginSnapshot, Goes, SessionClaims
<1>4. ASSUME NEW h \in SessionHandlers,
             StageRead(h) \/ StageWrite(h)
             \/ SnapshotFinishes(h) \/ AttachRun(h) \/ HandlerDone(h)
             \/ \E out \in {"succeeded", "failed", "raised"} : SessionTurnEnds(h, out)
      PROVE  SessionClaims'
  BY <1>4 DEF StageRead, StageWrite, SnapshotFinishes, AttachRun, HandlerDone,
              SessionTurnEnds, Goes, sessionRecords, SessionClaims
<1>5. ASSUME slock # "claim", UNCHANGED starts,
             \A h \in SessionHandlers : Claiming(h)' => Claiming(h)
      PROVE  SessionClaims'
  BY <1>0, <1>5 DEF SessionLock, SessionClaims
<1>6. ASSUME NEW h \in SessionHandlers, FinishClaimed(h) PROVE SessionClaims'
  BY <1>5, <1>6 DEF FinishClaimed, Unguarded, Goes
<1>7. ASSUME Maintenance PROVE SessionClaims'
  BY <1>5, <1>7 DEF Maintenance, CloseTurn, CloseJob, Unguarded, SessionLock,
                    sessionHandler
<1>8. ASSUME SessionRestart PROVE SessionClaims'
  BY <1>8 DEF SessionRestart, sessionRecords, SessionClaims
<1>9. ASSUME UNCHANGED <<hpc, hreq, registry, starts>> PROVE SessionClaims'
  BY <1>9 DEF SessionClaims
<1> QED
  BY <1>1, <1>2, <1>3, <1>4, <1>6, <1>7, <1>8, <1>9
  DEF SessionNext, SessionTurnStep, CancelTurn, StartupReconcile, sessionRecords,
      sessionHandler, sessionVars

-----------------------------------------------------------------------------
(* The turns of a session: theorems.                                       *)

LEMMA SessionInvariant == SessionSpec => []SessionInv
<1>1. SessionInv /\ [SessionNext]_sessionVars => SessionInv'
  BY SessionRecordStep, SessionHandlerStep, SessionOtherStep, SessionLockStep,
     SessionClaimsStep
  DEF SessionInv
<1> QED BY <1>1, SessionInitInv, PTL DEF SessionSpec

\* lifecycle.py keeps the types of job, snapshot and registry, and _session_lock
\* has one holder: a claim until its record, the maintenance until its job.
THEOREM SessionTypeCorrect == SessionSpec => []SessionTypeOK
<1>1. ASSUME SessionInv PROVE SessionTypeOK
  <2>1. slock = CASE closing # NoRequest -> "close"
                  [] \E h \in SessionHandlers : hpc[h] \in {"begun", "snapshot"}
                       -> "claim"
                  [] OTHER -> "free"
    BY <1>1 DEF SessionInv, SessionLock, Claiming
  <2> QED BY <1>1, <2>1
          DEF SessionInv, SessionRecordTypes, SessionHandlerTypes, SessionOtherTypes,
              SessionTypeOK, SessionJobs, ActiveTurns, HandlerPcs, JobStatuses
<1> QED BY <1>1, SessionInvariant, PTL

\* claim_session_turn is idempotent: a client request is executed at most once,
\* for any number of handlers, resends, cancellations, folds and restarts.
THEOREM RequestsStartOnce == SessionSpec => []StartedOnce
<1>1. SessionInv => StartedOnce
  BY DEF SessionInv, SessionClaims, StartedOnce
<1> QED BY <1>1, SessionInvariant, PTL

-----------------------------------------------------------------------------
(* The query loop.  Beside the types, the invariant says that a final is   *)
(* rejected once between two tool rounds, that a synthesis is tried twice  *)
(* at most, and that the loop remembers a write exactly if one is open.    *)

LoopPoints == {"top", "model", "answer", "tools", "more", "completion", "synthesis",
               "summary", "done"}

LoopFlagTypes ==
    /\ qpc \in LoopPoints
    /\ qcancel \in BOOLEAN /\ qbounded \in BOOLEAN /\ qok \in BOOLEAN
    /\ qbad \in BOOLEAN /\ qnudged \in BOOLEAN /\ qwaiting \in BOOLEAN
    /\ qcalls \in 0..MaxLoopCalls
    /\ qresponse \in {"complete", "blocked_no_recovery_action"}

LoopWriteTypes ==
    /\ qopen \in SUBSET LoopWrites /\ qread \in SUBSET LoopWrites
    /\ qunknown \in LoopWrites \cup {NoWrite}
    /\ qopen = {} <=> qunknown = NoWrite

LoopGoalTypes ==
    /\ qgoal \in [LoopGoals -> {"none", "pending", "passed", "blocked"}]
    /\ qclaim \in [LoopGoals -> SUBSET {"observed", "unavailable"}]

LoopCounts ==
    /\ qsynth \in 0..2 /\ (qpc # "done" => qsynth < 2)
    /\ qrejected = IF qnudged THEN 1 ELSE 0

LoopResult ==
    /\ qpc # "done" => qout = NoResult
    /\ qpc = "done" => qout.execution \in {"unknown", "complete", "partial", "failed"}

LoopInv ==
    LoopFlagTypes /\ LoopWriteTypes /\ LoopGoalTypes /\ LoopCounts /\ LoopResult
      /\ OutcomeIsEvidenced

\* Every exit ends the turn, with an outcome that the evidence bears out.
LEMMA LoopFinishes ==
    ASSUME LoopInv, NEW error, NEW explicit \in BOOLEAN, NEW response, NEW metric,
           FinishTurn(error, explicit, response, metric),
           explicit => response # "complete",
           UNCHANGED <<loopEvidence, qgoal>>
    PROVE  /\ qpc' = "done" /\ LoopResult' /\ OutcomeIsEvidenced'
<1>1. PICK archived \in BOOLEAN :
        LET first  == IF error = "none" /\ ~archived THEN "archive" ELSE error
            given  == explicit \/ first # "none"
            reply  == IF error = "cancelled" THEN "cancelled" ELSE response
            unmet  == Unmet(first, given, reply)
            result == Execution(unmet[1], metric)
        IN  /\ qpc' = "done"
            /\ qout' = [error |-> unmet[1], response |-> unmet[2],
                        execution |-> result, task |-> TaskStatus(unmet[1], result)]
  BY DEF FinishTurn
<1> DEFINE first  == IF error = "none" /\ ~archived THEN "archive" ELSE error
           given  == explicit \/ first # "none"
           reply  == IF error = "cancelled" THEN "cancelled" ELSE response
           unmet  == Unmet(first, given, reply)
           result == Execution(unmet[1], metric)
<1>2. /\ qpc' = "done" /\ qout'.error = unmet[1] /\ qout'.response = unmet[2]
      /\ qout'.execution = result
  BY <1>1
<1>3. result \in {"unknown", "complete", "partial", "failed"}
  <2>1. ASSUME NEW e PROVE Derived(e) \in {"unknown", "complete", "partial", "failed"}
    BY DEF Derived
  <2> QED BY <2>1 DEF Execution
<1>4. result = "complete" => qunknown = NoWrite \/ qunknown \in qread
  <2>1. ASSUME NEW e, Derived(e) = "complete" PROVE qopen = {}
    BY <2>1 DEF Derived
  <2>2. ASSUME NEW e, Execution(e, metric) = "complete"
        PROVE  qopen = {} \/ LateReadback
    BY <2>1, <2>2 DEF Execution
  <2> QED BY <2>2 DEF LateReadback, LoopInv, LoopWriteTypes
<1>5. unmet[1] = "none" /\ unmet[2] = "complete" => Assertions = "passed"
  BY DEF Unmet
<1>6. Assertions = "passed" => \A g \in Installed : "observed" \in qclaim[g]
  <2> SUFFICES ASSUME Assertions = "passed", NEW g \in Installed
               PROVE  "observed" \in qclaim[g]
    OBVIOUS
  <2>1. {ClaimStatus(h) : h \in Installed} \subseteq {"passed"}
    BY DEF Assertions
  <2>2. ClaimStatus(g) = "passed"
    BY <2>1
  <2> QED BY <2>2 DEF ClaimStatus
<1> HIDE DEF unmet, result
<1>7. OutcomeIsEvidenced'
  <2>1. /\ qunknown' = qunknown /\ qread' = qread /\ qclaim' = qclaim
        /\ qgoal' = qgoal
    BY DEF loopEvidence
  <2> QED BY <1>2, <1>4, <1>5, <1>6, <2>1 DEF OutcomeIsEvidenced, Installed
<1> QED BY <1>2, <1>3, <1>7 DEF LoopResult

LEMMA LoopExits ==
    ASSUME LoopInv, NEW error, NEW response, NEW metric,
           Exit(error, response, metric)
    PROVE  LoopInv'
<1>1. /\ qpc' = "done" /\ LoopResult' /\ OutcomeIsEvidenced'
  BY LoopFinishes DEF Exit
<1> QED BY <1>1
        DEF Exit, LoopInv, LoopFlagTypes, LoopWriteTypes, LoopGoalTypes, LoopCounts,
            LoopPoints, loopEvidence

\* A step that goes on with the loop has no result to account for.
LEMMA LoopGoesOn ==
    ASSUME LoopInv, qpc # "done", qpc' # "done", qout' = qout
    PROVE  LoopResult' /\ OutcomeIsEvidenced'
<1>1. qout' = NoResult
  BY DEF LoopInv, LoopResult
<1> QED BY <1>1 DEF LoopResult, OutcomeIsEvidenced, NoResult

\* A step that leaves everything but its place alone.
LEMMA LoopMoves ==
    ASSUME LoopInv, qpc # "done", NEW point \in LoopPoints \ {"done"}, To(point),
           UNCHANGED <<qcancel, loopEvidence, qgoal, qnudged, qwaiting, qresponse,
                       qsynth, qrejected>>
    PROVE  LoopInv'
<1>1. qpc' = point /\ point # "done" /\ qout' = qout
  BY DEF To
<1> QED BY <1>1, LoopGoesOn
        DEF LoopInv, LoopFlagTypes, LoopWriteTypes, LoopGoalTypes, LoopCounts,
            loopEvidence

LEMMA LoopToolStep ==
    ASSUME LoopInv, LoopTool
    PROVE  LoopInv'
<1> USE LoopAssumption
<1>1. /\ qpc # "done" /\ qpc' = "more" /\ qout' = qout
      /\ qcalls' \in 0..MaxLoopCalls /\ UNCHANGED <<qbounded, qcancel, qnudged,
                                                    qresponse, qsynth, qrejected>>
  BY DEF LoopTool, CallSettles, CallUncertain, CallReadsBack, CallRequires,
         CallObserves, CallDeferred, Called, To, LoopInv, LoopFlagTypes
<1>2. qok' \in BOOLEAN /\ qbad' \in BOOLEAN /\ qwaiting' \in BOOLEAN
  BY DEF LoopTool, CallSettles, CallUncertain, CallReadsBack, CallRequires,
         CallObserves, CallDeferred, LoopInv, LoopFlagTypes
<1>3. LoopWriteTypes'
  <2>1. ASSUME NEW w \in LoopWrites, CallUncertain(w) PROVE LoopWriteTypes'
    <3>1. qopen' # {} /\ qunknown' # NoWrite
      BY <2>1 DEF CallUncertain
    <3> QED BY <2>1, <3>1 DEF CallUncertain, LoopInv, LoopWriteTypes
  <2>2. ASSUME NEW w \in LoopWrites, CallReadsBack(w) PROVE LoopWriteTypes'
    BY <2>2 DEF CallReadsBack, LoopInv, LoopWriteTypes
  <2>3. ASSUME UNCHANGED <<qopen, qunknown, qread>> PROVE LoopWriteTypes'
    BY <2>3 DEF LoopInv, LoopWriteTypes
  <2> QED BY <2>1, <2>2, <2>3
          DEF LoopTool, CallSettles, CallRequires, CallObserves, CallDeferred
<1>4. LoopGoalTypes'
  <2>1. ASSUME NEW g \in LoopGoals, NEW got \in SUBSET {"observed", "unavailable"},
               NEW ok, CallRequires(g, got, ok)
        PROVE  LoopGoalTypes'
    <3>1. qclaim[g] \cup got \in SUBSET {"observed", "unavailable"}
      BY DEF LoopInv, LoopGoalTypes
    <3>2. (IF qgoal[g] = "none" THEN "pending" ELSE qgoal[g])
             \in {"none", "pending", "passed", "blocked"}
      BY DEF LoopInv, LoopGoalTypes
    <3>3. /\ qclaim' = [qclaim EXCEPT ![g] = qclaim[g] \cup got]
          /\ qgoal' = [qgoal EXCEPT ![g] = IF qgoal[g] = "none" THEN "pending"
                                           ELSE qgoal[g]]
      BY <2>1 DEF CallRequires
    <3> QED BY <3>1, <3>2, <3>3 DEF LoopInv, LoopGoalTypes
  <2>2. ASSUME NEW g \in LoopGoals, CallObserves(g) PROVE LoopGoalTypes'
    <3>1. qclaim[g] \cup {"observed"} \in SUBSET {"observed", "unavailable"}
      BY DEF LoopInv, LoopGoalTypes
    <3>2. /\ qclaim' = [qclaim EXCEPT ![g] = qclaim[g] \cup {"observed"}]
          /\ qgoal' = qgoal
      BY <2>2 DEF CallObserves
    <3> QED BY <3>1, <3>2 DEF LoopInv, LoopGoalTypes
  <2>3. ASSUME UNCHANGED <<qgoal, qclaim>> PROVE LoopGoalTypes'
    BY <2>3 DEF LoopInv, LoopGoalTypes
  <2> QED BY <2>1, <2>2, <2>3
          DEF LoopTool, CallSettles, CallUncertain, CallReadsBack, CallDeferred
<1>5. LoopFlagTypes' /\ LoopCounts'
  BY <1>1, <1>2 DEF LoopInv, LoopFlagTypes, LoopCounts, LoopPoints
<1> QED BY <1>1, <1>3, <1>4, <1>5, LoopGoesOn DEF LoopInv

\* The second rejected final blocks what is open, so it is the last.
LEMMA LoopFinalStep ==
    ASSUME LoopInv, LoopFinal
    PROVE  LoopInv'
<1> DEFINE goals == IF qnudged THEN Blocked ELSE Projected
           open == {g \in LoopGoals : goals[g] = "pending"}
<1>1. /\ qpc = "answer" /\ qgoal' = goals
      /\ \/ /\ open # {} /\ qnudged' = TRUE /\ qrejected' = qrejected + 1
            /\ qpc' = "top"
         \/ /\ open = {} /\ UNCHANGED <<qnudged, qrejected>> /\ qpc' = "completion"
      /\ qout' = qout
      /\ qresponse' \in {"blocked_no_recovery_action", qresponse}
      /\ UNCHANGED <<qcancel, loopEvidence, qwaiting, qsynth>>
  BY DEF LoopFinal, LoopAnswers, To
<1>2. Projected \in [LoopGoals -> {"none", "pending", "passed", "blocked"}]
  BY DEF Projected, LoopInv, LoopGoalTypes
<1>3. /\ Blocked \in [LoopGoals -> {"none", "pending", "passed", "blocked"}]
      /\ \A g \in LoopGoals : Blocked[g] # "pending"
  <2>1. ASSUME NEW g \in LoopGoals
        PROVE  /\ Blocked[g] \in {"none", "pending", "passed", "blocked"}
               /\ Blocked[g] # "pending"
    BY <1>2 DEF Blocked, OpenGoals
  <2> QED BY <2>1 DEF Blocked
<1>4. qnudged => open = {}
  BY <1>3
<1>5. goals \in [LoopGoals -> {"none", "pending", "passed", "blocked"}]
  BY <1>2, <1>3
<1> HIDE DEF goals, open
<1>6. LoopFlagTypes' /\ LoopCounts'
  <2>1. qpc' # "done" /\ qpc' \in LoopPoints /\ qnudged' \in BOOLEAN
    BY <1>1 DEF LoopInv, LoopFlagTypes, LoopPoints
  <2>2. LoopFlagTypes'
    BY <1>1, <2>1 DEF LoopInv, LoopFlagTypes, loopEvidence
  <2>3. qrejected' = IF qnudged' THEN 1 ELSE 0
    <3>1. CASE open # {}
      <4>1. qnudged = FALSE
        BY <1>4, <3>1 DEF LoopInv, LoopFlagTypes
      <4>2. qrejected = 0
        BY <4>1 DEF LoopInv, LoopCounts
      <4> QED BY <1>1, <3>1, <4>2
    <3>2. CASE open = {}
      BY <1>1, <3>2 DEF LoopInv, LoopCounts
    <3> QED BY <3>1, <3>2
  <2>4. qsynth' = qsynth /\ qsynth \in 0..2 /\ qsynth < 2
    BY <1>1 DEF LoopInv, LoopCounts
  <2> QED BY <2>1, <2>2, <2>3, <2>4 DEF LoopCounts
<1>7. LoopGoalTypes' /\ LoopWriteTypes'
  BY <1>1, <1>5 DEF LoopInv, LoopGoalTypes, LoopWriteTypes, loopEvidence
<1>8. qpc # "done" /\ qpc' # "done" /\ qout' = qout
  BY <1>1
<1> QED BY <1>6, <1>7, <1>8, LoopGoesOn DEF LoopInv

LEMMA LoopSynthesisStep ==
    ASSUME LoopInv, LoopSynthesis
    PROVE  LoopInv'
<1>1. /\ qpc \in {"synthesis", "summary"} /\ qpc # "done"
      /\ UNCHANGED <<qcancel, loopEvidence, qgoal, qnudged, qwaiting, qresponse,
                     qrejected>>
  BY DEF LoopSynthesis
<1>2. \/ \E error, response : \E explicit \in BOOLEAN :
            /\ FinishTurn(error, explicit, response, "none")
            /\ response # "complete" /\ qsynth' \in {qsynth, qsynth + 1}
      \/ qsynth' = qsynth + 1 /\ qsynth' < 2 /\ To(qpc)
  <2>1. CASE FinishTurn("cancelled", TRUE, "cancelled", "none") /\ UNCHANGED qsynth
    BY <2>1
  <2>2. CASE FinishTurn("none", qpc = "summary", "recovered", "none")
             /\ UNCHANGED qsynth
    BY <2>2
  <2>3. CASE qsynth' = qsynth + 1 /\ qsynth' < 2 /\ To(qpc)
    BY <2>3
  <2>4. CASE /\ qsynth' = qsynth + 1
             /\ FinishTurn("none", qpc = "summary", "deterministic_fallback", "none")
    BY <2>4
  <2> QED BY <2>1, <2>2, <2>3, <2>4 DEF LoopSynthesis
<1>3. ASSUME NEW error, NEW response, NEW explicit \in BOOLEAN,
             FinishTurn(error, explicit, response, "none"),
             response # "complete", qsynth' \in {qsynth, qsynth + 1}
      PROVE  LoopInv'
  <2>1. /\ qpc' = "done" /\ LoopResult' /\ OutcomeIsEvidenced'
    BY <1>1, <1>3, LoopFinishes
  <2> QED BY <1>1, <1>3, <2>1
          DEF LoopInv, LoopFlagTypes, LoopWriteTypes, LoopGoalTypes, LoopCounts,
              LoopPoints, loopEvidence
<1>4. CASE qsynth' = qsynth + 1 /\ qsynth' < 2 /\ To(qpc)
  <2>1. qpc' = qpc /\ qout' = qout
    BY <1>4 DEF To
  <2>2. LoopResult' /\ OutcomeIsEvidenced'
    BY <1>1, <2>1, LoopGoesOn
  <2> QED BY <1>1, <1>4, <2>1, <2>2
          DEF LoopInv, LoopFlagTypes, LoopWriteTypes, LoopGoalTypes, LoopCounts,
              loopEvidence
<1> QED BY <1>2, <1>3, <1>4

LEMMA LoopNextStep == LoopInv /\ [LoopNext]_loopVars => LoopInv'
<1> SUFFICES ASSUME LoopInv, [LoopNext]_loopVars PROVE LoopInv'
  OBVIOUS
<1>1. CASE LoopTop
  <2>1. CASE qcancel
    BY <1>1, <2>1, LoopExits DEF LoopTop
  <2>2. CASE ~qcancel
    BY <1>1, <2>2, LoopMoves DEF LoopTop, LoopPoints
  <2> QED BY <2>1, <2>2
<1>2. CASE LoopUnready
  BY <1>2, LoopExits DEF LoopUnready
<1>3. CASE LoopModel
  BY <1>3, LoopMoves DEF LoopModel, LoopPoints
<1>4. CASE LoopOvertaken
  BY <1>4, LoopExits DEF LoopOvertaken
<1>5. CASE LoopAgain
  <2>1. qpc # "done" /\ qpc' = "top" /\ qout' = qout /\ qbad' \in BOOLEAN
    BY <1>5 DEF LoopAgain, LoopAnswers, To, LoopInv, LoopFlagTypes
  <2>2. LoopResult' /\ OutcomeIsEvidenced'
    BY <2>1, LoopGoesOn
  <2> QED BY <1>5, <2>1, <2>2
          DEF LoopAgain, LoopInv, LoopFlagTypes, LoopWriteTypes, LoopGoalTypes,
              LoopCounts, LoopPoints
<1>6. CASE LoopProviderFails
  <2>1. qpc # "done"
    BY <1>6 DEF LoopProviderFails, LoopAnswers
  <2>2. ASSUME NEW response, Exit("provider", response, "none") PROVE LoopInv'
    BY <2>2, LoopExits
  <2>3. ASSUME NEW point \in {"top", "summary"}, To(point),
               UNCHANGED <<qcancel, loopEvidence, qgoal, qnudged, qwaiting,
                           qresponse, qsynth, qrejected>>
        PROVE  LoopInv'
    BY <2>1, <2>3, LoopMoves DEF LoopPoints
  <2> QED BY <1>6, <2>2, <2>3 DEF LoopProviderFails
<1>7. CASE LoopCalls
  BY <1>7, LoopMoves DEF LoopCalls, LoopAnswers, LoopPoints
<1>8. CASE LoopRoundEnds
  <2>1. CASE qwaiting
    <3>1. PICK error : /\ FinishTurn(error, FALSE, "waiting_external_input", "none")
                       /\ UNCHANGED <<qcancel, loopEvidence, qgoal, qnudged,
                                      qwaiting, qresponse, qsynth, qrejected>>
      BY <1>8, <2>1 DEF LoopRoundEnds, WaitingMetric
    <3> QED BY <3>1, LoopExits DEF Exit
  <2>2. CASE ~qwaiting
    <3>1. /\ qpc # "done" /\ qpc' = "top" /\ qout' = qout
          /\ qnudged' = FALSE /\ qrejected' = 0
      BY <1>8, <2>2 DEF LoopRoundEnds, To
    <3>2. LoopResult' /\ OutcomeIsEvidenced'
      BY <3>1, LoopGoesOn
    <3> QED BY <1>8, <3>1, <3>2
            DEF LoopRoundEnds, LoopInv, LoopFlagTypes, LoopWriteTypes,
                LoopGoalTypes, LoopCounts, LoopPoints, loopEvidence
  <2> QED BY <2>1, <2>2 DEF LoopInv, LoopFlagTypes
<1>9. CASE LoopCompletion
  <2>1. qpc # "done"
    BY <1>9 DEF LoopCompletion
  <2>2. ASSUME NEW error, NEW response, NEW metric, Exit(error, response, metric)
        PROVE  LoopInv'
    BY <2>2, LoopExits
  <2>3. ASSUME To("synthesis"),
               UNCHANGED <<qcancel, loopEvidence, qgoal, qnudged, qwaiting,
                           qresponse, qsynth, qrejected>>
        PROVE  LoopInv'
    BY <2>1, <2>3, LoopMoves DEF LoopPoints
  <2> QED BY <1>9, <2>2, <2>3 DEF LoopCompletion
<1>10. CASE LoopCancel
  BY <1>10
  DEF LoopCancel, LoopInv, LoopFlagTypes, LoopWriteTypes, LoopGoalTypes, LoopCounts,
      LoopResult, OutcomeIsEvidenced, Installed, loopEvidence
<1>11. CASE UNCHANGED loopVars
  BY <1>11
  DEF loopVars, LoopInv, LoopFlagTypes, LoopWriteTypes, LoopGoalTypes, LoopCounts,
      LoopResult, OutcomeIsEvidenced, Installed, loopEvidence
<1> QED
  BY <1>1, <1>2, <1>3, <1>4, <1>5, <1>6, <1>7, <1>8, <1>9, <1>10, <1>11,
     LoopToolStep, LoopFinalStep, LoopSynthesisStep
  DEF LoopNext, LoopStep

LEMMA LoopInvariant == LoopSpec => []LoopInv
<1>1. LoopInit => LoopInv
  <2> SUFFICES ASSUME LoopInit PROVE LoopInv
    OBVIOUS
  <2>1. LoopFlagTypes
    <3>1. qbounded \in BOOLEAN
      BY LoopAssumption, Zenon DEF LoopInit
    <3>2. qcalls \in 0..MaxLoopCalls
      BY LoopAssumption DEF LoopInit
    <3> QED BY <3>1, <3>2 DEF LoopInit, LoopFlagTypes, LoopPoints
  <2>2. LoopWriteTypes
    BY LoopAssumption DEF LoopInit, LoopWriteTypes
  <2>3. LoopGoalTypes
    BY DEF LoopInit, LoopGoalTypes
  <2>4. LoopCounts /\ LoopResult
    BY DEF LoopInit, LoopCounts, LoopResult
  <2>5. OutcomeIsEvidenced
    BY DEF LoopInit, OutcomeIsEvidenced, NoResult
  <2> QED BY <2>1, <2>2, <2>3, <2>4, <2>5 DEF LoopInv
<1> QED BY <1>1, LoopNextStep, PTL DEF LoopSpec

\* The query loop keeps the types of its state; it has a result exactly when it has
\* ended, rejects one final between two tool rounds and tries a synthesis twice.
THEOREM LoopTypeCorrect == LoopSpec => []LoopTypeOK
<1>1. ASSUME LoopInv PROVE LoopTypeOK
  <2>1. (qout = NoResult) = (qpc # "done")
    BY <1>1 DEF LoopInv, LoopResult, NoResult
  <2>2. qout.execution \in {"none", "unknown", "complete", "partial", "failed"}
    BY <1>1 DEF LoopInv, LoopResult, NoResult
  <2> QED BY <1>1, <2>1, <2>2
          DEF LoopInv, LoopFlagTypes, LoopWriteTypes, LoopGoalTypes, LoopCounts,
              LoopTypeOK, LoopPoints
<1> QED BY <1>1, LoopInvariant, PTL

\* _finish_turn reports a complete response only with every required piece of
\* evidence observed, and a complete execution only if no write is open or the first
\* was read back: at every exit, for any goals, writes and number of tool calls.
THEOREM OutcomesAreEvidenced == LoopSpec => []OutcomeIsEvidenced
<1>1. LoopInv => OutcomeIsEvidenced
  BY DEF LoopInv
<1> QED BY <1>1, LoopInvariant, PTL

-----------------------------------------------------------------------------
(* Delegated agents: types.                                                *)

SubStatuses == {"none", "created", "running"} \cup SubTerminal

SubWorkerPcs == {"none", "load", "begin", "exec", "decide", "finish"}

SubRecordTypes ==
    /\ subStatus \in [SubTasks -> SubStatuses]
    /\ subFresh \in [SubTasks -> BOOLEAN]
    /\ subCandidate \in [SubTasks -> {"open", "sealed", "integrated"}]

SubWorkerTypes ==
    /\ subWorker \in [SubTasks -> SubWorkerPcs]
    /\ subOut \in [SubTasks -> {"none"} \cup SubTerminal]
    /\ \A t \in SubTasks : (subOut[t] = "none") = (subWorker[t] \notin {"decide", "finish"})
    /\ subRan \in [SubTasks -> Nat]

SubSignalTypes ==
    /\ subEvent \in [SubTasks -> BOOLEAN] /\ subParent \in BOOLEAN
    /\ subFaulty \in 0..MaxSubFaults

SubQueueTypes ==
    /\ subCall \subseteq SubTasks /\ subCancel \subseteq SubTasks
    /\ subTriggers \subseteq SubTasks /\ subTodo \subseteq SubTasks
    /\ subListed \in [waiting : BOOLEAN, tasks : SUBSET SubTasks]

\* A task that has a worker or was executed is past "created", and no worker that
\* is still to execute it is left once it was.
SubOnce ==
    \A t \in SubTasks :
        /\ subRan[t] <= 1
        /\ subWorker[t] # "none" \/ subRan[t] = 1 => subStatus[t] \notin {"none", "created"}
        /\ subRan[t] = 1 => subWorker[t] \notin {"load", "begin"}

SubInv ==
    SubRecordTypes /\ SubWorkerTypes /\ SubSignalTypes /\ SubQueueTypes /\ SubOnce

LEMMA SubInitInv == SubInit => SubInv
<1> SUFFICES ASSUME SubInit PROVE SubInv
  OBVIOUS
<1> USE DEF SubInit
<1>1. SubRecordTypes /\ SubQueueTypes
  BY DEF SubRecordTypes, SubQueueTypes, SubStatuses
<1>2. SubWorkerTypes
  BY DEF SubWorkerTypes, SubWorkerPcs, SubTerminal
<1>3. SubSignalTypes
  <2>1. 0 \in 0..MaxSubFaults
    BY SubAssumption
  <2> QED BY <2>1 DEF SubSignalTypes
<1>4. SubOnce
  BY DEF SubOnce
<1> QED BY <1>1, <1>2, <1>3, <1>4 DEF SubInv

-----------------------------------------------------------------------------
(* Delegated agents: what every step does.                                 *)

\* start_subagent_task closes the record, or starts a worker for a created task
\* that has none, or changes neither.
LEMMA SubStartEffect ==
  ASSUME NEW t \in SubTasks, NEW result, SubStart(t, result)
  PROVE  /\ subFresh' = subFresh \/ subFresh' = [subFresh EXCEPT ![t] = TRUE]
         /\ \/ subEvent' = subEvent
            \/ \E b \in BOOLEAN : subEvent' = [subEvent EXCEPT ![t] = b]
         /\ subFaulty' = subFaulty \/ SubFault("spawn")
         /\ \/ UNCHANGED <<subStatus, subWorker>>
            \/ /\ SubStarts(t) /\ UNCHANGED subWorker
               /\ \E s \in {"cancelled", "failed"} : SubSave(t, s)
            \/ /\ SubStarts(t) /\ SubSave(t, "running")
               /\ subWorker' = [subWorker EXCEPT ![t] = "load"]
<1>1. CASE ~SubStarts(t)
  BY <1>1 DEF SubStart
<1>2. CASE SubStarts(t) /\ SubProbe(t)
  BY <1>2 DEF SubStart
<1>3. CASE SubStarts(t) /\ ~SubProbe(t) /\ SubBlocked(t)
  BY <1>3 DEF SubStart, SubReleased
<1>4. CASE SubStarts(t) /\ ~SubProbe(t) /\ ~SubBlocked(t) /\ ~SubAvailable(t)
  BY <1>4 DEF SubStart
<1>5. CASE SubStarts(t) /\ ~SubProbe(t) /\ ~SubBlocked(t) /\ SubAvailable(t)
  BY <1>5 DEF SubStart, SubReleased
<1> QED BY <1>1, <1>2, <1>3, <1>4, <1>5

\* Every writer of a record creates it or goes through save_subagent.
LEMMA SubStatusEffect ==
  ASSUME SubInv, [SubNext]_subVars
  PROVE  \/ UNCHANGED subStatus
         \/ \E t \in SubTasks : SubCreate(t)
         \/ \E t \in SubTasks : \E s \in {"running"} \cup SubTerminal : SubSave(t, s)
<1> USE DEF SubTerminal
<1>1. ASSUME NEW t \in SubTasks, SubCallStart(t) \/ SubDispatch(t)
      PROVE  \/ UNCHANGED subStatus
             \/ \E s \in {"running"} \cup SubTerminal : SubSave(t, s)
  <2>1. PICK result \in SubResults : SubStart(t, result)
    BY <1>1 DEF SubCallStart, SubDispatch
  <2> QED BY <2>1, SubStartEffect
<1>2. ASSUME NEW t \in SubTasks, SubFinish(t)
      PROVE  \E s \in SubTerminal : SubSave(t, s)
  <2>1. subOut[t] \in SubTerminal
    BY <1>2 DEF SubFinish, SubInv, SubWorkerTypes
  <2> QED BY <1>2, <2>1 DEF SubFinish
<1>3. ASSUME NEW t \in SubTasks,
             SubBegin(t) \/ SubCancelSave(t) \/ SubReconcileSave(t)
      PROVE  \E s \in {"running"} \cup SubTerminal : SubSave(t, s)
  BY <1>3 DEF SubBegin, SubCancelSave, SubReconcileSave
<1>4. ASSUME NEW t \in SubTasks,
             \/ SubLoad(t) \/ SubDecide(t) \/ SubList(t) \/ SubCallAgain(t)
             \/ SubCancelRead(t) \/ SubMerge(t)
             \/ \E out \in {"succeeded", "failed"} : SubTurnEnds(t, out)
      PROVE  UNCHANGED subStatus
  BY <1>4 DEF SubLoad, SubDecide, SubList, SubCallAgain, SubCancelRead, SubMerge,
              SubTurnEnds, subRecord
<1>5. ASSUME SubReconcileList \/ SubParentCancels \/ SubRestart \/ UNCHANGED subVars
      PROVE  UNCHANGED subStatus
  BY <1>5 DEF SubReconcileList, SubParentCancels, SubRestart, subRecord, subVars
<1> QED BY <1>1, <1>2, <1>3, <1>4, <1>5 DEF SubNext, SubProgress

LEMMA SubRecordStep == SubInv /\ [SubNext]_subVars => SubRecordTypes'
<1> SUFFICES ASSUME SubInv, [SubNext]_subVars PROVE SubRecordTypes'
  OBVIOUS
<1> USE DEF SubInv, SubRecordTypes
<1>1. subStatus' \in [SubTasks -> SubStatuses]
  <2>1. ASSUME NEW t \in SubTasks, NEW s \in {"running"} \cup SubTerminal, SubSave(t, s)
        PROVE  subStatus' \in [SubTasks -> SubStatuses]
    BY <2>1 DEF SubSave, SubSaved, SubStatuses
  <2>2. ASSUME NEW t \in SubTasks, SubCreate(t)
        PROVE  subStatus' \in [SubTasks -> SubStatuses]
    BY <2>2 DEF SubCreate, SubStatuses
  <2> QED BY <2>1, <2>2, SubStatusEffect
<1>2. ASSUME UNCHANGED <<subFresh, subCandidate>> PROVE SubRecordTypes'
  BY <1>1, <1>2
<1>3. ASSUME NEW t \in SubTasks, SubCallStart(t) \/ SubDispatch(t)
      PROVE  SubRecordTypes'
  <2>1. PICK result \in SubResults : SubStart(t, result)
    BY <1>3 DEF SubCallStart, SubDispatch
  <2>2. subFresh' \in [SubTasks -> BOOLEAN]
    BY <2>1, SubStartEffect
  <2> QED BY <1>1, <1>3, <2>2 DEF SubCallStart, SubDispatch
<1>4. ASSUME NEW t \in SubTasks, SubCreate(t) PROVE SubRecordTypes'
  BY <1>1, <1>4 DEF SubCreate
<1>5. ASSUME NEW t \in SubTasks,
             SubMerge(t) \/ \E out \in {"succeeded", "failed"} : SubTurnEnds(t, out)
      PROVE  SubRecordTypes'
  BY <1>1, <1>5 DEF SubMerge, SubTurnEnds
<1>6. ASSUME SubRestart PROVE SubRecordTypes'
  BY <1>1, <1>6 DEF SubRestart
<1>7. ASSUME NEW t \in SubTasks,
             \/ SubLoad(t) \/ SubBegin(t) \/ SubDecide(t) \/ SubFinish(t)
             \/ SubCancelSave(t) \/ SubList(t) \/ SubReconcileSave(t)
             \/ SubCallAgain(t) \/ SubCancelRead(t)
      PROVE  SubRecordTypes'
  BY <1>2, <1>7 DEF SubLoad, SubBegin, SubDecide, SubFinish, SubCancelSave, SubList,
                    SubReconcileSave, SubCallAgain, SubCancelRead, subRecord
<1>8. ASSUME SubReconcileList \/ SubParentCancels \/ UNCHANGED subVars
      PROVE  SubRecordTypes'
  BY <1>2, <1>8 DEF SubReconcileList, SubParentCancels, subRecord, subVars
<1> QED
  BY <1>3, <1>4, <1>5, <1>6, <1>7, <1>8 DEF SubNext, SubProgress

LEMMA SubWorkerStep == SubInv /\ [SubNext]_subVars => SubWorkerTypes'
<1> SUFFICES ASSUME SubInv, [SubNext]_subVars PROVE SubWorkerTypes'
  OBVIOUS
<1> USE DEF SubInv, SubWorkerTypes
<1>1. ASSUME UNCHANGED <<subWorker, subOut, subRan>> PROVE SubWorkerTypes'
  BY <1>1
<1>2. ASSUME UNCHANGED <<subOut, subRan>>, NEW t \in SubTasks,
             subWorker[t] \notin {"decide", "finish"},
             NEW pc \in {"none", "load", "begin", "exec"}, SubWorkerGoes(t, pc)
      PROVE  SubWorkerTypes'
  BY <1>2 DEF SubWorkerGoes, SubWorkerPcs
<1>3. ASSUME NEW t \in SubTasks, SubCallStart(t) \/ SubDispatch(t)
      PROVE  SubWorkerTypes'
  <2>1. PICK result \in SubResults : SubStart(t, result)
    BY <1>3 DEF SubCallStart, SubDispatch
  <2>2. \/ UNCHANGED subWorker
        \/ subWorker[t] = "none" /\ SubWorkerGoes(t, "load")
    BY <2>1, SubStartEffect DEF SubStarts, SubWorkerGoes
  <2> QED BY <1>1, <1>2, <1>3, <2>2 DEF SubCallStart, SubDispatch
<1>4. ASSUME NEW t \in SubTasks, SubLoad(t) PROVE SubWorkerTypes'
  <2>1. subWorker[t] = "load" /\ \E pc \in {"none", "begin"} : SubWorkerGoes(t, pc)
    BY <1>4 DEF SubLoad
  <2> QED BY <1>2, <1>4, <2>1 DEF SubLoad
<1>5. ASSUME NEW t \in SubTasks, SubBegin(t) PROVE SubWorkerTypes'
  <2>1. subRan' = [subRan EXCEPT ![t] = @ + 1]
    BY <1>5 DEF SubBegin
  <2>2. subRan' \in [SubTasks -> Nat]
    BY <2>1
  <2> QED BY <1>5, <2>2 DEF SubBegin, SubWorkerGoes, SubWorkerPcs
<1>6. ASSUME NEW t \in SubTasks, NEW out \in {"succeeded", "failed"}, SubTurnEnds(t, out)
      PROVE  SubWorkerTypes'
  BY <1>6 DEF SubTurnEnds, SubWorkerGoes, SubWorkerPcs, SubTerminal
<1>7. ASSUME NEW t \in SubTasks, SubDecide(t) PROVE SubWorkerTypes'
  <2>1. subOut'[t] # "none" /\ subOut'[t] \in SubTerminal
    BY <1>7 DEF SubDecide, SubTerminal
  <2>2. \A u \in SubTasks : u # t => subOut'[u] = subOut[u] /\ subWorker'[u] = subWorker[u]
    BY <1>7 DEF SubDecide, SubWorkerGoes
  <2>3. subOut' \in [SubTasks -> {"none"} \cup SubTerminal]
    BY <1>7, <2>1 DEF SubDecide, SubTerminal
  <2>4. subWorker' \in [SubTasks -> SubWorkerPcs] /\ subWorker'[t] = "finish"
    BY <1>7 DEF SubDecide, SubWorkerGoes, SubWorkerPcs
  <2>5. UNCHANGED subRan
    BY <1>7 DEF SubDecide
  <2> QED BY <2>1, <2>2, <2>3, <2>4, <2>5
<1>8. ASSUME NEW t \in SubTasks, SubFinish(t) PROVE SubWorkerTypes'
  BY <1>8 DEF SubFinish, SubWorkerGoes, SubWorkerPcs
<1>9. ASSUME SubRestart PROVE SubWorkerTypes'
  BY <1>9 DEF SubRestart, SubWorkerPcs
<1>10. ASSUME NEW t \in SubTasks,
              \/ SubCreate(t) \/ SubMerge(t) \/ SubCancelSave(t) \/ SubList(t)
              \/ SubReconcileSave(t) \/ SubCallAgain(t) \/ SubCancelRead(t)
       PROVE  SubWorkerTypes'
  BY <1>1, <1>10 DEF SubCreate, SubMerge, SubCancelSave, SubList, SubReconcileSave,
                     SubCallAgain, SubCancelRead
<1>11. ASSUME SubReconcileList \/ SubParentCancels \/ UNCHANGED subVars
       PROVE  SubWorkerTypes'
  BY <1>1, <1>11 DEF SubReconcileList, SubParentCancels, subVars
<1> QED
  BY <1>3, <1>4, <1>5, <1>6, <1>7, <1>8, <1>9, <1>10, <1>11 DEF SubNext, SubProgress

LEMMA SubSignalStep == SubInv /\ [SubNext]_subVars => SubSignalTypes'
<1> SUFFICES ASSUME SubInv, [SubNext]_subVars PROVE SubSignalTypes'
  OBVIOUS
<1> USE DEF SubInv, SubSignalTypes
<1>0. ASSUME NEW kind, SubFault(kind) PROVE subFaulty' \in 0..MaxSubFaults
  BY <1>0, SubAssumption DEF SubFault
<1>1. ASSUME UNCHANGED <<subEvent, subParent, subFaulty>> PROVE SubSignalTypes'
  BY <1>1
<1>2. ASSUME NEW t \in SubTasks, SubCallStart(t) \/ SubDispatch(t)
      PROVE  SubSignalTypes'
  <2>1. PICK result \in SubResults : SubStart(t, result)
    BY <1>2 DEF SubCallStart, SubDispatch
  <2>2. subEvent' \in [SubTasks -> BOOLEAN]
    BY <2>1, SubStartEffect
  <2>3. subFaulty' \in 0..MaxSubFaults
    BY <1>0, <2>1, SubStartEffect
  <2> QED BY <1>2, <2>2, <2>3 DEF SubCallStart, SubDispatch
<1>3. ASSUME NEW t \in SubTasks, SubLoad(t) \/ SubFinish(t) PROVE SubSignalTypes'
  BY <1>3 DEF SubLoad, SubFinish, SubReleased
<1>4. ASSUME NEW t \in SubTasks, SubCallAgain(t) \/ SubCancelRead(t) PROVE SubSignalTypes'
  <2>1. subFaulty' \in 0..MaxSubFaults
    BY <1>0, <1>4 DEF SubCallAgain, SubCancelRead
  <2> QED BY <1>4, <2>1 DEF SubCallAgain, SubCancelRead
<1>5. ASSUME SubParentCancels \/ SubRestart PROVE SubSignalTypes'
  <2>1. subFaulty' \in 0..MaxSubFaults
    BY <1>0, <1>5 DEF SubParentCancels, SubRestart
  <2> QED BY <1>5, <2>1 DEF SubParentCancels, SubRestart
<1>6. ASSUME NEW t \in SubTasks,
             \/ SubCreate(t) \/ SubBegin(t) \/ SubDecide(t) \/ SubMerge(t)
             \/ SubCancelSave(t) \/ SubList(t) \/ SubReconcileSave(t)
             \/ \E out \in {"succeeded", "failed"} : SubTurnEnds(t, out)
      PROVE  SubSignalTypes'
  BY <1>1, <1>6 DEF SubCreate, SubBegin, SubDecide, SubMerge, SubCancelSave, SubList,
                    SubReconcileSave, SubTurnEnds
<1>7. ASSUME SubReconcileList \/ UNCHANGED subVars PROVE SubSignalTypes'
  BY <1>1, <1>7 DEF SubReconcileList, subVars
<1> QED
  BY <1>2, <1>3, <1>4, <1>5, <1>6, <1>7 DEF SubNext, SubProgress

LEMMA SubQueueStep == SubInv /\ [SubNext]_subVars => SubQueueTypes'
<1> SUFFICES ASSUME SubInv, [SubNext]_subVars PROVE SubQueueTypes'
  OBVIOUS
<1> USE DEF SubInv, SubQueueTypes
<1>1. ASSUME NEW t \in SubTasks,
             \/ SubCallStart(t) \/ SubDispatch(t) \/ SubCreate(t) \/ SubCallAgain(t)
             \/ SubCancelRead(t) \/ SubCancelSave(t) \/ SubMerge(t) \/ SubFinish(t)
      PROVE  SubQueueTypes'
  BY <1>1 DEF SubCallStart, SubDispatch, SubCreate, SubCallAgain, SubCancelRead,
              SubCancelSave, SubMerge, SubFinish
<1>2. ASSUME NEW t \in SubTasks, SubList(t) PROVE SubQueueTypes'
  BY <1>2 DEF SubList, SubDependents
<1>3. ASSUME NEW t \in SubTasks, SubReconcileSave(t) PROVE SubQueueTypes'
  BY <1>3 DEF SubReconcileSave
<1>4. ASSUME SubReconcileList \/ SubRestart PROVE SubQueueTypes'
  <2>1. \A T \in SUBSET SubTasks : \A b \in BOOLEAN :
           [waiting |-> b, tasks |-> T] \in [waiting : BOOLEAN, tasks : SUBSET SubTasks]
    OBVIOUS
  <2>2. subListed' \in [waiting : BOOLEAN, tasks : SUBSET SubTasks]
    BY <1>4, <2>1 DEF SubReconcileList, SubRestart
  <2> QED BY <1>4, <2>2 DEF SubReconcileList, SubRestart
<1>5. ASSUME UNCHANGED <<subCall, subCancel, subTriggers, subTodo, subListed>>
      PROVE  SubQueueTypes'
  BY <1>5
<1> QED
  BY <1>1, <1>2, <1>3, <1>4, <1>5
  DEF SubNext, SubProgress, SubLoad, SubBegin, SubDecide, SubTurnEnds, SubParentCancels,
      subVars

\* Of a task that was executed no start is left; the others are started from
\* "created", which no save writes.
LEMMA SubOnceStep == SubInv /\ [SubNext]_subVars => SubOnce'
<1> SUFFICES ASSUME SubInv, [SubNext]_subVars PROVE SubOnce'
  OBVIOUS
<1> USE DEF SubInv, SubRecordTypes, SubWorkerTypes
<1>0. \A t \in SubTasks :
         subStatus[t] \notin {"none", "created"} => subStatus'[t] \notin {"none", "created"}
  BY SubStatusEffect DEF SubCreate, SubSave, SubSaved, SubTerminal
<1>1. ASSUME UNCHANGED subRan,
             \A t \in SubTasks : \/ subWorker'[t] = subWorker[t]
                                 \/ subWorker'[t] = "none"
                                 \/ subWorker[t] = "load" /\ subWorker'[t] = "begin"
                                 \/ subWorker[t] = "exec" /\ subWorker'[t] = "decide"
                                 \/ subWorker[t] = "decide" /\ subWorker'[t] = "finish"
      PROVE  SubOnce'
  BY <1>0, <1>1 DEF SubOnce
<1>2. ASSUME NEW t \in SubTasks, SubCallStart(t) \/ SubDispatch(t) PROVE SubOnce'
  <2>1. PICK result \in SubResults : SubStart(t, result)
    BY <1>2 DEF SubCallStart, SubDispatch
  <2>2. UNCHANGED subRan
    BY <1>2 DEF SubCallStart, SubDispatch
  <2>3. CASE UNCHANGED subWorker
    BY <1>1, <2>2, <2>3
  <2>4. CASE SubStarts(t) /\ SubSave(t, "running")
             /\ subWorker' = [subWorker EXCEPT ![t] = "load"]
    BY <1>0, <2>2, <2>4 DEF SubStarts, SubSave, SubSaved, SubTerminal, SubOnce
  <2> QED BY <2>1, <2>3, <2>4, SubStartEffect
<1>3. ASSUME NEW t \in SubTasks, SubBegin(t) PROVE SubOnce'
  <2>1. subRan[t] = 0
    BY <1>3 DEF SubBegin, SubOnce
  <2>2. subRan'[t] = 1 /\ subWorker'[t] = "exec" /\ subStatus'[t] \notin {"none", "created"}
    BY <1>3, <2>1 DEF SubBegin, SubWorkerGoes, SubSave, SubSaved, SubTerminal
  <2>3. \A u \in SubTasks \ {t} : subRan'[u] = subRan[u] /\ subWorker'[u] = subWorker[u]
    BY <1>3 DEF SubBegin, SubWorkerGoes
  <2> QED BY <1>0, <2>2, <2>3 DEF SubOnce
<1>4. ASSUME NEW t \in SubTasks,
             \/ SubLoad(t) \/ SubDecide(t) \/ SubFinish(t)
             \/ \E out \in {"succeeded", "failed"} : SubTurnEnds(t, out)
      PROVE  SubOnce'
  BY <1>1, <1>4 DEF SubLoad, SubDecide, SubFinish, SubTurnEnds, SubWorkerGoes
<1>5. ASSUME SubRestart PROVE SubOnce'
  BY <1>1, <1>5 DEF SubRestart
<1>6. ASSUME NEW t \in SubTasks,
             \/ SubCreate(t) \/ SubMerge(t) \/ SubCancelSave(t) \/ SubList(t)
             \/ SubReconcileSave(t) \/ SubCallAgain(t) \/ SubCancelRead(t)
      PROVE  SubOnce'
  BY <1>1, <1>6 DEF SubCreate, SubMerge, SubCancelSave, SubList, SubReconcileSave,
                    SubCallAgain, SubCancelRead
<1>7. ASSUME SubReconcileList \/ SubParentCancels \/ UNCHANGED subVars PROVE SubOnce'
  BY <1>1, <1>7 DEF SubReconcileList, SubParentCancels, subVars
<1> QED
  BY <1>2, <1>3, <1>4, <1>5, <1>6, <1>7 DEF SubNext, SubProgress

-----------------------------------------------------------------------------
(* Delegated agents: theorems.                                             *)

LEMMA SubInvariant == SubSpec => []SubInv
<1>1. SubInv /\ [SubNext]_subVars => SubInv'
  BY SubRecordStep, SubWorkerStep, SubSignalStep, SubQueueStep, SubOnceStep DEF SubInv
<1> QED BY <1>1, SubInitInv, PTL DEF SubSpec

\* subagent.py keeps the types of its records, workers and queues; a worker knows
\* its outcome from the end of its turn to its last save.
THEOREM SubTypeCorrect == SubSpec => []SubTypeOK
<1>1. SubInv => SubTypeOK
  BY DEF SubInv, SubRecordTypes, SubWorkerTypes, SubSignalTypes, SubQueueTypes,
         SubTypeOK, SubStatuses, SubWorkerPcs
<1> QED BY <1>1, SubInvariant, PTL

\* start_subagent_task runs a task "exactly once" at most, for any dependency
\* graph, any calls, cancellations, failed spawns and restarts.
THEOREM TasksExecuteOnce == SubSpec => []ExecutedOnce
<1>1. SubInv => ExecutedOnce
  BY DEF SubInv, SubOnce, ExecutedOnce
<1> QED BY <1>1, SubInvariant, PTL

\* save_subagent "retains the first durable terminal result", whoever writes late.
THEOREM FirstTerminalIsKept == SubSpec => FirstTerminalStands
<1>1. ASSUME SubInv, [SubNext]_subVars, NEW t \in SubTasks, subStatus[t] \in SubTerminal
      PROVE  subStatus'[t] = subStatus[t]
  <2>1. ASSUME NEW u \in SubTasks, NEW s, SubSave(u, s) PROVE subStatus'[t] = subStatus[t]
    BY <1>1, <2>1 DEF SubSave, SubSaved, SubInv, SubRecordTypes
  <2>2. ASSUME NEW u \in SubTasks, SubCreate(u) PROVE subStatus'[t] = subStatus[t]
    BY <1>1, <2>2 DEF SubCreate, SubTerminal, SubInv, SubRecordTypes
  <2> QED BY <1>1, <2>1, <2>2, SubStatusEffect
<1>2. SubInv /\ [SubNext]_subVars
        => [\A t \in SubTasks :
              subStatus[t] \in SubTerminal => subStatus'[t] = subStatus[t]]_subVars
  BY <1>1
<1> QED BY <1>2, SubInvariant, PTL DEF SubSpec, FirstTerminalStands

-----------------------------------------------------------------------------
(* The components of MCPlatform together.                                  *)

\* What the run of MCPlatform does is a behaviour of the job queue, of the ledger, of a
\* session, of its agents, of the loop of a turn and of its task state: what is proved of
\* each of them holds in it.
THEOREM PlatformRunsItsComponents ==
    PlatformSpec => /\ Spec
                    /\ LedgerSpec
                    /\ SessionSpec
                    /\ SubSpec
                    /\ LoopSpec
                    /\ TaskSpec
<1>1. PlatformInit => Init /\ LedgerInit /\ SessionInit /\ SubInit /\ LoopInit /\ TaskInit
  BY DEF PlatformInit
<1>2. [PlatformNext]_platformVars => [Next]_vars
  BY DEF PlatformNext, PlatformStep, Rest, platformVars
<1>3. [PlatformNext]_platformVars => [LedgerNext]_ledgerVars
  BY DEF PlatformNext, PlatformStep, Rest, platformVars
<1>4. [PlatformNext]_platformVars => [SessionNext]_sessionVars
  BY DEF PlatformNext, PlatformStep, Rest, platformVars
<1>5. [PlatformNext]_platformVars => [SubNext]_subVars
  BY DEF PlatformNext, PlatformStep, Rest, platformVars
<1>6. [PlatformNext]_platformVars => [LoopNext]_loopVars
  BY DEF PlatformNext, PlatformStep, Rest, platformVars
<1>7. [PlatformNext]_platformVars => [TaskNext]_tskVars
  BY DEF PlatformNext, PlatformStep, Rest, platformVars
<1> QED
  BY <1>1, <1>2, <1>3, <1>4, <1>5, <1>6, <1>7, PTL
  DEF PlatformSpec, Spec, LedgerSpec, SessionSpec, SubSpec, LoopSpec, TaskSpec

\* Types of all of them.
THEOREM PlatformTypes == PlatformSpec => []PlatformTypeOK
<1>1. TypeOK /\ LedgerTypeOK /\ SessionTypeOK /\ SubTypeOK /\ LoopTypeOK /\ TaskTypeOK => PlatformTypeOK
  BY DEF PlatformTypeOK
<1> QED
  BY <1>1, PlatformRunsItsComponents, TypeCorrect, LedgerTypeCorrect, SessionTypeCorrect,
     SubTypeCorrect, LoopTypeCorrect, TaskTypeCorrect, PTL
=============================================================================
