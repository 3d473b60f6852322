------------------------------ MODULE TaskState ------------------------------
(***************************************************************************)
(* The task state of a session (agent/runtime/task_state.py): one snapshot *)
(* with a revision, an append-only log of lifecycle events, and the runs   *)
(* that move it: each resolves a contract, begins, checkpoints its tools   *)
(* and commits (agent/runtime/ssot_runtime.py).  After a restart of the    *)
(* service whatever was active before it is marked interrupted.            *)
(*                                                                         *)
(* Every write holds the file lock, appends its event and then publishes   *)
(* the snapshot; the process may die, or the disk refuse, between the two. *)
(* One session is modelled; its runs may overlap, as SessionTurn shows.    *)
(***************************************************************************)
EXTENDS Naturals, FiniteSets

CONSTANTS
    TaskRuns,         \* runs of the session
    NoRunId,          \* no run, no task
    MaxCheckpoints,   \* bound: accepted checkpoints in a behaviour
    MaxTaskRestarts,  \* bound: restarts of the service
    TaskFaults        \* which of "restart", "read", "disk" may happen

ASSUME TaskAssumption ==
    /\ NoRunId \notin TaskRuns
    /\ MaxCheckpoints \in Nat /\ MaxTaskRestarts \in Nat
    /\ TaskFaults \subseteq {"restart", "read", "disk"}

VARIABLES
    tsk,         \* the snapshot: revision, task_id, status, source_run_id
    tskFresh,    \* was it updated since the service started?
    tskLogged,   \* the task in the last event of the log
    tskPending,  \* the write between its event and its snapshot
    tskPc,       \* the runs
    tcontract,   \* task_state_contract of each
    ttracked,    \* was its begin accepted?
    tboot,       \* is the reconciliation of this start still to come?
    tchecks, trestarts

tskRun == <<tskPc, tcontract, ttracked>>
tskVars == <<tsk, tskFresh, tskLogged, tskPending, tskRun, tboot, tchecks, trestarts>>

NoTask == [rev |-> 0, id |-> NoRunId, status |-> "none", run |-> NoRunId]
NoContract == [id |-> NoRunId, rev |-> 0]
NoPending == [by |-> NoRunId, kind |-> "none", task |-> NoTask]

TaskContract(t) == [id |-> t.id, rev |-> t.rev]

TaskInit ==
    /\ tsk = NoTask /\ tskFresh = FALSE
    /\ tskLogged = NoTask /\ tskPending = NoPending
    /\ tskPc = [r \in TaskRuns |-> "idle"]
    /\ tcontract = [r \in TaskRuns |-> NoContract]
    /\ ttracked = [r \in TaskRuns |-> FALSE]
    /\ tboot = FALSE
    /\ tchecks = 0 /\ trestarts = 0

-----------------------------------------------------------------------------
(* Writing: the event, then the snapshot, under one file lock.             *)

TaskUnlocked == tskPending = NoPending

\* append_jsonl_once
LogTask_never(by, kind, task) ==
    /\ tskPending' = [by |-> by, kind |-> kind, task |-> task]
    /\ UNCHANGED tskLogged

LogTask(by, kind, task) ==
    /\ tskLogged' = task
    /\ tskPending' = [by |-> by, kind |-> kind, task |-> task]

\* The task this run writes: its own id for a new task, else the one there.
TaskWritten(r, status) ==
    [rev |-> tsk.rev + 1, status |-> status, run |-> r,
     id |-> IF tcontract[r] = NoContract THEN r ELSE tsk.id]

\* What the run holds once its write is published.
TaskAdvance_tracks(r, point, contract, tracked) ==
    /\ tskPc' = [tskPc EXCEPT ![r] = point]
    /\ tcontract' = [tcontract EXCEPT ![r] = contract]
    /\ ttracked' = [ttracked EXCEPT ![r] = @ \/ tracked]

TaskAdvance(r, point, contract, tracked) ==
    /\ tskPc' = [tskPc EXCEPT ![r] = point]
    /\ tcontract' = [tcontract EXCEPT ![r] = contract]
    /\ ttracked' = [ttracked EXCEPT ![r] = tracked]

PublishTask ==
    /\ ~TaskUnlocked
    /\ tsk' = tskPending.task
    /\ tskFresh' = TRUE
    /\ tskPending' = NoPending
    /\ CASE tskPending.kind \in {"started", "checkpoint"} ->
              TaskAdvance(tskPending.by, "running", TaskContract(tskPending.task), TRUE)
         [] tskPending.kind = "commit" ->
              TaskAdvance(tskPending.by, "done", NoContract, FALSE)
         [] OTHER -> UNCHANGED tskRun
    /\ UNCHANGED <<tskLogged, tboot, tchecks, trestarts>>

\* atomic_write_json raises: the run goes on with the contract it had.  That of an
\* interruption does not fail here: it would leave the task to the next start.
PublishTaskFails ==
    /\ "disk" \in TaskFaults
    /\ tskPending.by \in TaskRuns
    /\ tskPending' = NoPending
    /\ LET r == tskPending.by
       IN  IF tskPending.kind = "commit" THEN TaskAdvance(r, "done", NoContract, FALSE)
           ELSE TaskAdvance(r, "running", tcontract[r], ttracked[r])
    /\ UNCHANGED <<tsk, tskFresh, tskLogged, tboot, tchecks, trestarts>>

-----------------------------------------------------------------------------
(* A run.                                                                  *)

\* resolve_task_state: a new task, or a contract on the one there.
ResolveTask(r, continue) ==
    /\ tskPc[r] = "idle" /\ TaskUnlocked
    /\ continue => tsk # NoTask
    /\ TaskAdvance(r, "resolved", IF continue THEN TaskContract(tsk) ELSE NoContract, FALSE)
    /\ UNCHANGED <<tsk, tskFresh, tskLogged, tskPending, tboot, tchecks, trestarts>>

\* Reading fails, or an explicit resume_task_id is not the current task: the
\* turn runs without a task state.
ResolveTaskFails(r) ==
    /\ "read" \in TaskFaults
    /\ tskPc[r] = "idle"
    /\ TaskAdvance(r, "running", NoContract, FALSE)
    /\ UNCHANGED <<tsk, tskFresh, tskLogged, tskPending, tboot, tchecks, trestarts>>

\* The compare-and-swap on task_id and revision.
TaskHolds_byTask(r) == tsk.id = tcontract[r].id

TaskHolds(r) == TaskContract(tsk) = tcontract[r]

\* begin_task_state
BeginTask(r) ==
    /\ tskPc[r] = "resolved" /\ TaskUnlocked
    /\ IF tcontract[r] # NoContract /\ ~TaskHolds(r)
       THEN /\ TaskAdvance(r, "running", tcontract[r], FALSE)
            /\ UNCHANGED <<tskLogged, tskPending>>
       ELSE /\ LogTask(r, "started", TaskWritten(r, "active"))
            /\ UNCHANGED tskRun
    /\ UNCHANGED <<tsk, tskFresh, tboot, tchecks, trestarts>>

\* checkpoint_task_state_execution, before and after a round of tools.  A
\* rejected one is noted as degraded and changes nothing.
CheckpointTask(r) ==
    /\ tskPc[r] = "running" /\ ttracked[r] /\ TaskUnlocked
    /\ tchecks < MaxCheckpoints
    /\ TaskHolds(r) /\ tsk.status = "active" /\ tsk.run = r
    /\ tchecks' = tchecks + 1
    /\ LogTask(r, "checkpoint", [tsk EXCEPT !.rev = @ + 1])
    /\ UNCHANGED <<tsk, tskFresh, tskRun, tboot, trestarts>>

\* commit_task_state: without a contract there is nothing to compare.
CommitTask(r, status) ==
    /\ tskPc[r] = "running" /\ TaskUnlocked
    /\ IF tcontract[r] # NoContract /\ ~TaskHolds(r)
       THEN /\ TaskAdvance(r, "done", NoContract, FALSE)
            /\ UNCHANGED <<tskLogged, tskPending>>
       ELSE /\ LogTask(r, "commit", TaskWritten(r, status))
            /\ UNCHANGED tskRun
    /\ UNCHANGED <<tsk, tskFresh, tboot, tchecks, trestarts>>

-----------------------------------------------------------------------------
(* The service restarts, and reconciles while new runs already begin.      *)

ServiceRestarts ==
    /\ "restart" \in TaskFaults
    /\ trestarts < MaxTaskRestarts
    /\ trestarts' = trestarts + 1
    /\ tskPc' = [r \in TaskRuns |->
                 IF tskPc[r] \in {"resolved", "running"} THEN "dead" ELSE tskPc[r]]
    /\ tcontract' = [r \in TaskRuns |-> NoContract]
    /\ ttracked' = [r \in TaskRuns |-> FALSE]
    /\ tskPending' = NoPending
    /\ tskFresh' = FALSE
    /\ tboot' = TRUE
    /\ UNCHANGED <<tsk, tskLogged, tchecks>>

\* reconcile_active_task_states: active, and not updated since the start.
Stranded == tsk.status = "active" /\ ~tskFresh

ReconcileTasks ==
    /\ tboot /\ TaskUnlocked
    /\ tboot' = FALSE
    /\ IF Stranded
       THEN LogTask(NoRunId, "interrupted",
                   [rev |-> tsk.rev + 1, id |-> tsk.id, status |-> "interrupted",
                    run |-> tsk.run])
       ELSE UNCHANGED <<tskLogged, tskPending>>
    /\ UNCHANGED <<tsk, tskFresh, tskRun, tchecks, trestarts>>

-----------------------------------------------------------------------------
TaskRunStep(r) ==
    \/ \E continue \in BOOLEAN : ResolveTask(r, continue)
    \/ ResolveTaskFails(r) \/ BeginTask(r) \/ CheckpointTask(r)
    \/ \E status \in {"completed", "failed"} : CommitTask(r, status)

TaskNext ==
    \/ \E r \in TaskRuns : TaskRunStep(r)
    \/ PublishTask \/ PublishTaskFails \/ ServiceRestarts \/ ReconcileTasks

TaskSpec == TaskInit /\ [][TaskNext]_tskVars

\* A write under way ends and startup gets to its reconciliation.
TaskFairness == WF_tskVars(PublishTask \/ PublishTaskFails) /\ WF_tskVars(ReconcileTasks)

-----------------------------------------------------------------------------
\* Values of the state; only a run that has begun is tracked.
TaskTypeOK ==
    /\ tsk.rev \in Nat /\ {tsk.id, tsk.run} \subseteq TaskRuns \cup {NoRunId}
    /\ tsk.status \in {"none", "active", "completed", "failed", "interrupted"}
    /\ {tskFresh, tboot} \subseteq BOOLEAN
    /\ tskPc \in [TaskRuns -> {"idle", "resolved", "running", "done", "dead"}]
    /\ \A r \in TaskRuns : ttracked[r] => tskPc[r] = "running"
    /\ tchecks \in 0..MaxCheckpoints /\ trestarts \in 0..MaxTaskRestarts

\* "Append the immutable fact before publishing its matching snapshot": whatever
\* fails in between, the log knows the current snapshot or the step after it.
LogLeads ==
    /\ tskLogged.rev \in {tsk.rev, tsk.rev + 1}
    /\ tskLogged.rev = tsk.rev => tskLogged = tsk

\* The revision "becomes the only valid terminal CAS base": a run that began
\* writes only over its own active state, never over a run that has begun, a
\* commit that was made or an interruption that was noted since.
\* And "mark only pre-start durable in-flight TaskStates interrupted": no run that
\* is alive loses its task to the reconciliation of a restart.
RunOwnsTask ==
    [][tsk' # tsk =>
       /\ \A r \in TaskRuns :
             tskPending.by = r /\ tskPending.kind \in {"checkpoint", "commit"} /\ ttracked[r]
             => tsk.run = r /\ tsk.status = "active"
       /\ tsk'.status = "interrupted" => tskPc[tsk.run] \in {"dead", "done"}]_tskVars

\* The active task of a run that died; "a process restart can therefore mark an
\* in-flight run interrupted".
OrphanWaits == tsk.status = "active" /\ tskPc[tsk.run] = "dead"
=============================================================================
