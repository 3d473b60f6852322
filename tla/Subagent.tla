------------------------------ MODULE Subagent ------------------------------
(***************************************************************************)
(* Delegated agents (agent/runtime/durable/subagent.py): a task record on  *)
(* disk, at most one worker thread for it, and everyone who writes the     *)
(* record: the tool call that creates and starts it, its worker, the       *)
(* cancel call, the dispatcher of dependent coding tasks                   *)
(* (coding_dispatch.py) and the reconciler that runs after a restart.      *)
(* None of them re-reads the record before it writes; the store            *)
(* (storage/subagent_store.py) keeps the first terminal status instead.    *)
(*                                                                         *)
(* A task waits for its prerequisites to be integrated.  How a candidate   *)
(* is reviewed and published is the subject of CodingCandidate; here       *)
(* integration is one step.                                                *)
(***************************************************************************)
EXTENDS Naturals, FiniteSets

CONSTANTS
    SubTasks,      \* task identities
    SubPrereq,     \* coding.depends_on: the tasks each task waits for
    SubFaults,     \* which of "cancel", "again", "parent", "spawn", "restart"
                   \* may happen
    MaxSubFaults   \* bound: how many of them in a behaviour

ASSUME SubAssumption ==
    /\ SubPrereq \in [SubTasks -> SUBSET SubTasks]
    /\ SubFaults \subseteq {"cancel", "again", "parent", "spawn", "restart"}
    /\ MaxSubFaults \in Nat

SubTerminal == {"succeeded", "failed", "cancelled"}

VARIABLES
    subStatus,     \* the status in each record
    subFresh,      \* was it created or started after the backend's start?
    subCandidate,  \* the candidate of a task: open, sealed or integrated
    subCall,       \* tool calls that are about to start a task
    subWorker,     \* the worker threads (_WORKER_THREADS)
    subOut,        \* how a worker's turn ended
    subEvent,      \* _CANCEL_EVENTS
    subParent,     \* does the parent's cancel_check say cancelled?
    subCancel,     \* cancel calls between their read and their save
    subTriggers,   \* tasks whose dependents are still to be listed
    subTodo,       \* listed dependents, still to be started
    subListed,     \* the reconciler: waiting, or the tasks it read as lost
    subFaulty,     \* how many of SubFaults happened
    subRan         \* history: how often each task was executed

subRecord == <<subStatus, subFresh, subCandidate>>
subVars == <<subRecord, subCall, subWorker, subOut, subEvent, subParent, subCancel,
             subTriggers, subTodo, subListed, subFaulty, subRan>>

SubInit ==
    /\ subStatus = [t \in SubTasks |-> "none"]
    /\ subFresh = [t \in SubTasks |-> FALSE]
    /\ subCandidate = [t \in SubTasks |-> "open"]
    /\ subCall = {}
    /\ subWorker = [t \in SubTasks |-> "none"]
    /\ subOut = [t \in SubTasks |-> "none"]
    /\ subEvent = [t \in SubTasks |-> FALSE]
    /\ subParent = FALSE
    /\ subCancel = {}
    /\ subTriggers = {} /\ subTodo = {}
    /\ subListed = [waiting |-> FALSE, tasks |-> {}]
    /\ subFaulty = 0
    /\ subRan = [t \in SubTasks |-> 0]

-----------------------------------------------------------------------------
(* save_subagent: a terminal status on disk is never replaced.             *)
SubSaved_last(t, status) == status

SubSaved(t, status) ==
    IF subStatus[t] \in SubTerminal THEN subStatus[t] ELSE status

SubSave(t, status) == subStatus' = [subStatus EXCEPT ![t] = SubSaved(t, status)]

\* cancellation_probe: the event, the record and the parent.
SubProbe(t) == subEvent[t] \/ subStatus[t] = "cancelled" \/ subParent

\* ready: every prerequisite is integrated, or one can no longer be.
SubAvailable(t) == \A p \in SubPrereq[t] : subCandidate[p] = "integrated"

SubBlocked(t) ==
    \E p \in SubPrereq[t] :
        subCandidate[p] = "open" /\ subStatus[p] \in {"failed", "cancelled"}

SubFault(kind) ==
    /\ kind \in SubFaults
    /\ subFaulty < MaxSubFaults
    /\ subFaulty' = subFaulty + 1

SubReleased(t) == subEvent' = [subEvent EXCEPT ![t] = FALSE]

-----------------------------------------------------------------------------
(* The tool call.                                                          *)

SubCreate(t) ==
    /\ subStatus[t] = "none"
    /\ \A p \in SubPrereq[t] : subStatus[p] # "none"
    /\ subStatus' = [subStatus EXCEPT ![t] = "created"]
    /\ subFresh' = [subFresh EXCEPT ![t] = TRUE]
    /\ subCall' = subCall \cup {t}
    /\ UNCHANGED <<subCandidate, subWorker, subOut, subEvent, subParent, subCancel,
                   subTriggers, subTodo, subListed, subFaulty, subRan>>

\* start_subagent_task, under the record's lock.  It saves the record, marks
\* the worker's event clear and spawns the worker; result is the status it
\* reports.
SubStarts_any(t) == subWorker[t] = "none"

SubStarts(t) == subWorker[t] = "none" /\ subStatus[t] = "created"

SubStart(t, result) ==
    IF ~SubStarts(t)
    THEN /\ result = "refused"
         /\ UNCHANGED <<subStatus, subFresh, subWorker, subEvent, subFaulty>>
    ELSE CASE SubProbe(t) ->
                /\ result = "cancelled"
                /\ SubSave(t, "cancelled")
                /\ subEvent' = [subEvent EXCEPT ![t] = TRUE]
                /\ UNCHANGED <<subFresh, subWorker, subFaulty>>
           [] ~SubProbe(t) /\ SubBlocked(t) ->
                /\ result = "failed"
                /\ SubSave(t, "failed")
                /\ SubReleased(t)
                /\ UNCHANGED <<subFresh, subWorker, subFaulty>>
           [] ~SubProbe(t) /\ ~SubBlocked(t) /\ ~SubAvailable(t) ->
                /\ result = "created"
                /\ UNCHANGED <<subStatus, subFresh, subWorker, subEvent, subFaulty>>
           [] OTHER ->
                /\ subFresh' = [subFresh EXCEPT ![t] = TRUE]
                /\ SubReleased(t)
                /\ \/ /\ result = "running"
                      /\ SubSave(t, "running")
                      /\ subWorker' = [subWorker EXCEPT ![t] = "load"]
                      /\ UNCHANGED subFaulty
                   \/ /\ result = "unspawned"   \* Thread.start raises
                      /\ SubFault("spawn")
                      /\ SubSave(t, "failed")
                      /\ UNCHANGED subWorker

SubResults == {"refused", "cancelled", "failed", "created", "running", "unspawned"}

SubCallStart(t) ==
    /\ t \in subCall
    /\ subCall' = subCall \ {t}
    /\ \E result \in SubResults :
          /\ SubStart(t, result)
          /\ subTriggers' = IF result = "cancelled" THEN subTriggers \cup {t}
                            ELSE subTriggers
    /\ UNCHANGED <<subCandidate, subOut, subParent, subCancel, subTodo, subListed,
                   subRan>>

\* The model asks for a start of its own, of a task in any state.
SubCallAgain(t) ==
    /\ SubFault("again")
    /\ subStatus[t] # "none" /\ t \notin subCall
    /\ subCall' = subCall \cup {t}
    /\ UNCHANGED <<subRecord, subWorker, subOut, subEvent, subParent, subCancel,
                   subTriggers, subTodo, subListed, subRan>>

-----------------------------------------------------------------------------
(* run_subagent_task, in the worker thread.                                *)

SubWorkerGoes(t, pc) == subWorker' = [subWorker EXCEPT ![t] = pc]

\* The first read: a finished task is left alone, a cancelled one released.
SubLoad(t) ==
    /\ subWorker[t] = "load"
    /\ CASE subStatus[t] \in {"succeeded", "failed"} ->
              SubWorkerGoes(t, "none") /\ UNCHANGED subEvent
         [] subStatus[t] \notin {"succeeded", "failed"} /\ SubProbe(t) ->
              SubWorkerGoes(t, "none") /\ SubReleased(t)
         [] OTHER -> SubWorkerGoes(t, "begin") /\ UNCHANGED subEvent
    /\ UNCHANGED <<subRecord, subCall, subOut, subParent, subCancel, subTriggers,
                   subTodo, subListed, subFaulty, subRan>>

SubBegin(t) ==
    /\ subWorker[t] = "begin"
    /\ SubSave(t, "running")
    /\ subRan' = [subRan EXCEPT ![t] = @ + 1]
    /\ SubWorkerGoes(t, "exec")
    /\ UNCHANGED <<subFresh, subCandidate, subCall, subOut, subEvent, subParent,
                   subCancel, subTriggers, subTodo, subListed, subFaulty>>

\* The turn ends; finish_assignment seals the candidate of a good one.
SubTurnEnds(t, out) ==
    /\ subWorker[t] = "exec"
    /\ subOut' = [subOut EXCEPT ![t] = out]
    /\ subCandidate' = IF out = "succeeded" /\ ~SubProbe(t)
                       THEN [subCandidate EXCEPT ![t] = "sealed"] ELSE subCandidate
    /\ SubWorkerGoes(t, "decide")
    /\ UNCHANGED <<subStatus, subFresh, subCall, subEvent, subParent, subCancel,
                   subTriggers, subTodo, subListed, subFaulty, subRan>>

\* The last look at the record and the probe ...
SubDecide(t) ==
    /\ subWorker[t] = "decide"
    /\ subOut' = [subOut EXCEPT ![t] = IF SubProbe(t) THEN "cancelled" ELSE @]
    /\ SubWorkerGoes(t, "finish")
    /\ UNCHANGED <<subRecord, subCall, subEvent, subParent, subCancel, subTriggers,
                   subTodo, subListed, subFaulty, subRan>>

\* ... and the save, the release and the dispatch of the dependents.
SubFinish(t) ==
    /\ subWorker[t] = "finish"
    /\ SubSave(t, subOut[t])
    /\ SubReleased(t)
    /\ SubWorkerGoes(t, "none")
    /\ subOut' = [subOut EXCEPT ![t] = "none"]
    /\ subTriggers' = subTriggers \cup {t}
    /\ UNCHANGED <<subFresh, subCandidate, subCall, subParent, subCancel, subTodo,
                   subListed, subFaulty, subRan>>

-----------------------------------------------------------------------------
(* cancel_subagent_task: read, signal, save.                               *)

SubCancelRead(t) ==
    /\ SubFault("cancel")
    /\ t \notin subCancel
    /\ subStatus[t] \in {"created", "running"}
    /\ subCancel' = subCancel \cup {t}
    /\ subEvent' = [subEvent EXCEPT ![t] = TRUE]
    /\ UNCHANGED <<subRecord, subCall, subWorker, subOut, subParent, subTriggers,
                   subTodo, subListed, subRan>>

SubCancelSave(t) ==
    /\ t \in subCancel
    /\ subCancel' = subCancel \ {t}
    /\ SubSave(t, "cancelled")
    /\ subTriggers' = IF SubSaved(t, "cancelled") = "cancelled"
                      THEN subTriggers \cup {t} ELSE subTriggers
    /\ UNCHANGED <<subFresh, subCandidate, subCall, subWorker, subOut, subEvent,
                   subParent, subTodo, subListed, subFaulty, subRan>>

\* The parent turn is cancelled: its check answers every probe.
SubParentCancels ==
    /\ SubFault("parent")
    /\ ~subParent
    /\ subParent' = TRUE
    /\ UNCHANGED <<subRecord, subCall, subWorker, subOut, subEvent, subCancel,
                   subTriggers, subTodo, subListed, subRan>>

-----------------------------------------------------------------------------
(* merge_subagent_result and dispatch_dependents.                          *)

SubMerge(t) ==
    /\ subCandidate[t] = "sealed"
    /\ subCandidate' = [subCandidate EXCEPT ![t] = "integrated"]
    /\ subTriggers' = subTriggers \cup {t}
    /\ UNCHANGED <<subStatus, subFresh, subCall, subWorker, subOut, subEvent,
                   subParent, subCancel, subTodo, subListed, subFaulty, subRan>>

SubDependents(t) ==
    {u \in SubTasks : t \in SubPrereq[u] /\ subStatus[u] = "created"}

SubList(t) ==
    /\ t \in subTriggers
    /\ subTriggers' = subTriggers \ {t}
    /\ subTodo' = subTodo \cup SubDependents(t)
    /\ UNCHANGED <<subRecord, subCall, subWorker, subOut, subEvent, subParent,
                   subCancel, subListed, subFaulty, subRan>>

\* A dependent that fails here passes the failure on.
SubDispatch(u) ==
    /\ u \in subTodo
    /\ subTodo' = subTodo \ {u}
    /\ \E result \in SubResults :
          /\ SubStart(u, result)
          /\ subTriggers' = IF result \in {"failed", "cancelled"}
                            THEN subTriggers \cup {u} ELSE subTriggers
    /\ UNCHANGED <<subCandidate, subCall, subOut, subParent, subCancel, subListed,
                   subRan>>

-----------------------------------------------------------------------------
(* A restart, and reconcile_subagent_tasks after it.                       *)

SubRestart ==
    /\ SubFault("restart")
    /\ subFresh' = [t \in SubTasks |-> FALSE]
    /\ subCall' = {}
    /\ subWorker' = [t \in SubTasks |-> "none"]
    /\ subOut' = [t \in SubTasks |-> "none"]
    /\ subEvent' = [t \in SubTasks |-> FALSE]
    /\ subParent' = FALSE
    /\ subCancel' = {}
    /\ subTriggers' = {} /\ subTodo' = {}
    /\ subListed' = [waiting |-> TRUE, tasks |-> {}]
    /\ UNCHANGED <<subStatus, subCandidate, subRan>>

SubReconcileList ==
    /\ subListed.waiting
    /\ subListed' = [waiting |-> FALSE,
                     tasks   |-> {t \in SubTasks : subStatus[t] \in {"created", "running"}
                                                   /\ ~subFresh[t]}]
    /\ UNCHANGED <<subRecord, subCall, subWorker, subOut, subEvent, subParent,
                   subCancel, subTriggers, subTodo, subFaulty, subRan>>

SubReconcileSave(t) ==
    /\ t \in subListed.tasks
    /\ subListed' = [subListed EXCEPT !.tasks = @ \ {t}]
    /\ SubSave(t, "failed")
    /\ UNCHANGED <<subFresh, subCandidate, subCall, subWorker, subOut, subEvent,
                   subParent, subCancel, subTriggers, subTodo, subFaulty, subRan>>

-----------------------------------------------------------------------------
\* What goes on by itself once it was begun.
SubProgress ==
    \/ \E t \in SubTasks :
          \/ SubCallStart(t)
          \/ SubLoad(t) \/ SubBegin(t) \/ SubDecide(t) \/ SubFinish(t)
          \/ \E out \in {"succeeded", "failed"} : SubTurnEnds(t, out)
          \/ SubCancelSave(t)
          \/ SubList(t) \/ SubDispatch(t)
          \/ SubReconcileSave(t)
    \/ SubReconcileList

SubNext ==
    \/ SubProgress
    \/ \E t \in SubTasks : SubCreate(t) \/ SubCallAgain(t) \/ SubCancelRead(t)
                            \/ SubMerge(t)
    \/ SubParentCancels
    \/ SubRestart

SubSpec == SubInit /\ [][SubNext]_subVars

\* Threads that were started run on.  No step can be repeated for ever, so
\* fairness of all of them together is enough.
SubFairness == WF_subVars(SubProgress)

-----------------------------------------------------------------------------
\* Values of the state; a worker knows its outcome from the end of its turn on.
SubTypeOK ==
    /\ subStatus \in [SubTasks -> {"none", "created", "running"} \cup SubTerminal]
    /\ subFresh \in [SubTasks -> BOOLEAN]
    /\ subCandidate \in [SubTasks -> {"open", "sealed", "integrated"}]
    /\ subCall \subseteq SubTasks
    /\ subWorker \in [SubTasks -> {"none", "load", "begin", "exec", "decide", "finish"}]
    /\ subOut \in [SubTasks -> {"none"} \cup SubTerminal]
    /\ \A t \in SubTasks : (subOut[t] = "none") = (subWorker[t] \notin {"decide", "finish"})
    /\ subEvent \in [SubTasks -> BOOLEAN]
    /\ subParent \in BOOLEAN
    /\ subCancel \cup subTriggers \cup subTodo \subseteq SubTasks
    /\ subListed \in [waiting : BOOLEAN, tasks : SUBSET SubTasks]
    /\ subFaulty \in 0..MaxSubFaults
    /\ subRan \in [SubTasks -> Nat]

\* save_subagent "retains the first durable terminal result": whoever is
\* late (the worker after a cancel, the cancel after the worker, the
\* reconciler after both) changes nothing, although none of them looks.
FirstTerminalStands ==
    [][\A t \in SubTasks :
          subStatus[t] \in SubTerminal => subStatus'[t] = subStatus[t]]_subVars

\* start_subagent_task runs a task "exactly once": the tool call, the
\* dispatcher and a restart never execute it a second time.
ExecutedOnce == \A t \in SubTasks : subRan[t] <= 1

\* A queued task whose prerequisites are all integrated; it is started, whichever
\* of its own start call and their dispatch comes first.
DependentWaits == \E t \in SubTasks : subStatus[t] = "created" /\ SubAvailable(t)
=============================================================================
