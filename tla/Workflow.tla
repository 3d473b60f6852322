------------------------------ MODULE Workflow ------------------------------
(***************************************************************************)
(* A workflow run (workflows/service.py): the executor that works through  *)
(* the layers of a saved DAG and writes the whole run record after every   *)
(* group of nodes, the cancel request that writes the whole record it      *)
(* read, the cancellation of the job behind the run, and the deletion of   *)
(* the workflow with its runs.                                             *)
(*                                                                         *)
(* _save_run merges one thing under the record's lock, the cancel flag;    *)
(* everything else is the last writer's.                                   *)
(***************************************************************************)
EXTENDS Naturals, FiniteSets

CONSTANTS
    WfNodes,    \* node ids, in the order in which a layer is sorted
    WfDeps,     \* depends_on
    WfReads,    \* nodes whose call is read-only
    WfFaults    \* which of "cancel", "jobCancel", "delete", "die" may happen

\* The last: _execution_layers raises "workflow graph contains a cycle" otherwise.
ASSUME WfAssumption ==
    /\ WfNodes \subseteq Nat /\ WfReads \subseteq WfNodes
    /\ WfDeps \in [WfNodes -> SUBSET WfNodes]
    /\ \A N \in SUBSET WfNodes : N # {} => \E n \in N : WfDeps[n] \cap N = {}
    /\ WfFaults \subseteq {"cancel", "jobCancel", "delete", "die"}

VARIABLES
    wfDefinition,  \* does the definition exist?
    wfRun,         \* the run record
    wfMem,         \* the executor's copy of it
    wfPc,          \* the executor
    wfOk,          \* dependency_outcomes: settled and good nodes; did one fail?
    wfLeft,        \* runnable nodes of the layer that have not begun
    wfBusy,        \* nodes being executed
    wfJobCancel,   \* cancel_requested of the job
    wfCancel,      \* the cancel request: the record it read
    wfDelete,      \* the delete request: its place, and the runs it listed
    wfExecuted     \* history: nodes that were begun

wfExecutor == <<wfMem, wfPc, wfOk, wfLeft, wfBusy, wfExecuted>>
wfVars == <<wfDefinition, wfRun, wfExecutor, wfJobCancel, wfCancel, wfDelete>>

NoRun == [status |-> "none", nodes |-> {}, cancel |-> FALSE]

WfInit ==
    /\ wfDefinition = TRUE
    /\ wfRun = NoRun /\ wfMem = NoRun
    /\ wfPc = "idle"
    /\ wfOk = [settled |-> {}, good |-> {}, failed |-> FALSE]
    /\ wfLeft = {} /\ wfBusy = {}
    /\ wfJobCancel = FALSE
    /\ wfCancel = NoRun
    /\ wfDelete = [pc |-> "idle", run |-> FALSE]
    /\ wfExecuted = {}

\* _save_run: the record as given, with the durable cancel flag kept.
WfSaved_plain(record) == record

WfSaved(record) == [record EXCEPT !.cancel = @ \/ wfRun.cancel]

-----------------------------------------------------------------------------
(* execute_workflow.                                                       *)

WfLoad ==
    /\ wfPc = "idle" /\ wfDefinition /\ wfRun = NoRun /\ wfMem = NoRun
    /\ wfPc' = "start"
    /\ UNCHANGED <<wfDefinition, wfRun, wfMem, wfOk, wfLeft, wfBusy, wfJobCancel,
                   wfCancel, wfDelete, wfExecuted>>

WfBegin ==
    /\ wfPc = "start"
    /\ wfMem' = [NoRun EXCEPT !.status = "running"]
    /\ wfRun' = WfSaved(wfMem')
    /\ wfPc' = "layer"
    /\ UNCHANGED <<wfDefinition, wfOk, wfLeft, wfBusy, wfJobCancel, wfCancel,
                   wfDelete, wfExecuted>>

\* The next layer: the nodes whose dependencies are all in earlier ones.
WfLayer == {n \in WfNodes \ wfOk.settled : WfDeps[n] \subseteq wfOk.settled}

WfRunnable_any(layer) == layer

WfRunnable(layer) == {n \in layer : WfDeps[n] \subseteq wfOk.good}

\* Between two layers: a cancellation ends the run, and a node with a failed
\* dependency is recorded as skipped.
WfNextLayer ==
    /\ wfPc = "layer" /\ WfLayer # {}
    /\ IF wfRun.cancel \/ wfJobCancel
       THEN /\ wfMem' = [wfMem EXCEPT !.status = "cancelled"]
            /\ wfPc' = "finish"
            /\ UNCHANGED <<wfRun, wfOk, wfLeft>>
       ELSE LET run  == WfRunnable(WfLayer)
                skip == WfLayer \ run
            IN  /\ wfMem' = [wfMem EXCEPT !.nodes = @ \cup skip]
                /\ wfRun' = IF skip = {} THEN wfRun ELSE WfSaved(wfMem')
                /\ wfOk' = [wfOk EXCEPT !.settled = @ \cup skip]
                /\ wfLeft' = run
                /\ wfPc' = IF run = {} THEN "layer" ELSE "group"
    /\ UNCHANGED <<wfDefinition, wfBusy, wfJobCancel, wfCancel, wfDelete, wfExecuted>>

\* The next group: consecutive reads together, a write by itself.
WfHead == CHOOSE n \in wfLeft : \A m \in wfLeft : n <= m

WfGroup_offByOne == {n \in wfLeft : n # WfHead /\ n \in WfReads}

WfGroup ==
    IF WfHead \notin WfReads THEN {WfHead}
    ELSE {n \in wfLeft : \A m \in wfLeft : m <= n => m \in WfReads}

WfStartGroup ==
    /\ wfPc = "group" /\ wfLeft # {}
    /\ wfBusy' = WfGroup
    /\ wfLeft' = wfLeft \ wfBusy'
    /\ wfExecuted' = wfExecuted \cup wfBusy'
    /\ wfPc' = "exec"
    /\ UNCHANGED <<wfDefinition, wfRun, wfMem, wfOk, wfJobCancel, wfCancel, wfDelete>>

\* The group ends: some nodes succeeded, some were skipped by their own
\* condition, the others failed.  Every result is noted and the record saved.
WfEndGroup(good, skipped) ==
    /\ wfPc = "exec"
    /\ wfMem' = [wfMem EXCEPT !.nodes = @ \cup wfBusy]
    /\ wfRun' = WfSaved(wfMem')
    /\ wfOk' = [settled |-> wfOk.settled \cup wfBusy, good |-> wfOk.good \cup good,
                failed |-> wfOk.failed \/ wfBusy # good \cup skipped]
    /\ wfBusy' = {}
    /\ wfPc' = IF wfLeft = {} THEN "layer" ELSE "group"
    /\ UNCHANGED <<wfDefinition, wfLeft, wfJobCancel, wfCancel, wfDelete, wfExecuted>>

WfFinish ==
    /\ \/ wfPc = "finish"
       \/ wfPc = "layer" /\ WfLayer = {}
    /\ wfMem' = [wfMem EXCEPT !.status =
                   IF wfPc = "finish" THEN @
                   ELSE IF wfOk.failed THEN "failed" ELSE "succeeded"]
    /\ wfRun' = WfSaved(wfMem')
    /\ wfPc' = "done"
    /\ UNCHANGED <<wfDefinition, wfOk, wfLeft, wfBusy, wfJobCancel, wfCancel,
                   wfDelete, wfExecuted>>

\* The executing process dies; nothing resumes or closes the run.
WfDies ==
    /\ "die" \in WfFaults
    /\ wfPc \notin {"idle", "done"}
    /\ wfPc' = "done"
    /\ wfBusy' = {}
    /\ UNCHANGED <<wfDefinition, wfRun, wfMem, wfOk, wfLeft, wfJobCancel, wfCancel,
                   wfDelete, wfExecuted>>

-----------------------------------------------------------------------------
(* cancel_run: read, and write the record back with the flag.              *)

WfCancelRead ==
    /\ "cancel" \in WfFaults
    /\ wfCancel = NoRun
    /\ wfRun.status = "running" /\ ~wfRun.cancel
    /\ wfCancel' = wfRun
    /\ UNCHANGED <<wfDefinition, wfRun, wfExecutor, wfJobCancel, wfDelete>>

WfCancelSave ==
    /\ wfCancel # NoRun
    /\ wfRun' = WfSaved([wfCancel EXCEPT !.cancel = TRUE])
    /\ wfCancel' = NoRun
    /\ UNCHANGED <<wfDefinition, wfExecutor, wfJobCancel, wfDelete>>

WfCancelJob ==
    /\ "jobCancel" \in WfFaults
    /\ ~wfJobCancel /\ wfPc \notin {"idle", "done"}
    /\ wfJobCancel' = TRUE
    /\ UNCHANGED <<wfDefinition, wfRun, wfExecutor, wfCancel, wfDelete>>

-----------------------------------------------------------------------------
(* delete_workflow: list the runs, remove the definition, remove the runs. *)

WfDeletable == wfRun.status \notin {"queued", "running"}

WfDeleteList ==
    /\ "delete" \in WfFaults
    /\ wfDelete.pc = "idle" /\ wfDefinition
    /\ WfDeletable
    /\ wfDelete' = [pc |-> "definition", run |-> wfRun # NoRun]
    /\ UNCHANGED <<wfDefinition, wfRun, wfExecutor, wfJobCancel, wfCancel>>

WfDeleteDefinition ==
    /\ wfDelete.pc = "definition"
    /\ wfDefinition' = FALSE
    /\ wfDelete' = [wfDelete EXCEPT !.pc = IF wfDelete.run THEN "runs" ELSE "done"]
    /\ UNCHANGED <<wfRun, wfExecutor, wfJobCancel, wfCancel>>

WfDeleteRun ==
    /\ wfDelete.pc = "runs"
    /\ wfRun' = NoRun
    /\ wfDelete' = [wfDelete EXCEPT !.pc = "done"]
    /\ UNCHANGED <<wfDefinition, wfExecutor, wfJobCancel, wfCancel>>

-----------------------------------------------------------------------------
WfExecute ==
    \/ WfBegin \/ WfNextLayer \/ WfStartGroup \/ WfFinish
    \/ \E good \in SUBSET wfBusy : \E skipped \in SUBSET (wfBusy \ good) :
          WfEndGroup(good, skipped)

WfNext ==
    \/ WfLoad \/ WfExecute \/ WfDies
    \/ WfCancelRead \/ WfCancelSave \/ WfCancelJob
    \/ WfDeleteList \/ WfDeleteDefinition \/ WfDeleteRun

WfSpec == WfInit /\ [][WfNext]_wfVars

-----------------------------------------------------------------------------
\* Values of the state; nodes run only inside a group.
WfTypeOK ==
    /\ wfDefinition \in BOOLEAN
    /\ {wfRun, wfMem, wfCancel} \subseteq
          [status : {"none", "running", "succeeded", "failed", "cancelled"},
           nodes : SUBSET WfNodes, cancel : BOOLEAN]
    /\ wfPc \in {"idle", "start", "layer", "group", "exec", "finish", "done"}
    /\ wfOk \in [settled : SUBSET WfNodes, good : SUBSET WfNodes, failed : BOOLEAN]
    /\ wfOk.good \subseteq wfOk.settled
    /\ wfLeft \subseteq WfNodes /\ wfBusy \subseteq WfNodes
    /\ (wfBusy # {}) = (wfPc = "exec")
    /\ wfJobCancel \in BOOLEAN
    /\ wfDelete \in [pc : {"idle", "definition", "runs", "done"}, run : BOOLEAN]
    /\ wfExecuted \subseteq WfNodes

\* The order of a run, through all its layers and whichever nodes fail:
\* "it never executes a node whose declared dependency failed or was skipped":
\* through all layers, a tool is called only after every node it needs;
\* "Writes remain ordering barriers, even when the saved DAG did not declare a
\* dependency": a write never runs beside another node;
\* and what the executor reports at the end covers every node: each was executed
\* or recorded as skipped, unless the run was cancelled or its process died.
RunsInOrder ==
    /\ \A n \in wfExecuted : WfDeps[n] \subseteq wfOk.good
    /\ \A n \in wfBusy : n \notin WfReads => wfBusy = {n}
    /\ wfMem.status \in {"succeeded", "failed"} => wfMem.nodes = WfNodes

\* "Cancellation is a monotonic signal": once it is in the record, no save of
\* the executor, of another request or of a stale copy takes it out again.
CancelSticks ==
    [][wfRun.cancel /\ wfRun' # NoRun => wfRun'.cancel]_wfVars

\* A run the executor has finished stays finished.
RunStaysFinished ==
    [][wfRun.status \in {"succeeded", "failed", "cancelled"}
          => wfRun'.status \in {wfRun.status, "none"}]_wfVars
=============================================================================
