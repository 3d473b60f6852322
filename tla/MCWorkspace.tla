----------------------------- MODULE MCWorkspace -----------------------------
(***************************************************************************)
(* One instance for TLC of the components around the records of a          *)
(* workspace.  They share no state: a behaviour is a behaviour of one of   *)
(* them, and the others stay as they began.                                *)
(***************************************************************************)
EXTENDS Approval, Workflow, CodingCandidate, Memory, ManagedFiles, TLC

VARIABLE component  \* the one that moves

NodeDeps == 1 :> {} @@ 2 :> {} @@ 3 :> {} @@ 4 :> {1, 2}

Components == {"approval", "workflow", "candidate", "memory", "files"}

workspaceVars == <<component, vars, wfVars, candVars, memVars, fileVars>>

WorkspaceInit ==
    /\ component \in Components
    /\ Init /\ WfInit /\ CandInit /\ MemInit /\ FileInit
    /\ component # "memory" => ~mdomain.key  \* one way for it to stand still

\* Every component may come to rest.
Rest == UNCHANGED workspaceVars

WorkspaceStep ==
    /\ IF component = "approval" THEN Next ELSE UNCHANGED vars
    /\ IF component = "workflow" THEN WfNext ELSE UNCHANGED wfVars
    /\ IF component = "candidate" THEN CandNext ELSE UNCHANGED candVars
    /\ IF component = "memory" THEN MemNext ELSE UNCHANGED memVars
    /\ IF component = "files" THEN FileNext ELSE UNCHANGED fileVars
    /\ UNCHANGED component

WorkspaceNext == WorkspaceStep \/ Rest

\* The fairness of Approval, while it is the component that moves.
WorkspaceFairness ==
    /\ \A t \in AppTurns :
          /\ WF_vars(component = "approval" /\ \E o \in AppOps : Attach(t, o))
          /\ WF_vars(component = "approval" /\ Resume(t))
          /\ WF_vars(component = "approval" /\ SettleContinuation(t))
    /\ \A r \in Requests : WF_vars(component = "approval" /\ RequestStep(r))

WorkspaceSpec == WorkspaceInit /\ [][WorkspaceNext]_workspaceVars /\ WorkspaceFairness

\* The type invariants of the components, in one.
WorkspaceTypeOK == TypeOK /\ WfTypeOK /\ CandTypeOK /\ MemTypeOK /\ FileTypeOK
=============================================================================
