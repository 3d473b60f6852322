---------------------------- MODULE MCExtensions ----------------------------
(***************************************************************************)
(* One instance for TLC of the job pipeline with retries, of the operation *)
(* ledger of backend turns, of a drawing of the network extension and of   *)
(* the deletion of a session.  They share no state: a behaviour is a       *)
(* behaviour of one of them, and the others stay as they began.            *)
(***************************************************************************)
EXTENDS JobQueue, OperationLedger, Drawing, SessionRecord, TLC

CONSTANTS n1, l1    \* a node of the drawing, and a link

VARIABLE component  \* the one that moves

Ends == l1 :> {n1}
UserValues == l1 :> {"mine"} @@ n1 :> {"mine", Gone}
AgentValues == l1 :> {} @@ n1 :> {"agent", Gone}

Components == {"jobs", "ledger", "drawing", "session"}

extensionVars == <<component, vars, ledgerVars, drawVars, srecVars>>

ExtensionInit ==
    component \in Components /\ Init /\ LedgerInit /\ DrawInit /\ SrecInit

\* All may come to rest.
Rest == UNCHANGED extensionVars

ExtensionStep ==
    /\ IF component = "jobs" THEN Next ELSE UNCHANGED vars
    /\ IF component = "ledger" THEN LedgerNext ELSE UNCHANGED ledgerVars
    /\ IF component = "drawing" THEN DrawNext ELSE UNCHANGED drawVars
    /\ IF component = "session" THEN SrecNext ELSE UNCHANGED srecVars
    /\ UNCHANGED component

ExtensionNext == ExtensionStep \/ Rest

ExtensionSpec == ExtensionInit /\ [][ExtensionNext]_extensionVars

\* Operations are interchangeable, and so are the turns of one process.
ExtensionSymmetry == {f @@ g : f \in Permutations(Ops), g \in Permutations(Turns)}

\* The type invariant of the component that moves.
ExtensionTypeOK ==
    CASE component = "jobs" -> TypeOK
      [] component = "ledger" -> LedgerTypeOK
      [] component = "drawing" -> DrawTypeOK
      [] component = "session" -> SrecTypeOK
=============================================================================
