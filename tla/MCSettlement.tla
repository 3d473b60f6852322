---------------------------- MODULE MCSettlement ----------------------------
(***************************************************************************)
(* One instance for TLC of what many parties settle: the ledger's entry of *)
(* a write, the frozen call that waits for a decision, and the rows of the *)
(* knowledge base.  They share no state: a behaviour is a behaviour of one *)
(* of them, and the others stay as they began.                             *)
(***************************************************************************)
EXTENDS Approval, OperationLedger, Knowledge, TLC

VARIABLE component  \* the one that moves

settlementVars == <<component, vars, ledgerVars, kvars>>

SettlementInit ==
    /\ component \in {"approval", "ledger", "knowledge"}
    /\ Init /\ LedgerInit /\ KnowledgeInit

SettlementNext ==
    /\ IF component = "approval" THEN Next ELSE UNCHANGED vars
    /\ IF component = "ledger" THEN LedgerNext ELSE UNCHANGED ledgerVars
    /\ IF component = "knowledge" THEN KnowledgeNext ELSE UNCHANGED kvars
    /\ UNCHANGED component

SettlementSpec == SettlementInit /\ [][SettlementNext]_settlementVars

\* The type invariants of those the other runs do not have.
SettlementTypeOK == LedgerTypeOK /\ KnowledgeTypeOK

\* Frozen calls are interchangeable, and so are the requests that decide them.
FrozenSymmetry == Permutations(AppOps) \cup Permutations(Requests)
=============================================================================
