-------------------------- MODULE Workspace_proofs --------------------------
(***************************************************************************)
(* Proofs about the records of a workspace: the candidate of a coding task *)
(* (CodingCandidate), workflow runs (Workflow), the changes that a user    *)
(* approves (Approval) and governed memory (Memory), for any sets of       *)
(* reviews, files, nodes, operations, turns, requests and memories and any *)
(* number of faults; and what follows for the instance that MCWorkspace    *)
(* makes of them and of the managed files.                                 *)
(***************************************************************************)
EXTENDS MCWorkspace, ManagedFiles_proofs, WellFoundedInduction, TLAPS

-----------------------------------------------------------------------------
(* Workflow runs: types and order.                                         *)

WfRuns ==
    [status : {"none", "running", "succeeded", "failed", "cancelled"},
     nodes  : SUBSET WfNodes, cancel : BOOLEAN]

WfRecordTypes == wfRun \in WfRuns /\ wfMem \in WfRuns /\ wfCancel \in WfRuns

WfNodeTypes ==
    /\ wfOk \in [settled : SUBSET WfNodes, good : SUBSET WfNodes, failed : BOOLEAN]
    /\ wfLeft \subseteq WfNodes /\ wfBusy \subseteq WfNodes /\ wfExecuted \subseteq WfNodes

WfFlagTypes ==
    /\ wfDefinition \in BOOLEAN /\ wfJobCancel \in BOOLEAN
    /\ wfPc \in {"idle", "start", "layer", "group", "exec", "finish", "done"}
    /\ wfDelete \in [pc : {"idle", "definition", "runs", "done"}, run : BOOLEAN]

\* Nodes that were begun or are about to be have all they depend on, a group
\* is of reads or one write, the executor's record lists what is settled, and it
\* reports an outcome only at its end and of every node.
WfOrder ==
    /\ wfOk.good \subseteq wfOk.settled
    /\ (wfBusy # {}) = (wfPc = "exec")
    /\ wfBusy \subseteq wfExecuted
    /\ \A n \in wfExecuted \cup wfLeft : WfDeps[n] \subseteq wfOk.good
    /\ \A n \in wfBusy : n \notin WfReads => wfBusy = {n}
    /\ wfPc \in {"idle", "start"} => wfOk.settled = {}
    /\ wfMem.nodes = wfOk.settled
    /\ wfMem.status \in {"succeeded", "failed"} => wfPc = "done" /\ wfMem.nodes = WfNodes

WfInv == WfRecordTypes /\ WfNodeTypes /\ WfFlagTypes /\ WfOrder

LEMMA WfInitInv == WfInit => WfInv
<1> SUFFICES ASSUME WfInit PROVE WfInv
  OBVIOUS
<1> USE DEF WfInit
<1>1. WfRecordTypes
  BY DEF WfRecordTypes, WfRuns, NoRun
<1>2. WfNodeTypes /\ WfFlagTypes
  BY DEF WfNodeTypes, WfFlagTypes
<1>3. WfOrder
  BY DEF WfOrder, NoRun
<1> QED BY <1>1, <1>2, <1>3 DEF WfInv

\* _save_run keeps the record it is given, but for the cancel flag.
LEMMA WfSavedKeeps ==
  ASSUME WfRecordTypes, NEW record \in WfRuns
  PROVE  /\ WfSaved(record) \in WfRuns
         /\ WfSaved(record).cancel = (record.cancel \/ wfRun.cancel)
  BY DEF WfRecordTypes, WfRuns, WfSaved

\* Nodes that all have a prerequisite outside the settled ones would be a cycle.
LEMMA LayersCoverNodes ==
  ASSUME WfNodeTypes, WfLayer = {}
  PROVE  wfOk.settled = WfNodes
<1>1. wfOk.settled \subseteq WfNodes
  BY DEF WfNodeTypes
<1>2. ASSUME WfNodes \ wfOk.settled # {} PROVE FALSE
  <2>1. PICK n \in WfNodes \ wfOk.settled : WfDeps[n] \cap (WfNodes \ wfOk.settled) = {}
    BY <1>2, WfAssumption
  <2>2. WfDeps[n] \subseteq wfOk.settled
    BY <2>1, WfAssumption
  <2> QED BY <2>1, <2>2 DEF WfLayer
<1> QED BY <1>1, <1>2

\* The group that begins is not empty, part of what is left, and one node unless
\* all of it are reads.
LEMMA WfGroupShape ==
  ASSUME wfLeft \subseteq WfNodes, wfLeft # {}
  PROVE  /\ WfGroup # {} /\ WfGroup \subseteq wfLeft
         /\ \A n \in WfGroup : n \notin WfReads => WfGroup = {n}
<1>1. \E n \in wfLeft : \A m \in wfLeft : n <= m
  <2>1. wfLeft \subseteq Nat
    BY WfAssumption
  <2>2. PICK n \in wfLeft : \A m \in wfLeft : <<m, n>> \notin OpToRel(<, Nat)
    BY <2>1, NatLessThanWellFounded, WFMin
  <2>3. \A m \in wfLeft : ~(m < n)
    BY <2>1, <2>2 DEF OpToRel
  <2> QED BY <2>1, <2>3
<1>2. WfHead \in wfLeft /\ \A m \in wfLeft : WfHead <= m
  BY <1>1 DEF WfHead
<1>3. CASE WfHead \notin WfReads
  BY <1>2, <1>3 DEF WfGroup
<1>4. CASE WfHead \in WfReads
  <2>1. \A m \in wfLeft : m <= WfHead => m = WfHead
    BY <1>2, WfAssumption
  <2>2. WfGroup = {n \in wfLeft : \A m \in wfLeft : m <= n => m \in WfReads}
    BY <1>4 DEF WfGroup
  <2>3. WfHead \in WfGroup
    BY <1>2, <1>4, <2>1, <2>2
  <2>4. \A n \in WfGroup : n \in WfReads
    BY <2>2, WfAssumption
  <2> QED BY <2>2, <2>3, <2>4
<1> QED BY <1>3, <1>4

\* The executor's copy after each of its steps.
LEMMA WfMemStep == WfInv /\ [WfNext]_wfVars => wfMem' \in WfRuns
<1> SUFFICES ASSUME WfInv, [WfNext]_wfVars PROVE wfMem' \in WfRuns
  OBVIOUS
<1> USE DEF WfInv, WfRecordTypes, WfRuns
<1>1. ASSUME WfBegin PROVE wfMem' \in WfRuns
  BY <1>1 DEF WfBegin, NoRun
<1>2. ASSUME WfNextLayer PROVE wfMem' \in WfRuns
  <2>1. [wfMem EXCEPT !.status = "cancelled"] \in WfRuns
    OBVIOUS
  <2>2. \A N \in SUBSET WfNodes : [wfMem EXCEPT !.nodes = @ \cup N] \in WfRuns
    OBVIOUS
  <2>3. WfLayer \ WfRunnable(WfLayer) \in SUBSET WfNodes
    BY DEF WfLayer
  <2>4. \/ wfMem' = [wfMem EXCEPT !.status = "cancelled"]
        \/ wfMem' = [wfMem EXCEPT !.nodes = @ \cup (WfLayer \ WfRunnable(WfLayer))]
    BY <1>2 DEF WfNextLayer
  <2> QED BY <2>1, <2>2, <2>3, <2>4
<1>3. ASSUME NEW good, NEW skipped, WfEndGroup(good, skipped) PROVE wfMem' \in WfRuns
  BY <1>3 DEF WfEndGroup, WfNodeTypes
<1>4. ASSUME WfFinish PROVE wfMem' \in WfRuns
  BY <1>4 DEF WfFinish
<1>5. CASE UNCHANGED wfMem
  BY <1>5
<1> QED
  BY <1>1, <1>2, <1>3, <1>4, <1>5
  DEF WfNext, WfLoad, WfExecute, WfStartGroup, WfDies, WfCancelRead, WfCancelSave,
      WfCancelJob, WfDeleteList, WfDeleteDefinition, WfDeleteRun, wfExecutor, wfVars

\* Every writer of the run record goes through _save_run or removes it.
LEMMA WfRunEffect ==
  ASSUME WfInv, [WfNext]_wfVars
  PROVE  \/ UNCHANGED wfRun \/ wfRun' = NoRun
         \/ \E record \in WfRuns : wfRun' = WfSaved(record)
<1>0. wfMem' \in WfRuns
  BY WfMemStep
<1>1. ASSUME WfExecute PROVE wfRun' = wfRun \/ wfRun' = WfSaved(wfMem')
  BY <1>1 DEF WfExecute, WfBegin, WfNextLayer, WfStartGroup, WfEndGroup, WfFinish
<1>2. ASSUME WfCancelSave PROVE \E record \in WfRuns : wfRun' = WfSaved(record)
  <2>1. [wfCancel EXCEPT !.cancel = TRUE] \in WfRuns
    BY DEF WfInv, WfRecordTypes, WfRuns
  <2> QED BY <1>2, <2>1 DEF WfCancelSave
<1>3. ASSUME WfDeleteRun PROVE wfRun' = NoRun
  BY <1>3 DEF WfDeleteRun
<1> QED
  BY <1>0, <1>1, <1>2, <1>3
  DEF WfNext, WfLoad, WfDies, WfCancelRead, WfCancelJob, WfDeleteList,
      WfDeleteDefinition, wfVars

LEMMA WfRecordStep == WfInv /\ [WfNext]_wfVars => WfRecordTypes'
<1> SUFFICES ASSUME WfInv, [WfNext]_wfVars PROVE WfRecordTypes'
  OBVIOUS
<1> USE DEF WfInv, WfRecordTypes
<1>1. NoRun \in WfRuns
  BY DEF NoRun, WfRuns
<1>2. wfRun' \in WfRuns
  BY <1>1, WfRunEffect, WfSavedKeeps
<1>3. wfCancel' \in WfRuns
  BY <1>1
  DEF WfNext, WfLoad, WfExecute, WfBegin, WfNextLayer, WfStartGroup, WfEndGroup,
      WfFinish, WfDies, WfCancelRead, WfCancelSave, WfCancelJob, WfDeleteList,
      WfDeleteDefinition, WfDeleteRun, wfVars
<1> QED BY <1>2, <1>3, WfMemStep

LEMMA WfNodeStep == WfInv /\ [WfNext]_wfVars => WfNodeTypes'
<1> SUFFICES ASSUME WfInv, [WfNext]_wfVars PROVE WfNodeTypes'
  OBVIOUS
<1> USE DEF WfInv, WfNodeTypes
<1>1. ASSUME WfNextLayer PROVE WfNodeTypes'
  <2>1. WfLayer \subseteq WfNodes /\ WfRunnable(WfLayer) \subseteq WfLayer
    BY DEF WfLayer, WfRunnable
  <2>2. wfOk' \in [settled : SUBSET WfNodes, good : SUBSET WfNodes, failed : BOOLEAN]
    BY <1>1, <2>1 DEF WfNextLayer
  <2> QED BY <1>1, <2>1, <2>2 DEF WfNextLayer
<1>2. ASSUME WfStartGroup PROVE WfNodeTypes'
  BY <1>2, WfGroupShape DEF WfStartGroup
<1>3. ASSUME NEW good \in SUBSET wfBusy, NEW skipped, WfEndGroup(good, skipped)
      PROVE  WfNodeTypes'
  <2>1. wfOk' \in [settled : SUBSET WfNodes, good : SUBSET WfNodes, failed : BOOLEAN]
    BY <1>3 DEF WfEndGroup
  <2> QED BY <1>3, <2>1 DEF WfEndGroup
<1>4. ASSUME WfDies PROVE WfNodeTypes'
  BY <1>4 DEF WfDies
<1>5. CASE UNCHANGED <<wfOk, wfLeft, wfBusy, wfExecuted>>
  BY <1>5
<1> QED
  BY <1>1, <1>2, <1>3, <1>4, <1>5
  DEF WfNext, WfLoad, WfExecute, WfBegin, WfFinish, WfCancelRead, WfCancelSave,
      WfCancelJob, WfDeleteList, WfDeleteDefinition, WfDeleteRun, wfExecutor, wfVars

LEMMA WfFlagStep == WfInv /\ [WfNext]_wfVars => WfFlagTypes'
<1> SUFFICES ASSUME WfInv, [WfNext]_wfVars PROVE WfFlagTypes'
  OBVIOUS
<1> USE DEF WfInv, WfFlagTypes
<1>1. wfPc' \in {"idle", "start", "layer", "group", "exec", "finish", "done"}
  BY DEF WfNext, WfLoad, WfExecute, WfBegin, WfNextLayer, WfStartGroup, WfEndGroup,
         WfFinish, WfDies, WfCancelRead, WfCancelSave, WfCancelJob, WfDeleteList,
         WfDeleteDefinition, WfDeleteRun, wfExecutor, wfVars
<1>2. wfDelete' \in [pc : {"idle", "definition", "runs", "done"}, run : BOOLEAN]
  <2>1. CASE WfDeleteList
    BY <2>1 DEF WfDeleteList
  <2>2. CASE WfDeleteDefinition
    BY <2>2 DEF WfDeleteDefinition
  <2>3. CASE WfDeleteRun
    BY <2>3 DEF WfDeleteRun
  <2>4. CASE UNCHANGED wfDelete
    BY <2>4
  <2> QED
    BY <2>1, <2>2, <2>3, <2>4
    DEF WfNext, WfLoad, WfExecute, WfBegin, WfNextLayer, WfStartGroup, WfEndGroup,
        WfFinish, WfDies, WfCancelRead, WfCancelSave, WfCancelJob, wfVars
<1>3. wfDefinition' \in BOOLEAN /\ wfJobCancel' \in BOOLEAN
  BY DEF WfNext, WfLoad, WfExecute, WfBegin, WfNextLayer, WfStartGroup, WfEndGroup,
         WfFinish, WfDies, WfCancelRead, WfCancelSave, WfCancelJob, WfDeleteList,
         WfDeleteDefinition, WfDeleteRun, wfVars
<1> QED BY <1>1, <1>2, <1>3

LEMMA WfOrderStep == WfInv /\ [WfNext]_wfVars => WfOrder'
<1> SUFFICES ASSUME WfInv, [WfNext]_wfVars PROVE WfOrder'
  OBVIOUS
<1> USE DEF WfInv
<1>0. wfMem.status \in {"none", "running", "succeeded", "failed", "cancelled"}
      /\ DOMAIN wfMem = {"status", "nodes", "cancel"}
  BY DEF WfRecordTypes, WfRuns
<1>1. ASSUME WfLoad PROVE WfOrder'
  BY <1>1 DEF WfLoad, WfOrder
<1>2. ASSUME WfBegin PROVE WfOrder'
  BY <1>2 DEF WfBegin, NoRun, WfOrder
<1>3. ASSUME WfNextLayer PROVE WfOrder'
  <2>1. CASE wfMem' = [wfMem EXCEPT !.status = "cancelled"] /\ wfPc' = "finish"
             /\ UNCHANGED <<wfOk, wfLeft>>
    BY <1>0, <1>3, <2>1 DEF WfNextLayer, WfOrder
  <2>2. CASE /\ wfMem' = [wfMem EXCEPT !.nodes = @ \cup (WfLayer \ WfRunnable(WfLayer))]
             /\ wfOk' = [wfOk EXCEPT !.settled = @ \cup (WfLayer \ WfRunnable(WfLayer))]
             /\ wfLeft' = WfRunnable(WfLayer) /\ wfPc' \in {"layer", "group"}
    <3>1. /\ wfMem'.nodes = wfMem.nodes \cup (WfLayer \ WfRunnable(WfLayer))
          /\ wfMem'.status = wfMem.status
      BY <1>0, <2>2
    <3>2. /\ wfOk'.settled = wfOk.settled \cup (WfLayer \ WfRunnable(WfLayer))
          /\ wfOk'.good = wfOk.good
      BY <2>2 DEF WfNodeTypes
    <3>3. \A n \in wfLeft' : WfDeps[n] \subseteq wfOk.good
      BY <2>2 DEF WfRunnable
    <3> QED BY <1>3, <2>2, <3>1, <3>2, <3>3 DEF WfNextLayer, WfOrder
  <2> QED BY <1>3, <2>1, <2>2 DEF WfNextLayer
<1>4. ASSUME WfStartGroup PROVE WfOrder'
  <2>1. /\ WfGroup # {} /\ WfGroup \subseteq wfLeft
        /\ \A n \in WfGroup : n \notin WfReads => WfGroup = {n}
    BY <1>4, WfGroupShape DEF WfStartGroup, WfNodeTypes
  <2> QED BY <1>4, <2>1 DEF WfStartGroup, WfOrder
<1>5. ASSUME NEW good \in SUBSET wfBusy, NEW skipped, WfEndGroup(good, skipped)
      PROVE  WfOrder'
  <2>1. wfMem'.nodes = wfMem.nodes \cup wfBusy /\ wfMem'.status = wfMem.status
    BY <1>0, <1>5 DEF WfEndGroup
  <2>2. wfOk'.settled = wfOk.settled \cup wfBusy /\ wfOk'.good = wfOk.good \cup good
    BY <1>5 DEF WfEndGroup
  <2> QED BY <1>5, <2>1, <2>2 DEF WfEndGroup, WfOrder
<1>6. ASSUME WfFinish PROVE WfOrder'
  <2>1. wfMem'.nodes = wfMem.nodes
    BY <1>0, <1>6 DEF WfFinish
  <2>2. wfMem'.status \in {"succeeded", "failed"} => wfPc # "finish"
    BY <1>0, <1>6 DEF WfFinish, WfOrder
  <2>3. wfPc # "finish" => wfMem.nodes = WfNodes
    BY <1>6, LayersCoverNodes DEF WfFinish, WfOrder
  <2> QED BY <1>6, <2>1, <2>2, <2>3 DEF WfFinish, WfOrder
<1>7. ASSUME WfDies PROVE WfOrder'
  BY <1>7 DEF WfDies, WfOrder
<1>8. CASE UNCHANGED wfExecutor
  BY <1>8 DEF wfExecutor, WfOrder
<1> QED
  BY <1>1, <1>2, <1>3, <1>4, <1>5, <1>6, <1>7, <1>8
  DEF WfNext, WfExecute, WfCancelRead, WfCancelSave, WfCancelJob, WfDeleteList,
      WfDeleteDefinition, WfDeleteRun, wfVars

-----------------------------------------------------------------------------
(* Workflow runs: theorems.                                                *)

LEMMA WfInvariant == WfSpec => []WfInv
<1>1. WfInv /\ [WfNext]_wfVars => WfInv'
  BY WfRecordStep, WfNodeStep, WfFlagStep, WfOrderStep DEF WfInv
<1> QED BY <1>1, WfInitInv, PTL DEF WfSpec

\* service.py keeps the types of run records, executor and requests; nodes are
\* executed only inside a group.
THEOREM WfTypeCorrect == WfSpec => []WfTypeOK
<1>1. WfInv => WfTypeOK
  BY DEF WfInv, WfRecordTypes, WfRuns, WfNodeTypes, WfFlagTypes, WfOrder, WfTypeOK
<1> QED BY <1>1, WfInvariant, PTL

\* A node is executed after all it depends on succeeded, a write by itself, and
\* an outcome covers every node: for any acyclic graph, any number of layers and
\* whichever nodes fail or are skipped.
THEOREM RunsKeepOrder == WfSpec => []RunsInOrder
<1>1. WfInv => RunsInOrder
  BY DEF WfInv, WfOrder, RunsInOrder
<1> QED BY <1>1, WfInvariant, PTL

\* "Cancellation is a monotonic signal": a whole-record write of the executor or of
\* a stale cancel request does not take the flag out of a record that stays.
THEOREM CancelIsMonotonic == WfSpec => CancelSticks
<1>1. ASSUME WfInv, [WfNext]_wfVars, wfRun.cancel, wfRun' # NoRun PROVE wfRun'.cancel
  BY <1>1, WfRunEffect, WfSavedKeeps DEF WfInv
<1>2. WfInv /\ [WfNext]_wfVars
        => [wfRun.cancel /\ wfRun' # NoRun => wfRun'.cancel]_wfVars
  BY <1>1
<1> QED BY <1>2, WfInvariant, PTL DEF WfSpec, CancelSticks

-----------------------------------------------------------------------------
(* A coding candidate: types, locks and what publication rests on.         *)

CandStates ==
    Reviewable \cup PubStates \cup {"building", "validation_failed", "execution_unknown"}

CandRecords ==
    [state         : CandStates,
     ids           : SUBSET CandReviews,
     round         : Nat,
     resolved      : SUBSET CandReviews,
     recoveryRound : Nat,
     accepted      : SUBSET CandReviews]

ReviewRecords ==
    [state   : {"none", "running", "completed", "interrupted", "execution_unknown"},
     outcome : {"none", "pass", "fail", "unknown"},
     round   : Nat]

QaPcs == {"none", "restored", "attach", "record", "judging", "reconcile", "done", "dead"}

PubResults == {"integrated", "rolled_back", "conflict", "unknown", "exception"}

Publishers ==
    [pc : {"idle", "start", "publish", "apply", "readback", "unclear"} \cup PubResults,
     current : BOOLEAN]

CandTypes ==
    /\ cand \in CandRecords
    /\ review \in [CandReviews -> ReviewRecords]
    /\ qa \in [CandReviews -> QaPcs]
    /\ publisher \in Publishers

PubTypes ==
    /\ producer \in BOOLEAN
    /\ journal \in {"none", "applying", "integrated", "rolled_back", "unknown"}
    /\ project \in [CandFiles -> {"before", "after", "other"}]
    /\ candDeaths \in Nat /\ candEdits \in Nat /\ editLost \in BOOLEAN

\* r holds the publication lock to register its review.
Registers(r) == qa[r] \in {"restored", "attach", "record"}

CandLock ==
    /\ pubLock \in {"free", "review", "publish"}
    /\ pubLock = "publish" <=> publisher.pc # "idle"
    /\ pubLock = "review" <=> \E r \in CandReviews : Registers(r)
    /\ \A r, q \in CandReviews : Registers(r) /\ Registers(q) => r = q

\* A review is in the candidate before it has a record; it runs while its worker
\* judges or after its worker died.
ReviewLinks ==
    \A r \in CandReviews :
        /\ review[r].state # "none" => r \in cand.ids
        /\ qa[r] \in {"none", "restored", "attach"} => r \notin cand.ids
        /\ qa[r] = "record" => r \in cand.ids /\ review[r].state = "none"
        /\ qa[r] = "judging" => review[r].state = "running"

\* What is accepted or past acceptance rests on closed reviews of its last round.
Settled ==
    cand.state \in {"accepted"} \cup PubStates =>
        /\ Current(cand) # {}
        /\ \A r \in Current(cand) : GoodReview(r)
        /\ \A r \in cand.ids : review[r].state \notin {"none", "running"}
                               /\ ~Unresolved(r)

\* Where the publisher is, and what it knows by then.
PublisherOK ==
    /\ publisher.pc = "start" => cand.state \in {"accepted", "conflict"}
    /\ publisher.pc \notin {"idle", "start"}
          => cand.state \in {"publishing", "publication_unknown"}
    /\ publisher.pc = "apply"
          => journal = "applying" /\ \A f \in CandFiles : project[f] # "other"
    /\ publisher.pc = "integrated" => journal = "integrated"
    /\ PublicationIsReadBack

CandInv ==
    CandTypes /\ PubTypes /\ CandLock /\ ReviewLinks /\ Settled /\ PublisherOK

LEMMA PubResultIs ==
  /\ DOMAIN PubResult = PubResults
  /\ \A pc \in PubResults : /\ PubResult[pc] \in PubStates
                            /\ PubResult[pc] = "integrated" => pc = "integrated"
                            /\ PubResult[pc] # "publishing"
  BY DEF PubResult, PubResults, PubStates

LEMMA CandInitInv == CandInit => CandInv
<1> SUFFICES ASSUME CandInit PROVE CandInv
  OBVIOUS
<1> USE DEF CandInit
<1>1. cand \in CandRecords
  BY DEF CandRecords, CandStates
<1>2. review \in [CandReviews -> ReviewRecords]
  BY DEF ReviewRecords, NoReview
<1>3. qa \in [CandReviews -> QaPcs] /\ publisher \in Publishers
  BY DEF QaPcs, Publishers
<1>4. PubTypes
  BY DEF PubTypes
<1>5. CandLock /\ ReviewLinks
  BY DEF CandLock, Registers, ReviewLinks, NoReview
<1>6. Settled /\ PublisherOK
  BY DEF Settled, PubStates, PublisherOK, PublicationIsReadBack
<1> QED BY <1>1, <1>2, <1>3, <1>4, <1>5, <1>6 DEF CandInv, CandTypes

-----------------------------------------------------------------------------
(* A coding candidate: what the writers of its record do.                  *)

\* A record with another state, and with another state and acceptance.
LEMMA CandEdited ==
  ASSUME NEW c \in CandRecords, NEW s \in CandStates, NEW A \in SUBSET CandReviews
  PROVE  /\ [c EXCEPT !.state = s] \in CandRecords
         /\ [c EXCEPT !.state = s].state = s
         /\ [c EXCEPT !.state = s].ids = c.ids
         /\ [c EXCEPT !.state = s].round = c.round
         /\ [c EXCEPT !.state = s].resolved = c.resolved
         /\ [c EXCEPT !.state = s].recoveryRound = c.recoveryRound
         /\ [c EXCEPT !.state = s, !.accepted = A]
               = [[c EXCEPT !.state = s] EXCEPT !.accepted = A]
         /\ [c EXCEPT !.state = s, !.accepted = A] \in CandRecords
<1>1. \A d \in CandRecords : [d EXCEPT !.state = s] \in CandRecords
                             /\ [d EXCEPT !.accepted = A] \in CandRecords
  BY DEF CandRecords
<1>2. [c EXCEPT !.state = s, !.accepted = A]
        = [[c EXCEPT !.state = s] EXCEPT !.accepted = A]
  BY DEF CandRecords
<1>3. /\ [c EXCEPT !.state = s].state = s
      /\ [c EXCEPT !.state = s].ids = c.ids
      /\ [c EXCEPT !.state = s].round = c.round
      /\ [c EXCEPT !.state = s].resolved = c.resolved
      /\ [c EXCEPT !.state = s].recoveryRound = c.recoveryRound
  BY DEF CandRecords
<1> QED BY <1>1, <1>2, <1>3

LEMMA JudgedIs == Judged(cand) \in (Reviewable \ {"ready"}) \cup {"execution_unknown"}
  BY DEF Judged, Reviewable

\* reconcile_reviews changes state and acceptance, or nothing at all.
LEMMA ReconcileEffect ==
  ASSUME CandTypes, CandReconcile
  PROVE  \/ UNCHANGED <<cand, publisher>>
         \/ /\ ~Unreconcilable(cand)
            /\ cand' \in CandRecords
            /\ cand'.state = Judged(cand)
            /\ cand'.ids = cand.ids /\ cand'.round = cand.round
            /\ cand'.resolved = cand.resolved
            /\ cand'.recoveryRound = cand.recoveryRound
            /\ publisher' = [publisher EXCEPT !.current = FALSE]
<1>1. CASE Unreconcilable(cand)
  BY <1>1 DEF CandReconcile
<1>2. CASE ~Unreconcilable(cand)
  <2> DEFINE A == IF Judged(cand) = "accepted" THEN Current(cand) ELSE {}
  <2>1. cand' = [cand EXCEPT !.state = Judged(cand), !.accepted = A]
        /\ publisher' = [publisher EXCEPT !.current = FALSE]
    BY <1>2 DEF CandReconcile, CandWrite
  <2>2. cand \in CandRecords
    BY DEF CandTypes
  <2>3. A \in SUBSET CandReviews
    BY <2>2 DEF Current, CandRecords
  <2>4. Judged(cand) \in CandStates
    BY JudgedIs DEF CandStates
  <2> HIDE DEF A
  <2>5. cand' \in CandRecords /\ cand' = [[cand EXCEPT !.state = Judged(cand)]
                                          EXCEPT !.accepted = A]
    BY <2>1, <2>2, <2>3, <2>4, CandEdited
  <2>6. [cand EXCEPT !.state = Judged(cand)] \in CandRecords
    BY <2>2, <2>3, <2>4, CandEdited
  <2>7. \A d \in CandRecords :
           /\ [d EXCEPT !.accepted = A].state = d.state
           /\ [d EXCEPT !.accepted = A].ids = d.ids
           /\ [d EXCEPT !.accepted = A].round = d.round
           /\ [d EXCEPT !.accepted = A].resolved = d.resolved
           /\ [d EXCEPT !.accepted = A].recoveryRound = d.recoveryRound
    BY DEF CandRecords
  <2>8. /\ [cand EXCEPT !.state = Judged(cand)].state = Judged(cand)
        /\ [cand EXCEPT !.state = Judged(cand)].ids = cand.ids
        /\ [cand EXCEPT !.state = Judged(cand)].round = cand.round
        /\ [cand EXCEPT !.state = Judged(cand)].resolved = cand.resolved
        /\ [cand EXCEPT !.state = Judged(cand)].recoveryRound = cand.recoveryRound
    BY <2>2, <2>3, <2>4, CandEdited
  <2> DEFINE d == [cand EXCEPT !.state = Judged(cand)]
  <2>9. /\ cand'.state = d.state /\ cand'.ids = d.ids /\ cand'.round = d.round
        /\ cand'.resolved = d.resolved /\ cand'.recoveryRound = d.recoveryRound
    BY <2>5, <2>6, <2>7
  <2>10. /\ cand'.state = Judged(cand) /\ cand'.ids = cand.ids
         /\ cand'.round = cand.round /\ cand'.resolved = cand.resolved
         /\ cand'.recoveryRound = cand.recoveryRound
    BY <2>8, <2>9
  <2> QED BY <1>2, <2>1, <2>5, <2>10
<1> QED BY <1>1, <1>2

\* start_review: the attached review is one of the candidate's from then on.
LEMMA AttachEffect ==
  ASSUME CandTypes, NEW r \in CandReviews, AttachReview(r)
  PROVE  \/ /\ cand' \in CandRecords
            /\ cand'.state = "under_review"
            /\ cand'.ids = cand.ids \cup {r}
            /\ cand.state \in Reviewable
            /\ qa' = [qa EXCEPT ![r] = "record"]
            /\ publisher' = [publisher EXCEPT !.current = FALSE]
            /\ UNCHANGED pubLock
         \/ /\ pubLock' = "free"
            /\ qa' = [qa EXCEPT ![r] = "done"]
            /\ UNCHANGED <<cand, publisher>>
<1>1. CASE cand.state \notin Reviewable
  BY <1>1 DEF AttachReview
<1>2. CASE cand.state \in Reviewable
  <2>1. PICK n \in Nat : cand' = [cand EXCEPT !.ids = @ \cup {r}, !.round = n,
                                              !.state = "under_review"]
    <3>1. cand.round \in Nat /\ cand.round + 1 \in Nat
      BY DEF CandTypes, CandRecords
    <3> QED BY <1>2, <3>1 DEF AttachReview, CandWrite
  <2>2. cand' = [state |-> "under_review", ids |-> cand.ids \cup {r}, round |-> n,
                 resolved |-> cand.resolved, recoveryRound |-> cand.recoveryRound,
                 accepted |-> cand.accepted]
    BY <2>1 DEF CandTypes, CandRecords
  <2>3. cand' \in CandRecords
    BY <2>2 DEF CandTypes, CandRecords, CandStates, Reviewable
  <2> QED BY <1>2, <2>2, <2>3 DEF AttachReview, CandWrite
<1> QED BY <1>1, <1>2

\* reconcile_execution: the candidate is incomplete again, by its own reviews.
LEMMA ReadBackEffect ==
  ASSUME CandTypes, ReconcileExecution
  PROVE  /\ cand' \in CandRecords
         /\ cand'.state = "review_incomplete"
         /\ cand'.ids = cand.ids
<1>1. cand' = [state |-> "review_incomplete", ids |-> cand.ids, round |-> cand.round,
               resolved |-> {r \in cand.ids : review[r].state = "execution_unknown"},
               recoveryRound |-> cand.round, accepted |-> {}]
  BY DEF ReconcileExecution, CandWrite, CandTypes, CandRecords
<1>2. /\ cand.ids \in SUBSET CandReviews /\ cand.round \in Nat
      /\ {r \in cand.ids : review[r].state = "execution_unknown"} \in SUBSET CandReviews
  BY DEF CandTypes, CandRecords
<1>3. cand' \in CandRecords
  BY <1>1, <1>2 DEF CandRecords, CandStates, Reviewable
<1> QED BY <1>1, <1>3

\* Sealing and publishing only change the state.
LEMMA StateOnly ==
  ASSUME CandTypes, CandNext,
         \/ \E validation, closed : CandSeal(validation, closed)
         \/ PubStart \/ PubFinish
  PROVE  /\ cand' \in CandRecords
         /\ cand'.ids = cand.ids /\ cand'.round = cand.round
         /\ cand'.resolved = cand.resolved /\ cand'.recoveryRound = cand.recoveryRound
<1> DEFINE Stepped == \E s \in CandStates : cand' = [cand EXCEPT !.state = s]
<1>1. UNCHANGED cand \/ Stepped
  <2>1. ASSUME NEW validation, NEW closed, CandSeal(validation, closed)
        PROVE  Stepped
    <3>1. \E s \in {"execution_unknown", "ready", "validation_failed"} :
             cand' = [cand EXCEPT !.state = s]
      BY <2>1 DEF CandSeal, CandWrite
    <3> QED BY <3>1 DEF CandStates, Reviewable
  <2>2. ASSUME PubStart PROVE UNCHANGED cand \/ Stepped
    BY <2>2 DEF PubStart, CandStates, PubStates
  <2>3. ASSUME PubFinish PROVE UNCHANGED cand \/ Stepped
    BY <2>3, PubResultIs DEF PubFinish, CandStates
  <2> QED BY <2>1, <2>2, <2>3
<1>2. \A s \in CandStates :
         /\ [cand EXCEPT !.state = s] \in CandRecords
         /\ [cand EXCEPT !.state = s].ids = cand.ids
         /\ [cand EXCEPT !.state = s].round = cand.round
         /\ [cand EXCEPT !.state = s].resolved = cand.resolved
         /\ [cand EXCEPT !.state = s].recoveryRound = cand.recoveryRound
  <2> TAKE s \in CandStates
  <2> QED BY CandEdited, {} \in SUBSET CandReviews DEF CandTypes
<1>3. CASE UNCHANGED cand
  BY <1>3 DEF CandTypes
<1>4. CASE Stepped
  <2> PICK s \in CandStates : cand' = [cand EXCEPT !.state = s]
    BY <1>4
  <2> QED BY <1>2
<1> QED BY <1>1, <1>3, <1>4

-----------------------------------------------------------------------------
(* A coding candidate: one lemma per part of the invariant.                *)

LEMMA CandRecordStep == CandInv /\ [CandNext]_candVars => cand' \in CandRecords
<1> SUFFICES ASSUME CandInv, [CandNext]_candVars PROVE cand' \in CandRecords
  OBVIOUS
<1>0. CandTypes /\ cand \in CandRecords
  BY DEF CandInv, CandTypes
<1>1. CASE UNCHANGED cand
  BY <1>0, <1>1
<1>2. ASSUME NEW r \in CandReviews, AttachReview(r) PROVE cand' \in CandRecords
  BY <1>0, <1>2, AttachEffect
<1>3. ASSUME CandReconcile PROVE cand' \in CandRecords
  BY <1>0, <1>3, ReconcileEffect
<1>4. ASSUME ReconcileExecution PROVE cand' \in CandRecords
  BY <1>0, <1>4, ReadBackEffect
<1>5. ASSUME CandNext,
             (\E validation, closed : CandSeal(validation, closed)) \/ PubStart \/ PubFinish
      PROVE  cand' \in CandRecords
  BY <1>0, <1>5, StateOnly
<1> QED
  BY <1>1, <1>2, <1>3, <1>4, <1>5
  DEF CandNext, ReviewStep, Publish, StartReview, RestoredReviews, RecordReview,
      FinishReview, ReconcileReview, PubRead, PubCheck, PubReplace, PubRecover,
      PubRecoverFails, PubReadback, EditProject, CandDies, candVars

LEMMA ReviewStepTypes == CandInv /\ [CandNext]_candVars
                            => review' \in [CandReviews -> ReviewRecords]
<1> SUFFICES ASSUME CandInv, [CandNext]_candVars
             PROVE  review' \in [CandReviews -> ReviewRecords]
  OBVIOUS
<1>0. /\ cand.round \in Nat
      /\ review \in [CandReviews -> ReviewRecords]
  BY DEF CandInv, CandTypes, CandRecords
<1>1. ASSUME NEW r \in CandReviews, StartReview(r)
      PROVE  review' \in [CandReviews -> ReviewRecords]
  <2>1. [state |-> "interrupted", outcome |-> "unknown", round |-> cand.round]
           \in ReviewRecords
    BY <1>0 DEF ReviewRecords
  <2> QED BY <1>0, <1>1, <2>1 DEF StartReview
<1>2. ASSUME NEW r \in CandReviews, RecordReview(r)
      PROVE  review' \in [CandReviews -> ReviewRecords]
  <2>1. [state |-> "running", outcome |-> "none", round |-> cand.round]
           \in ReviewRecords
    BY <1>0 DEF ReviewRecords
  <2> QED BY <1>0, <1>2, <2>1 DEF RecordReview
<1>3. ASSUME NEW r \in CandReviews,
             NEW judgement \in {"pass", "fail", "unknown"},
             NEW checks, NEW closed, NEW interrupted,
             FinishReview(r, judgement, checks, closed, interrupted)
      PROVE  review' \in [CandReviews -> ReviewRecords]
  <2> DEFINE s == CASE checks = "unknown" \/ ~closed -> "execution_unknown"
                    [] checks # "unknown" /\ closed /\ interrupted -> "interrupted"
                    [] OTHER -> "completed"
             o == Outcome(judgement, checks, closed, interrupted)
  <2>1. s \in {"completed", "interrupted", "execution_unknown"}
        /\ o \in {"pass", "fail", "unknown"}
    BY DEF Outcome
  <2>2. review' = [review EXCEPT ![r] = [state |-> s, outcome |-> o,
                                         round |-> review[r].round]]
    BY <1>3 DEF FinishReview
  <2> HIDE DEF s, o
  <2>3. review[r].round \in Nat
    BY <1>0 DEF ReviewRecords
  <2>4. [state |-> s, outcome |-> o, round |-> review[r].round] \in ReviewRecords
    BY <2>1, <2>3 DEF ReviewRecords
  <2> QED BY <1>0, <2>2, <2>4
<1>4. CASE UNCHANGED review
  BY <1>0, <1>4
<1> QED
  BY <1>1, <1>2, <1>3, <1>4
  DEF CandNext, CandSeal, ReviewStep, RestoredReviews, AttachReview, ReconcileReview,
      ReconcileExecution, Publish, PubRead, PubStart, PubCheck, PubReplace,
      PubRecover, PubRecoverFails, PubReadback, PubFinish, EditProject, CandDies,
      candVars

LEMMA QaStepTypes == CandInv /\ [CandNext]_candVars => qa' \in [CandReviews -> QaPcs]
<1> SUFFICES ASSUME CandInv, [CandNext]_candVars PROVE qa' \in [CandReviews -> QaPcs]
  OBVIOUS
<1>0. qa \in [CandReviews -> QaPcs]
  BY DEF CandInv, CandTypes
<1>1. ASSUME NEW r \in CandReviews, ReviewStep(r) PROVE qa' \in [CandReviews -> QaPcs]
  <2>1. \E pc \in QaPcs : qa' = [qa EXCEPT ![r] = pc]
    BY <1>1 DEF ReviewStep, StartReview, RestoredReviews, AttachReview, RecordReview,
       FinishReview, ReconcileReview, QaPcs
  <2> QED BY <1>0, <2>1
<1>2. ASSUME CandDies PROVE qa' \in [CandReviews -> QaPcs]
  BY <1>0, <1>2 DEF CandDies, QaPcs
<1>3. CASE UNCHANGED qa
  BY <1>0, <1>3
<1> QED
  BY <1>1, <1>2, <1>3
  DEF CandNext, CandSeal, ReconcileExecution, Publish, PubRead, PubStart, PubCheck,
      PubReplace, PubRecover, PubRecoverFails, PubReadback, PubFinish, EditProject,
      candVars

LEMMA PublisherStepTypes == CandInv /\ [CandNext]_candVars => publisher' \in Publishers
<1> SUFFICES ASSUME CandInv, [CandNext]_candVars PROVE publisher' \in Publishers
  OBVIOUS
<1> DEFINE Pcs == {"idle", "start", "publish", "apply", "readback", "unclear"}
                     \cup PubResults
<1>0. CandTypes /\ publisher \in Publishers
  BY DEF CandInv, CandTypes
<1>1. [publisher EXCEPT !.current = FALSE] \in Publishers
  BY <1>0 DEF Publishers
<1>2. \A pc \in Pcs : [publisher EXCEPT !.pc = pc] \in Publishers
  BY <1>0 DEF Publishers
<1>3. \A pc \in Pcs, current \in BOOLEAN : [pc |-> pc, current |-> current] \in Publishers
  BY DEF Publishers
<1>4. CASE CandReconcile
  BY <1>0, <1>1, <1>4, ReconcileEffect
<1>5. ASSUME NEW r \in CandReviews, AttachReview(r) PROVE publisher' \in Publishers
  BY <1>0, <1>1, <1>5, AttachEffect
<1>6. CASE \/ UNCHANGED publisher
           \/ publisher' = [publisher EXCEPT !.current = FALSE]
           \/ \E pc \in Pcs : publisher' = [publisher EXCEPT !.pc = pc]
           \/ \E pc \in Pcs, current \in BOOLEAN :
                 publisher' = [pc |-> pc, current |-> current]
  BY <1>0, <1>1, <1>2, <1>3, <1>6
<1>7. CASE Publish
  BY <1>6, <1>7 DEF Publish, PubRead, PubStart, PubCheck, PubPrepare, PubReplace,
     PubRecover, PubRecoverFails, PubReadback, Readback, PubFinish, PubGoes, PubEnds,
     PubResults
<1> QED
  BY <1>4, <1>5, <1>6, <1>7
  DEF CandNext, CandSeal, CandWrite, ReviewStep, StartReview, RestoredReviews,
      RecordReview, FinishReview, ReconcileReview, ReconcileExecution, EditProject,
      CandDies, candVars

LEMMA PubTypeStep == CandInv /\ [CandNext]_candVars => PubTypes'
<1> SUFFICES ASSUME CandInv, [CandNext]_candVars PROVE PubTypes'
  OBVIOUS
<1>0. PubTypes
  BY DEF CandInv
<1>1. producer' \in BOOLEAN
  BY <1>0 DEF PubTypes, CandNext, CandSeal, ReviewStep, StartReview, RestoredReviews,
     AttachReview, RecordReview, FinishReview, ReconcileReview, ReconcileExecution,
     Publish, PubRead, PubStart, PubCheck, PubReplace, PubRecover, PubRecoverFails,
     PubReadback, PubFinish, EditProject, CandDies, candVars
<1>2. journal' \in {"none", "applying", "integrated", "rolled_back", "unknown"}
  <2>1. Readback \in {"integrated", "rolled_back", "unknown"}
    BY DEF Readback
  <2>2. CASE UNCHANGED journal \/ journal' \in {"applying", "unknown", Readback}
    BY <1>0, <2>1, <2>2 DEF PubTypes
  <2>3. CASE PubReadback
    BY <2>2, <2>3 DEF PubReadback
  <2>4. CASE CandNext /\ ~PubReadback
    BY <2>2, <2>4
    DEF CandNext, CandSeal, ReviewStep, StartReview, RestoredReviews, AttachReview,
        RecordReview, FinishReview, ReconcileReview, ReconcileExecution, Publish, PubRead,
        PubStart, PubCheck, PubReplace, PubRecover, PubRecoverFails, PubFinish,
        EditProject, CandDies
  <2> QED BY <2>2, <2>3, <2>4 DEF candVars
<1>3. project' \in [CandFiles -> {"before", "after", "other"}]
  <2>1. \/ UNCHANGED project
        \/ \E f \in CandFiles, v \in {"after", "other"} :
              project' = [project EXCEPT ![f] = v]
        \/ project' = [f \in CandFiles |-> "before"]
        \/ \E kept : project' = [f \in CandFiles |-> IF f \in kept THEN project[f]
                                                     ELSE "before"]
    BY DEF CandNext, CandSeal, ReviewStep, StartReview, RestoredReviews, AttachReview,
       RecordReview, FinishReview, ReconcileReview, ReconcileExecution, Publish, PubRead,
       PubStart, PubCheck, PubReplace, PubRecover, PubRecoverFails, PubReadback,
       PubFinish, EditProject, CandDies, candVars
  <2> QED BY <1>0, <2>1 DEF PubTypes
<1>4. candDeaths' \in Nat /\ candEdits' \in Nat /\ editLost' \in BOOLEAN
  <2>1. candDeaths' \in {candDeaths, candDeaths + 1}
        /\ candEdits' \in {candEdits, candEdits + 1}
    BY DEF CandNext, CandSeal, ReviewStep, StartReview, RestoredReviews, AttachReview,
       RecordReview, FinishReview, ReconcileReview, ReconcileExecution, Publish, PubRead,
       PubStart, PubCheck, PubReplace, PubRecover, PubRecoverFails, PubReadback,
       PubFinish, EditProject, CandDies, candVars
  <2>2. UNCHANGED editLost \/ editLost' \in BOOLEAN
    BY ZenonT(60) DEF CandNext, CandSeal, ReviewStep, StartReview, RestoredReviews,
       AttachReview, RecordReview, FinishReview, ReconcileReview, ReconcileExecution,
       Publish, PubRead, PubStart, PubCheck, PubReplace, PubRecover, PubRecoverFails,
       PubReadback, PubFinish, EditProject, CandDies, candVars
  <2> QED BY <1>0, <2>1, <2>2 DEF PubTypes
<1> QED BY <1>1, <1>2, <1>3, <1>4 DEF PubTypes

LEMMA CandLockStep == CandInv /\ [CandNext]_candVars => CandLock'
<1> SUFFICES ASSUME CandInv, [CandNext]_candVars PROVE CandLock'
  OBVIOUS
<1>0. /\ CandTypes /\ CandLock /\ PublisherOK
      /\ qa \in [CandReviews -> QaPcs] /\ publisher \in Publishers
  BY DEF CandInv, CandTypes
<1>1. ASSUME NEW r \in CandReviews, NEW pc, qa' = [qa EXCEPT ![r] = pc]
      PROVE  /\ qa'[r] = pc
             /\ \A q \in CandReviews \ {r} : qa'[q] = qa[q]
  BY <1>0, <1>1
<1>2. publisher' = [publisher EXCEPT !.current = FALSE] => publisher'.pc = publisher.pc
  BY <1>0 DEF Publishers
<1>3. CandReconcile => publisher'.pc = publisher.pc
  BY <1>0, <1>2, ReconcileEffect
<1>4. ASSUME NEW r \in CandReviews, StartReview(r) PROVE CandLock'
  <2>1. qa'[r] \in {"attach", "restored"} /\ \A q \in CandReviews \ {r} : qa'[q] = qa[q]
    BY <1>1, <1>4 DEF StartReview
  <2> QED BY <1>0, <1>4, <2>1 DEF StartReview, CandLock, Registers
<1>5. ASSUME NEW r \in CandReviews, RestoredReviews(r) PROVE CandLock'
  <2>1. qa'[r] = "attach" /\ \A q \in CandReviews \ {r} : qa'[q] = qa[q]
    BY <1>1, <1>5 DEF RestoredReviews
  <2> QED BY <1>0, <1>3, <1>5, <2>1 DEF RestoredReviews, CandLock, Registers
<1>6. ASSUME NEW r \in CandReviews, AttachReview(r) PROVE CandLock'
  <2>1. CASE qa' = [qa EXCEPT ![r] = "record"] /\ UNCHANGED pubLock
             /\ publisher'.pc = publisher.pc
    <3>1. qa'[r] = "record" /\ \A q \in CandReviews \ {r} : qa'[q] = qa[q]
      BY <1>1, <2>1
    <3> QED BY <1>0, <1>6, <2>1, <3>1 DEF AttachReview, CandLock, Registers
  <2>2. CASE qa' = [qa EXCEPT ![r] = "done"] /\ pubLock' = "free"
             /\ publisher'.pc = publisher.pc
    <3>1. qa'[r] = "done" /\ \A q \in CandReviews \ {r} : qa'[q] = qa[q]
      BY <1>1, <2>2
    <3> QED BY <1>0, <1>6, <2>2, <3>1 DEF AttachReview, CandLock, Registers
  <2> QED BY <1>0, <1>2, <1>6, <2>1, <2>2, AttachEffect
<1>7. ASSUME NEW r \in CandReviews, RecordReview(r) PROVE CandLock'
  <2>1. qa'[r] = "judging" /\ \A q \in CandReviews \ {r} : qa'[q] = qa[q]
    BY <1>1, <1>7 DEF RecordReview
  <2> QED BY <1>0, <1>7, <2>1 DEF RecordReview, CandLock, Registers
<1>8. ASSUME NEW r \in CandReviews, NEW judgement, NEW checks, NEW closed,
             NEW interrupted, FinishReview(r, judgement, checks, closed, interrupted)
      PROVE  CandLock'
  <2>1. qa'[r] = "reconcile" /\ \A q \in CandReviews \ {r} : qa'[q] = qa[q]
    BY <1>1, <1>8 DEF FinishReview
  <2> QED BY <1>0, <1>8, <2>1 DEF FinishReview, CandLock, Registers
<1>9. ASSUME NEW r \in CandReviews, ReconcileReview(r) PROVE CandLock'
  <2>1. qa'[r] = "done" /\ \A q \in CandReviews \ {r} : qa'[q] = qa[q]
    BY <1>1, <1>9 DEF ReconcileReview
  <2> QED BY <1>0, <1>3, <1>9, <2>1 DEF ReconcileReview, CandLock, Registers
<1>10. CASE UNCHANGED <<qa, pubLock>> /\ publisher'.pc = publisher.pc
  BY <1>0, <1>10 DEF CandLock, Registers
<1>11. CASE Publish
  <2>1. \A pc : publisher' = [publisher EXCEPT !.pc = pc] => publisher'.pc = pc
    BY <1>0 DEF Publishers
  <2>2. CASE PubEnds /\ UNCHANGED qa /\ publisher.pc # "idle"
    BY <1>0, <2>2 DEF PubEnds, CandLock, Registers
  <2>3. CASE UNCHANGED <<qa, pubLock>> /\ publisher.pc # "idle" /\ publisher'.pc # "idle"
    BY <1>0, <2>3 DEF CandLock, Registers
  <2>4. CASE PubRead
    BY <1>0, <2>4 DEF PubRead, CandLock, Registers
  <2> QED
    BY <1>11, <2>1, <2>2, <2>3, <2>4, PubResultIs
    DEF Publish, PubStart, PubCheck, PubPrepare, PubReplace, PubRecover, PubResults,
        PubRecoverFails, PubReadback, Readback, PubFinish, PubGoes
<1>12. CASE CandDies
  BY <1>0, <1>12 DEF CandDies, CandLock, Registers
<1> QED
  BY <1>2, <1>4, <1>5, <1>6, <1>7, <1>8, <1>9, <1>10, <1>11, <1>12
  DEF CandNext, CandSeal, CandWrite, ReviewStep, ReconcileExecution, EditProject,
      candVars

\* What a step leaves of the record when it neither attaches nor reconciles.
LEMMA SameReviews ==
  ASSUME CandInv, CandNext, ~\E r \in CandReviews : AttachReview(r)
  PROVE  cand'.ids = cand.ids
<1>0. CandTypes
  BY DEF CandInv
<1>1. CASE UNCHANGED cand
  BY <1>1
<1>2. CASE CandReconcile
  BY <1>0, <1>2, ReconcileEffect
<1>3. CASE ReconcileExecution
  BY <1>0, <1>3, ReadBackEffect
<1>4. CASE (\E validation, closed : CandSeal(validation, closed)) \/ PubStart \/ PubFinish
  BY <1>0, <1>4, StateOnly
<1> QED
  BY <1>1, <1>2, <1>3, <1>4
  DEF CandNext, ReviewStep, Publish, StartReview, RestoredReviews, RecordReview,
      FinishReview, ReconcileReview, PubRead, PubCheck, PubReplace, PubRecover,
      PubRecoverFails, PubReadback, EditProject, CandDies

LEMMA ReviewLinkStep == CandInv /\ [CandNext]_candVars => ReviewLinks'
<1> SUFFICES ASSUME CandInv, [CandNext]_candVars PROVE ReviewLinks'
  OBVIOUS
<1>0. /\ CandTypes /\ CandLock /\ ReviewLinks
      /\ qa \in [CandReviews -> QaPcs] /\ review \in [CandReviews -> ReviewRecords]
  BY DEF CandInv, CandTypes
<1>1. ASSUME NEW r \in CandReviews, NEW pc, qa' = [qa EXCEPT ![r] = pc]
      PROVE  qa'[r] = pc /\ \A q \in CandReviews \ {r} : qa'[q] = qa[q]
  BY <1>0, <1>1
<1>2. CASE UNCHANGED candVars
  BY <1>0, <1>2 DEF candVars, ReviewLinks
<1>3. ASSUME NEW r \in CandReviews, StartReview(r) PROVE ReviewLinks'
  <2>1. qa'[r] \in {"attach", "restored"} /\ \A q \in CandReviews \ {r} : qa'[q] = qa[q]
    BY <1>1, <1>3 DEF StartReview
  <2>2. \A q \in CandReviews :
           IF q \in Lost THEN review'[q].state = "interrupted" /\ qa[q] = "dead"
                         ELSE review'[q] = review[q]
    BY <1>3 DEF StartReview
  <2>3. \A q \in CandReviews : q \in Lost <=> q \in cand.ids /\ review[q].state = "none"
    BY DEF Lost
  <2>4. UNCHANGED cand /\ qa[r] = "none"
    BY <1>3 DEF StartReview
  <2> QED BY <1>0, <2>1, <2>2, <2>3, <2>4 DEF ReviewLinks
<1>4. ASSUME NEW r \in CandReviews, AttachReview(r) PROVE ReviewLinks'
  <2>1. UNCHANGED review /\ qa[r] = "attach"
    BY <1>4 DEF AttachReview
  <2>2. CASE qa' = [qa EXCEPT ![r] = "record"] /\ cand'.ids = cand.ids \cup {r}
    <3>1. qa'[r] = "record" /\ \A q \in CandReviews \ {r} : qa'[q] = qa[q]
      BY <1>1, <2>2
    <3> QED BY <1>0, <2>1, <2>2, <3>1 DEF ReviewLinks
  <2>3. CASE qa' = [qa EXCEPT ![r] = "done"] /\ UNCHANGED cand
    <3>1. qa'[r] = "done" /\ \A q \in CandReviews \ {r} : qa'[q] = qa[q]
      BY <1>1, <2>3
    <3> QED BY <1>0, <2>1, <2>3, <3>1 DEF ReviewLinks
  <2> QED BY <1>0, <1>4, <2>2, <2>3, AttachEffect
<1> SUFFICES ASSUME CandNext, ~\E r \in CandReviews : AttachReview(r),
                    ~\E r \in CandReviews : StartReview(r)
             PROVE  ReviewLinks'
  BY <1>2, <1>3, <1>4
<1>5. cand'.ids = cand.ids
  BY SameReviews
<1>6. ASSUME NEW r \in CandReviews, RestoredReviews(r) PROVE ReviewLinks'
  <2>1. qa'[r] = "attach" /\ \A q \in CandReviews \ {r} : qa'[q] = qa[q]
    BY <1>1, <1>6 DEF RestoredReviews
  <2> QED BY <1>0, <1>5, <1>6, <2>1 DEF RestoredReviews, ReviewLinks
<1>7. ASSUME NEW r \in CandReviews, RecordReview(r) PROVE ReviewLinks'
  <2>1. qa'[r] = "judging" /\ \A q \in CandReviews \ {r} : qa'[q] = qa[q]
    BY <1>1, <1>7 DEF RecordReview
  <2>2. review'[r].state = "running" /\ \A q \in CandReviews \ {r} : review'[q] = review[q]
    BY <1>0, <1>7 DEF RecordReview
  <2> QED BY <1>0, <1>5, <1>7, <2>1, <2>2 DEF RecordReview, ReviewLinks
<1>8. ASSUME NEW r \in CandReviews, NEW judgement, NEW checks, NEW closed,
             NEW interrupted, FinishReview(r, judgement, checks, closed, interrupted)
      PROVE  ReviewLinks'
  <2>1. qa'[r] = "reconcile" /\ \A q \in CandReviews \ {r} : qa'[q] = qa[q]
    BY <1>1, <1>8 DEF FinishReview
  <2>2. \A q \in CandReviews \ {r} : review'[q] = review[q]
    BY <1>0, <1>8 DEF FinishReview
  <2>3. r \in cand.ids
    BY <1>0, <1>8 DEF FinishReview, ReviewLinks
  <2> QED BY <1>0, <1>5, <1>8, <2>1, <2>2, <2>3 DEF ReviewLinks
<1>9. ASSUME NEW r \in CandReviews, ReconcileReview(r) PROVE ReviewLinks'
  <2>1. qa'[r] = "done" /\ \A q \in CandReviews \ {r} : qa'[q] = qa[q]
    BY <1>1, <1>9 DEF ReconcileReview
  <2> QED BY <1>0, <1>5, <1>9, <2>1 DEF ReconcileReview, ReviewLinks
<1>10. CASE CandDies
  BY <1>0, <1>10 DEF CandDies, ReviewLinks
<1>11. CASE UNCHANGED <<review, qa>>
  BY <1>0, <1>5, <1>11 DEF ReviewLinks
<1> QED
  BY <1>6, <1>7, <1>8, <1>9, <1>10, <1>11
  DEF CandNext, CandSeal, ReviewStep, ReconcileExecution, Publish, PubRead, PubStart,
      PubCheck, PubReplace, PubRecover, PubRecoverFails, PubReadback, PubFinish,
      EditProject

\* A verdict of closed reviews holds while neither they nor the round change.
LEMMA SettledKept ==
  ASSUME Settled, UNCHANGED review,
         cand'.ids = cand.ids, cand'.round = cand.round, cand'.resolved = cand.resolved,
         cand'.recoveryRound = cand.recoveryRound,
         cand'.state \in {"accepted"} \cup PubStates
            => cand.state \in {"accepted"} \cup PubStates
  PROVE  Settled'
  BY DEF Settled, Current, GoodReview, Unresolved

\* Nothing that is accepted has a review left to record or to finish.
LEMMA ClosedReviews ==
  ASSUME CandInv, CandNext, cand.state \in {"accepted"} \cup PubStates
  PROVE  review' = review
<1>0. /\ CandTypes /\ ReviewLinks /\ Settled
      /\ review \in [CandReviews -> ReviewRecords]
  BY DEF CandInv, CandTypes
<1>1. \A r \in cand.ids : review[r].state \notin {"none", "running"}
  BY <1>0 DEF Settled
<1>2. ASSUME NEW r \in CandReviews, StartReview(r) PROVE review' = review
  <2>1. Lost = {}
    BY <1>1 DEF Lost
  <2>2. review' = [x \in CandReviews |-> review[x]]
    BY <1>2, <2>1 DEF StartReview
  <2> QED BY <1>0, <2>2
<1>3. ASSUME NEW r \in CandReviews PROVE ~RecordReview(r)
  BY <1>0, <1>1 DEF RecordReview, ReviewLinks
<1>4. ASSUME NEW r \in CandReviews, NEW judgement, NEW checks, NEW closed,
             NEW interrupted
      PROVE  ~FinishReview(r, judgement, checks, closed, interrupted)
  BY <1>0, <1>1 DEF FinishReview, ReviewLinks
<1> QED
  BY <1>2, <1>3, <1>4
  DEF CandNext, CandSeal, ReviewStep, RestoredReviews, AttachReview, ReconcileReview,
      ReconcileExecution, Publish, PubRead, PubStart, PubCheck, PubReplace, PubRecover,
      PubRecoverFails, PubReadback, PubFinish, EditProject, CandDies

LEMMA SettledStep == CandInv /\ [CandNext]_candVars => Settled'
<1> SUFFICES ASSUME CandInv, [CandNext]_candVars PROVE Settled'
  OBVIOUS
<1>0. CandTypes /\ Settled /\ PublisherOK
  BY DEF CandInv
<1>1. CASE UNCHANGED candVars
  BY <1>0, <1>1, SettledKept DEF candVars
<1> SUFFICES ASSUME CandNext PROVE Settled'
  BY <1>1
<1>2. CASE UNCHANGED cand
  <2>1. CASE cand.state \in {"accepted"} \cup PubStates
    BY <1>0, <1>2, <2>1, ClosedReviews, SettledKept
  <2>2. CASE cand.state \notin {"accepted"} \cup PubStates
    BY <1>2, <2>2 DEF Settled
  <2> QED BY <2>1, <2>2
<1>3. CASE cand'.state \notin {"accepted"} \cup PubStates
  BY <1>3 DEF Settled
<1>4. ASSUME NEW validation, NEW closed, CandSeal(validation, closed) PROVE Settled'
  <2>1. \E s \in {"execution_unknown", "ready", "validation_failed"} :
           cand' = [cand EXCEPT !.state = s]
    BY <1>4 DEF CandSeal, CandWrite
  <2>2. cand'.state \in {"execution_unknown", "ready", "validation_failed"}
    BY <1>0, <2>1 DEF CandTypes, CandRecords
  <2> QED BY <1>3, <2>2 DEF PubStates
<1>5. ASSUME NEW r \in CandReviews, AttachReview(r) PROVE Settled'
  BY <1>0, <1>2, <1>3, <1>5, AttachEffect DEF PubStates
<1>6. ASSUME CandReconcile, UNCHANGED review PROVE Settled'
  <2>1. CASE ~Unreconcilable(cand) /\ cand'.state = "accepted" /\ Judged(cand) = "accepted"
             /\ cand'.ids = cand.ids /\ cand'.round = cand.round
             /\ cand'.resolved = cand.resolved
             /\ cand'.recoveryRound = cand.recoveryRound
    <3>1. /\ \A r \in cand.ids : review[r].state # "none"
          /\ \A r \in Current(cand) : GoodReview(r)
      BY <2>1 DEF Unreconcilable
    <3>2. /\ ~\E r \in cand.ids : Unresolved(r)
          /\ ~\E r \in cand.ids : review[r].state = "running"
          /\ Current(cand) # {}
      BY <2>1 DEF Judged
    <3> QED BY <1>6, <2>1, <3>1, <3>2 DEF Settled, Current, GoodReview, Unresolved
  <2>2. CASE cand'.state = Judged(cand) /\ Judged(cand) # "accepted"
    BY <1>3, <2>2, JudgedIs DEF Reviewable, PubStates
  <2> QED BY <1>0, <1>2, <1>6, <2>1, <2>2, ReconcileEffect
<1>7. CASE ReconcileExecution
  BY <1>0, <1>3, <1>7, ReadBackEffect DEF PubStates
<1>8. ASSUME PubStart \/ PubFinish, cand.state \in {"accepted"} \cup PubStates
      PROVE  Settled'
  <2>1. UNCHANGED review
    BY <1>8 DEF PubStart, PubFinish
  <2> QED BY <1>0, <1>8, <2>1, StateOnly, SettledKept
<1>9. PubStart \/ PubFinish => cand.state \in {"accepted"} \cup PubStates
  BY <1>0, PubResultIs DEF PubStart, PubFinish, PublisherOK, PubStates, PubResults
<1> QED
  BY <1>2, <1>4, <1>5, <1>6, <1>7, <1>8, <1>9
  DEF CandNext, ReviewStep, Publish, StartReview, RestoredReviews, RecordReview,
      FinishReview, ReconcileReview, PubRead, PubCheck, PubReplace, PubRecover,
      PubRecoverFails, PubReadback, EditProject, CandDies

\* While a publication is under way nothing else moves its candidate.
LEMMA ReconcileWhilePublishing ==
  ASSUME CandInv, CandReconcile
  PROVE  /\ publisher'.pc = publisher.pc
         /\ publisher.pc # "idle" => cand'.state = cand.state
         /\ cand'.state = "integrated" => cand.state = "integrated"
<1>0. CandTypes /\ Settled /\ PublisherOK /\ publisher \in Publishers
  BY DEF CandInv, CandTypes
<1>1. CASE UNCHANGED <<cand, publisher>>
  BY <1>1
<1>2. CASE /\ ~Unreconcilable(cand) /\ cand'.state = Judged(cand)
           /\ publisher' = [publisher EXCEPT !.current = FALSE]
  <2>1. publisher'.pc = publisher.pc
    BY <1>0, <1>2 DEF Publishers
  <2>2. cand'.state # "integrated"
    BY <1>2, JudgedIs DEF Reviewable
  <2>3. cand.state \in Reviewable
    BY <1>2 DEF Unreconcilable
  <2>4. ASSUME publisher.pc # "idle" PROVE cand'.state = cand.state
    <3>1. cand.state = "accepted"
      BY <1>0, <2>3, <2>4 DEF PublisherOK, Reviewable
    <3>2. ~\E r \in cand.ids : review[r].state = "running" \/ Unresolved(r)
      BY <1>0, <3>1 DEF Settled
    <3>3. Judged(cand) # "under_review"
      BY <3>2 DEF Judged
    <3> QED BY <1>2, <3>1, <3>3 DEF Unreconcilable
  <2> QED BY <2>1, <2>2, <2>4
<1> QED BY <1>0, <1>1, <1>2, ReconcileEffect

LEMMA PublisherStep == CandInv /\ [CandNext]_candVars => PublisherOK'
<1> SUFFICES ASSUME CandInv, [CandNext]_candVars PROVE PublisherOK'
  OBVIOUS
<1> USE DEF PublisherOK, PublicationIsReadBack
<1>0. /\ CandTypes /\ PubTypes /\ CandLock /\ PublisherOK
      /\ cand \in CandRecords /\ publisher \in Publishers
      /\ project \in [CandFiles -> {"before", "after", "other"}]
      /\ candEdits \in Nat
  BY DEF CandInv, CandTypes, PubTypes
<1>1. CASE /\ UNCHANGED <<journal, project, candEdits, editLost>>
           /\ publisher'.pc = publisher.pc
           /\ publisher.pc # "idle" => cand'.state = cand.state
           /\ cand'.state = "integrated" => cand.state = "integrated"
  BY <1>0, <1>1
<1>2. publisher' = [publisher EXCEPT !.current = FALSE] => publisher'.pc = publisher.pc
  BY <1>0 DEF Publishers
<1>3. \A pc : publisher' = [publisher EXCEPT !.pc = pc] => publisher'.pc = pc
  BY <1>0 DEF Publishers
<1>4. \A s : cand' = [cand EXCEPT !.state = s] => cand'.state = s
  BY <1>0 DEF CandRecords
<1>5. ASSUME NEW validation, NEW closed, CandSeal(validation, closed) PROVE PublisherOK'
  <2>1. publisher.pc = "idle"
    BY <1>0, <1>5 DEF CandSeal
  <2>2. cand'.state \in {"execution_unknown", "ready", "validation_failed"}
    BY <1>4, <1>5 DEF CandSeal, CandWrite
  <2> QED BY <1>1, <1>2, <1>5, <2>1, <2>2 DEF CandSeal, CandWrite
<1>6. ASSUME NEW r \in CandReviews, AttachReview(r) PROVE PublisherOK'
  <2>1. publisher.pc = "idle"
    BY <1>0, <1>6 DEF CandLock, Registers, AttachReview
  <2> QED BY <1>0, <1>1, <1>2, <1>6, <2>1, AttachEffect DEF AttachReview
<1>7. ASSUME CandReconcile, UNCHANGED <<journal, project, candEdits, editLost>>
      PROVE  PublisherOK'
  BY <1>1, <1>7, ReconcileWhilePublishing
<1>8. CASE ReconcileExecution
  <2>1. publisher.pc = "idle"
    BY <1>0, <1>8 DEF ReconcileExecution, CandLock
  <2> QED BY <1>0, <1>1, <1>2, <1>8, <2>1, ReadBackEffect
          DEF ReconcileExecution, CandWrite
<1>9. CASE PubRead
  BY <1>0, <1>9 DEF PubRead
<1>10. CASE PubStart
  BY <1>0, <1>3, <1>4, <1>10 DEF PubStart, PubGoes, PubEnds
<1>11. ASSUME NEW fails, PubCheck(fails) PROVE PublisherOK'
  BY <1>0, <1>3, <1>11 DEF PubCheck, PubPrepare, PubGoes
<1>12. ASSUME NEW f \in CandFiles, PubReplace(f) PROVE PublisherOK'
  <2>1. project[f] # "other" /\ journal = "applying"
    BY <1>0, <1>12 DEF PubReplace
  <2>2. \A g \in CandFiles : project'[g] # "other"
    BY <1>0, <1>12, <2>1 DEF PubReplace
  <2> QED BY <1>0, <1>12, <2>1, <2>2 DEF PubReplace
<1>13. CASE PubRecover
  <2>1. publisher'.pc = Readback /\ journal' = Readback
    BY <1>3, <1>13 DEF PubRecover, PubGoes
  <2>2. Readback = "integrated"
           => UNCHANGED project /\ \A f \in CandFiles : project[f] = "after"
    BY <1>13 DEF PubRecover, Readback
  <2>3. Readback \in {"integrated", "unknown", "rolled_back"}
    BY DEF Readback
  <2> QED BY <1>0, <1>13, <2>1, <2>2, <2>3 DEF PubRecover
<1>14. ASSUME NEW kept, PubRecoverFails(kept) PROVE PublisherOK'
  BY <1>0, <1>3, <1>14 DEF PubRecoverFails, PubGoes
<1>15. CASE PubReadback
  <2>1. /\ publisher'.pc \in {"unclear", "integrated", "rolled_back"}
        /\ publisher'.pc = "integrated" => journal' = "integrated"
    BY <1>3, <1>15 DEF PubReadback, PubGoes, Readback
  <2>2. journal' = "integrated" => \A f \in CandFiles : project[f] = "after"
    BY <1>0, <1>15 DEF PubReadback, Readback
  <2> QED BY <1>0, <1>15, <2>1, <2>2 DEF PubReadback
<1>16. CASE PubFinish
  BY <1>0, <1>4, <1>16, PubResultIs DEF PubFinish, PubEnds
<1>17. ASSUME NEW f \in CandFiles, EditProject(f) PROVE PublisherOK'
  <2>1. candEdits' # 0
    BY <1>0, <1>17 DEF EditProject
  <2> QED BY <1>0, <1>17, <2>1 DEF EditProject
<1>18. CASE CandDies
  BY <1>0, <1>18 DEF CandDies
<1>19. CASE UNCHANGED <<cand, publisher, journal, project, candEdits, editLost>>
  BY <1>1, <1>19
<1> QED
  BY <1>5, <1>6, <1>7, <1>8, <1>9, <1>10, <1>11, <1>12, <1>13, <1>14, <1>15, <1>16,
     <1>17, <1>18, <1>19
  DEF CandNext, ReviewStep, Publish, StartReview, RestoredReviews, RecordReview,
      FinishReview, ReconcileReview, candVars

-----------------------------------------------------------------------------
(* A coding candidate: theorems.                                           *)

LEMMA CandInvariant == CandSpec => []CandInv
<1>1. CandInv /\ [CandNext]_candVars => CandTypes'
  BY CandRecordStep, ReviewStepTypes, QaStepTypes, PublisherStepTypes DEF CandTypes
<1>2. CandInv /\ [CandNext]_candVars => CandInv'
  BY <1>1, PubTypeStep, CandLockStep, ReviewLinkStep, SettledStep, PublisherStep
  DEF CandInv
<1> QED BY <1>2, CandInitInv, PTL DEF CandSpec

\* The records of candidate and reviews keep their types, and the publication lock
\* (_publication_lock) belongs to the publisher or to the one review that registers.
THEOREM CandTypeCorrect == CandSpec => []CandTypeOK
<1>1. CandInv => CandTypeOK
  <2> SUFFICES ASSUME CandInv PROVE CandTypeOK
    OBVIOUS
  <2>1. cand \in CandRecords /\ review \in [CandReviews -> ReviewRecords]
        /\ qa \in [CandReviews -> QaPcs] /\ publisher \in Publishers
    BY DEF CandInv, CandTypes
  <2>2. pubLock = CASE publisher.pc # "idle" -> "publish"
                    [] \E r \in CandReviews : Registers(r) -> "review"
                    [] OTHER -> "free"
    BY DEF CandInv, CandLock
  <2> QED
    BY <2>1, <2>2, PubResultIs
    DEF CandInv, PubTypes, CandTypeOK, CandRecords, CandStates, ReviewRecords, QaPcs,
        Publishers, Registers
<1> QED BY <1>1, CandInvariant, PTL

\* What is being or has been published was accepted by every review of its last
\* round and has no review running or lost, for any number of reviewers, rounds,
\* interruptions and deaths.
THEOREM PublicationNeedsReview == CandSpec => []PublishedIsReviewed
<1>1. CandInv => PublishedIsReviewed
  BY DEF CandInv, Settled, PublishedIsReviewed
<1> QED BY <1>1, CandInvariant, PTL

\* publish_changes and its recovery: integrated rests on the journal, the journal
\* on the files read back, and no edit of another is overwritten, for any number
\* of files and wherever the process dies.
THEOREM PublicationReadBack == CandSpec => []PublicationIsReadBack
<1>1. CandInv => PublicationIsReadBack
  BY DEF CandInv, PublisherOK
<1> QED BY <1>1, CandInvariant, PTL

\* A closed review record is never written again: recover_review_links restores
\* lost records only, and a review is finished by its own worker only.
THEOREM VerdictsStand == CandSpec => ReviewStands
<1>1. ASSUME CandInv, [CandNext]_candVars, NEW r \in CandReviews,
             review[r].state \in {"completed", "interrupted", "execution_unknown"}
      PROVE  review'[r] = review[r]
  <2>0. ReviewLinks /\ review \in [CandReviews -> ReviewRecords]
    BY <1>1 DEF CandInv, CandTypes
  <2>1. ASSUME NEW q \in CandReviews, StartReview(q) PROVE review'[r] = review[r]
    BY <1>1, <2>1 DEF StartReview, Lost
  <2>2. ASSUME NEW q \in CandReviews, RecordReview(q) PROVE review'[r] = review[r]
    BY <1>1, <2>0, <2>2 DEF RecordReview, ReviewLinks
  <2>3. ASSUME NEW q \in CandReviews, NEW judgement, NEW checks, NEW closed,
               NEW interrupted, FinishReview(q, judgement, checks, closed, interrupted)
        PROVE  review'[r] = review[r]
    BY <1>1, <2>0, <2>3 DEF FinishReview, ReviewLinks
  <2> QED
    BY <1>1, <2>1, <2>2, <2>3
    DEF CandNext, CandSeal, ReviewStep, RestoredReviews, AttachReview, ReconcileReview,
        ReconcileExecution, Publish, PubRead, PubStart, PubCheck, PubReplace, PubRecover,
        PubRecoverFails, PubReadback, PubFinish, EditProject, CandDies, candVars
<1>2. CandInv /\ [CandNext]_candVars
        => [\A r \in CandReviews :
               review[r].state \in {"completed", "interrupted", "execution_unknown"}
                  => review'[r] = review[r]]_candVars
  BY <1>1
<1> QED BY <1>2, CandInvariant, PTL DEF CandSpec, ReviewStands

-----------------------------------------------------------------------------
(* Changes that a user approves.                                           *)

LEMMA ApprovalInitTypeOK == Init => TypeOK
  BY DEF Init, TypeOK, OpsOK, AppTurnsOK, ContOK, RequestsOK, OpStatuses

\* The prepared operations keep their types.
LEMMA OpsStep == TypeOK /\ [Next]_vars => OpsOK'
<1> SUFFICES ASSUME TypeOK, [Next]_vars PROVE OpsOK'
  OBVIOUS
<1> USE DEF TypeOK
<1>1. ASSUME UNCHANGED opVars PROVE OpsOK'
  BY <1>1 DEF OpsOK, opVars
<1>2. ASSUME NEW t \in AppTurns, NEW o \in AppOps, Prepare(t, o) PROVE OpsOK'
  BY <1>2 DEF OpsOK, Prepare, OpStatuses
<1>3. ASSUME NEW t \in AppTurns, NEW o \in AppOps, Attach(t, o) PROVE OpsOK'
  BY <1>3 DEF OpsOK, Attach
<1>4. ASSUME NEW t \in AppTurns, NEW o \in AppOps, Invalidate(t, o) PROVE OpsOK'
  BY <1>4 DEF OpsOK, Invalidate, OpStatuses, Closed
<1>5. ASSUME NEW r \in Requests, NEW o \in AppOps, NEW d \in Decisions,
             Decide(r, o, d)
      PROVE  OpsOK'
  BY <1>5 DEF OpsOK, Decide, Decided, Decisions, OpStatuses, Closed
<1>6. ASSUME NEW r \in Requests, Claim(r) PROVE OpsOK'
  BY <1>6 DEF OpsOK, Claim, OpStatuses, Closed
<1>7. ASSUME NEW r \in Requests, InvokeFrozen(r) PROVE OpsOK'
  <2>1. PICK sent \in {0, 1} : calls' = [calls EXCEPT ![rop[r]] = @ + sent]
    BY <1>7 DEF InvokeFrozen
  <2>2. rop[r] \in AppOps
    BY <1>7 DEF InvokeFrozen, RequestsOK
  <2> QED BY <1>7, <2>1, <2>2 DEF OpsOK, InvokeFrozen
<1>8. ASSUME NEW r \in Requests, NEW x \in {"executed", "unknown"},
             Settle(r, x)
      PROVE  OpsOK'
  BY <1>8 DEF OpsOK, Settle, OpStatuses, Closed
<1>9. ASSUME NEW o \in AppOps, EditScope(o) PROVE OpsOK'
  BY <1>9 DEF OpsOK, EditScope
<1> QED
  BY <1>1, <1>2, <1>3, <1>4, <1>5, <1>6, <1>7, <1>8, <1>9
  DEF Next, AppTurnStep, RequestStep, SaveContinuation, PersistFails,
      InvalidateFails, Wake, RequestFails, Resume, SettleContinuation,
      SettleContinuationFails, Crash, vars

\* The turns keep their types.
LEMMA ApprovalTurnsStep == TypeOK /\ [Next]_vars => AppTurnsOK'
<1> SUFFICES ASSUME TypeOK, [Next]_vars PROVE AppTurnsOK'
  OBVIOUS
<1> USE DEF TypeOK
<1>1. ASSUME UNCHANGED appTurnVars PROVE AppTurnsOK'
  BY <1>1 DEF AppTurnsOK, appTurnVars
<1>2. ASSUME NEW t \in AppTurns, AppTurnStep(t) PROVE AppTurnsOK'
  BY <1>2 DEF AppTurnsOK, AppTurnStep, Prepare, SaveContinuation, Attach,
              PersistFails, Invalidate, InvalidateFails
<1>3. ASSUME Crash PROVE AppTurnsOK'
  BY <1>3 DEF AppTurnsOK, Crash
<1> QED
  BY <1>1, <1>2, <1>3
  DEF Next, RequestStep, Decide, Claim, InvokeFrozen, Settle, Wake, RequestFails,
      Resume, SettleContinuation, SettleContinuationFails, EditScope, vars

\* The continuations and the executor keep their types.
LEMMA ContStep == TypeOK /\ [Next]_vars => ContOK'
<1> SUFFICES ASSUME TypeOK, [Next]_vars PROVE ContOK'
  OBVIOUS
<1> USE DEF TypeOK
<1>1. ASSUME UNCHANGED contVars PROVE ContOK'
  BY <1>1 DEF ContOK, contVars
<1>2. ASSUME NEW t \in AppTurns, SaveContinuation(t) PROVE ContOK'
  BY <1>2 DEF ContOK, SaveContinuation
<1>3. ASSUME NEW r \in Requests, Wake(r) PROVE ContOK'
  BY <1>3 DEF ContOK, Wake, OpsOK, OpStatuses
<1>4. ASSUME NEW t \in AppTurns, Resume(t) PROVE ContOK'
  BY <1>4 DEF ContOK, Resume
<1>5. ASSUME NEW t \in AppTurns,
             SettleContinuation(t) \/ SettleContinuationFails(t)
      PROVE  ContOK'
  BY <1>5 DEF ContOK, SettleContinuation, SettleContinuationFails
<1>6. ASSUME Crash PROVE ContOK'
  BY <1>6 DEF ContOK, Crash
<1> QED
  BY <1>1, <1>2, <1>3, <1>4, <1>5, <1>6
  DEF Next, AppTurnStep, Prepare, Attach, PersistFails, Invalidate,
      InvalidateFails, RequestStep, Decide, Claim, InvokeFrozen, Settle,
      RequestFails, EditScope, vars

\* The requests keep their types, and inside the route they keep their
\* operation.
LEMMA RequestsStep == TypeOK /\ [Next]_vars => RequestsOK'
<1> SUFFICES ASSUME TypeOK, [Next]_vars PROVE RequestsOK'
  OBVIOUS
<1> USE DEF TypeOK
<1>1. ASSUME UNCHANGED reqVars PROVE RequestsOK'
  BY <1>1 DEF RequestsOK, reqVars
<1>2. ASSUME NEW r \in Requests, RequestStep(r) \/ RequestFails(r)
      PROVE  RequestsOK'
  BY <1>2 DEF RequestsOK, RequestStep, RequestFails, Claim, InvokeFrozen, Settle,
              Wake, Goto
<1>3. ASSUME NEW r \in Requests, NEW o \in AppOps, NEW d \in Decisions,
             Decide(r, o, d)
      PROVE  RequestsOK'
  BY <1>3 DEF RequestsOK, Decide, Goto, AfterDecision
<1>4. ASSUME Crash PROVE RequestsOK'
  BY <1>4 DEF RequestsOK, Crash
<1> QED
  BY <1>1, <1>2, <1>3, <1>4
  DEF Next, AppTurnStep, Prepare, SaveContinuation, Attach, PersistFails,
      Invalidate, InvalidateFails, Resume, SettleContinuation,
      SettleContinuationFails, EditScope, vars

LEMMA CrashesStep == TypeOK /\ [Next]_vars => crashes' \in Nat
  BY DEF TypeOK, Next, AppTurnStep, Prepare, SaveContinuation, Attach,
         PersistFails, Invalidate, InvalidateFails, RequestStep, Decide,
         Claim, InvokeFrozen, Settle, Wake, RequestFails, Resume,
         SettleContinuation, SettleContinuationFails, EditScope, Crash, vars

LEMMA ApprovalTypeStep == TypeOK /\ [Next]_vars => TypeOK'
  BY OpsStep, ApprovalTurnsStep, ContStep, RequestsStep, CrashesStep DEF TypeOK

\* Types of the approval records, the turns, the requests and the executor.
THEOREM ApprovalTypeCorrect == Spec => []TypeOK
  BY ApprovalInitTypeOK, ApprovalTypeStep, PTL DEF Spec

-----------------------------------------------------------------------------
(* At most one request holds an operation.  DeviceOnce is not inductive by *)
(* itself: the step that counts is InvokeFrozen, and it needs to know that the   *)
(* request it belongs to is the only one that claimed the operation and    *)
(* that nothing was sent yet.                                              *)

Sent == {"executing", "executed", "unknown"}

\* A request past claim_execution holds an operation that is executing, and
\* before it calls the device nothing was sent.
Holding ==
    \A r \in Requests :
        /\ rpc[r] \in {"invoke", "settle"} => status[rop[r]] = "executing"
        /\ rpc[r] = "invoke" => calls[rop[r]] = 0

\* No two requests hold the same operation.
SoleHolder ==
    \A r1, r2 \in Requests :
        /\ rpc[r1] \in {"invoke", "settle"}
        /\ rpc[r2] \in {"invoke", "settle"}
        /\ rop[r1] = rop[r2]
        => r1 = r2

\* What was edited before its claim is never claimed.
StaleUnclaimed == \A o \in AppOps : scope[o] = "stale" => status[o] \notin Sent

DeviceInv == TypeOK /\ Holding /\ SoleHolder /\ DeviceOnce /\ StaleUnclaimed

LEMMA HoldingStep == DeviceInv /\ [Next]_vars => Holding' /\ SoleHolder'
<1> SUFFICES ASSUME DeviceInv, [Next]_vars PROVE Holding' /\ SoleHolder'
  OBVIOUS
<1> USE DEF DeviceInv, TypeOK, OpsOK, RequestsOK
<1>1. ASSUME UNCHANGED <<status, calls, rpc, rop>>
      PROVE  Holding' /\ SoleHolder'
  BY <1>1 DEF Holding, SoleHolder
<1>2. ASSUME NEW t \in AppTurns, NEW o \in AppOps, Prepare(t, o)
      PROVE  Holding' /\ SoleHolder'
  BY <1>2 DEF Holding, SoleHolder, Prepare, reqVars
<1>3. ASSUME NEW t \in AppTurns, NEW o \in AppOps, Invalidate(t, o)
      PROVE  Holding' /\ SoleHolder'
  BY <1>3 DEF Holding, SoleHolder, Invalidate, reqVars
<1>4. ASSUME NEW r \in Requests, NEW o \in AppOps, NEW d \in Decisions,
             Decide(r, o, d)
      PROVE  Holding' /\ SoleHolder'
  BY <1>4 DEF Holding, SoleHolder, Decide, Decided, AfterDecision, Goto
<1>5. ASSUME NEW r \in Requests, Claim(r)
      PROVE  Holding' /\ SoleHolder'
  BY <1>5 DEF Holding, SoleHolder, Claim, Claimable, Goto, DeviceOnce
<1>6. ASSUME NEW r \in Requests, InvokeFrozen(r)
      PROVE  Holding' /\ SoleHolder'
  <2>1. PICK sent \in {0, 1} : calls' = [calls EXCEPT ![rop[r]] = @ + sent]
    BY <1>6 DEF InvokeFrozen
  <2> QED BY <1>6, <2>1 DEF Holding, SoleHolder, InvokeFrozen, Goto
<1>7. ASSUME NEW r \in Requests, NEW x \in {"executed", "unknown"},
             Settle(r, x)
      PROVE  Holding' /\ SoleHolder'
  BY <1>7 DEF Holding, SoleHolder, Settle, Goto
<1>8. ASSUME NEW r \in Requests, Wake(r) \/ RequestFails(r)
      PROVE  Holding' /\ SoleHolder'
  BY <1>8 DEF Holding, SoleHolder, Wake, RequestFails, Goto, opVars
<1>9. ASSUME Crash
      PROVE  Holding' /\ SoleHolder'
  BY <1>9 DEF Holding, SoleHolder, Crash
<1> QED
  BY <1>1, <1>2, <1>3, <1>4, <1>5, <1>6, <1>7, <1>8, <1>9
  DEF Next, AppTurnStep, RequestStep, SaveContinuation, Attach, PersistFails,
      InvalidateFails, Resume, SettleContinuation, SettleContinuationFails,
      EditScope, vars, opVars, reqVars

LEMMA DeviceStep ==
    DeviceInv /\ [Next]_vars => DeviceOnce' /\ StaleUnclaimed'
<1> SUFFICES ASSUME DeviceInv, [Next]_vars PROVE DeviceOnce' /\ StaleUnclaimed'
  OBVIOUS
<1> USE DEF DeviceInv, TypeOK, OpsOK, RequestsOK
<1>1. ASSUME UNCHANGED <<status, calls, scope>>
      PROVE  DeviceOnce' /\ StaleUnclaimed'
  BY <1>1 DEF DeviceOnce, StaleUnclaimed
<1>2. ASSUME NEW t \in AppTurns, NEW o \in AppOps, Prepare(t, o)
      PROVE  DeviceOnce' /\ StaleUnclaimed'
  BY <1>2 DEF DeviceOnce, StaleUnclaimed, Sent, Prepare
<1>3. ASSUME NEW t \in AppTurns, NEW o \in AppOps, Invalidate(t, o)
      PROVE  DeviceOnce' /\ StaleUnclaimed'
  BY <1>3 DEF DeviceOnce, StaleUnclaimed, Sent, Invalidate
<1>4. ASSUME NEW r \in Requests, NEW o \in AppOps, NEW d \in Decisions,
             Decide(r, o, d)
      PROVE  DeviceOnce' /\ StaleUnclaimed'
  BY <1>4 DEF DeviceOnce, StaleUnclaimed, Sent, Decide, Decided, Decisions
<1>5. ASSUME NEW r \in Requests, Claim(r)
      PROVE  DeviceOnce' /\ StaleUnclaimed'
  BY <1>5 DEF DeviceOnce, StaleUnclaimed, Sent, Claim, Claimable, ScopeValid
<1>6. ASSUME NEW r \in Requests, InvokeFrozen(r)
      PROVE  DeviceOnce' /\ StaleUnclaimed'
  <2>1. PICK sent \in {0, 1} : calls' = [calls EXCEPT ![rop[r]] = @ + sent]
    BY <1>6 DEF InvokeFrozen
  <2>2. status[rop[r]] = "executing" /\ calls[rop[r]] = 0
    BY <1>6 DEF InvokeFrozen, Holding
  <2> QED BY <1>6, <2>1, <2>2 DEF DeviceOnce, StaleUnclaimed, InvokeFrozen
<1>7. ASSUME NEW r \in Requests, NEW x \in {"executed", "unknown"},
             Settle(r, x)
      PROVE  DeviceOnce' /\ StaleUnclaimed'
  BY <1>7 DEF DeviceOnce, StaleUnclaimed, Sent, Settle
<1>8. ASSUME NEW o \in AppOps, EditScope(o)
      PROVE  DeviceOnce' /\ StaleUnclaimed'
  BY <1>8 DEF DeviceOnce, StaleUnclaimed, Sent, EditScope
<1> QED
  BY <1>1, <1>2, <1>3, <1>4, <1>5, <1>6, <1>7, <1>8
  DEF Next, AppTurnStep, RequestStep, SaveContinuation, Attach, PersistFails,
      InvalidateFails, Wake, RequestFails, Resume, SettleContinuation,
      SettleContinuationFails, Crash, vars, opVars

LEMMA DeviceInvariant == Spec => []DeviceInv
<1>1. Init => DeviceInv
  BY ApprovalInitTypeOK DEF Init, DeviceInv, Holding, SoleHolder, DeviceOnce,
                    StaleUnclaimed
<1>2. DeviceInv /\ [Next]_vars => DeviceInv'
  BY ApprovalTypeStep, HoldingStep, DeviceStep DEF DeviceInv
<1> QED BY <1>1, <1>2, PTL DEF Spec

\* A frozen call is sent to the device at most once, and only if it was
\* approved and claimed: whatever the requests, repeated decisions, failed
\* saves and restarts.
THEOREM FrozenCallRunsOnce == Spec => []DeviceOnce
<1>1. DeviceInv => DeviceOnce
  BY DEF DeviceInv
<1> QED BY <1>1, DeviceInvariant, PTL

\* A call whose skill, device or connection was edited before it was claimed
\* never reaches the device.
THEOREM EditedCallNeverRuns == Spec => []StaleNeverRuns
<1>1. DeviceInv => StaleNeverRuns
  BY DEF DeviceInv, TypeOK, OpsOK, DeviceOnce, StaleUnclaimed, StaleNeverRuns,
         Sent
<1> QED BY <1>1, DeviceInvariant, PTL

-----------------------------------------------------------------------------
(* The loop is resumed once.  The invariant ties the executor to the       *)
(* continuation record: work is in the executor only while the record is   *)
(* "resuming", and the loop was not resumed before that work starts.       *)

\* Before the checkpoint there is no continuation to claim.
Unsaved == \A t \in AppTurns : apc[t] = "running" => cont[t] = "none"

\* Where the executor stands, by the status of the record.
Executor ==
    \A t \in AppTurns :
        /\ cont[t] \in {"none", "waiting_decisions"} =>
              pool[t] = "none" /\ resumes[t] = 0
        /\ pool[t] = "queued" => resumes[t] = 0
        /\ cont[t] = "resumed" => pool[t] = "none"
        /\ resumes[t] <= 1

\* The evidence of a claimed continuation is final.
FinalEvidence ==
    \A t \in AppTurns : cont[t] \in {"resuming", "resumed"} =>
        \A o \in batch[t] :
            evidence[t][o] = status[o] /\ status[o] \in Closed

ResumeInv == TypeOK /\ Holding /\ Unsaved /\ Executor /\ FinalEvidence

LEMMA UnsavedStep == ResumeInv /\ [Next]_vars => Unsaved'
<1> SUFFICES ASSUME ResumeInv, [Next]_vars PROVE Unsaved'
  OBVIOUS
<1> USE DEF ResumeInv, TypeOK, AppTurnsOK, ContOK
<1>1. ASSUME UNCHANGED <<apc, cont>> PROVE Unsaved'
  BY <1>1 DEF Unsaved
<1>2. ASSUME NEW t \in AppTurns, AppTurnStep(t) PROVE Unsaved'
  BY <1>2 DEF Unsaved, AppTurnStep, Prepare, SaveContinuation, Attach,
              PersistFails, Invalidate, InvalidateFails, contVars
<1>3. ASSUME NEW r \in Requests, Wake(r) PROVE Unsaved'
  BY <1>3 DEF Unsaved, Wake, Ready, appTurnVars
<1>4. ASSUME NEW t \in AppTurns, SettleContinuation(t) PROVE Unsaved'
  BY <1>4 DEF Unsaved, SettleContinuation, appTurnVars, Executor
<1>5. ASSUME Crash PROVE Unsaved'
  BY <1>5 DEF Unsaved, Crash
<1> QED
  BY <1>1, <1>2, <1>3, <1>4, <1>5
  DEF Next, RequestStep, Decide, Claim, InvokeFrozen, Settle, RequestFails, Resume,
      SettleContinuationFails, EditScope, vars, appTurnVars, contVars

LEMMA ExecutorStep == ResumeInv /\ [Next]_vars => Executor'
<1> SUFFICES ASSUME ResumeInv, [Next]_vars PROVE Executor'
  OBVIOUS
<1> USE DEF ResumeInv, TypeOK, ContOK
<1>1. ASSUME UNCHANGED <<cont, pool, resumes>> PROVE Executor'
  BY <1>1 DEF Executor
<1>2. ASSUME NEW t \in AppTurns, SaveContinuation(t) PROVE Executor'
  BY <1>2 DEF Executor, SaveContinuation, Unsaved
<1>3. ASSUME NEW r \in Requests, Wake(r) PROVE Executor'
  BY <1>3 DEF Executor, Wake, Ready
<1>4. ASSUME NEW t \in AppTurns, Resume(t) PROVE Executor'
  BY <1>4 DEF Executor, Resume
<1>5. ASSUME NEW t \in AppTurns,
             SettleContinuation(t) \/ SettleContinuationFails(t)
      PROVE  Executor'
  BY <1>5 DEF Executor, SettleContinuation, SettleContinuationFails
<1>6. ASSUME Crash PROVE Executor'
  BY <1>6 DEF Executor, Crash
<1> QED
  BY <1>1, <1>2, <1>3, <1>4, <1>5, <1>6
  DEF Next, AppTurnStep, Prepare, Attach, PersistFails, Invalidate,
      InvalidateFails, RequestStep, Decide, Claim, InvokeFrozen, Settle,
      RequestFails, EditScope, vars, contVars

\* No step changes a closed status.
LEMMA ClosedIsFinal ==
    ASSUME TypeOK, Holding, [Next]_vars, NEW o \in AppOps, status[o] \in Closed
    PROVE  status'[o] = status[o]
<1> USE DEF TypeOK, OpsOK, RequestsOK
<1>1. ASSUME NEW t \in AppTurns, NEW p \in AppOps,
             Prepare(t, p) \/ Invalidate(t, p)
      PROVE  status'[o] = status[o]
  BY <1>1 DEF Prepare, Invalidate, Closed
<1>2. ASSUME NEW r \in Requests, NEW p \in AppOps, NEW d \in Decisions,
             Decide(r, p, d)
      PROVE  status'[o] = status[o]
  BY <1>2 DEF Decide, Decided, Closed
<1>3. ASSUME NEW r \in Requests, Claim(r)
      PROVE  status'[o] = status[o]
  BY <1>3 DEF Claim, Claimable, Closed
<1>4. ASSUME NEW r \in Requests, NEW x \in {"executed", "unknown"},
             Settle(r, x)
      PROVE  status'[o] = status[o]
  BY <1>4 DEF Settle, Closed
<1>5. ASSUME UNCHANGED status PROVE status'[o] = status[o]
  BY <1>5
<1> QED
  BY <1>1, <1>2, <1>3, <1>4, <1>5
  DEF Next, AppTurnStep, SaveContinuation, Attach, PersistFails, InvalidateFails,
      RequestStep, InvokeFrozen, Wake, RequestFails, Resume, SettleContinuation,
      SettleContinuationFails, EditScope, Crash, vars, opVars

LEMMA ApprovalEvidenceStep == ResumeInv /\ [Next]_vars => FinalEvidence'
<1> SUFFICES ASSUME ResumeInv, [Next]_vars PROVE FinalEvidence'
  OBVIOUS
<1> USE DEF ResumeInv
<1>0. \A o \in AppOps : status[o] \in Closed => status'[o] = status[o]
  BY ClosedIsFinal
<1>1. ASSUME UNCHANGED <<cont, batch, evidence>> PROVE FinalEvidence'
  BY <1>0, <1>1 DEF FinalEvidence, TypeOK, AppTurnsOK
<1>2. ASSUME NEW t \in AppTurns, NEW o \in AppOps, Prepare(t, o)
      PROVE  FinalEvidence'
  BY <1>0, <1>2 DEF FinalEvidence, Prepare, Unsaved, TypeOK, AppTurnsOK, contVars
<1>3. ASSUME NEW t \in AppTurns, SaveContinuation(t) PROVE FinalEvidence'
  BY <1>3 DEF FinalEvidence, SaveContinuation, TypeOK, ContOK, opVars
<1>4. ASSUME NEW r \in Requests, Wake(r) PROVE FinalEvidence'
  BY <1>4 DEF FinalEvidence, Wake, Ready, TypeOK, AppTurnsOK, opVars, appTurnVars
<1>5. ASSUME NEW t \in AppTurns, SettleContinuation(t) PROVE FinalEvidence'
  BY <1>5 DEF FinalEvidence, SettleContinuation, Executor, TypeOK, ContOK,
              opVars, appTurnVars
<1> QED
  BY <1>1, <1>2, <1>3, <1>4, <1>5
  DEF Next, AppTurnStep, Attach, PersistFails, Invalidate, InvalidateFails,
      RequestStep, Decide, Claim, InvokeFrozen, Settle, RequestFails, Resume,
      SettleContinuationFails, EditScope, Crash, vars, contVars, appTurnVars

\* The loop of a turn is resumed at most once, when every operation of its
\* decision set is closed, and what it was told of them stays true.
THEOREM ResumedOnFacts == Spec => []ResumedOnFinalEvidence
<1>1. Init => Unsaved /\ Executor /\ FinalEvidence
  BY DEF Init, Unsaved, Executor, FinalEvidence
<1>2. TypeOK /\ Holding /\ Unsaved /\ Executor /\ FinalEvidence
        /\ [Next]_vars => Unsaved' /\ Executor' /\ FinalEvidence'
  BY UnsavedStep, ExecutorStep, ApprovalEvidenceStep DEF ResumeInv
<1>3. DeviceInv => TypeOK /\ Holding
  BY DEF DeviceInv
<1>4. Executor /\ FinalEvidence => ResumedOnFinalEvidence
  BY DEF Executor, FinalEvidence, ResumedOnFinalEvidence
<1> QED BY <1>1, <1>2, <1>3, <1>4, DeviceInvariant, PTL DEF Spec

-----------------------------------------------------------------------------
(* Governed memory: the saves an operation has left.                       *)

\* A record supersedes an older one, and ids are used in order.
Chained(mm) ==
    /\ \A m \in MemIds : mm[m].sup # NoMem => mm[m].sup < m
    /\ \A o, p \in MemIds : mm[o].status # "none" /\ mm[p].status = "none" => o < p

MemLine(mm, m) == MemAncestors(mm, m, MemAll(mm))
ReplacedBy(mm, m, o) == mm[m].status = "active" /\ o \in MemLine(mm, m)

\* The first save of a write: a record of an id that was not used.
SavesNew(mm, op, s) ==
    /\ op.name = "write" /\ s.id = op.id
    /\ mm[s.id].status = "none"
    /\ \A o \in MemIds : mm[o].status = "none" => s.id <= o
    /\ s.rec.sup # NoMem => s.rec.sup < s.id
    /\ s.rec.status \notin {"none", "gone"}

\* The saves of records that stay, with the link they have.
KeepsLink(mm, s) ==
    /\ MemExists(mm, s.id)
    /\ s.rec.status \notin {"none", "gone"} /\ s.rec.sup = mm[s.id].sup

SavesConfirm(mm, op, s) == op.name = "confirm" /\ KeepsLink(mm, s)

\* A conflict is noted in a record, or a proposal that was replaced is rejected.
SavesBeside(mm, op, s) ==
    /\ op.name = "write" /\ s.id # op.id /\ KeepsLink(mm, s)
    /\ mm[s.id].status # s.rec.status =>
          mm[s.id].status \in MemOpen /\ s.rec.status = "retired"

\* An active record is retired after the one that replaces it was saved, or before
\* its own follower is, which was active, a proposal, or replaced as well.
SavesAncestor(mm, op, rest, s) ==
    /\ s.id # op.id /\ KeepsLink(mm, s)
    /\ mm[s.id].status = "active" /\ s.rec.status = "retired"
    /\ \/ /\ op.name = "write"
          /\ (\A t \in rest : t.id # op.id) => ReplacedBy(mm, op.id, s.id)
          /\ \A t \in rest : t.id = op.id =>
                /\ ReplacedBy([mm EXCEPT ![t.id] = t.rec], t.id, s.id)
                /\ t.turn < s.turn
       \/ /\ op.name = "retire"
          /\ ReplacedBy(mm, op.id, s.id)
       \/ /\ op.name = "delete"
          /\ s.id \in MemLine(mm, op.id)
          /\ \/ mm[op.id].status \in MemOpen \cup {"active"}
             \/ \E n \in MemIds : ReplacedBy(mm, n, op.id)

\* The last save of a retirement or a deletion; until it is done, all the ancestors
\* that are still active and would come back are to be saved before it.
SavesLast(mm, op, rest, s) ==
    /\ op.name \in {"retire", "delete"} /\ s.id = op.id
    /\ MemExists(mm, s.id)
    /\ IF op.name = "retire" THEN s.rec.status = "retired" /\ s.rec.sup = mm[s.id].sup
       ELSE s.rec.status = "gone" /\ s.rec.sup = NoMem
    /\ \A t \in rest : t # s => t.turn < s.turn
    /\ (\/ mm[op.id].status = "active"
        \/ op.name = "delete" /\ \E n \in MemIds : ReplacedBy(mm, n, op.id))
       => \A o \in MemLine(mm, op.id) :
             mm[o].status = "active" => \E t \in rest : t.id = o

SavesFit(mm, op, rest) ==
    /\ op.id \in MemIds
    /\ \A s, t \in rest : s.id = t.id => s = t
    /\ \A s \in rest : \/ SavesNew(mm, op, s) \/ SavesConfirm(mm, op, s)
                       \/ SavesBeside(mm, op, s) \/ SavesAncestor(mm, op, rest, s)
                       \/ SavesLast(mm, op, rest, s)
    /\ op.name \in {"retire", "delete"} => \E s \in rest : s.id = op.id

\* The inductive invariant.
MemInv ==
    /\ MemTypeOK
    /\ Chained(mem)
    /\ mtodo # {} => SavesFit(mem, mop, mtodo)

-----------------------------------------------------------------------------
(* Revision chains.                                                        *)

\* The chain from m keeps to the records there are, goes on as long as the next
\* record exists, and is the least set that does.
LEMMA LineExists ==
    ASSUME NEW mm, NEW m PROVE MemLine(mm, m) \subseteq MemAll(mm)
BY DEF MemLine, MemAncestors

LEMMA LineGoesOn ==
    ASSUME NEW mm, NEW m, NEW x \in MemLine(mm, m) \cup {m}, mm[x].sup \in MemAll(mm)
    PROVE  mm[x].sup \in MemLine(mm, m)
BY DEF MemLine, MemAncestors

LEMMA LineIsLeast ==
    ASSUME NEW mm, NEW m, NEW S \in SUBSET MemAll(mm),
           \A x \in S \cup {m} : mm[x].sup \in MemAll(mm) => mm[x].sup \in S
    PROVE  MemLine(mm, m) \subseteq S
BY DEF MemLine, MemAncestors

\* The ancestors of an ancestor are ancestors.
LEMMA LineIsTransitive ==
    ASSUME NEW mm, NEW m, NEW o \in MemLine(mm, m)
    PROVE  MemLine(mm, o) \subseteq MemLine(mm, m)
<1> DEFINE S == MemLine(mm, m)
<1>1. S \in SUBSET MemAll(mm)
  BY LineExists
<1>2. \A x \in S \cup {o} : mm[x].sup \in MemAll(mm) => mm[x].sup \in S
  BY LineGoesOn
<1> QED
  BY <1>1, <1>2, LineIsLeast

\* Ancestors are older.
LEMMA LineIsOlder ==
    ASSUME NEW mm, NEW m \in MemIds,
           \A x \in MemIds : mm[x].sup \in MemIds => mm[x].sup < x
    PROVE  \A o \in MemLine(mm, m) : o \in MemIds /\ o < m
<1> DEFINE S == {o \in MemAll(mm) : o < m}
<1>1. S \in SUBSET MemAll(mm)
  OBVIOUS
<1>2. ASSUME NEW x \in S \cup {m}, mm[x].sup \in MemAll(mm)
      PROVE  mm[x].sup \in S
  <2>1. x \in MemIds /\ x <= m /\ mm[x].sup \in MemIds
    BY <1>2, MemAssumption DEF MemAll
  <2>2. mm[x].sup < m
    <3>1. mm[x].sup < x
      BY <2>1
    <3> DEFINE y == mm[x].sup
    <3>2. y \in Nat /\ x \in Nat /\ m \in Nat
      BY <2>1, MemAssumption
    <3>3. y < x
      BY <3>1
    <3> HIDE DEF y
    <3>4. y < m
      BY <3>2, <3>3, <2>1
    <3> QED
      BY <3>4 DEF y
  <2> QED
    BY <1>2, <2>2
<1>3. MemLine(mm, m) \subseteq S
  <2> HIDE DEF S
  <2> QED
    BY <1>1, <1>2, LineIsLeast
<1> QED
  BY <1>3 DEF MemAll

\* Chains depend on the links, and on which records exist.
LEMMA LineGrows ==
    ASSUME NEW mm, NEW mn, NEW m, MemAll(mm) \subseteq MemAll(mn),
           \A x \in MemAll(mm) \cup {m} : mn[x].sup = mm[x].sup
    PROVE  MemLine(mm, m) \subseteq MemLine(mn, m)
<1> DEFINE S == MemLine(mn, m) \cap MemAll(mm)
<1>1. S \in SUBSET MemAll(mm)
  OBVIOUS
<1>2. ASSUME NEW x \in S \cup {m}, mm[x].sup \in MemAll(mm)
      PROVE  mm[x].sup \in S
  <2>1. mn[x].sup = mm[x].sup
    OBVIOUS
  <2>2. mn[x].sup \in MemLine(mn, m)
    BY <1>2, <2>1, LineGoesOn
  <2> QED
    BY <1>2, <2>1, <2>2
<1>3. MemLine(mm, m) \subseteq S
  <2> HIDE DEF S
  <2> QED
    BY <1>1, <1>2, LineIsLeast
<1> QED
  BY <1>3

\* A chain that does not lead to d is not cut by the deletion of d.
LEMMA LineAvoids ==
    ASSUME NEW mm, NEW mn, NEW m, NEW d,
           MemAll(mn) = MemAll(mm) \ {d}, \A x \in MemIds \ {d} : mn[x].sup = mm[x].sup,
           m \in MemIds \ {d}, d \notin MemLine(mm, m)
    PROVE  MemLine(mm, m) \subseteq MemLine(mn, m)
<1> DEFINE S == MemLine(mm, m) \cap MemLine(mn, m)
<1>1. S \in SUBSET MemAll(mm)
  BY LineExists
<1>2. ASSUME NEW x \in S \cup {m}, mm[x].sup \in MemAll(mm)
      PROVE  mm[x].sup \in S
  <2>1. mm[x].sup \in MemLine(mm, m)
    BY <1>2, LineGoesOn
  <2>2. x \in MemIds \ {d}
    BY LineExists DEF MemAll
  <2>3. mn[x].sup = mm[x].sup /\ mn[x].sup \in MemAll(mn)
    BY <1>2, <2>1, <2>2
  <2>4. mn[x].sup \in MemLine(mn, m)
    BY <2>3, LineGoesOn
  <2> QED
    BY <2>1, <2>3, <2>4
<1>3. MemLine(mm, m) \subseteq S
  <2> HIDE DEF S
  <2> QED
    BY <1>1, <1>2, LineIsLeast
<1> QED
  BY <1>3

\* One that does loses no more than d and the ancestors of d.
LEMMA LineIsCut ==
    ASSUME NEW mm, NEW mn, NEW m, NEW d,
           MemAll(mn) = MemAll(mm) \ {d}, \A x \in MemIds \ {d} : mn[x].sup = mm[x].sup,
           m \in MemIds \ {d}
    PROVE  MemLine(mm, m) \subseteq MemLine(mn, m) \cup {d} \cup MemLine(mm, d)
<1> DEFINE S == (MemLine(mn, m) \cup {d} \cup MemLine(mm, d)) \cap MemAll(mm)
<1>1. S \in SUBSET MemAll(mm)
  OBVIOUS
<1>2. ASSUME NEW x \in S \cup {m}, mm[x].sup \in MemAll(mm)
      PROVE  mm[x].sup \in S
  <2>1. CASE x \in MemLine(mm, d) \cup {d}
    BY <1>2, <2>1, LineGoesOn
  <2>2. CASE x \in MemLine(mn, m) \cup {m} /\ x # d
    <3>1. x \in MemIds \ {d}
      BY <2>2, LineExists DEF MemAll
    <3>2. mn[x].sup = mm[x].sup
      BY <3>1
    <3>3. CASE mm[x].sup = d
      BY <1>2, <3>3
    <3>4. CASE mm[x].sup # d
      <4>1. mn[x].sup \in MemAll(mn)
        BY <1>2, <3>2, <3>4
      <4>2. mn[x].sup \in MemLine(mn, m)
        BY <2>2, <4>1, LineGoesOn
      <4> QED
        BY <1>2, <3>2, <4>2
    <3> QED
      BY <3>3, <3>4
  <2> QED
    BY <2>1, <2>2
<1>3. MemLine(mm, m) \subseteq S
  <2> HIDE DEF S
  <2> QED
    BY <1>1, <1>2, LineIsLeast
<1> QED
  BY <1>3

-----------------------------------------------------------------------------
(* One save.                                                               *)

MemSaveRecords == [id : MemIds, rec : MemRecords, turn : Nat]

LEMMA IdsAreOrdered ==
    \A a, b, c \in MemIds : (a < b => a # b) /\ (a < b /\ b < c => a # c)
BY MemAssumption

\* What a save does to the records.
LEMMA SaveChanges ==
    ASSUME NEW mm \in [MemIds -> MemRecords], NEW s \in MemSaveRecords,
           NEW mn, mn = [mm EXCEPT ![s.id] = s.rec]
    PROVE  /\ mn \in [MemIds -> MemRecords]
           /\ s.id \in MemIds /\ mn[s.id] = s.rec
           /\ \A x \in MemIds \ {s.id} : mn[x] = mm[x]
BY DEF MemSaveRecords

\* With the same records and links the chains are the same.
LEMMA LineIsSame ==
    ASSUME NEW mm, NEW mn, MemAll(mn) = MemAll(mm), \A x \in MemIds : mn[x].sup = mm[x].sup
    PROVE  \A m \in MemIds : MemLine(mn, m) = MemLine(mm, m)
<1> SUFFICES ASSUME NEW m \in MemIds PROVE MemLine(mn, m) = MemLine(mm, m)
  OBVIOUS
<1>1. \A x \in MemAll(mm) \cup {m} : mn[x].sup = mm[x].sup
  BY DEF MemAll
<1>2. MemLine(mm, m) \subseteq MemLine(mn, m)
  BY <1>1, LineGrows
<1>3. \A x \in MemAll(mn) \cup {m} : mm[x].sup = mn[x].sup
  BY <1>1
<1>4. MemLine(mn, m) \subseteq MemLine(mm, m)
  BY <1>3, LineGrows
<1> QED
  BY <1>2, <1>4

\* A save that keeps the link of its record keeps every chain.
LEMMA KeptLinkKeepsLines ==
    ASSUME NEW mm, NEW mn, NEW s, s.id \in MemIds,
           mn[s.id] = s.rec, \A x \in MemIds \ {s.id} : mn[x] = mm[x], KeepsLink(mm, s)
    PROVE  /\ MemAll(mn) = MemAll(mm)
           /\ \A x \in MemIds : mn[x].sup = mm[x].sup
           /\ \A x \in MemIds : MemLine(mn, x) = MemLine(mm, x)
<1>1. \A x \in MemIds : mn[x].sup = mm[x].sup
  BY DEF KeepsLink
<1>2. \A x \in MemIds : MemExists(mn, x) <=> MemExists(mm, x)
  BY DEF KeepsLink, MemExists
<1>3. MemAll(mn) = MemAll(mm)
  BY <1>2 DEF MemAll
<1> QED
  BY <1>1, <1>3, LineIsSame

LEMMA KeptLinkIsChained ==
    ASSUME NEW mm, NEW mn, NEW s, s.id \in MemIds,
           mn[s.id] = s.rec, \A x \in MemIds \ {s.id} : mn[x] = mm[x],
           KeepsLink(mm, s), Chained(mm)
    PROVE  Chained(mn)
<1>1. \A x \in MemIds : mn[x].sup = mm[x].sup
  BY DEF KeepsLink
<1>2. \A x \in MemIds : mn[x].status = "none" <=> mm[x].status = "none"
  BY DEF KeepsLink, MemExists
<1> QED
  BY <1>1, <1>2 DEF Chained

\* Ancestors are older in a chained store.
LEMMA ChainedIsOlder ==
    ASSUME NEW mm, Chained(mm), NEW m \in MemIds, NEW o \in MemLine(mm, m)
    PROVE  o \in MemIds /\ o < m
<1>1. \A x \in MemIds : mm[x].sup \in MemIds => mm[x].sup < x
  BY MemAssumption DEF Chained
<1> QED
  BY <1>1, LineIsOlder

\* The operation's other saves still fit after one that keeps its record's link.
LEMMA OthersFitKept ==
    ASSUME NEW mm \in [MemIds -> MemRecords], NEW op, NEW rest \in SUBSET MemSaveRecords,
           Chained(mm), SavesFit(mm, op, rest), NEW s \in rest,
           KeepsLink(mm, s), op.name # "confirm" => s.id # op.id,
           op.name \in {"retire", "delete"} => SavesAncestor(mm, op, rest, s),
           NEW mn \in [MemIds -> MemRecords], mn[s.id] = s.rec,
           \A x \in MemIds \ {s.id} : mn[x] = mm[x],
           NEW t \in rest \ {s}
    PROVE  \/ SavesNew(mn, op, t) \/ SavesConfirm(mn, op, t)
           \/ SavesBeside(mn, op, t) \/ SavesAncestor(mn, op, rest \ {s}, t)
           \/ SavesLast(mn, op, rest \ {s}, t)
<1>0. /\ mn \in [MemIds -> MemRecords]
      /\ s.id \in MemIds /\ mn[s.id] = s.rec
      /\ \A x \in MemIds \ {s.id} : mn[x] = mm[x]
  BY DEF MemSaveRecords
<1>1. /\ MemAll(mn) = MemAll(mm)
      /\ \A x \in MemIds : mn[x].sup = mm[x].sup
      /\ \A x \in MemIds : MemLine(mn, x) = MemLine(mm, x)
  BY <1>0, KeptLinkKeepsLines
<1>2. t.id \in MemIds /\ t.id # s.id
  BY DEF SavesFit, MemSaveRecords
<1>3. mn[t.id] = mm[t.id]
  BY <1>0, <1>2
<1>4. op.id \in MemIds
  BY DEF SavesFit
<1>5. CASE SavesNew(mm, op, t)
  <2>1. \A x \in MemIds : mn[x].status = "none" => mm[x].status = "none"
    BY <1>0 DEF KeepsLink
  <2>2. SavesNew(mn, op, t)
    BY <1>3, <1>5, <2>1 DEF SavesNew
  <2> QED
    BY <2>2
<1>6. CASE SavesConfirm(mm, op, t)
  BY <1>3, <1>6 DEF SavesConfirm, KeepsLink, MemExists
<1>7. CASE SavesBeside(mm, op, t)
  BY <1>3, <1>7 DEF SavesBeside, KeepsLink, MemExists
<1>8. CASE SavesAncestor(mm, op, rest, t)
  <2>1. t.id # op.id /\ KeepsLink(mn, t) /\ mn[t.id].status = "active" /\ t.rec.status = "retired"
    BY <1>3, <1>8 DEF SavesAncestor, KeepsLink, MemExists
  <2>2. CASE op.name = "write"
    <3>1. s.id # op.id /\ mn[op.id] = mm[op.id]
      BY <1>0, <1>4, <2>2
    <3>2. (\A u \in rest \ {s} : u.id # op.id) => ReplacedBy(mn, op.id, t.id)
      <4>1. SUFFICES ASSUME \A u \in rest \ {s} : u.id # op.id PROVE ReplacedBy(mn, op.id, t.id)
        OBVIOUS
      <4>2. \A u \in rest : u.id # op.id
        BY <3>1, <4>1
      <4>3. ReplacedBy(mm, op.id, t.id)
        BY <1>8, <2>2, <4>2 DEF SavesAncestor
      <4> QED
        BY <1>1, <1>4, <3>1, <4>3 DEF ReplacedBy
    <3>3. ASSUME NEW u \in rest \ {s}, u.id = op.id
          PROVE  ReplacedBy([mn EXCEPT ![u.id] = u.rec], u.id, t.id) /\ u.turn < t.turn
      <4> DEFINE am == [mm EXCEPT ![u.id] = u.rec]
                 an == [mn EXCEPT ![u.id] = u.rec]
      <4>1. ReplacedBy(am, u.id, t.id) /\ u.turn < t.turn
        BY <1>8, <2>2, <3>3 DEF SavesAncestor
      <4>2. u \in MemSaveRecords /\ s \in MemSaveRecords
        OBVIOUS
      <4>3. am \in [MemIds -> MemRecords] /\ am[u.id] = u.rec /\ an[u.id] = u.rec /\ u.id \in MemIds
        BY <1>0, <4>2 DEF MemSaveRecords
      <4>4. an[s.id] = s.rec /\ \A x \in MemIds \ {s.id} : an[x] = am[x]
        BY <1>0, <3>1, <3>3, <4>2 DEF MemSaveRecords
      <4>5. am[s.id] = mm[s.id]
        BY <1>0, <3>1, <3>3
      <4>6. KeepsLink(am, s)
        BY <4>5 DEF KeepsLink, MemExists
      <4> HIDE DEF am, an
      <4>7. MemLine(an, u.id) = MemLine(am, u.id)
        BY <1>0, <4>3, <4>4, <4>6, KeptLinkKeepsLines
      <4>8. ReplacedBy(an, u.id, t.id)
        BY <4>1, <4>3, <4>7 DEF ReplacedBy
      <4> QED
        BY <4>1, <4>8 DEF an
    <3> QED
      BY <2>1, <2>2, <3>2, <3>3 DEF SavesAncestor
  <2>3. CASE op.name = "retire"
    <3>1. s.id # op.id /\ mn[op.id] = mm[op.id]
      BY <1>0, <1>4, <2>3
    <3>2. ReplacedBy(mn, op.id, t.id)
      BY <1>1, <1>4, <1>8, <2>3, <3>1 DEF SavesAncestor, ReplacedBy
    <3> QED
      BY <2>1, <2>3, <3>2 DEF SavesAncestor
  <2>4. CASE op.name = "delete"
    <3>1. s.id # op.id /\ mn[op.id] = mm[op.id]
      BY <1>0, <1>4, <2>4
    <3>2. t.id \in MemLine(mn, op.id)
      BY <1>1, <1>4, <1>8, <2>4 DEF SavesAncestor
    <3>3. s.id \in MemLine(mm, op.id)
      BY <2>4 DEF SavesAncestor
    <3>4. ASSUME NEW n \in MemIds, ReplacedBy(mm, n, op.id)
          PROVE  ReplacedBy(mn, n, op.id)
      <4>1. s.id < op.id /\ op.id < n
        BY <1>4, <3>3, <3>4, ChainedIsOlder DEF ReplacedBy
      <4>2. s.id # n
        BY <1>0, <1>4, <4>1, IdsAreOrdered
      <4> QED
        BY <1>0, <1>1, <3>4, <4>2 DEF ReplacedBy
    <3>5. \/ mn[op.id].status \in MemOpen \cup {"active"}
          \/ \E n \in MemIds : ReplacedBy(mn, n, op.id)
      BY <1>8, <2>4, <3>1, <3>4 DEF SavesAncestor
    <3> QED
      BY <2>1, <2>4, <3>2, <3>5 DEF SavesAncestor
  <2> QED
    BY <1>8, <2>2, <2>3, <2>4 DEF SavesAncestor
<1>9. CASE SavesLast(mm, op, rest, t)
  <2>1. op.name \in {"retire", "delete"} /\ t.id = op.id /\ MemExists(mn, t.id)
    BY <1>3, <1>9 DEF SavesLast, MemExists
  <2>2. IF op.name = "retire" THEN t.rec.status = "retired" /\ t.rec.sup = mn[t.id].sup
        ELSE t.rec.status = "gone" /\ t.rec.sup = NoMem
    BY <1>3, <1>9 DEF SavesLast
  <2>3. \A u \in rest \ {s} : u # t => u.turn < t.turn
    BY <1>9 DEF SavesLast
  <2>4. s.rec.status = "retired"
    BY <2>1 DEF SavesAncestor
  <2>5. mn[op.id] = mm[op.id]
    BY <1>3, <2>1
  <2>6. ASSUME NEW n \in MemIds, ReplacedBy(mn, n, op.id)
        PROVE  ReplacedBy(mm, n, op.id)
    <3>1. n # s.id
      BY <1>0, <2>4, <2>6 DEF ReplacedBy
    <3> QED
      BY <1>0, <1>1, <2>6, <3>1 DEF ReplacedBy
  <2>7. ASSUME \/ mn[op.id].status = "active"
               \/ op.name = "delete" /\ \E n \in MemIds : ReplacedBy(mn, n, op.id),
               NEW o \in MemLine(mn, op.id), mn[o].status = "active"
        PROVE  \E u \in rest \ {s} : u.id = o
    <3>1. o \in MemLine(mm, op.id) /\ o \in MemIds
      BY <1>1, <1>4, LineExists DEF MemAll
    <3>2. o # s.id /\ mm[o].status = "active"
      BY <1>0, <2>4, <2>7, <3>1
    <3>3. \/ mm[op.id].status = "active"
          \/ op.name = "delete" /\ \E n \in MemIds : ReplacedBy(mm, n, op.id)
      BY <2>5, <2>6, <2>7
    <3>4. \E u \in rest : u.id = o
      BY <1>9, <3>1, <3>2, <3>3 DEF SavesLast
    <3> QED
      BY <3>2, <3>4
  <2> QED
    BY <2>1, <2>2, <2>3, <2>7 DEF SavesLast
<1> QED
  BY <1>5, <1>6, <1>7, <1>8, <1>9 DEF SavesFit

\* The first save of a write, which gives a new record its link.
LEMMA NewSaveKeeps ==
    ASSUME NEW mm \in [MemIds -> MemRecords], NEW op, NEW rest \in SUBSET MemSaveRecords,
           Chained(mm), SavesFit(mm, op, rest), NEW s \in rest, SavesNew(mm, op, s)
    PROVE  LET mn == [mm EXCEPT ![s.id] = s.rec]
           IN  Chained(mn) /\ SavesFit(mn, op, rest \ {s})
<1> DEFINE mn == [mm EXCEPT ![s.id] = s.rec]
<1>0. s.id \in MemIds /\ mn[s.id] = s.rec /\ \A x \in MemIds \ {s.id} : mn[x] = mm[x]
  BY DEF MemSaveRecords
<1>1. Chained(mn)
  <2>1. ASSUME NEW x \in MemIds, mn[x].sup # NoMem
        PROVE  mn[x].sup < x
    BY <1>0, <2>1 DEF SavesNew, Chained
  <2>2. ASSUME NEW o \in MemIds, NEW p \in MemIds, mn[o].status # "none", mn[p].status = "none"
        PROVE  o < p
    <3>1. p # s.id /\ mm[p].status = "none"
      BY <1>0, <2>2 DEF SavesNew
    <3>2. CASE o = s.id
      <4>1. s.id <= p
        BY <3>1 DEF SavesNew
      <4> QED
        BY <3>1, <3>2, <4>1, MemAssumption
    <3>3. CASE o # s.id
      BY <1>0, <2>2, <3>1, <3>3 DEF Chained
    <3> QED
      BY <3>2, <3>3
  <2> HIDE DEF mn
  <2> QED
    BY <2>1, <2>2 DEF Chained
<1>2. op.name = "write" /\ s.id = op.id
  BY DEF SavesNew
<1>3. ASSUME NEW t \in rest \ {s}
      PROVE  \/ SavesBeside(mn, op, t)
             \/ SavesAncestor(mn, op, rest \ {s}, t)
  <2>1. t.id \in MemIds /\ t.id # s.id
    BY DEF SavesFit, MemSaveRecords
  <2>2. mn[t.id] = mm[t.id]
    BY <1>0, <2>1
  <2>3. ~SavesNew(mm, op, t) /\ ~SavesConfirm(mm, op, t) /\ ~SavesLast(mm, op, rest, t)
    BY <1>2, <2>1 DEF SavesNew, SavesConfirm, SavesLast
  <2>4. CASE SavesBeside(mm, op, t)
    <3> HIDE DEF mn
    <3> QED
      BY <2>2, <2>4 DEF SavesBeside, KeepsLink, MemExists
  <2>5. CASE SavesAncestor(mm, op, rest, t)
    <3>1. t.id # op.id /\ KeepsLink(mm, t) /\ mm[t.id].status = "active" /\ t.rec.status = "retired"
      BY <2>5 DEF SavesAncestor
    <3>2. ReplacedBy(mn, op.id, t.id)
      BY <1>2, <2>5 DEF SavesAncestor
    <3>3. \A u \in rest \ {s} : u.id # op.id
      BY <1>2 DEF SavesFit
    <3> HIDE DEF mn
    <3>4. KeepsLink(mn, t) /\ mn[t.id].status = "active"
      BY <2>2, <3>1 DEF KeepsLink, MemExists
    <3> QED
      BY <1>2, <3>1, <3>2, <3>3, <3>4 DEF SavesAncestor
  <2> QED
    BY <2>3, <2>4, <2>5 DEF SavesFit
<1>4. SavesFit(mn, op, rest \ {s})
  <2> HIDE DEF mn
  <2> QED
    BY <1>2, <1>3 DEF SavesFit
<1> QED
  BY <1>1, <1>4

\* Any save leaves records that are chained and an operation whose saves fit.
LEMMA SaveKeeps ==
    ASSUME NEW mm \in [MemIds -> MemRecords], NEW op, NEW rest \in SUBSET MemSaveRecords,
           Chained(mm), SavesFit(mm, op, rest),
           NEW s \in rest, \A t \in rest : s.turn <= t.turn,
           NEW mn, mn = [mm EXCEPT ![s.id] = s.rec]
    PROVE  Chained(mn) /\ (rest \ {s} # {} => SavesFit(mn, op, rest \ {s}))
<1>1. CASE SavesNew(mm, op, s)
  BY <1>1, NewSaveKeeps
<1>2. CASE SavesConfirm(mm, op, s) \/ SavesBeside(mm, op, s) \/ SavesAncestor(mm, op, rest, s)
  <2>1. KeepsLink(mm, s)
    BY <1>2 DEF SavesConfirm, SavesBeside, SavesAncestor
  <2>2. op.name # "confirm" => s.id # op.id
    BY <1>2 DEF SavesConfirm, SavesBeside, SavesAncestor
  <2>3. op.name \in {"retire", "delete"} => SavesAncestor(mm, op, rest, s)
    BY <1>2 DEF SavesConfirm, SavesBeside
  <2>4. /\ mn \in [MemIds -> MemRecords] /\ s.id \in MemIds /\ mn[s.id] = s.rec
        /\ \A x \in MemIds \ {s.id} : mn[x] = mm[x]
    BY SaveChanges
  <2>5. Chained(mn)
    BY <2>1, <2>4, KeptLinkIsChained
  <2>6. ASSUME NEW t \in rest \ {s}
        PROVE  \/ SavesNew(mn, op, t) \/ SavesConfirm(mn, op, t)
               \/ SavesBeside(mn, op, t) \/ SavesAncestor(mn, op, rest \ {s}, t)
               \/ SavesLast(mn, op, rest \ {s}, t)
    BY <2>1, <2>2, <2>3, <2>4, OthersFitKept
  <2>7. op.name \in {"retire", "delete"} => \E t \in rest \ {s} : t.id = op.id
    BY <2>2 DEF SavesFit
  <2>8. op.id \in MemIds /\ \A t, u \in rest \ {s} : t.id = u.id => t = u
    BY DEF SavesFit
  <2>9. SavesFit(mn, op, rest \ {s})
    BY <2>6, <2>7, <2>8 DEF SavesFit
  <2> QED
    BY <2>5, <2>9
<1>3. CASE SavesLast(mm, op, rest, s)
  <2>1. ASSUME NEW t \in rest, t # s PROVE FALSE
    <3>1. t.turn < s.turn /\ s.turn <= t.turn
      BY <1>3, <2>1 DEF SavesLast
    <3>2. t.turn \in Nat /\ s.turn \in Nat
      BY DEF MemSaveRecords
    <3> QED
      BY <3>1, <3>2
  <2>2. /\ s.id \in MemIds /\ mn[s.id] = s.rec
        /\ \A x \in MemIds \ {s.id} : mn[x] = mm[x]
    BY SaveChanges
  <2>3. MemExists(mm, s.id)
    BY <1>3 DEF SavesLast
  <2>4. (s.rec.sup = NoMem \/ s.rec.sup = mm[s.id].sup) /\ s.rec.status \in {"retired", "gone"}
    BY <1>3 DEF SavesLast
  <2>5. \A x \in MemIds : mn[x].sup = mm[x].sup \/ mn[x].sup = NoMem
    BY <2>2, <2>4
  <2>6. \A x \in MemIds : mn[x].status = "none" <=> mm[x].status = "none"
    BY <2>2, <2>3, <2>4 DEF MemExists
  <2>7. Chained(mn)
    BY <2>5, <2>6 DEF Chained
  <2> QED
    BY <2>1, <2>7
<1> QED
  BY <1>1, <1>2, <1>3 DEF SavesFit

-----------------------------------------------------------------------------
(* What a save brings back.                                                *)

\* An active record is superseded just if another active one replaces it.
LEMMA SupersededIsReplaced ==
    ASSUME NEW mm, NEW m \in MemIds, mm[m].status = "active"
    PROVE  m \in Superseded(mm) <=> \E n \in MemIds : ReplacedBy(mm, n, m)
<1>1. \A n \in MemIds : m \notin MemAncestors(mm, n, MemProposals(mm))
  BY DEF MemAncestors, MemProposals, MemOpen
<1>2. \A n \in MemIds : mm[n].status \in MemOpen => mm[n].status # "active"
  BY DEF MemOpen
<1>3. m \in Superseded(mm) <=>
         \E n \in MemIds : m \in IF mm[n].status = "active" THEN MemAncestors(mm, n, MemAll(mm))
                                 ELSE IF mm[n].status \in MemOpen
                                      THEN MemAncestors(mm, n, MemProposals(mm)) ELSE {}
  BY DEF Superseded
<1> QED
  BY <1>1, <1>2, <1>3 DEF ReplacedBy, MemLine

\* After a save that is not a confirmation's, nor one of the deletion of a proposal,
\* whatever was replaced and stays active is replaced still.
LEMMA SaveLeavesReplaced ==
    ASSUME NEW mm \in [MemIds -> MemRecords], NEW op, NEW rest \in SUBSET MemSaveRecords,
           Chained(mm), SavesFit(mm, op, rest),
           NEW s \in rest, \A t \in rest : s.turn <= t.turn,
           op.name # "confirm", ~(op.name = "delete" /\ mm[op.id].status \in MemOpen),
           NEW mn \in [MemIds -> MemRecords], mn[s.id] = s.rec,
           \A x \in MemIds \ {s.id} : mn[x] = mm[x],
           NEW m \in MemIds, mm[m].status = "active", mn[m].status = "active",
           NEW n \in MemIds, ReplacedBy(mm, n, m)
    PROVE  \E k \in MemIds : ReplacedBy(mn, k, m)
<1>1. s.id \in MemIds /\ op.id \in MemIds
  BY DEF MemSaveRecords, SavesFit
<1>2. mm[n].status = "active" /\ m \in MemLine(mm, n)
  BY DEF ReplacedBy
<1>3. \A o \in MemIds : \A x \in MemLine(mm, o) : x \in MemIds /\ x < o
  BY ChainedIsOlder
<1>4. CASE SavesNew(mm, op, s)
  <2>1. n # s.id /\ s.id \notin MemAll(mm)
    BY <1>2, <1>4 DEF SavesNew, MemAll, MemExists
  <2>2. \A x \in MemAll(mm) : x \in MemIds \ {s.id}
    BY <2>1 DEF MemAll
  <2>3. MemAll(mm) \subseteq MemAll(mn)
    BY <2>2 DEF MemAll, MemExists
  <2>4. \A x \in MemAll(mm) \cup {n} : mn[x].sup = mm[x].sup
    BY <2>1, <2>2
  <2>5. MemLine(mm, n) \subseteq MemLine(mn, n)
    BY <2>3, <2>4, LineGrows
  <2> QED
    BY <1>2, <2>1, <2>5 DEF ReplacedBy
<1>5. CASE SavesBeside(mm, op, s)
  <2>1. \A x \in MemIds : MemLine(mn, x) = MemLine(mm, x)
    BY <1>1, <1>5, KeptLinkKeepsLines DEF SavesBeside
  <2>2. mn[n].status = "active"
    BY <1>2, <1>5 DEF SavesBeside, MemOpen
  <2> QED
    BY <1>2, <2>1, <2>2 DEF ReplacedBy
<1>6. CASE SavesAncestor(mm, op, rest, s)
  <2>1. \A x \in MemIds : MemLine(mn, x) = MemLine(mm, x)
    <3>1. KeepsLink(mm, s)
      BY <1>6 DEF SavesAncestor
    <3> QED
      BY <1>1, <3>1, KeptLinkKeepsLines
  <2>2. CASE n # s.id
    BY <1>2, <2>1, <2>2 DEF ReplacedBy
  <2>3. CASE n = s.id
    <3>1. ASSUME NEW k \in MemIds, ReplacedBy(mm, k, s.id), k # s.id
          PROVE  ReplacedBy(mn, k, m)
      <4>1. m \in MemLine(mm, k)
        BY <1>2, <2>3, <3>1, LineIsTransitive DEF ReplacedBy
      <4> QED
        BY <2>1, <3>1, <4>1 DEF ReplacedBy
    <3>2. s.id # op.id
      BY <1>6 DEF SavesAncestor
    <3>3. CASE op.name = "write"
      <4>1. ASSUME NEW t \in rest, t.id = op.id PROVE FALSE
        <5>1. t.turn < s.turn /\ s.turn <= t.turn
          BY <1>6, <3>3, <4>1 DEF SavesAncestor
        <5>2. t.turn \in Nat /\ s.turn \in Nat
          BY DEF MemSaveRecords
        <5> QED
          BY <5>1, <5>2
      <4>2. ReplacedBy(mm, op.id, s.id)
        BY <1>6, <3>3, <4>1 DEF SavesAncestor
      <4> QED
        BY <1>1, <3>1, <3>2, <4>2
    <3>4. CASE op.name = "retire"
      BY <1>1, <1>6, <3>1, <3>2, <3>4 DEF SavesAncestor
    <3>5. CASE op.name = "delete"
      <4>1. s.id \in MemLine(mm, op.id)
        BY <1>6, <3>5 DEF SavesAncestor
      <4>2. CASE mm[op.id].status = "active"
        BY <1>1, <3>1, <3>2, <4>1, <4>2 DEF ReplacedBy
      <4>3. ASSUME NEW k \in MemIds, ReplacedBy(mm, k, op.id)
            PROVE  \E j \in MemIds : ReplacedBy(mn, j, m)
        <5>1. s.id \in MemLine(mm, k)
          BY <4>1, <4>3, LineIsTransitive DEF ReplacedBy
        <5>2. s.id # k
          BY <1>1, <1>3, <5>1, IdsAreOrdered
        <5> QED
          BY <3>1, <4>3, <5>1, <5>2 DEF ReplacedBy
      <4> QED
        BY <1>6, <3>5, <4>2, <4>3 DEF SavesAncestor
    <3> QED
      BY <1>6, <3>3, <3>4, <3>5 DEF SavesAncestor
  <2> QED
    BY <2>2, <2>3
<1>7. CASE SavesLast(mm, op, rest, s)
  <2>0. s.id = op.id /\ op.name \in {"retire", "delete"}
    BY <1>7 DEF SavesLast
  <2>1. ASSUME NEW t \in rest, t # s PROVE FALSE
    <3>1. t.turn < s.turn /\ s.turn <= t.turn
      BY <1>7, <2>1 DEF SavesLast
    <3>2. t.turn \in Nat /\ s.turn \in Nat
      BY DEF MemSaveRecords
    <3> QED
      BY <3>1, <3>2
  <2>2. ASSUME m \in MemLine(mm, op.id),
               \/ mm[op.id].status = "active"
               \/ op.name = "delete" /\ \E k \in MemIds : ReplacedBy(mm, k, op.id)
        PROVE  FALSE
    <3>1. \E t \in rest : t.id = m
      BY <1>7, <2>2 DEF SavesLast
    <3>2. m = op.id
      BY <2>0, <2>1, <3>1
    <3>3. op.id < op.id
      BY <1>1, <1>3, <2>2, <3>2
    <3> QED
      BY <1>1, <3>3, IdsAreOrdered
  <2>3. n # s.id
    BY <1>2, <2>0, <2>2
  <2>4. mn[n] = mm[n]
    BY <2>3
  <2>5. CASE op.name = "retire"
    <3>1. KeepsLink(mm, s)
      BY <1>7, <2>5 DEF SavesLast, KeepsLink
    <3>2. \A x \in MemIds : MemLine(mn, x) = MemLine(mm, x)
      BY <1>1, <3>1, KeptLinkKeepsLines
    <3> QED
      BY <1>2, <2>4, <3>2 DEF ReplacedBy
  <2>6. CASE op.name = "delete"
    <3>1. mn[s.id].status = "gone" /\ MemExists(mm, s.id)
      BY <1>7, <2>6 DEF SavesLast
    <3>2. \A x \in MemIds : MemExists(mn, x) <=> MemExists(mm, x) /\ x # s.id
      BY <3>1 DEF MemExists
    <3>3. MemAll(mn) = MemAll(mm) \ {s.id}
      BY <3>2 DEF MemAll
    <3>4. \A x \in MemIds \ {s.id} : mn[x].sup = mm[x].sup
      OBVIOUS
    <3>5. CASE s.id \notin MemLine(mm, n)
      <4>1. MemLine(mm, n) \subseteq MemLine(mn, n)
        BY <2>3, <3>3, <3>4, <3>5, LineAvoids
      <4> QED
        BY <1>2, <2>4, <4>1 DEF ReplacedBy
    <3>6. CASE s.id \in MemLine(mm, n)
      <4>1. MemLine(mm, n) \subseteq MemLine(mn, n) \cup {s.id} \cup MemLine(mm, s.id)
        BY <2>3, <3>3, <3>4, LineIsCut
      <4>2. m # s.id
        BY <3>1
      <4>3. ReplacedBy(mm, n, op.id)
        BY <1>2, <2>0, <3>6 DEF ReplacedBy
      <4>4. m \notin MemLine(mm, s.id)
        BY <2>0, <2>2, <2>6, <4>3
      <4>5. m \in MemLine(mn, n)
        BY <1>2, <4>1, <4>2, <4>4
      <4> QED
        BY <1>2, <2>4, <4>5 DEF ReplacedBy
    <3> QED
      BY <3>5, <3>6
  <2> QED
    BY <2>0, <2>5, <2>6
<1> QED
  BY <1>4, <1>5, <1>6, <1>7 DEF SavesFit, SavesConfirm

-----------------------------------------------------------------------------
(* The operations.                                                         *)

\* The saves that retire the ancestors of m.
LEMMA RetiringSaves ==
    ASSUME NEW mm \in [MemIds -> MemRecords], Chained(mm), NEW m \in MemIds,
           NEW s \in RetireAncestors(mm, m)
    PROVE  /\ s \in MemSaveRecords /\ s.id # m /\ s.id \in MemLine(mm, m)
           /\ KeepsLink(mm, s) /\ mm[s.id].status = "active" /\ s.rec.status = "retired"
           /\ s.turn > 3 /\ s.turn < AfterAncestors(m)
           /\ \A t \in RetireAncestors(mm, m) : t.id = s.id => t = s
<1>1. PICK o \in MemLine(mm, m) :
         mm[o].status = "active" /\ s = MemSave(o, [mm[o] EXCEPT !.status = "retired"], 3 + (m - o))
  BY DEF RetireAncestors, MemLine
<1>2. o \in MemIds /\ o < m
  BY ChainedIsOlder
<1>3. mm[o] \in MemRecords
  BY <1>2
<1>4. PICK r \in MemRecords : r = mm[o]
  BY <1>3
<1>5. /\ s.id = o /\ s.turn = 3 + (m - o) /\ s.rec = [r EXCEPT !.status = "retired"]
      /\ s = [id |-> s.id, rec |-> s.rec, turn |-> s.turn]
  BY <1>1, <1>4 DEF MemSave
<1>6. /\ s.rec \in MemRecords /\ s.rec.status = "retired" /\ s.rec.sup = r.sup
  BY <1>5 DEF MemRecords
<1>7. s.turn \in Nat /\ s.turn > 3 /\ s.turn < AfterAncestors(m)
  BY <1>2, <1>5, MemAssumption DEF AfterAncestors
<1>8. s \in MemSaveRecords
  BY <1>2, <1>5, <1>6, <1>7 DEF MemSaveRecords
<1>9. KeepsLink(mm, s)
  BY <1>1, <1>2, <1>4, <1>5, <1>6 DEF KeepsLink, MemExists
<1>10. s.id # m
  BY <1>2, <1>5, IdsAreOrdered
<1>11. ASSUME NEW t \in RetireAncestors(mm, m), t.id = s.id PROVE t = s
  <2>1. PICK a \in MemIds :
           t = MemSave(a, [mm[a] EXCEPT !.status = "retired"], 3 + (m - a))
    BY DEF RetireAncestors, MemAncestors, MemAll
  <2>2. a = o
    BY <1>5, <1>11, <2>1 DEF MemSave
  <2> QED
    BY <1>1, <2>1, <2>2
<1> QED
  BY <1>1, <1>5, <1>6, <1>7, <1>8, <1>9, <1>10, <1>11

\* A retirement: the record's active ancestors, if it is active, and then itself.
LEMMA RetirementFits ==
    ASSUME MemInv, NEW m \in MemIds, RetireMemory(m)
    PROVE  mtodo' \subseteq MemSaveRecords /\ SavesFit(mem, mop', mtodo')
<1> DEFINE last == MemSave(m, [mem[m] EXCEPT !.status = "retired"], AfterAncestors(m))
           more == IF mem[m].status = "active" THEN RetireAncestors(mem, m) ELSE {}
<1>0. mem \in [MemIds -> MemRecords] /\ Chained(mem)
  BY DEF MemInv, MemTypeOK
<1>1. /\ mtodo' = {last} \cup more
      /\ mop'.name = "retire" /\ mop'.id = m
      /\ MemExists(mem, m)
  BY DEF RetireMemory, MemBegin
<1>2. PICK r \in MemRecords : r = mem[m]
  BY <1>0
<1>3. /\ last.id = m /\ last.turn = AfterAncestors(m) /\ last.rec = [r EXCEPT !.status = "retired"]
      /\ last = [id |-> last.id, rec |-> last.rec, turn |-> last.turn]
  BY <1>2 DEF MemSave
<1>4. last.rec \in MemRecords /\ last.rec.status = "retired" /\ last.rec.sup = mem[m].sup
  BY <1>2, <1>3 DEF MemRecords
<1>5. last \in MemSaveRecords
  BY <1>3, <1>4, MemAssumption DEF MemSaveRecords, AfterAncestors
<1> HIDE DEF last
<1>6. ASSUME NEW s \in more
      PROVE  /\ s \in MemSaveRecords /\ s.id # m /\ s.turn < last.turn
             /\ mem[m].status = "active"
             /\ SavesAncestor(mem, mop', mtodo', s)
             /\ \A t \in more : t.id = s.id => t = s
  <2>1. mem[m].status = "active" /\ s \in RetireAncestors(mem, m)
    BY <1>6
  <2>2. /\ s \in MemSaveRecords /\ s.id # m /\ s.id \in MemLine(mem, m)
        /\ KeepsLink(mem, s) /\ mem[s.id].status = "active" /\ s.rec.status = "retired"
        /\ s.turn < AfterAncestors(m)
        /\ \A t \in RetireAncestors(mem, m) : t.id = s.id => t = s
    BY <1>0, <2>1, RetiringSaves
  <2>3. ReplacedBy(mem, mop'.id, s.id)
    BY <1>1, <2>1, <2>2 DEF ReplacedBy
  <2>4. SavesAncestor(mem, mop', mtodo', s)
    BY <1>1, <2>2, <2>3 DEF SavesAncestor
  <2> QED
    BY <1>3, <2>1, <2>2, <2>4
<1>7. ASSUME mem[m].status = "active", NEW o \in MemLine(mem, m), mem[o].status = "active"
      PROVE  \E t \in mtodo' : t.id = o
  <2>1. MemSave(o, [mem[o] EXCEPT !.status = "retired"], 3 + (m - o)) \in RetireAncestors(mem, m)
    BY <1>7 DEF RetireAncestors, MemLine
  <2>2. MemSave(o, [mem[o] EXCEPT !.status = "retired"], 3 + (m - o)).id = o
    BY DEF MemSave
  <2> QED
    BY <1>1, <1>7, <2>1, <2>2
<1>8. \A t \in mtodo' : t # last => t.turn < last.turn
  BY <1>1, <1>6
<1>9. SavesLast(mem, mop', mtodo', last)
  BY <1>1, <1>3, <1>4, <1>7, <1>8 DEF SavesLast
<1>10. \A s, t \in mtodo' : s.id = t.id => s = t
  BY <1>1, <1>3, <1>6
<1> HIDE DEF more
<1>11. \A s \in mtodo' : SavesAncestor(mem, mop', mtodo', s) \/ SavesLast(mem, mop', mtodo', s)
  BY <1>1, <1>6, <1>9
<1>12. last \in mtodo' /\ last.id = mop'.id
  BY <1>1, <1>3
<1>13. SavesFit(mem, mop', mtodo')
  BY <1>1, <1>10, <1>11, <1>12 DEF SavesFit
<1> QED
  BY <1>1, <1>5, <1>6, <1>13

\* A deletion: the same if the record is active or superseded.
LEMMA DeletionFits ==
    ASSUME MemInv, NEW m \in MemIds, DeleteMemory(m)
    PROVE  mtodo' \subseteq MemSaveRecords /\ SavesFit(mem, mop', mtodo')
<1> DEFINE last == MemSave(m, [MemAbsent EXCEPT !.status = "gone"], AfterAncestors(m))
           more == IF mem[m].status = "active" \/ m \in Superseded(mem)
                   THEN RetireAncestors(mem, m) ELSE {}
<1>0. mem \in [MemIds -> MemRecords] /\ Chained(mem)
  BY DEF MemInv, MemTypeOK
<1>1. /\ mtodo' = {last} \cup more
      /\ mop'.name = "delete" /\ mop'.id = m
      /\ MemExists(mem, m)
  BY DEF DeleteMemory, MemBegin
<1>2. /\ last.id = m /\ last.turn = AfterAncestors(m) /\ last.rec = [MemAbsent EXCEPT !.status = "gone"]
      /\ last = [id |-> last.id, rec |-> last.rec, turn |-> last.turn]
  BY DEF MemSave
<1>3. last.rec \in MemRecords /\ last.rec.status = "gone" /\ last.rec.sup = NoMem
  BY <1>2 DEF MemRecords, MemAbsent
<1>4. last \in MemSaveRecords
  BY <1>2, <1>3, MemAssumption DEF MemSaveRecords, AfterAncestors
<1> HIDE DEF last
<1>5. ASSUME m \in Superseded(mem)
      PROVE  \/ mem[m].status \in MemOpen \cup {"active"}
             \/ \E n \in MemIds : ReplacedBy(mem, n, m)
  BY <1>5 DEF Superseded, MemAncestors, MemProposals, ReplacedBy, MemLine
<1>6. ASSUME NEW s \in more
      PROVE  /\ s \in MemSaveRecords /\ s.id # m /\ s.turn < last.turn
             /\ SavesAncestor(mem, mop', mtodo', s)
             /\ \A t \in more : t.id = s.id => t = s
  <2>1. (mem[m].status = "active" \/ m \in Superseded(mem)) /\ s \in RetireAncestors(mem, m)
    BY <1>6
  <2>2. /\ s \in MemSaveRecords /\ s.id # m /\ s.id \in MemLine(mem, m)
        /\ KeepsLink(mem, s) /\ mem[s.id].status = "active" /\ s.rec.status = "retired"
        /\ s.turn < AfterAncestors(m)
        /\ \A t \in RetireAncestors(mem, m) : t.id = s.id => t = s
    BY <1>0, <2>1, RetiringSaves
  <2>3. \/ mem[m].status \in MemOpen \cup {"active"}
        \/ \E n \in MemIds : ReplacedBy(mem, n, m)
    BY <1>5, <2>1
  <2>4. SavesAncestor(mem, mop', mtodo', s)
    BY <1>1, <2>2, <2>3 DEF SavesAncestor
  <2> QED
    BY <1>2, <2>1, <2>2, <2>4
<1>7. ASSUME \/ mem[m].status = "active"
             \/ \E n \in MemIds : ReplacedBy(mem, n, m),
             NEW o \in MemLine(mem, m), mem[o].status = "active"
      PROVE  \E t \in mtodo' : t.id = o
  <2>1. mem[m].status = "active" \/ m \in Superseded(mem)
    BY <1>7 DEF Superseded, ReplacedBy, MemLine
  <2>2. MemSave(o, [mem[o] EXCEPT !.status = "retired"], 3 + (m - o)) \in RetireAncestors(mem, m)
    BY <1>7 DEF RetireAncestors, MemLine
  <2>3. MemSave(o, [mem[o] EXCEPT !.status = "retired"], 3 + (m - o)).id = o
    BY DEF MemSave
  <2> QED
    BY <1>1, <2>1, <2>2, <2>3
<1>8. \A t \in mtodo' : t # last => t.turn < last.turn
  BY <1>1, <1>6
<1>9. SavesLast(mem, mop', mtodo', last)
  BY <1>1, <1>2, <1>3, <1>7, <1>8 DEF SavesLast
<1>10. \A s, t \in mtodo' : s.id = t.id => s = t
  BY <1>1, <1>2, <1>6
<1> HIDE DEF more
<1>11. \A s \in mtodo' : SavesAncestor(mem, mop', mtodo', s) \/ SavesLast(mem, mop', mtodo', s)
  BY <1>1, <1>6, <1>9
<1>12. last \in mtodo' /\ last.id = mop'.id
  BY <1>1, <1>2
<1>13. SavesFit(mem, mop', mtodo')
  BY <1>1, <1>10, <1>11, <1>12 DEF SavesFit
<1> QED
  BY <1>1, <1>4, <1>6, <1>13

\* A confirmation: every save keeps the link of its record.
LEMMA ConfirmationFits ==
    ASSUME MemInv, NEW m \in MemIds, ConfirmMemory(m)
    PROVE  mtodo' \subseteq MemSaveRecords /\ SavesFit(mem, mop', mtodo')
<1> DEFINE rec == [mem[m] EXCEPT !.status = "active"]
           am == [mem EXCEPT ![m] = rec]
           replaced == RetireAncestors(am, m)
           rivals == {r \in MemIds \ ({m} \cup {s.id : s \in replaced}) :
                         rec.group # NoMem /\ mem[r].group = rec.group
                         /\ mem[r].status = "active"}
           own == MemSave(m, rec, 1)
           Rival(r) == MemSave(r, [mem[r] EXCEPT !.status = "retired"], AfterAncestors(m))
           target == MemSave(rec.sup, [mem[rec.sup] EXCEPT !.status = "retired"], 1)
           spent == MemSave(m, [rec EXCEPT !.status = "retired"], 2)
<1>0. mem \in [MemIds -> MemRecords] /\ Chained(mem)
  BY DEF MemInv, MemTypeOK
<1>1. PICK q \in MemRecords : q = mem[m]
  BY <1>0
<1>2. /\ rec = [q EXCEPT !.status = "active"] /\ rec \in MemRecords /\ rec.status = "active"
      /\ rec.sup = q.sup /\ rec.act = q.act
  BY <1>1 DEF MemRecords
<1>3. mop'.name = "confirm" /\ mop'.id = m
  BY DEF ConfirmMemory, MemBegin
<1>4. MemExists(mem, m)
  BY DEF ConfirmMemory, Confirmable, MemOpen, MemExists
<1>5. ASSUME NEW o \in MemIds, MemExists(mem, o), NEW s, NEW k \in Nat,
             s = MemSave(o, [mem[o] EXCEPT !.status = "retired"], k)
      PROVE  s \in MemSaveRecords /\ s.id = o /\ KeepsLink(mem, s)
  <2>1. PICK r \in MemRecords : r = mem[o]
    BY <1>0
  <2>2. /\ s.id = o /\ s.rec = [r EXCEPT !.status = "retired"] /\ s.turn = k
        /\ s = [id |-> s.id, rec |-> s.rec, turn |-> s.turn]
    BY <1>5, <2>1 DEF MemSave
  <2>3. s.rec \in MemRecords /\ s.rec.status = "retired" /\ s.rec.sup = r.sup
    BY <2>2 DEF MemRecords
  <2> QED
    BY <1>5, <2>1, <2>2, <2>3 DEF MemSaveRecords, KeepsLink
<1>6. ASSUME NEW k \in Nat, NEW s, NEW st \in {"active", "retired"},
             s = MemSave(m, [rec EXCEPT !.status = st], k)
      PROVE  s \in MemSaveRecords /\ s.id = m /\ KeepsLink(mem, s)
  <2>1. PICK r \in MemRecords : r = rec
    BY <1>2
  <2>2. /\ s.id = m /\ s.rec = [r EXCEPT !.status = st] /\ s.turn = k
        /\ s = [id |-> s.id, rec |-> s.rec, turn |-> s.turn]
    BY <1>6, <2>1 DEF MemSave
  <2>3. s.rec \in MemRecords /\ s.rec.status = st /\ s.rec.sup = r.sup
    BY <2>2 DEF MemRecords
  <2>4. r.sup = mem[m].sup
    BY <1>1, <1>2, <2>1
  <2> QED
    BY <1>4, <2>2, <2>3, <2>4 DEF MemSaveRecords, KeepsLink
<1>7. CASE rec.act = "expire"
  <2>1. mtodo' = {target, spent}
    BY <1>7 DEF ConfirmMemory, MemBegin
  <2>2. rec.sup = mem[m].sup
    BY <1>1, <1>2
  <2>3. rec.sup \in MemIds /\ MemExists(mem, rec.sup) /\ rec.sup # m
    <3>1. mem[m].act = "expire"
      BY <1>1, <1>2, <1>7
    <3>2. MemExists(mem, mem[m].sup)
      BY <3>1 DEF ConfirmMemory, Confirmable
    <3>3. mem[m].sup \in MemIds
      BY <3>2 DEF MemExists
    <3>4. mem[m].sup < m
      BY <1>0, <3>3, MemAssumption DEF Chained
    <3>5. mem[m].sup # m
      BY <3>3, <3>4, IdsAreOrdered
    <3> HIDE DEF rec
    <3> QED
      BY <2>2, <3>2, <3>3, <3>5
  <2>4. target \in MemSaveRecords /\ target.id = rec.sup /\ KeepsLink(mem, target)
    <3> HIDE DEF rec
    <3> QED
      BY <1>5, <2>3
  <2>5. spent \in MemSaveRecords /\ spent.id = m /\ KeepsLink(mem, spent)
    <3> HIDE DEF rec
    <3> QED
      BY <1>6
  <2> HIDE DEF target, spent, rec
  <2>6. SavesFit(mem, mop', mtodo')
    BY <1>3, <2>1, <2>3, <2>4, <2>5 DEF SavesFit, SavesConfirm
  <2> QED
    BY <2>1, <2>4, <2>5, <2>6
<1>8. CASE rec.act # "expire"
  <2>1. mtodo' = {own} \cup replaced \cup {Rival(r) : r \in rivals}
    BY <1>8 DEF ConfirmMemory, MemBegin
  <2>2. own \in MemSaveRecords /\ own.id = m /\ KeepsLink(mem, own)
    <3>1. own = MemSave(m, [rec EXCEPT !.status = "active"], 1)
      BY <1>1 DEF MemRecords
    <3> HIDE DEF rec, own
    <3> QED
      BY <1>6, <3>1
  <2> DEFINE mine == [id |-> m, rec |-> rec, turn |-> 1]
  <2>3. am \in [MemIds -> MemRecords] /\ am[m] = rec /\ \A x \in MemIds \ {m} : am[x] = mem[x]
    BY <1>0, <1>2
  <2>4. mine \in MemSaveRecords /\ mine.id = m /\ mine.rec = rec
    BY <1>2 DEF MemSaveRecords
  <2>5. KeepsLink(mem, mine)
    BY <1>1, <1>2, <1>4, <2>4 DEF KeepsLink
  <2>6. Chained(am)
    <3> HIDE DEF mine, am, own, rec
    <3> QED
      BY <1>0, <2>3, <2>4, <2>5, KeptLinkIsChained
  <2> HIDE DEF mine, am, own, rec
  <2>7. ASSUME NEW s \in replaced
        PROVE  /\ s \in MemSaveRecords /\ s.id # m /\ KeepsLink(mem, s)
               /\ \A t \in replaced : t.id = s.id => t = s
    <3>1. /\ s \in MemSaveRecords /\ s.id # m
          /\ KeepsLink(am, s)
          /\ \A t \in RetireAncestors(am, m) : t.id = s.id => t = s
      BY <2>3, <2>6, <2>7, RetiringSaves
    <3>2. s.id \in MemIds
      BY <3>1 DEF MemSaveRecords
    <3>3. am[s.id] = mem[s.id]
      BY <2>3, <3>1, <3>2
    <3> QED
      BY <3>1, <3>3 DEF KeepsLink, MemExists
  <2>8. ASSUME NEW r \in rivals
        PROVE  Rival(r) \in MemSaveRecords /\ Rival(r).id = r /\ KeepsLink(mem, Rival(r))
    <3>1. r \in MemIds /\ MemExists(mem, r)
      BY <2>8 DEF MemExists
    <3>2. AfterAncestors(m) \in Nat
      BY MemAssumption DEF AfterAncestors
    <3> QED
      BY <1>5, <3>1, <3>2
  <2>9. \A r \in rivals : r # m /\ \A s \in replaced : r # s.id
    OBVIOUS
  <2> HIDE DEF rivals, replaced, Rival
  <2>10. \A s \in mtodo' : s \in MemSaveRecords /\ KeepsLink(mem, s)
    BY <2>1, <2>2, <2>7, <2>8
  <2>11. \A s, t \in mtodo' : s.id = t.id => s = t
    BY <2>1, <2>2, <2>7, <2>8, <2>9
  <2>12. SavesFit(mem, mop', mtodo')
    BY <1>3, <2>10, <2>11 DEF SavesFit, SavesConfirm
  <2> QED
    BY <2>10, <2>12
<1> QED
  BY <1>7, <1>8

\* The saves of a write: conflicts are noted, the record itself, the proposal it
\* replaces, and the ancestors of a record that is active at once.
LEMMA WriteFits ==
    ASSUME MemInv, NEW m \in MemIds, MemFresh(m),
           NEW r \in MemRecords, r.status \notin {"none", "gone"},
           r.sup # NoMem => MemExists(mem, r.sup),
           NEW target, NEW conflicts \in SUBSET MemIds,
           mtodo' = WriteSaves(m, r, target, conflicts),
           mop'.name = "write", mop'.id = m
    PROVE  mtodo' \subseteq MemSaveRecords /\ SavesFit(mem, mop', mtodo')
<1> DEFINE rivals == {c \in conflicts : mem[c].status = "active"}
           rec == IF rivals = {} THEN r ELSE [r EXCEPT !.status = "conflict", !.group = m]
           am == [mem EXCEPT ![m] = rec]
           Noted(c) == MemSave(c, [mem[c] EXCEPT !.group = m], 0)
           own == MemSave(m, rec, 1)
           replaced == {target} \cap MemProposals(mem)
           Replaced(t) == MemSave(t, [mem[t] EXCEPT !.status = "retired"], 2)
           older == IF rec.status = "active" THEN RetireAncestors(am, m) ELSE {}
<1>0. mem \in [MemIds -> MemRecords] /\ Chained(mem)
  BY DEF MemInv, MemTypeOK
<1>1. mtodo' = {Noted(c) : c \in rivals} \cup {own} \cup {Replaced(t) : t \in replaced} \cup older
  BY DEF WriteSaves
<1>2. /\ rec \in MemRecords /\ rec.sup = r.sup /\ rec.status \notin {"none", "gone"}
      /\ rivals # {} => rec.status # "active"
  BY DEF MemRecords
<1>3. /\ mem[m].status = "none" /\ \A o \in MemIds : mem[o].status = "none" => m <= o
  BY DEF MemFresh
<1>4. rec.sup # NoMem => rec.sup < m
  <2>1. SUFFICES ASSUME r.sup # NoMem PROVE r.sup < m
    BY <1>2
  <2>2. r.sup \in MemIds /\ mem[r.sup].status # "none"
    BY <2>1 DEF MemExists
  <2> QED
    BY <1>0, <1>3, <2>2 DEF Chained
<1>5. /\ am \in [MemIds -> MemRecords] /\ am[m] = rec
      /\ \A x \in MemIds \ {m} : am[x] = mem[x]
  BY <1>0, <1>2
<1>6. /\ own.id = m /\ own.rec = rec /\ own.turn = 1
      /\ own = [id |-> m, rec |-> rec, turn |-> 1]
  BY DEF MemSave
<1>7. own \in MemSaveRecords
  BY <1>2, <1>6 DEF MemSaveRecords
<1>8. SavesNew(mem, mop', own)
  <2> HIDE DEF own, rec
  <2> QED
    BY <1>2, <1>3, <1>4, <1>6 DEF SavesNew
<1>9. Chained(am)
  <2>1. ASSUME NEW x \in MemIds, am[x].sup # NoMem PROVE am[x].sup < x
    <3> HIDE DEF am, rec
    <3>1. CASE x = m
      BY <1>4, <1>5, <2>1, <3>1
    <3>2. CASE x # m
      BY <1>0, <1>5, <2>1, <3>2 DEF Chained
    <3> QED
      BY <3>1, <3>2
  <2>2. ASSUME NEW o \in MemIds, NEW p \in MemIds, am[o].status # "none", am[p].status = "none"
        PROVE  o < p
    <3> HIDE DEF am, rec
    <3>1. p # m /\ mem[p].status = "none"
      BY <1>2, <1>5, <2>2
    <3>2. CASE o = m
      <4>1. m <= p
        BY <1>3, <3>1
      <4> QED
        BY <3>1, <3>2, <4>1, MemAssumption
    <3>3. CASE o # m
      BY <1>0, <1>5, <2>2, <3>1, <3>3 DEF Chained
    <3> QED
      BY <3>2, <3>3
  <2> HIDE DEF am, rec
  <2> QED
    BY <2>1, <2>2 DEF Chained
<1>10. ASSUME NEW c \in rivals
       PROVE  /\ c \in MemIds /\ c # m /\ mem[c].status = "active"
              /\ Noted(c) \in MemSaveRecords /\ Noted(c).id = c
              /\ SavesBeside(mem, mop', Noted(c))
  <2>1. c \in MemIds /\ mem[c].status = "active" /\ c # m
    BY <1>3
  <2>2. PICK q \in MemRecords : q = mem[c]
    BY <1>0, <2>1
  <2>3. /\ Noted(c).id = c /\ Noted(c).rec = [q EXCEPT !.group = m] /\ Noted(c).turn = 0
        /\ Noted(c) = [id |-> c, rec |-> Noted(c).rec, turn |-> 0]
    BY <2>2 DEF MemSave
  <2> HIDE DEF Noted
  <2>4. /\ Noted(c).rec \in MemRecords /\ Noted(c).rec.status = q.status
        /\ Noted(c).rec.sup = q.sup
    BY <2>3 DEF MemRecords
  <2>5. Noted(c) \in MemSaveRecords
    BY <2>1, <2>3, <2>4 DEF MemSaveRecords
  <2>6. KeepsLink(mem, Noted(c))
    BY <2>1, <2>2, <2>3, <2>4 DEF KeepsLink, MemExists
  <2>7. SavesBeside(mem, mop', Noted(c))
    BY <2>1, <2>2, <2>3, <2>4, <2>6 DEF SavesBeside
  <2> QED
    BY <2>1, <2>3, <2>5, <2>7
<1>11. ASSUME NEW t \in replaced
       PROVE  /\ t \in MemIds /\ t # m /\ mem[t].status # "active" /\ t = target
              /\ Replaced(t) \in MemSaveRecords /\ Replaced(t).id = t
              /\ SavesBeside(mem, mop', Replaced(t))
  <2>1. t \in MemIds /\ mem[t].status \in MemOpen /\ t # m
    BY <1>3 DEF MemProposals, MemOpen
  <2>2. PICK q \in MemRecords : q = mem[t]
    BY <1>0, <2>1
  <2>3. /\ Replaced(t).id = t /\ Replaced(t).rec = [q EXCEPT !.status = "retired"]
        /\ Replaced(t).turn = 2 /\ Replaced(t) = [id |-> t, rec |-> Replaced(t).rec, turn |-> 2]
    BY <2>2 DEF MemSave
  <2> HIDE DEF Replaced
  <2>4. /\ Replaced(t).rec \in MemRecords /\ Replaced(t).rec.status = "retired"
        /\ Replaced(t).rec.sup = q.sup
    BY <2>3 DEF MemRecords
  <2>5. Replaced(t) \in MemSaveRecords
    BY <2>1, <2>3, <2>4 DEF MemSaveRecords
  <2>6. KeepsLink(mem, Replaced(t))
    BY <2>1, <2>2, <2>3, <2>4 DEF KeepsLink, MemExists, MemOpen
  <2>7. SavesBeside(mem, mop', Replaced(t))
    BY <2>1, <2>2, <2>3, <2>4, <2>6 DEF SavesBeside
  <2> QED
    BY <2>1, <2>3, <2>5, <2>7 DEF MemOpen
<1>12. ASSUME NEW s \in older
       PROVE  /\ rivals = {} /\ s \in MemSaveRecords /\ s.id # m
              /\ mem[s.id].status = "active" /\ KeepsLink(mem, s) /\ s.rec.status = "retired"
              /\ ReplacedBy(am, m, s.id) /\ s.turn > 3
              /\ \A t \in older : t.id = s.id => t = s
  <2>1. rec.status = "active" /\ s \in RetireAncestors(am, m)
    BY <1>12
  <2> HIDE DEF am, rec
  <2>2. /\ s \in MemSaveRecords /\ s.id # m /\ s.id \in MemLine(am, m)
        /\ KeepsLink(am, s) /\ am[s.id].status = "active" /\ s.rec.status = "retired"
        /\ s.turn > 3
        /\ \A t \in RetireAncestors(am, m) : t.id = s.id => t = s
    BY <1>5, <1>9, <2>1, RetiringSaves
  <2>3. s.id \in MemIds
    BY <2>2 DEF MemSaveRecords
  <2>4. am[s.id] = mem[s.id]
    BY <1>5, <2>2, <2>3
  <2>5. KeepsLink(mem, s)
    BY <2>2, <2>4 DEF KeepsLink, MemExists
  <2>6. ReplacedBy(am, m, s.id)
    BY <1>5, <2>1, <2>2 DEF ReplacedBy
  <2>7. rivals = {}
    BY <1>2, <2>1
  <2> QED
    BY <2>1, <2>2, <2>4, <2>5, <2>6, <2>7
<1> HIDE DEF Noted, Replaced, own, am, replaced, older, rec, rivals
<1>13. \A s, t \in mtodo' : s.id = t.id => s = t
  <2>1. \A s \in mtodo' : \/ \E c \in rivals : s = Noted(c)
                          \/ s = own
                          \/ \E t \in replaced : s = Replaced(t)
                          \/ s \in older
    BY <1>1
  <2>2. \A c, d \in rivals : Noted(c).id = Noted(d).id => c = d
    BY <1>10
  <2>3. \A c, d \in replaced : c = d
    BY <1>11
  <2>4. \A c \in rivals : Noted(c).id # own.id /\ \A t \in replaced : Noted(c).id # Replaced(t).id
    BY <1>6, <1>10, <1>11
  <2>5. \A t \in replaced : Replaced(t).id # own.id
    BY <1>6, <1>11
  <2>6. \A s \in older : rivals = {} /\ s.id # own.id /\ \A t \in replaced : Replaced(t).id # s.id
    BY <1>6, <1>11, <1>12
  <2>7. \A s, t \in older : s.id = t.id => s = t
    BY <1>12
  <2> QED
    BY <2>1, <2>2, <2>3, <2>4, <2>5, <2>6, <2>7
<1>14. \A t \in mtodo' : t.id = m => t = own
  BY <1>1, <1>6, <1>13
<1>15. ASSUME NEW s \in older PROVE SavesAncestor(mem, mop', mtodo', s)
  <2>1. s.turn > 3 /\ s.turn \in Nat /\ own.turn = 1
    BY <1>6, <1>12 DEF MemSaveRecords
  <2>2. own.turn < s.turn
    BY <2>1
  <2>3. ReplacedBy([mem EXCEPT ![own.id] = own.rec], own.id, s.id)
    BY <1>6, <1>12 DEF am
  <2>4. own \in mtodo'
    BY <1>1
  <2>5. \A t \in mtodo' : t.id = mop'.id =>
           ReplacedBy([mem EXCEPT ![t.id] = t.rec], t.id, s.id) /\ t.turn < s.turn
    BY <1>14, <2>2, <2>3
  <2>6. ~ \A t \in mtodo' : t.id # mop'.id
    BY <1>6, <2>4
  <2> QED
    BY <1>12, <2>5, <2>6 DEF SavesAncestor
<1>16. \A s \in mtodo' : /\ s \in MemSaveRecords
                         /\ \/ SavesNew(mem, mop', s) \/ SavesBeside(mem, mop', s)
                            \/ SavesAncestor(mem, mop', mtodo', s)
  BY <1>1, <1>7, <1>8, <1>10, <1>11, <1>12, <1>15
<1> QED
  BY <1>13, <1>16 DEF SavesFit

\* MemoryWriteGate.write, and the record of no value it keeps as rejected.
LEMMA GateFits ==
    ASSUME MemInv, NEW m \in MemIds, NEW source \in {"user", "agent", "tool"},
           NEW act \in {"create", "expire"}, NEW target \in MemIds \cup {NoMem},
           GateWrite(m, source, act, target)
    PROVE  mtodo' \subseteq MemSaveRecords /\ SavesFit(mem, mop', mtodo')
<1> DEFINE conflicts == MemConflicts(target)
           takesOver == source = "user" /\ conflicts # {} /\ (target # NoMem \/ mdomain.core)
           rivals == IF takesOver THEN {} ELSE conflicts
           R(st, previous) ==
               [MemAbsent EXCEPT !.status = st, !.act = act, !.sup = previous]
<1>1. /\ MemFresh(m)
      /\ target # NoMem => MemExists(mem, target)
  BY DEF GateWrite
<1>2. PICK st \in GateStatuses(source),
           previous \in IF takesOver /\ target = NoMem THEN conflicts ELSE {target} :
         MemBegin("write", m, WriteSaves(m, R(st, previous), target, rivals))
  BY DEF GateWrite
<1>3. conflicts \in SUBSET MemIds /\ \A c \in conflicts : MemExists(mem, c)
  BY DEF MemConflicts, MemExists
<1>4. previous \in MemIds \cup {NoMem} /\ (previous # NoMem => MemExists(mem, previous))
  BY <1>1, <1>3
<1>5. st \in {"active", "pending"}
  BY DEF GateStatuses
<1>6. /\ R(st, previous) \in MemRecords
      /\ R(st, previous).status = st /\ R(st, previous).sup = previous
  BY <1>4, <1>5 DEF MemRecords, MemAbsent
<1>7. /\ mtodo' = WriteSaves(m, R(st, previous), target, rivals)
      /\ mop'.name = "write" /\ mop'.id = m
  BY <1>2 DEF MemBegin
<1>8. rivals \in SUBSET MemIds
  BY <1>3
<1> HIDE DEF R, rivals
<1>9. R(st, previous).status \notin {"none", "gone"}
  BY <1>5, <1>6
<1>10. R(st, previous).sup # NoMem => MemExists(mem, R(st, previous).sup)
  BY <1>4, <1>6
<1> QED
  BY <1>1, <1>6, <1>7, <1>8, <1>9, <1>10, WriteFits

LEMMA RejectionFits ==
    ASSUME MemInv, NEW m \in MemIds, NEW target \in MemIds \cup {NoMem}, GateRejects(m, target)
    PROVE  mtodo' \subseteq MemSaveRecords /\ SavesFit(mem, mop', mtodo')
<1> DEFINE r == [MemAbsent EXCEPT !.status = "retired", !.sup = target]
           own == MemSave(m, r, 1)
<1>1. /\ MemFresh(m) /\ (target # NoMem => MemExists(mem, target))
      /\ mtodo' = {own} /\ mop'.name = "write" /\ mop'.id = m
  BY DEF GateRejects, MemBegin
<1>2. r \in MemRecords /\ r.status = "retired" /\ r.sup = target
  BY DEF MemRecords, MemAbsent
<1>3. own.id = m /\ own.rec = r /\ own = [id |-> m, rec |-> r, turn |-> 1]
  BY DEF MemSave
<1>4. own \in MemSaveRecords
  BY <1>2, <1>3 DEF MemSaveRecords
<1>5. target # NoMem => target < m
  BY <1>1 DEF MemFresh, MemExists, MemInv, Chained
<1> HIDE DEF r, own
<1>6. SavesNew(mem, mop', own)
  BY <1>1, <1>2, <1>3, <1>5 DEF SavesNew, MemFresh
<1> QED
  BY <1>1, <1>4, <1>6 DEF SavesFit

-----------------------------------------------------------------------------
(* The invariant.                                                          *)

LEMMA MemInvInit == MemInit => MemInv
<1> SUFFICES ASSUME MemInit PROVE MemInv
  OBVIOUS
<1>1. \A m \in MemIds : mem[m] = MemAbsent
  BY DEF MemInit
<1>2. MemAbsent \in MemRecords /\ MemAbsent.sup = NoMem /\ MemAbsent.status = "none"
  BY DEF MemAbsent, MemRecords
<1>3. mem \in [MemIds -> MemRecords]
  BY <1>2 DEF MemInit
<1>4. MemTypeOK
  BY <1>3, MemAssumption DEF MemInit, MemTypeOK, NoOp
<1>5. Chained(mem)
  BY <1>1, <1>2 DEF Chained
<1> QED
  BY <1>4, <1>5 DEF MemInv, MemInit

\* An operation that begins.
LEMMA BeginningKeeps ==
    ASSUME MemInv, NEW name \in {"write", "confirm", "retire", "delete"}, NEW m \in MemIds,
           NEW saves, MemBegin(name, m, saves),
           mtodo' \subseteq MemSaveRecords, SavesFit(mem, mop', mtodo')
    PROVE  MemInv'
<1>1. /\ mem' = mem /\ mdomain' = mdomain /\ mbreaks' = mbreaks
      /\ mop' = [name |-> name, id |-> m]
  BY DEF MemBegin
<1>2. MemTypeOK'
  BY <1>1 DEF MemInv, MemTypeOK, MemSaveRecords
<1>3. Chained(mem)'
  BY <1>1 DEF MemInv, Chained
<1>4. SavesFit(mem', mop', mtodo')
  BY <1>1
<1> QED
  BY <1>2, <1>3, <1>4 DEF MemInv

LEMMA SaveStepKeeps == MemInv /\ MemSaveStep => MemInv'
<1> SUFFICES ASSUME MemInv, MemSaveStep PROVE MemInv'
  OBVIOUS
<1>1. PICK s \in mtodo :
         /\ \A t \in mtodo : s.turn <= t.turn
         /\ mem' = [mem EXCEPT ![s.id] = s.rec]
         /\ mtodo' = mtodo \ {s}
         /\ mop' = (IF mtodo' = {} THEN NoOp ELSE mop)
         /\ UNCHANGED <<mdomain, mbreaks>>
  BY DEF MemSaveStep
<1>2. mem \in [MemIds -> MemRecords] /\ mtodo \in SUBSET MemSaveRecords
  BY DEF MemInv, MemTypeOK, MemSaveRecords
<1>3. Chained(mem) /\ SavesFit(mem, mop, mtodo)
  BY <1>1 DEF MemInv
<1>4. Chained(mem') /\ (mtodo \ {s} # {} => SavesFit(mem', mop, mtodo \ {s}))
  BY <1>1, <1>2, <1>3, SaveKeeps
<1>5. mem' \in [MemIds -> MemRecords]
  BY <1>1, <1>2, SaveChanges
<1>6. mtodo' \subseteq [id : MemIds, rec : MemRecords, turn : Nat]
  BY <1>1, <1>2 DEF MemSaveRecords
<1>7. MemTypeOK'
  BY <1>1, <1>5, <1>6 DEF MemInv, MemTypeOK, NoOp
<1>8. mtodo' # {} => SavesFit(mem', mop', mtodo')
  BY <1>1, <1>4
<1> QED
  BY <1>4, <1>7, <1>8 DEF MemInv

LEMMA MemInvStep == MemInv /\ [MemNext]_memVars => MemInv'
<1> SUFFICES ASSUME MemInv, [MemNext]_memVars PROVE MemInv'
  OBVIOUS
<1>1. CASE UNCHANGED memVars
  <2>1. mem' = mem /\ mdomain' = mdomain /\ mtodo' = mtodo /\ mop' = mop /\ mbreaks' = mbreaks
    BY <1>1 DEF memVars
  <2>2. MemTypeOK'
    BY <2>1 DEF MemInv, MemTypeOK
  <2>3. Chained(mem') /\ (mtodo' # {} => SavesFit(mem', mop', mtodo'))
    BY <2>1 DEF MemInv
  <2> QED
    BY <2>2, <2>3 DEF MemInv
<1>2. CASE MemSaveStep
  BY <1>2, SaveStepKeeps
<1>3. CASE MemBreak
  <2>1. /\ mem' = mem /\ mdomain' = mdomain /\ mtodo' = {} /\ mop' = NoOp
        /\ mbreaks < MaxMemBreaks /\ mbreaks' = mbreaks + 1
    BY <1>3 DEF MemBreak
  <2>2. mbreaks' \in 0..MaxMemBreaks
    BY <2>1, MemAssumption DEF MemInv, MemTypeOK
  <2>3. MemTypeOK'
    BY <2>1, <2>2 DEF MemInv, MemTypeOK, NoOp
  <2>4. Chained(mem')
    BY <2>1 DEF MemInv
  <2> QED
    BY <2>1, <2>3, <2>4 DEF MemInv
<1>4. ASSUME NEW m \in MemIds, NEW source \in {"user", "agent", "tool"},
             NEW act \in {"create", "expire"}, NEW target \in MemIds \cup {NoMem},
             GateWrite(m, source, act, target)
      PROVE  MemInv'
  <2>1. \E saves : MemBegin("write", m, saves)
    BY <1>4 DEF GateWrite
  <2>2. mtodo' \subseteq MemSaveRecords /\ SavesFit(mem, mop', mtodo')
    BY <1>4, GateFits
  <2> QED
    BY <2>1, <2>2, BeginningKeeps
<1>5. ASSUME NEW m \in MemIds, NEW target \in MemIds \cup {NoMem}, GateRejects(m, target)
      PROVE  MemInv'
  <2>1. \E saves : MemBegin("write", m, saves)
    BY <1>5 DEF GateRejects
  <2>2. mtodo' \subseteq MemSaveRecords /\ SavesFit(mem, mop', mtodo')
    BY <1>5, RejectionFits
  <2> QED
    BY <2>1, <2>2, BeginningKeeps
<1>6. ASSUME NEW m \in MemIds, ConfirmMemory(m) PROVE MemInv'
  <2>1. \E saves : MemBegin("confirm", m, saves)
    BY <1>6 DEF ConfirmMemory
  <2>2. mtodo' \subseteq MemSaveRecords /\ SavesFit(mem, mop', mtodo')
    BY <1>6, ConfirmationFits
  <2> QED
    BY <2>1, <2>2, BeginningKeeps
<1>7. ASSUME NEW m \in MemIds, RetireMemory(m) PROVE MemInv'
  <2>1. \E saves : MemBegin("retire", m, saves)
    BY <1>7 DEF RetireMemory
  <2>2. mtodo' \subseteq MemSaveRecords /\ SavesFit(mem, mop', mtodo')
    BY <1>7, RetirementFits
  <2> QED
    BY <2>1, <2>2, BeginningKeeps
<1>8. ASSUME NEW m \in MemIds, DeleteMemory(m) PROVE MemInv'
  <2>1. \E saves : MemBegin("delete", m, saves)
    BY <1>8 DEF DeleteMemory
  <2>2. mtodo' \subseteq MemSaveRecords /\ SavesFit(mem, mop', mtodo')
    BY <1>8, DeletionFits
  <2> QED
    BY <2>1, <2>2, BeginningKeeps
<1> QED
  BY <1>1, <1>2, <1>3, <1>4, <1>5, <1>6, <1>7, <1>8 DEF MemNext

\* Only a save changes a record.
LEMMA OnlySavesChange ==
    ASSUME [MemNext]_memVars, mem' # mem PROVE MemSaveStep
<1>1. \A name, m, saves : ~MemBegin(name, m, saves)
  BY DEF MemBegin
<1>2. \A m \in MemIds : \A source, act, target : ~GateWrite(m, source, act, target)
  BY <1>1 DEF GateWrite
<1>3. \A m \in MemIds : \A target : ~GateRejects(m, target)
  BY <1>1 DEF GateRejects
<1>4. \A m \in MemIds : ~ConfirmMemory(m)
  BY <1>1 DEF ConfirmMemory
<1>5. \A m \in MemIds : ~RetireMemory(m) /\ ~DeleteMemory(m)
  BY <1>1 DEF RetireMemory, DeleteMemory
<1>6. ~MemBreak /\ ~UNCHANGED memVars
  BY DEF MemBreak, memVars
<1> QED
  BY <1>2, <1>3, <1>4, <1>5, <1>6 DEF MemNext

\* The records are chained, and every operation that holds the lock has left the saves
\* it needs, in the order it needs them.
THEOREM MemoryFitsTogether == MemSpec => []MemInv
<1>1. MemInit => MemInv
  BY MemInvInit
<1>2. MemInv /\ [MemNext]_memVars => MemInv'
  BY MemInvStep
<1> QED
  BY <1>1, <1>2, PTL DEF MemSpec

\* The types of the memory's state.
THEOREM MemoryTypes == MemSpec => []MemTypeOK
<1>1. MemInv => MemTypeOK
  BY DEF MemInv
<1> QED
  BY <1>1, MemoryFitsTogether, PTL

\* Rejecting, expiring or deleting an active or retired revision brings none of its
\* ancestors back, however many revisions there are and wherever clean-ups were
\* interrupted (_retire_memory, _delete_file_locked).
THEOREM NothingComesBack == MemSpec => NoneComesBack
<1>1. ASSUME MemInv, [MemNext]_memVars,
             NEW m \in Retrievable(mem') \ Retrievable(mem), mem[m].status = "active",
             mop.name # "confirm", ~(mop.name = "delete" /\ mem[mop.id].status \in MemOpen)
      PROVE  FALSE
  <2>1. mem' # mem
    BY <1>1
  <2>2. MemSaveStep
    BY <1>1, <2>1, OnlySavesChange
  <2>3. PICK s \in mtodo : (\A t \in mtodo : s.turn <= t.turn) /\ mem' = [mem EXCEPT ![s.id] = s.rec]
    BY <2>2 DEF MemSaveStep
  <2>4. mem \in [MemIds -> MemRecords] /\ mtodo \in SUBSET MemSaveRecords /\ s \in MemSaveRecords
    BY <1>1 DEF MemInv, MemTypeOK, MemSaveRecords
  <2>5. Chained(mem) /\ SavesFit(mem, mop, mtodo)
    BY <1>1, <2>3 DEF MemInv
  <2>6. /\ mem' \in [MemIds -> MemRecords] /\ mem'[s.id] = s.rec
        /\ \A x \in MemIds \ {s.id} : mem'[x] = mem[x]
    BY <2>3, <2>4, SaveChanges
  <2>7. m \in MemIds /\ mem'[m].status = "active" /\ m \notin Superseded(mem')
    BY <1>1 DEF Retrievable
  <2>8. m \in Superseded(mem)
    BY <1>1, <2>7 DEF Retrievable
  <2>9. PICK n \in MemIds : ReplacedBy(mem, n, m)
    BY <1>1, <2>7, <2>8, SupersededIsReplaced
  <2>10. \E k \in MemIds : ReplacedBy(mem', k, m)
    <3>1. \A t \in mtodo : s.turn <= t.turn
      BY <2>3
    <3> QED
      BY <1>1, <2>4, <2>5, <2>6, <2>7, <2>9, <3>1, SaveLeavesReplaced
  <2> QED
    BY <2>7, <2>10, SupersededIsReplaced
<1>2. MemInv /\ [MemNext]_memVars =>
        [\A m \in Retrievable(mem') \ Retrievable(mem) :
            \/ mem[m].status # "active"
            \/ mop.name = "confirm"
            \/ mop.name = "delete" /\ mem[mop.id].status \in MemOpen]_memVars
  BY <1>1
<1> QED
  BY <1>2, MemoryFitsTogether, PTL DEF MemSpec, NoneComesBack

-----------------------------------------------------------------------------
(* The components of MCWorkspace together.                                 *)

\* What the run of MCWorkspace does is a behaviour of the frozen calls, of a workflow, of
\* a coding candidate, of governed memory and of the managed files.
THEOREM WorkspaceRunsItsComponents ==
    WorkspaceSpec => /\ Spec
                     /\ WfSpec
                     /\ CandSpec
                     /\ MemSpec
                     /\ FileSpec
<1>1. WorkspaceInit => Init /\ WfInit /\ CandInit /\ MemInit /\ FileInit
  BY DEF WorkspaceInit
<1>2. [WorkspaceNext]_workspaceVars => [Next]_vars
  BY DEF WorkspaceNext, WorkspaceStep, Rest, workspaceVars
<1>3. [WorkspaceNext]_workspaceVars => [WfNext]_wfVars
  BY DEF WorkspaceNext, WorkspaceStep, Rest, workspaceVars
<1>4. [WorkspaceNext]_workspaceVars => [CandNext]_candVars
  BY DEF WorkspaceNext, WorkspaceStep, Rest, workspaceVars
<1>5. [WorkspaceNext]_workspaceVars => [MemNext]_memVars
  BY DEF WorkspaceNext, WorkspaceStep, Rest, workspaceVars
<1>6. [WorkspaceNext]_workspaceVars => [FileNext]_fileVars
  BY DEF WorkspaceNext, WorkspaceStep, Rest, workspaceVars
<1> QED
  BY <1>1, <1>2, <1>3, <1>4, <1>5, <1>6, PTL
  DEF WorkspaceSpec, Spec, WfSpec, CandSpec, MemSpec, FileSpec

\* Types of all of them.
THEOREM WorkspaceTypes == WorkspaceSpec => []WorkspaceTypeOK
<1>1. TypeOK /\ WfTypeOK /\ CandTypeOK /\ MemTypeOK /\ FileTypeOK => WorkspaceTypeOK
  BY DEF WorkspaceTypeOK
<1> QED
  BY <1>1, WorkspaceRunsItsComponents, ApprovalTypeCorrect, WfTypeCorrect, CandTypeCorrect,
     MemoryTypes, FileTypes, PTL
=============================================================================
