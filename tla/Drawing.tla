------------------------------- MODULE Drawing -------------------------------
(***************************************************************************)
(* One topology drawing, edited in a browser tab and by an agent           *)
(* (extensions/network_operations/topology_service.py, and the frontend's  *)
(* useTopologyPersistence, useTopologyCollaboration, useTopologyRevisions, *)
(* topologyMerge).                                                         *)
(*                                                                         *)
(* The server keeps a versioned document and a bounded history; a save     *)
(* names the version it is based on.  The tab keeps the canvas, the        *)
(* document the server confirmed last, and merges what it reads into the   *)
(* canvas over that base.  Its saves run one after another, its reads and  *)
(* a restoration beside them, and answers come when they come.             *)
(*                                                                         *)
(* A document gives every node and link one value, or has it not; a link   *)
(* needs its nodes.  Regions depend on canvas items as links do on nodes   *)
(* and are left out, as are names, layout and the node bindings that a     *)
(* save prunes.  Creation and deletion of a drawing are left out.          *)
(***************************************************************************)
EXTENDS Naturals, Sequences, FiniteSets, SequencesExt

CONSTANTS
    DrawNodes, DrawLinks,
    LinkEnds,             \* the nodes of each link
    FirstVal,             \* the value things begin with
    Gone,                 \* not in the document
    UserSets, AgentSets,  \* what the user and the agent may set each thing to
    HistoryLimit,         \* TOPOLOGY_REVISION_LIMIT
    UndoKept,             \* entries of the undo stack that stay when one is added
    DrawFaults,           \* which may happen
    MaxUserEdits, MaxAgentEdits, MaxClicks, MaxRestores, MaxDrawFaults, MaxDrawing  \* bounds

Things == DrawNodes \cup DrawLinks
DrawVals == {FirstVal} \cup UNION {UserSets[o] \cup AgentSets[o] : o \in Things}

ASSUME DrawAssumption ==
    /\ DrawNodes \cap DrawLinks = {} /\ IsFiniteSet(Things)
    /\ LinkEnds \in [DrawLinks -> SUBSET DrawNodes]
    /\ FirstVal # Gone
    /\ HistoryLimit \in Nat \ {0} /\ UndoKept \in Nat
    /\ {MaxUserEdits, MaxAgentEdits, MaxClicks, MaxRestores, MaxDrawFaults, MaxDrawing} \subseteq Nat

VARIABLES
    ddoc, dver,   \* the server's document and its version
    drevs,        \* its history, oldest first
    tab,          \* the tab: see TabInit
    dsave,        \* the save that runs, and those that wait
    dlate,        \* a save the tab has given up, which the server may still receive
    dpull,        \* the coalesced read of the server's document
    drest,        \* the answer of a restoration on its way
    dnews,        \* the version of a notice on its way, or 0
    dsocket,      \* is the socket up?
    dcount        \* counters for the bounds

drawVars == <<ddoc, dver, drevs, tab, dsave, dlate, dpull, drest, dnews, dsocket, dcount>>

Nothing == <<>>
At(doc, ver) == [doc |-> doc, ver |-> ver]
Server == At(ddoc, dver)

FirstDoc == [o \in Things |-> FirstVal]
SaveIdle(queue) == [pc |-> "idle", snap |-> Nothing, tries |-> 0, ans |-> Nothing, queue |-> queue]

\* base is serverTopologyRef, known is serverVersionsRef, touched says that
\* revisionRef moved since the save that runs took its snapshot; seen (ghost) is the
\* latest document the canvas was merged with, or the user decided on.
TabInit == [doc |-> FirstDoc, ver |-> 1, base |-> At(FirstDoc, 1), known |-> 1, seen |-> At(FirstDoc, 1),
            status |-> "saved", failed |-> FALSE, conflict |-> Nothing,
            hist |-> <<>>, fut |-> <<>>, touched |-> FALSE]

DrawInit ==
    /\ ddoc = FirstDoc /\ dver = 1 /\ drevs = <<FirstDoc>>
    /\ tab = TabInit
    /\ dsave = SaveIdle(0) /\ dlate = Nothing
    /\ dpull = [pc |-> "idle", ans |-> Nothing, again |-> FALSE]
    /\ drest = Nothing
    /\ dnews = 0 /\ dsocket = TRUE
    /\ dcount = [edits |-> 0, agent |-> 0, clicks |-> 0, restores |-> 0, faults |-> 0]

Counted(field, max) ==
    /\ dcount[field] < max
    /\ dcount.edits + dcount.agent + dcount.clicks + dcount.restores + dcount.faults < MaxDrawing
    /\ dcount' = [dcount EXCEPT ![field] = @ + 1]

DrawFault(f) == f \in DrawFaults /\ Counted("faults", MaxDrawFaults)

-----------------------------------------------------------------------------
(* Documents.                                                              *)

Loose(doc) == {l \in DrawLinks : doc[l] # Gone /\ \E n \in LinkEnds[l] : doc[n] = Gone}

\* Links go with their nodes.
Whole(doc) == [o \in Things |-> IF o \in Loose(doc) THEN Gone ELSE doc[o]]

\* What becomes of one thing: deletion wins, and the server's of two values.
MergedThing(b, m, t) ==
    CASE m # Gone /\ t = Gone -> IF b = Gone THEN m ELSE Gone
      [] m = Gone /\ t # Gone -> IF b = Gone THEN t ELSE Gone
      [] OTHER -> IF b = t THEN m ELSE t

\* ... and is that for the user to decide?
ThingClashes(b, m, t) ==
    \/ m # Gone /\ t = Gone /\ b # Gone /\ b # m
    \/ m = Gone /\ t # Gone /\ b # Gone /\ b # t
    \/ m # Gone /\ t # Gone /\ (b = Gone \/ Cardinality({b, m, t}) = 3)

\* mergeTopologies
DrawMerge(b, m, t) ==
    LET raw == [o \in Things |-> MergedThing(b[o], m[o], t[o])]
    IN  [doc |-> Whole(raw),
         clash |-> \/ \E o \in Things : ThingClashes(b[o], m[o], t[o])
                   \/ \E l \in Loose(raw) : b[l] # raw[l]]

-----------------------------------------------------------------------------
(* The tab.                                                                *)

Touched(t) == [t EXCEPT !.touched = dsave.pc # "idle"]

\* setHistory: the last entries, and the new one.
Pushed(hist, entry) ==
    Append(SubSeq(hist, IF Len(hist) > UndoKept THEN Len(hist) - UndoKept + 1 ELSE 1, Len(hist)),
           entry)
DrawEdit(before, after, collab) == [before |-> before, after |-> after, collab |-> collab]

\* adoptServerTopology
Adopt(t, d) ==
    Touched([t EXCEPT !.doc = d.doc, !.ver = d.ver, !.base = d, !.known = d.ver,
                      !.seen = d, !.status = "saved"])

Conflict(base, mine, theirs) == [base |-> base, mine |-> mine, theirs |-> theirs]

\* integrateRemoteDrawing
Merges(t, remote) ==
    remote.ver > t.base.ver /\ ~DrawMerge(t.base.doc, t.doc, remote.doc).clash

Integrate(t, remote) ==
    LET m == DrawMerge(t.base.doc, t.doc, remote.doc)
        seen == [t EXCEPT !.base = remote, !.known = remote.ver, !.seen = remote,
                          !.conflict = Nothing,
                          !.hist = IF m.doc = t.doc THEN @
                                   ELSE Pushed(@, DrawEdit(t.doc, m.doc, TRUE)),
                          !.fut = IF m.doc = t.doc THEN @ ELSE <<>>]
    IN  IF remote.ver <= t.base.ver THEN t
        ELSE IF m.clash
        THEN [t EXCEPT !.known = remote.ver, !.status = "conflict",
                       !.conflict = Conflict(t.base.doc, t.doc, remote)]
        ELSE IF m.doc # remote.doc
        THEN Touched([seen EXCEPT !.doc = m.doc, !.ver = remote.ver, !.status = "unsaved"])
        ELSE Adopt(seen, remote)

\* pushState
UserEdit(o, v) ==
    LET next == Whole([tab.doc EXCEPT ![o] = v])
        pushed == Touched([tab EXCEPT !.doc = next, !.fut = <<>>,
                                      !.hist = Pushed(@, DrawEdit(tab.doc, next, FALSE))])
    IN  /\ next # tab.doc /\ next[o] = v
        /\ Counted("edits", MaxUserEdits)
        /\ tab' = IF tab.status = "conflict"
                  THEN [pushed EXCEPT !.conflict =
                           IF @ = Nothing THEN @ ELSE [@ EXCEPT !.mine = next]]
                  ELSE [pushed EXCEPT !.status = "unsaved"]
        /\ UNCHANGED <<ddoc, dver, drevs, dsave, dlate, dpull, drest, dnews, dsocket>>

\* applyHistoryEntry: an entry's inverse, or the entry again, over the latest canvas.
ApplyEntry(entry, undo, hist, fut) ==
    LET m == IF undo THEN DrawMerge(entry.after, entry.before, tab.doc)
             ELSE DrawMerge(entry.before, entry.after, tab.doc)
    IN  /\ tab.status # "conflict" /\ ~m.clash
        /\ Counted("edits", MaxUserEdits)
        /\ tab' = Touched([tab EXCEPT !.doc = m.doc, !.status = "unsaved",
                                      !.hist = hist, !.fut = fut])
        /\ UNCHANGED <<ddoc, dver, drevs, dsave, dlate, dpull, drest, dnews, dsocket>>

Undo == tab.hist # <<>>
        /\ ApplyEntry(Last(tab.hist), TRUE, Front(tab.hist), <<Last(tab.hist)>> \o tab.fut)

Redo == tab.fut # <<>>
        /\ ApplyEntry(Head(tab.fut), FALSE, Append(tab.hist, Head(tab.fut)), Tail(tab.fut))

\* undoDrawingChange: one change of the agent, with the edits after it kept.
UndoChange(k) ==
    /\ k \in DOMAIN tab.hist /\ tab.hist[k].collab
    /\ ApplyEntry(tab.hist[k], TRUE, RemoveAt(tab.hist, k), <<>>)

-----------------------------------------------------------------------------
(* The server.                                                             *)

\* _record_topology_revision.  Mutant: one revision too many is kept.
Recorded_overflow(revs, doc) ==
    IF revs # <<>> /\ Last(revs) = doc THEN revs
    ELSE LET all == Append(revs, doc)
         IN  IF Len(all) > HistoryLimit + 1 THEN Tail(all) ELSE all

\* The history is bounded, and what it has already is not recorded twice.
Recorded(revs, doc) ==
    IF revs # <<>> /\ Last(revs) = doc THEN revs
    ELSE LET all == Append(revs, doc)
         IN  IF Len(all) > HistoryLimit THEN Tail(all) ELSE all

\* save_topology with the current version, onto the history revs: a document that is
\* the same is not saved, and a revision that cannot be recorded does not hold up a
\* save.
Stored(doc, revs) ==
    IF Whole(doc) = ddoc THEN drevs' = revs /\ UNCHANGED <<ddoc, dver, dnews>>
    ELSE /\ ddoc' = Whole(doc) /\ dver' = dver + 1
         /\ drevs' \in {Recorded(revs, Whole(doc))}
                       \cup (IF "history" \in DrawFaults THEN {revs} ELSE {})
         /\ dnews' = IF dsocket THEN dver' ELSE dnews

\* patch_topology: the agent changes one thing, whatever the rest is by now.
AgentPatch(o, v) ==
    /\ ddoc[o] # v /\ Whole([ddoc EXCEPT ![o] = v])[o] = v
    /\ Counted("agent", MaxAgentEdits)
    /\ Stored([ddoc EXCEPT ![o] = v], drevs)
    /\ UNCHANGED <<tab, dsave, dlate, dpull, drest, dsocket>>

-----------------------------------------------------------------------------
(* executeSave: saves run one after another.                               *)

ClickSave ==
    /\ Counted("clicks", MaxClicks)
    /\ dsave' = [dsave EXCEPT !.queue = @ + 1]
    /\ UNCHANGED <<ddoc, dver, drevs, tab, dlate, dpull, drest, dnews, dsocket>>

\* The tab t sends what is on the canvas (ghost: and what of it is new).
Put(t, tries, queue) ==
    /\ tab' = [t EXCEPT !.status = "saving", !.failed = FALSE, !.touched = FALSE]
    /\ dsave' = [SaveIdle(queue) EXCEPT !.pc = "put", !.tries = tries,
                                        !.snap = [doc |-> t.doc, ver |-> t.known,
                                                  own |-> {o \in Things : t.doc[o] # t.seen.doc[o]}]]

SaveBegins ==
    /\ dsave.pc = "idle" /\ dsave.queue > 0
    /\ IF tab.failed
       THEN dsave' = [SaveIdle(dsave.queue - 1) EXCEPT !.pc = "readback"] /\ UNCHANGED tab
       ELSE IF tab.status \in {"saved", "conflict"}
       THEN dsave' = SaveIdle(dsave.queue - 1) /\ UNCHANGED tab
       ELSE Put(tab, 0, dsave.queue - 1)
    /\ UNCHANGED <<ddoc, dver, drevs, dlate, dpull, drest, dnews, dsocket, dcount>>

\* The server answers a save.
PutArrives ==
    /\ dsave.pc = "put"
    /\ IF dsave.snap.ver = dver
       THEN /\ Stored(dsave.snap.doc, drevs)
            /\ dsave' = [dsave EXCEPT !.pc = "ok", !.ans = At(ddoc', dver')]
       ELSE dsave' = [dsave EXCEPT !.pc = "rejected"] /\ UNCHANGED <<ddoc, dver, drevs, dnews>>
    /\ UNCHANGED <<tab, dlate, dpull, drest, dsocket, dcount>>

\* The connection breaks: the request may still arrive, or its answer is lost.
PutLost ==
    /\ dsave.pc \in {"put", "ok", "rejected"}
    /\ DrawFault("lost")
    /\ dlate' = IF dsave.pc = "put" THEN dsave.snap ELSE Nothing
    /\ dsave' = SaveIdle(dsave.queue)
    /\ tab' = [tab EXCEPT !.status = "unsaved", !.failed = TRUE, !.touched = FALSE]
    /\ UNCHANGED <<ddoc, dver, drevs, dpull, drest, dnews, dsocket>>

LatePut ==
    /\ dlate # Nothing /\ dlate' = Nothing
    /\ IF dlate.ver = dver THEN Stored(dlate.doc, drevs)
       ELSE UNCHANGED <<ddoc, dver, drevs, dnews>>
    /\ UNCHANGED <<tab, dsave, dpull, drest, dsocket, dcount>>

\* Mutant: the answer is the canvas, whatever happened to the canvas meanwhile.
SaveAnswered_deaf ==
    /\ dsave.pc = "ok"
    /\ dsave' = SaveIdle(dsave.queue)
    /\ tab' = [tab EXCEPT !.known = dsave.ans.ver, !.base = dsave.ans, !.seen = dsave.ans,
                          !.touched = FALSE,
                          !.doc = dsave.ans.doc, !.ver = dsave.ans.ver, !.status = "saved"]
    /\ UNCHANGED <<ddoc, dver, drevs, dlate, dpull, drest, dnews, dsocket, dcount>>

\* A canvas that was touched meanwhile stays, on the new version.
SaveAnswered ==
    /\ dsave.pc = "ok"
    /\ dsave' = SaveIdle(dsave.queue)
    /\ tab' = [tab EXCEPT !.known = dsave.ans.ver, !.base = dsave.ans, !.seen = dsave.ans,
                          !.touched = FALSE,
                          !.doc = IF tab.touched THEN @ ELSE dsave.ans.doc,
                          !.ver = dsave.ans.ver,
                          !.status = IF tab.touched THEN "unsaved" ELSE "saved"]
    /\ UNCHANGED <<ddoc, dver, drevs, dlate, dpull, drest, dnews, dsocket, dcount>>

\* resolveConflict
SaveRejected ==
    /\ dsave.pc = "rejected"
    /\ dsave' = [dsave EXCEPT !.pc = "reread"]
    /\ tab' = [tab EXCEPT !.status = "conflict"]
    /\ UNCHANGED <<ddoc, dver, drevs, dlate, dpull, drest, dnews, dsocket, dcount>>

SaveRead ==
    /\ dsave.pc \in {"reread", "readback"} /\ dsave.ans = Nothing
    /\ dsave' = [dsave EXCEPT !.ans = Server]
    /\ UNCHANGED <<ddoc, dver, drevs, tab, dlate, dpull, drest, dnews, dsocket, dcount>>

SaveReadFails ==
    /\ dsave.pc \in {"reread", "readback"}
    /\ DrawFault(dsave.pc)
    /\ dsave' = SaveIdle(dsave.queue)
    /\ tab' = IF dsave.pc = "reread" THEN [tab EXCEPT !.status = "unsaved", !.touched = FALSE]
              ELSE [tab EXCEPT !.touched = FALSE]
    /\ UNCHANGED <<ddoc, dver, drevs, dlate, dpull, drest, dnews, dsocket>>

\* After a merge without conflict the user's save is finished once.
Reread ==
    /\ dsave.pc = "reread" /\ dsave.ans # Nothing
    /\ LET t == Integrate(tab, dsave.ans)
       IN  IF Merges(tab, dsave.ans) /\ ~t.failed /\ dsave.tries = 0
           THEN Put(t, 1, dsave.queue)
           ELSE tab' = [t EXCEPT !.touched = FALSE] /\ dsave' = SaveIdle(dsave.queue)
    /\ UNCHANGED <<ddoc, dver, drevs, dlate, dpull, drest, dnews, dsocket, dcount>>

\* After an uncertain save: what is there is read, and not sent again.
Readback ==
    /\ dsave.pc = "readback" /\ dsave.ans # Nothing
    /\ LET t == Integrate(tab, dsave.ans)
           done == IF dsave.ans.doc = t.doc THEN Adopt(t, dsave.ans) ELSE t
       IN  tab' = [done EXCEPT !.failed = FALSE, !.touched = FALSE]
    /\ dsave' = SaveIdle(dsave.queue)
    /\ UNCHANGED <<ddoc, dver, drevs, dlate, dpull, drest, dnews, dsocket, dcount>>

-----------------------------------------------------------------------------
(* Notices and reads.                                                      *)

\* reconcileServerTopology, when it is asked for.
Asked == IF dpull.pc = "idle" THEN [dpull EXCEPT !.pc = "get"] ELSE [dpull EXCEPT !.again = TRUE]

\* A notice of a newer version.
Notice ==
    /\ dnews > 0 /\ dnews' = 0
    /\ dpull' = IF dnews > tab.ver THEN Asked ELSE dpull
    /\ UNCHANGED <<ddoc, dver, drevs, tab, dsave, dlate, drest, dsocket, dcount>>

SocketDown ==
    /\ dsocket /\ DrawFault("socket")
    /\ dsocket' = FALSE /\ dnews' = 0
    /\ UNCHANGED <<ddoc, dver, drevs, tab, dsave, dlate, dpull, drest>>

SocketUp ==
    /\ ~dsocket /\ dsocket' = TRUE
    /\ dpull' = Asked
    /\ UNCHANGED <<ddoc, dver, drevs, tab, dsave, dlate, drest, dnews, dcount>>

\* What the loop does when one read is done.
PullNext(again) ==
    IF again THEN [pc |-> "get", ans |-> Nothing, again |-> FALSE]
    ELSE [pc |-> "idle", ans |-> Nothing, again |-> FALSE]

PullRead ==
    /\ dpull.pc = "get"
    /\ dpull' = [dpull EXCEPT !.pc = "got", !.ans = Server]
    /\ UNCHANGED <<ddoc, dver, drevs, tab, dsave, dlate, drest, dnews, dsocket, dcount>>

PullFails ==
    /\ dpull.pc = "get"
    /\ DrawFault("pull")
    /\ dpull' = PullNext(FALSE)
    /\ UNCHANGED <<ddoc, dver, drevs, tab, dsave, dlate, drest, dnews, dsocket>>

\* While a save is under way the read waits for it, and is done again.
PullAnswered ==
    /\ dpull.pc = "got"
    /\ IF tab.status = "saving"
       THEN dpull' = [dpull EXCEPT !.pc = "waits", !.ans = Nothing] /\ UNCHANGED tab
       ELSE tab' = Integrate(tab, dpull.ans) /\ dpull' = PullNext(dpull.again)
    /\ UNCHANGED <<ddoc, dver, drevs, dsave, dlate, drest, dnews, dsocket, dcount>>

PullWaited ==
    /\ dpull.pc = "waits" /\ dsave.pc = "idle" /\ dsave.queue = 0
    /\ dpull' = PullNext(TRUE)
    /\ UNCHANGED <<ddoc, dver, drevs, tab, dsave, dlate, drest, dnews, dsocket, dcount>>

-----------------------------------------------------------------------------
(* Decisions of the user.                                                  *)

\* applyConflictChoice
ConflictChoice(choice) ==
    LET c == tab.conflict
        target == IF choice = "merged" THEN DrawMerge(c.base, c.mine, c.theirs.doc).doc ELSE c.mine
        closed == [tab EXCEPT !.conflict = Nothing, !.fut = <<>>]
    IN  /\ c # Nothing
        /\ IF choice = "theirs"
           THEN /\ tab' = Adopt([closed EXCEPT !.hist =
                                    Pushed(@, DrawEdit(tab.doc, c.theirs.doc, TRUE))], c.theirs)
                /\ UNCHANGED dsave
           ELSE /\ tab' = Touched([closed EXCEPT
                              !.doc = target, !.ver = c.theirs.ver, !.base = c.theirs,
                              !.seen = IF c.theirs.ver > @.ver THEN c.theirs ELSE @,
                              !.status = "unsaved",
                              !.hist = Pushed(@, DrawEdit(tab.doc, target, choice = "merged"))])
                /\ dsave' = [dsave EXCEPT !.queue = @ + 1]
        /\ UNCHANGED <<ddoc, dver, drevs, dlate, dpull, drest, dnews, dsocket, dcount>>

\* Mutant: the document that is replaced is not recorded first.
RestoreHistory_bare(revs) == revs

\* restore_topology_revision: the current document is recorded, and the old one saved
\* as a new version.
RestoreHistory(revs) == Recorded(revs, ddoc)

Restore(doc) ==
    /\ drest = Nothing
    /\ Counted("restores", MaxRestores)
    /\ doc \in Range(drevs)
    /\ Stored(doc, RestoreHistory(drevs))
    /\ drest' = [before |-> tab.doc, now |-> At(ddoc', dver')]
    /\ UNCHANGED <<tab, dsave, dlate, dpull, dsocket>>

RestoreAnswered ==
    /\ drest # Nothing /\ drest' = Nothing
    /\ tab' = Adopt([tab EXCEPT !.fut = <<>>,
                        !.hist = Pushed(@, DrawEdit(drest.before, drest.now.doc, FALSE))], drest.now)
    /\ UNCHANGED <<ddoc, dver, drevs, dsave, dlate, dpull, dnews, dsocket, dcount>>

DrawNext ==
    \/ \E o \in Things :
          \/ \E v \in UserSets[o] : UserEdit(o, v)
          \/ \E v \in AgentSets[o] : AgentPatch(o, v)
    \/ Undo \/ Redo \/ \E k \in DOMAIN tab.hist : UndoChange(k)
    \/ ClickSave \/ SaveBegins \/ PutArrives \/ PutLost \/ LatePut
    \/ SaveAnswered \/ SaveRejected \/ SaveRead \/ SaveReadFails \/ Reread \/ Readback
    \/ Notice \/ SocketDown \/ SocketUp
    \/ PullRead \/ PullFails \/ PullAnswered \/ PullWaited
    \/ \E choice \in {"merged", "mine", "theirs"} : ConflictChoice(choice)
    \/ \E k \in DOMAIN drevs : Restore(drevs[k])
    \/ RestoreAnswered

DrawSpec == DrawInit /\ [][DrawNext]_drawVars

-----------------------------------------------------------------------------
(* Properties.                                                             *)

Docs == [Things -> DrawVals \cup {Gone}]

\* Types of the drawing's state.
DrawTypeOK ==
    /\ ddoc \in Docs /\ dver \in Nat /\ Len(drevs) <= HistoryLimit
    /\ \A k \in DOMAIN drevs : drevs[k] \in Docs
    /\ tab.doc \in Docs /\ tab.base.doc \in Docs
    /\ tab.status \in {"saved", "saving", "unsaved", "conflict"}
    /\ dsave.pc \in {"idle", "put", "ok", "rejected", "reread", "readback"}
    /\ dpull.pc \in {"idle", "get", "got", "waits"}

\* A change on the canvas stays until the server confirms it: no answer, read, merge
\* or notice takes it away, whenever it comes; only the user does.
UserStep ==
    \/ dcount'.edits > dcount.edits
    \/ \E choice \in {"merged", "mine", "theirs"} : ConflictChoice(choice)
    \/ RestoreAnswered

ChangesStay ==
    [][\A o \in Things :
          tab.doc[o] # tab.base.doc[o] /\ tab'.doc[o] # tab.doc[o] =>
             UserStep]_drawVars

\* A save changes only what the canvas made different from the latest document it was
\* merged with or decided against: what somebody else has changed is never replaced
\* unseen.  And what a restoration replaces can itself be restored.
NothingOverwrittenUnseen ==
    [][ddoc' # ddoc =>
         \/ dcount'.agent > dcount.agent
         \/ dcount'.restores > dcount.restores /\ ddoc \in Range(drevs')
         \/ LET sent == IF dlate' = dlate THEN dsave.snap ELSE dlate
            IN  /\ sent # Nothing
                /\ \A o \in Things : ddoc'[o] # ddoc[o] => o \in sent.own]_drawVars
=============================================================================
