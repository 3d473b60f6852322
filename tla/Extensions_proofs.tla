------------------------- MODULE Extensions_proofs --------------------------
(***************************************************************************)
(* Proofs about a drawing that a tab and an agent edit (Drawing), for any  *)
(* nodes and links, any values, any number of edits, saves and restores    *)
(* and any combination of faults, unless a theorem says otherwise; about   *)
(* the deletion of a session (SessionRecord), for any turns, deletions and *)
(* faults; and what follows for the instance MCExtensions makes of them.   *)
(*                                                                         *)
(* The documents that are sent, kept or put on the canvas are whole: none  *)
(* of their links lacks a node.  So storing a document or merging it once  *)
(* more does not change what the user drew.                                *)
(***************************************************************************)
EXTENDS MCExtensions, JobQueue_proofs, OperationLedger_proofs, SequenceTheorems,
        FiniteSetTheorems, TLAPS

-----------------------------------------------------------------------------
(* Documents.                                                              *)

WholeDocs == {d \in Docs : Loose(d) = {}}

LEMMA FirstIsWhole == FirstDoc \in WholeDocs
<1>1. FirstVal \in DrawVals
  BY DEF DrawVals
<1>2. FirstDoc \in Docs
  BY <1>1 DEF FirstDoc, Docs
<1>3. ASSUME NEW l \in DrawLinks, NEW n \in LinkEnds[l] PROVE FirstDoc[n] # Gone
  BY DrawAssumption DEF FirstDoc, Things
<1> QED BY <1>2, <1>3 DEF WholeDocs, Loose

\* Whole mends a document, and leaves a whole one alone.
LEMMA WholeMends ==
    ASSUME NEW d \in Docs
    PROVE  Whole(d) \in WholeDocs
<1>1. Whole(d) \in Docs
  BY DEF Whole, Docs
<1>2. ASSUME NEW n \in DrawNodes PROVE Whole(d)[n] = d[n]
  BY DrawAssumption DEF Whole, Loose, Things
<1>3. ASSUME NEW l \in DrawLinks PROVE l \notin Loose(Whole(d))
  <2>1. CASE l \in Loose(d)
    BY <2>1 DEF Whole, Loose, Things
  <2>2. CASE l \notin Loose(d)
    <3>1. Whole(d)[l] = d[l]
      BY <2>2 DEF Whole, Things
    <3>2. LinkEnds[l] \subseteq DrawNodes
      BY DrawAssumption
    <3> QED BY <2>2, <3>1, <3>2, <1>2 DEF Loose
  <2> QED BY <2>1, <2>2
<1>4. Loose(Whole(d)) = {}
  BY <1>3 DEF Loose
<1> QED BY <1>1, <1>4 DEF WholeDocs

LEMMA WholeStays ==
    ASSUME NEW d \in WholeDocs
    PROVE  Whole(d) = d
BY DEF WholeDocs, Whole, Docs

LEMMA WholeIsDoc == WholeDocs \subseteq Docs
BY DEF WholeDocs

\* Three different values are three.
LEMMA ThreeValues ==
    ASSUME NEW b, NEW m, NEW t, b # m, m # t, b # t
    PROVE  Cardinality({b, m, t}) = 3
<1>1. IsFiniteSet({b}) /\ Cardinality({b}) = 1
  BY FS_Singleton
<1>2. IsFiniteSet({b} \cup {m}) /\ Cardinality({b} \cup {m}) = 2
  BY <1>1, FS_AddElement
<1>3. Cardinality(({b} \cup {m}) \cup {t}) = 3
  BY <1>2, FS_AddElement
<1>4. ({b} \cup {m}) \cup {t} = {b, m, t}
  OBVIOUS
<1> QED BY <1>3, <1>4

\* One thing that differs from the base, and does not clash, is kept.
LEMMA ThingKept ==
    ASSUME NEW b, NEW m, NEW t, m # b, ~ThingClashes(b, m, t)
    PROVE  MergedThing(b, m, t) = m
<1>1. CASE m # Gone /\ t = Gone
  BY <1>1 DEF ThingClashes, MergedThing
<1>2. CASE m = Gone /\ t # Gone
  BY <1>2 DEF ThingClashes, MergedThing
<1>3. CASE m # Gone /\ t # Gone
  <2>1. b # Gone /\ Cardinality({b, m, t}) # 3
    BY <1>3 DEF ThingClashes
  <2>2. b = t \/ m = t
    BY <2>1, ThreeValues
  <2> QED BY <1>3, <2>2 DEF MergedThing
<1>4. CASE m = Gone /\ t = Gone
  BY <1>4 DEF MergedThing
<1> QED BY <1>1, <1>2, <1>3, <1>4

LEMMA MergeIsWhole ==
    ASSUME NEW b \in Docs, NEW m \in Docs, NEW t \in Docs
    PROVE  DrawMerge(b, m, t).doc \in WholeDocs
<1> DEFINE raw == [o \in Things |-> MergedThing(b[o], m[o], t[o])]
<1>1. ASSUME NEW o \in Things
      PROVE  MergedThing(b[o], m[o], t[o]) \in DrawVals \cup {Gone}
  BY DEF MergedThing, Docs
<1>2. raw \in Docs
  BY <1>1 DEF Docs
<1>3. DrawMerge(b, m, t).doc = Whole(raw)
  BY DEF DrawMerge
<1> QED BY <1>2, <1>3, WholeMends

\* mergeTopologies: what the canvas has made different from the base is in the
\* merged document, unless there is a clash.
LEMMA MergeKeeps ==
    ASSUME NEW b \in Docs, NEW m \in Docs, NEW t \in Docs, NEW o \in Things,
           m[o] # b[o], ~DrawMerge(b, m, t).clash
    PROVE  DrawMerge(b, m, t).doc[o] = m[o]
<1> DEFINE raw == [p \in Things |-> MergedThing(b[p], m[p], t[p])]
<1>1. DrawMerge(b, m, t).doc = Whole(raw)
  BY DEF DrawMerge
<1>2. /\ ~ThingClashes(b[o], m[o], t[o])
      /\ ~ \E l \in Loose(raw) : b[l] # raw[l]
  BY DEF DrawMerge
<1>3. raw[o] = m[o]
  BY <1>2, ThingKept
<1>4. o \notin Loose(raw)
  BY <1>2, <1>3
<1> HIDE DEF raw
<1> QED BY <1>1, <1>3, <1>4 DEF Whole

-----------------------------------------------------------------------------
(* Types.                                                                  *)

Versions == [doc : WholeDocs, ver : Nat]

Entries == [before : WholeDocs, after : WholeDocs, collab : BOOLEAN]

Conflicts == [base : WholeDocs, mine : WholeDocs, theirs : Versions]

Snaps == [doc : WholeDocs, ver : Nat, own : SUBSET Things]

Restorations == [before : WholeDocs, now : Versions]

TabStates ==
    [doc : WholeDocs, ver : Nat, base : Versions, known : Nat, seen : Versions,
     status : {"saved", "saving", "unsaved", "conflict"}, failed : BOOLEAN,
     conflict : Conflicts \cup {Nothing},
     hist : Seq(Entries), fut : Seq(Entries), touched : BOOLEAN]

SaveStates ==
    [pc : {"idle", "put", "ok", "rejected", "reread", "readback"},
     snap : Snaps \cup {Nothing}, tries : Nat, ans : Versions \cup {Nothing}, queue : Nat]

PullStates ==
    [pc : {"idle", "get", "got", "waits"}, ans : Versions \cup {Nothing},
     again : BOOLEAN]

Counters == [edits : Nat, agent : Nat, clicks : Nat, restores : Nat, faults : Nat]

ServerTypes ==
    /\ ddoc \in WholeDocs /\ dver \in Nat
    /\ drevs \in Seq(WholeDocs) /\ Len(drevs) <= HistoryLimit

TabTypes == tab \in TabStates

SaveTypes == dsave \in SaveStates /\ dlate \in Snaps \cup {Nothing}

ReadTypes ==
    /\ dpull \in PullStates /\ drest \in Restorations \cup {Nothing}
    /\ dnews \in Nat /\ dsocket \in BOOLEAN

\* A save that was sent has a document, and one that was answered its answer.
SaveShape ==
    /\ dsave.pc \in {"put", "ok"} => dsave.snap \in Snaps
    /\ dsave.pc = "ok" => dsave.ans \in Versions
    /\ dpull.pc = "got" => dpull.ans \in Versions

DrawTypes ==
    /\ ServerTypes /\ TabTypes /\ SaveTypes /\ ReadTypes /\ SaveShape
    /\ dcount \in Counters

\* A canvas that was not touched since a save began is what was sent, and what the
\* server answers is what was sent.
SentStands ==
    /\ dsave.pc \in {"put", "ok"} /\ ~tab.touched => tab.doc = dsave.snap.doc
    /\ dsave.pc = "ok" => dsave.ans.doc = dsave.snap.doc

LEMMA CountedTypes ==
    ASSUME dcount \in Counters, NEW max,
           NEW field \in {"edits", "agent", "clicks", "restores", "faults"},
           Counted(field, max)
    PROVE  /\ dcount' \in Counters
           /\ dcount'[field] = dcount[field] + 1
           /\ \A f \in {"edits", "agent", "clicks", "restores", "faults"} \ {field} :
                 dcount'[f] = dcount[f]
<1>1. dcount' = [dcount EXCEPT ![field] = dcount[field] + 1]
  BY DEF Counted
<1>2. dcount[field] \in Nat
  BY DEF Counters
<1> QED BY <1>1, <1>2 DEF Counters

\* The undo stack.
LEMMA PushedType ==
    ASSUME NEW hist \in Seq(Entries), NEW entry \in Entries
    PROVE  Pushed(hist, entry) \in Seq(Entries)
<1> DEFINE from == IF Len(hist) > UndoKept THEN Len(hist) - UndoKept + 1 ELSE 1
<1>1. from \in Int /\ from >= 1 /\ Len(hist) \in Int
  BY DrawAssumption
<1>2. \A i \in from .. Len(hist) : hist[i] \in Entries
  BY <1>1, ElementOfSeq
<1> HIDE DEF from
<1>3. SubSeq(hist, from, Len(hist)) \in Seq(Entries)
  BY <1>1, <1>2, SubSeqProperties
<1>4. Append(SubSeq(hist, from, Len(hist)), entry) \in Seq(Entries)
  BY <1>3, AppendProperties
<1> QED BY <1>4 DEF Pushed, from

LEMMA EntryType ==
    ASSUME NEW before \in WholeDocs, NEW after \in WholeDocs, NEW collab \in BOOLEAN
    PROVE  DrawEdit(before, after, collab) \in Entries
BY DEF DrawEdit, Entries

LEMMA StackTypes ==
    ASSUME NEW hist \in Seq(Entries), hist # <<>>
    PROVE  /\ Last(hist) \in Entries /\ Front(hist) \in Seq(Entries)
           /\ Head(hist) \in Entries /\ Tail(hist) \in Seq(Entries)
<1>1. Len(hist) \in Nat \ {0}
  BY EmptySeq
<1>2. Last(hist) \in Entries
  BY <1>1, ElementOfSeq DEF Last
<1>3. \A i \in 1 .. Len(hist) - 1 : hist[i] \in Entries
  BY <1>1, ElementOfSeq
<1>4. Front(hist) \in Seq(Entries)
  BY <1>1, <1>3, SubSeqProperties DEF Front
<1> QED BY <1>2, <1>4, HeadTailProperties

LEMMA RemoveAtType ==
    ASSUME NEW hist \in Seq(Entries), NEW k \in DOMAIN hist
    PROVE  hist[k] \in Entries /\ RemoveAt(hist, k) \in Seq(Entries)
<1>1. k \in 1 .. Len(hist) /\ Len(hist) \in Nat
  BY LenProperties
<1>2. hist[k] \in Entries
  BY <1>1, ElementOfSeq
<1>3. /\ \A i \in 1 .. k - 1 : hist[i] \in Entries
      /\ \A i \in k + 1 .. Len(hist) : hist[i] \in Entries
  BY <1>1, ElementOfSeq
<1>4. SubSeq(hist, 1, k - 1) \in Seq(Entries)
  BY <1>1, <1>3, SubSeqProperties
<1>5. SubSeq(hist, k + 1, Len(hist)) \in Seq(Entries)
  BY <1>1, <1>3, SubSeqProperties
<1> QED BY <1>2, <1>4, <1>5, ConcatProperties DEF RemoveAt

\* The history of the server.
LEMMA RecordedType ==
    ASSUME NEW revs \in Seq(WholeDocs), Len(revs) <= HistoryLimit, NEW d \in WholeDocs
    PROVE  Recorded(revs, d) \in Seq(WholeDocs) /\ Len(Recorded(revs, d)) <= HistoryLimit
<1> DEFINE all == Append(revs, d)
<1>1. /\ all \in Seq(WholeDocs) /\ all # <<>> /\ Len(all) = Len(revs) + 1
      /\ Len(revs) \in Nat /\ HistoryLimit \in Nat
  BY AppendProperties, LenProperties, DrawAssumption
<1>2. Tail(all) \in Seq(WholeDocs) /\ Len(Tail(all)) = Len(all) - 1
  BY <1>1, HeadTailProperties
<1> HIDE DEF all
<1>3. CASE revs # <<>> /\ Last(revs) = d
  BY <1>3 DEF Recorded
<1>4. CASE ~(revs # <<>> /\ Last(revs) = d)
  <2>1. Recorded(revs, d) = IF Len(all) > HistoryLimit THEN Tail(all) ELSE all
    BY <1>4 DEF Recorded, all
  <2> QED BY <2>1, <1>1, <1>2
<1> QED BY <1>3, <1>4

\* A store leaves a whole document, on a new version if it is a new document.
LEMMA StoredFacts ==
    ASSUME ServerTypes, ReadTypes, NEW doc \in Docs, NEW revs \in Seq(WholeDocs),
           Len(revs) <= HistoryLimit, Stored(doc, revs)
    PROVE  /\ ServerTypes' /\ dnews' \in Nat /\ ddoc' = Whole(doc)
           /\ dver' >= dver /\ (dver' = dver => ddoc' = ddoc)
<1>1. Whole(doc) \in WholeDocs
  BY WholeMends
<1>2. CASE Whole(doc) = ddoc
  BY <1>2 DEF Stored, ServerTypes, ReadTypes
<1>3. CASE Whole(doc) # ddoc
  <2>1. /\ ddoc' = Whole(doc) /\ dver' = dver + 1
        /\ drevs' \in {Recorded(revs, Whole(doc)), revs}
        /\ dnews' \in {dver', dnews}
    BY <1>3 DEF Stored
  <2>2. drevs' \in Seq(WholeDocs) /\ Len(drevs') <= HistoryLimit
    BY <2>1, <1>1, RecordedType
  <2> QED BY <2>1, <2>2, <1>1 DEF ServerTypes, ReadTypes
<1> QED BY <1>2, <1>3

-----------------------------------------------------------------------------
(* What the handlers make of the tab.                                      *)

LEMMA AdoptFields ==
    ASSUME NEW t \in TabStates, NEW d \in Versions
    PROVE  /\ Adopt(t, d) \in TabStates
           /\ Adopt(t, d).doc = d.doc /\ Adopt(t, d).base = d
           /\ Adopt(t, d).known = d.ver /\ Adopt(t, d).seen = d
           /\ Adopt(t, d).status = "saved" /\ Adopt(t, d).failed = t.failed
           /\ Adopt(t, d).conflict = t.conflict
           /\ Adopt(t, d).touched = (dsave.pc # "idle")
<1>1. d.doc \in WholeDocs /\ d.ver \in Nat
  BY DEF Versions
<1> DEFINE busy == dsave.pc # "idle"
<1>2. busy \in BOOLEAN
  OBVIOUS
<1>3. Adopt(t, d) = [[t EXCEPT !.doc = d.doc, !.ver = d.ver, !.base = d, !.known = d.ver,
                               !.seen = d, !.status = "saved"] EXCEPT !.touched = busy]
  BY DEF Adopt, Touched
<1> HIDE DEF busy
<1>4. /\ Adopt(t, d) \in TabStates
      /\ Adopt(t, d).doc = d.doc /\ Adopt(t, d).base = d
      /\ Adopt(t, d).known = d.ver /\ Adopt(t, d).seen = d
      /\ Adopt(t, d).status = "saved" /\ Adopt(t, d).failed = t.failed
      /\ Adopt(t, d).conflict = t.conflict
      /\ Adopt(t, d).touched = busy
  BY <1>1, <1>2, <1>3 DEF TabStates
<1> QED BY <1>4 DEF busy

\* A remote document that is not new changes nothing; one that clashes is kept for
\* the user's decision; any other is merged into the canvas.
Skipped(t, remote, new) == remote.ver <= t.base.ver /\ new = t

Clashed(t, remote, new) ==
    /\ remote.ver > t.base.ver /\ DrawMerge(t.base.doc, t.doc, remote.doc).clash
    /\ new.doc = t.doc /\ new.base = t.base /\ new.seen = t.seen
    /\ new.known = remote.ver /\ new.status = "conflict" /\ new.failed = t.failed
    /\ new.conflict = Conflict(t.base.doc, t.doc, remote)
    /\ new.touched = t.touched

MergedIn(t, remote, new) ==
    /\ Merges(t, remote)
    /\ new.doc = DrawMerge(t.base.doc, t.doc, remote.doc).doc
    /\ new.base = remote /\ new.seen = remote /\ new.known = remote.ver
    /\ new.conflict = Nothing /\ new.failed = t.failed
    /\ new.touched = (dsave.pc # "idle")

LEMMA IntegrateFields ==
    ASSUME NEW t \in TabStates, NEW r \in Versions
    PROVE  /\ Integrate(t, r) \in TabStates
           /\ \/ Skipped(t, r, Integrate(t, r))
              \/ Clashed(t, r, Integrate(t, r))
              \/ MergedIn(t, r, Integrate(t, r))
<1> DEFINE m == DrawMerge(t.base.doc, t.doc, r.doc)
           hist == IF m.doc = t.doc THEN t.hist
                   ELSE Pushed(t.hist, DrawEdit(t.doc, m.doc, TRUE))
           fut == IF m.doc = t.doc THEN t.fut ELSE <<>>
           seen == [t EXCEPT !.base = r, !.known = r.ver, !.seen = r,
                             !.conflict = Nothing, !.hist = hist, !.fut = fut]
<1>1. /\ t.doc \in WholeDocs /\ t.base \in Versions /\ t.base.doc \in WholeDocs
      /\ t.base.ver \in Nat /\ r.doc \in WholeDocs /\ r.ver \in Nat
      /\ t.hist \in Seq(Entries) /\ t.fut \in Seq(Entries)
  BY DEF TabStates, Versions
<1>2. m.doc \in WholeDocs
  BY <1>1, WholeIsDoc, MergeIsWhole
<1>3. Integrate(t, r) = IF r.ver <= t.base.ver THEN t
                        ELSE IF m.clash
                        THEN [t EXCEPT !.known = r.ver, !.status = "conflict",
                                       !.conflict = Conflict(t.base.doc, t.doc, r)]
                        ELSE IF m.doc # r.doc
                        THEN Touched([seen EXCEPT !.doc = m.doc, !.ver = r.ver,
                                                  !.status = "unsaved"])
                        ELSE Adopt(seen, r)
  BY DEF Integrate
<1>4. Merges(t, r) <=> r.ver > t.base.ver /\ ~m.clash
  BY DEF Merges
<1> HIDE DEF m
<1>5. hist \in Seq(Entries)
  <2>1. TRUE \in BOOLEAN
    OBVIOUS
  <2>2. DrawEdit(t.doc, m.doc, TRUE) \in Entries
    BY <2>1, <1>1, <1>2, EntryType
  <2> QED BY <2>2, <1>1, PushedType
<1>6. fut \in Seq(Entries)
  BY <1>1, EmptySeq
<1> HIDE DEF hist, fut
<1>7. CASE r.ver <= t.base.ver
  BY <1>7, <1>3 DEF Skipped
<1>8. CASE r.ver > t.base.ver /\ m.clash
  <2> DEFINE new == [t EXCEPT !.known = r.ver, !.status = "conflict",
                              !.conflict = Conflict(t.base.doc, t.doc, r)]
  <2>1. Integrate(t, r) = new
    BY <1>8, <1>3, <1>1
  <2>2. Conflict(t.base.doc, t.doc, r) \in Conflicts
    BY <1>1 DEF Conflict, Conflicts
  <2>3. new \in TabStates
    BY <2>2, <1>1 DEF TabStates
  <2>4. Clashed(t, r, new)
    BY <1>8 DEF Clashed, TabStates, m
  <2> QED BY <2>1, <2>3, <2>4
<1>9. CASE r.ver > t.base.ver /\ ~m.clash
  <2>1. /\ seen \in TabStates
        /\ seen.base = r /\ seen.known = r.ver /\ seen.seen = r
        /\ seen.conflict = Nothing /\ seen.failed = t.failed
    BY <1>1, <1>5, <1>6 DEF TabStates
  <2> HIDE DEF seen
  <2>4. CASE m.doc # r.doc
    <3> DEFINE busy == dsave.pc # "idle"
               new == [[seen EXCEPT !.doc = m.doc, !.ver = r.ver, !.status = "unsaved"]
                          EXCEPT !.touched = busy]
    <3>1. Touched([seen EXCEPT !.doc = m.doc, !.ver = r.ver, !.status = "unsaved"]) = new
      BY DEF Touched
    <3>2. Integrate(t, r) = new
      BY <3>1, <2>4, <1>9, <1>3, <1>1
    <3>3. busy \in BOOLEAN
      OBVIOUS
    <3> HIDE DEF busy
    <3>4. /\ new \in TabStates
          /\ new.doc = m.doc /\ new.base = seen.base /\ new.known = seen.known
          /\ new.seen = seen.seen /\ new.conflict = seen.conflict
          /\ new.failed = seen.failed /\ new.touched = busy
      BY <2>1, <3>3, <1>1, <1>2 DEF TabStates
    <3> HIDE DEF new
    <3>5. MergedIn(t, r, new)
      BY <1>4, <1>9, <3>4, <2>1 DEF MergedIn, m, busy
    <3> QED BY <3>2, <3>4, <3>5
  <2>5. CASE m.doc = r.doc
    <3>1. Integrate(t, r) = Adopt(seen, r)
      BY <2>5, <1>9, <1>3, <1>1
    <3>2. MergedIn(t, r, Adopt(seen, r))
      BY <2>1, <2>5, <1>4, <1>9, AdoptFields DEF MergedIn, m
    <3> QED BY <3>1, <3>2, <2>1, AdoptFields
  <2> QED BY <2>4, <2>5
<1> QED BY <1>1, <1>7, <1>8, <1>9

\* So a change that is on the canvas and not in the base survives.
LEMMA IntegrateKeeps ==
    ASSUME NEW t \in TabStates, NEW r \in Versions, NEW o \in Things,
           t.doc[o] # t.base.doc[o]
    PROVE  Integrate(t, r).doc[o] = t.doc[o]
<1>1. /\ t.doc \in Docs /\ t.base.doc \in Docs /\ r.doc \in Docs
  BY WholeIsDoc DEF TabStates, Versions
<1>2. Merges(t, r) => DrawMerge(t.base.doc, t.doc, r.doc).doc[o] = t.doc[o]
  BY <1>1, MergeKeeps DEF Merges
<1> QED BY <1>2, IntegrateFields DEF Skipped, Clashed, MergedIn

\* A save that is sent.
LEMMA PutFields ==
    ASSUME NEW t \in TabStates, NEW tries \in Nat, NEW queue \in Nat,
           Put(t, tries, queue)
    PROVE  /\ tab' \in TabStates /\ dsave' \in SaveStates
           /\ tab'.doc = t.doc /\ tab'.base = t.base /\ tab'.known = t.known
           /\ tab'.seen = t.seen /\ tab'.conflict = t.conflict
           /\ dsave'.pc = "put" /\ dsave'.ans = Nothing
           /\ dsave'.snap \in Snaps
           /\ dsave'.snap = [doc |-> t.doc, ver |-> t.known,
                             own |-> {o \in Things : t.doc[o] # t.seen.doc[o]}]
<1> DEFINE snap == [doc |-> t.doc, ver |-> t.known,
                    own |-> {o \in Things : t.doc[o] # t.seen.doc[o]}]
<1>1. snap \in Snaps
  BY DEF Snaps, TabStates
<1>2. tab' = [t EXCEPT !.status = "saving", !.failed = FALSE, !.touched = FALSE]
  BY DEF Put
<1>3. /\ tab' \in TabStates
      /\ tab'.doc = t.doc /\ tab'.base = t.base /\ tab'.known = t.known
      /\ tab'.seen = t.seen /\ tab'.conflict = t.conflict
  BY <1>2 DEF TabStates
<1>4. dsave' = [SaveIdle(queue) EXCEPT !.pc = "put", !.tries = tries, !.snap = snap]
  BY DEF Put
<1> HIDE DEF snap
<1>5. dsave' = [pc |-> "put", snap |-> snap, tries |-> tries, ans |-> Nothing,
                queue |-> queue]
  BY <1>4 DEF SaveIdle
<1>6. dsave' \in SaveStates
  BY <1>1, <1>5 DEF SaveStates
<1> QED BY <1>1, <1>3, <1>5, <1>6 DEF snap

LEMMA SaveIdleType ==
    ASSUME NEW queue \in Nat
    PROVE  /\ SaveIdle(queue) \in SaveStates /\ SaveIdle(queue).pc = "idle"
           /\ SaveIdle(queue).ans = Nothing /\ SaveIdle(queue).snap = Nothing
BY DEF SaveIdle, SaveStates

-----------------------------------------------------------------------------
(* The steps keep the types, and what was sent stands.                     *)

DrawSafe == DrawTypes /\ SentStands

\* A step that leaves the save where it is, and either leaves the canvas or marks it.
LEMMA SentStays ==
    ASSUME DrawSafe, dsave'.pc = dsave.pc, dsave'.snap = dsave.snap,
           dsave'.ans = dsave.ans,
           \/ tab'.doc = tab.doc /\ tab'.touched = tab.touched
           \/ tab'.touched = (dsave.pc # "idle")
    PROVE  SentStands'
BY DEF DrawSafe, SentStands

LEMMA NothingSent ==
    ASSUME dsave'.pc \notin {"put", "ok"}
    PROVE  SentStands'
BY DEF SentStands

\* A step that changes the canvas and not what the tab knows of the server.
SameKnowledge ==
    /\ tab'.base = tab.base /\ tab'.seen = tab.seen /\ tab'.known = tab.known
    /\ tab'.failed = tab.failed
    /\ tab.status = "conflict" => tab'.status = "conflict"
    /\ tab'.conflict # Nothing =>
          tab.conflict # Nothing /\ tab'.conflict.theirs = tab.conflict.theirs

LEMMA UserEditStep ==
    ASSUME DrawSafe, NEW o \in Things, NEW v \in UserSets[o], UserEdit(o, v)
    PROVE  DrawSafe' /\ dcount'.edits > dcount.edits /\ SameKnowledge
<1> DEFINE next == Whole([tab.doc EXCEPT ![o] = v])
           busy == dsave.pc # "idle"
           hist == Pushed(tab.hist, DrawEdit(tab.doc, next, FALSE))
           pushed == [[tab EXCEPT !.doc = next, !.fut = <<>>, !.hist = hist]
                         EXCEPT !.touched = busy]
           conf == IF tab.conflict = Nothing THEN tab.conflict
                   ELSE [tab.conflict EXCEPT !.mine = next]
<1> USE DEF DrawSafe, DrawTypes, TabTypes
<1>1. v \in DrawVals
  BY DEF DrawVals
<1>2. next \in WholeDocs
  <2>1. [tab.doc EXCEPT ![o] = v] \in Docs
    BY <1>1, WholeIsDoc DEF TabStates, Docs
  <2> QED BY <2>1, WholeMends
<1>3. hist \in Seq(Entries)
  <2>1. DrawEdit(tab.doc, next, FALSE) \in Entries
    <3>1. FALSE \in BOOLEAN
      OBVIOUS
    <3> QED BY <3>1, <1>2, EntryType DEF TabStates
  <2> QED BY <2>1, PushedType DEF TabStates
<1>4. tab' = IF tab.status = "conflict" THEN [pushed EXCEPT !.conflict = conf]
             ELSE [pushed EXCEPT !.status = "unsaved"]
  <2>1. Touched([tab EXCEPT !.doc = next, !.fut = <<>>, !.hist = hist]) = pushed
    BY DEF Touched
  <2>2. pushed.conflict = tab.conflict
    BY DEF TabStates
  <2> QED BY <2>1, <2>2 DEF UserEdit
<1>5. busy \in BOOLEAN
  OBVIOUS
<1> HIDE DEF next, busy, hist
<1>6. /\ conf \in Conflicts \cup {Nothing}
      /\ conf # Nothing => tab.conflict # Nothing /\ conf.theirs = tab.conflict.theirs
  <2>1. tab.conflict \in Conflicts \cup {Nothing}
    BY DEF TabStates
  <2>2. CASE tab.conflict = Nothing
    BY <2>2
  <2>3. CASE tab.conflict # Nothing
    BY <2>1, <2>3, <1>2 DEF Conflicts
  <2> QED BY <2>2, <2>3
<1> HIDE DEF conf
<1>7. /\ pushed \in TabStates /\ pushed.touched = busy
      /\ pushed.base = tab.base /\ pushed.seen = tab.seen /\ pushed.known = tab.known
      /\ pushed.failed = tab.failed /\ pushed.status = tab.status
      /\ pushed.conflict = tab.conflict
  BY <1>2, <1>3, <1>5, EmptySeq DEF TabStates
<1> HIDE DEF pushed
<1>8. /\ tab' \in TabStates /\ tab'.touched = busy
      /\ tab'.base = pushed.base /\ tab'.seen = pushed.seen
      /\ tab'.known = pushed.known /\ tab'.failed = pushed.failed
      /\ tab.status = "conflict" => tab'.status = "conflict"
      /\ tab'.conflict \in {tab.conflict, conf}
  <2>1. CASE tab.status = "conflict"
    <3>1. tab' = [pushed EXCEPT !.conflict = conf]
      BY <1>4, <2>1
    <3> QED BY <2>1, <3>1, <1>6, <1>7 DEF TabStates
  <2>2. CASE tab.status # "conflict"
    <3>1. tab' = [pushed EXCEPT !.status = "unsaved"]
      BY <1>4, <2>2
    <3> QED BY <2>2, <3>1, <1>7 DEF TabStates
  <2> QED BY <2>1, <2>2
<1>9. /\ UNCHANGED <<ddoc, dver, drevs, dsave, dlate, dpull, drest, dnews, dsocket>>
      /\ Counted("edits", MaxUserEdits)
  BY DEF UserEdit
<1>10. dcount' \in Counters /\ dcount'.edits = dcount.edits + 1
  BY <1>9, CountedTypes
<1>11. SentStands'
  BY <1>8, <1>9, SentStays DEF busy
<1>12. dcount'.edits > dcount.edits
  BY <1>10 DEF Counters
<1>13. SameKnowledge
  BY <1>6, <1>7, <1>8 DEF SameKnowledge
<1> QED BY <1>8, <1>9, <1>10, <1>11, <1>12, <1>13
        DEF ServerTypes, SaveTypes, ReadTypes, SaveShape

LEMMA ApplyStep ==
    ASSUME DrawSafe, NEW entry \in Entries, NEW undo \in BOOLEAN,
           NEW hist \in Seq(Entries), NEW fut \in Seq(Entries),
           ApplyEntry(entry, undo, hist, fut)
    PROVE  DrawSafe' /\ dcount'.edits > dcount.edits /\ SameKnowledge
<1> DEFINE m == IF undo THEN DrawMerge(entry.after, entry.before, tab.doc)
                ELSE DrawMerge(entry.before, entry.after, tab.doc)
           busy == dsave.pc # "idle"
<1> USE DEF DrawSafe, DrawTypes, TabTypes
<1>1. m.doc \in WholeDocs
  BY MergeIsWhole, WholeIsDoc DEF Entries, TabStates
<1>2. tab' = [[tab EXCEPT !.doc = m.doc, !.status = "unsaved", !.hist = hist,
                          !.fut = fut] EXCEPT !.touched = busy]
  BY DEF ApplyEntry, Touched
<1>3. busy \in BOOLEAN
  OBVIOUS
<1> HIDE DEF m, busy
<1>4. /\ tab' \in TabStates /\ tab'.touched = busy
      /\ tab'.base = tab.base /\ tab'.seen = tab.seen /\ tab'.known = tab.known
      /\ tab'.failed = tab.failed /\ tab'.conflict = tab.conflict
  BY <1>1, <1>2, <1>3 DEF TabStates
<1>5. /\ UNCHANGED <<ddoc, dver, drevs, dsave, dlate, dpull, drest, dnews, dsocket>>
      /\ Counted("edits", MaxUserEdits)
  BY DEF ApplyEntry
<1>6. dcount' \in Counters /\ dcount'.edits = dcount.edits + 1
  BY <1>5, CountedTypes
<1>7. SentStands'
  BY <1>4, <1>5, SentStays DEF busy
<1>8. dcount'.edits > dcount.edits
  BY <1>6 DEF Counters
<1>9. SameKnowledge
  <2>1. tab.status # "conflict"
    BY DEF ApplyEntry
  <2> QED BY <1>4, <2>1 DEF SameKnowledge
<1> QED BY <1>4, <1>5, <1>6, <1>7, <1>8, <1>9
        DEF ServerTypes, SaveTypes, ReadTypes, SaveShape

\* Undo, redo, and the undoing of one change of the agent.
LEMMA HistorySteps ==
    ASSUME DrawSafe, Undo \/ Redo \/ \E k \in DOMAIN tab.hist : UndoChange(k)
    PROVE  DrawSafe' /\ dcount'.edits > dcount.edits /\ SameKnowledge
<1>1. tab.hist \in Seq(Entries) /\ tab.fut \in Seq(Entries)
  BY DEF DrawSafe, DrawTypes, TabTypes, TabStates
<1>2. TRUE \in BOOLEAN /\ FALSE \in BOOLEAN
  OBVIOUS
<1>3. CASE Undo
  <2>1. Last(tab.hist) \in Entries /\ Front(tab.hist) \in Seq(Entries)
    BY <1>1, <1>3, StackTypes DEF Undo
  <2>2. <<Last(tab.hist)>> \o tab.fut \in Seq(Entries)
    <3>1. <<Last(tab.hist)>> \in Seq(Entries)
      BY <2>1
    <3> QED BY <3>1, <1>1, ConcatProperties
  <2>3. ApplyEntry(Last(tab.hist), TRUE, Front(tab.hist), <<Last(tab.hist)>> \o tab.fut)
    BY <1>3 DEF Undo
  <2> QED BY <2>1, <2>2, <2>3, <1>2, ApplyStep
<1>4. CASE Redo
  <2>1. Head(tab.fut) \in Entries /\ Tail(tab.fut) \in Seq(Entries)
    BY <1>1, <1>4, StackTypes DEF Redo
  <2>2. Append(tab.hist, Head(tab.fut)) \in Seq(Entries)
    BY <2>1, <1>1, AppendProperties
  <2>3. ApplyEntry(Head(tab.fut), FALSE, Append(tab.hist, Head(tab.fut)), Tail(tab.fut))
    BY <1>4 DEF Redo
  <2> QED BY <2>1, <2>2, <2>3, <1>2, ApplyStep
<1>5. ASSUME NEW k \in DOMAIN tab.hist, UndoChange(k)
      PROVE  DrawSafe' /\ dcount'.edits > dcount.edits /\ SameKnowledge
  <2>1. tab.hist[k] \in Entries /\ RemoveAt(tab.hist, k) \in Seq(Entries)
    BY <1>1, RemoveAtType
  <2>2. ApplyEntry(tab.hist[k], TRUE, RemoveAt(tab.hist, k), <<>>)
    BY <1>5 DEF UndoChange
  <2>3. <<>> \in Seq(Entries)
    BY EmptySeq
  <2> QED BY <2>1, <2>2, <2>3, <1>2, ApplyStep
<1> QED BY <1>3, <1>4, <1>5

\* The steps of the server.
LEMMA AgentStep ==
    ASSUME DrawSafe, NEW o \in Things, NEW v \in AgentSets[o], AgentPatch(o, v)
    PROVE  DrawSafe'
<1> USE DEF DrawSafe, DrawTypes
<1>1. [ddoc EXCEPT ![o] = v] \in Docs
  <2>1. v \in DrawVals
    BY DEF DrawVals
  <2> QED BY <2>1, WholeIsDoc DEF ServerTypes, Docs
<1>2. /\ Stored([ddoc EXCEPT ![o] = v], drevs) /\ Counted("agent", MaxAgentEdits)
      /\ UNCHANGED <<tab, dsave, dlate, dpull, drest, dsocket>>
  BY DEF AgentPatch
<1>3. ServerTypes' /\ dnews' \in Nat
  BY <1>1, <1>2, StoredFacts DEF ServerTypes
<1>4. dcount' \in Counters
  BY <1>2, CountedTypes
<1> QED BY <1>2, <1>3, <1>4 DEF TabTypes, SaveTypes, ReadTypes, SaveShape, SentStands

LEMMA LatePutStep ==
    ASSUME DrawSafe, LatePut
    PROVE  DrawSafe'
<1> USE DEF DrawSafe, DrawTypes
<1>1. /\ dlate # Nothing /\ dlate' = Nothing
      /\ UNCHANGED <<tab, dsave, dpull, drest, dsocket, dcount>>
      /\ Stored(dlate.doc, drevs) \/ UNCHANGED <<ddoc, dver, drevs, dnews>>
  BY DEF LatePut
<1>2. dlate.doc \in Docs
  BY <1>1, WholeIsDoc DEF SaveTypes, Snaps
<1>3. ServerTypes' /\ dnews' \in Nat
  BY <1>1, <1>2, StoredFacts DEF ServerTypes, ReadTypes
<1> QED BY <1>1, <1>3 DEF TabTypes, SaveTypes, ReadTypes, SaveShape, SentStands

LEMMA PutArrivesStep ==
    ASSUME DrawSafe, PutArrives
    PROVE  DrawSafe'
<1> USE DEF DrawSafe, DrawTypes
<1>1. dsave.pc = "put" /\ UNCHANGED <<tab, dlate, dpull, drest, dsocket, dcount>>
  BY DEF PutArrives
<1>2. dsave \in SaveStates /\ dsave.snap \in Snaps
  BY <1>1 DEF SaveTypes, SaveShape
<1>3. CASE dsave.snap.ver = dver
  <2>1. /\ Stored(dsave.snap.doc, drevs)
        /\ dsave' = [dsave EXCEPT !.pc = "ok", !.ans = At(ddoc', dver')]
    BY <1>3 DEF PutArrives
  <2>2. dsave.snap.doc \in WholeDocs
    BY <1>2 DEF Snaps
  <2>3. ServerTypes' /\ dnews' \in Nat /\ ddoc' = Whole(dsave.snap.doc)
    BY <2>1, <2>2, WholeIsDoc, StoredFacts DEF ServerTypes
  <2>4. ddoc' = dsave.snap.doc
    BY <2>2, <2>3, WholeStays
  <2>5. At(ddoc', dver') \in Versions /\ At(ddoc', dver').doc = dsave.snap.doc
    BY <2>3, <2>4 DEF At, Versions, ServerTypes
  <2>6. /\ dsave' \in SaveStates /\ dsave'.pc = "ok" /\ dsave'.snap = dsave.snap
        /\ dsave'.ans = At(ddoc', dver')
    BY <2>1, <2>5, <1>2 DEF SaveStates
  <2>7. SentStands'
    BY <2>5, <2>6, <1>1 DEF SentStands
  <2> QED BY <2>3, <2>5, <2>6, <2>7, <1>1, <1>2
          DEF TabTypes, SaveTypes, ReadTypes, SaveShape
<1>4. CASE dsave.snap.ver # dver
  <2>1. /\ dsave' = [dsave EXCEPT !.pc = "rejected"]
        /\ UNCHANGED <<ddoc, dver, drevs, dnews>>
    BY <1>4 DEF PutArrives
  <2>2. dsave' \in SaveStates /\ dsave'.pc = "rejected"
    BY <2>1, <1>2 DEF SaveStates
  <2> QED BY <2>1, <2>2, <1>1, NothingSent
          DEF ServerTypes, TabTypes, SaveTypes, ReadTypes, SaveShape
<1> QED BY <1>3, <1>4

LEMMA RestoreStep ==
    ASSUME DrawSafe, NEW k \in DOMAIN drevs, Restore(drevs[k])
    PROVE  DrawSafe'
<1> USE DEF DrawSafe, DrawTypes
<1>1. /\ Stored(drevs[k], RestoreHistory(drevs)) /\ Counted("restores", MaxRestores)
      /\ drest' = [before |-> tab.doc, now |-> At(ddoc', dver')]
      /\ UNCHANGED <<tab, dsave, dlate, dpull, dsocket>>
  BY DEF Restore
<1>2. drevs[k] \in WholeDocs
  BY ElementOfSeq, LenProperties DEF ServerTypes
<1>3. /\ RestoreHistory(drevs) \in Seq(WholeDocs)
      /\ Len(RestoreHistory(drevs)) <= HistoryLimit
  BY RecordedType DEF RestoreHistory, ServerTypes
<1>4. ServerTypes' /\ dnews' \in Nat
  BY <1>1, <1>2, <1>3, WholeIsDoc, StoredFacts
<1>5. At(ddoc', dver') \in Versions
  BY <1>4 DEF At, Versions, ServerTypes
<1>6. drest' \in Restorations
  BY <1>1, <1>5 DEF Restorations, TabTypes, TabStates
<1>7. dcount' \in Counters
  BY <1>1, CountedTypes
<1> QED BY <1>1, <1>4, <1>6, <1>7
        DEF TabTypes, SaveTypes, ReadTypes, SaveShape, SentStands

-----------------------------------------------------------------------------
(* The steps of a save.                                                    *)

\* What a step leaves of a change on the canvas that the server has not confirmed.
Keeps ==
    \A o \in Things : tab.doc[o] # tab.base.doc[o] => tab'.doc[o] = tab.doc[o]

LEMMA SaveQueued ==
    ASSUME DrawSafe, dsave' = [dsave EXCEPT !.queue = dsave.queue + 1]
    PROVE  /\ dsave' \in SaveStates /\ dsave'.pc = dsave.pc
           /\ dsave'.snap = dsave.snap /\ dsave'.ans = dsave.ans
BY DEF DrawSafe, DrawTypes, SaveTypes, SaveStates

LEMMA ClickStep ==
    ASSUME DrawSafe, ClickSave
    PROVE  DrawSafe' /\ Keeps
<1>1. /\ dsave' = [dsave EXCEPT !.queue = dsave.queue + 1] /\ Counted("clicks", MaxClicks)
      /\ UNCHANGED <<ddoc, dver, drevs, tab, dlate, dpull, drest, dnews, dsocket>>
  BY DEF ClickSave
<1>2. dcount' \in Counters
  BY <1>1, CountedTypes DEF DrawSafe, DrawTypes
<1> QED BY <1>1, <1>2, SaveQueued, SentStays
        DEF DrawSafe, DrawTypes, ServerTypes, TabTypes, SaveTypes, ReadTypes, SaveShape,
            Keeps

LEMMA SaveBeginsStep ==
    ASSUME DrawSafe, SaveBegins
    PROVE  DrawSafe' /\ Keeps
<1> USE DEF DrawSafe, DrawTypes
<1>1. /\ dsave.queue > 0
      /\ UNCHANGED <<ddoc, dver, drevs, dlate, dpull, drest, dnews, dsocket, dcount>>
  BY DEF SaveBegins
<1>2. dsave.queue - 1 \in Nat
  BY <1>1 DEF SaveTypes, SaveStates
<1>3. CASE Put(tab, 0, dsave.queue - 1)
  <2>1. 0 \in Nat /\ tab \in TabStates
    BY DEF TabTypes
  <2>2. /\ tab' \in TabStates /\ dsave' \in SaveStates
        /\ tab'.doc = tab.doc /\ dsave'.pc = "put" /\ dsave'.snap \in Snaps
        /\ dsave'.snap = [doc |-> tab.doc, ver |-> tab.known,
                          own |-> {o \in Things : tab.doc[o] # tab.seen.doc[o]}]
    BY <2>1, <1>2, <1>3, PutFields
  <2>3. dsave'.snap.doc = tab.doc
    BY <2>2
  <2> QED BY <2>2, <2>3, <1>1
          DEF ServerTypes, TabTypes, SaveTypes, ReadTypes, SaveShape, SentStands, Keeps
<1>4. CASE /\ UNCHANGED tab
           /\ \/ dsave' = SaveIdle(dsave.queue - 1)
              \/ dsave' = [SaveIdle(dsave.queue - 1) EXCEPT !.pc = "readback"]
  <2>1. dsave' \in SaveStates /\ dsave'.pc \in {"idle", "readback"}
    BY <1>2, <1>4, SaveIdleType DEF SaveStates
  <2> QED BY <2>1, <1>1, <1>4, NothingSent
          DEF ServerTypes, TabTypes, SaveTypes, ReadTypes, SaveShape, Keeps
<1> QED BY <1>3, <1>4 DEF SaveBegins

LEMMA PutLostStep ==
    ASSUME DrawSafe, PutLost
    PROVE  DrawSafe' /\ Keeps
<1> USE DEF DrawSafe, DrawTypes
<1>1. /\ DrawFault("lost") /\ dsave' = SaveIdle(dsave.queue)
      /\ tab' = [tab EXCEPT !.status = "unsaved", !.failed = TRUE, !.touched = FALSE]
      /\ dlate' \in {dsave.snap, Nothing}
      /\ UNCHANGED <<ddoc, dver, drevs, dpull, drest, dnews, dsocket>>
  BY DEF PutLost
<1>2. tab' \in TabStates /\ tab'.doc = tab.doc
  BY <1>1 DEF TabTypes, TabStates
<1>3. dsave' \in SaveStates /\ dsave'.pc = "idle"
  BY <1>1, SaveIdleType DEF SaveTypes, SaveStates
<1>4. dlate' \in Snaps \cup {Nothing}
  BY <1>1 DEF SaveTypes, SaveStates
<1>5. dcount' \in Counters
  BY <1>1, CountedTypes DEF DrawFault
<1> QED BY <1>1, <1>2, <1>3, <1>4, <1>5, NothingSent
        DEF ServerTypes, TabTypes, SaveTypes, ReadTypes, SaveShape, Keeps

LEMMA SaveAnsweredStep ==
    ASSUME DrawSafe, SaveAnswered
    PROVE  DrawSafe' /\ Keeps
<1> USE DEF DrawSafe, DrawTypes
<1> DEFINE doc == IF tab.touched THEN tab.doc ELSE dsave.ans.doc
           status == IF tab.touched THEN "unsaved" ELSE "saved"
<1>1. /\ dsave.pc = "ok" /\ dsave' = SaveIdle(dsave.queue)
      /\ tab' = [tab EXCEPT !.known = dsave.ans.ver, !.base = dsave.ans,
                            !.seen = dsave.ans, !.touched = FALSE, !.doc = doc,
                            !.ver = dsave.ans.ver, !.status = status]
      /\ UNCHANGED <<ddoc, dver, drevs, dlate, dpull, drest, dnews, dsocket, dcount>>
  BY DEF SaveAnswered
<1>2. /\ dsave.ans \in Versions /\ dsave.ans.ver \in Nat
      /\ doc \in WholeDocs /\ status \in {"unsaved", "saved"}
  BY <1>1 DEF SaveShape, Versions, TabTypes, TabStates
<1>3. doc = tab.doc
  BY <1>1 DEF SentStands
<1> HIDE DEF doc, status
<1>4. tab' \in TabStates /\ tab'.doc = doc
  BY <1>1, <1>2 DEF TabTypes, TabStates
<1>5. dsave' \in SaveStates /\ dsave'.pc = "idle"
  BY <1>1, SaveIdleType DEF SaveTypes, SaveStates
<1> QED BY <1>1, <1>3, <1>4, <1>5, NothingSent
        DEF ServerTypes, TabTypes, SaveTypes, ReadTypes, SaveShape, Keeps

LEMMA SaveRejectedStep ==
    ASSUME DrawSafe, SaveRejected
    PROVE  DrawSafe' /\ Keeps
<1> USE DEF DrawSafe, DrawTypes
<1>1. /\ dsave' = [dsave EXCEPT !.pc = "reread"] /\ tab' = [tab EXCEPT !.status = "conflict"]
      /\ UNCHANGED <<ddoc, dver, drevs, dlate, dpull, drest, dnews, dsocket, dcount>>
  BY DEF SaveRejected
<1>2. dsave' \in SaveStates /\ dsave'.pc = "reread"
  BY <1>1 DEF SaveTypes, SaveStates
<1>3. tab' \in TabStates /\ tab'.doc = tab.doc
  BY <1>1 DEF TabTypes, TabStates
<1> QED BY <1>1, <1>2, <1>3, NothingSent
        DEF ServerTypes, TabTypes, SaveTypes, ReadTypes, SaveShape, Keeps

LEMMA ServerIsVersion ==
    ASSUME ServerTypes
    PROVE  Server \in Versions /\ Server.doc = ddoc /\ Server.ver = dver
BY DEF ServerTypes, Server, At, Versions

LEMMA SaveReadStep ==
    ASSUME DrawSafe, SaveRead
    PROVE  DrawSafe' /\ Keeps
<1> USE DEF DrawSafe, DrawTypes
<1>1. /\ dsave.pc \in {"reread", "readback"} /\ dsave' = [dsave EXCEPT !.ans = Server]
      /\ UNCHANGED <<ddoc, dver, drevs, tab, dlate, dpull, drest, dnews, dsocket,
                     dcount>>
  BY DEF SaveRead
<1>2. dsave' \in SaveStates /\ dsave'.pc = dsave.pc
  BY <1>1, ServerIsVersion DEF SaveTypes, SaveStates
<1> QED BY <1>1, <1>2, NothingSent
        DEF ServerTypes, TabTypes, SaveTypes, ReadTypes, SaveShape, Keeps

LEMMA SaveReadFailsStep ==
    ASSUME DrawSafe, SaveReadFails
    PROVE  DrawSafe' /\ Keeps
<1> USE DEF DrawSafe, DrawTypes
<1>1. /\ dsave.pc \in {"reread", "readback"} /\ DrawFault(dsave.pc)
      /\ dsave' = SaveIdle(dsave.queue)
      /\ \/ tab' = [tab EXCEPT !.status = "unsaved", !.touched = FALSE]
         \/ tab' = [tab EXCEPT !.touched = FALSE]
      /\ UNCHANGED <<ddoc, dver, drevs, dlate, dpull, drest, dnews, dsocket>>
  BY DEF SaveReadFails
<1>2. dsave' \in SaveStates /\ dsave'.pc = "idle"
  BY <1>1, SaveIdleType DEF SaveTypes, SaveStates
<1>3. tab' \in TabStates /\ tab'.doc = tab.doc
  BY <1>1 DEF TabTypes, TabStates
<1>4. dcount' \in Counters
  BY <1>1, CountedTypes DEF DrawFault
<1> QED BY <1>1, <1>2, <1>3, <1>4, NothingSent
        DEF ServerTypes, TabTypes, SaveTypes, ReadTypes, SaveShape, Keeps

\* A read of the server's document that is merged into the canvas.
LEMMA MergedCanvasKeeps ==
    ASSUME TabTypes, NEW r \in Versions, tab'.doc = Integrate(tab, r).doc
    PROVE  Keeps
BY IntegrateKeeps DEF TabTypes, Keeps

LEMMA RereadStep ==
    ASSUME DrawSafe, Reread
    PROVE  DrawSafe' /\ Keeps
<1> USE DEF DrawSafe, DrawTypes
<1> DEFINE t == Integrate(tab, dsave.ans)
<1>1. /\ dsave.pc = "reread" /\ dsave.ans # Nothing
      /\ UNCHANGED <<ddoc, dver, drevs, dlate, dpull, drest, dnews, dsocket, dcount>>
  BY DEF Reread
<1>2. dsave.ans \in Versions /\ dsave.queue \in Nat /\ 1 \in Nat
  BY <1>1 DEF SaveTypes, SaveStates
<1>3. t \in TabStates
  BY <1>2, IntegrateFields DEF TabTypes
<1>4. \/ Put(t, 1, dsave.queue)
      \/ tab' = [t EXCEPT !.touched = FALSE] /\ dsave' = SaveIdle(dsave.queue)
  BY DEF Reread
<1> HIDE DEF t
<1>5. CASE Put(t, 1, dsave.queue)
  <2>1. /\ tab' \in TabStates /\ dsave' \in SaveStates
        /\ tab'.doc = t.doc /\ dsave'.pc = "put" /\ dsave'.snap \in Snaps
        /\ dsave'.snap = [doc |-> t.doc, ver |-> t.known,
                          own |-> {o \in Things : t.doc[o] # t.seen.doc[o]}]
    BY <1>2, <1>3, <1>5, PutFields
  <2>2. dsave'.snap.doc = tab'.doc
    BY <2>1
  <2>3. Keeps
    BY <2>1, <1>2, MergedCanvasKeeps DEF t
  <2> QED BY <2>1, <2>2, <2>3, <1>1
          DEF ServerTypes, TabTypes, SaveTypes, ReadTypes, SaveShape, SentStands
<1>6. CASE tab' = [t EXCEPT !.touched = FALSE] /\ dsave' = SaveIdle(dsave.queue)
  <2>1. tab' \in TabStates /\ tab'.doc = t.doc
    BY <1>3, <1>6 DEF TabStates
  <2>2. dsave' \in SaveStates /\ dsave'.pc = "idle"
    BY <1>2, <1>6, SaveIdleType
  <2>3. Keeps
    BY <2>1, <1>2, MergedCanvasKeeps DEF t
  <2> QED BY <2>1, <2>2, <2>3, <1>1, NothingSent
          DEF ServerTypes, TabTypes, SaveTypes, ReadTypes, SaveShape
<1> QED BY <1>4, <1>5, <1>6

\* What was read after an uncertain save.
LEMMA ReadbackFields ==
    ASSUME DrawSafe, Readback
    PROVE  /\ dsave.pc = "readback" /\ dsave.ans \in Versions
           /\ tab' \in TabStates /\ dsave' = SaveIdle(dsave.queue)
           /\ tab'.doc = Integrate(tab, dsave.ans).doc
           /\ tab'.failed = FALSE
           /\ tab'.conflict = Integrate(tab, dsave.ans).conflict
           /\ \/ /\ tab'.base = Integrate(tab, dsave.ans).base
                 /\ tab'.seen = Integrate(tab, dsave.ans).seen
                 /\ tab'.known = Integrate(tab, dsave.ans).known
                 /\ tab'.status = Integrate(tab, dsave.ans).status
              \/ /\ tab'.base = dsave.ans /\ tab'.seen = dsave.ans
                 /\ tab'.known = dsave.ans.ver
           /\ UNCHANGED <<ddoc, dver, drevs, dlate, dpull, drest, dnews, dsocket,
                          dcount>>
<1> DEFINE t == Integrate(tab, dsave.ans)
           done == IF dsave.ans.doc = t.doc THEN Adopt(t, dsave.ans) ELSE t
<1>1. /\ dsave.pc = "readback" /\ dsave.ans # Nothing
      /\ tab' = [done EXCEPT !.failed = FALSE, !.touched = FALSE]
      /\ dsave' = SaveIdle(dsave.queue)
      /\ UNCHANGED <<ddoc, dver, drevs, dlate, dpull, drest, dnews, dsocket, dcount>>
  BY DEF Readback
<1>2. dsave.ans \in Versions
  BY <1>1 DEF DrawSafe, DrawTypes, SaveTypes, SaveStates
<1>3. t \in TabStates
  BY <1>2, IntegrateFields DEF DrawSafe, DrawTypes, TabTypes
<1> HIDE DEF t
<1>4. /\ done \in TabStates /\ done.doc = t.doc /\ done.conflict = t.conflict
      /\ \/ /\ done.base = t.base /\ done.seen = t.seen /\ done.known = t.known
            /\ done.status = t.status
         \/ done.base = dsave.ans /\ done.seen = dsave.ans /\ done.known = dsave.ans.ver
  BY <1>2, <1>3, AdoptFields
<1> HIDE DEF done
<1>5. /\ tab' \in TabStates /\ tab'.doc = done.doc /\ tab'.failed = FALSE
      /\ tab'.conflict = done.conflict /\ tab'.base = done.base /\ tab'.seen = done.seen
      /\ tab'.known = done.known /\ tab'.status = done.status
  BY <1>1, <1>4 DEF TabStates
<1> QED BY <1>1, <1>2, <1>4, <1>5 DEF t

LEMMA ReadbackStep ==
    ASSUME DrawSafe, Readback
    PROVE  DrawSafe' /\ Keeps
<1>1. dsave.queue \in Nat
  BY DEF DrawSafe, DrawTypes, SaveTypes, SaveStates
<1>2. dsave' \in SaveStates /\ dsave'.pc = "idle"
  BY <1>1, SaveIdleType, ReadbackFields
<1>3. Keeps
  BY ReadbackFields, MergedCanvasKeeps DEF DrawSafe, DrawTypes
<1> QED BY <1>2, <1>3, ReadbackFields, NothingSent
        DEF DrawSafe, DrawTypes, ServerTypes, TabTypes, SaveTypes, ReadTypes, SaveShape

-----------------------------------------------------------------------------
(* Notices, reads and decisions.                                           *)

LEMMA AskedType ==
    ASSUME dpull \in PullStates
    PROVE  /\ Asked \in PullStates /\ Asked.ans = dpull.ans
           /\ Asked.pc = dpull.pc \/ Asked.pc = "get"
<1>1. CASE dpull.pc = "idle"
  BY <1>1 DEF Asked, PullStates
<1>2. CASE dpull.pc # "idle"
  BY <1>2 DEF Asked, PullStates
<1> QED BY <1>1, <1>2

LEMMA PullNextType ==
    ASSUME NEW more \in BOOLEAN
    PROVE  /\ PullNext(more) \in PullStates /\ PullNext(more).ans = Nothing
           /\ PullNext(more).pc \in {"get", "idle"}
<1>1. CASE more
  BY <1>1 DEF PullNext, PullStates
<1>2. CASE ~more
  BY <1>2 DEF PullNext, PullStates
<1> QED BY <1>1, <1>2

\* The steps that do not reach the canvas.
LEMMA NoticeSteps ==
    ASSUME DrawSafe,
           Notice \/ SocketDown \/ SocketUp \/ PullRead \/ PullFails \/ PullWaited
    PROVE  DrawSafe' /\ Keeps
<1> USE DEF DrawSafe, DrawTypes
<1>1. UNCHANGED <<ddoc, dver, drevs, tab, dsave, dlate, drest>>
  BY DEF Notice, SocketDown, SocketUp, PullRead, PullFails, PullWaited
<1>2. dcount' \in Counters
  BY CountedTypes
  DEF Notice, SocketDown, SocketUp, PullRead, PullFails, PullWaited, DrawFault
<1>3. dnews' \in Nat /\ dsocket' \in BOOLEAN
  <2>1. dnews' = dnews \/ dnews' = 0
    BY DEF Notice, SocketDown, SocketUp, PullRead, PullFails, PullWaited
  <2>2. dsocket' = dsocket \/ dsocket' = TRUE \/ dsocket' = FALSE
    BY Zenon DEF Notice, SocketDown, SocketUp, PullRead, PullFails, PullWaited
  <2>3. dnews' \in Nat
    BY <2>1 DEF ReadTypes
  <2>4. dsocket' \in BOOLEAN
    BY <2>2, Zenon DEF ReadTypes
  <2> QED BY <2>3, <2>4
<1>4. dpull' \in PullStates /\ (dpull'.pc = "got" => dpull'.ans \in Versions)
  <2>1. CASE dpull' = Asked
    BY <2>1, AskedType DEF ReadTypes, SaveShape
  <2>2. CASE PullRead
    <3>1. dpull' = [dpull EXCEPT !.pc = "got", !.ans = Server] /\ Server \in Versions
      BY <2>2, ServerIsVersion DEF PullRead
    <3> QED BY <3>1 DEF ReadTypes, PullStates
  <2>3. CASE \E more \in BOOLEAN : dpull' = PullNext(more)
    BY <2>3, PullNextType
  <2>4. CASE dpull' = dpull
    BY <2>4 DEF ReadTypes, SaveShape
  <2>5. TRUE \in BOOLEAN /\ FALSE \in BOOLEAN
    OBVIOUS
  <2> QED BY <2>1, <2>2, <2>3, <2>4, <2>5
          DEF Notice, SocketDown, SocketUp, PullFails, PullWaited
<1> QED BY <1>1, <1>2, <1>3, <1>4
        DEF ServerTypes, TabTypes, SaveTypes, ReadTypes, SaveShape, SentStands, Keeps

LEMMA PullAnsweredStep ==
    ASSUME DrawSafe, PullAnswered
    PROVE  DrawSafe' /\ Keeps
<1> USE DEF DrawSafe, DrawTypes
<1>1. /\ dpull.pc = "got" /\ dpull.ans \in Versions
      /\ UNCHANGED <<ddoc, dver, drevs, dsave, dlate, drest, dnews, dsocket, dcount>>
  BY DEF PullAnswered, SaveShape
<1>2. CASE tab.status = "saving"
  <2>1. dpull' = [dpull EXCEPT !.pc = "waits", !.ans = Nothing] /\ UNCHANGED tab
    BY <1>2 DEF PullAnswered
  <2>2. dpull' \in PullStates /\ dpull'.pc = "waits"
    BY <2>1 DEF ReadTypes, PullStates
  <2> QED BY <2>1, <2>2, <1>1
          DEF ServerTypes, TabTypes, SaveTypes, ReadTypes, SaveShape, SentStands, Keeps
<1>3. CASE tab.status # "saving"
  <2>1. tab' = Integrate(tab, dpull.ans) /\ dpull' = PullNext(dpull.again)
    BY <1>3 DEF PullAnswered
  <2>2. dpull' \in PullStates /\ dpull'.pc # "got"
    BY <2>1, PullNextType DEF ReadTypes, PullStates
  <2>3. /\ tab' \in TabStates
        /\ \/ tab'.doc = tab.doc /\ tab'.touched = tab.touched
           \/ tab'.touched = (dsave.pc # "idle")
    BY <2>1, <1>1, IntegrateFields DEF TabTypes, Skipped, Clashed, MergedIn
  <2>4. Keeps
    BY <2>1, <1>1, MergedCanvasKeeps
  <2>5. SentStands'
    BY <2>3, <1>1, SentStays
  <2> QED BY <2>2, <2>3, <2>4, <2>5, <1>1
          DEF ServerTypes, TabTypes, SaveTypes, ReadTypes, SaveShape
<1> QED BY <1>2, <1>3

LEMMA ChoiceFields ==
    ASSUME DrawSafe, NEW choice \in {"merged", "mine", "theirs"}, ConflictChoice(choice)
    PROVE  /\ tab.conflict \in Conflicts
           /\ tab' \in TabStates /\ tab'.touched = (dsave.pc # "idle")
           /\ tab'.conflict = Nothing /\ tab'.base = tab.conflict.theirs
           /\ tab'.failed = tab.failed
           /\ \/ /\ tab'.seen = tab.conflict.theirs
                 /\ tab'.known = tab.conflict.theirs.ver
              \/ /\ tab'.known = tab.known
                 /\ tab'.seen = IF tab.conflict.theirs.ver > tab.seen.ver
                                THEN tab.conflict.theirs ELSE tab.seen
           /\ \/ UNCHANGED dsave
              \/ dsave' = [dsave EXCEPT !.queue = dsave.queue + 1]
           /\ UNCHANGED <<ddoc, dver, drevs, dlate, dpull, drest, dnews, dsocket,
                          dcount>>
<1> DEFINE c == tab.conflict
           target == IF choice = "merged"
                     THEN DrawMerge(c.base, c.mine, c.theirs.doc).doc ELSE c.mine
           busy == dsave.pc # "idle"
           theirs == Pushed(tab.hist, DrawEdit(tab.doc, c.theirs.doc, TRUE))
           own == Pushed(tab.hist, DrawEdit(tab.doc, target, choice = "merged"))
           seen == IF c.theirs.ver > tab.seen.ver THEN c.theirs ELSE tab.seen
           closed == [tab EXCEPT !.conflict = Nothing, !.fut = <<>>]
<1> USE DEF DrawSafe, DrawTypes, TabTypes
<1>1. tab.conflict # Nothing
  BY DEF ConflictChoice
<1>2. tab.conflict \in Conflicts
  BY <1>1 DEF TabStates
<1>3. /\ c.base \in WholeDocs /\ c.mine \in WholeDocs /\ c.theirs \in Versions
      /\ c.theirs.doc \in WholeDocs /\ c.theirs.ver \in Nat
      /\ tab.doc \in WholeDocs /\ tab.hist \in Seq(Entries) /\ tab.seen \in Versions
  BY <1>2 DEF Conflicts, Versions, TabStates
<1>4. target \in WholeDocs
  BY <1>3, MergeIsWhole, WholeIsDoc
<1>5. /\ busy \in BOOLEAN /\ TRUE \in BOOLEAN /\ (choice = "merged") \in BOOLEAN
      /\ seen \in Versions
  BY <1>3
<1>6. /\ UNCHANGED <<ddoc, dver, drevs, dlate, dpull, drest, dnews, dsocket, dcount>>
      /\ \/ UNCHANGED dsave
         \/ dsave' = [dsave EXCEPT !.queue = dsave.queue + 1]
  BY DEF ConflictChoice
<1>7. CASE choice = "theirs"
  <2>1. tab' = Adopt([closed EXCEPT !.hist = Pushed(closed.hist, DrawEdit(tab.doc, c.theirs.doc, TRUE))], c.theirs)
    BY <1>7 DEF ConflictChoice
  <2>2. closed.hist = tab.hist
    BY DEF TabStates
  <2>3. theirs \in Seq(Entries)
    <3>1. DrawEdit(tab.doc, c.theirs.doc, TRUE) \in Entries
      BY <1>3, <1>5, EntryType
    <3> QED BY <3>1, <1>3, PushedType
  <2>4. tab' = Adopt([closed EXCEPT !.hist = theirs], c.theirs)
    BY <2>1, <2>2
  <2> HIDE DEF theirs
  <2>5. /\ [closed EXCEPT !.hist = theirs] \in TabStates
        /\ [closed EXCEPT !.hist = theirs].failed = tab.failed
        /\ [closed EXCEPT !.hist = theirs].conflict = Nothing
    BY <2>3, EmptySeq DEF TabStates
  <2> QED BY <2>4, <2>5, <1>2, <1>3, <1>6, AdoptFields
<1>8. CASE choice # "theirs"
  <2>1. tab' = Touched([closed EXCEPT
                   !.doc = target, !.ver = c.theirs.ver, !.base = c.theirs,
                   !.seen = IF c.theirs.ver > closed.seen.ver THEN c.theirs ELSE closed.seen,
                   !.status = "unsaved",
                   !.hist = Pushed(closed.hist, DrawEdit(tab.doc, target, choice = "merged"))])
    BY <1>8 DEF ConflictChoice
  <2>2. closed.hist = tab.hist /\ closed.seen = tab.seen
    BY DEF TabStates
  <2>3. own \in Seq(Entries)
    <3>1. DrawEdit(tab.doc, target, choice = "merged") \in Entries
      BY <1>3, <1>4, <1>5, EntryType
    <3> QED BY <3>1, <1>3, PushedType
  <2>4. tab' = [[closed EXCEPT !.doc = target, !.ver = c.theirs.ver, !.base = c.theirs,
                               !.seen = seen, !.status = "unsaved", !.hist = own]
                   EXCEPT !.touched = busy]
    BY <2>1, <2>2 DEF Touched
  <2> HIDE DEF own, seen, busy, target
  <2>5. /\ tab' \in TabStates /\ tab'.touched = busy /\ tab'.conflict = Nothing
        /\ tab'.base = c.theirs /\ tab'.failed = tab.failed /\ tab'.known = tab.known
        /\ tab'.seen = seen
    BY <2>3, <2>4, <1>3, <1>4, <1>5, EmptySeq DEF TabStates
  <2> QED BY <2>5, <1>2, <1>6 DEF busy, seen
<1> QED BY <1>7, <1>8

LEMMA ChoiceStep ==
    ASSUME DrawSafe, NEW choice \in {"merged", "mine", "theirs"}, ConflictChoice(choice)
    PROVE  DrawSafe'
<1>1. /\ dsave' \in SaveStates /\ dsave'.pc = dsave.pc
      /\ dsave'.snap = dsave.snap /\ dsave'.ans = dsave.ans
  BY ChoiceFields, SaveQueued DEF DrawSafe, DrawTypes, SaveTypes
<1>2. SentStands'
  BY <1>1, ChoiceFields, SentStays
<1> QED BY <1>1, <1>2, ChoiceFields
        DEF DrawSafe, DrawTypes, ServerTypes, TabTypes, SaveTypes, ReadTypes, SaveShape

LEMMA RestoreAnsweredFields ==
    ASSUME DrawSafe, RestoreAnswered
    PROVE  /\ drest \in Restorations /\ drest' = Nothing
           /\ tab' \in TabStates /\ tab'.touched = (dsave.pc # "idle")
           /\ tab'.base = drest.now /\ tab'.seen = drest.now
           /\ tab'.known = drest.now.ver /\ tab'.failed = tab.failed
           /\ tab'.conflict = tab.conflict
           /\ UNCHANGED <<ddoc, dver, drevs, dsave, dlate, dpull, dnews, dsocket, dcount>>
<1> DEFINE cleared == [tab EXCEPT !.fut = <<>>]
           hist == Pushed(tab.hist, DrawEdit(drest.before, drest.now.doc, FALSE))
<1> USE DEF DrawSafe, DrawTypes, TabTypes
<1>1. drest # Nothing /\ drest \in Restorations
  BY DEF RestoreAnswered, ReadTypes
<1>2. /\ drest.before \in WholeDocs /\ drest.now \in Versions
      /\ drest.now.doc \in WholeDocs /\ FALSE \in BOOLEAN
  BY <1>1 DEF Restorations, Versions
<1>3. hist \in Seq(Entries)
  <2>1. DrawEdit(drest.before, drest.now.doc, FALSE) \in Entries
    BY <1>2, EntryType
  <2> QED BY <2>1, PushedType DEF TabStates
<1>4. /\ tab' = Adopt([tab EXCEPT !.fut = <<>>, !.hist = hist], drest.now)
      /\ drest' = Nothing
      /\ UNCHANGED <<ddoc, dver, drevs, dsave, dlate, dpull, dnews, dsocket, dcount>>
  BY DEF RestoreAnswered
<1> HIDE DEF hist
<1> DEFINE t == [tab EXCEPT !.fut = <<>>, !.hist = hist]
<1>5. t \in TabStates /\ t.failed = tab.failed /\ t.conflict = tab.conflict
  BY <1>3, EmptySeq DEF TabStates
<1> HIDE DEF t
<1>6. tab' = Adopt(t, drest.now)
  BY <1>4 DEF t
<1> QED BY <1>1, <1>2, <1>4, <1>5, <1>6, AdoptFields

LEMMA RestoreAnsweredStep ==
    ASSUME DrawSafe, RestoreAnswered
    PROVE  DrawSafe'
<1>1. SentStands'
  BY RestoreAnsweredFields, SentStays
<1> QED BY <1>1, RestoreAnsweredFields
        DEF DrawSafe, DrawTypes, ServerTypes, TabTypes, SaveTypes, ReadTypes, SaveShape

-----------------------------------------------------------------------------
(* Together.                                                               *)

LEMMA DrawInitSafe == DrawInit => DrawSafe
<1> SUFFICES ASSUME DrawInit PROVE DrawSafe
  OBVIOUS
<1>1. At(FirstDoc, 1) \in Versions
  BY FirstIsWhole DEF At, Versions
<1>2. TabInit \in TabStates
  BY <1>1, FirstIsWhole, EmptySeq DEF TabInit, TabStates
<1>3. SaveIdle(0) \in SaveStates /\ SaveIdle(0).pc = "idle"
  BY SaveIdleType
<1>4. <<FirstDoc>> \in Seq(WholeDocs) /\ Len(<<FirstDoc>>) <= HistoryLimit
  BY FirstIsWhole, DrawAssumption
<1>5. dpull \in PullStates /\ dpull.pc = "idle"
  BY DEF DrawInit, PullStates
<1>6. dcount \in Counters
  BY DEF DrawInit, Counters
<1>7. ServerTypes
  BY <1>4, FirstIsWhole DEF DrawInit, ServerTypes
<1>8. TabTypes /\ SaveTypes /\ ReadTypes /\ SaveShape /\ SentStands
  BY <1>2, <1>3, <1>5
  DEF DrawInit, TabTypes, SaveTypes, ReadTypes, SaveShape, SentStands
<1> QED BY <1>6, <1>7, <1>8 DEF DrawSafe, DrawTypes

LEMMA DrawSafeStep ==
    ASSUME DrawSafe, [DrawNext]_drawVars
    PROVE  /\ DrawSafe'
           /\ ~UserStep => \A o \in Things : tab.doc[o] # tab.base.doc[o] =>
                                                tab'.doc[o] = tab.doc[o]
<1>1. ASSUME NEW o \in Things, NEW v \in UserSets[o], UserEdit(o, v)
      PROVE  DrawSafe' /\ UserStep
  BY <1>1, UserEditStep DEF UserStep
<1>2. CASE Undo \/ Redo \/ \E k \in DOMAIN tab.hist : UndoChange(k)
  BY <1>2, HistorySteps DEF UserStep
<1>3. ASSUME NEW o \in Things, NEW v \in AgentSets[o], AgentPatch(o, v)
      PROVE  DrawSafe' /\ tab' = tab
  BY <1>3, AgentStep DEF AgentPatch
<1>4. CASE LatePut
  BY <1>4, LatePutStep DEF LatePut
<1>5. CASE PutArrives
  BY <1>5, PutArrivesStep DEF PutArrives
<1>6. ASSUME NEW k \in DOMAIN drevs, Restore(drevs[k]) PROVE DrawSafe' /\ tab' = tab
  BY <1>6, RestoreStep DEF Restore
<1>7. CASE ClickSave \/ SaveBegins \/ PutLost \/ SaveAnswered \/ SaveRejected
  BY <1>7, ClickStep, SaveBeginsStep, PutLostStep, SaveAnsweredStep, SaveRejectedStep
  DEF Keeps
<1>8. CASE SaveRead \/ SaveReadFails \/ Reread \/ Readback
  BY <1>8, SaveReadStep, SaveReadFailsStep, RereadStep, ReadbackStep DEF Keeps
<1>9. CASE \/ Notice \/ SocketDown \/ SocketUp
           \/ PullRead \/ PullFails \/ PullWaited \/ PullAnswered
  BY <1>9, NoticeSteps, PullAnsweredStep DEF Keeps
<1>10. ASSUME NEW choice \in {"merged", "mine", "theirs"}, ConflictChoice(choice)
       PROVE  DrawSafe' /\ UserStep
  BY <1>10, ChoiceStep DEF UserStep
<1>11. CASE RestoreAnswered
  BY <1>11, RestoreAnsweredStep DEF UserStep
<1>12. CASE UNCHANGED drawVars
  BY <1>12
  DEF drawVars, DrawSafe, DrawTypes, ServerTypes, TabTypes, SaveTypes, ReadTypes,
      SaveShape, SentStands
<1> QED
  BY <1>1, <1>2, <1>3, <1>4, <1>5, <1>6, <1>7, <1>8, <1>9, <1>10, <1>11, <1>12
  DEF DrawNext

LEMMA DrawIsSafe == DrawSpec => []DrawSafe
BY DrawInitSafe, DrawSafeStep, PTL DEF DrawSpec

\* The drawing, its history, the tab, the save and the reads keep their types, and the
\* history keeps its bound, whatever is edited, lost, late or restored.
THEOREM DrawTypeCorrect == DrawSpec => []DrawTypeOK
<1>1. DrawSafe => DrawTypeOK
  <2> SUFFICES ASSUME DrawSafe PROVE DrawTypeOK
    OBVIOUS
  <2> USE DEF DrawSafe, DrawTypes
  <2>1. ddoc \in Docs /\ dver \in Nat /\ Len(drevs) <= HistoryLimit
    BY WholeIsDoc DEF ServerTypes
  <2>2. \A k \in DOMAIN drevs : drevs[k] \in Docs
    BY ElementOfSeq, LenProperties, WholeIsDoc DEF ServerTypes
  <2>3. /\ tab.doc \in Docs /\ tab.base.doc \in Docs
        /\ tab.status \in {"saved", "saving", "unsaved", "conflict"}
    BY WholeIsDoc DEF TabTypes, TabStates, Versions
  <2>4. /\ dsave.pc \in {"idle", "put", "ok", "rejected", "reread", "readback"}
        /\ dpull.pc \in {"idle", "get", "got", "waits"}
    BY DEF SaveTypes, SaveStates, ReadTypes, PullStates
  <2> QED BY <2>1, <2>2, <2>3, <2>4 DEF DrawTypeOK
<1> QED BY <1>1, DrawIsSafe, PTL

\* mergeTopologies, integrateRemoteDrawing and executeSave: a change on the canvas that
\* the server has not confirmed is never taken away by an answer, a read, a merge or a
\* notice, for any documents, edits and interleavings and any faults.
THEOREM ChangesOnTheCanvasStay == DrawSpec => ChangesStay
<1>1. ASSUME DrawSafe, [DrawNext]_drawVars
      PROVE  [\A o \in Things :
                 tab.doc[o] # tab.base.doc[o] /\ tab'.doc[o] # tab.doc[o] =>
                    UserStep]_drawVars
  BY <1>1, DrawSafeStep
<1> QED BY <1>1, DrawIsSafe, PTL DEF DrawSpec, ChangesStay

-----------------------------------------------------------------------------
(* Nothing is overwritten unseen: what the tab knows, and what it saw.     *)

\* No copy of the server's document is from the future, and one of the version that
\* the server has is the server's.
Current(a) == a.ver <= dver /\ (a.ver = dver => a.doc = ddoc)

CopiesAreCurrent ==
    /\ Current(tab.base) /\ Current(tab.seen) /\ tab.known <= dver
    /\ tab.conflict # Nothing => Current(tab.conflict.theirs)
    /\ dsave.ans # Nothing => Current(dsave.ans)
    /\ dpull.ans # Nothing => Current(dpull.ans)
    /\ drest # Nothing => Current(drest.now)

\* A save on the version that the server has differs from it in what is its own.
Honest(snap) ==
    /\ snap.ver <= dver
    /\ snap.ver = dver => \A o \in Things \ snap.own : snap.doc[o] = ddoc[o]

SavesAreHonest ==
    /\ dsave.snap # Nothing => Honest(dsave.snap)
    /\ dlate # Nothing => Honest(dlate)

\* The tab knows a version that it has not seen only while it does not send: in a
\* conflict, or until it has read what an uncertain save came to.
Seen(t) == t.known <= t.seen.ver \/ t.status = "conflict"

KnowsWhatItSaw ==
    /\ tab.base.ver <= tab.seen.ver
    /\ Seen(tab) \/ tab.failed
    /\ tab.conflict # Nothing =>
          tab.known <= tab.conflict.theirs.ver \/ tab.known <= tab.seen.ver
    /\ dsave.pc = "readback" /\ dsave.ans # Nothing =>
          Seen(tab) \/ dsave.ans.ver > tab.base.ver

UnseenInv == CopiesAreCurrent /\ SavesAreHonest /\ KnowsWhatItSaw

\* What holds of the copies and of the saves after a step of the server.
Later(a) == a.ver <= dver' /\ (a.ver = dver' => a.doc = ddoc')

HonestLater(snap) ==
    /\ snap.ver <= dver'
    /\ snap.ver = dver' => \A o \in Things \ snap.own : snap.doc[o] = ddoc'[o]

LEMMA CopiesAge ==
    ASSUME DrawSafe, UnseenInv, dver' \in Nat, dver' >= dver, dver' = dver => ddoc' = ddoc
    PROVE  /\ Later(tab.base) /\ Later(tab.seen) /\ tab.known <= dver'
           /\ tab.conflict # Nothing => Later(tab.conflict.theirs)
           /\ dsave.ans # Nothing => Later(dsave.ans)
           /\ dpull.ans # Nothing => Later(dpull.ans)
           /\ drest # Nothing => Later(drest.now)
           /\ dsave.snap # Nothing => HonestLater(dsave.snap)
           /\ dlate # Nothing => HonestLater(dlate)
<1> USE DEF DrawSafe, DrawTypes, UnseenInv
<1>1. dver \in Nat
  BY DEF ServerTypes
<1>2. ASSUME NEW a \in Versions, Current(a) PROVE Later(a)
  BY <1>1, <1>2 DEF Versions, Current, Later
<1>3. ASSUME NEW s \in Snaps, Honest(s) PROVE HonestLater(s)
  BY <1>1, <1>3 DEF Snaps, Honest, HonestLater
<1>4. /\ tab.base \in Versions /\ tab.seen \in Versions /\ tab.known \in Nat
      /\ tab.conflict # Nothing => tab.conflict.theirs \in Versions
      /\ dsave.ans # Nothing => dsave.ans \in Versions
      /\ dpull.ans # Nothing => dpull.ans \in Versions
      /\ drest # Nothing => drest.now \in Versions
  BY DEF TabTypes, TabStates, Conflicts, SaveTypes, SaveStates, ReadTypes, PullStates,
         Restorations
<1>5. /\ dsave.snap # Nothing => dsave.snap \in Snaps
      /\ dlate # Nothing => dlate \in Snaps
  BY DEF SaveTypes, SaveStates
<1>6. tab.known <= dver'
  BY <1>1, <1>4 DEF CopiesAreCurrent
<1> QED BY <1>2, <1>3, <1>4, <1>5, <1>6 DEF CopiesAreCurrent, SavesAreHonest

LEMMA CopiesStay ==
    ASSUME DrawSafe, UnseenInv, UNCHANGED <<ddoc, dver>>
    PROVE  /\ Later(tab.base) /\ Later(tab.seen) /\ tab.known <= dver'
           /\ tab.conflict # Nothing => Later(tab.conflict.theirs)
           /\ dsave.ans # Nothing => Later(dsave.ans)
           /\ dpull.ans # Nothing => Later(dpull.ans)
           /\ drest # Nothing => Later(drest.now)
           /\ dsave.snap # Nothing => HonestLater(dsave.snap)
           /\ dlate # Nothing => HonestLater(dlate)
<1>1. dver' \in Nat /\ dver' >= dver
  BY DEF DrawSafe, DrawTypes, ServerTypes
<1> QED BY <1>1, CopiesAge

\* The steps that change neither what the tab knows nor what it saw.
LEMMA KnowledgeStays ==
    ASSUME DrawSafe, UnseenInv, SameKnowledge,
           UNCHANGED <<ddoc, dver, dsave, dlate, dpull, drest>>
    PROVE  UnseenInv'
<1>1. CopiesAreCurrent'
  BY CopiesStay DEF CopiesAreCurrent, Current, Later, SameKnowledge
<1>2. SavesAreHonest'
  BY CopiesStay DEF SavesAreHonest, Honest, HonestLater
<1>3. KnowsWhatItSaw'
  BY DEF UnseenInv, KnowsWhatItSaw, Seen, SameKnowledge
<1> QED BY <1>1, <1>2, <1>3 DEF UnseenInv

LEMMA StoredLater ==
    ASSUME DrawSafe, UnseenInv, tab' = tab, dver' \in Nat, dver' >= dver,
           dver' = dver => ddoc' = ddoc, dpull' = dpull,
           \/ dsave' = dsave
           \/ /\ dsave'.snap = dsave.snap /\ dsave'.pc # "readback"
              /\ dsave'.ans = dsave.ans \/ dsave'.ans = At(ddoc', dver'),
           dlate' = dlate \/ dlate' = Nothing,
           drest' = drest \/ drest'.now = At(ddoc', dver')
    PROVE  UnseenInv'
<1>1. Later(At(ddoc', dver'))
  BY DEF Later, At
<1>2. CopiesAreCurrent'
  BY <1>1, CopiesAge DEF CopiesAreCurrent, Current, Later
<1>3. SavesAreHonest'
  BY CopiesAge DEF SavesAreHonest, Honest, HonestLater
<1>4. KnowsWhatItSaw'
  BY DEF UnseenInv, KnowsWhatItSaw, Seen
<1> QED BY <1>2, <1>3, <1>4 DEF UnseenInv

\* The server's steps.
LEMMA ServerSteps ==
    ASSUME DrawSafe, UnseenInv,
           \/ \E o \in Things : \E v \in AgentSets[o] : AgentPatch(o, v)
           \/ LatePut \/ PutArrives \/ \E k \in DOMAIN drevs : Restore(drevs[k])
    PROVE  UnseenInv'
<1> USE DEF DrawSafe, DrawTypes
<1>1. ASSUME NEW doc \in Docs, NEW revs \in Seq(WholeDocs), Len(revs) <= HistoryLimit,
             Stored(doc, revs)
      PROVE  dver' \in Nat /\ dver' >= dver /\ (dver' = dver => ddoc' = ddoc)
  BY <1>1, StoredFacts DEF ServerTypes
<1>2. ASSUME UNCHANGED <<ddoc, dver>>
      PROVE  dver' \in Nat /\ dver' >= dver /\ (dver' = dver => ddoc' = ddoc)
  BY <1>2 DEF ServerTypes
<1>3. drevs \in Seq(WholeDocs) /\ Len(drevs) <= HistoryLimit
  BY DEF ServerTypes
<1>4. ASSUME NEW o \in Things, NEW v \in AgentSets[o], AgentPatch(o, v)
      PROVE  UnseenInv'
  <2>1. [ddoc EXCEPT ![o] = v] \in Docs
    <3>1. v \in DrawVals
      BY DEF DrawVals
    <3> QED BY <3>1, WholeIsDoc DEF ServerTypes, Docs
  <2>2. Stored([ddoc EXCEPT ![o] = v], drevs) /\ UNCHANGED <<tab, dsave, dlate, dpull, drest>>
    BY <1>4 DEF AgentPatch
  <2>3. dver' \in Nat /\ dver' >= dver /\ (dver' = dver => ddoc' = ddoc)
    BY <2>1, <2>2, <1>1, <1>3
  <2> QED BY <2>2, <2>3, StoredLater
<1>5. CASE LatePut
  <2>1. /\ dlate # Nothing /\ dlate' = Nothing /\ UNCHANGED <<tab, dsave, dpull, drest>>
        /\ Stored(dlate.doc, drevs) \/ UNCHANGED <<ddoc, dver, drevs, dnews>>
    BY <1>5 DEF LatePut
  <2>2. dlate.doc \in Docs
    BY <2>1, WholeIsDoc DEF SaveTypes, Snaps
  <2>3. dver' \in Nat /\ dver' >= dver /\ (dver' = dver => ddoc' = ddoc)
    BY <2>1, <2>2, <1>1, <1>2, <1>3
  <2> QED BY <2>1, <2>3, StoredLater
<1>6. CASE PutArrives
  <2>1. /\ dsave.pc = "put" /\ UNCHANGED <<tab, dlate, dpull, drest>>
        /\ \/ /\ Stored(dsave.snap.doc, drevs)
              /\ dsave' = [dsave EXCEPT !.pc = "ok", !.ans = At(ddoc', dver')]
           \/ /\ dsave' = [dsave EXCEPT !.pc = "rejected"]
              /\ UNCHANGED <<ddoc, dver, drevs, dnews>>
    BY <1>6 DEF PutArrives
  <2>2. dsave.snap.doc \in Docs
    BY <2>1, WholeIsDoc DEF SaveShape, Snaps
  <2>3. dver' \in Nat /\ dver' >= dver /\ (dver' = dver => ddoc' = ddoc)
    BY <2>1, <2>2, <1>1, <1>2, <1>3
  <2>4. /\ dsave'.snap = dsave.snap /\ dsave'.pc # "readback"
        /\ dsave'.ans = dsave.ans \/ dsave'.ans = At(ddoc', dver')
    BY <2>1 DEF SaveTypes, SaveStates
  <2> QED BY <2>1, <2>3, <2>4, StoredLater
<1>7. ASSUME NEW k \in DOMAIN drevs, Restore(drevs[k]) PROVE UnseenInv'
  <2>1. /\ Stored(drevs[k], RestoreHistory(drevs))
        /\ drest' = [before |-> tab.doc, now |-> At(ddoc', dver')]
        /\ UNCHANGED <<tab, dsave, dlate, dpull>>
    BY <1>7 DEF Restore
  <2>2. drevs[k] \in Docs
    BY ElementOfSeq, LenProperties, WholeIsDoc, <1>3
  <2>3. /\ RestoreHistory(drevs) \in Seq(WholeDocs)
        /\ Len(RestoreHistory(drevs)) <= HistoryLimit
    BY RecordedType DEF RestoreHistory, ServerTypes
  <2>4. dver' \in Nat /\ dver' >= dver /\ (dver' = dver => ddoc' = ddoc)
    BY <2>1, <2>2, <2>3, <1>1
  <2>5. drest'.now = At(ddoc', dver')
    BY <2>1
  <2> QED BY <2>1, <2>4, <2>5, StoredLater
<1> QED BY <1>4, <1>5, <1>6, <1>7

\* The steps that do not touch the tab and copy at most what the server has.
LEMMA SilentSteps ==
    ASSUME DrawSafe, UnseenInv,
           \/ Notice \/ SocketDown \/ SocketUp \/ PullRead \/ PullFails \/ PullWaited
           \/ ClickSave \/ SaveRead
    PROVE  UnseenInv'
<1> USE DEF DrawSafe, DrawTypes
<1>1. UNCHANGED <<ddoc, dver, tab, dlate, drest>>
  BY DEF Notice, SocketDown, SocketUp, PullRead, PullFails, PullWaited, ClickSave, SaveRead
<1>2. Later(Server)
  BY <1>1, ServerIsVersion DEF Later, ServerTypes
<1>3. dpull'.ans \in {dpull.ans, Server, Nothing}
  <2>1. CASE dpull' = Asked
    BY <2>1, AskedType DEF ReadTypes
  <2>2. CASE PullRead
    BY <2>2 DEF PullRead, ReadTypes, PullStates
  <2>3. CASE \E more \in BOOLEAN : dpull' = PullNext(more)
    BY <2>3, PullNextType
  <2>4. CASE dpull' = dpull
    BY <2>4
  <2>5. TRUE \in BOOLEAN /\ FALSE \in BOOLEAN
    OBVIOUS
  <2> QED BY <2>1, <2>2, <2>3, <2>4, <2>5
          DEF Notice, SocketDown, SocketUp, PullFails, PullWaited, ClickSave, SaveRead
<1>4. /\ dsave'.snap = dsave.snap /\ dsave'.pc = dsave.pc
      /\ dsave'.ans = dsave.ans \/ dsave'.ans = Server
  <2>1. CASE dsave' = dsave
    BY <2>1
  <2>2. CASE ClickSave
    BY <2>2, SaveQueued DEF ClickSave
  <2>3. CASE SaveRead
    BY <2>3 DEF SaveRead, SaveTypes, SaveStates
  <2> QED BY <2>1, <2>2, <2>3
          DEF Notice, SocketDown, SocketUp, PullRead, PullFails, PullWaited
<1>5. CopiesAreCurrent'
  BY <1>1, <1>2, <1>3, <1>4, CopiesStay DEF CopiesAreCurrent, Current, Later
<1>6. SavesAreHonest'
  BY <1>1, <1>4, CopiesStay DEF SavesAreHonest, Honest, HonestLater
<1>7. KnowsWhatItSaw'
  <2>1. CASE dsave'.ans = dsave.ans
    BY <1>1, <1>4, <2>1 DEF UnseenInv, KnowsWhatItSaw, Seen
  <2>2. CASE dsave'.ans = Server
    <3>1. dsave'.ans.ver = dver
      BY <2>2, ServerIsVersion
    <3>2. /\ tab.base.ver \in Nat /\ tab.seen.ver \in Nat /\ tab.known \in Nat
          /\ dver \in Nat
      BY DEF TabTypes, TabStates, Versions, ServerTypes
    <3>3. tab.known <= dver /\ tab.base.ver <= tab.seen.ver
      BY DEF UnseenInv, CopiesAreCurrent, KnowsWhatItSaw
    <3>4. Seen(tab) \/ dver > tab.base.ver
      BY <3>2, <3>3 DEF Seen
    <3> QED BY <3>1, <3>4, <1>1, <1>4 DEF UnseenInv, KnowsWhatItSaw, Seen
  <2> QED BY <1>4, <2>1, <2>2
<1> QED BY <1>5, <1>6, <1>7 DEF UnseenInv

\* What a read makes of what the tab knows.
LEMMA IntegrateKnows ==
    ASSUME DrawSafe, UnseenInv, NEW r \in Versions, Current(r), NEW t,
           t = Integrate(tab, r)
    PROVE  /\ t \in TabStates /\ t.failed = tab.failed
           /\ Current(t.base) /\ Current(t.seen) /\ t.known <= dver
           /\ t.conflict # Nothing => Current(t.conflict.theirs)
           /\ t.base.ver <= t.seen.ver
           /\ t.conflict # Nothing =>
                 t.known <= t.conflict.theirs.ver \/ t.known <= t.seen.ver
           /\ \/ t = tab /\ r.ver <= tab.base.ver
              \/ Seen(t)
           /\ Merges(tab, r) => t.known <= t.seen.ver
<1>1. tab \in TabStates
  BY DEF DrawSafe, DrawTypes, TabTypes
<1>2. /\ t \in TabStates
      /\ Skipped(tab, r, t) \/ Clashed(tab, r, t) \/ MergedIn(tab, r, t)
  BY <1>1, IntegrateFields
<1>3. /\ r.ver \in Nat /\ tab.base.ver \in Nat /\ tab.seen.ver \in Nat
      /\ r.ver <= dver
  BY <1>1 DEF TabStates, Versions, Current
<1>4. CASE Skipped(tab, r, t)
  <2>1. ~Merges(tab, r)
    BY <1>3, <1>4 DEF Skipped, Merges
  <2> QED BY <1>2, <1>4, <2>1
          DEF UnseenInv, CopiesAreCurrent, KnowsWhatItSaw, Skipped
<1>5. CASE Clashed(tab, r, t)
  <2>1. ~Merges(tab, r)
    BY <1>5 DEF Clashed, Merges
  <2>2. t.conflict.theirs = r
    BY <1>5 DEF Clashed, Conflict
  <2>3. t.known <= t.conflict.theirs.ver
    BY <1>3, <1>5, <2>2 DEF Clashed
  <2> QED BY <1>2, <1>3, <1>5, <2>1, <2>2, <2>3
          DEF UnseenInv, CopiesAreCurrent, KnowsWhatItSaw, Clashed, Seen
<1>6. CASE MergedIn(tab, r, t)
  BY <1>2, <1>3, <1>6 DEF MergedIn, Seen
<1> QED BY <1>2, <1>4, <1>5, <1>6

\* A save that is sent differs from what the tab saw last in what is its own.
LEMMA PutIsHonest ==
    ASSUME DrawSafe, UNCHANGED <<ddoc, dver>>, NEW t \in TabStates,
           Current(t.seen), t.known <= dver, t.known <= t.seen.ver, NEW snap,
           snap = [doc |-> t.doc, ver |-> t.known,
                   own |-> {o \in Things : t.doc[o] # t.seen.doc[o]}]
    PROVE  HonestLater(snap)
<1>1. t.known \in Nat /\ t.seen.ver \in Nat /\ dver \in Nat /\ t.seen.ver <= dver
  BY DEF TabStates, Versions, DrawSafe, DrawTypes, ServerTypes, Current
<1>2. /\ snap.doc = t.doc /\ snap.ver = t.known
      /\ snap.own = {o \in Things : t.doc[o] # t.seen.doc[o]}
  OBVIOUS
<1>3. ASSUME snap.ver = dver, NEW o \in Things \ snap.own
      PROVE  snap.doc[o] = ddoc[o]
  <2>1. t.seen.ver = dver
    BY <1>1, <1>2, <1>3
  <2>2. t.seen.doc = ddoc
    BY <2>1 DEF Current
  <2> QED BY <2>2, <1>2, <1>3
<1> QED BY <1>2, <1>3 DEF HonestLater

\* A step that ends a save, and what it leaves the tab with.
LEMMA SaveEnds ==
    ASSUME DrawSafe, UnseenInv, UNCHANGED <<ddoc, dver, dpull, drest>>,
           dlate' \in {dlate, dsave.snap, Nothing},
           NEW queue \in Nat, dsave' = SaveIdle(queue),
           Current(tab'.base), Current(tab'.seen), tab'.known <= dver,
           tab'.conflict # Nothing => Current(tab'.conflict.theirs),
           tab'.base.ver <= tab'.seen.ver,
           tab'.conflict # Nothing =>
              tab'.known <= tab'.conflict.theirs.ver \/ tab'.known <= tab'.seen.ver,
           Seen(tab') \/ tab'.failed
    PROVE  UnseenInv'
<1>1. dsave'.ans = Nothing /\ dsave'.snap = Nothing /\ dsave'.pc = "idle"
  BY SaveIdleType
<1>2. CopiesAreCurrent'
  BY <1>1, CopiesStay DEF CopiesAreCurrent, Current, Later
<1>3. SavesAreHonest'
  BY <1>1, CopiesStay DEF SavesAreHonest, Honest, HonestLater
<1>4. KnowsWhatItSaw'
  BY <1>1 DEF KnowsWhatItSaw, Seen
<1> QED BY <1>2, <1>3, <1>4 DEF UnseenInv

LEMMA SaveSends ==
    ASSUME DrawSafe, UnseenInv, UNCHANGED <<ddoc, dver, dlate, dpull, drest>>,
           NEW t \in TabStates, NEW tries \in Nat, NEW queue \in Nat,
           Put(t, tries, queue),
           Current(t.base), Current(t.seen), t.known <= dver,
           t.conflict # Nothing => Current(t.conflict.theirs),
           t.base.ver <= t.seen.ver,
           t.known <= t.seen.ver
    PROVE  UnseenInv'
<1>1. /\ tab'.base = t.base /\ tab'.seen = t.seen /\ tab'.known = t.known
      /\ tab'.conflict = t.conflict /\ dsave'.pc = "put" /\ dsave'.ans = Nothing
      /\ dsave'.snap = [doc |-> t.doc, ver |-> t.known,
                        own |-> {o \in Things : t.doc[o] # t.seen.doc[o]}]
  BY PutFields
<1>2. HonestLater(dsave'.snap)
  BY <1>1, PutIsHonest
<1>3. CopiesAreCurrent'
  BY <1>1, CopiesStay DEF CopiesAreCurrent, Current, Later
<1>4. SavesAreHonest'
  BY <1>2, CopiesStay DEF SavesAreHonest, Honest, HonestLater
<1>5. KnowsWhatItSaw'
  BY <1>1 DEF KnowsWhatItSaw, Seen
<1> QED BY <1>3, <1>4, <1>5 DEF UnseenInv

LEMMA SaveSteps ==
    ASSUME DrawSafe, UnseenInv, "reread" \notin DrawFaults,
           \/ SaveBegins \/ PutLost \/ SaveAnswered \/ SaveRejected
           \/ SaveReadFails \/ Reread \/ Readback
    PROVE  UnseenInv'
<1> USE DEF DrawSafe, DrawTypes
<1>1. /\ tab \in TabStates /\ dsave \in SaveStates /\ dsave.queue \in Nat
      /\ tab.known \in Nat /\ tab.seen.ver \in Nat
  BY DEF TabTypes, TabStates, Versions, SaveTypes, SaveStates
<1>2. /\ Current(tab.base) /\ Current(tab.seen) /\ tab.known <= dver
      /\ tab.conflict # Nothing => Current(tab.conflict.theirs)
      /\ tab.base.ver <= tab.seen.ver
      /\ tab.conflict # Nothing =>
            tab.known <= tab.conflict.theirs.ver \/ tab.known <= tab.seen.ver
      /\ Seen(tab) \/ tab.failed
  BY DEF UnseenInv, CopiesAreCurrent, KnowsWhatItSaw
<1>3. CASE SaveBegins
  <2>1. dsave.queue > 0 /\ UNCHANGED <<ddoc, dver, dlate, dpull, drest>>
    BY <1>3 DEF SaveBegins
  <2>2. dsave.queue - 1 \in Nat /\ 0 \in Nat
    BY <1>1, <2>1
  <2>3. CASE dsave' = [SaveIdle(dsave.queue - 1) EXCEPT !.pc = "readback"] /\ UNCHANGED tab
    <3>1. dsave'.ans = Nothing /\ dsave'.snap = Nothing
      BY <2>3 DEF SaveIdle
    <3>2. CopiesAreCurrent'
      BY <2>1, <2>3, <3>1, CopiesStay DEF CopiesAreCurrent, Current, Later
    <3>3. SavesAreHonest'
      BY <2>1, <3>1, CopiesStay DEF SavesAreHonest, Honest, HonestLater
    <3>4. KnowsWhatItSaw'
      BY <2>3, <3>1 DEF UnseenInv, KnowsWhatItSaw, Seen
    <3> QED BY <3>2, <3>3, <3>4 DEF UnseenInv
  <2>4. CASE dsave' = SaveIdle(dsave.queue - 1) /\ UNCHANGED tab
    BY <2>1, <2>2, <2>4, <1>2, SaveEnds
  <2>5. CASE ~tab.failed /\ tab.status # "conflict" /\ Put(tab, 0, dsave.queue - 1)
    <3>1. tab.known <= tab.seen.ver
      BY <1>2, <2>5 DEF Seen
    <3> QED BY <3>1, <2>1, <2>2, <2>5, <1>1, <1>2, SaveSends
  <2> QED BY <1>3, <2>3, <2>4, <2>5 DEF SaveBegins
<1>4. CASE PutLost
  <2>1. /\ dsave' = SaveIdle(dsave.queue) /\ dlate' \in {dsave.snap, Nothing}
        /\ tab' = [tab EXCEPT !.status = "unsaved", !.failed = TRUE, !.touched = FALSE]
        /\ UNCHANGED <<ddoc, dver, dpull, drest>>
    BY <1>4 DEF PutLost
  <2>2. /\ tab'.base = tab.base /\ tab'.seen = tab.seen /\ tab'.known = tab.known
        /\ tab'.conflict = tab.conflict /\ tab'.failed
    BY <2>1, <1>1 DEF TabStates
  <2> QED BY <2>1, <2>2, <1>1, <1>2, SaveEnds
<1>5. CASE SaveAnswered
  <2> DEFINE doc == IF tab.touched THEN tab.doc ELSE dsave.ans.doc
             status == IF tab.touched THEN "unsaved" ELSE "saved"
  <2>1. /\ dsave.pc = "ok" /\ dsave' = SaveIdle(dsave.queue)
        /\ tab' = [tab EXCEPT !.known = dsave.ans.ver, !.base = dsave.ans,
                              !.seen = dsave.ans, !.touched = FALSE, !.doc = doc,
                              !.ver = dsave.ans.ver, !.status = status]
        /\ UNCHANGED <<ddoc, dver, dlate, dpull, drest>>
    BY <1>5 DEF SaveAnswered
  <2> HIDE DEF doc, status
  <2>2. dsave.ans \in Versions /\ dsave.ans.ver \in Nat
    BY <2>1 DEF SaveShape, Versions
  <2>3. dsave.ans # Nothing
    BY <2>2 DEF Nothing, Versions
  <2>4. Current(dsave.ans) /\ dsave.ans.ver <= dver
    BY <2>3 DEF UnseenInv, CopiesAreCurrent, Current
  <2>5. /\ tab'.base = dsave.ans /\ tab'.seen = dsave.ans /\ tab'.known = dsave.ans.ver
        /\ tab'.conflict = tab.conflict
    BY <2>1, <1>1 DEF TabStates
  <2>6. tab'.known <= tab'.seen.ver /\ tab'.base.ver <= tab'.seen.ver
    BY <2>2, <2>5
  <2> QED BY <2>1, <2>4, <2>5, <2>6, <1>1, <1>2, SaveEnds DEF Seen
<1>6. CASE SaveRejected
  <2>1. /\ dsave' = [dsave EXCEPT !.pc = "reread"]
        /\ tab' = [tab EXCEPT !.status = "conflict"]
        /\ UNCHANGED <<ddoc, dver, dlate, dpull, drest>>
    BY <1>6 DEF SaveRejected
  <2>2. /\ tab'.base = tab.base /\ tab'.seen = tab.seen /\ tab'.known = tab.known
        /\ tab'.conflict = tab.conflict /\ tab'.status = "conflict"
    BY <2>1, <1>1 DEF TabStates
  <2>3. dsave'.pc = "reread" /\ dsave'.snap = dsave.snap /\ dsave'.ans = dsave.ans
    BY <2>1, <1>1 DEF SaveStates
  <2>4. CopiesAreCurrent'
    BY <2>1, <2>2, <2>3, CopiesStay DEF CopiesAreCurrent, Current, Later
  <2>5. SavesAreHonest'
    BY <2>1, <2>3, CopiesStay DEF SavesAreHonest, Honest, HonestLater
  <2>6. KnowsWhatItSaw'
    BY <2>2, <2>3, <1>2 DEF KnowsWhatItSaw, Seen
  <2> QED BY <2>4, <2>5, <2>6 DEF UnseenInv
<1>7. CASE SaveReadFails
  <2>1. /\ dsave.pc = "readback" /\ dsave' = SaveIdle(dsave.queue)
        /\ tab' = [tab EXCEPT !.touched = FALSE]
        /\ UNCHANGED <<ddoc, dver, dlate, dpull, drest>>
    BY <1>7 DEF SaveReadFails, DrawFault
  <2>2. /\ tab'.base = tab.base /\ tab'.seen = tab.seen /\ tab'.known = tab.known
        /\ tab'.conflict = tab.conflict /\ tab'.status = tab.status
        /\ tab'.failed = tab.failed
    BY <2>1, <1>1 DEF TabStates
  <2> QED BY <2>1, <2>2, <1>1, <1>2, SaveEnds DEF Seen
<1>8. CASE Reread \/ Readback
  <2> DEFINE t == Integrate(tab, dsave.ans)
  <2>1. /\ dsave.ans # Nothing /\ UNCHANGED <<ddoc, dver, dlate, dpull, drest>>
    BY <1>8 DEF Reread, Readback
  <2>2. dsave.ans \in Versions /\ Current(dsave.ans)
    BY <2>1, <1>1 DEF SaveStates, UnseenInv, CopiesAreCurrent
  <2>3. /\ t \in TabStates /\ t.failed = tab.failed
        /\ Current(t.base) /\ Current(t.seen) /\ t.known <= dver
        /\ t.conflict # Nothing => Current(t.conflict.theirs)
        /\ t.base.ver <= t.seen.ver
        /\ t.conflict # Nothing =>
              t.known <= t.conflict.theirs.ver \/ t.known <= t.seen.ver
        /\ \/ t = tab /\ dsave.ans.ver <= tab.base.ver
           \/ Seen(t)
        /\ Merges(tab, dsave.ans) => t.known <= t.seen.ver
    BY <2>2, IntegrateKnows
  <2>4. CASE Reread
    <3>1. \/ Merges(tab, dsave.ans) /\ Put(t, 1, dsave.queue)
          \/ tab' = [t EXCEPT !.touched = FALSE] /\ dsave' = SaveIdle(dsave.queue)
      BY <2>4 DEF Reread
    <3> HIDE DEF t
    <3>2. CASE Merges(tab, dsave.ans) /\ Put(t, 1, dsave.queue)
      <4>1. 1 \in Nat
        OBVIOUS
      <4> QED BY <4>1, <3>2, <2>1, <2>3, <1>1, SaveSends
    <3>3. CASE tab' = [t EXCEPT !.touched = FALSE] /\ dsave' = SaveIdle(dsave.queue)
      <4>1. /\ tab'.base = t.base /\ tab'.seen = t.seen /\ tab'.known = t.known
            /\ tab'.conflict = t.conflict /\ tab'.status = t.status
            /\ tab'.failed = t.failed
        BY <3>3, <2>3 DEF TabStates
      <4>2. Seen(t) \/ t.failed
        BY <2>3, <1>2
      <4> QED BY <4>1, <4>2, <3>3, <2>1, <2>3, <1>1, SaveEnds DEF Seen
    <3> QED BY <3>1, <3>2, <3>3
  <2>5. CASE Readback
    <3>1. /\ dsave' = SaveIdle(dsave.queue) /\ tab'.conflict = t.conflict
          /\ \/ /\ tab'.base = t.base /\ tab'.seen = t.seen
                /\ tab'.known = t.known /\ tab'.status = t.status
             \/ /\ tab'.base = dsave.ans /\ tab'.seen = dsave.ans
                /\ tab'.known = dsave.ans.ver
          /\ dsave.pc = "readback"
      BY <2>5, ReadbackFields
    <3> HIDE DEF t
    <3>2. CASE /\ tab'.base = t.base /\ tab'.seen = t.seen
               /\ tab'.known = t.known /\ tab'.status = t.status
      <4>1. Seen(t)
        <5>1. Seen(tab) \/ dsave.ans.ver > tab.base.ver
          BY <2>1, <3>1 DEF UnseenInv, KnowsWhatItSaw
        <5>2. dsave.ans.ver \in Nat /\ tab.base.ver \in Nat
          BY <2>2, <1>1 DEF Versions, TabStates
        <5> QED BY <5>1, <5>2, <2>3
      <4> QED BY <4>1, <3>1, <3>2, <2>1, <2>3, <1>1, SaveEnds DEF Seen
    <3>3. CASE /\ tab'.base = dsave.ans /\ tab'.seen = dsave.ans
               /\ tab'.known = dsave.ans.ver
      <4>1. dsave.ans.ver \in Nat /\ dsave.ans.ver <= dver
        BY <2>2 DEF Versions, Current
      <4>2. tab'.known <= tab'.seen.ver /\ tab'.base.ver <= tab'.seen.ver
        BY <4>1, <3>3
      <4> QED BY <4>1, <4>2, <3>1, <3>3, <2>1, <2>2, <2>3, <1>1, SaveEnds DEF Seen
    <3> QED BY <3>1, <3>2, <3>3
  <2> QED BY <1>8, <2>4, <2>5
<1> QED BY <1>3, <1>4, <1>5, <1>6, <1>7, <1>8

\* The steps beside a save that bring the server's document to the tab.
LEMMA TabLearns ==
    ASSUME DrawSafe, UnseenInv, UNCHANGED <<ddoc, dver, dlate>>,
           dsave'.pc = dsave.pc, dsave'.snap = dsave.snap, dsave'.ans = dsave.ans,
           dpull'.ans \in {dpull.ans, Nothing}, drest' \in {drest, Nothing},
           Current(tab'.base), Current(tab'.seen), tab'.known <= dver,
           tab'.conflict # Nothing => Current(tab'.conflict.theirs),
           tab'.base.ver <= tab'.seen.ver,
           tab'.conflict # Nothing =>
              tab'.known <= tab'.conflict.theirs.ver \/ tab'.known <= tab'.seen.ver,
           tab' = tab \/ Seen(tab')
    PROVE  UnseenInv'
<1>1. CopiesAreCurrent'
  BY CopiesStay DEF CopiesAreCurrent, Current, Later
<1>2. SavesAreHonest'
  BY CopiesStay DEF SavesAreHonest, Honest, HonestLater
<1>3. KnowsWhatItSaw'
  BY DEF UnseenInv, KnowsWhatItSaw, Seen
<1> QED BY <1>1, <1>2, <1>3 DEF UnseenInv

LEMMA VersionIsSomething ==
    ASSUME NEW a \in Versions
    PROVE  a # Nothing
<1>1. "doc" \in DOMAIN a
  BY DEF Versions
<1>2. DOMAIN <<>> = {}
  OBVIOUS
<1> QED BY <1>1, <1>2 DEF Nothing

LEMMA LearningSteps ==
    ASSUME DrawSafe, UnseenInv,
           \/ PullAnswered \/ RestoreAnswered
           \/ \E choice \in {"merged", "mine", "theirs"} : ConflictChoice(choice)
    PROVE  UnseenInv'
<1> USE DEF DrawSafe, DrawTypes
<1>1. /\ Current(tab.base) /\ Current(tab.seen) /\ tab.known <= dver
      /\ tab.conflict # Nothing => Current(tab.conflict.theirs)
      /\ tab.base.ver <= tab.seen.ver
      /\ tab.conflict # Nothing =>
            tab.known <= tab.conflict.theirs.ver \/ tab.known <= tab.seen.ver
      /\ dpull.ans # Nothing => Current(dpull.ans)
      /\ drest # Nothing => Current(drest.now)
  BY DEF UnseenInv, CopiesAreCurrent, KnowsWhatItSaw
<1>2. /\ tab.known \in Nat /\ tab.seen.ver \in Nat
  BY DEF TabTypes, TabStates, Versions
<1>3. CASE PullAnswered
  <2>1. /\ dpull.pc = "got" /\ dpull.ans \in Versions
        /\ UNCHANGED <<ddoc, dver, dsave, dlate, drest>>
    BY <1>3 DEF PullAnswered, SaveShape
  <2>2. dpull'.ans = Nothing
    BY <1>3, PullNextType DEF PullAnswered, ReadTypes, PullStates
  <2>3. CASE UNCHANGED tab
    BY <2>1, <2>2, <2>3, <1>1, TabLearns
  <2>4. CASE tab' = Integrate(tab, dpull.ans)
    <3>1. dpull.ans # Nothing
      BY <2>1, VersionIsSomething
    <3>2. Current(dpull.ans)
      BY <3>1, <1>1
    <3>3. /\ Current(tab'.base) /\ Current(tab'.seen) /\ tab'.known <= dver
          /\ tab'.conflict # Nothing => Current(tab'.conflict.theirs)
          /\ tab'.base.ver <= tab'.seen.ver
          /\ tab'.conflict # Nothing =>
                tab'.known <= tab'.conflict.theirs.ver \/ tab'.known <= tab'.seen.ver
          /\ tab' = tab \/ Seen(tab')
      BY <3>2, <2>1, <2>4, IntegrateKnows
    <3> QED BY <3>3, <2>1, <2>2, TabLearns
  <2> QED BY <1>3, <2>3, <2>4 DEF PullAnswered
<1>4. CASE RestoreAnswered
  <2>1. drest \in Restorations
    BY <1>4, RestoreAnsweredFields
  <2>2. drest # Nothing
    BY <1>4 DEF RestoreAnswered
  <2>3. Current(drest.now) /\ drest.now.ver \in Nat /\ drest.now.ver <= dver
    BY <2>1, <2>2, <1>1 DEF Restorations, Versions, Current
  <2>4. /\ tab'.base = drest.now /\ tab'.seen = drest.now /\ tab'.known = drest.now.ver
        /\ tab'.conflict = tab.conflict /\ drest' = Nothing
        /\ UNCHANGED <<ddoc, dver, dsave, dlate, dpull>>
    BY <1>4, RestoreAnsweredFields
  <2>5. tab'.known <= tab'.seen.ver /\ tab'.base.ver <= tab'.seen.ver /\ Seen(tab')
    BY <2>3, <2>4 DEF Seen
  <2> QED BY <2>3, <2>4, <2>5, <1>1, TabLearns
<1>5. ASSUME NEW choice \in {"merged", "mine", "theirs"}, ConflictChoice(choice)
      PROVE  UnseenInv'
  <2>1. /\ tab.conflict \in Conflicts
        /\ tab'.conflict = Nothing /\ tab'.base = tab.conflict.theirs
        /\ \/ /\ tab'.seen = tab.conflict.theirs /\ tab'.known = tab.conflict.theirs.ver
           \/ /\ tab'.known = tab.known
              /\ tab'.seen = IF tab.conflict.theirs.ver > tab.seen.ver
                             THEN tab.conflict.theirs ELSE tab.seen
        /\ UNCHANGED <<ddoc, dver, dlate, dpull, drest>>
    BY <1>5, ChoiceFields
  <2>2. tab.conflict # Nothing
    BY <1>5 DEF ConflictChoice
  <2>3. Current(tab.conflict.theirs) /\ tab.conflict.theirs.ver \in Nat
    BY <2>1, <2>2, <1>1 DEF Conflicts, Versions
  <2>4. dsave'.pc = dsave.pc /\ dsave'.snap = dsave.snap /\ dsave'.ans = dsave.ans
    BY <1>5, ChoiceFields, SaveQueued
  <2>5. /\ Current(tab'.base) /\ Current(tab'.seen) /\ tab'.known <= dver
        /\ tab'.base.ver <= tab'.seen.ver /\ tab'.known <= tab'.seen.ver
    <3>1. CASE /\ tab'.seen = tab.conflict.theirs
               /\ tab'.known = tab.conflict.theirs.ver
      BY <3>1, <2>1, <2>3 DEF Current
    <3>2. CASE /\ tab'.known = tab.known
               /\ tab'.seen = IF tab.conflict.theirs.ver > tab.seen.ver
                              THEN tab.conflict.theirs ELSE tab.seen
      <4>1. CASE tab.conflict.theirs.ver > tab.seen.ver
        BY <4>1, <3>2, <2>1, <2>2, <2>3, <1>1, <1>2
      <4>2. CASE ~(tab.conflict.theirs.ver > tab.seen.ver)
        BY <4>2, <3>2, <2>1, <2>2, <2>3, <1>1, <1>2
      <4> QED BY <4>1, <4>2
    <3> QED BY <3>1, <3>2, <2>1
  <2> QED BY <2>1, <2>4, <2>5, TabLearns DEF Seen
<1> QED BY <1>3, <1>4, <1>5

LEMMA UnseenInit ==
    ASSUME DrawInit
    PROVE  UnseenInv
<1>1. Current(At(FirstDoc, 1))
  BY DEF DrawInit, Current, At
<1>2. CopiesAreCurrent
  BY <1>1 DEF DrawInit, TabInit, SaveIdle, CopiesAreCurrent
<1>3. SavesAreHonest
  BY DEF DrawInit, SaveIdle, SavesAreHonest
<1>4. KnowsWhatItSaw
  BY DEF DrawInit, TabInit, SaveIdle, KnowsWhatItSaw, Seen, At
<1> QED BY <1>2, <1>3, <1>4 DEF UnseenInv

LEMMA UnseenStep ==
    ASSUME DrawSafe, UnseenInv, [DrawNext]_drawVars, "reread" \notin DrawFaults
    PROVE  UnseenInv'
<1>1. ASSUME NEW o \in Things, NEW v \in UserSets[o], UserEdit(o, v) PROVE UnseenInv'
  BY <1>1, UserEditStep, KnowledgeStays DEF UserEdit
<1>2. CASE Undo \/ Redo \/ \E k \in DOMAIN tab.hist : UndoChange(k)
  <2>1. SameKnowledge
    BY <1>2, HistorySteps
  <2>2. UNCHANGED <<ddoc, dver, dsave, dlate, dpull, drest>>
    BY <1>2 DEF Undo, Redo, UndoChange, ApplyEntry
  <2> QED BY <2>1, <2>2, KnowledgeStays
<1>3. CASE \/ \E o \in Things : \E v \in AgentSets[o] : AgentPatch(o, v)
           \/ LatePut \/ PutArrives \/ \E k \in DOMAIN drevs : Restore(drevs[k])
  BY <1>3, ServerSteps
<1>4. CASE \/ Notice \/ SocketDown \/ SocketUp \/ PullRead \/ PullFails \/ PullWaited
           \/ ClickSave \/ SaveRead
  BY <1>4, SilentSteps
<1>5. CASE \/ SaveBegins \/ PutLost \/ SaveAnswered \/ SaveRejected
           \/ SaveReadFails \/ Reread \/ Readback
  BY <1>5, SaveSteps
<1>6. CASE \/ PullAnswered \/ RestoreAnswered
           \/ \E choice \in {"merged", "mine", "theirs"} : ConflictChoice(choice)
  BY <1>6, LearningSteps
<1>7. CASE UNCHANGED drawVars
  <2>1. SameKnowledge
    BY <1>7 DEF drawVars, SameKnowledge
  <2> QED BY <1>7, <2>1, KnowledgeStays DEF drawVars
<1> QED BY <1>1, <1>2, <1>3, <1>4, <1>5, <1>6, <1>7 DEF DrawNext

\* What a restoration replaces was recorded just before, so it is in the history
\* whatever falls out of it at the other end.
LEMMA RestoreIsUndoable ==
    ASSUME DrawSafe, HistoryLimit >= 2, NEW k \in DOMAIN drevs, Restore(drevs[k]),
           ddoc' # ddoc
    PROVE  dcount'.restores > dcount.restores /\ ddoc \in Range(drevs')
<1> USE DEF DrawSafe, DrawTypes
<1>1. Stored(drevs[k], RestoreHistory(drevs)) /\ Counted("restores", MaxRestores)
  BY DEF Restore
<1>2. dcount'.restores > dcount.restores
  <2>1. dcount'.restores = dcount.restores + 1
    BY <1>1, CountedTypes
  <2> QED BY <2>1 DEF Counters
<1> DEFINE revs == Recorded(drevs, ddoc)
           doc == Whole(drevs[k])
<1>3. drevs \in Seq(WholeDocs) /\ ddoc \in WholeDocs /\ Len(drevs) <= HistoryLimit
  BY DEF ServerTypes
<1>4. /\ revs \in Seq(WholeDocs) /\ revs # <<>> /\ Last(revs) = ddoc
  <2> DEFINE all == Append(drevs, ddoc)
  <2>1. /\ all \in Seq(WholeDocs) /\ all # <<>> /\ Len(all) = Len(drevs) + 1
        /\ all[Len(all)] = ddoc /\ Len(drevs) \in Nat
    BY <1>3, AppendProperties, LenProperties
  <2>2. /\ Tail(all) \in Seq(WholeDocs) /\ Len(Tail(all)) = Len(all) - 1
        /\ \A i \in 1 .. Len(Tail(all)) : Tail(all)[i] = all[i + 1]
    BY <2>1, HeadTailProperties
  <2> HIDE DEF all
  <2>3. CASE drevs # <<>> /\ Last(drevs) = ddoc
    BY <2>3, <1>3 DEF Recorded
  <2>4. CASE ~(drevs # <<>> /\ Last(drevs) = ddoc) /\ ~(Len(all) > HistoryLimit)
    BY <2>4, <2>1 DEF Recorded, Last, all
  <2>5. CASE ~(drevs # <<>> /\ Last(drevs) = ddoc) /\ Len(all) > HistoryLimit
    <3>1. revs = Tail(all)
      BY <2>5 DEF Recorded, all
    <3>2. Len(Tail(all)) >= 2 /\ Len(Tail(all)) \in Nat
      BY <2>1, <2>2, <2>5, DrawAssumption
    <3>3. Tail(all)[Len(Tail(all))] = ddoc
      BY <2>1, <2>2, <3>2
    <3>4. Tail(all) # <<>>
      <4> DEFINE tail == Tail(all)
      <4>1. Len(tail) >= 2
        BY <3>2
      <4> HIDE DEF tail
      <4>2. tail # <<>>
        BY <4>1
      <4> QED BY <4>2 DEF tail
    <3> QED BY <3>1, <3>3, <3>4, <2>2 DEF Last
  <2> QED BY <2>3, <2>4, <2>5
<1>5. doc # ddoc /\ drevs' \in {Recorded(revs, doc), revs}
  BY <1>1 DEF Stored, RestoreHistory
<1>6. doc \in WholeDocs
  BY <1>3, ElementOfSeq, LenProperties, WholeIsDoc, WholeMends
<1> HIDE DEF revs, doc
<1>7. Len(revs) \in Nat \ {0} /\ DOMAIN revs = 1 .. Len(revs) /\ revs[Len(revs)] = ddoc
  BY <1>4, EmptySeq, LenProperties DEF Last
<1>8. ddoc \in Range(revs)
  BY <1>7 DEF Range
<1>9. ddoc \in Range(Recorded(revs, doc))
  <2> DEFINE all == Append(revs, doc)
  <2>1. /\ all \in Seq(WholeDocs) /\ all # <<>> /\ Len(all) = Len(revs) + 1
        /\ all[Len(revs)] = ddoc /\ DOMAIN all = 1 .. Len(all)
    <3>1. /\ all \in Seq(WholeDocs) /\ all # <<>> /\ Len(all) = Len(revs) + 1
          /\ \A i \in 1 .. Len(revs) : all[i] = revs[i]
      BY <1>4, <1>6, AppendProperties
    <3>2. Len(revs) \in 1 .. Len(revs)
      BY <1>7
    <3> QED BY <3>1, <3>2, <1>7, LenProperties
  <2>2. /\ Tail(all) \in Seq(WholeDocs) /\ Len(Tail(all)) = Len(all) - 1
        /\ \A i \in 1 .. Len(Tail(all)) : Tail(all)[i] = all[i + 1]
    BY <2>1, HeadTailProperties
  <2>3. DOMAIN Tail(all) = 1 .. Len(Tail(all))
    BY <2>2, LenProperties
  <2>4. Recorded(revs, doc) = IF Len(all) > HistoryLimit THEN Tail(all) ELSE all
    BY <1>4, <1>5 DEF Recorded
  <2> HIDE DEF all
  <2>5. CASE Len(all) > HistoryLimit
    <3> DEFINE i == Len(revs) - 1
    <3>1. i \in 1 .. Len(Tail(all)) /\ i + 1 = Len(revs)
      BY <2>1, <2>2, <2>5, <1>7, DrawAssumption
    <3>2. Tail(all)[i] = ddoc
      BY <3>1, <2>1, <2>2
    <3> QED BY <3>1, <3>2, <2>3, <2>4, <2>5 DEF Range
  <2>6. CASE ~(Len(all) > HistoryLimit)
    <3>1. Len(revs) \in DOMAIN all
      BY <2>1, <1>7
    <3> QED BY <3>1, <2>1, <2>4, <2>6 DEF Range
  <2> QED BY <2>5, <2>6
<1> QED BY <1>2, <1>5, <1>8, <1>9

\* A save that arrives changes what is its own.
LEMMA StoredIsOwn ==
    ASSUME DrawSafe, NEW snap \in Snaps, Honest(snap), snap.ver = dver,
           NEW revs, Stored(snap.doc, revs), NEW o \in Things, ddoc'[o] # ddoc[o]
    PROVE  o \in snap.own
<1>1. Whole(snap.doc) = snap.doc
  BY WholeStays DEF Snaps
<1>2. ddoc' = snap.doc \/ ddoc' = ddoc
  BY <1>1 DEF Stored
<1> QED BY <1>2 DEF Honest

\* save_topology with optimistic versions, mergeTopologies and restore_topology_revision:
\* a document is replaced by the agent's patch, by a restoration that leaves it in the
\* history, or by a save, which then differs from it only in what the canvas had made
\* different from what the tab saw.  Two hypotheses: the read after a rejected save
\* does not fail, for then the tab forgets the conflict and keeps the version that
\* it does not know; and the history has room for the document that a restoration
\* replaces and for the one it brings (its limit in the code is far higher).
THEOREM NothingIsOverwrittenUnseen ==
    ASSUME "reread" \notin DrawFaults, HistoryLimit >= 2
    PROVE  DrawSpec => NothingOverwrittenUnseen
<1>1. DrawInit => DrawSafe /\ UnseenInv
  BY DrawInitSafe, UnseenInit
<1>2. DrawSafe /\ UnseenInv /\ [DrawNext]_drawVars => DrawSafe' /\ UnseenInv'
  BY DrawSafeStep, UnseenStep
<1>3. ASSUME DrawSafe, UnseenInv, DrawNext, ddoc' # ddoc
      PROVE  \/ dcount'.agent > dcount.agent
             \/ dcount'.restores > dcount.restores /\ ddoc \in Range(drevs')
             \/ LET sent == IF dlate' = dlate THEN dsave.snap ELSE dlate
                IN  /\ sent # Nothing
                    /\ \A o \in Things : ddoc'[o] # ddoc[o] => o \in sent.own
  <2> USE DEF DrawSafe, DrawTypes
  <2>1. ASSUME NEW o \in Things, NEW v \in AgentSets[o], AgentPatch(o, v)
        PROVE  dcount'.agent > dcount.agent
    <3>1. Counted("agent", MaxAgentEdits)
      BY <2>1 DEF AgentPatch
    <3>2. dcount'.agent = dcount.agent + 1
      BY <3>1, <1>3, CountedTypes
    <3> QED BY <3>2, <1>3 DEF Counters
  <2>2. ASSUME NEW k \in DOMAIN drevs, Restore(drevs[k])
        PROVE  dcount'.restores > dcount.restores /\ ddoc \in Range(drevs')
    BY <2>2, <1>3, RestoreIsUndoable
  <2>3. CASE LatePut
    <3>1. /\ dlate # Nothing /\ dlate' # dlate /\ dlate \in Snaps
          /\ dlate.ver = dver /\ Stored(dlate.doc, drevs)
      BY <2>3, <1>3 DEF LatePut, SaveTypes
    <3>2. Honest(dlate)
      BY <3>1, <1>3 DEF UnseenInv, SavesAreHonest
    <3>3. \A o \in Things : ddoc'[o] # ddoc[o] => o \in dlate.own
      BY <3>1, <3>2, <1>3, StoredIsOwn
    <3> QED BY <3>1, <3>3
  <2>4. CASE PutArrives
    <3>1. /\ dlate' = dlate /\ dsave.snap \in Snaps
          /\ dsave.snap.ver = dver /\ Stored(dsave.snap.doc, drevs)
      BY <2>4, <1>3 DEF PutArrives, SaveShape
    <3>2. dsave.snap # Nothing
      BY <3>1 DEF Snaps, Nothing
    <3>3. Honest(dsave.snap)
      BY <3>2, <1>3 DEF UnseenInv, SavesAreHonest
    <3>4. \A o \in Things : ddoc'[o] # ddoc[o] => o \in dsave.snap.own
      BY <3>1, <3>3, <1>3, StoredIsOwn
    <3> QED BY <3>1, <3>2, <3>4
  <2>5. CASE ddoc' = ddoc
    BY <2>5, <1>3
  <2> QED
    BY <1>3, <2>1, <2>2, <2>3, <2>4, <2>5
    DEF DrawNext, UserEdit, Undo, Redo, UndoChange, ApplyEntry, ClickSave, SaveBegins,
        PutLost, SaveAnswered, SaveRejected, SaveRead, SaveReadFails, Reread, Readback,
        Notice, SocketDown, SocketUp, PullRead, PullFails, PullAnswered, PullWaited,
        ConflictChoice, RestoreAnswered
<1>4. ASSUME DrawSafe, UnseenInv, [DrawNext]_drawVars
      PROVE  [ddoc' # ddoc =>
                 \/ dcount'.agent > dcount.agent
                 \/ dcount'.restores > dcount.restores /\ ddoc \in Range(drevs')
                 \/ LET sent == IF dlate' = dlate THEN dsave.snap ELSE dlate
                    IN  /\ sent # Nothing
                        /\ \A o \in Things : ddoc'[o] # ddoc[o] => o \in sent.own]_drawVars
  BY <1>3, <1>4
<1> QED BY <1>1, <1>2, <1>4, PTL DEF DrawSpec, NothingOverwrittenUnseen

-----------------------------------------------------------------------------
(* A session: types.                                                       *)

SrecPoints ==
    {"new", "claimed", "started", "inflight", "running", "recorded", "linked",
     "projecting", "projected", "asked", "answering", "answered", "journal",
     "persisted", "finished", "ended"}

Deletions ==
    [at : {"off", "scan", "runs", "record", "messages", "registry", "coding", "verdict",
           "job", "journal"},
     by : {"user", "retention"}, runs : SUBSET SrecTurns, had : BOOLEAN,
     failed : BOOLEAN]

SessionRecords ==
    [status : {"none", "active", "archived", "deleted"}, runs : SUBSET SrecTurns]

DiskTypes ==
    /\ srec \in SessionRecords
    /\ smsg \subseteq Messages /\ sref \subseteq Messages /\ ssnap \subseteq Messages
    /\ srun \subseteq SrecTurns /\ sreq \subseteq SrecTurns
    /\ sagent \in {"none", "idle", "running"}

FlagTypes ==
    /\ stomb \in BOOLEAN /\ sdir \in BOOLEAN /\ sreqdir \in BOOLEAN
    /\ scode \in BOOLEAN /\ sjournal \in BOOLEAN /\ saged \in BOOLEAN /\ sgone \in BOOLEAN

ActorTypes ==
    /\ spc \in [SrecTurns -> SrecPoints]
    /\ sdel \in Deletions
    /\ srepair \subseteq SrecTurns /\ srewind \subseteq Messages

SrecTypes == DiskTypes /\ FlagTypes /\ ActorTypes

\* A turn goes on.
LEMMA TurnTypes ==
    ASSUME SrecTypes, NEW t \in SrecTurns, NEW point \in SrecPoints, SrecGoes(t, point)
    PROVE  spc' \in [SrecTurns -> SrecPoints]
BY DEF SrecTypes, ActorTypes, SrecGoes

LEMMA RoleTypes ==
    ASSUME SrecTypes, NEW t \in SrecTurns, spc[t] \in DOMAIN MessageStep
    PROVE  /\ MessageStep[spc[t]].role \in {"user", "assistant"}
           /\ MessageStep[spc[t]].next \in SrecPoints
           /\ spc[t] \notin {"new", "ended"}
<1>1. spc[t] \in {"started", "inflight", "projected", "asked", "answering", "answered"}
  BY DEF MessageStep
<1> QED BY <1>1 DEF MessageStep, SrecPoints

LEMMA TurnStepTypes ==
    ASSUME SrecTypes, NEW t \in SrecTurns,
           \/ ClaimTurn(t) \/ EnsureSession(t) \/ WriteMessage(t) \/ WriteRun(t)
           \/ LinkRun(t) \/ ReadRun(t) \/ SaveRun(t) \/ JournalTurn(t)
           \/ FinishRequest(t) \/ AttachJob(t)
    PROVE  SrecTypes'
<1> USE DEF SrecTypes
<1>1. /\ UNCHANGED <<stomb, ssnap, scode, sdel, saged, srepair, srewind, sgone>>
  BY DEF ClaimTurn, EnsureSession, WriteMessage, WriteRun, LinkRun, ReadRun, SaveRun,
         JournalTurn, FinishRequest, AttachJob, SrecTurnRest
<1>2. spc' \in [SrecTurns -> SrecPoints]
  <2>1. PICK point : SrecGoes(t, point) /\ point \in SrecPoints
    <3>1. CASE WriteMessage(t)
      BY <3>1, RoleTypes DEF WriteMessage
    <3> QED BY <3>1
            DEF ClaimTurn, EnsureSession, WriteRun, LinkRun, ReadRun, SaveRun,
                JournalTurn, FinishRequest, AttachJob, SrecPoints
  <2> QED BY <2>1, TurnTypes
<1>3. /\ smsg' \subseteq smsg \cup {<<t, "user">>, <<t, "assistant">>}
      /\ sref' \subseteq sref \cup {<<t, "user">>, <<t, "assistant">>}
      /\ sdir' = sdir \/ sdir' = TRUE
  <2>1. CASE WriteMessage(t)
    BY <2>1, RoleTypes DEF WriteMessage, PutMessage
  <2> QED BY <2>1
          DEF ClaimTurn, EnsureSession, WriteRun, LinkRun, ReadRun, SaveRun,
              JournalTurn, FinishRequest, AttachJob, PutMessage
<1>4. {<<t, "user">>, <<t, "assistant">>} \subseteq Messages
  BY DEF Messages
<1>5. smsg' \subseteq Messages /\ sref' \subseteq Messages
  BY <1>3, <1>4 DEF DiskTypes
<1>6. srun' \subseteq SrecTurns /\ sreq' \subseteq SrecTurns
  BY DEF ClaimTurn, EnsureSession, WriteMessage, WriteRun, LinkRun, ReadRun, SaveRun,
         JournalTurn, FinishRequest, AttachJob, DiskTypes
<1>7. sagent' \in {"none", "idle", "running"}
  BY DEF ClaimTurn, EnsureSession, WriteMessage, WriteRun, LinkRun, ReadRun, SaveRun,
         JournalTurn, FinishRequest, AttachJob, DiskTypes
<1>8. srec' \in SessionRecords
  <2>1. CASE EnsureSession(t)
    BY <2>1 DEF EnsureSession, NoSession, DiskTypes, SessionRecords
  <2>2. CASE LinkRun(t)
    <3>1. \/ srec' = srec
          \/ \E status \in {srec.status, "active"} :
                srec' = [status |-> status, runs |-> srec.runs \cup {t}]
      BY <2>2 DEF LinkRun
    <3> QED BY <3>1 DEF DiskTypes, SessionRecords
  <2>3. CASE srec' = srec
    BY <2>3 DEF DiskTypes
  <2> QED BY <2>1, <2>2, <2>3
          DEF ClaimTurn, WriteMessage, WriteRun, ReadRun, SaveRun, JournalTurn,
              FinishRequest, AttachJob
<1>9. sjournal' \in BOOLEAN /\ sreqdir' \in BOOLEAN /\ sdir' \in BOOLEAN
  <2>1. sjournal' = sjournal \/ sjournal' = TRUE
    BY Zenon
    DEF ClaimTurn, EnsureSession, WriteMessage, WriteRun, LinkRun, ReadRun, SaveRun,
        JournalTurn, FinishRequest, AttachJob
  <2>2. sreqdir' = sreqdir \/ sreqdir' = TRUE
    BY Zenon
    DEF ClaimTurn, EnsureSession, WriteMessage, WriteRun, LinkRun, ReadRun, SaveRun,
        JournalTurn, FinishRequest, AttachJob
  <2>3. sdir' = sdir \/ sdir' = TRUE
    BY <1>3
  <2> QED BY <2>1, <2>2, <2>3, Zenon DEF FlagTypes
<1>10. DiskTypes'
  BY <1>1, <1>5, <1>6, <1>7, <1>8 DEF DiskTypes
<1>11. FlagTypes'
  BY <1>1, <1>9 DEF FlagTypes
<1>12. ActorTypes'
  BY <1>1, <1>2 DEF ActorTypes
<1> QED BY <1>10, <1>11, <1>12


\* A deletion goes on.
LEMMA PhaseTypes ==
    ASSUME SrecTypes, NEW at \in {"runs", "record", "messages", "registry", "coding",
                                  "verdict", "journal"},
           \/ DeletionGoes(at)
           \/ DeletionFails(at)
           \/ sdel' = [sdel EXCEPT !.at = at, !.runs = @ \cup srun]
    PROVE  sdel' \in Deletions
<1> USE DEF SrecTypes
<1>1. CASE DeletionGoes(at)
  BY <1>1 DEF DeletionGoes, ActorTypes, Deletions
<1>2. CASE DeletionFails(at)
  BY <1>2 DEF DeletionFails, ActorTypes, Deletions
<1>3. CASE sdel' = [sdel EXCEPT !.at = at, !.runs = @ \cup srun]
  <2>1. sdel.runs \cup srun \subseteq SrecTurns
    BY DEF ActorTypes, DiskTypes, Deletions
  <2> QED BY <1>3, <2>1 DEF ActorTypes, Deletions
<1> QED BY <1>1, <1>2, <1>3

LEMMA NoDeletionTypes ==
    NoDeletion \in Deletions /\ [NoDeletion EXCEPT !.at = "job"] \in Deletions
BY DEF NoDeletion, Deletions

LEMMA DeletionTypes ==
    ASSUME SrecTypes, DeletionStep
    PROVE  SrecTypes'
<1> USE DEF SrecTypes
<1>1. UNCHANGED <<stomb, spc, saged, srepair, srewind>>
  BY DEF DeletionStep, ScanRuns, DeleteRuns, DeleteRecord, DeleteMessages, DeleteRegistry,
         DeleteCoding, Verdict, DeleteJobAndJournal, DeletionRest, srecDisk
<1>2. sdel' \in Deletions
  <2>1. CASE Verdict
    BY <2>1, NoDeletionTypes DEF Verdict
  <2>2. CASE DeleteJobAndJournal
    BY <2>2, NoDeletionTypes, PhaseTypes DEF DeleteJobAndJournal
  <2> QED BY <2>1, <2>2, PhaseTypes
          DEF DeletionStep, ScanRuns, DeleteRuns, DeleteRecord, DeleteMessages,
              DeleteRegistry, DeleteCoding
<1>3. /\ smsg' \subseteq smsg /\ sref' \subseteq sref /\ ssnap' \subseteq ssnap
      /\ srun' \subseteq srun /\ sreq' \subseteq sreq
      /\ sagent' = sagent \/ sagent' = "none"
      /\ srec' = srec \/ srec' = NoSession
  <2>1. CASE ScanRuns
    BY <2>1 DEF ScanRuns, srecDisk
  <2>2. CASE DeleteRuns
    BY <2>2 DEF DeleteRuns
  <2>3. CASE DeleteMessages
    BY <2>3 DEF DeleteMessages
  <2> QED BY <2>1, <2>2, <2>3
          DEF DeletionStep, DeleteRecord, DeleteRegistry, DeleteCoding, Verdict,
              DeleteJobAndJournal
<1>4. NoSession \in SessionRecords
  BY DEF NoSession, SessionRecords
<1>5. DiskTypes'
  BY <1>3, <1>4 DEF DiskTypes
<1>6. /\ sdir' = sdir \/ sdir' = FALSE
      /\ sreqdir' = sreqdir \/ sreqdir' = FALSE
      /\ scode' = scode \/ scode' = FALSE
      /\ sjournal' = sjournal \/ sjournal' = FALSE
      /\ \/ sgone' = sgone
         \/ sgone' = (Complete /\ ~sdel.failed /\ sdel.had)
  <2>1. CASE ScanRuns
    BY <2>1, Zenon DEF ScanRuns, srecDisk
  <2> QED BY <2>1, Zenon
          DEF DeletionStep, DeleteRuns, DeleteRecord, DeleteMessages, DeleteRegistry,
              DeleteCoding, Verdict, DeleteJobAndJournal
<1>7. (Complete /\ ~sdel.failed /\ sdel.had) \in BOOLEAN
  OBVIOUS
<1>8. FlagTypes'
  BY <1>1, <1>6, <1>7, Zenon DEF FlagTypes
<1>9. ActorTypes'
  BY <1>1, <1>2 DEF ActorTypes
<1> QED BY <1>5, <1>8, <1>9

\* Others who write.
LEMMA OtherTypes ==
    ASSUME SrecTypes,
           \/ RetentionLists
           \/ \E by \in {"user", "retention"} : BeginDeletion(by)
           \/ \E status \in {"active", "archived", "deleted"} : UpdateStatus(status)
           \/ RepairReads \/ RepairWrites \/ ChangeCoding
           \/ TakeSnapshot \/ BeginRewind \/ \E m \in Messages : RewindWrites(m)
           \/ SrecRestart
    PROVE  SrecTypes'
<1> USE DEF SrecTypes
<1>1. CASE RetentionLists
  BY <1>1 DEF RetentionLists, srecDisk, srecHistory, DiskTypes, FlagTypes, ActorTypes
<1>2. ASSUME NEW by \in {"user", "retention"}, BeginDeletion(by)
      PROVE  SrecTypes'
  <2> DEFINE had == srec # NoSession \/ sdir \/ sreqdir
             kept == saged /\ by # "retention"
  <2>1. had \in BOOLEAN /\ kept \in BOOLEAN
    OBVIOUS
  <2>2. /\ sdel' = [at |-> "scan", by |-> by, runs |-> srec.runs, failed |-> FALSE,
                    had |-> had]
        /\ saged' = kept /\ stomb' = TRUE /\ sgone' = FALSE
    BY <1>2 DEF BeginDeletion
  <2> HIDE DEF had, kept
  <2>3. srec.runs \subseteq SrecTurns
    BY DEF DiskTypes, SessionRecords
  <2>4. sdel' \in Deletions
    BY <2>1, <2>2, <2>3 DEF Deletions
  <2>5. DiskTypes'
    BY <1>2 DEF BeginDeletion, DiskTypes
  <2>6. FlagTypes'
    BY <1>2, <2>1, <2>2 DEF BeginDeletion, FlagTypes
  <2>7. ActorTypes'
    BY <1>2, <2>4 DEF BeginDeletion, ActorTypes
  <2> QED BY <2>5, <2>6, <2>7
<1>3. ASSUME NEW status \in {"active", "archived", "deleted"}, UpdateStatus(status)
      PROVE  SrecTypes'
  <2>1. srec' \in SessionRecords
    BY <1>3 DEF UpdateStatus, DiskTypes, SessionRecords
  <2>2. sagent' \in {"none", "idle", "running"}
    <3>1. sagent' \in {"none", "idle", "running", sagent}
      BY <1>3 DEF UpdateStatus
    <3> QED BY <3>1 DEF DiskTypes
  <2>3. DiskTypes'
    BY <1>3, <2>1, <2>2 DEF UpdateStatus, DiskTypes
  <2> QED BY <1>3, <2>3 DEF UpdateStatus, srecActors, FlagTypes, ActorTypes
<1>4. CASE RepairReads
  <2>1. {m[1] : m \in smsg} \subseteq SrecTurns
    BY DEF DiskTypes, Messages
  <2> QED BY <1>4, <2>1
          DEF RepairReads, srecDisk, srecHistory, DiskTypes, FlagTypes, ActorTypes
<1>5. CASE RepairWrites
  <2>1. srec' \in SessionRecords
    <3>1. \/ srec' = srec
          \/ \E status \in {srec.status, "active"} :
                srec' = [status |-> status, runs |-> srec.runs \cup srepair]
      BY <1>5 DEF RepairWrites
    <3> QED BY <3>1 DEF DiskTypes, ActorTypes, SessionRecords
  <2>2. DiskTypes'
    BY <1>5, <2>1 DEF RepairWrites, DiskTypes
  <2> QED BY <1>5, <2>2 DEF RepairWrites, srecHistory, FlagTypes, ActorTypes
<1>6. CASE ChangeCoding
  BY <1>6 DEF ChangeCoding, srecActors, srecHistory, DiskTypes, FlagTypes, ActorTypes
<1>7. CASE TakeSnapshot
  BY <1>7 DEF TakeSnapshot, srecActors, srecHistory, DiskTypes, FlagTypes, ActorTypes
<1>8. CASE BeginRewind
  BY <1>8 DEF BeginRewind, DiskTypes, FlagTypes, ActorTypes
<1>9. ASSUME NEW m \in Messages, RewindWrites(m)
      PROVE  SrecTypes'
  <2>1. <<m[1], m[2]>> \in Messages
    BY DEF Messages
  <2>2. DiskTypes'
    BY <1>9, <2>1 DEF RewindWrites, PutMessage, DiskTypes
  <2>3. FlagTypes'
    BY <1>9 DEF RewindWrites, PutMessage, FlagTypes, srecHistory
  <2>4. ActorTypes'
    BY <1>9 DEF RewindWrites, ActorTypes
  <2> QED BY <2>2, <2>3, <2>4
<1>10. CASE SrecRestart
  <2>1. spc' \in [SrecTurns -> SrecPoints]
    BY <1>10 DEF SrecRestart, ActorTypes, SrecPoints
  <2>2. DiskTypes'
    BY <1>10 DEF SrecRestart, DiskTypes
  <2>3. FlagTypes'
    BY <1>10 DEF SrecRestart, FlagTypes
  <2>4. ActorTypes'
    BY <1>10, <2>1, NoDeletionTypes DEF SrecRestart, ActorTypes
  <2> QED BY <2>2, <2>3, <2>4
<1> QED BY <1>1, <1>2, <1>3, <1>4, <1>5, <1>6, <1>7, <1>8, <1>9, <1>10

LEMMA SrecStepTypes ==
    ASSUME SrecTypes, [SrecNext]_srecVars
    PROVE  SrecTypes'
<1>1. CASE UNCHANGED srecVars
  BY <1>1 DEF srecVars, srecDisk, srecActors, srecHistory, SrecTypes, DiskTypes, FlagTypes,
              ActorTypes
<1> QED BY <1>1, TurnStepTypes, DeletionTypes, OtherTypes DEF SrecNext

LEMMA SrecInitTypes == SrecInit => SrecTypes
<1> SUFFICES ASSUME SrecInit PROVE SrecTypes
  OBVIOUS
<1>1. DiskTypes
  BY DEF SrecInit, DiskTypes, NoSession, SessionRecords
<1>2. FlagTypes
  BY DEF SrecInit, FlagTypes
<1>3. ActorTypes
  BY NoDeletionTypes DEF SrecInit, ActorTypes, SrecPoints
<1> QED BY <1>1, <1>2, <1>3 DEF SrecTypes

\* What is on disk of a session, its turns and its deletion have their types
\* (SrecTypeOK and the points of the turns), whatever dies or fails.
THEOREM SessionRecordTypeCorrect == SrecSpec => [](SrecTypes /\ SrecTypeOK)
<1>1. SrecTypes => SrecTypeOK
  BY DEF SrecTypes, DiskTypes, FlagTypes, ActorTypes, SessionRecords, SrecTypeOK
<1> QED BY <1>1, SrecInitTypes, SrecStepTypes, PTL DEF SrecSpec

-----------------------------------------------------------------------------
(* A session: its deletion is final.                                       *)

RunFacts == srun \X {"run"}

\* A deletion stands behind its tombstone.
Tombstoned == sdel.at # "off" \/ sgone => stomb

\* History knows everything that a writer under way may still write past a tombstone.
LateKnown == stomb => LateFacts \subseteq slate

\* Messages are in their directory, so that its absence means something.
DirHolds == smsg # {} => sdir

\* What a deletion that met no failure has behind it.
DeletionWorks ==
    ~sdel.failed =>
        /\ sdel.at = "runs" => RunFacts \subseteq slate \cup sdel.runs \X {"run"}
        /\ sdel.at \in {"record", "messages", "registry", "coding", "verdict"}
              => RunFacts \subseteq slate
        /\ sdel.at = "verdict" => ~scode

SrecGone == Tombstoned /\ LateKnown /\ DirHolds /\ DeletionWorks /\ DeletedIsGone

SrecSafe == SrecTypes /\ SrecGone

\* What may be written late, turn by turn.
LEMMA LateMeans ==
    (LateFacts \subseteq slate)
        <=> /\ \A t \in SrecTurns : UnderWay(t) => TurnFacts(t) \subseteq slate
            /\ srewind \subseteq slate
<1>1. LateFacts = (UNION {TurnFacts(t) : t \in {u \in SrecTurns : UnderWay(u)}}) \cup srewind
  BY DEF LateFacts
<1> QED BY <1>1

LEMMA LateMeansNext ==
    (LateFacts' \subseteq slate')
        <=> /\ \A t \in SrecTurns : UnderWay(t)' => TurnFacts(t) \subseteq slate'
            /\ srewind' \subseteq slate'
<1>1. LateFacts' = (UNION {TurnFacts(t) : t \in {u \in SrecTurns : UnderWay(u)'}}) \cup srewind'
  BY DEF LateFacts, TurnFacts
<1> QED BY <1>1

\* A step of a turn writes facts of its own, and the record only without a tombstone.
LEMMA TurnWrites ==
    ASSUME SrecTypes, NEW t \in SrecTurns,
           \/ ClaimTurn(t) \/ EnsureSession(t) \/ WriteMessage(t) \/ WriteRun(t)
           \/ LinkRun(t) \/ ReadRun(t) \/ SaveRun(t) \/ JournalTurn(t)
           \/ FinishRequest(t) \/ AttachJob(t)
    PROVE  /\ UNCHANGED <<stomb, scode, sdel, srewind, sgone>>
           /\ smsg' \subseteq smsg \cup TurnFacts(t)
           /\ sref' \subseteq sref \cup TurnFacts(t)
           /\ RunFacts' \subseteq RunFacts \cup TurnFacts(t)
           /\ (smsg' = smsg /\ sdir' = sdir) \/ sdir' = TRUE
           /\ stomb => srec' = srec
           /\ slate \subseteq slate'
           /\ stomb => UnderWay(t) \/ TurnFacts(t) \subseteq slate'
           /\ \A u \in SrecTurns \ {t} : UnderWay(u)' <=> UnderWay(u)
<1> DEFINE facts == TurnFacts(t)
<1>1. {<<t, "user">>, <<t, "assistant">>, <<t, "run">>} \subseteq TurnFacts(t)
  BY DEF TurnFacts
<1>2. UNCHANGED <<stomb, scode, sdel, srewind, sgone>>
  BY DEF ClaimTurn, EnsureSession, WriteMessage, WriteRun, LinkRun, ReadRun, SaveRun,
         JournalTurn, FinishRequest, AttachJob, SrecTurnRest
<1>3. /\ smsg' \subseteq smsg \cup TurnFacts(t)
      /\ sref' \subseteq sref \cup TurnFacts(t)
      /\ (smsg' = smsg /\ sdir' = sdir) \/ sdir' = TRUE
  <2>1. CASE WriteMessage(t)
    <3>1. <<t, MessageStep[spc[t]].role>> \in {<<t, "user">>, <<t, "assistant">>}
      BY <2>1, RoleTypes DEF WriteMessage
    <3> QED BY <1>1, <2>1, <3>1 DEF WriteMessage, PutMessage
  <2>2. \/ /\ smsg' \subseteq smsg \cup {<<t, "user">>, <<t, "assistant">>}
           /\ sref' \subseteq sref
           /\ (smsg' = smsg /\ sdir' = sdir) \/ sdir' = TRUE
        \/ WriteMessage(t)
    BY DEF ClaimTurn, EnsureSession, WriteRun, LinkRun, ReadRun, SaveRun, JournalTurn,
           FinishRequest, AttachJob, PutMessage
  <2> QED BY <1>1, <2>1, <2>2
<1>4. RunFacts' \subseteq RunFacts \cup TurnFacts(t)
  <2>1. srun' \subseteq srun \cup {t}
    BY DEF ClaimTurn, EnsureSession, WriteMessage, WriteRun, LinkRun, ReadRun, SaveRun,
           JournalTurn, FinishRequest, AttachJob
  <2> QED BY <2>1, <1>1 DEF RunFacts
<1>5. stomb => srec' = srec
  BY DEF ClaimTurn, EnsureSession, WriteMessage, WriteRun, LinkRun, ReadRun, SaveRun,
         JournalTurn, FinishRequest, AttachJob, Writable
<1>6. slate \subseteq slate'
  BY DEF ClaimTurn, EnsureSession, WriteMessage, WriteRun, LinkRun, ReadRun, SaveRun,
         JournalTurn, FinishRequest, AttachJob
<1>7. stomb => UnderWay(t) \/ TurnFacts(t) \subseteq slate'
  <2>1. CASE ClaimTurn(t)
    BY <2>1 DEF ClaimTurn
  <2>2. CASE WriteMessage(t)
    BY <2>2, RoleTypes DEF WriteMessage, UnderWay
  <2> QED BY <2>1, <2>2
          DEF EnsureSession, WriteRun, LinkRun, ReadRun, SaveRun, JournalTurn,
              FinishRequest, AttachJob, UnderWay
<1>8. \A u \in SrecTurns \ {t} : UnderWay(u)' <=> UnderWay(u)
  <2>1. PICK point : SrecGoes(t, point)
    BY DEF ClaimTurn, EnsureSession, WriteMessage, WriteRun, LinkRun, ReadRun, SaveRun,
           JournalTurn, FinishRequest, AttachJob
  <2> QED BY <2>1 DEF SrecGoes, UnderWay, SrecTypes, ActorTypes
<1> QED BY <1>2, <1>3, <1>4, <1>5, <1>6, <1>7, <1>8

LEMMA TurnGone ==
    ASSUME SrecSafe, NEW t \in SrecTurns,
           \/ ClaimTurn(t) \/ EnsureSession(t) \/ WriteMessage(t) \/ WriteRun(t)
           \/ LinkRun(t) \/ ReadRun(t) \/ SaveRun(t) \/ JournalTurn(t)
           \/ FinishRequest(t) \/ AttachJob(t)
    PROVE  SrecGone'
<1> USE DEF SrecSafe, SrecGone
<1>1. /\ UNCHANGED <<stomb, scode, sdel, srewind, sgone>>
      /\ smsg' \subseteq smsg \cup TurnFacts(t)
      /\ sref' \subseteq sref \cup TurnFacts(t)
      /\ RunFacts' \subseteq RunFacts \cup TurnFacts(t)
      /\ (smsg' = smsg /\ sdir' = sdir) \/ sdir' = TRUE
      /\ stomb => srec' = srec
      /\ slate \subseteq slate'
      /\ stomb => UnderWay(t) \/ TurnFacts(t) \subseteq slate'
      /\ \A u \in SrecTurns \ {t} : UnderWay(u)' <=> UnderWay(u)
  BY TurnWrites
<1>2. stomb => TurnFacts(t) \subseteq slate'
  BY <1>1, LateMeans DEF LateKnown
<1>3. Tombstoned'
  BY <1>1 DEF Tombstoned
<1>4. LateKnown'
  <2>1. ASSUME stomb PROVE LateFacts' \subseteq slate'
    <3>1. /\ \A u \in SrecTurns : UnderWay(u) => TurnFacts(u) \subseteq slate
          /\ srewind \subseteq slate
      BY <2>1, LateMeans DEF LateKnown
    <3>2. \A u \in SrecTurns : UnderWay(u)' => TurnFacts(u) \subseteq slate'
      BY <1>1, <1>2, <2>1, <3>1
    <3>3. srewind' \subseteq slate'
      BY <1>1, <3>1
    <3> QED BY <3>2, <3>3, LateMeansNext
  <2> QED BY <1>1, <2>1 DEF LateKnown
<1>5. DirHolds'
  BY <1>1 DEF DirHolds
<1>6. DeletionWorks'
  <2>1. CASE sdel.at = "off"
    BY <1>1, <2>1 DEF DeletionWorks
  <2>2. CASE sdel.at # "off"
    <3>1. stomb
      BY <2>2 DEF Tombstoned
    <3> QED BY <1>1, <1>2, <3>1 DEF DeletionWorks
  <2> QED BY <2>1, <2>2
<1>7. DeletedIsGone'
  <2>1. ASSUME sgone PROVE DeletedIsGone'
    <3>1. stomb
      BY <2>1 DEF Tombstoned
    <3>2. srec = NoSession /\ ~scode /\ smsg \cup sref \cup RunFacts \subseteq slate
      BY <2>1 DEF DeletedIsGone, RunFacts
    <3>3. smsg' \cup sref' \cup RunFacts' \subseteq slate'
      BY <1>1, <1>2, <3>1, <3>2
    <3> QED BY <1>1, <3>1, <3>2, <3>3 DEF DeletedIsGone, RunFacts
  <2> QED BY <1>1, <2>1 DEF DeletedIsGone
<1> QED BY <1>3, <1>4, <1>5, <1>6, <1>7

\* A deletion only takes away, and says so at the end only when nothing failed and
\* nothing is left.
LEMMA DeletionGone ==
    ASSUME SrecSafe, DeletionStep
    PROVE  SrecGone'
<1> USE DEF SrecSafe, SrecGone
<1>1. UNCHANGED <<stomb, spc, srewind, slate>>
  BY DEF DeletionStep, ScanRuns, DeleteRuns, DeleteRecord, DeleteMessages, DeleteRegistry,
         DeleteCoding, Verdict, DeleteJobAndJournal, DeletionRest, srecDisk
<1>2. stomb
  BY DEF Tombstoned, DeletionStep, ScanRuns, DeleteRuns, DeleteRecord, DeleteMessages,
         DeleteRegistry, DeleteCoding, Verdict, DeleteJobAndJournal
<1>3. Tombstoned'
  BY <1>1, <1>2 DEF Tombstoned
<1>4. LateKnown'
  BY <1>1 DEF LateKnown, LateFacts, UnderWay, TurnFacts
<1>5. /\ smsg' \subseteq smsg /\ sref' \subseteq sref /\ srun' \subseteq srun
      /\ srec' = srec \/ srec' = NoSession
      /\ scode' = scode \/ scode' = FALSE
  <2>1. CASE ScanRuns
    BY <2>1 DEF ScanRuns, srecDisk
  <2>2. CASE DeleteRuns
    BY <2>2 DEF DeleteRuns
  <2>3. CASE DeleteMessages
    BY <2>3 DEF DeleteMessages
  <2> QED BY <2>1, <2>2, <2>3
          DEF DeletionStep, DeleteRecord, DeleteRegistry, DeleteCoding, Verdict,
              DeleteJobAndJournal
<1>6. RunFacts' \subseteq RunFacts
  BY <1>5 DEF RunFacts
<1>7. DirHolds'
  <2>1. CASE DeleteMessages
    BY <2>1 DEF DeleteMessages, DirHolds
  <2>2. CASE ScanRuns
    BY <2>2 DEF ScanRuns, srecDisk, DirHolds
  <2> QED BY <2>1, <2>2
          DEF DeletionStep, DeleteRuns, DeleteRecord, DeleteRegistry, DeleteCoding,
              Verdict, DeleteJobAndJournal, DirHolds
<1>8. sdel \in Deletions
  BY DEF SrecTypes, ActorTypes
<1>9. DeletionWorks'
  <2>1. CASE ScanRuns
    <3>1. ASSUME sdel' = [sdel EXCEPT !.at = "runs", !.runs = @ \cup srun]
          PROVE  DeletionWorks'
      <4>1. sdel'.at = "runs" /\ sdel'.runs = sdel.runs \cup srun
        BY <1>8, <3>1 DEF Deletions
      <4>2. RunFacts' \subseteq sdel'.runs \X {"run"}
        BY <1>5, <4>1 DEF RunFacts
      <4> QED BY <4>1, <4>2 DEF DeletionWorks
    <3>2. ASSUME DeletionFails("runs")
          PROVE  DeletionWorks'
      BY <1>8, <3>2 DEF DeletionFails, Deletions, DeletionWorks
    <3> QED BY <2>1, <3>1, <3>2 DEF ScanRuns
  <2>2. CASE DeleteRuns
    <3>1. ASSUME DeletionGoes("record"), srun' = srun \ sdel.runs
          PROVE  DeletionWorks'
      <4>1. sdel'.at = "record" /\ sdel'.failed = sdel.failed /\ sdel.at = "runs"
        BY <1>8, <2>2, <3>1 DEF DeleteRuns, DeletionGoes, Deletions
      <4>2. ~sdel.failed => RunFacts' \subseteq slate
        BY <3>1, <4>1 DEF DeletionWorks, RunFacts
      <4> QED BY <1>1, <4>1, <4>2 DEF DeletionWorks
    <3>2. ASSUME DeletionFails("record")
          PROVE  DeletionWorks'
      BY <1>8, <3>2 DEF DeletionFails, Deletions, DeletionWorks
    <3> QED BY <2>2, <3>1, <3>2 DEF DeleteRuns
  <2>3. ASSUME NEW at \in {"messages", "registry", "coding", "verdict"},
               sdel.at \in {"record", "messages", "registry", "coding"},
               DeletionGoes(at), at = "verdict" => ~scode'
        PROVE  DeletionWorks'
    <3>1. sdel'.at = at /\ sdel'.failed = sdel.failed
      BY <1>8, <2>3 DEF DeletionGoes, Deletions
    <3>2. ~sdel.failed => RunFacts' \subseteq slate
      BY <1>6, <2>3 DEF DeletionWorks
    <3> QED BY <1>1, <2>3, <3>1, <3>2 DEF DeletionWorks
  <2>4. ASSUME NEW at \in {"messages", "registry", "coding", "verdict"}, DeletionFails(at)
        PROVE  DeletionWorks'
    BY <1>8, <2>4 DEF DeletionFails, Deletions, DeletionWorks
  <2>5. CASE DeleteRecord
    BY <2>3, <2>4, <2>5 DEF DeleteRecord
  <2>6. CASE DeleteMessages
    BY <2>3, <2>4, <2>6 DEF DeleteMessages
  <2>7. CASE DeleteRegistry
    BY <2>3, <2>4, <2>7 DEF DeleteRegistry
  <2>8. CASE DeleteCoding
    BY <2>3, <2>4, <2>8 DEF DeleteCoding
  <2>9. CASE Verdict
    <3>1. sdel' = NoDeletion \/ sdel' = [NoDeletion EXCEPT !.at = "job"]
      BY <2>9 DEF Verdict
    <3>2. sdel'.at \in {"off", "job"}
      BY <3>1 DEF NoDeletion
    <3> QED BY <3>2 DEF DeletionWorks
  <2>10. CASE DeleteJobAndJournal
    <3>1. sdel' = NoDeletion \/ sdel' = [sdel EXCEPT !.at = "journal"]
      BY <2>10 DEF DeleteJobAndJournal, DeletionGoes
    <3>2. sdel'.at \in {"off", "journal"}
      BY <1>8, <3>1 DEF NoDeletion, Deletions
    <3> QED BY <3>2 DEF DeletionWorks
  <2> QED BY <2>1, <2>2, <2>5, <2>6, <2>7, <2>8, <2>9, <2>10 DEF DeletionStep
<1>10. DeletedIsGone'
  <2>1. ASSUME sgone PROVE DeletedIsGone'
    BY <1>1, <1>5, <2>1 DEF DeletedIsGone
  <2>2. CASE Verdict
    <3>1. ASSUME sgone' PROVE DeletedIsGone'
      <4>1. Complete /\ ~sdel.failed /\ sdel.at = "verdict" /\ sref' = {}
            /\ srec' = srec /\ smsg' = smsg /\ srun' = srun /\ scode' = scode
        BY <2>2, <3>1 DEF Verdict
      <4>2. smsg = {} /\ srec = NoSession
        BY <4>1 DEF Complete, DirHolds
      <4>3. RunFacts \subseteq slate /\ ~scode
        BY <4>1 DEF DeletionWorks
      <4>4. smsg' \cup sref' \cup srun' \X {"run"} \subseteq slate'
        BY <1>1, <4>1, <4>2, <4>3 DEF RunFacts
      <4> QED BY <4>1, <4>2, <4>3, <4>4 DEF DeletedIsGone
    <3> QED BY <3>1 DEF DeletedIsGone
  <2>3. CASE sgone' = sgone
    BY <2>1, <2>3 DEF DeletedIsGone
  <2> QED BY <2>2, <2>3
          DEF DeletionStep, ScanRuns, DeleteRuns, DeleteRecord, DeleteMessages,
              DeleteRegistry, DeleteCoding, DeleteJobAndJournal
<1> QED BY <1>3, <1>4, <1>7, <1>9, <1>10

LEMMA OtherGone ==
    ASSUME SrecSafe,
           \/ RetentionLists
           \/ \E by \in {"user", "retention"} : BeginDeletion(by)
           \/ \E status \in {"active", "archived", "deleted"} : UpdateStatus(status)
           \/ RepairReads \/ RepairWrites \/ ChangeCoding
           \/ TakeSnapshot \/ BeginRewind \/ \E m \in Messages : RewindWrites(m)
           \/ SrecRestart
    PROVE  SrecGone'
<1> USE DEF SrecSafe, SrecGone
\* Whoever writes the record, or less, without a tombstone.
<1>1. ASSUME UNCHANGED <<stomb, smsg, sref, srun, spc, sdel, srewind, slate, sgone>>,
             sdir' = sdir \/ sdir' = TRUE,
             stomb => srec' = srec /\ scode' = scode
      PROVE  SrecGone'
  <2>1. Tombstoned' /\ LateKnown' /\ DirHolds'
    BY <1>1 DEF Tombstoned, LateKnown, LateFacts, UnderWay, TurnFacts, DirHolds
  <2>2. DeletionWorks'
    BY <1>1 DEF DeletionWorks, RunFacts, Tombstoned
  <2>3. DeletedIsGone'
    BY <1>1 DEF DeletedIsGone, Tombstoned
  <2> QED BY <2>1, <2>2, <2>3
<1>2. CASE RetentionLists
  BY <1>1, <1>2 DEF RetentionLists, srecDisk, srecHistory
<1>3. ASSUME NEW by \in {"user", "retention"}, BeginDeletion(by)
      PROVE  SrecGone'
  <2>1. sdel'.at = "scan" /\ stomb' /\ ~sgone' /\ slate' = LateFacts
    BY <1>3 DEF BeginDeletion
  <2>2. LateKnown'
    BY <1>3, <2>1 DEF BeginDeletion, LateKnown, LateFacts, UnderWay, TurnFacts
  <2>3. DirHolds'
    BY <1>3 DEF BeginDeletion, DirHolds
  <2> QED BY <2>1, <2>2, <2>3 DEF Tombstoned, DeletionWorks, DeletedIsGone
<1>4. ASSUME NEW status \in {"active", "archived", "deleted"}, UpdateStatus(status)
      PROVE  SrecGone'
  BY <1>1, <1>4 DEF UpdateStatus, Writable, srecActors
<1>5. CASE RepairReads
  BY <1>1, <1>5 DEF RepairReads, srecDisk, srecHistory
<1>6. CASE RepairWrites
  BY <1>1, <1>6 DEF RepairWrites, Writable, srecHistory
<1>7. CASE ChangeCoding
  BY <1>1, <1>7 DEF ChangeCoding, Writable, srecActors, srecHistory
<1>8. CASE TakeSnapshot
  BY <1>1, <1>8 DEF TakeSnapshot, srecActors, srecHistory
<1>9. CASE BeginRewind
  <2>1. /\ UNCHANGED <<stomb, srec, sref, srun, scode, spc, sdel, sgone>>
        /\ slate \subseteq slate' /\ smsg' = {} /\ sdir'
        /\ srewind' = ssnap
        /\ stomb => ssnap \subseteq slate'
    BY <1>9 DEF BeginRewind
  <2>2. LateKnown'
    <3>1. ASSUME stomb PROVE LateFacts' \subseteq slate'
      <4>1. \A u \in SrecTurns : UnderWay(u) => TurnFacts(u) \subseteq slate
        BY <3>1, LateMeans DEF LateKnown
      <4>2. \A u \in SrecTurns : UnderWay(u)' => TurnFacts(u) \subseteq slate'
        BY <2>1, <4>1 DEF UnderWay
      <4> QED BY <2>1, <3>1, <4>2, LateMeansNext
    <3> QED BY <2>1, <3>1 DEF LateKnown
  <2>3. Tombstoned' /\ DirHolds' /\ DeletionWorks'
    BY <2>1 DEF Tombstoned, DirHolds, DeletionWorks, RunFacts
  <2>4. DeletedIsGone'
    BY <2>1 DEF DeletedIsGone
  <2> QED BY <2>2, <2>3, <2>4
<1>10. ASSUME NEW m \in Messages, RewindWrites(m)
      PROVE  SrecGone'
  <2>1. m = <<m[1], m[2]>>
    BY DEF Messages
  <2>2. /\ UNCHANGED <<stomb, srec, srun, scode, spc, sdel, sgone, slate>>
        /\ m \in srewind /\ srewind' \subseteq srewind
        /\ smsg' = smsg \cup {m} /\ sref' = sref \cup {m} /\ sdir'
    BY <1>10, <2>1 DEF RewindWrites, PutMessage, srecHistory
  <2>3. stomb => m \in slate
    BY <2>2, LateMeans DEF LateKnown
  <2>4. LateKnown'
    <3>1. ASSUME stomb PROVE LateFacts' \subseteq slate'
      <4>1. \A u \in SrecTurns : UnderWay(u)' => TurnFacts(u) \subseteq slate'
        BY <2>2, <3>1, LateMeans DEF LateKnown, UnderWay
      <4>2. srewind' \subseteq slate'
        BY <2>2, <3>1, LateMeans DEF LateKnown
      <4> QED BY <4>1, <4>2, LateMeansNext
    <3> QED BY <2>2, <3>1 DEF LateKnown
  <2>5. Tombstoned' /\ DirHolds' /\ DeletionWorks'
    BY <2>2 DEF Tombstoned, DirHolds, DeletionWorks, RunFacts
  <2>6. DeletedIsGone'
    BY <2>2, <2>3 DEF DeletedIsGone, Tombstoned
  <2> QED BY <2>4, <2>5, <2>6
<1>11. CASE SrecRestart
  <2>1. /\ UNCHANGED <<stomb, srec, smsg, sref, sdir, srun, scode, sgone, slate>>
        /\ sdel' = NoDeletion /\ srewind' = {}
        /\ \A u \in SrecTurns : ~UnderWay(u)'
    BY <1>11 DEF SrecRestart, UnderWay
  <2>2. sdel'.at = "off"
    BY <2>1 DEF NoDeletion
  <2>3. LateKnown'
    BY <2>1, LateMeansNext DEF LateKnown
  <2> QED BY <2>1, <2>2, <2>3 DEF Tombstoned, DirHolds, DeletionWorks, DeletedIsGone
<1> QED BY <1>2, <1>3, <1>4, <1>5, <1>6, <1>7, <1>8, <1>9, <1>10, <1>11

LEMMA SrecStepSafe ==
    ASSUME SrecSafe, [SrecNext]_srecVars
    PROVE  SrecSafe'
<1>1. SrecTypes'
  BY SrecStepTypes DEF SrecSafe
<1>2. CASE UNCHANGED srecVars
  BY <1>1, <1>2
  DEF srecVars, srecDisk, srecActors, srecHistory, SrecSafe, SrecGone, Tombstoned, LateKnown,
      LateFacts, UnderWay, TurnFacts, DirHolds, DeletionWorks, RunFacts, DeletedIsGone
<1>3. CASE SrecNext
  BY <1>1, <1>3, TurnGone, DeletionGone, OtherGone DEF SrecNext, SrecSafe
<1> QED BY <1>2, <1>3

\* Once a permanent deletion has said that it succeeded, no record and no coding record
\* of the session is there again, and every message, reference and run record there is
\* was written by a turn or a rewind under way at the tombstone or begun behind it
\* (delete_session_permanently): for any turns, deletions, rewinds and faults.
THEOREM DeletionIsFinal == SrecSpec => []DeletedIsGone
<1>1. SrecInit => SrecSafe
  BY SrecInitTypes
  DEF SrecInit, SrecSafe, SrecGone, Tombstoned, LateKnown, DirHolds, DeletionWorks, NoDeletion,
      DeletedIsGone
<1>2. SrecSafe => DeletedIsGone
  BY DEF SrecSafe, SrecGone
<1> QED BY <1>1, <1>2, SrecStepSafe, PTL DEF SrecSpec

-----------------------------------------------------------------------------
(* The components of MCExtensions together.                                *)

\* What the run of MCExtensions does is a behaviour of the job queue, of the ledger, of a
\* drawing and of the record of a session.
THEOREM ExtensionRunsItsComponents ==
    ExtensionSpec => /\ Spec
                     /\ LedgerSpec
                     /\ DrawSpec
                     /\ SrecSpec
<1>1. ExtensionInit => Init /\ LedgerInit /\ DrawInit /\ SrecInit
  BY DEF ExtensionInit
<1>2. [ExtensionNext]_extensionVars => [Next]_vars
  BY DEF ExtensionNext, ExtensionStep, Rest, extensionVars
<1>3. [ExtensionNext]_extensionVars => [LedgerNext]_ledgerVars
  BY DEF ExtensionNext, ExtensionStep, Rest, extensionVars
<1>4. [ExtensionNext]_extensionVars => [DrawNext]_drawVars
  BY DEF ExtensionNext, ExtensionStep, Rest, extensionVars
<1>5. [ExtensionNext]_extensionVars => [SrecNext]_srecVars
  BY DEF ExtensionNext, ExtensionStep, Rest, extensionVars
<1> QED
  BY <1>1, <1>2, <1>3, <1>4, <1>5, PTL
  DEF ExtensionSpec, Spec, LedgerSpec, DrawSpec, SrecSpec

\* Types of the one that moves.
THEOREM ExtensionTypes == ExtensionSpec => []ExtensionTypeOK
<1>1. component \in Components /\ TypeOK /\ LedgerTypeOK /\ DrawTypeOK /\ SrecTypes /\ SrecTypeOK
         => ExtensionTypeOK
  BY Zenon DEF ExtensionTypeOK, Components
<1>2. ExtensionInit => component \in Components
  BY DEF ExtensionInit
<1>3. component \in Components /\ [ExtensionNext]_extensionVars => (component \in Components)'
  BY DEF ExtensionNext, ExtensionStep, Rest, extensionVars
<1>4. ExtensionSpec => [](component \in Components)
  BY <1>2, <1>3, PTL DEF ExtensionSpec
<1> QED
  BY <1>1, <1>4, ExtensionRunsItsComponents, TypeCorrect, LedgerTypeCorrect, DrawTypeCorrect, SessionRecordTypeCorrect, PTL
=============================================================================
