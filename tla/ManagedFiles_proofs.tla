------------------------ MODULE ManagedFiles_proofs ------------------------
(***************************************************************************)
(* Proofs about the managed files of a workspace, for every number of      *)
(* paths, contents, writes, removals and faults: the types, and that the   *)
(* bytes somebody refers to are kept.                                      *)
(***************************************************************************)
EXTENDS ManagedFiles, SequenceTheorems, WellFoundedInduction, TLAPS

-----------------------------------------------------------------------------
(* The bookkeeping of one path: its records in the order in which governed *)
(* writes gave them their bytes.                                           *)

Recorded(f) == frec[f] # NoRecord

\* The record whose path is the path itself, or the one a settlement has still to make.
Heading(f) ==
    \/ Recorded(f) /\ frec[f].ver = 0
    \/ /\ ~Recorded(f) /\ f[2] # 0
       /\ \E g \in FileIds : g[1] = f[1] /\ frec[g].ver = f[2]

OneHead == \A f, g \in FileIds : f[1] = g[1] /\ Heading(f) /\ Heading(g) => f = g

OneOwner ==
    \A f, g \in FileIds : f[1] = g[1] /\ frec[f].ver # 0 /\ frec[f].ver = frec[g].ver => f = g

RootFirst == \A f \in FileIds : Recorded(f) => Recorded(<<f[1], 0>>)

RecordShape ==
    \A f \in FileIds : /\ Recorded(f) => frec[f].life # "none"
                       /\ frec[f].ver # 0 \/ frec[f].life = "active" => frec[f].trash = 0
                       /\ frec[f].ver <= fwrites

\* A record that is about to be indexed belongs there.
Awaited(f) == Recorded(f) \/ f[2] = 0 \/ Heading(f)

Commits ==
    /\ \A f \in FileIds : fcommit[f] # NoBytes => Awaited(f)
    /\ \A f \in ftodo.commits : Awaited(f)

-----------------------------------------------------------------------------
(* Items, intents and what is left to do.                                  *)

ItemOK(i) ==
    /\ i \in FileItems
    /\ i.before # NoBytes /\ i.rec.life = "active" /\ i.rec.ver = 0 /\ i.rec.trash = 0
    /\ i.ver => i.rec.sha = i.before
    /\ Recorded(i.f)

OnePerPath(items) == \A i, j \in items : i.f[1] = j.f[1] => i = j

Intents ==
    \A m \in 1..MaxWrites :
       /\ OnePerPath(fintent[m])
       /\ \A i \in fintent[m] :
             /\ ItemOK(i) /\ m <= fwrites
             /\ \A g \in FileIds : g[1] = i.f[1] /\ frec[g].ver = m => g = i.f

Preparing ==
    ftodo.log =>
       /\ ftodo.m = fwrites /\ ftodo.m # 0 /\ fintent[ftodo.m] = {}
       /\ \A f \in FileIds : frec[f].ver # ftodo.m
       /\ ftodo.copies \subseteq ftodo.items
       /\ OnePerPath(ftodo.items) /\ \A i \in ftodo.items : ItemOK(i)

Todo ==
    /\ ftodo.m = 0 => ~ftodo.log /\ ftodo.items = {}
    /\ ~ftodo.log => ftodo.copies = {} /\ (ftodo.m # 0 => ftodo.items \subseteq fintent[ftodo.m])
    /\ (ftodo.log \/ ftodo.puts # {}) => ftodo.step = NoStep /\ ftodo.commits = {}
    /\ ftodo.puts # {} /\ ~ftodo.log /\ ftodo.m # 0 => ftodo.items = fintent[ftodo.m]
    /\ ftodo.commits # {} => ftodo.m = 0

\* A deletion that was checked is of a file that has a record.
Deleting == fdelete # NoDelete => Recorded(fdelete[1])

SettleKinds == {"unversion", "history", "commit", "index", "uncommit", "sha", "purge"}

StepOK(s) ==
    /\ ftodo.m # 0 => s.k \in SettleKinds
    /\ s.k = "write" => s.f[2] = 0
    /\ s.k \in {"commit", "index", "uncommit"} => Awaited(s.f)
    /\ IF s.k \in {"write", "commit", "index"} THEN ~Recorded(s.f) ELSE Recorded(s.f)
    /\ s.k \in {"history", "unversion"} =>
          /\ ftodo.m # 0 /\ s.n = ftodo.m
          /\ \E i \in fintent[ftodo.m] \ ftodo.items : i.f = s.f /\ i.ver
    /\ s.k = "history" =>
          /\ frec[s.f].ver = 0 /\ frec[s.f].trash = 0
          /\ s.bytes = frec[s.f].sha /\ s.bytes = fver[<<s.f[1], s.n>>]
    /\ s.k = "unversion" => \A g \in FileIds : g[1] = s.f[1] => frec[g].ver # s.n
    /\ s.k \in {"trash", "trashPath"} \/ (s.k = "soft" /\ s.n > 0) => frec[s.f].ver = 0
    /\ s.k = "trashPath" => frec[s.f].life # "active"
    /\ s.k = "untrash" => /\ frec[s.f].life = "soft" /\ frec[s.f].trash > 0 /\ frec[s.f].ver = 0
                          /\ InTrash(s.f) = frec[s.f].sha
    /\ s.k = "active" => frec[s.f].life = "soft"

Steps == ftodo.step # NoStep => StepOK(ftodo.step)

-----------------------------------------------------------------------------
(* Claims: the bytes that the owners of a file saw.                        *)

Claimed(f) == fkept[f] # NoBytes
Binned(f) == fkept[f] \in Range(ftrash[f[1]])

\* The version of a write that is not settled has them.
Versioned(f) ==
    \E m \in 1..MaxWrites : \E i \in fintent[m] :
       i.f = f /\ i.ver /\ i.rec = frec[f] /\ fver[<<f[1], m>>] = fkept[f]

\* The write under way copies them before it writes its intent.
Copied(f) ==
    ftodo.log /\ \E i \in ftodo.items :
       /\ i.f = f /\ i.ver /\ i.rec = frec[f]
       /\ i \in ftodo.copies \/ fver[<<f[1], ftodo.m>>] = fkept[f]

Safe(f) ==
    IF frec[f].ver # 0 THEN fver[<<f[1], frec[f].ver>>] = fkept[f]
    ELSE fpath[f[1]] = fkept[f] \/ Binned(f) \/ Versioned(f)

Untouched(f) ==
    /\ f \in fref /\ frec[f].life \in {"active", "soft"} /\ frec[f].sha = fkept[f]
    /\ fdelete # NoDelete => fdelete[1] # f
    /\ ftodo.step # NoStep /\ ftodo.step.k \in {"unlink", "purge", "sha"} => ftodo.step.f # f
    /\ ~UnsettledWrite(f) /\ \A i \in ftodo.items : i.f = f => i.ver

\* The bytes outlive what is about to be done.
Outlives(f) ==
    /\ frec[f].life = "active" /\ frec[f].ver = 0 =>
          /\ (\E w \in ftodo.puts : w[1] = f[1]) => Binned(f) \/ Versioned(f) \/ Copied(f)
          /\ ftodo.m # 0 /\ ~ftodo.log =>
                \A i \in fintent[ftodo.m] \ ftodo.items :
                   i.f = f => \/ fpath[f[1]] = fkept[f]
                              \/ ftodo.step # NoStep /\ ftodo.step.k = "history" /\ ftodo.step.f = f
    /\ ftodo.step # NoStep /\ ftodo.step.k = "active" /\ ftodo.step.f = f => Resolved(f) = fkept[f]

Claims ==
    \A f \in FileIds : Claimed(f) => /\ Untouched(f) /\ Outlives(f)
                                     /\ frec[f].life = "active" => Safe(f)

Chain == OneHead /\ OneOwner /\ RootFirst /\ RecordShape

FilesInv ==
    /\ FileTypeOK /\ Chain /\ Commits /\ Intents /\ Preparing /\ Todo /\ Deleting /\ Steps
    /\ Claims

-----------------------------------------------------------------------------
(* Types.                                                                  *)

\* What a file id is made of.
LEMMA FileIdParts ==
    ASSUME NEW f \in FileIds
    PROVE  /\ f[1] \in FilePaths /\ f[2] \in 0..MaxWrites /\ f = <<f[1], f[2]>>
           /\ \A m \in 0..MaxWrites : <<f[1], m>> \in FileIds
           /\ <<f[1], 0>> \in FileIds
  <1>1. MaxWrites \in Nat
    BY FileAssumption
  <1> QED
    BY <1>1, SMT DEF FileIds

\* A step on a file is a step.
LEMMA StepMade ==
    ASSUME NEW k \in {"write", "commit", "index", "uncommit", "sha", "history", "purge",
                      "unversion", "unlink", "soft", "trash", "trashPath", "untrash", "active"},
           NEW f \in FileIds, NEW bytes \in Bytes, NEW n \in Nat
    PROVE  /\ FileStep(k, f, bytes, n) \in FileSteps /\ FileStep(k, f, bytes, n) # NoStep
           /\ FileStep(k, f, bytes, n).k = k /\ FileStep(k, f, bytes, n).f = f
           /\ FileStep(k, f, bytes, n).bytes = bytes /\ FileStep(k, f, bytes, n).n = n
  BY SMT DEF FileStep, FileSteps, NoStep

\* What a step is made of.
LEMMA StepParts ==
    ASSUME FileTypeOK, ftodo.step # NoStep
    PROVE  /\ ftodo.step \in FileSteps
           /\ ftodo.step.k \in {"write", "commit", "index", "uncommit", "sha", "history", "purge",
                    "unversion", "unlink", "soft", "trash", "trashPath", "untrash", "active"}
           /\ ftodo.step.f \in FileIds /\ ftodo.step.bytes \in Bytes /\ ftodo.step.n \in Nat
           /\ ftodo.step.f[1] \in FilePaths
  <1>1. ftodo.step \in FileSteps
    BY SMT DEF FileTypeOK, FileTodos
  <1>2. ftodo.step.f \in FileIds /\ ftodo.step.bytes \in Bytes /\ ftodo.step.n \in Nat
    BY <1>1, SMT DEF FileSteps
  <1>3. ftodo.step.f[1] \in FilePaths
    BY <1>2, FileIdParts
  <1>4. ftodo.step.k \in {"write", "commit", "index", "uncommit", "sha", "history", "purge",
                    "unversion", "unlink", "soft", "trash", "trashPath", "untrash", "active"}
    BY <1>1, SMT DEF FileSteps
  <1> QED
    BY <1>1, <1>2, <1>3, <1>4

LEMMA TodoParts ==
    ASSUME FileTypeOK
    PROVE  /\ ftodo.step \in FileSteps \cup {NoStep} /\ ftodo.m \in 0..MaxWrites
           /\ ftodo.log \in BOOLEAN
           /\ ftodo.copies \subseteq FileItems /\ ftodo.puts \subseteq FilePaths \X Bytes
           /\ ftodo.items \subseteq FileItems /\ ftodo.commits \subseteq FileIds
           /\ ftodo.intents \subseteq 1..MaxWrites
           /\ MaxWrites \in Nat /\ fwrites \in Nat /\ ftodo.m \in Nat
  <1>1. MaxWrites \in Nat
    BY FileAssumption
  <1>2. ftodo \in FileTodos /\ fwrites \in 0..MaxWrites
    BY DEF FileTypeOK
  <1>3. ftodo.log \in BOOLEAN
    BY <1>2, Zenon DEF FileTodos
  <1> QED
    BY <1>1, <1>2, <1>3, SMT DEF FileTodos

\* The types of the disk.
LEMMA DiskParts ==
    ASSUME FileTypeOK
    PROVE  /\ fpath \in [FilePaths -> Bytes] /\ fver \in [FileIds -> Bytes]
           /\ fcommit \in [FileIds -> Bytes] /\ fkept \in [FileIds -> Bytes]
           /\ ftrash \in [FilePaths -> Seq(Bytes)] /\ frec \in [FileIds -> FileRecords]
           /\ fintent \in [1..MaxWrites -> SUBSET FileItems] /\ NoBytes \in Bytes
           /\ fref \subseteq FileIds
  BY DEF FileTypeOK, Bytes

LEMMA RecordParts ==
    ASSUME NEW r \in FileRecords
    PROVE  /\ r.life \in {"none", "active", "soft", "purged"} /\ r.ver \in 0..MaxWrites
           /\ r.trash \in Nat /\ r.sha \in Bytes /\ r.ver \in Nat
  <1>1. MaxWrites \in Nat
    BY FileAssumption
  <1> QED
    BY <1>1, SMT DEF FileRecords

LEMMA ItemParts ==
    ASSUME NEW i \in FileItems
    PROVE  /\ i.f \in FileIds /\ i.rec \in FileRecords /\ i.before \in Bytes
           /\ i.ver \in BOOLEAN /\ i.f[1] \in FilePaths
  <1>1. i.ver \in BOOLEAN
    BY Zenon DEF FileItems
  <1>2. i.f \in FileIds /\ i.rec \in FileRecords /\ i.before \in Bytes
    BY SMT DEF FileItems
  <1> QED
    BY <1>1, <1>2, FileIdParts

\* The initial state has its types.
LEMMA FileTypeInit == FileInit => FileTypeOK
  <1> SUFFICES ASSUME FileInit PROVE FileTypeOK
    OBVIOUS
  <1>1. MaxWrites \in Nat /\ MaxRemovals \in Nat /\ MaxFileFaults \in Nat
    BY FileAssumption
  <1>2. NoRecord \in FileRecords
    BY <1>1, SMT DEF NoRecord, FileRecords, Bytes
  <1>3. Idle \in FileTodos
    BY <1>1, SMT DEF Idle, FileTodos
  <1>4. ftrash \in [FilePaths -> Seq(Bytes)]
    BY EmptySeq, Zenon DEF FileInit
  <1>5. frec \in [FileIds -> FileRecords]
    BY <1>2, Zenon DEF FileInit
  <1>6. {fver, fcommit, fkept} \subseteq [FileIds -> Bytes] /\ fpath \in [FilePaths -> Bytes]
    BY SMT DEF FileInit, Bytes
  <1>7. fintent \in [1..MaxWrites -> SUBSET FileItems] /\ fref \subseteq FileIds
    BY SMT DEF FileInit
  <1>8. fwrites \in 0..MaxWrites /\ fremovals \in 0..MaxRemovals /\ ffaults \in 0..MaxFileFaults
    BY <1>1, SMT DEF FileInit
  <1>9. ftodo \in FileTodos /\ fdelete \in (FileIds \X BOOLEAN) \cup {NoDelete}
    BY <1>3, Zenon DEF FileInit
  <1> QED
    BY <1>4, <1>5, <1>6, <1>7, <1>8, <1>9 DEF FileTypeOK

\* What an operation that begins has to do, has its type.
LEMMA TodoMade ==
    ASSUME FileTypeOK
    PROVE  /\ Idle \in FileTodos
           /\ \A step \in FileSteps \cup {NoStep} : [Idle EXCEPT !.step = step] \in FileTodos
           /\ \A step \in FileSteps \cup {NoStep} : [ftodo EXCEPT !.step = step] \in FileTodos
           /\ \A x : [ftodo EXCEPT !.copies = @ \ {x}] \in FileTodos
           /\ [ftodo EXCEPT !.log = FALSE] \in FileTodos
           /\ \A x : [ftodo EXCEPT !.puts = @ \ {x}] \in FileTodos
           /\ [ftodo EXCEPT !.puts = {}] \in FileTodos
           /\ [ftodo EXCEPT !.m = 0] \in FileTodos
           /\ Raised \in FileTodos
  <1>1. ftodo \in FileTodos /\ MaxWrites \in Nat
    BY FileAssumption DEF FileTypeOK
  <1>2. Idle \in FileTodos
    BY <1>1, SMT DEF Idle, FileTodos
  <1>3. \A step \in FileSteps \cup {NoStep} : /\ [Idle EXCEPT !.step = step] \in FileTodos
                                             /\ [ftodo EXCEPT !.step = step] \in FileTodos
    BY <1>1, <1>2, Zenon DEF FileTodos
  <1>4. \A x : ftodo.copies \ {x} \subseteq FileItems /\ ftodo.puts \ {x} \subseteq FilePaths \X Bytes
    BY TodoParts
  <1>5. \A x : [ftodo EXCEPT !.copies = @ \ {x}] \in FileTodos
    BY <1>1, <1>4, SMT DEF FileTodos
  <1>6. \A x : [ftodo EXCEPT !.puts = @ \ {x}] \in FileTodos
    BY <1>1, <1>4, SMT DEF FileTodos
  <1>7. \A log \in BOOLEAN : [ftodo EXCEPT !.log = log] \in FileTodos
    BY <1>1, Zenon DEF FileTodos
  <1>8. \A set \in SUBSET (FilePaths \X Bytes) : [ftodo EXCEPT !.puts = set] \in FileTodos
    BY <1>1, Zenon DEF FileTodos
  <1>a. {} \in SUBSET (FilePaths \X Bytes) /\ {} \in SUBSET FileItems /\ 0 \in 0..MaxWrites
    BY <1>1, SMT
  <1>b. \A m \in 0..MaxWrites : [ftodo EXCEPT !.m = m] \in FileTodos
    BY <1>1, Zenon DEF FileTodos
  <1>9. \A step \in FileSteps \cup {NoStep}, m \in 0..MaxWrites, set \in SUBSET FileItems :
           [ftodo EXCEPT !.step = step, !.m = m, !.items = set] \in FileTodos
    BY <1>1, Zenon DEF FileTodos
  <1>c. Raised \in FileTodos
    BY <1>9, <1>a, Zenon DEF Raised
  <1> QED
    BY <1>2, <1>3, <1>5, <1>6, <1>7, <1>8, <1>a, <1>b, <1>c

\* The step that makes the current record of a path.
LEMMA CurrentStepType ==
    ASSUME FileTypeOK, NEW p \in FilePaths, NEW m \in 0..MaxWrites
    PROVE  CurrentStep(p, m) \in FileSteps \cup {NoStep}
  <1>1. <<p, m>> \in FileIds /\ fpath[p] \in Bytes
    BY DiskParts DEF FileIds
  <1>2. FileStep("commit", <<p, m>>, fpath[p], 0) \in FileSteps
    BY <1>1, StepMade, SMT
  <1> QED
    BY <1>2 DEF CurrentStep

LEMMA SettleStepType ==
    ASSUME FileTypeOK, NEW i \in FileItems, NEW m \in 0..MaxWrites
    PROVE  SettleStep(i, m) \in FileSteps \cup {NoStep}
  <1>1. i.f \in FileIds /\ i.before \in Bytes /\ fpath[i.f[1]] \in Bytes /\ m \in Nat /\ NoBytes \in Bytes
    BY ItemParts, DiskParts, TodoParts, SMT
  <1>2. CurrentStep(i.f[1], m) \in FileSteps \cup {NoStep}
    BY ItemParts, CurrentStepType
  <1>3. /\ FileStep("unversion", i.f, NoBytes, m) \in FileSteps
        /\ FileStep("history", i.f, i.before, m) \in FileSteps
    BY <1>1, StepMade, SMT
  <1>4. /\ FileStep("purge", i.f, NoBytes, 0) \in FileSteps
        /\ FileStep("sha", i.f, fpath[i.f[1]], 0) \in FileSteps
    BY <1>1, StepMade, SMT
  <1> QED
    BY <1>2, <1>3, <1>4, Zenon DEF SettleStep

LEMMA FollowsType ==
    ASSUME FileTypeOK, Steps, ftodo.step # NoStep
    PROVE  Follows(ftodo.step) \in FileSteps \cup {NoStep}
  <1> DEFINE s == ftodo.step
  <1>1. s.f \in FileIds /\ s.bytes \in Bytes /\ s.n \in Nat /\ NoBytes \in Bytes /\ s.f[1] \in FilePaths
    BY StepParts, DiskParts
  <1>2. s.k = "history" => s.n \in 0..MaxWrites
    BY TodoParts DEF Steps, StepOK
  <1>3. s.k = "history" => CurrentStep(s.f[1], s.n) \in FileSteps \cup {NoStep}
    BY <1>1, <1>2, CurrentStepType
  <1>4. /\ FileStep("commit", s.f, s.bytes, 0) \in FileSteps
        /\ FileStep("index", s.f, s.bytes, 0) \in FileSteps
        /\ FileStep("uncommit", s.f, NoBytes, 0) \in FileSteps
    BY <1>1, StepMade, SMT
  <1>5. /\ FileStep("soft", s.f, NoBytes, s.n) \in FileSteps
        /\ FileStep("trashPath", s.f, NoBytes, s.n) \in FileSteps
    BY <1>1, StepMade, SMT
  <1>6. /\ FileStep("active", s.f, NoBytes, 0) \in FileSteps
        /\ FileStep("purge", s.f, NoBytes, 0) \in FileSteps
    BY <1>1, StepMade, SMT
  <1> HIDE DEF s
  <1>7. Follows(s) \in FileSteps \cup {NoStep}
    BY <1>3, <1>4, <1>5, <1>6, SMT DEF Follows
  <1> QED
    BY <1>7 DEF s

LEMMA UpdatedType ==
    ASSUME FileTypeOK, Steps, ftodo.step # NoStep,
           ftodo.step.k \in {"index", "sha", "history", "purge", "soft", "trashPath", "active"}
    PROVE  Updated(ftodo.step) \in FileRecords
  <1> DEFINE s == ftodo.step
             r == frec[s.f]
  <1>1. s.f \in FileIds /\ s.bytes \in Bytes /\ s.n \in Nat
    BY StepParts
  <1>2. r \in FileRecords /\ MaxWrites \in Nat
    BY <1>1, DiskParts, TodoParts
  <1>3. s.k = "history" => s.n \in 0..MaxWrites
    BY TodoParts DEF Steps, StepOK
  <1>4. ActiveRecord(s.bytes) \in FileRecords
    BY <1>1, <1>2, SMT DEF ActiveRecord, FileRecords
  <1>5. [r EXCEPT !.sha = s.bytes] \in FileRecords /\ [r EXCEPT !.life = "purged"] \in FileRecords
        /\ [r EXCEPT !.life = "soft"] \in FileRecords
    BY <1>1, <1>2, SMT DEF FileRecords
  <1>6. [r EXCEPT !.trash = s.n] \in FileRecords
    BY <1>1, <1>2, SMT DEF FileRecords
  <1>a. \A life \in {"none", "active", "soft", "purged"}, n \in Nat :
           [r EXCEPT !.life = life, !.trash = n] \in FileRecords
    BY <1>2, Zenon DEF FileRecords
  <1>d. "active" \in {"none", "active", "soft", "purged"} /\ 0 \in Nat
    OBVIOUS
  <1>b. [r EXCEPT !.life = "active", !.trash = 0] \in FileRecords
    BY <1>a, <1>d, Zenon
  <1>c. \A v \in 0..MaxWrites, sha \in Bytes : [r EXCEPT !.ver = v, !.sha = sha] \in FileRecords
    BY <1>2, Zenon DEF FileRecords
  <1>7. s.k = "history" => [r EXCEPT !.ver = s.n, !.sha = s.bytes] \in FileRecords
    BY <1>1, <1>3, <1>c, Zenon
  <1>8. s.k \in {"index", "sha", "history", "purge", "soft", "trashPath", "active"}
    OBVIOUS
  <1> HIDE DEF s
  <1>9. Updated(s) \in FileRecords
    BY <1>2, <1>4, <1>5, <1>6, <1>b, <1>7, <1>8, SMT DEF Updated
  <1> QED
    BY <1>9 DEF s

\* The trash has a first free name.
LEMMA TrashSlotFree ==
    ASSUME NEW seq \in Seq(Bytes)
    PROVE  /\ TrashSlot(seq) \in 1..(Len(seq) + 1)
           /\ TrashSlot(seq) <= Len(seq) => seq[TrashSlot(seq)] = NoBytes
  <1> DEFINE Free == {k \in 1..(Len(seq) + 1) : k <= Len(seq) => seq[k] = NoBytes}
  <1>1. Len(seq) \in Nat
    OBVIOUS
  <1>2. Free \subseteq Nat /\ Free # {}
    <2>1. Len(seq) + 1 \in Free
      BY <1>1
    <2> QED
      BY <1>1, <2>1
  <1>3. PICK n \in Free : \A m \in Free : ~(<<m, n>> \in OpToRel(<, Nat))
    BY <1>2, NatLessThanWellFounded, WFMin
  <1>4. \A m \in Free : ~(m < n)
    BY <1>2, <1>3 DEF OpToRel
  <1>5. \A j \in 1..(n - 1) : seq[j] # NoBytes
    <2>1. SUFFICES ASSUME NEW j \in 1..(n - 1), seq[j] = NoBytes PROVE FALSE
      OBVIOUS
    <2>2. n \in 1..(Len(seq) + 1)
      OBVIOUS
    <2>3. j \in 1..(Len(seq) + 1) /\ j < n
      BY <1>1, <2>2
    <2>4. j \in Free
      BY <2>1, <2>3
    <2> QED
      BY <1>4, <2>3, <2>4
  <1>6. \E k \in 1..(Len(seq) + 1) : /\ k <= Len(seq) => seq[k] = NoBytes
                                     /\ \A j \in 1..(k - 1) : seq[j] # NoBytes
    BY <1>5
  <1> QED
    BY <1>6, Zenon DEF TrashSlot

LEMMA TrashSlotType ==
    ASSUME NEW seq \in Seq(Bytes)
    PROVE  TrashSlot(seq) \in Nat
  <1>1. TrashSlot(seq) \in 1..(Len(seq) + 1) /\ Len(seq) \in Nat
    BY TrashSlotFree
  <1> HIDE DEF TrashSlot
  <1> QED
    BY <1>1

\* A sequence that is overwritten at one place, wherever that is.
LEMMA Overwritten ==
    ASSUME NEW S, NEW seq \in Seq(S), NEW k, NEW e \in S
    PROVE  [seq EXCEPT ![k] = e] \in Seq(S)
  <1>1. CASE k \in 1..Len(seq)
    BY <1>1, ExceptSeq, Zenon
  <1>2. CASE k \notin 1..Len(seq)
    <2>1. DOMAIN seq = 1..Len(seq) /\ seq = [j \in DOMAIN seq |-> seq[j]]
      OBVIOUS
    <2>2. [seq EXCEPT ![k] = e] = seq
      BY <2>1, <1>2
    <2> QED
      BY <2>2
  <1> QED
    BY <1>1, <1>2

\* A free name of the trash is taken.
LEMMA TrashedType ==
    ASSUME NEW seq \in Seq(Bytes), NEW bytes \in Bytes
    PROVE  Trashed(seq, bytes) \in Seq(Bytes)
  <1>1. Append(seq, bytes) \in Seq(Bytes)
    OBVIOUS
  <1>2. [seq EXCEPT ![TrashSlot(seq)] = bytes] \in Seq(Bytes)
    BY Overwritten, Zenon
  <1> QED
    BY <1>1, <1>2 DEF Trashed

\* A step on a file keeps the types of the disk.
LEMMA MovedType ==
    ASSUME FileTypeOK, Steps, ftodo.step # NoStep, Moved(ftodo.step)
    PROVE  /\ fpath' \in [FilePaths -> Bytes] /\ fver' \in [FileIds -> Bytes]
           /\ fcommit' \in [FileIds -> Bytes] /\ ftrash' \in [FilePaths -> Seq(Bytes)]
           /\ frec' \in [FileIds -> FileRecords]
  <1> DEFINE s == ftodo.step
             p == s.f[1]
  <1>1. s.f \in FileIds /\ p \in FilePaths /\ s.bytes \in Bytes /\ NoBytes \in Bytes
    BY StepParts, DiskParts
  <1>2. /\ fpath \in [FilePaths -> Bytes] /\ fver \in [FileIds -> Bytes]
        /\ fcommit \in [FileIds -> Bytes] /\ ftrash \in [FilePaths -> Seq(Bytes)]
        /\ frec \in [FileIds -> FileRecords]
    BY DiskParts
  <1>3. CASE s.k = "write"
    BY <1>1, <1>2, <1>3 DEF Moved
  <1>4. CASE s.k \in {"commit", "uncommit"}
    <2>1. (IF s.k = "commit" THEN s.bytes ELSE NoBytes) \in Bytes
      BY <1>1
    <2> QED
      BY <1>1, <1>2, <1>4, <2>1 DEF Moved
  <1>5. CASE s.k \in {"index", "sha", "history", "purge", "soft", "trashPath", "active"}
    <2>1. Updated(s) \in FileRecords
      BY <1>5, UpdatedType
    <2>2. frec' = [frec EXCEPT ![s.f] = Updated(s)] /\ UNCHANGED <<fpath, fver, ftrash, fcommit>>
      BY <1>5 DEF Moved
    <2> HIDE DEF s
    <2> QED
      BY <1>1, <1>2, <2>1, <2>2
  <1>6. CASE s.k = "unversion"
    BY <1>1, <1>2, <1>6 DEF Moved
  <1>7. \A k : [ftrash[p] EXCEPT ![k] = NoBytes] \in Seq(Bytes)
    <2>1. ftrash[p] \in Seq(Bytes)
      BY <1>1, <1>2
    <2> QED
      BY <2>1, <1>1, Overwritten, Zenon
  <1>8. CASE s.k = "unlink"
    <2>1. UNCHANGED <<frec, fcommit>>
      BY <1>8 DEF Moved
    <2>2. ftrash' = ftrash \/ ftrash' = [ftrash EXCEPT ![p] = [ftrash[p] EXCEPT ![frec[s.f].trash] = NoBytes]]
      BY <1>1, <1>2, <1>8 DEF Moved
    <2>7. [ftrash[p] EXCEPT ![frec[s.f].trash] = NoBytes] \in Seq(Bytes)
      BY <1>7, Zenon
    <2>3. ftrash' \in [FilePaths -> Seq(Bytes)]
      BY <1>1, <1>2, <2>7, <2>2, Zenon
    <2>4. fpath' = fpath \/ fpath' = [fpath EXCEPT ![p] = NoBytes]
      BY <1>8 DEF Moved
    <2>5. \E v : fver' = fver \/ fver' = [fver EXCEPT ![v] = NoBytes]
      BY <1>8 DEF Moved
    <2>6. fver' \in [FileIds -> Bytes] /\ fpath' \in [FilePaths -> Bytes]
      BY <1>1, <1>2, <2>4, <2>5
    <2> QED
      BY <1>2, <2>1, <2>3, <2>6
  <1>9. CASE s.k = "trash"
    <2>1. ftrash' = [ftrash EXCEPT ![p] = Trashed(ftrash[p], fpath[p])]
          /\ fpath' = [fpath EXCEPT ![p] = NoBytes] /\ UNCHANGED <<fver, frec, fcommit>>
      BY <1>1, <1>2, <1>9 DEF Moved
    <2>2. Trashed(ftrash[p], fpath[p]) \in Seq(Bytes)
      <3>1. ftrash[p] \in Seq(Bytes) /\ fpath[p] \in Bytes
        BY <1>1, <1>2
      <3> QED
        BY <3>1, TrashedType
    <2> QED
      BY <1>1, <1>2, <2>1, <2>2
  <1>a. CASE s.k = "untrash"
    <2>1. InTrash(s.f) = frec[s.f].sha
      BY <1>a DEF Steps, StepOK
    <2>2. InTrash(s.f) \in Bytes
      BY <1>1, <1>2, <2>1, RecordParts
    <2>3. ftrash' = [ftrash EXCEPT ![p] = [ftrash[p] EXCEPT ![frec[s.f].trash] = NoBytes]]
          /\ fpath' = [fpath EXCEPT ![p] = InTrash(s.f)] /\ UNCHANGED <<fver, frec, fcommit>>
      BY <1>1, <1>2, <1>a DEF Moved
    <2> QED
      BY <1>1, <1>2, <1>7, <2>2, <2>3
  <1> QED
    BY <1>3, <1>4, <1>5, <1>6, <1>8, <1>9, <1>a DEF Moved

\* What a governed write has to do.
LEMMA WriteType ==
    ASSUME FileTypeOK, NEW scope \in SUBSET FilePaths, NEW after \in [scope -> Bytes],
           GovernedWrite(scope, after)
    PROVE  ftodo' \in FileTodos /\ fwrites' \in 0..MaxWrites
  <1> DEFINE m == fwrites + 1
             items == {[f |-> f, rec |-> frec[f], before |-> fpath[f[1]], ver |-> f \in fref] :
                          f \in Governed(scope)}
  <1>1. fwrites < MaxWrites /\ fwrites' = m
    BY DEF GovernedWrite
  <1>2. MaxWrites \in Nat /\ fwrites \in Nat
    BY TodoParts
  <1>3. m \in 0..MaxWrites /\ 0 \in 0..MaxWrites
    BY <1>1, <1>2
  <1>4. ASSUME NEW f \in Governed(scope)
        PROVE  [f |-> f, rec |-> frec[f], before |-> fpath[f[1]], ver |-> f \in fref] \in FileItems
    <2>1. f \in FileIds
      BY DEF Governed
    <2>2. frec[f] \in FileRecords /\ fpath[f[1]] \in Bytes
      BY <2>1, FileIdParts, DiskParts
    <2>3. (f \in fref) \in BOOLEAN
      OBVIOUS
    <2> QED
      BY <2>1, <2>2, <2>3, Zenon DEF FileItems
  <1>5. items \in SUBSET FileItems
    BY <1>4
  <1>6. {<<p, after[p]>> : p \in scope} \in SUBSET (FilePaths \X Bytes)
    OBVIOUS
  <1>7. {i \in items : i.ver} \in SUBSET FileItems
    BY <1>5
  <1>8. (items # {}) \in BOOLEAN /\ (IF items = {} THEN 0 ELSE m) \in 0..MaxWrites
    BY <1>3
  <1>9. ftodo' = [Idle EXCEPT !.m = IF items = {} THEN 0 ELSE m,
                    !.copies = {i \in items : i.ver}, !.log = items # {},
                    !.puts = {<<p, after[p]>> : p \in scope}, !.items = items]
    BY DEF GovernedWrite, FileBegin
  <1> HIDE DEF m, items
  <1>c. Idle \in FileTodos
    BY TodoMade
  <1>a. \A n \in 0..MaxWrites, c \in SUBSET FileItems, log \in BOOLEAN,
           puts \in SUBSET (FilePaths \X Bytes), is \in SUBSET FileItems :
           [Idle EXCEPT !.m = n, !.copies = c, !.log = log, !.puts = puts, !.items = is] \in FileTodos
    BY <1>c, Zenon DEF FileTodos
  <1>b. ftodo' \in FileTodos
    BY <1>5, <1>6, <1>7, <1>8, <1>9, <1>a, Zenon
  <1> QED
    BY <1>1, <1>3, <1>b

\* What a reconciliation has to do, and what it takes from it.
LEMMA ReconcileType ==
    ASSUME FileTypeOK
    PROVE  /\ ReconcileFiles => ftodo' \in FileTodos
           /\ AdoptCommit => ftodo' \in FileTodos
           /\ ReopenIntent => ftodo' \in FileTodos
           /\ SettleItem => ftodo' \in FileTodos
  <1>1. ftodo \in FileTodos /\ Idle \in FileTodos
    BY TodoMade DEF FileTypeOK
  <1>2. \A c \in SUBSET FileIds, is \in SUBSET (1..MaxWrites) :
           [Idle EXCEPT !.commits = c, !.intents = is] \in FileTodos
    BY <1>1, Zenon DEF FileTodos
  <1>3. \A c \in SUBSET FileIds, step \in FileSteps \cup {NoStep} :
           [ftodo EXCEPT !.commits = c, !.step = step] \in FileTodos
    BY <1>1, Zenon DEF FileTodos
  <1>4. \A m \in 0..MaxWrites, is \in SUBSET FileItems, ms \in SUBSET (1..MaxWrites) :
           [ftodo EXCEPT !.m = m, !.items = is, !.intents = ms] \in FileTodos
    BY <1>1, Zenon DEF FileTodos
  <1>5. \A is \in SUBSET FileItems, step \in FileSteps \cup {NoStep} :
           [ftodo EXCEPT !.items = is, !.step = step] \in FileTodos
    BY <1>1, Zenon DEF FileTodos
  <1>6. ASSUME ReconcileFiles PROVE ftodo' \in FileTodos
    BY <1>2, <1>6 DEF ReconcileFiles, FileBegin
  <1>7. ASSUME AdoptCommit PROVE ftodo' \in FileTodos
    <2>1. PICK f \in ftodo.commits :
             ftodo' = [ftodo EXCEPT !.commits = @ \ {f},
                         !.step = IF fpath[f[1]] # fcommit[f] THEN NoStep
                                  ELSE IF frec[f] = NoRecord THEN FileStep("index", f, fcommit[f], 0)
                                  ELSE FileStep("uncommit", f, NoBytes, 0)]
      BY <1>7 DEF AdoptCommit
    <2>2. f \in FileIds /\ fcommit[f] \in Bytes /\ NoBytes \in Bytes
          /\ ftodo.commits \ {f} \in SUBSET FileIds
      BY TodoParts, DiskParts
    <2>3. FileStep("index", f, fcommit[f], 0) \in FileSteps /\ FileStep("uncommit", f, NoBytes, 0) \in FileSteps
      BY <2>2, StepMade, SMT
    <2> DEFINE step == IF fpath[f[1]] # fcommit[f] THEN NoStep
                       ELSE IF frec[f] = NoRecord THEN FileStep("index", f, fcommit[f], 0)
                       ELSE FileStep("uncommit", f, NoBytes, 0)
    <2>4. step \in FileSteps \cup {NoStep}
      BY <2>3
    <2>5. ftodo' = [ftodo EXCEPT !.commits = ftodo.commits \ {f}, !.step = step]
      BY <2>1
    <2> HIDE DEF step
    <2> QED
      BY <1>3, <2>2, <2>4, <2>5, Zenon
  <1>8. ASSUME ReopenIntent PROVE ftodo' \in FileTodos
    <2>1. PICK m \in ftodo.intents :
             ftodo' = [ftodo EXCEPT !.m = m, !.items = fintent[m], !.intents = @ \ {m}]
      BY <1>8 DEF ReopenIntent
    <2>2. m \in 1..MaxWrites /\ MaxWrites \in Nat
      BY TodoParts
    <2>3. m \in 0..MaxWrites /\ fintent[m] \in SUBSET FileItems
          /\ ftodo.intents \ {m} \in SUBSET (1..MaxWrites)
      BY <2>2, DiskParts, TodoParts
    <2> QED
      BY <1>4, <2>1, <2>3, Zenon
  <1>9. ASSUME SettleItem PROVE ftodo' \in FileTodos
    <2>1. PICK i \in ftodo.items :
             ftodo' = IF SettleRaises(i, ftodo.m) THEN Raised
                      ELSE [ftodo EXCEPT !.items = @ \ {i}, !.step = SettleStep(i, ftodo.m)]
      BY <1>9 DEF SettleItem
    <2>2. i \in FileItems /\ ftodo.m \in 0..MaxWrites /\ ftodo.items \ {i} \in SUBSET FileItems
      BY TodoParts
    <2>3. SettleStep(i, ftodo.m) \in FileSteps \cup {NoStep}
      BY <2>2, SettleStepType
    <2>4. [ftodo EXCEPT !.items = ftodo.items \ {i}, !.step = SettleStep(i, ftodo.m)] \in FileTodos
      BY <1>5, <2>2, <2>3, Zenon
    <2> QED
      BY <2>1, <2>4, TodoMade
  <1> QED
    BY <1>6, <1>7, <1>8, <1>9

\* Every step of the files keeps their types.
LEMMA FileTypeStep ==
    ASSUME FileTypeOK, Steps, [FileNext]_fileVars
    PROVE  FileTypeOK'
  <1>1. /\ fpath \in [FilePaths -> Bytes] /\ fver \in [FileIds -> Bytes]
        /\ fcommit \in [FileIds -> Bytes] /\ fkept \in [FileIds -> Bytes]
        /\ ftrash \in [FilePaths -> Seq(Bytes)] /\ frec \in [FileIds -> FileRecords]
        /\ fintent \in [1..MaxWrites -> SUBSET FileItems] /\ NoBytes \in Bytes
        /\ fref \subseteq FileIds
    BY DiskParts
  <1>2. /\ ftodo \in FileTodos /\ Idle \in FileTodos
        /\ fdelete \in (FileIds \X BOOLEAN) \cup {NoDelete}
        /\ fwrites \in 0..MaxWrites /\ fremovals \in 0..MaxRemovals /\ ffaults \in 0..MaxFileFaults
    BY TodoMade DEF FileTypeOK
  <1>3. MaxWrites \in Nat /\ MaxRemovals \in Nat /\ MaxFileFaults \in Nat
    BY FileAssumption
  <1> DEFINE Disk == /\ fpath \in [FilePaths -> Bytes] /\ {fver, fcommit} \subseteq [FileIds -> Bytes]
                     /\ ftrash \in [FilePaths -> Seq(Bytes)] /\ frec \in [FileIds -> FileRecords]
                     /\ fintent \in [1..MaxWrites -> SUBSET FileItems]
             Rest == /\ fref \subseteq FileIds /\ fkept \in [FileIds -> Bytes]
                     /\ fdelete \in (FileIds \X BOOLEAN) \cup {NoDelete}
                     /\ fwrites \in 0..MaxWrites /\ fremovals \in 0..MaxRemovals
                     /\ ffaults \in 0..MaxFileFaults
  <1>4. FileTypeOK <=> Disk /\ Rest /\ ftodo \in FileTodos
    BY DEF FileTypeOK
  <1>5. FileTypeOK' <=> Disk' /\ Rest' /\ ftodo' \in FileTodos
    BY DEF FileTypeOK
  <1>6. Disk /\ Rest
    BY <1>4
  <1>7. UNCHANGED fdisk => Disk'
    BY <1>6 DEF fdisk
  <1>8. FileRest => Rest'
    BY <1>6 DEF FileRest
  <1>9. Removal => fremovals' \in 0..MaxRemovals
    BY <1>2, <1>3 DEF Removal
  <1>a. ffaults < MaxFileFaults /\ ffaults' = ffaults + 1 => ffaults' \in 0..MaxFileFaults
    BY <1>2, <1>3
  <1> HIDE DEF Disk
  <1>b. CASE FileStepDone
    <2>1. UNCHANGED fintent /\ FileRest /\ ftodo.step # NoStep /\ Moved(ftodo.step)
          /\ ftodo' = [ftodo EXCEPT !.step = Follows(ftodo.step)]
      BY <1>b DEF FileStepDone
    <2>2. Disk'
      BY <2>1, <1>1, MovedType DEF Disk
    <2>3. ftodo' \in FileTodos
      BY <2>1, FollowsType, TodoMade
    <2> QED
      BY <1>5, <1>8, <2>1, <2>2, <2>3
  <1>c. CASE CopyVersion
    <2>1. PICK i \in ftodo.copies :
             /\ fver' = [fver EXCEPT ![<<i.f[1], ftodo.m>>] = i.before]
             /\ ftodo' = [ftodo EXCEPT !.copies = @ \ {i}]
      BY <1>c DEF CopyVersion
    <2>2. i.before \in Bytes
      BY TodoParts, ItemParts
    <2>3. fver' \in [FileIds -> Bytes]
      BY <1>1, <2>1, <2>2
    <2>4. UNCHANGED <<fpath, ftrash, frec, fcommit, fintent>> /\ FileRest
      BY <1>c DEF CopyVersion
    <2>5. Disk'
      BY <1>1, <2>3, <2>4 DEF Disk
    <2>6. ftodo' \in FileTodos
      BY <2>1, TodoMade
    <2> QED
      BY <1>5, <1>8, <2>4, <2>5, <2>6
  <1>d. CASE LogIntent \/ DropIntent
    <2>1. UNCHANGED <<fpath, fver, ftrash, frec, fcommit>> /\ FileRest
      BY <1>d DEF LogIntent, DropIntent
    <2>2. \E is \in SUBSET FileItems : fintent' = [fintent EXCEPT ![ftodo.m] = is]
      BY <1>d, TodoParts DEF LogIntent, DropIntent
    <2>3. fintent' \in [1..MaxWrites -> SUBSET FileItems]
      BY <1>1, <2>2
    <2>4. Disk'
      BY <1>1, <2>1, <2>3 DEF Disk
    <2>5. ftodo' = [ftodo EXCEPT !.log = FALSE] \/ ftodo' = [ftodo EXCEPT !.m = 0]
      BY <1>d DEF LogIntent, DropIntent
    <2> QED
      BY <1>5, <1>8, <2>1, <2>4, <2>5, TodoMade
  <1>e. CASE WriterPuts
    <2>1. PICK w \in ftodo.puts :
             /\ fpath' = [fpath EXCEPT ![w[1]] = w[2]]
             /\ ftodo' = [ftodo EXCEPT !.puts = @ \ {w}]
      BY <1>e DEF WriterPuts
    <2>2. w[2] \in Bytes
      BY TodoParts
    <2>3. fpath' \in [FilePaths -> Bytes]
      BY <1>1, <2>1, <2>2
    <2>4. UNCHANGED <<fver, ftrash, frec, fcommit, fintent>> /\ FileRest
      BY <1>e DEF WriterPuts
    <2>5. Disk'
      BY <1>1, <2>3, <2>4 DEF Disk
    <2> QED
      BY <1>5, <1>8, <2>1, <2>4, <2>5, TodoMade
  <1>f. CASE SettleItem \/ AdoptCommit \/ ReopenIntent \/ ReconcileFiles
    <2>1. ftodo' \in FileTodos
      BY <1>f, ReconcileType
    <2>2. UNCHANGED fdisk /\ FileRest
      BY <1>f DEF SettleItem, AdoptCommit, ReopenIntent, ReconcileFiles
    <2> QED
      BY <1>5, <1>7, <1>8, <2>1, <2>2
  <1>g. CASE FileHolderDies
    <2>1. Rest'
      BY <1>6, <1>a, <1>g DEF FileHolderDies
    <2> QED
      BY <1>2, <1>5, <1>7, <1>g, <2>1 DEF FileHolderDies
  <1>h. CASE FileStepRaises
    <2>1. Rest'
      BY <1>6, <1>a, <1>h DEF FileStepRaises
    <2>2. ftodo' \in {Idle, [ftodo EXCEPT !.puts = {}], Raised}
      BY <1>h DEF FileStepRaises
    <2>3. fver' = fver \/ fver' = [f \in FileIds |-> IF f[2] = ftodo.m THEN NoBytes ELSE fver[f]]
      BY <1>h DEF FileStepRaises
    <2>4. fver' \in [FileIds -> Bytes]
      BY <1>1, <2>3
    <2>5. UNCHANGED <<fpath, ftrash, frec, fcommit, fintent>>
      BY <1>h DEF FileStepRaises
    <2>6. Disk'
      BY <1>1, <2>4, <2>5 DEF Disk
    <2> QED
      BY <1>5, <2>1, <2>2, <2>6, TodoMade
  <1>i. ASSUME NEW step \in FileSteps \cup {NoStep}, FileDoes(step)
        PROVE  ftodo' \in FileTodos
    BY <1>i, TodoMade DEF FileDoes, FileBegin
  <1>j. CASE DeleteFile
    <2>1. fdelete # NoDelete /\ fdelete' = NoDelete
      BY <1>j DEF DeleteFile
    <2>2. fdelete[1] \in FileIds
      BY <1>2, <2>1
    <2> DEFINE k == IF fdelete[2] THEN "unlink" ELSE "soft"
               step == IF frec[fdelete[1]].life = "purged" THEN NoStep
                       ELSE FileStep(k, fdelete[1], NoBytes, 0)
    <2>3. FileStep(k, fdelete[1], NoBytes, 0) \in FileSteps
      BY <1>1, <2>2, StepMade
    <2>4. step \in FileSteps \cup {NoStep}
      BY <2>3
    <2>5. FileDoes(step)
      BY <1>j DEF DeleteFile
    <2>6. ftodo' \in FileTodos
      BY <1>i, <2>4, <2>5
    <2>7. Rest' /\ UNCHANGED fdisk
      BY <1>6, <1>j DEF DeleteFile
    <2> QED
      BY <1>5, <1>7, <2>6, <2>7
  <1>k. ASSUME NEW p \in FilePaths, NEW bytes \in FileBytes, CreateFile(p, bytes)
        PROVE  FileTypeOK'
    <2>1. <<p, 0>> \in FileIds /\ bytes \in Bytes
      BY <1>3, SMT DEF FileIds, Bytes
    <2>2. FileStep("write", <<p, 0>>, bytes, 0) \in FileSteps
      BY <2>1, StepMade, SMT
    <2>3. FileDoes(FileStep("write", <<p, 0>>, bytes, 0)) /\ UNCHANGED fdisk /\ FileRest
      BY <1>k DEF CreateFile
    <2>4. ftodo' \in FileTodos
      BY <1>i, <2>2, <2>3
    <2> QED
      BY <1>5, <1>7, <1>8, <2>3, <2>4
  <1>l. ASSUME NEW scope \in (SUBSET FilePaths) \ {{}},
               NEW after \in [scope -> FileBytes \cup {NoBytes}], GovernedWrite(scope, after)
        PROVE  FileTypeOK'
    <2>1. ftodo' \in FileTodos /\ fwrites' \in 0..MaxWrites
      BY <1>l, WriteType DEF Bytes
    <2>2. UNCHANGED <<fdisk, fref, fkept, fdelete, fremovals, ffaults>>
      BY <1>l DEF GovernedWrite
    <2>3. Disk'
      BY <1>7, <2>2
    <2> QED
      BY <1>2, <1>1, <1>5, <2>1, <2>2, <2>3
  <1>m. ASSUME NEW f \in FileIds, TrashFile(f) PROVE FileTypeOK'
    <2>1. f \in FileIds /\ ftrash[f[1]] \in Seq(Bytes)
      BY <1>1, FileIdParts
    <2> DEFINE slot == TrashSlot(ftrash[f[1]])
    <2>2. slot \in Nat
      BY <2>1, TrashSlotType
    <2> HIDE DEF slot
    <2>3. FileStep("trash", f, NoBytes, slot) \in FileSteps
      BY <1>1, <2>1, <2>2, StepMade
    <2>4. FileDoes(FileStep("trash", f, NoBytes, slot))
      BY <1>m DEF TrashFile, slot
    <2>5. ftodo' \in FileTodos
      BY <1>i, <2>3, <2>4
    <2>6. Rest' /\ UNCHANGED fdisk
      BY <1>6, <1>9, <1>m DEF TrashFile
    <2> QED
      BY <1>5, <1>7, <2>5, <2>6
  <1>n. ASSUME NEW f \in FileIds, ReconcileTrash(f) \/ RestoreFile(f) PROVE FileTypeOK'
    <2>1. /\ FileStep("soft", f, NoBytes, 1) \in FileSteps /\ FileStep("untrash", f, NoBytes, 0) \in FileSteps
          /\ FileStep("active", f, NoBytes, 0) \in FileSteps
      BY <1>1, StepMade, SMT
    <2>2. \E step \in FileSteps : FileDoes(step)
      BY <1>n, <2>1 DEF ReconcileTrash, RestoreFile
    <2>3. ftodo' \in FileTodos
      BY <1>i, <2>2
    <2>4. UNCHANGED fdisk /\ FileRest
      BY <1>n DEF ReconcileTrash, RestoreFile
    <2> QED
      BY <1>5, <1>7, <1>8, <2>3, <2>4
  <1>o. ASSUME NEW f \in FileIds, NEW permanent \in BOOLEAN, NEW force \in BOOLEAN,
               DeleteCheck(f, permanent, force)
        PROVE  FileTypeOK'
    <2>1. fdelete' = <<f, permanent>> /\ fkept' = [fkept EXCEPT ![f] = NoBytes]
          /\ UNCHANGED <<fdisk, fref, ftodo, fwrites, ffaults>> /\ fremovals' \in 0..MaxRemovals
      BY <1>9, <1>o DEF DeleteCheck
    <2>2. Rest'
      BY <1>1, <1>2, <2>1
    <2> QED
      BY <1>2, <1>5, <1>7, <2>1, <2>2
  <1>p. ASSUME NEW f \in FileIds, AddReference(f) PROVE FileTypeOK'
    <2>1. frec[f].sha \in Bytes
      BY <1>1, RecordParts
    <2>2. fkept' = [fkept EXCEPT ![f] = frec[f].sha] \/ fkept' = [fkept EXCEPT ![f] = NoBytes]
      BY <1>p DEF AddReference
    <2>3. fkept' \in [FileIds -> Bytes]
      BY <1>1, <2>1, <2>2
    <2>4. fref' = fref \cup {f} /\ UNCHANGED <<fdisk, ftodo, fdelete, fwrites, fremovals, ffaults>>
      BY <1>p DEF AddReference
    <2> QED
      BY <1>1, <1>2, <1>5, <1>7, <2>3, <2>4
  <1>q. ASSUME NEW f \in FileIds, DropReference(f) PROVE FileTypeOK'
    <2>1. fkept' = [fkept EXCEPT ![f] = NoBytes] /\ fref' = fref \ {f} /\ fremovals' \in 0..MaxRemovals
          /\ UNCHANGED <<fdisk, ftodo, fdelete, fwrites, ffaults>>
      BY <1>9, <1>q DEF DropReference
    <2> QED
      BY <1>1, <1>2, <1>5, <1>7, <2>1
  <1>r. ASSUME NEW f \in FileIds, RecycleUnlocked(f) PROVE FileTypeOK'
    <2>1. frec' = [frec EXCEPT ![f] = [frec[f] EXCEPT !.life = "soft"]]
          /\ UNCHANGED <<fpath, fver, ftrash, fcommit, fintent, ftodo, fref, fkept, fdelete, fwrites, ffaults>>
          /\ fremovals' \in 0..MaxRemovals
      BY <1>1, <1>9, <1>r DEF RecycleUnlocked
    <2>5. \A r \in FileRecords, life \in {"none", "active", "soft", "purged"} :
             [r EXCEPT !.life = life] \in FileRecords
      BY Zenon DEF FileRecords
    <2>2. [frec[f] EXCEPT !.life = "soft"] \in FileRecords
      BY <1>1, <2>5
    <2>3. frec' \in [FileIds -> FileRecords]
      BY <1>1, <2>1, <2>2
    <2>4. Disk' /\ Rest'
      BY <1>1, <1>2, <2>1, <2>3 DEF Disk
    <2> QED
      BY <1>2, <1>5, <2>1, <2>4
  <1>s. CASE UNCHANGED fileVars
    BY <1>2, <1>5, <1>6, <1>7, <1>s DEF fileVars
  <1> QED
    BY <1>b, <1>c, <1>d, <1>e, <1>f, <1>g, <1>h, <1>j, <1>k, <1>l, <1>m, <1>n, <1>o, <1>p, <1>q, <1>r, <1>s
       DEF FileNext

-----------------------------------------------------------------------------
(* The records of one path.                                                *)

\* The record r of f has another state, and points to what it pointed to.
Relabelled(f, r) ==
    /\ Recorded(f) /\ r \in FileRecords /\ r.ver = frec[f].ver /\ r.life # "none"
    /\ r.ver # 0 \/ r.life = "active" => r.trash = 0

\* A record that exists has a life, and one that does not points to nothing.
LEMMA RecordedParts ==
    ASSUME NEW f \in FileIds
    PROVE  /\ ~Recorded(f) => /\ frec[f] = NoRecord /\ frec[f].ver = 0 /\ frec[f].trash = 0
                              /\ frec[f].life = "none" /\ frec[f].sha = NoBytes
           /\ frec[f].ver # 0 => Recorded(f)
           /\ frec[f].life # "none" => Recorded(f)
           /\ \A b : ActiveRecord(b) # NoRecord /\ ActiveRecord(b).ver = 0 /\ ActiveRecord(b).trash = 0
                     /\ ActiveRecord(b).life = "active" /\ ActiveRecord(b).sha = b
  BY DEF Recorded, NoRecord, ActiveRecord

\* The chain of a path does not depend on the other fields of its records.
LEMMA ChainRelabelled ==
    ASSUME FileTypeOK, Chain, fwrites' \in Nat, fwrites <= fwrites',
           \/ frec' = frec
           \/ \E f \in FileIds, r \in FileRecords :
                 Relabelled(f, r) /\ frec' = [frec EXCEPT ![f] = r]
    PROVE  /\ Chain'
           /\ \A g \in FileIds : frec'[g].ver = frec[g].ver /\ (Recorded(g)' <=> Recorded(g))
           /\ \A g \in FileIds : Heading(g)' <=> Heading(g)
  <1>1. frec \in [FileIds -> FileRecords]
    BY DiskParts
  <1>2. ASSUME NEW g \in FileIds
        PROVE  /\ frec'[g].ver = frec[g].ver /\ (Recorded(g)' <=> Recorded(g))
               /\ \/ frec'[g] = frec[g]
                  \/ /\ frec'[g].life # "none"
                     /\ frec'[g].ver # 0 \/ frec'[g].life = "active" => frec'[g].trash = 0
    <2>1. CASE frec' = frec
      BY <2>1 DEF Recorded
    <2>2. CASE \E f \in FileIds, r \in FileRecords : Relabelled(f, r) /\ frec' = [frec EXCEPT ![f] = r]
      <3>1. PICK f \in FileIds, r \in FileRecords : Relabelled(f, r) /\ frec' = [frec EXCEPT ![f] = r]
        BY <2>2
      <3>2. CASE g # f
        BY <1>1, <3>1, <3>2 DEF Recorded
      <3>3. CASE g = f
        <4>1. frec'[g] = r
          BY <1>1, <3>1, <3>3
        <4>2. r # NoRecord
          BY <3>1 DEF Relabelled, NoRecord
        <4> QED
          BY <3>1, <3>3, <4>1, <4>2 DEF Relabelled, Recorded
      <3> QED
        BY <3>2, <3>3
    <2> QED
      BY <2>1, <2>2
  <1>3. \A g \in FileIds : Heading(g)' <=> Heading(g)
    BY <1>2 DEF Heading
  <1>4. OneHead'
    BY <1>3 DEF Chain, OneHead
  <1>5. OneOwner'
    BY <1>2 DEF Chain, OneOwner
  <1>6. RootFirst'
    BY <1>2, FileIdParts DEF Chain, RootFirst
  <1>7. RecordShape'
    <2>1. \A g \in FileIds : frec[g].ver \in Nat
      BY <1>1, RecordParts
    <2>2. fwrites \in Nat
      BY TodoParts
    <2>3. ASSUME NEW g \in FileIds
          PROVE  /\ Recorded(g)' => frec'[g].life # "none"
                 /\ frec'[g].ver # 0 \/ frec'[g].life = "active" => frec'[g].trash = 0
                 /\ frec'[g].ver <= fwrites'
      <3>1. /\ Recorded(g) => frec[g].life # "none"
            /\ frec[g].ver # 0 \/ frec[g].life = "active" => frec[g].trash = 0
            /\ frec[g].ver <= fwrites
        BY DEF Chain, RecordShape
      <3>2. frec'[g].ver <= fwrites'
        BY <1>2, <2>1, <2>2, <3>1
      <3> QED
        BY <1>2, <3>1, <3>2
    <2> QED
      BY <2>3 DEF RecordShape
  <1> QED
    BY <1>2, <1>3, <1>4, <1>5, <1>6, <1>7 DEF Chain

\* A record that was awaited is indexed.
LEMMA ChainIndexed ==
    ASSUME FileTypeOK, Chain, NEW f \in FileIds, NEW bytes \in Bytes, ~Recorded(f), Awaited(f),
           frec' = [frec EXCEPT ![f] = ActiveRecord(bytes)], fwrites' = fwrites
    PROVE  /\ Chain'
           /\ \A g \in FileIds : frec'[g].ver = frec[g].ver
           /\ \A g \in FileIds : Recorded(g)' <=> Recorded(g) \/ g = f
           /\ \A g \in FileIds : g # f => (Heading(g)' <=> Heading(g))
           /\ Heading(f)'
  <1>1. frec \in [FileIds -> FileRecords]
    BY DiskParts
  <1>2. ASSUME NEW g \in FileIds
        PROVE  /\ frec'[g].ver = frec[g].ver /\ (Recorded(g)' <=> Recorded(g) \/ g = f)
               /\ g # f => frec'[g] = frec[g]
    <2>1. CASE g # f
      BY <1>1, <2>1 DEF Recorded
    <2>2. CASE g = f
      <3>1. frec'[g] = ActiveRecord(bytes)
        BY <1>1, <2>2
      <3> QED
        BY <2>2, <3>1, RecordedParts DEF Recorded
    <2> QED
      BY <2>1, <2>2
  <1>3. frec'[f] = ActiveRecord(bytes)
    BY <1>1
  <1>4. \A g \in FileIds : g # f => (Heading(g)' <=> Heading(g))
    BY <1>2 DEF Heading
  <1>5. Heading(f)'
    BY <1>2, RecordedParts DEF Heading
  <1>6. ASSUME NEW g \in FileIds, g[1] = f[1], Heading(g) PROVE g = f
    <2>1. CASE Heading(f)
      BY <1>6, <2>1 DEF Chain, OneHead
    <2>2. CASE f[2] = 0
      <3>1. f = <<f[1], 0>>
        BY <2>2, FileIdParts
      <3>2. \A h \in FileIds : h[1] = f[1] => ~Recorded(h)
        BY <3>1 DEF Chain, RootFirst
      <3>3. \A h \in FileIds : h[1] = f[1] => frec[h].ver = 0
        BY <3>2, RecordedParts
      <3> QED
        BY <1>6, <3>2, <3>3 DEF Heading
    <2> QED
      BY <2>1, <2>2 DEF Awaited
  <1>7. OneHead'
    <2>1. SUFFICES ASSUME NEW g \in FileIds, NEW h \in FileIds, g[1] = h[1], Heading(g)', Heading(h)'
                   PROVE  g = h
      BY DEF OneHead
    <2> QED
      BY <1>4, <1>6, <2>1 DEF Chain, OneHead
  <1>8. OneOwner'
    BY <1>2 DEF Chain, OneOwner
  <1>9. Recorded(<<f[1], 0>>)'
    <2>1. <<f[1], 0>> \in FileIds
      BY FileIdParts
    <2>2. CASE f[2] = 0
      <3>1. f = <<f[1], 0>>
        BY <2>2, FileIdParts
      <3> QED
        BY <1>2, <2>1, <3>1
    <2>3. CASE Heading(f)
      <3>1. PICK g \in FileIds : g[1] = f[1] /\ frec[g].ver = f[2] /\ f[2] # 0
        BY <2>3 DEF Heading
      <3>2. Recorded(g)
        BY <3>1, RecordedParts
      <3>3. Recorded(<<f[1], 0>>)
        BY <3>1, <3>2 DEF Chain, RootFirst
      <3> QED
        BY <1>2, <2>1, <3>3
    <2> QED
      BY <2>2, <2>3 DEF Awaited
  <1>a. RootFirst'
    <2>1. SUFFICES ASSUME NEW g \in FileIds, Recorded(g)' PROVE Recorded(<<g[1], 0>>)'
      BY DEF RootFirst
    <2>2. CASE g = f
      BY <1>9, <2>2
    <2>3. CASE g # f
      <3>1. Recorded(<<g[1], 0>>) /\ <<g[1], 0>> \in FileIds
        BY <1>2, <2>1, <2>3, FileIdParts DEF Chain, RootFirst
      <3> QED
        BY <1>2, <3>1
    <2> QED
      BY <2>2, <2>3
  <1>b. RecordShape'
    <2>1. SUFFICES ASSUME NEW g \in FileIds
                   PROVE  /\ Recorded(g)' => frec'[g].life # "none"
                          /\ frec'[g].ver # 0 \/ frec'[g].life = "active" => frec'[g].trash = 0
                          /\ frec'[g].ver <= fwrites'
      BY DEF RecordShape
    <2>2. /\ Recorded(g) => frec[g].life # "none"
          /\ frec[g].ver # 0 \/ frec[g].life = "active" => frec[g].trash = 0
          /\ frec[g].ver <= fwrites
      BY DEF Chain, RecordShape
    <2>3. frec'[f].life = "active" /\ frec'[f].trash = 0
      BY <1>3, RecordedParts
    <2> QED
      BY <1>2, <2>2, <2>3
  <1> QED
    BY <1>2, <1>4, <1>5, <1>7, <1>8, <1>a, <1>b DEF Chain

\* The record of a path points to a version from now on.
LEMMA ChainHistory ==
    ASSUME FileTypeOK, Chain, NEW f \in FileIds, NEW n \in 1..MaxWrites,
           Recorded(f), frec[f].ver = 0, frec[f].trash = 0, n <= fwrites,
           \A g \in FileIds : g[1] = f[1] /\ frec[g].ver = n => g = f,
           \A g \in FileIds : g # f => frec'[g] = frec[g],
           frec'[f].ver = n, frec'[f].life = frec[f].life, frec'[f].trash = frec[f].trash,
           fwrites' = fwrites
    PROVE  /\ Chain'
           /\ \A g \in FileIds : Recorded(g)' <=> Recorded(g)
           /\ \A g \in FileIds : Heading(g)' /\ g # <<f[1], n>> => Heading(g) /\ g # f
           /\ <<f[1], n>> \in FileIds /\ (~Recorded(<<f[1], n>>) => Heading(<<f[1], n>>)')
  <1>1. frec \in [FileIds -> FileRecords] /\ MaxWrites \in Nat /\ n \in Nat /\ n # 0
    BY DiskParts, TodoParts
  <1>2. \A g \in FileIds : g # f => frec'[g] = frec[g]
    OBVIOUS
  <1>3. frec'[f].ver = n /\ frec'[f].life = frec[f].life /\ frec'[f].trash = frec[f].trash
    OBVIOUS
  <1>4. \A g \in FileIds : Recorded(g)' <=> Recorded(g)
    <2>1. frec'[f] # NoRecord
      BY <1>1, <1>3 DEF NoRecord
    <2> QED
      BY <1>2, <2>1 DEF Recorded
  <1>5. <<f[1], n>> \in FileIds
    BY <1>1 DEF FileIds
  <1>6. Heading(f)
    BY DEF Heading
  <1>7. ASSUME NEW g \in FileIds, Heading(g)', g # <<f[1], n>> PROVE Heading(g) /\ g # f
    <2>1. g # f
      BY <1>1, <1>3, <1>4, <1>7 DEF Heading
    <2>2. CASE Recorded(g)'
      BY <1>2, <1>4, <1>7, <2>1, <2>2 DEF Heading
    <2>3. CASE ~Recorded(g)'
      <3>1. PICK h \in FileIds : h[1] = g[1] /\ frec'[h].ver = g[2] /\ g[2] # 0
        BY <1>7, <2>3 DEF Heading
      <3>2. h # f
        <4>1. SUFFICES ASSUME h = f PROVE FALSE
          OBVIOUS
        <4>2. g = <<f[1], n>>
          BY <1>3, <3>1, <4>1, FileIdParts
        <4> QED
          BY <1>7, <4>2
      <3> QED
        BY <1>2, <1>4, <2>1, <2>3, <3>1, <3>2 DEF Heading
    <2> QED
      BY <2>2, <2>3
  <1>8. ~Recorded(<<f[1], n>>) => Heading(<<f[1], n>>)'
    <2>1. f[1] = <<f[1], n>>[1] /\ frec'[f].ver = <<f[1], n>>[2]
      BY <1>3
    <2> QED
      BY <1>1, <1>4, <1>5, <2>1 DEF Heading
  <1>9. ASSUME NEW g \in FileIds, Heading(g)', g[1] = f[1] PROVE g = <<f[1], n>>
    <2>1. SUFFICES ASSUME g # <<f[1], n>> PROVE FALSE
      OBVIOUS
    <2>2. Heading(g) /\ g # f
      BY <1>7, <1>9, <2>1
    <2> QED
      BY <1>6, <1>9, <2>2 DEF Chain, OneHead
  <1>a. OneHead'
    <2>1. SUFFICES ASSUME NEW g \in FileIds, NEW h \in FileIds, g[1] = h[1], Heading(g)', Heading(h)'
                   PROVE  g = h
      BY DEF OneHead
    <2>2. CASE g[1] = f[1]
      BY <1>9, <2>1, <2>2
    <2>3. CASE g[1] # f[1]
      <3>1. g # <<f[1], n>> /\ h # <<f[1], n>>
        BY <2>1, <2>3
      <3> QED
        BY <1>7, <2>1, <3>1 DEF Chain, OneHead
    <2> QED
      BY <2>2, <2>3
  <1>b. OneOwner'
    <2>1. SUFFICES ASSUME NEW g \in FileIds, NEW h \in FileIds, g[1] = h[1], frec'[g].ver # 0,
                          frec'[g].ver = frec'[h].ver
                   PROVE  g = h
      BY DEF OneOwner
    <2>2. CASE g = f /\ h # f
      BY <1>2, <1>3, <2>1, <2>2
    <2>3. CASE g # f /\ h = f
      BY <1>2, <1>3, <2>1, <2>3
    <2>4. CASE g # f /\ h # f
      BY <1>2, <2>1, <2>4 DEF Chain, OneOwner
    <2> QED
      BY <2>2, <2>3, <2>4
  <1>c. RootFirst'
    BY <1>4, FileIdParts DEF Chain, RootFirst
  <1>d. RecordShape'
    <2>1. SUFFICES ASSUME NEW g \in FileIds
                   PROVE  /\ Recorded(g)' => frec'[g].life # "none"
                          /\ frec'[g].ver # 0 \/ frec'[g].life = "active" => frec'[g].trash = 0
                          /\ frec'[g].ver <= fwrites'
      BY DEF RecordShape
    <2>2. /\ Recorded(g) => frec[g].life # "none"
          /\ frec[g].ver # 0 \/ frec[g].life = "active" => frec[g].trash = 0
          /\ frec[g].ver <= fwrites
      BY DEF Chain, RecordShape
    <2> QED
      BY <1>2, <1>3, <1>4, <2>2
  <1> QED
    BY <1>2, <1>3, <1>4, <1>5, <1>7, <1>8, <1>a, <1>b, <1>c, <1>d DEF Chain

-----------------------------------------------------------------------------
(* What each action does to the records.                                   *)

RecordKinds == {"index", "sha", "history", "purge", "soft", "trashPath", "active"}

\* What a step on a file changes.
LEMMA StepEffects ==
    ASSUME FileTypeOK, ftodo.step # NoStep, Moved(ftodo.step)
    PROVE  /\ ftodo.step.k \in RecordKinds =>
                 /\ frec' = [frec EXCEPT ![ftodo.step.f] = Updated(ftodo.step)]
                 /\ UNCHANGED <<fpath, fver, ftrash, fcommit>>
           /\ ftodo.step.k \notin RecordKinds => frec' = frec
           /\ ftodo.step.k \in {"commit", "uncommit"} => UNCHANGED <<fpath, fver, ftrash, frec>>
           /\ ftodo.step.k = "commit" => fcommit' = [fcommit EXCEPT ![ftodo.step.f] = ftodo.step.bytes]
           /\ ftodo.step.k = "uncommit" => fcommit' = [fcommit EXCEPT ![ftodo.step.f] = NoBytes]
           /\ ftodo.step.k \notin {"commit", "uncommit"} => fcommit' = fcommit
  BY SMT DEF Moved, RecordKinds

\* Every action: which part of the disk it may change.
LEMMA FileCases ==
    ASSUME [FileNext]_fileVars
    PROVE  \/ FileStepDone \/ CopyVersion \/ LogIntent \/ DropIntent \/ WriterPuts \/ FileStepRaises
           \/ \E f \in FileIds : RecycleUnlocked(f)
           \/ /\ UNCHANGED fdisk
              /\ \/ SettleItem \/ AdoptCommit \/ ReopenIntent \/ FileHolderDies \/ ReconcileFiles
                 \/ DeleteFile \/ UNCHANGED fileVars
                 \/ \E p \in FilePaths, bytes \in FileBytes : CreateFile(p, bytes)
                 \/ \E scope \in (SUBSET FilePaths) \ {{}} :
                       \E after \in [scope -> FileBytes \cup {NoBytes}] : GovernedWrite(scope, after)
                 \/ \E f \in FileIds :
                       \/ TrashFile(f) \/ ReconcileTrash(f) \/ RestoreFile(f)
                       \/ \E permanent, force \in BOOLEAN : DeleteCheck(f, permanent, force)
                       \/ AddReference(f) \/ DropReference(f)
  <1>1. CASE FileNext
    <2>1. SettleItem \/ AdoptCommit \/ ReopenIntent \/ FileHolderDies \/ ReconcileFiles \/ DeleteFile
          => UNCHANGED fdisk
      BY DEF SettleItem, AdoptCommit, ReopenIntent, FileHolderDies, ReconcileFiles, DeleteFile
    <2>2. \A p, bytes : CreateFile(p, bytes) => UNCHANGED fdisk
      BY DEF CreateFile
    <2>3. \A scope, after : GovernedWrite(scope, after) => UNCHANGED fdisk
      BY DEF GovernedWrite
    <2>4. \A f : TrashFile(f) \/ ReconcileTrash(f) \/ RestoreFile(f) => UNCHANGED fdisk
      BY DEF TrashFile, ReconcileTrash, RestoreFile
    <2>5. \A f, permanent, force : DeleteCheck(f, permanent, force) => UNCHANGED fdisk
      BY DEF DeleteCheck
    <2>6. \A f : AddReference(f) \/ DropReference(f) => UNCHANGED fdisk
      BY DEF AddReference, DropReference
    <2> QED
      BY <1>1, <2>1, <2>2, <2>3, <2>4, <2>5, <2>6 DEF FileNext
  <1>2. CASE UNCHANGED fileVars
    BY <1>2 DEF fileVars
  <1> QED
    BY <1>1, <1>2

\* Only a write is counted.
LEMMA WritesCounted ==
    ASSUME FileTypeOK, [FileNext]_fileVars
    PROVE  /\ fwrites' \in Nat /\ fwrites <= fwrites'
           /\ (\A scope \in (SUBSET FilePaths) \ {{}} :
                  \A after \in [scope -> FileBytes \cup {NoBytes}] : ~GovernedWrite(scope, after))
              => fwrites' = fwrites
  <1>1. fwrites \in Nat
    BY TodoParts
  <1>2. fwrites' = fwrites \/ fwrites' = fwrites + 1
    BY FileCases DEF FileStepDone, CopyVersion, LogIntent, DropIntent, WriterPuts, FileStepRaises,
       RecycleUnlocked, SettleItem, AdoptCommit, ReopenIntent, FileHolderDies, ReconcileFiles,
       DeleteFile, fileVars, CreateFile, GovernedWrite, TrashFile, ReconcileTrash, RestoreFile,
       DeleteCheck, AddReference, DropReference, FileRest
  <1>3. (\A scope \in (SUBSET FilePaths) \ {{}} :
            \A after \in [scope -> FileBytes \cup {NoBytes}] : ~GovernedWrite(scope, after))
        => fwrites' = fwrites
    BY FileCases DEF FileStepDone, CopyVersion, LogIntent, DropIntent, WriterPuts, FileStepRaises,
       RecycleUnlocked, SettleItem, AdoptCommit, ReopenIntent, FileHolderDies, ReconcileFiles,
       DeleteFile, fileVars, CreateFile, TrashFile, ReconcileTrash, RestoreFile,
       DeleteCheck, AddReference, DropReference, FileRest
  <1> QED
    BY <1>1, <1>2, <1>3

\* What stays of the records of a path, whatever happens.
RecordsFollow ==
    /\ \A g \in FileIds : Recorded(g) => Recorded(g)'
    /\ \A g \in FileIds : Awaited(g) => Awaited(g)'
    /\ \A g \in FileIds : frec'[g].ver # frec[g].ver =>
          /\ ftodo.step # NoStep /\ ftodo.step.k = "history" /\ g = ftodo.step.f
          /\ frec'[g].ver = ftodo.m /\ frec[g].ver = 0

\* What the changes of a record leave of its other fields.
LEMMA RelabelFields ==
    ASSUME NEW q \in FileRecords, NEW r, NEW b, NEW n, q.life # "none",
           q.ver # 0 \/ q.life = "active" => q.trash = 0,
           \/ r = q
           \/ r = [q EXCEPT !.sha = b]
           \/ r = [q EXCEPT !.life = "purged"]
           \/ r = [q EXCEPT !.life = "soft"]
           \/ r = [q EXCEPT !.trash = n] /\ q.life # "active" /\ q.ver = 0
           \/ r = [q EXCEPT !.life = "active", !.trash = 0]
    PROVE  /\ r.ver = q.ver /\ r.life # "none"
           /\ r.ver # 0 \/ r.life = "active" => r.trash = 0
  <1>1. CASE r = q
    BY <1>1
  <1>2. CASE r = [q EXCEPT !.sha = b]
    <2>1. r.life = q.life /\ r.ver = q.ver /\ r.trash = q.trash
      BY <1>2 DEF FileRecords
    <2> QED
      BY <2>1
  <1>3. CASE r = [q EXCEPT !.life = "purged"]
    <2>1. r.life = "purged" /\ r.ver = q.ver /\ r.trash = q.trash
      BY <1>3 DEF FileRecords
    <2> QED
      BY <2>1
  <1>4. CASE r = [q EXCEPT !.life = "soft"]
    <2>1. r.life = "soft" /\ r.ver = q.ver /\ r.trash = q.trash
      BY <1>4 DEF FileRecords
    <2> QED
      BY <2>1
  <1>5. CASE r = [q EXCEPT !.trash = n] /\ q.life # "active" /\ q.ver = 0
    <2>1. r.life = q.life /\ r.ver = q.ver
      BY <1>5 DEF FileRecords
    <2> QED
      BY <1>5, <2>1
  <1>6. CASE r = [q EXCEPT !.life = "active", !.trash = 0]
    <2>1. r.life = "active" /\ r.ver = q.ver /\ r.trash = 0
      BY <1>6 DEF FileRecords
    <2> QED
      BY <2>1
  <1> QED
    BY <1>1, <1>2, <1>3, <1>4, <1>5, <1>6

\* A step relabels a record, indexes one, or makes one point to a version.
LEMMA StepRelabels ==
    ASSUME FileTypeOK, Chain, Steps, ftodo.step # NoStep, Moved(ftodo.step),
           ftodo.step.k \in RecordKinds \ {"index", "history"}
    PROVE  \E f \in FileIds, r \in FileRecords : Relabelled(f, r) /\ frec' = [frec EXCEPT ![f] = r]
  <1> DEFINE s == ftodo.step
             r == Updated(s)
  <1>1. s.f \in FileIds /\ frec' = [frec EXCEPT ![s.f] = r] /\ frec[s.f] \in FileRecords
    BY StepParts, StepEffects, DiskParts
  <1>2. Recorded(s.f)
    BY DEF Steps, StepOK, RecordKinds
  <1>3. r \in FileRecords
    BY UpdatedType, Zenon DEF RecordKinds
  <1>4. /\ frec[s.f].life # "none"
        /\ frec[s.f].ver # 0 \/ frec[s.f].life = "active" => frec[s.f].trash = 0
    BY <1>1, <1>2 DEF Chain, RecordShape
  <1>5. /\ s.k = "trashPath" => frec[s.f].life # "active" /\ frec[s.f].ver = 0
    BY DEF Steps, StepOK
  <1>7. s.k \in {"sha", "purge", "soft", "trashPath", "active"}
    BY DEF RecordKinds
  <1> HIDE DEF s
  <1>a. /\ s.k = "sha" => r = [frec[s.f] EXCEPT !.sha = s.bytes]
        /\ s.k = "purge" => r = [frec[s.f] EXCEPT !.life = "purged"]
        /\ s.k = "soft" => r = frec[s.f] \/ r = [frec[s.f] EXCEPT !.life = "soft"]
        /\ s.k = "trashPath" => r = [frec[s.f] EXCEPT !.trash = s.n]
        /\ s.k = "active" => r = [frec[s.f] EXCEPT !.life = "active", !.trash = 0]
    BY DEF Updated
  <1> HIDE DEF r
  <1>8. /\ r.ver = frec[s.f].ver /\ r.life # "none"
        /\ r.ver # 0 \/ r.life = "active" => r.trash = 0
    <2>1. CASE s.k = "sha"
      BY <1>1, <1>4, <1>a, <2>1, RelabelFields, Zenon
    <2>2. CASE s.k = "purge"
      BY <1>1, <1>4, <1>a, <2>2, RelabelFields, Zenon
    <2>3. CASE s.k = "soft"
      BY <1>1, <1>4, <1>a, <2>3, RelabelFields, Zenon
    <2>4. CASE s.k = "trashPath"
      BY <1>1, <1>4, <1>5, <1>a, <2>4, RelabelFields, Zenon
    <2>5. CASE s.k = "active"
      BY <1>1, <1>4, <1>a, <2>5, RelabelFields, Zenon
    <2> QED
      BY <1>7, <2>1, <2>2, <2>3, <2>4, <2>5
  <1>9. Relabelled(s.f, r)
    BY <1>2, <1>3, <1>8 DEF Relabelled
  <1> QED
    BY <1>1, <1>3, <1>9

\* Every step keeps the records of a path in order.
LEMMA RecordStep ==
    ASSUME FileTypeOK, Chain, Intents, Todo, Steps, [FileNext]_fileVars
    PROVE  Chain' /\ RecordsFollow
  <1>1. /\ frec \in [FileIds -> FileRecords] /\ fwrites' \in Nat /\ fwrites <= fwrites'
        /\ \A g \in FileIds : frec[g].ver \in Nat
    BY DiskParts, WritesCounted, RecordParts
  <1>2. ASSUME \/ frec' = frec
               \/ \E f \in FileIds, r \in FileRecords : Relabelled(f, r) /\ frec' = [frec EXCEPT ![f] = r]
        PROVE  Chain' /\ RecordsFollow
    <2>1. /\ Chain' /\ \A g \in FileIds : frec'[g].ver = frec[g].ver /\ (Recorded(g)' <=> Recorded(g))
          /\ \A g \in FileIds : Heading(g)' <=> Heading(g)
      BY <1>1, <1>2, ChainRelabelled
    <2> QED
      BY <2>1 DEF RecordsFollow, Awaited
  <1>3. CASE FileStepDone
    <2> DEFINE s == ftodo.step
    <2>1. s # NoStep /\ Moved(s) /\ fwrites' = fwrites
      BY <1>3 DEF FileStepDone, FileRest
    <2>2. StepOK(s) /\ s.f \in FileIds /\ s.bytes \in Bytes
      BY <2>1, StepParts DEF Steps
    <2>3. CASE s.k \notin RecordKinds
      BY <1>2, <2>1, <2>3, StepEffects
    <2>4. CASE s.k \in RecordKinds \ {"index", "history"}
      BY <1>2, <2>1, <2>4, StepRelabels
    <2>5. CASE s.k = "index"
      <3>1. frec' = [frec EXCEPT ![s.f] = Updated(s)]
        BY <2>1, <2>5, StepEffects DEF RecordKinds
      <3>2. Updated(s) = ActiveRecord(s.bytes)
        BY <2>5 DEF Updated
      <3>3. ~Recorded(s.f) /\ Awaited(s.f)
        BY <2>2, <2>5 DEF StepOK
      <3>4. frec' = [frec EXCEPT ![s.f] = ActiveRecord(s.bytes)]
        BY <3>1, <3>2
      <3> HIDE DEF s
      <3>5. /\ Chain' /\ \A g \in FileIds : frec'[g].ver = frec[g].ver
            /\ \A g \in FileIds : Recorded(g)' <=> Recorded(g) \/ g = s.f
            /\ \A g \in FileIds : g # s.f => (Heading(g)' <=> Heading(g))
        BY <2>1, <2>2, <3>3, <3>4, ChainIndexed
      <3> QED
        BY <3>3, <3>5 DEF RecordsFollow, Awaited
    <2>6. CASE s.k = "history"
      <3>1. frec' = [frec EXCEPT ![s.f] = Updated(s)]
        BY <2>1, <2>6, StepEffects DEF RecordKinds
      <3>2. Updated(s) = [frec[s.f] EXCEPT !.ver = s.n, !.sha = s.bytes]
        BY <2>6, Zenon DEF Updated
      <3>a. /\ frec'[s.f].ver = s.n /\ frec'[s.f].life = frec[s.f].life
            /\ frec'[s.f].trash = frec[s.f].trash
        <4>1. frec'[s.f] = Updated(s) /\ frec[s.f] \in FileRecords
          BY <1>1, <2>2, <3>1
        <4>2. frec'[s.f] = [frec[s.f] EXCEPT !.ver = s.n, !.sha = s.bytes]
          BY <3>2, <4>1, Zenon
        <4>3. PICK q \in FileRecords : q = frec[s.f]
          BY <4>1
        <4>4. frec'[s.f] = [q EXCEPT !.ver = s.n, !.sha = s.bytes]
          BY <4>2, <4>3, Zenon
        <4> HIDE DEF s
        <4>5. frec'[s.f].ver = s.n /\ frec'[s.f].life = q.life /\ frec'[s.f].trash = q.trash
          BY <4>4 DEF FileRecords
        <4> QED
          BY <4>3, <4>5
      <3>3. \A g \in FileIds : g # s.f => frec'[g] = frec[g]
        BY <1>1, <2>2, <3>1
      <3>4. /\ Recorded(s.f) /\ s.n = ftodo.m /\ ftodo.m # 0 /\ frec[s.f].ver = 0 /\ frec[s.f].trash = 0
            /\ \E i \in fintent[ftodo.m] : i.f = s.f
        BY <2>2, <2>6 DEF StepOK
      <3>5. s.n \in 1..MaxWrites
        BY <3>4, TodoParts
      <3>6. s.n <= fwrites /\ \A g \in FileIds : g[1] = s.f[1] /\ frec[g].ver = s.n => g = s.f
        BY <3>4, <3>5 DEF Intents
      <3> HIDE DEF s
      <3>b. Recorded(s.f) /\ frec[s.f].ver = 0 /\ frec[s.f].trash = 0 /\ fwrites' = fwrites
        BY <2>1, <3>4
      <3>c. s.f \in FileIds /\ s.n <= fwrites
            /\ \A g \in FileIds : g[1] = s.f[1] /\ frec[g].ver = s.n => g = s.f
        BY <2>2, <3>6
      <3>7. /\ Chain'
            /\ \A g \in FileIds : Recorded(g)' <=> Recorded(g)
        BY <3>c, <3>3, <3>5, <3>a, <3>b, ChainHistory
      <3>8. ASSUME NEW g \in FileIds, ~Recorded(g), Heading(g) PROVE Heading(g)'
        <4>1. PICK h \in FileIds : h[1] = g[1] /\ frec[h].ver = g[2] /\ g[2] # 0
          BY <3>8 DEF Heading
        <4>2. h # s.f
          BY <3>4, <4>1
        <4> QED
          BY <3>3, <3>7, <3>8, <4>1, <4>2 DEF Heading
      <3>9. \A g \in FileIds : Awaited(g) => Awaited(g)'
        BY <3>7, <3>8 DEF Awaited
      <3> QED
        BY <3>3, <3>4, <3>7, <3>9, <3>a, <2>1, <2>6 DEF RecordsFollow, s
    <2> QED
      BY <2>3, <2>4, <2>5, <2>6
  <1>4. CASE CopyVersion \/ LogIntent \/ DropIntent \/ WriterPuts \/ FileStepRaises
    BY <1>2, <1>4 DEF CopyVersion, LogIntent, DropIntent, WriterPuts, FileStepRaises
  <1>5. CASE UNCHANGED fdisk
    BY <1>2, <1>5 DEF fdisk
  <1>6. ASSUME NEW f \in FileIds, RecycleUnlocked(f) PROVE Chain' /\ RecordsFollow
    <2>1. frec' = [frec EXCEPT ![f] = [frec[f] EXCEPT !.life = "soft"]] /\ frec[f].life = "active"
      BY <1>1, <1>6 DEF RecycleUnlocked
    <2>2. \A r \in FileRecords, life \in {"none", "active", "soft", "purged"} :
             [r EXCEPT !.life = life] \in FileRecords
      BY Zenon DEF FileRecords
    <2>3. \A r \in FileRecords : /\ [r EXCEPT !.life = "soft"].life = "soft"
                                 /\ [r EXCEPT !.life = "soft"].ver = r.ver
                                 /\ [r EXCEPT !.life = "soft"].trash = r.trash
      BY DEF FileRecords
    <2> DEFINE q == [frec[f] EXCEPT !.life = "soft"]
    <2>4. q \in FileRecords /\ q.life = "soft" /\ q.ver = frec[f].ver /\ q.trash = frec[f].trash
      BY <1>1, <2>2, <2>3
    <2>5. Recorded(f) /\ (frec[f].ver # 0 \/ frec[f].life = "active" => frec[f].trash = 0)
      BY <2>1, RecordedParts DEF Chain, RecordShape
    <2> HIDE DEF q
    <2>6. Relabelled(f, q)
      BY <2>1, <2>4, <2>5 DEF Relabelled
    <2>7. frec' = [frec EXCEPT ![f] = q]
      BY <2>1 DEF q
    <2> QED
      BY <1>2, <2>4, <2>6, <2>7
  <1> QED
    BY <1>3, <1>4, <1>5, <1>6, FileCases

-----------------------------------------------------------------------------
(* What is left to do after each action.                                   *)

LEMMA IdleParts ==
    ASSUME FileTypeOK
    PROVE  /\ Idle.step = NoStep /\ Idle.m = 0 /\ Idle.log = FALSE /\ Idle.copies = {}
           /\ Idle.puts = {} /\ Idle.items = {} /\ Idle.commits = {} /\ Idle.intents = {}
           /\ \A step : /\ [Idle EXCEPT !.step = step].step = step
                        /\ [Idle EXCEPT !.step = step].m = 0 /\ [Idle EXCEPT !.step = step].log = FALSE
                        /\ [Idle EXCEPT !.step = step].copies = {} /\ [Idle EXCEPT !.step = step].puts = {}
                        /\ [Idle EXCEPT !.step = step].items = {}
                        /\ [Idle EXCEPT !.step = step].commits = {}
  BY DEF Idle

\* An operation that has one step to do.
LEMMA TodoOfFileDoes ==
    ASSUME FileTypeOK, NEW step, FileDoes(step)
    PROVE  /\ ftodo = Idle
           /\ ftodo'.step = step /\ ftodo'.m = 0 /\ ftodo'.log = FALSE /\ ftodo'.copies = {}
           /\ ftodo'.puts = {} /\ ftodo'.items = {} /\ ftodo'.commits = {}
  BY DEF FileDoes, FileBegin, Idle

LEMMA TodoOfFileStepDone ==
    ASSUME FileTypeOK, FileStepDone
    PROVE  /\ ftodo'.step = Follows(ftodo.step)
           /\ ftodo'.m = ftodo.m /\ ftodo'.log = ftodo.log /\ ftodo'.copies = ftodo.copies
           /\ ftodo'.puts = ftodo.puts /\ ftodo'.items = ftodo.items /\ ftodo'.commits = ftodo.commits
  <1>1. ftodo \in FileTodos /\ ftodo' = [ftodo EXCEPT !.step = Follows(ftodo.step)]
    BY DEF FileTypeOK, FileStepDone
  <1> QED
    BY <1>1 DEF FileTodos

LEMMA TodoOfCopyVersion ==
    ASSUME FileTypeOK, CopyVersion
    PROVE  /\ \E i \in ftodo.copies : /\ fver' = [fver EXCEPT ![<<i.f[1], ftodo.m>>] = i.before]
                                      /\ ftodo'.copies = ftodo.copies \ {i}
           /\ ftodo'.step = ftodo.step /\ ftodo'.m = ftodo.m /\ ftodo'.log = ftodo.log
           /\ ftodo'.puts = ftodo.puts /\ ftodo'.items = ftodo.items /\ ftodo'.commits = ftodo.commits
  <1>1. PICK i \in ftodo.copies : /\ fver' = [fver EXCEPT ![<<i.f[1], ftodo.m>>] = i.before]
                                  /\ ftodo' = [ftodo EXCEPT !.copies = @ \ {i}]
    BY DEF CopyVersion
  <1>2. ftodo \in FileTodos
    BY DEF FileTypeOK
  <1> QED
    BY <1>1, <1>2 DEF FileTodos

LEMMA TodoOfLogIntent ==
    ASSUME FileTypeOK, LogIntent
    PROVE  /\ ftodo'.log = FALSE /\ ftodo'.copies = ftodo.copies
           /\ ftodo'.step = ftodo.step /\ ftodo'.m = ftodo.m
           /\ ftodo'.puts = ftodo.puts /\ ftodo'.items = ftodo.items /\ ftodo'.commits = ftodo.commits
  <1>1. ftodo \in FileTodos /\ ftodo' = [ftodo EXCEPT !.log = FALSE]
    BY DEF FileTypeOK, LogIntent
  <1> QED
    BY <1>1 DEF FileTodos

LEMMA TodoOfWriterPuts ==
    ASSUME FileTypeOK, WriterPuts
    PROVE  /\ \E w \in ftodo.puts : /\ fpath' = [fpath EXCEPT ![w[1]] = w[2]]
                                    /\ ftodo'.puts = ftodo.puts \ {w}
           /\ ftodo'.step = ftodo.step /\ ftodo'.m = ftodo.m /\ ftodo'.log = ftodo.log
           /\ ftodo'.copies = ftodo.copies /\ ftodo'.items = ftodo.items /\ ftodo'.commits = ftodo.commits
  <1>1. PICK w \in ftodo.puts : /\ fpath' = [fpath EXCEPT ![w[1]] = w[2]]
                                /\ ftodo' = [ftodo EXCEPT !.puts = @ \ {w}]
    BY DEF WriterPuts
  <1>2. ftodo \in FileTodos
    BY DEF FileTypeOK
  <1> QED
    BY <1>1, <1>2 DEF FileTodos

LEMMA TodoOfDropIntent ==
    ASSUME FileTypeOK, DropIntent
    PROVE  /\ ftodo'.m = 0 /\ ftodo'.copies = ftodo.copies /\ ftodo'.log = ftodo.log
           /\ ftodo'.step = ftodo.step
           /\ ftodo'.puts = ftodo.puts /\ ftodo'.items = ftodo.items /\ ftodo'.commits = ftodo.commits
  <1>1. ftodo \in FileTodos /\ ftodo' = [ftodo EXCEPT !.m = 0]
    BY DEF FileTypeOK, DropIntent
  <1> QED
    BY <1>1 DEF FileTodos

LEMMA TodoOfRaised ==
    ASSUME FileTypeOK, ftodo' = Raised
    PROVE  /\ ftodo'.step = NoStep /\ ftodo'.m = 0 /\ ftodo'.items = {}
           /\ ftodo'.copies = ftodo.copies /\ ftodo'.log = ftodo.log
           /\ ftodo'.puts = ftodo.puts /\ ftodo'.commits = ftodo.commits
  <1>1. ftodo \in FileTodos /\ ftodo' = [ftodo EXCEPT !.step = NoStep, !.m = 0, !.items = {}]
    BY DEF FileTypeOK, Raised
  <1> QED
    BY <1>1 DEF FileTodos

LEMMA TodoOfSettleItem ==
    ASSUME FileTypeOK, SettleItem
    PROVE  /\ \/ ftodo'.step = NoStep /\ ftodo'.m = 0 /\ ftodo'.items = {}
              \/ \E i \in ftodo.items : /\ ~SettleRaises(i, ftodo.m) /\ ftodo'.items = ftodo.items \ {i}
                                        /\ ftodo'.step = SettleStep(i, ftodo.m) /\ ftodo'.m = ftodo.m
           /\ ftodo'.copies = ftodo.copies /\ ftodo'.log = ftodo.log
           /\ ftodo'.puts = ftodo.puts /\ ftodo'.commits = ftodo.commits
  <1>1. PICK i \in ftodo.items :
           ftodo' = IF SettleRaises(i, ftodo.m) THEN Raised
                    ELSE [ftodo EXCEPT !.items = @ \ {i}, !.step = SettleStep(i, ftodo.m)]
    BY DEF SettleItem
  <1>2. ftodo \in FileTodos
    BY DEF FileTypeOK
  <1>3. CASE SettleRaises(i, ftodo.m)
    BY <1>1, <1>3, TodoOfRaised
  <1>4. CASE ~SettleRaises(i, ftodo.m)
    <2>1. ftodo' = [ftodo EXCEPT !.items = @ \ {i}, !.step = SettleStep(i, ftodo.m)]
      BY <1>1, <1>4
    <2>2. /\ ftodo'.items = ftodo.items \ {i} /\ ftodo'.step = SettleStep(i, ftodo.m)
          /\ ftodo'.m = ftodo.m /\ ftodo'.copies = ftodo.copies /\ ftodo'.log = ftodo.log
          /\ ftodo'.puts = ftodo.puts /\ ftodo'.commits = ftodo.commits
      BY <1>2, <2>1 DEF FileTodos
    <2> QED
      BY <1>4, <2>2
  <1> QED
    BY <1>3, <1>4

LEMMA TodoOfAdoptCommit ==
    ASSUME FileTypeOK, AdoptCommit
    PROVE  /\ \E f \in ftodo.commits :
                 /\ ftodo'.commits = ftodo.commits \ {f}
                 /\ ftodo'.step = IF fpath[f[1]] # fcommit[f] THEN NoStep
                                  ELSE IF frec[f] = NoRecord THEN FileStep("index", f, fcommit[f], 0)
                                  ELSE FileStep("uncommit", f, NoBytes, 0)
           /\ ftodo'.m = ftodo.m /\ ftodo'.log = ftodo.log /\ ftodo'.copies = ftodo.copies
           /\ ftodo'.puts = ftodo.puts /\ ftodo'.items = ftodo.items
  <1>1. PICK f \in ftodo.commits :
          ftodo' = [ftodo EXCEPT !.commits = @ \ {f},
                      !.step = IF fpath[f[1]] # fcommit[f] THEN NoStep
                               ELSE IF frec[f] = NoRecord THEN FileStep("index", f, fcommit[f], 0)
                               ELSE FileStep("uncommit", f, NoBytes, 0)]
    BY DEF AdoptCommit
  <1>2. ftodo \in FileTodos
    BY DEF FileTypeOK
  <1> QED
    BY <1>1, <1>2 DEF FileTodos

LEMMA TodoOfReopenIntent ==
    ASSUME FileTypeOK, ReopenIntent
    PROVE  /\ \E m \in ftodo.intents : ftodo'.m = m /\ ftodo'.items = fintent[m]
           /\ ftodo'.step = ftodo.step /\ ftodo'.log = ftodo.log /\ ftodo'.copies = ftodo.copies
           /\ ftodo'.puts = ftodo.puts /\ ftodo'.commits = ftodo.commits
  <1>1. PICK m \in ftodo.intents :
          ftodo' = [ftodo EXCEPT !.m = m, !.items = fintent[m], !.intents = @ \ {m}]
    BY DEF ReopenIntent
  <1>2. ftodo \in FileTodos
    BY DEF FileTypeOK
  <1> QED
    BY <1>1, <1>2 DEF FileTodos

LEMMA TodoOfReconcileFiles ==
    ASSUME FileTypeOK, ReconcileFiles
    PROVE  /\ ftodo = Idle
           /\ ftodo'.step = NoStep /\ ftodo'.m = 0 /\ ftodo'.log = FALSE /\ ftodo'.copies = {}
           /\ ftodo'.puts = {} /\ ftodo'.items = {}
           /\ \A f \in ftodo'.commits : f \in FileIds /\ fcommit[f] # NoBytes
  <1> DEFINE c == {f \in FileIds : fcommit[f] # NoBytes
                                   /\ frec[f] \in {NoRecord, ActiveRecord(fcommit[f])}}
             n == {m \in 1..MaxWrites : fintent[m] # {}}
  <1>1. ftodo = Idle /\ ftodo' = [Idle EXCEPT !.commits = c, !.intents = n]
    BY DEF ReconcileFiles, FileBegin
  <1>2. \A f \in c : f \in FileIds /\ fcommit[f] # NoBytes
    OBVIOUS
  <1> HIDE DEF c, n
  <1>3. /\ ftodo'.step = NoStep /\ ftodo'.m = 0 /\ ftodo'.log = FALSE /\ ftodo'.copies = {}
        /\ ftodo'.puts = {} /\ ftodo'.items = {} /\ ftodo'.commits = c
    BY <1>1 DEF Idle
  <1> QED
    BY <1>1, <1>2, <1>3

LEMMA TodoOfRaises ==
    ASSUME FileTypeOK, FileStepRaises
    PROVE  \/ /\ ftodo.log /\ ftodo' = Idle
              /\ fver' = [f \in FileIds |-> IF f[2] = ftodo.m THEN NoBytes ELSE fver[f]]
           \/ /\ ~ftodo.log /\ ftodo.puts # {} /\ fver' = fver
              /\ ftodo'.puts = {} /\ ftodo'.copies = ftodo.copies /\ ftodo'.log = ftodo.log
              /\ ftodo'.step = ftodo.step /\ ftodo'.m = ftodo.m
              /\ ftodo'.items = ftodo.items /\ ftodo'.commits = ftodo.commits
           \/ ~ftodo.log /\ ftodo.puts = {} /\ fver' = fver /\ ftodo' = Raised
  <1>1. ftodo \in FileTodos
    BY DEF FileTypeOK
  <1>2. ASSUME ftodo' = [ftodo EXCEPT !.puts = {}]
        PROVE  /\ ftodo'.puts = {} /\ ftodo'.copies = ftodo.copies /\ ftodo'.log = ftodo.log
               /\ ftodo'.step = ftodo.step /\ ftodo'.m = ftodo.m
               /\ ftodo'.items = ftodo.items /\ ftodo'.commits = ftodo.commits
    BY <1>1, <1>2 DEF FileTodos
  <1> QED
    BY <1>2 DEF FileStepRaises

\* What a governed write takes on.
GovernedItems(scope) ==
    {[f |-> f, rec |-> frec[f], before |-> fpath[f[1]], ver |-> f \in fref] : f \in Governed(scope)}

LEMMA TodoOfGovernedWrite ==
    ASSUME FileTypeOK, NEW scope \in (SUBSET FilePaths) \ {{}},
           NEW after \in [scope -> FileBytes \cup {NoBytes}], GovernedWrite(scope, after)
    PROVE  /\ ftodo = Idle /\ ~WriteRefused(scope) /\ fwrites' = fwrites + 1
           /\ fwrites + 1 \in 1..MaxWrites
           /\ ftodo'.step = NoStep /\ ftodo'.commits = {}
           /\ ftodo'.items = GovernedItems(scope)
           /\ ftodo'.m = IF GovernedItems(scope) = {} THEN 0 ELSE fwrites + 1
           /\ ftodo'.log = (GovernedItems(scope) # {})
           /\ ftodo'.copies = {i \in GovernedItems(scope) : i.ver}
           /\ \A w \in ftodo'.puts : w[1] \in scope
           /\ UNCHANGED <<fdisk, fref, fkept, fdelete>>
  <1> DEFINE puts == {<<p, after[p]>> : p \in scope}
             copies == {i \in GovernedItems(scope) : i.ver}
             items == GovernedItems(scope)
             m == IF items = {} THEN 0 ELSE fwrites + 1
             log == items # {}
  <1>1. /\ ftodo = Idle /\ ~WriteRefused(scope) /\ fwrites' = fwrites + 1 /\ fwrites < MaxWrites
        /\ ftodo' = [Idle EXCEPT !.m = m, !.copies = copies, !.log = log, !.puts = puts, !.items = items]
        /\ UNCHANGED <<fdisk, fref, fkept, fdelete>>
    BY Zenon DEF GovernedWrite, FileBegin, GovernedItems
  <1>2. fwrites + 1 \in 1..MaxWrites
    BY <1>1, TodoParts
  <1>3. \A w \in puts : w[1] \in scope
    OBVIOUS
  <1> HIDE DEF puts, copies, items, m, log
  <1>4. /\ ftodo'.step = NoStep /\ ftodo'.commits = {} /\ ftodo'.items = items /\ ftodo'.m = m
        /\ ftodo'.log = log /\ ftodo'.copies = copies /\ ftodo'.puts = puts
    BY <1>1 DEF Idle
  <1> QED
    BY <1>1, <1>2, <1>3, <1>4 DEF m, log, copies, items

LEMMA GovernedItemParts ==
    ASSUME FileTypeOK, Chain, NEW scope, ~WriteRefused(scope), NEW i \in GovernedItems(scope)
    PROVE  /\ i.f \in Governed(scope) /\ i.rec = frec[i.f] /\ i.before = fpath[i.f[1]]
           /\ i.ver <=> i.f \in fref
           /\ ItemOK(i)
  <1>1. PICK f \in Governed(scope) :
           i = [f |-> f, rec |-> frec[f], before |-> fpath[f[1]], ver |-> f \in fref]
    BY DEF GovernedItems
  <1>2. /\ i.f = f /\ i.rec = frec[f] /\ i.before = fpath[f[1]] /\ i.ver = (f \in fref)
    BY <1>1
  <1>3. /\ f \in FileIds /\ frec[f].life = "active" /\ frec[f].ver = 0 /\ fpath[f[1]] # NoBytes
    BY DEF Governed
  <1>4. frec[f] \in FileRecords /\ fpath[f[1]] \in Bytes
    BY <1>3, DiskParts, FileIdParts
  <1>8. (f \in fref) \in BOOLEAN
    OBVIOUS
  <1>5. i \in FileItems
    BY <1>1, <1>3, <1>4, <1>8, Zenon DEF FileItems
  <1>6. Recorded(f) /\ frec[f].trash = 0
    BY <1>3, RecordedParts DEF Chain, RecordShape
  <1>7. f \in fref => fpath[f[1]] = frec[f].sha
    BY DEF WriteRefused
  <1> QED
    BY <1>2, <1>3, <1>5, <1>6, <1>7 DEF ItemOK

LEMMA GovernedOnePerPath ==
    ASSUME NEW scope, ~WriteRefused(scope)
    PROVE  OnePerPath(GovernedItems(scope))
  BY DEF OnePerPath, WriteRefused, GovernedItems

-----------------------------------------------------------------------------
(* Intents, and a write that is being prepared.                            *)

\* An operation under the lock begins.
LEMMA FileOperations ==
    ASSUME FileTypeOK,
           \/ DeleteFile
           \/ \E p \in FilePaths, bytes \in FileBytes : CreateFile(p, bytes)
           \/ \E f \in FileIds : TrashFile(f) \/ ReconcileTrash(f) \/ RestoreFile(f)
    PROVE  /\ \E step : FileDoes(step)
           /\ ftodo = Idle /\ ftodo'.m = 0 /\ ftodo'.log = FALSE /\ ftodo'.copies = {}
           /\ ftodo'.puts = {} /\ ftodo'.items = {} /\ ftodo'.commits = {}
           /\ fintent' = fintent /\ fwrites' = fwrites /\ fcommit' = fcommit
  <1>1. \E step : FileDoes(step)
    BY DEF DeleteFile, CreateFile, TrashFile, ReconcileTrash, RestoreFile
  <1>2. fintent' = fintent /\ fwrites' = fwrites /\ fcommit' = fcommit
    BY DEF DeleteFile, CreateFile, TrashFile, ReconcileTrash, RestoreFile, fdisk, FileRest
  <1> QED
    BY <1>1, <1>2, TodoOfFileDoes

\* Actions that leave what is to be done.
LEMMA TodoStays ==
    ASSUME \/ UNCHANGED fileVars
           \/ \E f \in FileIds :
                 \/ \E permanent, force \in BOOLEAN : DeleteCheck(f, permanent, force)
                 \/ AddReference(f) \/ DropReference(f) \/ RecycleUnlocked(f)
    PROVE  /\ ftodo' = ftodo
           /\ UNCHANGED <<fpath, fver, ftrash, fcommit, fintent, fwrites>>
  BY DEF fileVars, fdisk, DeleteCheck, AddReference, DropReference, RecycleUnlocked

LEMMA LogKept ==
    ASSUME FileTypeOK, Todo, [FileNext]_fileVars, ftodo'.log
    PROVE  \/ \E scope \in (SUBSET FilePaths) \ {{}} :
                 \E after \in [scope -> FileBytes \cup {NoBytes}] : GovernedWrite(scope, after)
           \/ /\ ftodo.log /\ ftodo'.m = ftodo.m /\ ftodo'.items = ftodo.items
              /\ fintent' = fintent /\ fwrites' = fwrites /\ ftodo'.copies \subseteq ftodo.copies
  <1>1. CASE FileStepDone
    BY <1>1, TodoOfFileStepDone DEF FileStepDone, Todo
  <1>2. CASE CopyVersion
    BY <1>2, TodoOfCopyVersion DEF CopyVersion, FileRest
  <1>3. CASE LogIntent
    BY <1>3, TodoOfLogIntent
  <1>4. CASE DropIntent
    BY <1>4, TodoOfDropIntent DEF DropIntent, Settling
  <1>5. CASE WriterPuts
    BY <1>5, TodoOfWriterPuts DEF WriterPuts
  <1>6. CASE FileStepRaises
    BY <1>6, TodoOfRaises, TodoOfRaised, IdleParts
  <1>7. CASE SettleItem
    BY <1>7, TodoOfSettleItem DEF SettleItem, Settling
  <1>8. CASE AdoptCommit
    BY <1>8, TodoOfAdoptCommit DEF AdoptCommit, Todo
  <1>9. CASE ReopenIntent
    BY <1>9, TodoOfReopenIntent DEF ReopenIntent, Todo
  <1>a. CASE FileHolderDies
    BY <1>a, IdleParts DEF FileHolderDies
  <1>b. CASE ReconcileFiles
    BY <1>b, TodoOfReconcileFiles
  <1>c. CASE \/ DeleteFile
             \/ \E p \in FilePaths, bytes \in FileBytes : CreateFile(p, bytes)
             \/ \E f \in FileIds : TrashFile(f) \/ ReconcileTrash(f) \/ RestoreFile(f)
    BY <1>c, FileOperations
  <1>d. CASE \/ UNCHANGED fileVars
             \/ \E f \in FileIds :
                   \/ \E permanent, force \in BOOLEAN : DeleteCheck(f, permanent, force)
                   \/ AddReference(f) \/ DropReference(f) \/ RecycleUnlocked(f)
    BY <1>d, TodoStays
  <1> QED
    BY <1>1, <1>2, <1>3, <1>4, <1>5, <1>6, <1>7, <1>8, <1>9, <1>a, <1>b, <1>c, <1>d DEF FileNext

\* Only LogIntent writes an intent.
LEMMA IntentChange ==
    ASSUME FileTypeOK, [FileNext]_fileVars
    PROVE  \/ fintent' = fintent
           \/ LogIntent /\ fintent' = [fintent EXCEPT ![ftodo.m] = ftodo.items]
           \/ DropIntent /\ fintent' = [fintent EXCEPT ![ftodo.m] = {}]
  BY FileCases DEF FileStepDone, CopyVersion, LogIntent, DropIntent, WriterPuts, FileStepRaises,
     RecycleUnlocked, fdisk

LEMMA ItemsFollow ==
    ASSUME RecordsFollow
    PROVE  \A i \in FileItems : ItemOK(i) => ItemOK(i)'
  BY ItemParts DEF RecordsFollow, ItemOK

\* The items of an intent are on files whose records point to no other write's version.
LEMMA IntentsStep ==
    ASSUME FileTypeOK, Intents, Preparing, Steps, RecordsFollow, [FileNext]_fileVars
    PROVE  Intents'
  <1>1. /\ fintent \in [1..MaxWrites -> SUBSET FileItems] /\ fwrites \in Nat /\ fwrites' \in Nat
        /\ fwrites <= fwrites' /\ MaxWrites \in Nat /\ ftodo.m \in 0..MaxWrites
    BY DiskParts, TodoParts, WritesCounted
  <1>2. \A i : ItemOK(i) => ItemOK(i)'
    BY ItemsFollow DEF ItemOK
  <1>3. SUFFICES ASSUME NEW m \in 1..MaxWrites
                 PROVE  /\ OnePerPath(fintent'[m])
                        /\ \A i \in fintent'[m] :
                              /\ ItemOK(i)' /\ m <= fwrites'
                              /\ \A g \in FileIds : g[1] = i.f[1] /\ frec'[g].ver = m => g = i.f
    BY DEF Intents, OnePerPath
  <1>4. CASE fintent'[m] = fintent[m]
    <2>1. OnePerPath(fintent'[m])
      BY <1>4 DEF Intents
    <2>2. SUFFICES ASSUME NEW i \in fintent[m]
                   PROVE  /\ ItemOK(i)' /\ m <= fwrites'
                          /\ \A g \in FileIds : g[1] = i.f[1] /\ frec'[g].ver = m => g = i.f
      BY <1>4, <2>1
    <2>3. /\ ItemOK(i) /\ m <= fwrites
          /\ \A g \in FileIds : g[1] = i.f[1] /\ frec[g].ver = m => g = i.f
          /\ OnePerPath(fintent[m])
      BY DEF Intents
    <2>4. ItemOK(i)' /\ m <= fwrites'
      BY <1>1, <1>2, <2>3
    <2>5. ASSUME NEW g \in FileIds, g[1] = i.f[1], frec'[g].ver = m PROVE g = i.f
      <3>1. CASE frec'[g].ver = frec[g].ver
        BY <2>3, <2>5, <3>1
      <3>2. CASE frec'[g].ver # frec[g].ver
        <4>1. /\ ftodo.step # NoStep /\ ftodo.step.k = "history" /\ g = ftodo.step.f /\ m = ftodo.m
          BY <2>5, <3>2 DEF RecordsFollow
        <4>2. \E j \in fintent[m] : j.f = g
          BY <4>1 DEF Steps, StepOK
        <4> QED
          BY <2>3, <2>5, <4>2 DEF OnePerPath
      <3> QED
        BY <3>1, <3>2
    <2> QED
      BY <2>4, <2>5
  <1>5. CASE LogIntent /\ m = ftodo.m
    <2>1. ftodo.log /\ fintent' = [fintent EXCEPT ![ftodo.m] = ftodo.items] /\ frec' = frec
          /\ fwrites' = fwrites
      BY <1>5 DEF LogIntent, FileRest
    <2>2. fintent'[m] = ftodo.items
      BY <1>1, <1>5, <2>1
    <2> QED
      BY <1>1, <1>2, <1>5, <2>1, <2>2 DEF Preparing
  <1>6. CASE DropIntent /\ m = ftodo.m
    <2>1. fintent'[m] = {}
      BY <1>1, <1>6 DEF DropIntent
    <2> QED
      BY <2>1 DEF OnePerPath
  <1>7. fintent'[m] = fintent[m] \/ ((LogIntent \/ DropIntent) /\ m = ftodo.m)
    BY <1>1, IntentChange
  <1> QED
    BY <1>4, <1>5, <1>6, <1>7

LEMMA PreparingStep ==
    ASSUME FileTypeOK, Chain, Intents, Preparing, Todo, RecordsFollow, [FileNext]_fileVars
    PROVE  Preparing'
  <1>1. \A i : ItemOK(i) => ItemOK(i)'
    BY ItemsFollow DEF ItemOK
  <1>2. SUFFICES ASSUME ftodo'.log
                 PROVE  /\ ftodo'.m = fwrites' /\ ftodo'.m # 0 /\ fintent'[ftodo'.m] = {}
                        /\ \A f \in FileIds : frec'[f].ver # ftodo'.m
                        /\ ftodo'.copies \subseteq ftodo'.items
                        /\ OnePerPath(ftodo'.items) /\ \A i \in ftodo'.items : ItemOK(i)'
    BY DEF Preparing, OnePerPath
  <1>3. ASSUME NEW scope \in (SUBSET FilePaths) \ {{}},
               NEW after \in [scope -> FileBytes \cup {NoBytes}], GovernedWrite(scope, after)
        PROVE  /\ ftodo'.m = fwrites' /\ ftodo'.m # 0 /\ fintent'[ftodo'.m] = {}
               /\ \A f \in FileIds : frec'[f].ver # ftodo'.m
               /\ ftodo'.copies \subseteq ftodo'.items
               /\ OnePerPath(ftodo'.items) /\ \A i \in ftodo'.items : ItemOK(i)'
    <2>1. /\ ~WriteRefused(scope) /\ fwrites' = fwrites + 1 /\ fwrites + 1 \in 1..MaxWrites
          /\ ftodo'.items = GovernedItems(scope)
          /\ ftodo'.copies = {i \in GovernedItems(scope) : i.ver}
          /\ ftodo'.m = IF GovernedItems(scope) = {} THEN 0 ELSE fwrites + 1
          /\ ftodo'.log = (GovernedItems(scope) # {})
          /\ fintent' = fintent /\ frec' = frec
      BY <1>3, TodoOfGovernedWrite DEF fdisk
    <2>2. ftodo'.m = fwrites + 1
      BY <1>2, <2>1
    <2>3. fwrites \in Nat
      BY TodoParts
    <2>4. fintent[fwrites + 1] = {}
      BY <2>1, <2>3 DEF Intents
    <2>5. \A f \in FileIds : frec[f].ver \in Nat /\ frec[f].ver <= fwrites
      BY DiskParts, RecordParts DEF Chain, RecordShape
    <2>6. \A i \in GovernedItems(scope) : ItemOK(i)'
      BY <1>1, <2>1, GovernedItemParts
    <2> QED
      BY <2>1, <2>2, <2>3, <2>4, <2>5, <2>6, GovernedOnePerPath
  <1>4. CASE /\ ftodo.log /\ ftodo'.m = ftodo.m /\ ftodo'.items = ftodo.items
             /\ fintent' = fintent /\ fwrites' = fwrites
             /\ ftodo'.copies \subseteq ftodo.copies
    <2>1. ftodo.step = NoStep
      BY <1>4 DEF Todo
    <2>2. \A f \in FileIds : frec'[f].ver = frec[f].ver
      BY <2>1 DEF RecordsFollow
    <2> QED
      BY <1>1, <1>4, <2>2 DEF Preparing
  <1> QED
    BY <1>2, <1>3, <1>4, LogKept

-----------------------------------------------------------------------------
(* What is left to do, and the commits.                                    *)

LEMMA TodoStep ==
    ASSUME FileTypeOK, Todo, [FileNext]_fileVars
    PROVE  Todo'
  <1>0. /\ fintent \in [1..MaxWrites -> SUBSET FileItems] /\ MaxWrites \in Nat /\ ftodo.m \in 0..MaxWrites
    BY DiskParts, TodoParts
  <1>1. CASE FileStepDone
    <2>1. /\ fintent' = fintent /\ ftodo.step # NoStep
      BY <1>1 DEF FileStepDone
    <2> QED
      BY <1>1, <2>1, TodoOfFileStepDone DEF Todo
  <1>2. CASE CopyVersion
    <2>1. fintent' = fintent
      BY <1>2 DEF CopyVersion
    <2>2. ftodo.copies # {}
      BY <1>2 DEF CopyVersion
    <2> QED
      BY <1>2, <2>1, <2>2, TodoOfCopyVersion DEF Todo
  <1>3. CASE LogIntent
    <2>1. ftodo.log /\ ftodo.copies = {} /\ fintent' = [fintent EXCEPT ![ftodo.m] = ftodo.items]
      BY <1>3 DEF LogIntent
    <2>2. ftodo.m # 0
      BY <2>1 DEF Todo
    <2>3. fintent'[ftodo.m] = ftodo.items
      BY <1>0, <2>1, <2>2
    <2> QED
      BY <1>3, <2>1, <2>2, <2>3, TodoOfLogIntent DEF Todo
  <1>4. CASE DropIntent
    <2>1. ~ftodo.log /\ ftodo.items = {} /\ ftodo.puts = {} /\ ftodo.step = NoStep
      BY <1>4 DEF DropIntent, Settling
    <2> QED
      BY <1>4, <2>1, TodoOfDropIntent DEF Todo
  <1>5. CASE WriterPuts
    <2>1. ~ftodo.log /\ ftodo.puts # {} /\ fintent' = fintent
      BY <1>5 DEF WriterPuts
    <2> QED
      BY <1>5, <2>1, TodoOfWriterPuts DEF Todo
  <1>6. CASE FileStepRaises
    <2>1. fintent' = fintent
      BY <1>6 DEF FileStepRaises
    <2> QED
      BY <1>6, <2>1, TodoOfRaises, TodoOfRaised, IdleParts DEF Todo
  <1>7. CASE SettleItem
    <2>1. ~ftodo.log /\ ftodo.puts = {} /\ ftodo.m # 0 /\ fintent' = fintent
      BY <1>7 DEF SettleItem, Settling, fdisk
    <2> QED
      BY <1>7, <2>1, TodoOfSettleItem DEF Todo
  <1>8. CASE AdoptCommit
    <2>1. ftodo.commits # {} /\ fintent' = fintent
      BY <1>8 DEF AdoptCommit, fdisk
    <2> QED
      BY <1>8, <2>1, TodoOfAdoptCommit DEF Todo
  <1>9. CASE ReopenIntent
    <2>1. ftodo.commits = {} /\ ftodo.m = 0 /\ ftodo.step = NoStep /\ fintent' = fintent
      BY <1>9 DEF ReopenIntent, fdisk
    <2>2. \A m \in ftodo.intents : m # 0
      BY TodoParts
    <2> QED
      BY <1>9, <2>1, <2>2, TodoOfReopenIntent DEF Todo
  <1>a. CASE FileHolderDies
    BY <1>a, IdleParts DEF FileHolderDies, Todo
  <1>b. CASE ReconcileFiles
    BY <1>b, TodoOfReconcileFiles DEF Todo
  <1>c. CASE \/ DeleteFile
             \/ \E p \in FilePaths, bytes \in FileBytes : CreateFile(p, bytes)
             \/ \E f \in FileIds : TrashFile(f) \/ ReconcileTrash(f) \/ RestoreFile(f)
    BY <1>c, FileOperations DEF Todo
  <1>d. CASE \/ UNCHANGED fileVars
             \/ \E f \in FileIds :
                   \/ \E permanent, force \in BOOLEAN : DeleteCheck(f, permanent, force)
                   \/ AddReference(f) \/ DropReference(f) \/ RecycleUnlocked(f)
    BY <1>d, TodoStays DEF Todo
  <1>e. ASSUME NEW scope \in (SUBSET FilePaths) \ {{}},
               NEW after \in [scope -> FileBytes \cup {NoBytes}], GovernedWrite(scope, after)
        PROVE  Todo'
    <2>1. /\ ftodo'.step = NoStep /\ ftodo'.commits = {}
          /\ ftodo'.items = GovernedItems(scope)
          /\ ftodo'.m = IF GovernedItems(scope) = {} THEN 0 ELSE fwrites + 1
          /\ ftodo'.log = (GovernedItems(scope) # {})
          /\ ftodo'.copies = {i \in GovernedItems(scope) : i.ver} /\ fwrites \in Nat
      BY <1>e, TodoOfGovernedWrite, TodoParts
    <2>2. CASE GovernedItems(scope) = {}
      BY <2>1, <2>2 DEF Todo
    <2>3. CASE GovernedItems(scope) # {}
      <3>1. ftodo'.m # 0
        BY <2>1, <2>3
      <3>2. ftodo'.log
        BY <2>1, <2>3, Zenon
      <3> QED
        BY <2>1, <3>1, <3>2 DEF Todo
    <2> QED
      BY <2>2, <2>3
  <1> QED
    BY <1>1, <1>2, <1>3, <1>4, <1>5, <1>6, <1>7, <1>8, <1>9, <1>a, <1>b, <1>c, <1>d, <1>e DEF FileNext

\* The commits that are left come from the ones that were there.
LEMMA CommitsLeft ==
    ASSUME FileTypeOK, [FileNext]_fileVars
    PROVE  \A f \in ftodo'.commits : f \in ftodo.commits \/ (f \in FileIds /\ fcommit[f] # NoBytes)
  <1>1. CASE FileStepDone \/ CopyVersion \/ LogIntent \/ DropIntent \/ WriterPuts
    BY <1>1, TodoOfFileStepDone, TodoOfCopyVersion, TodoOfLogIntent, TodoOfDropIntent, TodoOfWriterPuts
  <1>2. CASE FileStepRaises
    BY <1>2, TodoOfRaises, TodoOfRaised, IdleParts
  <1>3. CASE SettleItem \/ AdoptCommit \/ ReopenIntent
    BY <1>3, TodoOfSettleItem, TodoOfAdoptCommit, TodoOfReopenIntent
  <1>4. CASE FileHolderDies
    BY <1>4, IdleParts DEF FileHolderDies
  <1>5. CASE ReconcileFiles
    BY <1>5, TodoOfReconcileFiles
  <1>6. CASE \/ DeleteFile
             \/ \E p \in FilePaths, bytes \in FileBytes : CreateFile(p, bytes)
             \/ \E f \in FileIds : TrashFile(f) \/ ReconcileTrash(f) \/ RestoreFile(f)
    BY <1>6, FileOperations
  <1>7. CASE \/ UNCHANGED fileVars
             \/ \E f \in FileIds :
                   \/ \E permanent, force \in BOOLEAN : DeleteCheck(f, permanent, force)
                   \/ AddReference(f) \/ DropReference(f) \/ RecycleUnlocked(f)
    BY <1>7, TodoStays
  <1>8. ASSUME NEW scope \in (SUBSET FilePaths) \ {{}},
               NEW after \in [scope -> FileBytes \cup {NoBytes}], GovernedWrite(scope, after)
        PROVE  ftodo'.commits = {}
    BY <1>8, TodoOfGovernedWrite
  <1> QED
    BY <1>1, <1>2, <1>3, <1>4, <1>5, <1>6, <1>7, <1>8 DEF FileNext

LEMMA CommitsStep ==
    ASSUME FileTypeOK, Commits, Steps, RecordsFollow, [FileNext]_fileVars
    PROVE  Commits'
  <1>1. \A f \in FileIds : Awaited(f) => Awaited(f)'
    BY DEF RecordsFollow
  <1>2. fcommit \in [FileIds -> Bytes] /\ ftodo.commits \subseteq FileIds
    BY DiskParts, TodoParts
  <1>3. ASSUME NEW f \in FileIds, fcommit'[f] # NoBytes PROVE Awaited(f)'
    <2>1. CASE FileStepDone
      <3>1. ftodo.step # NoStep /\ Moved(ftodo.step)
        BY <2>1 DEF FileStepDone
      <3>2. CASE ftodo.step.k = "commit" /\ ftodo.step.f = f
        BY <1>1, <3>1, <3>2 DEF Steps, StepOK
      <3>3. CASE ftodo.step.k # "commit" \/ ftodo.step.f # f
        <4>1. fcommit[f] # NoBytes
          BY <1>2, <1>3, <3>1, <3>3, StepEffects, StepParts
        <4> QED
          BY <1>1, <4>1 DEF Commits
      <3> QED
        BY <3>2, <3>3
    <2>2. CASE fcommit' = fcommit
      BY <1>1, <1>3, <2>2 DEF Commits
    <2>3. FileStepDone \/ fcommit' = fcommit
      BY FileCases DEF CopyVersion, LogIntent, DropIntent, WriterPuts, FileStepRaises,
         RecycleUnlocked, fdisk
    <2> QED
      BY <2>1, <2>2, <2>3
  <1>4. ASSUME NEW f \in ftodo'.commits PROVE Awaited(f)'
    BY <1>1, <1>2, <1>4, CommitsLeft DEF Commits
  <1> QED
    BY <1>3, <1>4 DEF Commits

-----------------------------------------------------------------------------
(* The step that is to be done is one that may be done.                    *)

LEMMA DeletingStep ==
    ASSUME FileTypeOK, Deleting, RecordsFollow, [FileNext]_fileVars
    PROVE  Deleting'
  <1>1. ASSUME NEW f \in FileIds, NEW permanent \in BOOLEAN, NEW force \in BOOLEAN,
               DeleteCheck(f, permanent, force)
        PROVE  Deleting'
    <2>1. fdelete' = <<f, permanent>> /\ frec' = frec /\ frec[f].life # "none"
      BY <1>1 DEF DeleteCheck, fdisk
    <2>2. Recorded(f)
      BY <2>1, RecordedParts
    <2> QED
      BY <2>1, <2>2 DEF Deleting, RecordsFollow
  <1>2. CASE fdelete' = fdelete \/ fdelete' = NoDelete
    <2>1. fdelete # NoDelete => fdelete[1] \in FileIds
      BY DEF FileTypeOK, NoDelete
    <2> QED
      BY <1>2, <2>1 DEF Deleting, RecordsFollow
  <1>3. \/ fdelete' = fdelete \/ fdelete' = NoDelete
        \/ \E f \in FileIds : \E permanent, force \in BOOLEAN : DeleteCheck(f, permanent, force)
    BY FileCases DEF FileStepDone, CopyVersion, LogIntent, DropIntent, WriterPuts, FileStepRaises,
       RecycleUnlocked, SettleItem, AdoptCommit, ReopenIntent, FileHolderDies, ReconcileFiles,
       DeleteFile, fileVars, CreateFile, TrashFile, ReconcileTrash, RestoreFile,
       AddReference, DropReference, FileRest, GovernedWrite
  <1> QED
    BY <1>1, <1>2, <1>3

\* The step that follows a step.
LEMMA FollowOK ==
    ASSUME FileTypeOK, Chain, Steps, RecordsFollow, FileStepDone,
           NEW o, o = ftodo.step, NEW s, s = ftodo'.step, s # NoStep
    PROVE  StepOK(s)'
  <1>1. /\ o # NoStep /\ Moved(o) /\ o.f \in FileIds /\ o.n \in Nat
        /\ s = Follows(o) /\ ftodo'.m = ftodo.m /\ ftodo'.items = ftodo.items /\ fintent' = fintent
    BY StepParts, TodoOfFileStepDone DEF FileStepDone
  <1>2. StepOK(o)
    BY <1>1 DEF Steps
  <1>3. frec \in [FileIds -> FileRecords]
    BY DiskParts
  <1>4. o.k \notin RecordKinds => frec' = frec
    BY <1>1, StepEffects
  <1>5. o.k \in RecordKinds => frec' = [frec EXCEPT ![o.f] = Updated(o)]
    BY <1>1, StepEffects
  <1>6. \A k, f, b, n : /\ FileStep(k, f, b, n).k = k /\ FileStep(k, f, b, n).f = f
                        /\ FileStep(k, f, b, n).bytes = b /\ FileStep(k, f, b, n).n = n
    BY DEF FileStep
  <1>7. CASE o.k = "write"
    <2>1. s = FileStep("commit", o.f, o.bytes, 0)
      BY <1>1, <1>7 DEF Follows
    <2>2. s.k = "commit" /\ s.f = o.f
      BY <1>6, <2>1
    <2>3. ftodo.m = 0 /\ o.f[2] = 0 /\ ~Recorded(o.f) /\ frec' = frec
      BY <1>2, <1>4, <1>7 DEF StepOK, SettleKinds, RecordKinds
    <2> QED
      BY <1>1, <2>2, <2>3 DEF StepOK, Awaited, Recorded
  <1>8. CASE o.k = "commit"
    <2>1. s = FileStep("index", o.f, o.bytes, 0)
      BY <1>1, <1>8 DEF Follows
    <2>2. s.k = "index" /\ s.f = o.f
      BY <1>6, <2>1
    <2>3. Awaited(o.f) /\ ~Recorded(o.f) /\ frec' = frec
      BY <1>2, <1>4, <1>8 DEF StepOK, RecordKinds
    <2>4. Awaited(o.f)' /\ ~Recorded(o.f)'
      BY <1>1, <2>3 DEF RecordsFollow, Recorded
    <2> QED
      BY <1>1, <2>2, <2>4 DEF StepOK, SettleKinds
  <1>9. CASE o.k = "index"
    <2>1. s = FileStep("uncommit", o.f, NoBytes, 0)
      BY <1>1, <1>9 DEF Follows
    <2>2. s.k = "uncommit" /\ s.f = o.f
      BY <1>6, <2>1
    <2>3. frec'[o.f] = ActiveRecord(o.bytes)
      BY <1>1, <1>3, <1>5, <1>9 DEF RecordKinds, Updated
    <2>4. Recorded(o.f)'
      BY <1>1, <2>3, RecordedParts DEF Recorded
    <2> QED
      BY <1>1, <2>2, <2>4 DEF StepOK, SettleKinds, Awaited
  <1>a. CASE o.k = "history"
    <2>1. s = CurrentStep(o.f[1], o.n)
      BY <1>1, <1>a DEF Follows
    <2> DEFINE c == <<o.f[1], o.n>>
    <2>2. s = FileStep("commit", c, fpath[o.f[1]], 0) /\ ~Recorded(c)
      BY <2>1 DEF CurrentStep, Recorded
    <2>3. s.k = "commit" /\ s.f = c
      BY <1>6, <2>2
    <2>4. o.n = ftodo.m /\ ftodo.m # 0 /\ Recorded(o.f) /\ frec[o.f].ver = 0
      BY <1>2, <1>a DEF StepOK
    <2>5. c \in FileIds /\ c # o.f
      BY <1>1, <2>2, <2>4, TodoParts, FileIdParts
    <2>6. ~Recorded(c)'
      BY <1>1, <1>3, <1>5, <1>a, <2>2, <2>5 DEF RecordKinds, Recorded
    <2>7. frec'[o.f].ver = o.n
      <3>1. PICK q \in FileRecords : q = frec[o.f]
        BY <1>1, <1>3
      <3>2. Updated(o) = [q EXCEPT !.ver = o.n, !.sha = o.bytes]
        BY <1>a, <3>1, Zenon DEF Updated
      <3>3. frec'[o.f] = [q EXCEPT !.ver = o.n, !.sha = o.bytes]
        BY <1>1, <1>3, <1>5, <1>a, <3>2 DEF RecordKinds
      <3> QED
        BY <3>3 DEF FileRecords
    <2>8. c[1] = o.f[1] /\ c[2] = o.n
      OBVIOUS
    <2> HIDE DEF c
    <2>9. Heading(c)'
      BY <1>1, <2>4, <2>5, <2>6, <2>7, <2>8 DEF Heading
    <2> QED
      BY <1>1, <2>3, <2>6, <2>9 DEF StepOK, SettleKinds, Awaited
  <1>b. CASE o.k = "trash"
    <2>1. s = FileStep("soft", o.f, NoBytes, o.n)
      BY <1>1, <1>b DEF Follows
    <2>2. s.k = "soft" /\ s.f = o.f
      BY <1>6, <2>1
    <2>3. ftodo.m = 0 /\ frec[o.f].ver = 0 /\ Recorded(o.f) /\ frec' = frec
      BY <1>2, <1>4, <1>b DEF StepOK, SettleKinds, RecordKinds
    <2> QED
      BY <1>1, <2>2, <2>3 DEF StepOK, Recorded
  <1>c. CASE o.k = "soft"
    <2>1. o.n > 0 /\ s = FileStep("trashPath", o.f, NoBytes, o.n)
      BY <1>1, <1>c DEF Follows
    <2>2. s.k = "trashPath" /\ s.f = o.f
      BY <1>6, <2>1
    <2>3. ftodo.m = 0 /\ frec[o.f].ver = 0 /\ Recorded(o.f)
      BY <1>2, <1>c, <2>1 DEF StepOK, SettleKinds
    <2>4. Recorded(o.f)'
      BY <1>1, <2>3 DEF RecordsFollow
    <2>5. frec'[o.f].ver = 0
      BY <1>1, <1>c, <2>3 DEF RecordsFollow
    <2>6. frec'[o.f].life # "active"
      <3>1. PICK q \in FileRecords : q = frec[o.f]
        BY <1>1, <1>3
      <3>2. Updated(o) = IF q.life = "purged" THEN q ELSE [q EXCEPT !.life = "soft"]
        BY <1>c, <3>1, Zenon DEF Updated
      <3>3. frec'[o.f] = IF q.life = "purged" THEN q ELSE [q EXCEPT !.life = "soft"]
        BY <1>1, <1>3, <1>5, <1>c, <3>2 DEF RecordKinds
      <3> QED
        BY <3>3 DEF FileRecords
    <2> QED
      BY <1>1, <2>2, <2>3, <2>4, <2>5, <2>6 DEF StepOK
  <1>d. CASE o.k = "untrash"
    <2>1. s = FileStep("active", o.f, NoBytes, 0)
      BY <1>1, <1>d DEF Follows
    <2>2. s.k = "active" /\ s.f = o.f
      BY <1>6, <2>1
    <2>3. ftodo.m = 0 /\ frec[o.f].life = "soft" /\ Recorded(o.f) /\ frec' = frec
      BY <1>2, <1>4, <1>d DEF StepOK, SettleKinds, RecordKinds
    <2> QED
      BY <1>1, <2>2, <2>3 DEF StepOK, Recorded
  <1>e. CASE o.k = "unlink"
    <2>1. s = FileStep("purge", o.f, NoBytes, 0)
      BY <1>1, <1>e DEF Follows
    <2>2. s.k = "purge" /\ s.f = o.f
      BY <1>6, <2>1
    <2>3. Recorded(o.f) /\ frec' = frec
      BY <1>2, <1>4, <1>e DEF StepOK, RecordKinds
    <2> QED
      BY <1>1, <2>2, <2>3 DEF StepOK, Recorded, SettleKinds
  <1>f. o.k \in {"write", "commit", "index", "history", "trash", "soft", "untrash", "unlink"}
    BY <1>1 DEF Follows
  <1> QED
    BY <1>7, <1>8, <1>9, <1>a, <1>b, <1>c, <1>d, <1>e, <1>f

\* The fields of a settled record.
LEMMA HistoricalFields ==
    ASSUME NEW i \in FileItems, NEW m
    PROVE  /\ SettleHistorical(i, m).ver = m /\ SettleHistorical(i, m).sha = i.before
           /\ SettleHistorical(i, m).life = i.rec.life /\ SettleHistorical(i, m).trash = i.rec.trash
  <1>1. PICK q \in FileRecords : q = i.rec
    BY ItemParts
  <1>2. SettleHistorical(i, m) = [q EXCEPT !.ver = m, !.sha = i.before]
    BY <1>1, Zenon DEF SettleHistorical
  <1> QED
    BY <1>1, <1>2 DEF FileRecords

\* An item whose bytes were copied is settled on the record it was taken from, or on its own history.
LEMMA SettledRecord ==
    ASSUME FileTypeOK, NEW i \in FileItems, NEW m, ~SettleRaises(i, m), i.ver
    PROVE  /\ frec[i.f] = i.rec \/ frec[i.f] = SettleHistorical(i, m)
           /\ fpath[i.f[1]] = i.before => frec[i.f] # SettleHistorical(i, m)
           /\ fpath[i.f[1]] # i.before => fver[<<i.f[1], m>>] = i.before
  BY DEF SettleRaises, SettleConflict

LEMMA SettleOK ==
    ASSUME FileTypeOK, Intents, Todo, SettleItem, NEW s, s = ftodo'.step, s # NoStep
    PROVE  StepOK(s)'
  <1>1. /\ UNCHANGED fdisk /\ Settling
    BY DEF SettleItem
  <1>2. /\ frec' = frec /\ fintent' = fintent /\ fver' = fver
        /\ ftodo.m # 0 /\ ~ftodo.log /\ ftodo.m \in 1..MaxWrites
    BY <1>1, TodoParts DEF fdisk, Settling
  <1>3. PICK i \in ftodo.items : /\ ~SettleRaises(i, ftodo.m) /\ ftodo'.items = ftodo.items \ {i}
                                 /\ s = SettleStep(i, ftodo.m) /\ ftodo'.m = ftodo.m
    BY TodoOfSettleItem
  <1>c. PICK m \in 1..MaxWrites : m = ftodo.m
    BY <1>2
  <1>4. i \in fintent[m] /\ ItemOK(i) /\ i \in FileItems
        /\ \A g \in FileIds : g[1] = i.f[1] /\ frec[g].ver = m => g = i.f
    BY <1>2, <1>c DEF Todo, Intents, ItemOK
  <1>5. /\ i.f \in FileIds /\ i.rec.ver = 0 /\ i.rec.trash = 0 /\ Recorded(i.f)
        /\ i.ver => i.rec.sha = i.before
    BY <1>4, ItemParts DEF ItemOK
  <1>6. \A k, f, b, n : /\ FileStep(k, f, b, n).k = k /\ FileStep(k, f, b, n).f = f
                        /\ FileStep(k, f, b, n).bytes = b /\ FileStep(k, f, b, n).n = n
    BY DEF FileStep
  <1>7. Recorded(i.f)'
    BY <1>2, <1>5 DEF Recorded
  <1>8. CASE i.ver /\ fpath[i.f[1]] = i.before
    <2>1. s = FileStep("unversion", i.f, NoBytes, m)
      BY <1>3, <1>8, <1>c DEF SettleStep
    <2>2. s.k = "unversion" /\ s.f = i.f /\ s.n = m
      BY <1>6, <2>1
    <2>3. frec[i.f] = i.rec
      BY <1>3, <1>4, <1>8, <1>c, SettledRecord
    <2>4. \A g \in FileIds : g[1] = i.f[1] => frec[g].ver # m
      BY <1>2, <1>4, <1>5, <1>c, <2>3
    <2> QED
      BY <1>2, <1>3, <1>4, <1>7, <1>8, <1>c, <2>2, <2>4 DEF StepOK, SettleKinds
  <1>9. CASE i.ver /\ fpath[i.f[1]] # i.before /\ frec[i.f] = SettleHistorical(i, m)
    <2> DEFINE c == <<i.f[1], m>>
    <2>1. s = FileStep("commit", c, fpath[i.f[1]], 0) /\ ~Recorded(c)
      BY <1>3, <1>9, <1>c DEF SettleStep, CurrentStep, Recorded
    <2>2. s.k = "commit" /\ s.f = c
      BY <1>6, <2>1
    <2>6. m \in 0..MaxWrites
      BY TodoParts
    <2>3. c \in FileIds /\ c[1] = i.f[1] /\ c[2] = m
      BY <1>5, <2>6, FileIdParts
    <2>4. frec[i.f].ver = m
      BY <1>4, <1>9, HistoricalFields
    <2> HIDE DEF c
    <2>5. Heading(c)' /\ ~Recorded(c)'
      BY <1>2, <1>5, <1>c, <2>1, <2>3, <2>4 DEF Heading, Recorded
    <2> QED
      BY <1>3, <1>c, <2>2, <2>5 DEF StepOK, SettleKinds, Awaited
  <1>a. CASE i.ver /\ fpath[i.f[1]] # i.before /\ frec[i.f] # SettleHistorical(i, m)
    <2>1. s = FileStep("history", i.f, i.before, m)
      BY <1>3, <1>a, <1>c DEF SettleStep
    <2>2. s.k = "history" /\ s.f = i.f /\ s.n = m /\ s.bytes = i.before
      BY <1>6, <2>1
    <2>3. frec[i.f] = i.rec /\ fver[<<i.f[1], m>>] = i.before
      BY <1>3, <1>4, <1>a, <1>c, SettledRecord
    <2> QED
      BY <1>2, <1>3, <1>4, <1>5, <1>7, <1>a, <1>c, <2>2, <2>3 DEF StepOK, SettleKinds
  <1>b. CASE ~i.ver
    <2>1. \/ s = FileStep("purge", i.f, NoBytes, 0)
          \/ s = FileStep("sha", i.f, fpath[i.f[1]], 0)
      BY <1>3, <1>b DEF SettleStep
    <2>2. s.k \in {"purge", "sha"} /\ s.f = i.f
      BY <1>6, <2>1
    <2> QED
      BY <1>7, <2>2 DEF StepOK, SettleKinds
  <1> QED
    BY <1>8, <1>9, <1>a, <1>b

LEMMA AdoptOK ==
    ASSUME FileTypeOK, Commits, Todo, AdoptCommit, NEW s, s = ftodo'.step, s # NoStep
    PROVE  StepOK(s)'
  <1>1. PICK f \in ftodo.commits :
           s = IF fpath[f[1]] # fcommit[f] THEN NoStep
               ELSE IF frec[f] = NoRecord THEN FileStep("index", f, fcommit[f], 0)
               ELSE FileStep("uncommit", f, NoBytes, 0)
    BY TodoOfAdoptCommit
  <1>2. /\ ftodo'.m = 0 /\ frec' = frec
    BY TodoOfAdoptCommit DEF AdoptCommit, fdisk, Todo
  <1>3. Awaited(f)'
    BY <1>2 DEF Commits, Awaited, Heading, Recorded
  <1>4. \A k, b, n : /\ FileStep(k, f, b, n).k = k /\ FileStep(k, f, b, n).f = f
                     /\ FileStep(k, f, b, n).bytes = b /\ FileStep(k, f, b, n).n = n
    BY DEF FileStep
  <1>5. ((s.k = "index" /\ ~Recorded(f)) \/ (s.k = "uncommit" /\ Recorded(f))) /\ s.f = f
    BY <1>1, <1>4 DEF Recorded
  <1> QED
    BY <1>2, <1>3, <1>5 DEF StepOK, Recorded

\* The first step of an operation.
LEMMA BeginOK ==
    ASSUME FileTypeOK, Chain, Deleting, [FileNext]_fileVars,
           \/ DeleteFile
           \/ \E p \in FilePaths, bytes \in FileBytes : CreateFile(p, bytes)
           \/ \E f \in FileIds : TrashFile(f) \/ ReconcileTrash(f) \/ RestoreFile(f),
           NEW s, s = ftodo'.step, s # NoStep
    PROVE  StepOK(s)'
  <1>1. ftodo'.m = 0 /\ \A step : FileDoes(step) => s = step
    BY FileOperations, TodoOfFileDoes
  <1>2. \A k, f, b, n : /\ FileStep(k, f, b, n).k = k /\ FileStep(k, f, b, n).f = f
                        /\ FileStep(k, f, b, n).bytes = b /\ FileStep(k, f, b, n).n = n
    BY DEF FileStep
  <1>3. frec' = frec /\ fpath' = fpath /\ ftrash' = ftrash
    BY DEF DeleteFile, CreateFile, TrashFile, ReconcileTrash, RestoreFile, fdisk
  <1>4. CASE DeleteFile
    <2>1. fdelete # NoDelete
          /\ FileDoes(IF frec[fdelete[1]].life = "purged" THEN NoStep
                    ELSE FileStep(IF fdelete[2] THEN "unlink" ELSE "soft", fdelete[1], NoBytes, 0))
      BY <1>4 DEF DeleteFile
    <2>2. s = FileStep(IF fdelete[2] THEN "unlink" ELSE "soft", fdelete[1], NoBytes, 0)
      BY <1>1, <2>1
    <2>3. (s.k = "unlink" \/ s.k = "soft") /\ s.f = fdelete[1] /\ s.n = 0
      BY <1>2, <2>2
    <2>4. Recorded(s.f)'
      BY <1>3, <2>1, <2>3 DEF Deleting, Recorded
    <2> QED
      BY <1>1, <2>3, <2>4 DEF StepOK
  <1>5. ASSUME NEW p \in FilePaths, NEW bytes \in FileBytes, CreateFile(p, bytes)
        PROVE  StepOK(s)'
    <2>1. FileDoes(FileStep("write", <<p, 0>>, bytes, 0)) /\ \A g \in FileIds : g[1] = p => frec[g] = NoRecord
      BY <1>5 DEF CreateFile
    <2>2. s = FileStep("write", <<p, 0>>, bytes, 0)
      BY <1>1, <2>1
    <2>3. s.k = "write" /\ s.f = <<p, 0>>
      BY <1>2, <2>2
    <2>4. <<p, 0>> \in FileIds
      BY FileAssumption, SMT DEF FileIds
    <2>5. ~Recorded(s.f)' /\ s.f[2] = 0
      BY <1>3, <2>1, <2>3, <2>4 DEF Recorded
    <2> QED
      BY <1>1, <2>3, <2>5 DEF StepOK
  <1>6. ASSUME NEW f \in FileIds, TrashFile(f) PROVE StepOK(s)'
    <2>1. /\ frec[f].life = "active" /\ frec[f].ver = 0
          /\ \E n : FileDoes(FileStep("trash", f, NoBytes, n))
      BY <1>6 DEF TrashFile, Governed
    <2>2. \E n : s = FileStep("trash", f, NoBytes, n)
      BY <1>1, <2>1
    <2>3. s.k = "trash" /\ s.f = f
      BY <1>2, <2>2
    <2>4. Recorded(f)
      BY <2>1, RecordedParts
    <2> QED
      BY <1>1, <1>3, <2>1, <2>3, <2>4 DEF StepOK, Recorded
  <1>7. ASSUME NEW f \in FileIds, ReconcileTrash(f) PROVE StepOK(s)'
    <2>1. /\ frec[f].life = "active" /\ frec[f].ver = 0
          /\ FileDoes(FileStep("soft", f, NoBytes, 1))
      BY <1>7 DEF ReconcileTrash
    <2>2. s = FileStep("soft", f, NoBytes, 1)
      BY <1>1, <2>1
    <2>3. s.k = "soft" /\ s.f = f
      BY <1>2, <2>2
    <2>4. Recorded(f)
      BY <2>1, RecordedParts
    <2> QED
      BY <1>1, <1>3, <2>1, <2>3, <2>4 DEF StepOK, Recorded
  <1>8. ASSUME NEW f \in FileIds, RestoreFile(f) PROVE StepOK(s)'
    <2>1. frec[f].life = "soft" /\ Recorded(f)
      BY <1>8, RecordedParts DEF RestoreFile
    <2>2. CASE frec[f].trash > 0
      <3>1. InTrash(f) = frec[f].sha /\ FileDoes(FileStep("untrash", f, NoBytes, 0))
        BY <1>8, <2>2 DEF RestoreFile
      <3>2. s = FileStep("untrash", f, NoBytes, 0)
        BY <1>1, <3>1
      <3>3. s.k = "untrash" /\ s.f = f
        BY <1>2, <3>2
      <3>4. frec[f].ver = 0
        BY <2>2 DEF Chain, RecordShape
      <3> QED
        BY <1>1, <1>3, <2>1, <2>2, <3>1, <3>3, <3>4 DEF StepOK, Recorded, InTrash
    <2>3. CASE ~(frec[f].trash > 0)
      <3>1. FileDoes(FileStep("active", f, NoBytes, 0))
        BY <1>8, <2>3 DEF RestoreFile
      <3>2. s = FileStep("active", f, NoBytes, 0)
        BY <1>1, <3>1
      <3>3. s.k = "active" /\ s.f = f
        BY <1>2, <3>2
      <3> QED
        BY <1>1, <1>3, <2>1, <3>3 DEF StepOK, Recorded
    <2> QED
      BY <2>2, <2>3
  <1> QED
    BY <1>4, <1>5, <1>6, <1>7, <1>8

\* A step that waits may still be done when a file was recycled without the lock.
LEMMA WaitingOK ==
    ASSUME FileTypeOK, Steps, RecordsFollow, NEW s, s = ftodo'.step, s # NoStep,
           \/ UNCHANGED fileVars
           \/ \E f \in FileIds :
                 \/ \E permanent, force \in BOOLEAN : DeleteCheck(f, permanent, force)
                 \/ AddReference(f) \/ DropReference(f) \/ RecycleUnlocked(f)
    PROVE  StepOK(s)'
  <1>1. ftodo' = ftodo /\ fpath' = fpath /\ fver' = fver /\ fintent' = fintent
    BY TodoStays
  <1>2. StepOK(s) /\ s.f \in FileIds
    BY <1>1, StepParts DEF Steps
  <1>3. ftrash' = ftrash
    BY DEF fileVars, fdisk, DeleteCheck, AddReference, DropReference, RecycleUnlocked
  <1>4. CASE frec' = frec
    BY <1>1, <1>2, <1>3, <1>4 DEF StepOK, Awaited, Heading, Recorded, InTrash
  <1>5. ASSUME NEW f \in FileIds, RecycleUnlocked(f) PROVE StepOK(s)'
    <2>1. frec \in [FileIds -> FileRecords]
      BY DiskParts
    <2>2. PICK q \in FileRecords : q = frec[f]
      BY <2>1
    <2>3. frec' = [frec EXCEPT ![f] = [q EXCEPT !.life = "soft"]] /\ q.life = "active"
      BY <1>5, <2>2 DEF RecycleUnlocked
    <2>4. frec'[f] = [q EXCEPT !.life = "soft"] /\ \A g \in FileIds : g # f => frec'[g] = frec[g]
      BY <2>1, <2>3
    <2>5. /\ frec'[f].life = "soft" /\ frec'[f].ver = q.ver /\ frec'[f].trash = q.trash
          /\ frec'[f].sha = q.sha
      BY <2>4 DEF FileRecords
    <2>6. \A g \in FileIds : /\ frec'[g].ver = frec[g].ver /\ frec'[g].sha = frec[g].sha
                             /\ frec'[g].trash = frec[g].trash
                             /\ frec'[g].life = frec[g].life \/ frec'[g].life = "soft"
                             /\ Recorded(g)' <=> Recorded(g)
      <3>1. Recorded(f)' /\ Recorded(f)
        BY <2>2, <2>3, <2>5, RecordedParts DEF Recorded, NoRecord
      <3> QED
        BY <2>2, <2>4, <2>5, <3>1 DEF Recorded
    <2>7. Awaited(s.f) => Awaited(s.f)'
      BY <1>2 DEF RecordsFollow
    <2>8. /\ s.k \in {"history", "unversion"} =>
                /\ ftodo'.m # 0 /\ s.n = ftodo'.m
                /\ \E i \in fintent'[ftodo'.m] \ ftodo'.items : i.f = s.f /\ i.ver
          /\ s.k = "unversion" => \A g \in FileIds : g[1] = s.f[1] => frec'[g].ver # s.n
      BY <1>1, <1>2, <2>6 DEF StepOK
    <2>9. s.k = "untrash" => InTrash(s.f)' = frec'[s.f].sha
      BY <1>2, <1>3, <2>6 DEF StepOK, InTrash
    <2> QED
      BY <1>1, <1>2, <2>6, <2>7, <2>8, <2>9 DEF StepOK
  <1>6. frec' = frec \/ \E f \in FileIds : RecycleUnlocked(f)
    BY DEF fileVars, fdisk, DeleteCheck, AddReference, DropReference
  <1> QED
    BY <1>4, <1>5, <1>6

LEMMA StepsStep ==
    ASSUME FileTypeOK, Chain, Commits, Intents, Todo, Deleting, Steps, RecordsFollow,
           [FileNext]_fileVars
    PROVE  Steps'
  <1>1. SUFFICES ASSUME NEW s, s = ftodo'.step, s # NoStep PROVE StepOK(s)'
    BY DEF Steps
  <1>2. CASE FileStepDone
    BY <1>1, <1>2, FollowOK
  <1>3. CASE SettleItem
    BY <1>1, <1>3, SettleOK
  <1>4. CASE AdoptCommit
    BY <1>1, <1>4, AdoptOK
  <1>5. CASE \/ DeleteFile
             \/ \E p \in FilePaths, bytes \in FileBytes : CreateFile(p, bytes)
             \/ \E f \in FileIds : TrashFile(f) \/ ReconcileTrash(f) \/ RestoreFile(f)
    BY <1>1, <1>5, BeginOK
  <1>6. CASE \/ UNCHANGED fileVars
             \/ \E f \in FileIds :
                   \/ \E permanent, force \in BOOLEAN : DeleteCheck(f, permanent, force)
                   \/ AddReference(f) \/ DropReference(f) \/ RecycleUnlocked(f)
    BY <1>1, <1>6, WaitingOK
  <1>7. CASE CopyVersion
    BY <1>1, <1>7, TodoOfCopyVersion DEF CopyVersion, Todo
  <1>8. CASE LogIntent
    BY <1>1, <1>8, TodoOfLogIntent DEF LogIntent, Todo
  <1>9. CASE DropIntent
    BY <1>1, <1>9, TodoOfDropIntent DEF DropIntent, Settling
  <1>a. CASE WriterPuts
    BY <1>1, <1>a, TodoOfWriterPuts DEF WriterPuts, Todo
  <1>b. CASE FileStepRaises
    BY <1>1, <1>b, TodoOfRaises, TodoOfRaised, IdleParts DEF Todo
  <1>c. CASE ReopenIntent
    BY <1>1, <1>c, TodoOfReopenIntent DEF ReopenIntent
  <1>d. CASE FileHolderDies
    BY <1>1, <1>d, IdleParts DEF FileHolderDies
  <1>e. CASE ReconcileFiles
    BY <1>1, <1>e, TodoOfReconcileFiles
  <1>f. ASSUME NEW scope \in (SUBSET FilePaths) \ {{}},
               NEW after \in [scope -> FileBytes \cup {NoBytes}], GovernedWrite(scope, after)
        PROVE  FALSE
    BY <1>1, <1>f, TodoOfGovernedWrite
  <1> QED
    BY <1>2, <1>3, <1>4, <1>5, <1>6, <1>7, <1>8, <1>9, <1>a, <1>b, <1>c, <1>d, <1>e, <1>f DEF FileNext

-----------------------------------------------------------------------------
(* What a step on one file leaves of the bytes of another.                 *)

LEMMA StepDisk ==
    ASSUME ftodo.step # NoStep, Moved(ftodo.step), NEW o, o = ftodo.step
    PROVE  /\ o.k \notin {"write", "unlink", "trash", "untrash"} => fpath' = fpath
           /\ o.k \notin {"unlink", "trash", "untrash"} => ftrash' = ftrash
           /\ o.k \notin {"unversion", "unlink"} => fver' = fver
           /\ o.k = "write" => fpath' = [fpath EXCEPT ![o.f[1]] = o.bytes]
           /\ o.k = "unversion" => fver' = [fver EXCEPT ![<<o.f[1], o.n>>] = NoBytes]
           /\ o.k = "unlink" /\ frec[o.f].trash # 0 =>
                 /\ ftrash' = [ftrash EXCEPT ![o.f[1]][frec[o.f].trash] = NoBytes]
                 /\ fpath' = fpath /\ fver' = fver
           /\ o.k = "unlink" /\ frec[o.f].trash = 0 /\ frec[o.f].ver = 0 =>
                 /\ fpath' = [fpath EXCEPT ![o.f[1]] = NoBytes]
                 /\ ftrash' = ftrash /\ fver' = fver
           /\ o.k = "unlink" /\ frec[o.f].trash = 0 /\ frec[o.f].ver # 0 =>
                 /\ fver' = [fver EXCEPT ![<<o.f[1], frec[o.f].ver>>] = NoBytes]
                 /\ ftrash' = ftrash /\ fpath' = fpath
           /\ o.k = "trash" => /\ ftrash' = [ftrash EXCEPT ![o.f[1]] = Trashed(@, fpath[o.f[1]])]
                               /\ fpath' = [fpath EXCEPT ![o.f[1]] = NoBytes]
           /\ o.k = "untrash" => /\ fpath' = [fpath EXCEPT ![o.f[1]] = InTrash(o.f)]
                                 /\ ftrash' = [ftrash EXCEPT ![o.f[1]][frec[o.f].trash] = NoBytes]
  BY SMT DEF Moved

\* What goes to the trash is there, and what was there stays.
LEMMA TrashKeeps ==
    ASSUME NEW seq \in Seq(Bytes), NEW bytes \in Bytes
    PROVE  /\ bytes \in Range(Trashed(seq, bytes))
           /\ \A b \in Range(seq) : b # NoBytes => b \in Range(Trashed(seq, bytes))
  <1> DEFINE k == TrashSlot(seq)
  <1>1. k \in 1..(Len(seq) + 1) /\ (k <= Len(seq) => seq[k] = NoBytes) /\ Len(seq) \in Nat
    BY TrashSlotFree
  <1>2. Trashed(seq, bytes) = IF k > Len(seq) THEN Append(seq, bytes) ELSE [seq EXCEPT ![k] = bytes]
    BY DEF Trashed
  <1> HIDE DEF k
  <1>3. CASE k > Len(seq)
    <2>1. Trashed(seq, bytes) = Append(seq, bytes)
      BY <1>2, <1>3
    <2>2. /\ DOMAIN Append(seq, bytes) = 1..(Len(seq) + 1) /\ Append(seq, bytes)[Len(seq) + 1] = bytes
          /\ \A j \in 1..Len(seq) : Append(seq, bytes)[j] = seq[j]
      OBVIOUS
    <2>3. DOMAIN seq = 1..Len(seq)
      OBVIOUS
    <2>4. Len(seq) + 1 \in 1..(Len(seq) + 1) /\ 1..Len(seq) \subseteq 1..(Len(seq) + 1)
      BY <1>1
    <2> QED
      BY <2>1, <2>2, <2>3, <2>4, Zenon DEF Range
  <1>4. CASE ~(k > Len(seq))
    <2>1. Trashed(seq, bytes) = [seq EXCEPT ![k] = bytes] /\ k \in 1..Len(seq) /\ seq[k] = NoBytes
      BY <1>1, <1>2, <1>4
    <2>2. DOMAIN seq = 1..Len(seq) /\ DOMAIN [seq EXCEPT ![k] = bytes] = 1..Len(seq)
      OBVIOUS
    <2>3. /\ [seq EXCEPT ![k] = bytes][k] = bytes
          /\ \A j \in 1..Len(seq) : j # k => [seq EXCEPT ![k] = bytes][j] = seq[j]
      BY <2>1, <2>2
    <2> QED
      BY <2>1, <2>2, <2>3, Zenon DEF Range
  <1> QED
    BY <1>3, <1>4

\* A path has one current record.
LEMMA OneCurrent ==
    ASSUME Chain, NEW f \in FileIds, NEW g \in FileIds, f[1] = g[1],
           Recorded(f), Recorded(g), frec[f].ver = 0, frec[g].ver = 0
    PROVE  f = g
  BY DEF Chain, OneHead, Heading

\* A step leaves the bytes of a current file that is active and not being removed, or it
\* moves them to the trash.
LEMMA StepElsewhere ==
    ASSUME FileTypeOK, Chain, Intents, Steps, FileStepDone, NEW o, o = ftodo.step,
           NEW f \in FileIds, frec[f].life = "active", frec[f].ver = 0,
           o.k = "unlink" => o.f # f
    PROVE  /\ \/ fpath'[f[1]] = fpath[f[1]] /\ ftrash'[f[1]] = ftrash[f[1]]
              \/ ftrash'[f[1]] = Trashed(ftrash[f[1]], fpath[f[1]])
           /\ \A m \in 1..MaxWrites : \A i \in fintent[m] : i.f = f =>
                 \/ fver'[<<f[1], m>>] = fver[<<f[1], m>>]
                 \/ /\ o.k = "unversion" /\ m = ftodo.m /\ i \notin ftodo.items /\ m # 0
                    /\ fpath' = fpath
  <1>1. /\ o # NoStep /\ Moved(o) /\ o.f \in FileIds /\ StepOK(o) /\ o.f[1] \in FilePaths
        /\ ftodo.step # NoStep /\ Moved(ftodo.step)
    BY StepParts DEF FileStepDone, Steps
  <1>2. /\ fpath \in [FilePaths -> Bytes] /\ ftrash \in [FilePaths -> Seq(Bytes)]
        /\ fver \in [FileIds -> Bytes] /\ f[1] \in FilePaths
    BY DiskParts, FileIdParts
  <1>3. Recorded(f)
    BY RecordedParts
  <1>4. ASSUME o.f[1] = f[1], Recorded(o.f), frec[o.f].ver = 0 PROVE o.f = f
    BY <1>1, <1>3, <1>4, OneCurrent
  <1>5. o.k # "write" => Recorded(o.f) \/ o.k \in {"commit", "index"}
    BY <1>1 DEF StepOK
  <1>6. \/ fpath'[f[1]] = fpath[f[1]] /\ ftrash'[f[1]] = ftrash[f[1]]
        \/ ftrash'[f[1]] = Trashed(ftrash[f[1]], fpath[f[1]])
    <2>1. CASE o.k \notin {"write", "unlink", "trash", "untrash"}
      BY <1>1, <2>1, StepDisk
    <2>2. CASE o.k = "write"
      <3>1. o.f[2] = 0 /\ ~Recorded(o.f)
        BY <1>1, <2>2 DEF StepOK
      <3>2. o.f[1] # f[1]
        BY <1>1, <1>3, <3>1, FileIdParts DEF Chain, RootFirst
      <3> QED
        BY <1>1, <1>2, <2>2, <3>2, StepDisk
    <2>3. CASE o.k = "unlink"
      <3>1. o.f # f /\ Recorded(o.f)
        BY <1>5, <2>3
      <3>2. CASE frec[o.f].ver = 0
        <4>1. o.f[1] # f[1]
          BY <1>4, <3>1, <3>2
        <4>2. CASE frec[o.f].trash # 0
          BY <1>1, <1>2, <2>3, <4>1, <4>2, StepDisk
        <4>3. CASE frec[o.f].trash = 0
          BY <1>1, <1>2, <2>3, <3>2, <4>1, <4>3, StepDisk
        <4> QED
          BY <4>2, <4>3
      <3>3. CASE frec[o.f].ver # 0
        <4>1. frec[o.f].trash = 0
          BY <1>1, <3>3 DEF Chain, RecordShape
        <4> QED
          BY <1>1, <2>3, <3>3, <4>1, StepDisk
      <3> QED
        BY <3>2, <3>3
    <2>4. CASE o.k = "trash"
      <3>1. /\ ftrash' = [ftrash EXCEPT ![o.f[1]] = Trashed(ftrash[o.f[1]], fpath[o.f[1]])]
            /\ fpath' = [fpath EXCEPT ![o.f[1]] = NoBytes]
        BY <1>1, <2>4, StepDisk, Zenon
      <3>2. CASE o.f[1] = f[1]
        <4>1. ftrash' = [ftrash EXCEPT ![f[1]] = Trashed(ftrash[f[1]], fpath[f[1]])]
          BY <3>1, <3>2
        <4> QED
          BY <1>2, <4>1
      <3>3. CASE o.f[1] # f[1]
        BY <1>1, <1>2, <3>1, <3>3
      <3> QED
        BY <3>2, <3>3
    <2>5. CASE o.k = "untrash"
      <3>1. frec[o.f].life = "soft" /\ frec[o.f].ver = 0 /\ Recorded(o.f)
        BY <1>1, <1>5, <2>5 DEF StepOK
      <3>2. o.f[1] # f[1]
        BY <1>4, <3>1
      <3>3. fpath' = [fpath EXCEPT ![o.f[1]] = InTrash(o.f)]
        BY <1>1, <2>5, StepDisk, Zenon
      <3>4. ftrash' = [ftrash EXCEPT ![o.f[1]][frec[o.f].trash] = NoBytes]
        BY <1>1, <2>5, StepDisk, Zenon
      <3>5. fpath'[f[1]] = fpath[f[1]]
        BY <1>1, <1>2, <3>2, <3>3
      <3>6. ftrash'[f[1]] = ftrash[f[1]]
        BY <1>1, <1>2, <3>2, <3>4
      <3> QED
        BY <3>5, <3>6
    <2> QED
      BY <2>1, <2>2, <2>3, <2>4, <2>5
  <1>7. ASSUME NEW m \in 1..MaxWrites, NEW i \in fintent[m], i.f = f
        PROVE  \/ fver'[<<f[1], m>>] = fver[<<f[1], m>>]
               \/ /\ o.k = "unversion" /\ m = ftodo.m /\ i \notin ftodo.items /\ m # 0
                  /\ fpath' = fpath
    <2>0. /\ OnePerPath(fintent[m]) /\ m # 0 /\ m \in 0..MaxWrites
          /\ \A g \in FileIds : g[1] = f[1] /\ frec[g].ver = m => g = f
      BY <1>7, TodoParts DEF Intents
    <2>a. <<f[1], m>> \in FileIds
      BY <2>0, FileIdParts
    <2>1. CASE o.k \notin {"unversion", "unlink"}
      BY <1>1, <2>1, StepDisk
    <2>2. CASE o.k = "unversion"
      <3>1. fver' = [fver EXCEPT ![<<o.f[1], o.n>>] = NoBytes] /\ fpath' = fpath
        BY <1>1, <2>2, StepDisk
      <3>2. CASE <<o.f[1], o.n>> # <<f[1], m>>
        BY <1>2, <2>a, <3>1, <3>2
      <3>3. CASE <<o.f[1], o.n>> = <<f[1], m>>
        <4>1. o.f[1] = f[1] /\ o.n = m
          BY <3>3
        <4>2. ftodo.m = m /\ \E j \in fintent[m] \ ftodo.items : j.f = o.f
          BY <1>1, <2>2, <4>1 DEF StepOK
        <4>3. i \notin ftodo.items
          BY <1>7, <2>0, <4>1, <4>2 DEF OnePerPath
        <4> QED
          BY <2>0, <2>2, <3>1, <4>2, <4>3
      <3> QED
        BY <3>2, <3>3
    <2>3. CASE o.k = "unlink"
      <3>1. o.f # f
        BY <2>3
      <3>2. CASE frec[o.f].trash = 0 /\ frec[o.f].ver # 0
        <4>1. fver' = [fver EXCEPT ![<<o.f[1], frec[o.f].ver>>] = NoBytes]
          BY <1>1, <2>3, <3>2, StepDisk
        <4>2. <<o.f[1], frec[o.f].ver>> # <<f[1], m>>
          BY <1>1, <2>0, <3>1
        <4> QED
          BY <1>2, <2>a, <4>1, <4>2
      <3>3. CASE ~(frec[o.f].trash = 0 /\ frec[o.f].ver # 0)
        BY <1>1, <2>3, <3>3, StepDisk
      <3> QED
        BY <3>2, <3>3
    <2> QED
      BY <2>1, <2>2, <2>3
  <1> QED
    BY <1>6, <1>7

\* A step leaves the version that a file has.
LEMMA StepVersion ==
    ASSUME FileTypeOK, Chain, Steps, FileStepDone, NEW o, o = ftodo.step,
           NEW f \in FileIds, frec[f].ver # 0, o.k = "unlink" => o.f # f
    PROVE  fver'[<<f[1], frec[f].ver>>] = fver[<<f[1], frec[f].ver>>]
  <1>1. /\ o # NoStep /\ Moved(o) /\ o.f \in FileIds /\ StepOK(o)
        /\ ftodo.step # NoStep /\ Moved(ftodo.step)
    BY StepParts DEF FileStepDone, Steps
  <1>2. fver \in [FileIds -> Bytes] /\ frec[f].ver \in 0..MaxWrites
    BY DiskParts, RecordParts
  <1>3. <<f[1], frec[f].ver>> \in FileIds
    BY <1>2, FileIdParts
  <1>4. CASE o.k \notin {"unversion", "unlink"}
    BY <1>1, <1>4, StepDisk
  <1>5. CASE o.k = "unversion"
    <2>1. fver' = [fver EXCEPT ![<<o.f[1], o.n>>] = NoBytes]
      BY <1>1, <1>5, StepDisk
    <2>2. \A g \in FileIds : g[1] = o.f[1] => frec[g].ver # o.n
      BY <1>1, <1>5 DEF StepOK
    <2>3. <<o.f[1], o.n>> # <<f[1], frec[f].ver>>
      BY <2>2
    <2> QED
      BY <1>2, <1>3, <2>1, <2>3
  <1>6. CASE o.k = "unlink"
    <2>1. CASE frec[o.f].trash = 0 /\ frec[o.f].ver # 0
      <3>1. fver' = [fver EXCEPT ![<<o.f[1], frec[o.f].ver>>] = NoBytes]
        BY <1>1, <1>6, <2>1, StepDisk
      <3>2. <<o.f[1], frec[o.f].ver>> # <<f[1], frec[f].ver>>
        BY <1>1, <1>6 DEF Chain, OneOwner
      <3> QED
        BY <1>2, <1>3, <3>1, <3>2
    <2>2. CASE ~(frec[o.f].trash = 0 /\ frec[o.f].ver # 0)
      BY <1>1, <1>6, <2>2, StepDisk
    <2> QED
      BY <2>1, <2>2
  <1> QED
    BY <1>4, <1>5, <1>6

-----------------------------------------------------------------------------
(* A file on which somebody has a claim.                                   *)

\* What may become of its record.
LEMMA ClaimedRecord ==
    ASSUME FileTypeOK, Chain, Steps, [FileNext]_fileVars, NEW f \in FileIds, Untouched(f),
           NEW o, o = ftodo.step
    PROVE  \/ frec'[f] = frec[f]
           \/ /\ FileStepDone /\ o # NoStep /\ o.f = f /\ StepOK(o)
              /\ frec'[f].sha = frec[f].sha /\ fpath' = fpath /\ fver' = fver /\ ftrash' = ftrash
              /\ \/ o.k = "history" /\ frec'[f].ver = o.n /\ frec'[f].life = frec[f].life
                 \/ o.k = "soft" /\ frec'[f].life = "soft"
                 \/ o.k = "trashPath" /\ frec'[f].life = frec[f].life /\ frec[f].life = "soft"
                 \/ o.k = "active" /\ frec'[f].life = "active" /\ frec'[f].ver = frec[f].ver
  <1>1. frec \in [FileIds -> FileRecords]
    BY DiskParts
  <1>2. f \in fref /\ frec[f].life \in {"active", "soft"}
    BY DEF Untouched
  <1>3. ASSUME NEW g \in FileIds, RecycleUnlocked(g) PROVE frec'[f] = frec[f]
    <2>1. f # g
      BY <1>2, <1>3 DEF RecycleUnlocked
    <2> QED
      BY <1>1, <1>3, <2>1 DEF RecycleUnlocked
  <1>4. CASE FileStepDone
    <2>1. /\ o # NoStep /\ Moved(o) /\ o.f \in FileIds /\ StepOK(o)
          /\ ftodo.step # NoStep /\ Moved(ftodo.step)
      BY <1>4, StepParts DEF FileStepDone, Steps
    <2>2. CASE o.k \notin RecordKinds
      BY <2>1, <2>2, StepEffects
    <2>3. CASE o.k \in RecordKinds /\ o.f # f
      BY <1>1, <2>1, <2>3, StepEffects
    <2>4. CASE o.k \in RecordKinds /\ o.f = f
      <3>1. /\ frec' = [frec EXCEPT ![f] = Updated(o)] /\ fpath' = fpath /\ fver' = fver
            /\ ftrash' = ftrash
        BY <2>1, <2>4, StepEffects
      <3>2. PICK q \in FileRecords : q = frec[f]
        BY <1>1
      <3>3. frec'[f] = Updated(o)
        BY <1>1, <3>1
      <3>4. Recorded(f)
        BY <1>2, RecordedParts
      <3>5. o.k \in {"history", "soft", "trashPath", "active"}
        BY <2>1, <2>4, <3>4 DEF Untouched, StepOK, RecordKinds
      <3>6. CASE o.k = "history"
        <4>1. Updated(o) = [q EXCEPT !.ver = o.n, !.sha = o.bytes]
          BY <2>4, <3>2, <3>6, Zenon DEF Updated
        <4>2. frec'[f].ver = o.n /\ frec'[f].life = q.life /\ frec'[f].sha = o.bytes
          BY <3>3, <4>1 DEF FileRecords
        <4>3. o.bytes = frec[f].sha
          BY <2>1, <2>4, <3>6 DEF StepOK
        <4> QED
          BY <1>4, <2>1, <2>4, <3>1, <3>2, <3>6, <4>2, <4>3
      <3>7. CASE o.k = "soft"
        <4>1. Updated(o) = [q EXCEPT !.life = "soft"]
          <5>1. q.life # "purged"
            BY <1>2, <3>2
          <5>2. Updated(o) = IF q.life = "purged" THEN q ELSE [q EXCEPT !.life = "soft"]
            BY <2>4, <3>2, <3>7, Zenon DEF Updated
          <5> QED
            BY <5>1, <5>2, Zenon
        <4>2. frec'[f].life = "soft" /\ frec'[f].sha = q.sha
          BY <3>3, <4>1 DEF FileRecords
        <4> QED
          BY <1>4, <2>1, <2>4, <3>1, <3>2, <3>7, <4>2
      <3>8. CASE o.k = "trashPath"
        <4>1. Updated(o) = [q EXCEPT !.trash = o.n]
          BY <2>4, <3>2, <3>8, Zenon DEF Updated
        <4>2. frec'[f].life = q.life /\ frec'[f].sha = q.sha
          BY <3>3, <4>1 DEF FileRecords
        <4>3. frec[f].life = "soft"
          BY <1>2, <2>1, <2>4, <3>8 DEF StepOK
        <4> QED
          BY <1>4, <2>1, <2>4, <3>1, <3>2, <3>8, <4>2, <4>3
      <3>9. CASE o.k = "active"
        <4>1. Updated(o) = [q EXCEPT !.life = "active", !.trash = 0]
          BY <2>4, <3>2, <3>9, Zenon DEF Updated
        <4>2. frec'[f].life = "active" /\ frec'[f].sha = q.sha /\ frec'[f].ver = q.ver
          BY <3>3, <4>1 DEF FileRecords
        <4> QED
          BY <1>4, <2>1, <2>4, <3>1, <3>2, <3>9, <4>2
      <3> QED
        BY <3>5, <3>6, <3>7, <3>8, <3>9
    <2> QED
      BY <2>2, <2>3, <2>4
  <1>5. \/ FileStepDone \/ frec' = frec \/ \E g \in FileIds : RecycleUnlocked(g)
    BY FileCases DEF CopyVersion, LogIntent, DropIntent, WriterPuts, FileStepRaises, fdisk
  <1> QED
    BY <1>3, <1>4, <1>5

\* The bytes stay safe when nothing of the file's own changes.
LEMMA SafeFrame ==
    ASSUME NEW f \in FileIds, Safe(f), fkept'[f] = fkept[f], frec'[f] = frec[f],
           fpath'[f[1]] = fpath[f[1]], ftrash'[f[1]] = ftrash[f[1]],
           frec[f].ver # 0 => fver'[<<f[1], frec[f].ver>>] = fver[<<f[1], frec[f].ver>>],
           \A m \in 1..MaxWrites : \A i \in fintent[m] :
              i.f = f => i \in fintent'[m] /\ fver'[<<f[1], m>>] = fver[<<f[1], m>>]
    PROVE  Safe(f)'
  <1>1. Versioned(f) => Versioned(f)'
    BY DEF Versioned
  <1>2. Binned(f) => Binned(f)'
    BY DEF Binned
  <1> QED
    BY <1>1, <1>2 DEF Safe

\* A step on a file leaves the claimed bytes safe.
LEMMA SafeAfterStep ==
    ASSUME FileTypeOK, Chain, Intents, Todo, Steps, FileStepDone, NEW f \in FileIds,
           Claimed(f), Untouched(f), Outlives(f), frec[f].life = "active" => Safe(f),
           frec'[f].life = "active"
    PROVE  Safe(f)'
  <1>0. PICK o : o = ftodo.step
    OBVIOUS
  <1>1. /\ o # NoStep /\ Moved(o) /\ o.f \in FileIds /\ StepOK(o) /\ fkept' = fkept
        /\ fintent' = fintent /\ ~ftodo.log
    BY <1>0, StepParts DEF FileStepDone, Steps, FileRest, Todo
  <1>2. /\ fpath \in [FilePaths -> Bytes] /\ ftrash \in [FilePaths -> Seq(Bytes)]
        /\ f[1] \in FilePaths
        /\ o.k = "unlink" => o.f # f
        /\ [FileNext]_fileVars
    BY <1>0, <1>1, DiskParts, FileIdParts DEF Untouched, FileNext
  <1>3. CASE frec'[f] # frec[f]
    <2>1. /\ o.f = f /\ fpath' = fpath /\ fver' = fver
          /\ \/ o.k = "history" /\ frec'[f].ver = o.n
             \/ o.k = "active" /\ frec'[f].ver = frec[f].ver
      BY <1>0, <1>2, <1>3, ClaimedRecord
    <2>2. CASE o.k = "history"
      <3>1. o.n = ftodo.m /\ ftodo.m # 0 /\ fver[<<f[1], o.n>>] = frec[f].sha
        BY <1>1, <2>1, <2>2 DEF StepOK
      <3>2. frec'[f].ver = o.n
        BY <2>1, <2>2
      <3> QED
        BY <1>1, <2>1, <3>1, <3>2 DEF Safe, Untouched
    <2>3. CASE o.k = "active"
      <3>1. Resolved(f) = fkept[f]
        BY <1>0, <1>1, <2>1, <2>3 DEF Outlives
      <3>2. frec'[f].ver = frec[f].ver
        BY <2>1, <2>3
      <3> QED
        BY <1>1, <2>1, <3>1, <3>2 DEF Safe, Resolved
    <2> QED
      BY <2>1, <2>2, <2>3
  <1>4. CASE frec'[f] = frec[f] /\ frec[f].ver # 0
    <2>1. fver'[<<f[1], frec[f].ver>>] = fver[<<f[1], frec[f].ver>>]
      BY <1>0, <1>2, <1>4, StepVersion
    <2> QED
      BY <1>1, <1>4, <2>1 DEF Safe
  <1>5. CASE frec'[f] = frec[f] /\ frec[f].ver = 0
    <2>1. /\ frec[f].life = "active" /\ Safe(f)
          /\ fpath[f[1]] = fkept[f] \/ Binned(f) \/ Versioned(f)
      BY <1>5 DEF Safe
    <2>2. /\ \/ fpath'[f[1]] = fpath[f[1]] /\ ftrash'[f[1]] = ftrash[f[1]]
             \/ ftrash'[f[1]] = Trashed(ftrash[f[1]], fpath[f[1]])
          /\ \A m \in 1..MaxWrites : \A i \in fintent[m] : i.f = f =>
                \/ fver'[<<f[1], m>>] = fver[<<f[1], m>>]
                \/ /\ o.k = "unversion" /\ m = ftodo.m /\ i \notin ftodo.items /\ m # 0
                   /\ fpath' = fpath
      BY <1>0, <1>2, <1>5, <2>1, StepElsewhere
    <2>3. ftrash[f[1]] \in Seq(Bytes) /\ fpath[f[1]] \in Bytes
      BY <1>2
    <2>4. CASE fpath[f[1]] = fkept[f]
      <3>1. fpath'[f[1]] = fkept[f] \/ fkept[f] \in Range(ftrash'[f[1]])
        BY <2>2, <2>3, <2>4, TrashKeeps
      <3> QED
        BY <1>1, <1>5, <3>1 DEF Safe, Binned
    <2>5. CASE Binned(f)
      <3>1. fkept[f] \in Range(ftrash'[f[1]])
        BY <2>2, <2>3, <2>5, TrashKeeps DEF Binned, Claimed
      <3> QED
        BY <1>1, <1>5, <3>1 DEF Safe, Binned
    <2>6. CASE Versioned(f)
      <3>1. PICK m \in 1..MaxWrites : \E i \in fintent[m] :
               i.f = f /\ i.ver /\ i.rec = frec[f] /\ fver[<<f[1], m>>] = fkept[f]
        BY <2>6 DEF Versioned
      <3>2. PICK i \in fintent[m] : i.f = f /\ i.ver /\ i.rec = frec[f] /\ fver[<<f[1], m>>] = fkept[f]
        BY <3>1
      <3>3. CASE fver'[<<f[1], m>>] = fver[<<f[1], m>>]
        <4>1. Versioned(f)'
          BY <1>1, <1>5, <3>2, <3>3 DEF Versioned
        <4> QED
          BY <1>5, <4>1 DEF Safe
      <3>4. CASE /\ o.k = "unversion" /\ m = ftodo.m /\ i \notin ftodo.items /\ m # 0
                 /\ fpath' = fpath
        <4>1. fpath[f[1]] = fkept[f]
          BY <1>0, <1>1, <1>5, <2>1, <3>2, <3>4 DEF Outlives
        <4> QED
          BY <1>1, <1>5, <3>4, <4>1 DEF Safe
      <3> QED
        BY <2>2, <3>2, <3>3, <3>4
    <2> QED
      BY <2>1, <2>4, <2>5, <2>6
  <1> QED
    BY <1>3, <1>4, <1>5

\* No action takes the claimed bytes away.
LEMMA SafeStep ==
    ASSUME FileTypeOK, Chain, Intents, Preparing, Todo, Steps, [FileNext]_fileVars, NEW f \in FileIds,
           Claimed(f), Untouched(f), Outlives(f), frec[f].life = "active" => Safe(f),
           fkept'[f] = fkept[f], frec'[f].life = "active"
    PROVE  Safe(f)'
  <1>1. /\ fpath \in [FilePaths -> Bytes] /\ fver \in [FileIds -> Bytes] /\ f[1] \in FilePaths
        /\ fintent \in [1..MaxWrites -> SUBSET FileItems] /\ frec[f].ver \in 0..MaxWrites
        /\ \A m \in 0..MaxWrites : <<f[1], m>> \in FileIds
        /\ \A m \in 1..MaxWrites : m \in 0..MaxWrites
        /\ ftodo.m \in 0..MaxWrites
    <2>1. /\ fpath \in [FilePaths -> Bytes] /\ fver \in [FileIds -> Bytes]
          /\ fintent \in [1..MaxWrites -> SUBSET FileItems] /\ frec[f] \in FileRecords
          /\ f[1] \in FilePaths /\ \A m \in 0..MaxWrites : <<f[1], m>> \in FileIds
      BY DiskParts, FileIdParts
    <2>2. frec[f].ver \in 0..MaxWrites /\ ftodo.m \in 0..MaxWrites /\ MaxWrites \in Nat
      BY <2>1, RecordParts, TodoParts
    <2>3. \A m \in 1..MaxWrites : m \in 0..MaxWrites
      BY <2>2
    <2> QED
      BY <2>1, <2>2, <2>3
  <1>2. CASE FileStepDone
    BY <1>2, SafeAfterStep
  <1>3. ASSUME ~FileStepDone PROVE frec'[f] = frec[f] /\ Safe(f)
    <2>1. frec'[f] = frec[f]
      BY <1>3, ClaimedRecord
    <2> QED
      BY <2>1
  <1>4. ASSUME ftodo.log
        PROVE  ftodo.m # 0 /\ fintent[ftodo.m] = {} /\ frec[f].ver # ftodo.m
    BY <1>4 DEF Preparing
  <1>5. ASSUME NEW v, v = fver', ~FileStepDone, ftodo.log, UNCHANGED <<fpath, ftrash, fintent>>,
               \A m \in 0..MaxWrites : m # ftodo.m => v[<<f[1], m>>] = fver[<<f[1], m>>]
        PROVE  Safe(f)'
    <2>1. frec'[f] = frec[f] /\ Safe(f)
      BY <1>3, <1>5
    <2>2. fver'[<<f[1], frec[f].ver>>] = fver[<<f[1], frec[f].ver>>]
      BY <1>1, <1>4, <1>5
    <2>3. ASSUME NEW m \in 1..MaxWrites, NEW i \in fintent[m], i.f = f
          PROVE  i \in fintent'[m] /\ fver'[<<f[1], m>>] = fver[<<f[1], m>>]
      BY <1>1, <1>4, <1>5, <2>3
    <2> QED
      BY <1>5, <2>1, <2>2, <2>3, SafeFrame
  <1>6. CASE CopyVersion
    <2>1. /\ ~FileStepDone \/ FileStepDone
          /\ ftodo.copies # {} /\ UNCHANGED <<fpath, ftrash, fintent>>
          /\ \E i \in ftodo.copies : fver' = [fver EXCEPT ![<<i.f[1], ftodo.m>>] = i.before]
      BY <1>6 DEF CopyVersion
    <2>2. ftodo.log
      BY <2>1 DEF Todo
    <2>3. \A m \in 0..MaxWrites : m # ftodo.m => fver'[<<f[1], m>>] = fver[<<f[1], m>>]
      BY <1>1, <2>1
    <2> QED
      BY <1>2, <1>5, <2>1, <2>2, <2>3
  <1>7. CASE FileStepRaises
    <2>1. UNCHANGED <<fpath, ftrash, fintent>>
      BY <1>7 DEF FileStepRaises
    <2>2. CASE /\ ftodo.log
               /\ fver' = [g \in FileIds |-> IF g[2] = ftodo.m THEN NoBytes ELSE fver[g]]
      <3>1. \A m \in 0..MaxWrites : m # ftodo.m => fver'[<<f[1], m>>] = fver[<<f[1], m>>]
        BY <1>1, <2>2
      <3> QED
        BY <1>2, <1>5, <2>1, <2>2, <3>1
    <2>3. CASE fver' = fver
      BY <1>2, <1>3, <2>1, <2>3, SafeFrame
    <2> QED
      BY <1>7, <2>2, <2>3, TodoOfRaises
  <1>8. CASE LogIntent
    <2>1. /\ ftodo.log /\ UNCHANGED <<fpath, fver, ftrash>>
          /\ fintent' = [fintent EXCEPT ![ftodo.m] = ftodo.items]
      BY <1>8 DEF LogIntent
    <2>2. \A m \in 1..MaxWrites : \A i \in fintent[m] : i \in fintent'[m]
      BY <1>1, <1>4, <2>1
    <2> QED
      BY <1>2, <1>3, <2>1, <2>2, SafeFrame
  <1>9. CASE DropIntent
    <2>1. /\ UNCHANGED <<fpath, fver, ftrash>> /\ fintent' = [fintent EXCEPT ![ftodo.m] = {}]
          /\ ftodo.m # 0 /\ ~ftodo.log /\ ftodo.step = NoStep /\ ftodo.items = {}
      BY <1>9 DEF DropIntent, Settling
    <2>2. CASE FileStepDone
      BY <1>2, <2>2
    <2>3. CASE ~FileStepDone
      <3>1. frec'[f] = frec[f] /\ Safe(f) /\ frec[f].life = "active"
        BY <1>3, <2>3
      <3>2. CASE frec[f].ver = 0 /\ \E i \in fintent[ftodo.m] : i.f = f
        <4>1. fpath[f[1]] = fkept[f]
          BY <2>1, <3>1, <3>2 DEF Outlives
        <4> QED
          BY <2>1, <3>1, <3>2, <4>1 DEF Safe
      <3>3. CASE frec[f].ver # 0
        BY <2>1, <3>1, <3>3 DEF Safe
      <3>4. CASE ~ \E i \in fintent[ftodo.m] : i.f = f
        <4>1. \A m \in 1..MaxWrites : \A i \in fintent[m] : i.f = f => i \in fintent'[m]
          BY <1>1, <2>1, <3>4
        <4> QED
          BY <2>1, <3>1, <4>1, SafeFrame
      <3> QED
        BY <3>2, <3>3, <3>4
    <2> QED
      BY <2>2, <2>3
  <1>a. CASE WriterPuts
    <2>1. PICK w \in ftodo.puts : fpath' = [fpath EXCEPT ![w[1]] = w[2]]
      BY <1>a DEF WriterPuts
    <2>2. UNCHANGED <<fver, ftrash, fintent>> /\ ~ftodo.log
      BY <1>a DEF WriterPuts
    <2>3. CASE FileStepDone
      BY <1>2, <2>3
    <2>4. CASE ~FileStepDone
      <3>1. frec'[f] = frec[f] /\ Safe(f) /\ frec[f].life = "active"
        BY <1>3, <2>4
      <3>2. CASE w[1] # f[1]
        <4>1. fpath'[f[1]] = fpath[f[1]]
          BY <1>1, <2>1, <3>2
        <4> QED
          BY <2>2, <3>1, <4>1, SafeFrame
      <3>3. CASE frec[f].ver # 0
        BY <2>2, <3>1, <3>3 DEF Safe
      <3>4. CASE w[1] = f[1] /\ frec[f].ver = 0
        <4>1. Binned(f) \/ Versioned(f)
          BY <2>1, <2>2, <3>1, <3>4 DEF Outlives, Copied
        <4>2. Binned(f)' \/ Versioned(f)'
          BY <2>2, <3>1, <4>1 DEF Binned, Versioned
        <4> QED
          BY <3>1, <3>4, <4>2 DEF Safe
      <3> QED
        BY <3>2, <3>3, <3>4
    <2> QED
      BY <2>3, <2>4
  <1>b. CASE UNCHANGED fdisk \/ \E g \in FileIds : RecycleUnlocked(g)
    <2>1. UNCHANGED <<fpath, fver, ftrash, fintent>>
      BY <1>b DEF fdisk, RecycleUnlocked
    <2> QED
      BY <1>2, <1>3, <2>1, SafeFrame
  <1> QED
    BY <1>2, <1>6, <1>7, <1>8, <1>9, <1>a, <1>b, FileCases

\* Whose claim it is.
LEMMA ClaimKept ==
    ASSUME FileTypeOK, [FileNext]_fileVars, NEW f \in FileIds, Claimed(f)'
    PROVE  \/ AddReference(f)
           \/ /\ Claimed(f) /\ fkept'[f] = fkept[f] /\ (f \in fref => f \in fref')
              /\ fdelete' # NoDelete /\ fdelete'[1] = f => fdelete # NoDelete /\ fdelete[1] = f
  <1>1. fkept \in [FileIds -> Bytes] /\ \A g \in FileIds : \A b : <<g, b>>[1] = g
    BY DiskParts
  <1>2. ASSUME NEW g \in FileIds, NEW permanent \in BOOLEAN, NEW force \in BOOLEAN,
               DeleteCheck(g, permanent, force)
        PROVE  /\ Claimed(f) /\ fkept'[f] = fkept[f] /\ (f \in fref => f \in fref')
               /\ fdelete' # NoDelete /\ fdelete'[1] = f => fdelete # NoDelete /\ fdelete[1] = f
    <2>1. fkept' = [fkept EXCEPT ![g] = NoBytes] /\ fref' = fref /\ fdelete' = <<g, permanent>>
      BY <1>2 DEF DeleteCheck
    <2>2. g # f
      BY <1>1, <2>1 DEF Claimed
    <2> QED
      BY <1>1, <2>1, <2>2 DEF Claimed
  <1>3. ASSUME NEW g \in FileIds, DropReference(g)
        PROVE  /\ Claimed(f) /\ fkept'[f] = fkept[f] /\ (f \in fref => f \in fref')
               /\ fdelete' = fdelete
    <2>1. fkept' = [fkept EXCEPT ![g] = NoBytes] /\ fref' = fref \ {g} /\ fdelete' = fdelete
      BY <1>3 DEF DropReference
    <2>2. g # f
      BY <1>1, <2>1 DEF Claimed
    <2> QED
      BY <1>1, <2>1, <2>2 DEF Claimed
  <1>4. ASSUME NEW g \in FileIds, AddReference(g), g # f
        PROVE  /\ Claimed(f) /\ fkept'[f] = fkept[f] /\ (f \in fref => f \in fref')
               /\ fdelete' = fdelete
    BY <1>1, <1>4 DEF AddReference, Claimed
  <1>5. CASE fkept' = fkept /\ fref' = fref /\ (fdelete' = fdelete \/ fdelete' = NoDelete)
    BY <1>5 DEF Claimed
  <1>6. \/ fkept' = fkept /\ fref' = fref /\ (fdelete' = fdelete \/ fdelete' = NoDelete)
        \/ \E g \in FileIds :
              \/ \E permanent, force \in BOOLEAN : DeleteCheck(g, permanent, force)
              \/ DropReference(g) \/ AddReference(g)
    BY FileCases DEF FileStepDone, CopyVersion, LogIntent, DropIntent, WriterPuts, FileStepRaises,
       RecycleUnlocked, SettleItem, AdoptCommit, ReopenIntent, FileHolderDies, ReconcileFiles,
       DeleteFile, fileVars, CreateFile, TrashFile, ReconcileTrash, RestoreFile, FileRest,
       GovernedWrite
  <1> QED
    BY <1>2, <1>3, <1>4, <1>5, <1>6

\* Who begins to refer to a file sees its bytes.
LEMMA ClaimBegins ==
    ASSUME FileTypeOK, NEW f \in FileIds, AddReference(f), Claimed(f)'
    PROVE  Untouched(f)' /\ Outlives(f)' /\ Safe(f)'
  <1>1. fkept \in [FileIds -> Bytes]
    BY DiskParts
  <1>2. /\ frec[f].life = "active" /\ fref' = fref \cup {f}
        /\ fkept' = [fkept EXCEPT ![f] =
                   IF /\ ftodo = Idle /\ Resolved(f) = frec[f].sha
                      /\ fdelete = NoDelete \/ fdelete[1] # f
                      /\ ~UnsettledWrite(f)
                   THEN frec[f].sha ELSE NoBytes]
        /\ UNCHANGED <<fdisk, ftodo, fdelete>>
    BY DEF AddReference
  <1>3. /\ ftodo = Idle /\ Resolved(f) = frec[f].sha /\ ~UnsettledWrite(f)
        /\ fdelete = NoDelete \/ fdelete[1] # f
        /\ fkept'[f] = frec[f].sha
    BY <1>1, <1>2 DEF Claimed
  <1>4. UNCHANGED <<fpath, fver, ftrash, frec, fintent>>
    BY <1>2 DEF fdisk
  <1>5. /\ ftodo'.step = NoStep /\ ftodo'.items = {} /\ ftodo'.puts = {} /\ ftodo'.m = 0
    BY <1>2, <1>3, IdleParts
  <1>6. Untouched(f)'
    <2>1. ~UnsettledWrite(f)'
      BY <1>3, <1>4 DEF UnsettledWrite
    <2> QED
      BY <1>2, <1>3, <1>4, <1>5, <2>1 DEF Untouched
  <1>7. Outlives(f)'
    BY <1>5 DEF Outlives
  <1>8. Safe(f)'
    BY <1>3, <1>4 DEF Safe, Resolved
  <1> QED
    BY <1>6, <1>7, <1>8

\* Where the items that are left come from.
LEMMA ItemsLeft ==
    ASSUME FileTypeOK, Chain, [FileNext]_fileVars, NEW i \in ftodo'.items
    PROVE  \/ i \in ftodo.items
           \/ \E m \in 1..MaxWrites : i \in fintent[m]
           \/ i.f \in fref => i.ver
  <1>1. CASE FileStepDone \/ CopyVersion \/ LogIntent \/ DropIntent \/ WriterPuts
    BY <1>1, TodoOfFileStepDone, TodoOfCopyVersion, TodoOfLogIntent, TodoOfDropIntent, TodoOfWriterPuts
  <1>2. CASE FileStepRaises
    BY <1>2, TodoOfRaises, TodoOfRaised, IdleParts
  <1>3. CASE SettleItem \/ AdoptCommit
    BY <1>3, TodoOfSettleItem, TodoOfAdoptCommit
  <1>4. CASE ReopenIntent
    BY <1>4, TodoOfReopenIntent, TodoParts
  <1>5. CASE FileHolderDies
    BY <1>5, IdleParts DEF FileHolderDies
  <1>6. CASE ReconcileFiles
    BY <1>6, TodoOfReconcileFiles
  <1>7. CASE \/ DeleteFile
             \/ \E p \in FilePaths, bytes \in FileBytes : CreateFile(p, bytes)
             \/ \E f \in FileIds : TrashFile(f) \/ ReconcileTrash(f) \/ RestoreFile(f)
    BY <1>7, FileOperations
  <1>8. CASE \/ UNCHANGED fileVars
             \/ \E f \in FileIds :
                   \/ \E permanent, force \in BOOLEAN : DeleteCheck(f, permanent, force)
                   \/ AddReference(f) \/ DropReference(f) \/ RecycleUnlocked(f)
    BY <1>8, TodoStays
  <1>9. ASSUME NEW scope \in (SUBSET FilePaths) \ {{}},
               NEW after \in [scope -> FileBytes \cup {NoBytes}], GovernedWrite(scope, after)
        PROVE  i.f \in fref => i.ver
    BY <1>9, TodoOfGovernedWrite, GovernedItemParts
  <1> QED
    BY <1>1, <1>2, <1>3, <1>4, <1>5, <1>6, <1>7, <1>8, <1>9 DEF FileNext

\* Who takes bytes away, or writes other ones over a record.
LEMMA StepLeft ==
    ASSUME FileTypeOK, Todo, [FileNext]_fileVars, NEW s, s = ftodo'.step, s # NoStep,
           s.k \in {"unlink", "purge", "sha"}
    PROVE  \/ ftodo.step # NoStep /\ ftodo.step.k \in {"unlink", "purge", "sha"} /\ s.f = ftodo.step.f
           \/ \E i \in ftodo.items : ~i.ver /\ s.f = i.f
           \/ fdelete # NoDelete /\ s.f = fdelete[1]
  <1>0. \A k, f, b, n : /\ FileStep(k, f, b, n).k = k /\ FileStep(k, f, b, n).f = f
    BY DEF FileStep
  <1>1. CASE FileStepDone
    <2>1. ftodo.step # NoStep /\ s = Follows(ftodo.step)
      BY <1>1, TodoOfFileStepDone DEF FileStepDone
    <2>2. s.k \notin {"commit", "index", "uncommit", "soft", "trashPath", "active"}
      OBVIOUS
    <2>3. CASE ftodo.step.k = "unlink"
      <3>1. s = FileStep("purge", ftodo.step.f, NoBytes, 0)
        BY <2>1, <2>3 DEF Follows
      <3> QED
        BY <1>0, <2>1, <2>3, <3>1
    <2>4. CASE ftodo.step.k = "history"
      <3>1. s = CurrentStep(ftodo.step.f[1], ftodo.step.n)
        BY <2>1, <2>4 DEF Follows
      <3>2. s.k = "commit"
        BY <1>0, <3>1 DEF CurrentStep
      <3> QED
        BY <2>2, <3>2
    <2>5. CASE ftodo.step.k \notin {"unlink", "history"}
      <3>1. s.k \in {"commit", "index", "uncommit", "soft", "trashPath", "active"}
        BY <1>0, <2>1, <2>5 DEF Follows
      <3> QED
        BY <2>2, <3>1
    <2> QED
      BY <2>3, <2>4, <2>5
  <1>2. CASE SettleItem
    <2>1. PICK i \in ftodo.items : s = SettleStep(i, ftodo.m)
      BY <1>2, TodoOfSettleItem
    <2>2. CASE i.ver
      <3>1. s.k \in {"unversion", "history", "commit"}
        BY <1>0, <2>1, <2>2 DEF SettleStep, CurrentStep
      <3> QED
        BY <3>1
    <2>3. CASE ~i.ver
      <3>1. s.f = i.f
        BY <1>0, <2>1, <2>3 DEF SettleStep
      <3> QED
        BY <2>3, <3>1
    <2> QED
      BY <2>2, <2>3
  <1>3. CASE AdoptCommit
    <2>1. s.k \in {"index", "uncommit"}
      BY <1>0, <1>3, TodoOfAdoptCommit
    <2> QED
      BY <2>1
  <1>4. CASE DeleteFile
    <2>1. /\ fdelete # NoDelete
          /\ FileDoes(IF frec[fdelete[1]].life = "purged" THEN NoStep
                      ELSE FileStep(IF fdelete[2] THEN "unlink" ELSE "soft", fdelete[1], NoBytes, 0))
      BY <1>4 DEF DeleteFile
    <2>2. s = FileStep(IF fdelete[2] THEN "unlink" ELSE "soft", fdelete[1], NoBytes, 0)
      BY <2>1, TodoOfFileDoes
    <2> QED
      BY <1>0, <2>1, <2>2
  <1>5. CASE \/ \E p \in FilePaths, bytes \in FileBytes : CreateFile(p, bytes)
             \/ \E f \in FileIds : TrashFile(f) \/ ReconcileTrash(f) \/ RestoreFile(f)
    <2>1. \E k \in {"write", "trash", "soft", "untrash", "active"} : \E f, b, n : FileDoes(FileStep(k, f, b, n))
      BY <1>5 DEF CreateFile, TrashFile, ReconcileTrash, RestoreFile
    <2>2. PICK k \in {"write", "trash", "soft", "untrash", "active"} : \E f, b, n : FileDoes(FileStep(k, f, b, n))
      BY <2>1
    <2>3. PICK f, b, n : FileDoes(FileStep(k, f, b, n))
      BY <2>2
    <2>4. s = FileStep(k, f, b, n)
      BY <2>3, TodoOfFileDoes
    <2>5. s.k = k
      BY <1>0, <2>4
    <2> QED
      BY <2>5
  <1>6. CASE \/ UNCHANGED fileVars
             \/ \E f \in FileIds :
                   \/ \E permanent, force \in BOOLEAN : DeleteCheck(f, permanent, force)
                   \/ AddReference(f) \/ DropReference(f) \/ RecycleUnlocked(f)
    BY <1>6, TodoStays
  <1>7. CASE CopyVersion
    BY <1>7, TodoOfCopyVersion
  <1>8. CASE LogIntent
    BY <1>8, TodoOfLogIntent
  <1>9. CASE DropIntent
    BY <1>9, TodoOfDropIntent
  <1>a. CASE WriterPuts
    BY <1>a, TodoOfWriterPuts
  <1>b. CASE FileStepRaises
    BY <1>b, TodoOfRaises, TodoOfRaised, IdleParts
  <1>c. CASE ReopenIntent
    BY <1>c, TodoOfReopenIntent
  <1>d. CASE FileHolderDies
    BY <1>d, IdleParts DEF FileHolderDies
  <1>e. CASE ReconcileFiles
    BY <1>e, TodoOfReconcileFiles
  <1>f. ASSUME NEW scope \in (SUBSET FilePaths) \ {{}},
               NEW after \in [scope -> FileBytes \cup {NoBytes}], GovernedWrite(scope, after)
        PROVE  FALSE
    BY <1>f, TodoOfGovernedWrite
  <1> QED
    BY <1>1, <1>2, <1>3, <1>4, <1>5, <1>6, <1>7, <1>8, <1>9, <1>a, <1>b, <1>c, <1>d, <1>e, <1>f
       DEF FileNext

\* The record and the references of a claimed file stay, and no write of it goes unsettled.
LEMMA UntouchedStep ==
    ASSUME FileTypeOK, Chain, Todo, Steps, [FileNext]_fileVars, NEW f \in FileIds, Untouched(f),
           fkept'[f] = fkept[f], f \in fref',
           fdelete' # NoDelete /\ fdelete'[1] = f => fdelete # NoDelete /\ fdelete[1] = f
    PROVE  Untouched(f)'
  <1>1. fintent \in [1..MaxWrites -> SUBSET FileItems] /\ ftodo.m \in 0..MaxWrites
    BY DiskParts, TodoParts
  <1>2. frec'[f].life \in {"active", "soft"} /\ frec'[f].sha = fkept'[f]
    <2>1. frec[f].life \in {"active", "soft"} /\ frec[f].sha = fkept[f]
      BY DEF Untouched
    <2> QED
      BY <2>1, ClaimedRecord
  <1>3. fdelete' # NoDelete => fdelete'[1] # f
    BY DEF Untouched
  <1>4. ASSUME NEW s, s = ftodo'.step, s # NoStep, s.k \in {"unlink", "purge", "sha"}
        PROVE  s.f # f
    BY <1>4, StepLeft DEF Untouched
  <1>5. ~UnsettledWrite(f)'
    <2>1. SUFFICES ASSUME NEW m \in 1..MaxWrites, NEW i \in fintent'[m], i.f = f, ~i.ver
                   PROVE  FALSE
      BY DEF UnsettledWrite
    <2>2. i \in fintent[m] \/ i \in ftodo.items
      BY <1>1, <2>1, IntentChange
    <2> QED
      BY <2>1, <2>2 DEF Untouched, UnsettledWrite
  <1>6. ASSUME NEW i \in ftodo'.items, i.f = f PROVE i.ver
    BY <1>6, ItemsLeft DEF Untouched, UnsettledWrite
  <1> QED
    BY <1>2, <1>3, <1>4, <1>5, <1>6 DEF Untouched

-----------------------------------------------------------------------------
(* What is about to be done leaves the claimed bytes somewhere.            *)

\* What the writer has still to put, and what was copied before.
LEMMA PutsLeft ==
    ASSUME FileTypeOK, Todo, [FileNext]_fileVars, NEW w \in ftodo'.puts
    PROVE  \/ \E scope \in (SUBSET FilePaths) \ {{}} :
                 \E after \in [scope -> FileBytes \cup {NoBytes}] : GovernedWrite(scope, after)
           \/ /\ w \in ftodo.puts /\ ftodo.step = NoStep
              /\ \/ CopyVersion \/ LogIntent
                 \/ /\ UNCHANGED <<fver, ftrash, fintent>>
                    /\ ftodo.log => ftodo' = ftodo
  <1>1. CASE FileStepDone
    BY <1>1, TodoOfFileStepDone DEF FileStepDone, Todo
  <1>2. CASE CopyVersion
    BY <1>2, TodoOfCopyVersion DEF CopyVersion, Todo
  <1>3. CASE LogIntent
    BY <1>3, TodoOfLogIntent DEF LogIntent, Todo
  <1>4. CASE DropIntent
    BY <1>4, TodoOfDropIntent DEF DropIntent, Settling
  <1>5. CASE WriterPuts
    BY <1>5, TodoOfWriterPuts DEF WriterPuts, Todo
  <1>6. CASE FileStepRaises
    BY <1>6, TodoOfRaises, TodoOfRaised, IdleParts
  <1>7. CASE SettleItem
    BY <1>7, TodoOfSettleItem DEF SettleItem, Settling
  <1>8. CASE AdoptCommit
    BY <1>8, TodoOfAdoptCommit DEF AdoptCommit, Todo
  <1>9. CASE ReopenIntent
    BY <1>9, TodoOfReopenIntent DEF ReopenIntent, Todo, fdisk
  <1>a. CASE FileHolderDies
    BY <1>a, IdleParts DEF FileHolderDies
  <1>b. CASE ReconcileFiles
    BY <1>b, TodoOfReconcileFiles
  <1>c. CASE \/ DeleteFile
             \/ \E p \in FilePaths, bytes \in FileBytes : CreateFile(p, bytes)
             \/ \E f \in FileIds : TrashFile(f) \/ ReconcileTrash(f) \/ RestoreFile(f)
    BY <1>c, FileOperations
  <1>d. CASE \/ UNCHANGED fileVars
             \/ \E f \in FileIds :
                   \/ \E permanent, force \in BOOLEAN : DeleteCheck(f, permanent, force)
                   \/ AddReference(f) \/ DropReference(f) \/ RecycleUnlocked(f)
    <2>1. ftodo' = ftodo /\ UNCHANGED <<fver, fintent>>
      BY <1>d, TodoStays
    <2>2. ftrash' = ftrash
      BY <1>d DEF fileVars, fdisk, DeleteCheck, AddReference, DropReference, RecycleUnlocked
    <2> QED
      BY <2>1, <2>2 DEF Todo
  <1> QED
    BY <1>1, <1>2, <1>3, <1>4, <1>5, <1>6, <1>7, <1>8, <1>9, <1>a, <1>b, <1>c, <1>d DEF FileNext

\* Before the writer puts other bytes at a path, the claimed ones are elsewhere, or being copied.
LEMMA OutlivesWriter ==
    ASSUME FileTypeOK, Chain, Intents, Preparing, Todo, Steps, [FileNext]_fileVars, NEW f \in FileIds,
           Claimed(f), Untouched(f), Outlives(f), frec[f].life = "active" => Safe(f),
           fkept'[f] = fkept[f], frec'[f].life = "active", frec'[f].ver = 0,
           NEW w \in ftodo'.puts, w[1] = f[1]
    PROVE  Binned(f)' \/ Versioned(f)' \/ Copied(f)'
  <1>0. /\ fintent \in [1..MaxWrites -> SUBSET FileItems] /\ fver \in [FileIds -> Bytes]
        /\ ftodo.items \subseteq FileItems /\ ftodo.m \in 0..MaxWrites
        /\ \A m \in 0..MaxWrites : <<f[1], m>> \in FileIds
        /\ MaxWrites \in Nat
    BY DiskParts, TodoParts, FileIdParts
  <1>1. ASSUME ftodo.step = NoStep
        PROVE  frec'[f] = frec[f] /\ frec[f].life = "active" /\ frec[f].ver = 0 /\ Safe(f)
    <2>1. frec'[f] = frec[f]
      BY <1>1, ClaimedRecord
    <2> QED
      BY <2>1
  <1>2. ASSUME NEW scope \in (SUBSET FilePaths) \ {{}},
               NEW after \in [scope -> FileBytes \cup {NoBytes}], GovernedWrite(scope, after)
        PROVE  Binned(f)' \/ Versioned(f)' \/ Copied(f)'
    <2>1. /\ ftodo = Idle /\ ~WriteRefused(scope)
          /\ ftodo'.items = GovernedItems(scope) /\ ftodo'.log = (GovernedItems(scope) # {})
          /\ ftodo'.copies = {i \in GovernedItems(scope) : i.ver} /\ w[1] \in scope
          /\ UNCHANGED <<fpath, fver, ftrash, frec, fintent>>
      BY <1>2, TodoOfGovernedWrite DEF fdisk
    <2>2. ftodo.step = NoStep
      BY <2>1, IdleParts
    <2>3. /\ frec[f].life = "active" /\ frec[f].ver = 0 /\ f \in fref
          /\ fpath[f[1]] = fkept[f] \/ Binned(f) \/ Versioned(f)
      BY <1>1, <2>2 DEF Safe, Untouched
    <2>4. CASE Binned(f) \/ Versioned(f)
      BY <2>1, <2>4 DEF Binned, Versioned
    <2>5. CASE fpath[f[1]] = fkept[f]
      <3>1. f \in Governed(scope)
        BY <2>1, <2>3, <2>5 DEF Governed, Claimed
      <3>2. PICK i \in GovernedItems(scope) :
               i = [f |-> f, rec |-> frec[f], before |-> fpath[f[1]], ver |-> f \in fref]
        BY <3>1 DEF GovernedItems
      <3>3. i.f = f /\ i.rec = frec[f] /\ i.ver
        BY <2>3, <3>2
      <3>4. ftodo'.log
        BY <2>1, <3>2, Zenon
      <3>5. i \in ftodo'.items /\ i \in ftodo'.copies
        BY <2>1, <3>3
      <3> QED
        BY <2>1, <3>3, <3>4, <3>5 DEF Copied
    <2> QED
      BY <2>3, <2>4, <2>5
  <1>3. ASSUME w \in ftodo.puts, ftodo.step = NoStep
        PROVE  Binned(f) \/ Versioned(f) \/ Copied(f)
    BY <1>1, <1>3 DEF Outlives
  <1>4. ASSUME ftodo.log PROVE fintent[ftodo.m] = {} /\ ftodo.m # 0 /\ OnePerPath(ftodo.items)
    BY <1>4 DEF Preparing
  <1>5. ASSUME ftodo.log, Versioned(f), frec'[f] = frec[f],
               \A m \in 1..MaxWrites : m # ftodo.m =>
                  (fver'[<<f[1], m>>] = fver[<<f[1], m>>] /\ fintent'[m] = fintent[m])
        PROVE  Versioned(f)'
    <2>0. PICK m \in 1..MaxWrites : \E i \in fintent[m] :
             /\ i.f = f /\ i.ver /\ i.rec = frec[f]
             /\ fver[<<f[1], m>>] = fkept[f]
      BY <1>5 DEF Versioned
    <2>1. PICK i \in fintent[m] : /\ i.f = f /\ i.ver /\ i.rec = frec[f]
                                  /\ fver[<<f[1], m>>] = fkept[f]
      BY <2>0
    <2>2. m # ftodo.m
      BY <1>4, <1>5
    <2>3. fver'[<<f[1], m>>] = fkept'[f] /\ i \in fintent'[m]
      BY <1>5, <2>1, <2>2
    <2> QED
      BY <1>5, <2>1, <2>3 DEF Versioned
  <1>6. CASE w \in ftodo.puts /\ ftodo.step = NoStep /\ CopyVersion
    <2>1. PICK i \in ftodo.copies : /\ fver' = [fver EXCEPT ![<<i.f[1], ftodo.m>>] = i.before]
                                    /\ ftodo'.copies = ftodo.copies \ {i}
      BY <1>6, TodoOfCopyVersion
    <2>2. /\ ftodo'.m = ftodo.m /\ ftodo'.log = ftodo.log /\ ftodo'.items = ftodo.items
          /\ UNCHANGED <<ftrash, fintent>>
      BY <1>6, TodoOfCopyVersion DEF CopyVersion
    <2>3. ftodo.log
      BY <2>1 DEF Todo
    <2>4. frec'[f] = frec[f]
      BY <1>1, <1>6
    <2>5. CASE Binned(f)
      BY <2>2, <2>5 DEF Binned
    <2>6. CASE Versioned(f)
      <3>1. \A m \in 1..MaxWrites : m # ftodo.m =>
               (fver'[<<f[1], m>>] = fver[<<f[1], m>>] /\ fintent'[m] = fintent[m])
        BY <1>0, <2>1, <2>2
      <3> QED
        BY <1>5, <2>3, <2>4, <2>6, <3>1
    <2>7. CASE Copied(f)
      <3>1. PICK j \in ftodo.items : /\ j.f = f /\ j.ver /\ j.rec = frec[f]
                                     /\ j \in ftodo.copies \/ fver[<<f[1], ftodo.m>>] = fkept[f]
        BY <2>7 DEF Copied
      <3>2. ItemOK(j) /\ j.before = fkept[f]
        BY <2>3, <3>1 DEF Preparing, ItemOK, Untouched
      <3>3. <<f[1], ftodo.m>> \in FileIds
        BY <1>0
      <3>4. CASE i = j
        <4>1. fver'[<<f[1], ftodo.m>>] = fkept[f]
          BY <1>0, <2>1, <3>1, <3>2, <3>3, <3>4
        <4> QED
          BY <2>2, <2>3, <2>4, <3>1, <4>1 DEF Copied
      <3>5. CASE i # j
        <4>1. CASE j \in ftodo.copies
          BY <2>1, <2>2, <2>3, <2>4, <3>1, <3>5, <4>1 DEF Copied
        <4>2. CASE fver[<<f[1], ftodo.m>>] = fkept[f] /\ <<i.f[1], ftodo.m>> # <<f[1], ftodo.m>>
          <5>1. fver'[<<f[1], ftodo.m>>] = fkept[f]
            BY <1>0, <2>1, <3>3, <4>2
          <5> QED
            BY <2>2, <2>3, <2>4, <3>1, <5>1 DEF Copied
        <4>3. CASE <<i.f[1], ftodo.m>> = <<f[1], ftodo.m>>
          <5>1. i.f[1] = j.f[1]
            BY <3>1, <4>3
          <5>2. i \in ftodo.items
            BY <2>1, <2>3 DEF Preparing
          <5> QED
            BY <1>4, <2>3, <3>5, <5>1, <5>2 DEF OnePerPath
        <4> QED
          BY <3>1, <4>1, <4>2, <4>3
      <3> QED
        BY <3>4, <3>5
    <2> QED
      BY <1>3, <1>6, <2>5, <2>6, <2>7
  <1>7. CASE w \in ftodo.puts /\ ftodo.step = NoStep /\ LogIntent
    <2>1. /\ ftodo.log /\ ftodo.copies = {} /\ UNCHANGED <<fver, ftrash>>
          /\ fintent' = [fintent EXCEPT ![ftodo.m] = ftodo.items]
      BY <1>7 DEF LogIntent
    <2>2. frec'[f] = frec[f]
      BY <1>1, <1>7
    <2>3. CASE Binned(f)
      BY <2>1, <2>3 DEF Binned
    <2>4. CASE Versioned(f)
      <3>1. \A m \in 1..MaxWrites : m # ftodo.m =>
               (fver'[<<f[1], m>>] = fver[<<f[1], m>>] /\ fintent'[m] = fintent[m])
        BY <1>0, <2>1
      <3> QED
        BY <1>5, <2>1, <2>2, <2>4, <3>1
    <2>5. CASE Copied(f)
      <3>1. PICK j \in ftodo.items : /\ j.f = f /\ j.ver /\ j.rec = frec[f]
                                     /\ fver[<<f[1], ftodo.m>>] = fkept[f]
        BY <2>1, <2>5 DEF Copied
      <3>2. ftodo.m \in 1..MaxWrites
        BY <1>0, <1>4, <2>1
      <3>3. j \in fintent'[ftodo.m]
        BY <1>0, <2>1, <3>1, <3>2
      <3>4. Versioned(f)'
        <4>1. \E m \in 1..MaxWrites : \E i \in fintent'[m] :
                 i.f = f /\ i.ver /\ i.rec = frec'[f] /\ fver'[<<f[1], m>>] = fkept'[f]
          BY <2>1, <2>2, <3>1, <3>2, <3>3
        <4> QED
          BY <4>1 DEF Versioned
      <3> QED
        BY <3>4
    <2> QED
      BY <1>3, <1>7, <2>3, <2>4, <2>5
  <1>8. CASE /\ w \in ftodo.puts /\ ftodo.step = NoStep
             /\ UNCHANGED <<fver, ftrash, fintent>>
             /\ ftodo.log => ftodo' = ftodo
    <2>1. frec'[f] = frec[f]
      BY <1>1, <1>8
    <2>2. CASE Binned(f) \/ Versioned(f)
      BY <1>8, <2>1, <2>2 DEF Binned, Versioned
    <2>3. CASE Copied(f)
      BY <1>8, <2>1, <2>3 DEF Copied
    <2> QED
      BY <1>3, <1>8, <2>2, <2>3
  <1> QED
    BY <1>2, <1>6, <1>7, <1>8, PutsLeft

\* The items that are settled after an action.
LEMMA SettledLeft ==
    ASSUME FileTypeOK, Todo, [FileNext]_fileVars, ftodo'.m # 0, ~ftodo'.log,
           NEW i \in fintent'[ftodo'.m] \ ftodo'.items
    PROVE  \/ FileStepDone \/ SettleItem
           \/ ftodo' = ftodo /\ UNCHANGED <<fpath, fintent>>
  <1>0. /\ fintent \in [1..MaxWrites -> SUBSET FileItems] /\ ftodo.m \in 0..MaxWrites
        /\ MaxWrites \in Nat
    BY DiskParts, TodoParts
  <1>1. CASE CopyVersion
    BY <1>1, TodoOfCopyVersion DEF CopyVersion, Todo
  <1>2. CASE LogIntent
    <2>1. /\ ftodo'.m = ftodo.m /\ ftodo'.items = ftodo.items
          /\ fintent' = [fintent EXCEPT ![ftodo.m] = ftodo.items]
      BY <1>2, TodoOfLogIntent DEF LogIntent
    <2>2. ftodo.m \in 1..MaxWrites
      BY <1>0, <2>1
    <2> QED
      BY <1>0, <2>1, <2>2
  <1>3. CASE DropIntent
    BY <1>3, TodoOfDropIntent
  <1>4. CASE WriterPuts
    <2>1. /\ ftodo'.m = ftodo.m /\ ftodo'.items = ftodo.items /\ ftodo'.log = ftodo.log
          /\ ftodo.puts # {} /\ fintent' = fintent
      BY <1>4, TodoOfWriterPuts DEF WriterPuts
    <2> QED
      BY <2>1 DEF Todo
  <1>5. CASE FileStepRaises
    <2>1. fintent' = fintent
      BY <1>5 DEF FileStepRaises
    <2>2. CASE ~ftodo.log /\ ftodo.puts # {} /\ ftodo'.m = ftodo.m /\ ftodo'.items = ftodo.items
      BY <2>1, <2>2 DEF Todo
    <2> QED
      BY <1>5, <2>2, TodoOfRaises, TodoOfRaised, IdleParts
  <1>6. CASE AdoptCommit
    BY <1>6, TodoOfAdoptCommit DEF Todo
  <1>7. CASE ReopenIntent
    BY <1>7, TodoOfReopenIntent DEF ReopenIntent, fdisk
  <1>8. CASE FileHolderDies
    BY <1>8, IdleParts DEF FileHolderDies
  <1>9. CASE ReconcileFiles
    BY <1>9, TodoOfReconcileFiles
  <1>a. CASE \/ DeleteFile
             \/ \E p \in FilePaths, bytes \in FileBytes : CreateFile(p, bytes)
             \/ \E f \in FileIds : TrashFile(f) \/ ReconcileTrash(f) \/ RestoreFile(f)
    BY <1>a, FileOperations
  <1>b. CASE \/ UNCHANGED fileVars
             \/ \E f \in FileIds :
                   \/ \E permanent, force \in BOOLEAN : DeleteCheck(f, permanent, force)
                   \/ AddReference(f) \/ DropReference(f) \/ RecycleUnlocked(f)
    BY <1>b, TodoStays
  <1>c. ASSUME NEW scope \in (SUBSET FilePaths) \ {{}},
               NEW after \in [scope -> FileBytes \cup {NoBytes}], GovernedWrite(scope, after)
        PROVE  FALSE
    BY <1>c, TodoOfGovernedWrite
  <1> QED
    BY <1>1, <1>2, <1>3, <1>4, <1>5, <1>6, <1>7, <1>8, <1>9, <1>a, <1>b, <1>c DEF FileNext

\* A record that is made history points to the version of the write.
LEMMA HistoryDone ==
    ASSUME FileTypeOK, FileStepDone, NEW o, o = ftodo.step, o.k = "history"
    PROVE  frec'[o.f].ver = o.n
  <1>1. /\ o # NoStep /\ Moved(ftodo.step) /\ o.f \in FileIds /\ o.k \in RecordKinds
        /\ frec \in [FileIds -> FileRecords]
    BY StepParts, DiskParts DEF FileStepDone, RecordKinds
  <1>2. PICK q \in FileRecords : q = frec[o.f]
    BY <1>1
  <1>3. Updated(o) = [q EXCEPT !.ver = o.n, !.sha = o.bytes]
    BY <1>2, Zenon DEF Updated
  <1>4. frec'[o.f] = [q EXCEPT !.ver = o.n, !.sha = o.bytes]
    <2>1. frec' = [frec EXCEPT ![o.f] = Updated(o)]
      BY <1>1, StepEffects
    <2> QED
      BY <1>1, <1>3, <2>1
  <1> QED
    BY <1>4 DEF FileRecords

\* An item is settled with the claimed bytes in place, or by making their record history.
LEMMA OutlivesSettled ==
    ASSUME FileTypeOK, Chain, Intents, Todo, Steps, [FileNext]_fileVars, NEW f \in FileIds,
           Untouched(f), Outlives(f), fkept'[f] = fkept[f],
           frec'[f].life = "active", frec'[f].ver = 0, ftodo'.m # 0, ~ftodo'.log,
           NEW i \in fintent'[ftodo'.m] \ ftodo'.items, i.f = f
    PROVE  \/ fpath'[f[1]] = fkept'[f]
           \/ ftodo'.step # NoStep /\ ftodo'.step.k = "history" /\ ftodo'.step.f = f
  <1>1. CASE FileStepDone
    <2>0. PICK o : o = ftodo.step
      OBVIOUS
    <2>1. /\ ftodo'.m = ftodo.m /\ ftodo'.items = ftodo.items /\ ftodo'.log = ftodo.log
          /\ fintent' = fintent /\ o # NoStep /\ Moved(ftodo.step) /\ StepOK(o)
      BY <1>1, <2>0, TodoOfFileStepDone DEF FileStepDone, Steps
    <2>2. o.k \in SettleKinds
      BY <2>1 DEF StepOK
    <2>3. fpath' = fpath
      BY <2>0, <2>1, <2>2, StepDisk DEF SettleKinds
    <2>4. ~(o.k = "history" /\ o.f = f)
      <3>1. SUFFICES ASSUME o.k = "history", o.f = f PROVE FALSE
        OBVIOUS
      <3>2. frec'[f].ver = o.n
        BY <1>1, <2>0, <3>1, HistoryDone
      <3>3. o.n # 0
        BY <2>1, <3>1 DEF StepOK
      <3> QED
        BY <3>2, <3>3
    <2>5. frec'[f] = frec[f]
      BY <2>0, <2>2, <2>4, ClaimedRecord DEF SettleKinds
    <2>6. fpath[f[1]] = fkept[f]
      BY <2>0, <2>1, <2>4, <2>5 DEF Outlives
    <2> QED
      BY <2>3, <2>6
  <1>2. ASSUME ~FileStepDone PROVE frec'[f] = frec[f]
    BY <1>2, ClaimedRecord
  <1>3. CASE SettleItem /\ ~FileStepDone
    <2>1. /\ fpath' = fpath /\ fintent' = fintent /\ ftodo.step = NoStep /\ ~ftodo.log
      BY <1>3 DEF SettleItem, Settling, fdisk
    <2>2. PICK j \in ftodo.items : /\ ~SettleRaises(j, ftodo.m) /\ ftodo'.items = ftodo.items \ {j}
                                   /\ ftodo'.step = SettleStep(j, ftodo.m) /\ ftodo'.m = ftodo.m
      BY <1>3, TodoOfSettleItem
    <2>3. frec'[f] = frec[f]
      BY <1>2, <1>3
    <2>4. CASE i # j
      <3>1. fpath[f[1]] = fkept[f]
        BY <2>1, <2>2, <2>3, <2>4 DEF Outlives
      <3> QED
        BY <2>1, <3>1
    <2>5. CASE i = j
      <3>1. ftodo.m \in 1..MaxWrites /\ i \in fintent[ftodo.m]
        BY <2>1, <2>2, TodoParts
      <3>2. i \in FileItems /\ i.ver /\ i.rec.sha = i.before
        BY <2>2, <2>5, <3>1 DEF Intents, ItemOK, Untouched
      <3>3. frec[f] = i.rec
        <4>1. frec[f] = i.rec \/ frec[f] = SettleHistorical(i, ftodo.m)
          BY <2>2, <2>5, <3>2, SettledRecord
        <4>2. SettleHistorical(i, ftodo.m).ver = ftodo.m
          BY <3>2, HistoricalFields
        <4> QED
          BY <2>2, <2>3, <4>1, <4>2
      <3>4. i.before = fkept[f]
        BY <3>2, <3>3 DEF Untouched
      <3>5. CASE fpath[f[1]] = i.before
        BY <2>1, <3>4, <3>5
      <3>6. CASE fpath[f[1]] # i.before
        <4>1. frec[f] # SettleHistorical(i, ftodo.m)
          BY <2>2, <2>3, <3>2, HistoricalFields
        <4>2. ftodo'.step = FileStep("history", f, i.before, ftodo.m)
          BY <2>2, <2>5, <3>2, <3>6, <4>1 DEF SettleStep
        <4>3. ftodo'.step.k = "history" /\ ftodo'.step.f = f
          BY <4>2 DEF FileStep
        <4>4. ftodo'.step # NoStep
          BY <4>2 DEF FileStep, NoStep
        <4> QED
          BY <4>3, <4>4
      <3> QED
        BY <3>5, <3>6
    <2> QED
      BY <2>4, <2>5
  <1>4. CASE ftodo' = ftodo /\ UNCHANGED <<fpath, fintent>> /\ ~FileStepDone
    <2>1. frec'[f] = frec[f]
      BY <1>2, <1>4
    <2> QED
      BY <1>4, <2>1 DEF Outlives
  <1> QED
    BY <1>1, <1>3, <1>4, SettledLeft

\* A record becomes active again when its bytes are back.
LEMMA OutlivesRestore ==
    ASSUME FileTypeOK, Chain, Steps, Todo, [FileNext]_fileVars, NEW f \in FileIds,
           Untouched(f), Outlives(f), fkept'[f] = fkept[f],
           NEW s, s = ftodo'.step, s # NoStep, s.k = "active", s.f = f
    PROVE  Resolved(f)' = fkept'[f]
  <1>0. \A k, g, b, n : /\ FileStep(k, g, b, n).k = k /\ FileStep(k, g, b, n).f = g
    BY DEF FileStep
  <1>1. CASE FileStepDone
    <2>0. PICK o : o = ftodo.step
      OBVIOUS
    <2>1. /\ o # NoStep /\ Moved(ftodo.step) /\ StepOK(o) /\ s = Follows(o) /\ o.f \in FileIds
      BY <1>1, <2>0, TodoOfFileStepDone, StepParts DEF FileStepDone, Steps
    <2>2. o.k = "untrash"
      <3>1. CASE o.k = "history"
        <4>1. s = CurrentStep(o.f[1], o.n)
          BY <2>1, <3>1 DEF Follows
        <4> QED
          BY <1>0, <4>1 DEF CurrentStep
      <3>2. CASE o.k \notin {"history", "untrash"}
        <4>1. s.k \in {"commit", "index", "uncommit", "soft", "trashPath", "purge"}
          BY <1>0, <2>1, <3>2 DEF Follows
        <4> QED
          BY <4>1
      <3> QED
        BY <3>1, <3>2
    <2>3. s = FileStep("active", o.f, NoBytes, 0)
      BY <2>1, <2>2 DEF Follows
    <2>4. o.f = f
      BY <1>0, <2>3
    <2>5. InTrash(f) = frec[f].sha /\ frec[f].ver = 0
      BY <2>1, <2>2, <2>4 DEF StepOK
    <2>6. fpath' = [fpath EXCEPT ![f[1]] = InTrash(f)] /\ frec' = frec
      <3>1. ftodo.step # NoStep /\ ftodo.step.k = "untrash"
        BY <2>0, <2>1, <2>2
      <3>2. frec' = frec
        BY <2>1, <3>1, StepEffects DEF RecordKinds
      <3>3. fpath' = [fpath EXCEPT ![o.f[1]] = InTrash(o.f)]
        BY <2>0, <2>1, <2>2, <3>1, StepDisk
      <3> QED
        BY <2>4, <3>2, <3>3
    <2>7. fpath \in [FilePaths -> Bytes] /\ f[1] \in FilePaths
      BY DiskParts, FileIdParts
    <2> QED
      BY <2>5, <2>6, <2>7 DEF Resolved, Untouched
  <1>2. ASSUME NEW g \in FileIds, RestoreFile(g) PROVE Resolved(f)' = fkept'[f]
    <2>1. UNCHANGED <<fpath, fver, frec>>
      BY <1>2 DEF RestoreFile, fdisk
    <2>2. CASE frec[g].trash > 0
      <3>1. s = FileStep("untrash", g, NoBytes, 0)
        BY <1>2, <2>2, TodoOfFileDoes DEF RestoreFile
      <3> QED
        BY <1>0, <3>1
    <2>3. CASE ~(frec[g].trash > 0)
      <3>1. s = FileStep("active", g, NoBytes, 0) /\ Resolved(g) = frec[g].sha
        BY <1>2, <2>3, TodoOfFileDoes DEF RestoreFile
      <3>2. g = f
        BY <1>0, <3>1
      <3> QED
        BY <2>1, <3>1, <3>2 DEF Resolved, Untouched
    <2> QED
      BY <2>2, <2>3
  <1>3. CASE SettleItem
    <2>1. PICK i \in ftodo.items : s = SettleStep(i, ftodo.m)
      BY <1>3, TodoOfSettleItem
    <2>2. s.k \in {"unversion", "history", "commit", "purge", "sha"}
      BY <1>0, <2>1 DEF SettleStep, CurrentStep
    <2> QED
      BY <2>2
  <1>4. CASE AdoptCommit
    <2>1. s.k \in {"index", "uncommit"}
      BY <1>0, <1>4, TodoOfAdoptCommit
    <2> QED
      BY <2>1
  <1>5. CASE DeleteFile
    <2>1. FileDoes(IF frec[fdelete[1]].life = "purged" THEN NoStep
                   ELSE FileStep(IF fdelete[2] THEN "unlink" ELSE "soft", fdelete[1], NoBytes, 0))
      BY <1>5 DEF DeleteFile
    <2>2. s = FileStep(IF fdelete[2] THEN "unlink" ELSE "soft", fdelete[1], NoBytes, 0)
      BY <2>1, TodoOfFileDoes
    <2> QED
      BY <1>0, <2>2
  <1>6. CASE \/ \E p \in FilePaths, bytes \in FileBytes : CreateFile(p, bytes)
             \/ \E g \in FileIds : TrashFile(g) \/ ReconcileTrash(g)
    <2>1. \E k \in {"write", "trash", "soft"} : \E g, b, n : FileDoes(FileStep(k, g, b, n))
      BY <1>6 DEF CreateFile, TrashFile, ReconcileTrash
    <2>2. PICK k \in {"write", "trash", "soft"} : \E g, b, n : FileDoes(FileStep(k, g, b, n))
      BY <2>1
    <2>3. PICK g, b, n : FileDoes(FileStep(k, g, b, n))
      BY <2>2
    <2>4. s = FileStep(k, g, b, n)
      BY <2>3, TodoOfFileDoes
    <2>5. s.k = k
      BY <1>0, <2>4
    <2> QED
      BY <2>5
  <1>7. CASE \/ UNCHANGED fileVars
             \/ \E g \in FileIds :
                   \/ \E permanent, force \in BOOLEAN : DeleteCheck(g, permanent, force)
                   \/ AddReference(g) \/ DropReference(g) \/ RecycleUnlocked(g)
    <2>1. ftodo' = ftodo /\ UNCHANGED <<fpath, fver>>
      BY <1>7, TodoStays
    <2>2. Resolved(f) = fkept[f]
      BY <2>1 DEF Outlives
    <2>3. CASE FileStepDone
      BY <1>1, <2>3
    <2>4. CASE ~FileStepDone
      <3>1. frec'[f] = frec[f]
        BY <2>4, ClaimedRecord
      <3> QED
        BY <2>1, <2>2, <3>1 DEF Resolved
    <2> QED
      BY <2>3, <2>4
  <1>8. CASE CopyVersion \/ LogIntent \/ WriterPuts
    <2>1. ftodo.step = NoStep
      BY <1>8 DEF CopyVersion, LogIntent, WriterPuts, Todo
    <2> QED
      BY <1>8, <2>1, TodoOfCopyVersion, TodoOfLogIntent, TodoOfWriterPuts
  <1>9. CASE DropIntent \/ ReopenIntent
    BY <1>9, TodoOfDropIntent, TodoOfReopenIntent DEF DropIntent, ReopenIntent, Settling
  <1>a. CASE FileStepRaises
    <2>1. CASE ~ftodo.log /\ ftodo.puts # {} /\ ftodo'.step = ftodo.step
      BY <2>1 DEF Todo
    <2> QED
      BY <1>a, <2>1, TodoOfRaises, TodoOfRaised, IdleParts
  <1>b. CASE FileHolderDies
    BY <1>b, IdleParts DEF FileHolderDies
  <1>c. CASE ReconcileFiles
    BY <1>c, TodoOfReconcileFiles
  <1>d. ASSUME NEW scope \in (SUBSET FilePaths) \ {{}},
               NEW after \in [scope -> FileBytes \cup {NoBytes}], GovernedWrite(scope, after)
        PROVE  FALSE
    BY <1>d, TodoOfGovernedWrite
  <1> QED
    BY <1>1, <1>2, <1>3, <1>4, <1>5, <1>6, <1>7, <1>8, <1>9, <1>a, <1>b, <1>c, <1>d DEF FileNext

LEMMA OutlivesStep ==
    ASSUME FileTypeOK, Chain, Intents, Preparing, Todo, Steps, [FileNext]_fileVars, NEW f \in FileIds,
           Claimed(f), Untouched(f), Outlives(f), frec[f].life = "active" => Safe(f),
           fkept'[f] = fkept[f]
    PROVE  Outlives(f)'
  <1>1. ASSUME frec'[f].life = "active", frec'[f].ver = 0
        PROVE  /\ (\E w \in ftodo'.puts : w[1] = f[1]) => Binned(f)' \/ Versioned(f)' \/ Copied(f)'
               /\ ftodo'.m # 0 /\ ~ftodo'.log =>
                     \A i \in fintent'[ftodo'.m] \ ftodo'.items :
                        i.f = f => \/ fpath'[f[1]] = fkept'[f]
                                   \/ /\ ftodo'.step # NoStep
                                      /\ ftodo'.step.k = "history" /\ ftodo'.step.f = f
    BY <1>1, OutlivesWriter, OutlivesSettled
  <1>2. ASSUME ftodo'.step # NoStep, ftodo'.step.k = "active", ftodo'.step.f = f
        PROVE  Resolved(f)' = fkept'[f]
    BY <1>2, OutlivesRestore
  <1> QED
    BY <1>1, <1>2 DEF Outlives

LEMMA ClaimsStep ==
    ASSUME FileTypeOK, Chain, Intents, Preparing, Todo, Steps, Claims, [FileNext]_fileVars
    PROVE  Claims'
  <1>1. SUFFICES ASSUME NEW f \in FileIds, Claimed(f)'
                 PROVE  Untouched(f)' /\ Outlives(f)' /\ (frec'[f].life = "active" => Safe(f)')
    BY DEF Claims
  <1>2. CASE AddReference(f)
    BY <1>1, <1>2, ClaimBegins
  <1>3. CASE /\ Claimed(f) /\ fkept'[f] = fkept[f] /\ (f \in fref => f \in fref')
             /\ fdelete' # NoDelete /\ fdelete'[1] = f => fdelete # NoDelete /\ fdelete[1] = f
    <2>1. Untouched(f) /\ Outlives(f) /\ (frec[f].life = "active" => Safe(f))
      BY <1>3 DEF Claims
    <2>2. f \in fref'
      BY <1>3, <2>1 DEF Untouched
    <2>3. Untouched(f)'
      BY <1>3, <2>1, <2>2, UntouchedStep
    <2>4. Outlives(f)'
      BY <1>3, <2>1, OutlivesStep
    <2>5. frec'[f].life = "active" => Safe(f)'
      BY <1>3, <2>1, SafeStep
    <2> QED
      BY <2>3, <2>4, <2>5
  <1> QED
    BY <1>1, <1>2, <1>3, ClaimKept

-----------------------------------------------------------------------------
(* The invariant.                                                          *)

LEMMA FilesInvInit == FileInit => FilesInv
  <1> SUFFICES ASSUME FileInit PROVE FilesInv
    OBVIOUS
  <1>1. FileTypeOK
    BY FileTypeInit
  <1>2. \A f \in FileIds : /\ ~Recorded(f) /\ frec[f].ver = 0 /\ frec[f].life = "none"
                           /\ fcommit[f] = NoBytes /\ fkept[f] = NoBytes
    BY DEF FileInit, Recorded, NoRecord
  <1>3. /\ ftodo.step = NoStep /\ ftodo.m = 0 /\ ftodo.log = FALSE /\ ftodo.copies = {}
        /\ ftodo.puts = {} /\ ftodo.items = {} /\ ftodo.commits = {}
    BY DEF FileInit, Idle
  <1>4. (\A m \in 1..MaxWrites : fintent[m] = {}) /\ fdelete = NoDelete /\ fwrites = 0
    BY DEF FileInit
  <1>5. \A f \in FileIds : ~Heading(f)
    <2>1. SUFFICES ASSUME NEW f \in FileIds, Heading(f) PROVE FALSE
      OBVIOUS
    <2>2. f[2] # 0 /\ \E g \in FileIds : frec[g].ver = f[2]
      BY <1>2, <2>1 DEF Heading
    <2> QED
      BY <1>2, <2>2
  <1>6. Chain
    BY <1>2, <1>4, <1>5 DEF Chain, OneHead, OneOwner, RootFirst, RecordShape
  <1>7. Commits /\ Intents /\ Preparing /\ Todo /\ Deleting /\ Steps
    BY <1>2, <1>3, <1>4 DEF Commits, Intents, OnePerPath, Preparing, Todo, Deleting, Steps
  <1>8. Claims
    BY <1>2 DEF Claims, Claimed
  <1> QED
    BY <1>1, <1>6, <1>7, <1>8 DEF FilesInv

LEMMA FilesInvStep == FilesInv /\ [FileNext]_fileVars => FilesInv'
  <1> SUFFICES ASSUME FilesInv, [FileNext]_fileVars PROVE FilesInv'
    OBVIOUS
  <1>1. /\ FileTypeOK /\ Chain /\ Commits /\ Intents /\ Preparing /\ Todo /\ Deleting /\ Steps
        /\ Claims
    BY DEF FilesInv
  <1>2. FileTypeOK' /\ Chain' /\ RecordsFollow
    BY <1>1, FileTypeStep, RecordStep
  <1>3. Commits' /\ Intents' /\ Preparing' /\ Todo'
    BY <1>1, <1>2, CommitsStep, IntentsStep, PreparingStep, TodoStep
  <1>4. Deleting' /\ Steps'
    BY <1>1, <1>2, DeletingStep, StepsStep
  <1>5. Claims'
    BY <1>1, ClaimsStep
  <1> QED
    BY <1>2, <1>3, <1>4, <1>5 DEF FilesInv

LEMMA ClaimsKeep ==
    ASSUME FilesInv
    PROVE  ReferencedBytesKept
  <1>1. SUFFICES ASSUME NEW f \in FileIds, fkept[f] # NoBytes, frec[f].life = "active"
                 PROVE  \/ fkept[f] \in {Resolved(f)} \cup Range(ftrash[f[1]])
                        \/ \E m \in 1..MaxWrites : \E i \in fintent[m] :
                              /\ i.f = f /\ i.ver /\ ~SettleConflict(i, m)
                              /\ fver[<<f[1], m>>] = fkept[f]
    BY DEF ReferencedBytesKept
  <1>2. Safe(f)
    BY <1>1 DEF FilesInv, Claims, Claimed
  <1>3. CASE frec[f].ver # 0 \/ fpath[f[1]] = fkept[f] \/ Binned(f)
    BY <1>2, <1>3 DEF Safe, Resolved, Binned
  <1>4. CASE Versioned(f)
    <2>1. \A m \in 1..MaxWrites : \A i \in fintent[m] :
             (i.f = f /\ i.rec = frec[f]) => ~SettleConflict(i, m)
      BY DEF SettleConflict
    <2> QED
      BY <1>4, <2>1 DEF Versioned
  <1> QED
    BY <1>2, <1>3, <1>4 DEF Safe

\* The files, their records, their intents and what is left to do fit together after any
\* sequence of writes, removals, restores, reconciliations, deaths and disk errors
\* (managed_file_mutation, reconcile_file_commits, reconcile_mutations, file_store.py).
THEOREM FilesFitTogether == FileSpec => []FilesInv
  <1> QED
    BY FilesInvInit, FilesInvStep, PTL DEF FileSpec

\* The state of the files has its types, for any paths, contents, writes and faults.
THEOREM FileTypes == FileSpec => []FileTypeOK
  <1>1. FilesInv => FileTypeOK
    BY DEF FilesInv
  <1> QED
    BY <1>1, FilesFitTogether, PTL

\* managed_file_mutation: "retain the actual bytes used by existing owners".  The bytes
\* that somebody refers to are where the record says, in the trash, or in the version of a
\* write that can still be settled, whatever was written since and wherever it stopped.
THEOREM ReferencedBytesAreKept == FileSpec => []ReferencedBytesKept
  <1>1. FilesInv => ReferencedBytesKept
    BY ClaimsKeep
  <1> QED
    BY <1>1, FilesFitTogether, PTL
=============================================================================
