---------------------------- MODULE ManagedFiles ----------------------------
(***************************************************************************)
(* Managed files of a workspace: payloads on disk, an index of records,    *)
(* references by which owners (messages, artifacts, knowledge) hold a      *)
(* file, and governed writes that keep the bytes an owner holds            *)
(* (storage/file_store.py, file_mutations.py, file_audit.py).              *)
(*                                                                         *)
(* A governed write holds the workspace lock: it copies referenced bytes   *)
(* to a version, writes an intent, lets the writer run, and settles each   *)
(* record on what it then reads.  ftodo is what the holder of the lock has *)
(* left to do; the process may die, or the disk refuse, before each step   *)
(* of it, and a later reconciliation settles the intents.  References, and *)
(* deletions by some callers, do not take the lock.  Records are read in   *)
(* the index's order and intents in the directory's: any order, here.      *)
(*                                                                         *)
(* A path has at most one current record; its file ids are the one it was  *)
(* created with (0) and the one write m gave to its new bytes (m), which   *)
(* also names the version that write m took.                               *)
(***************************************************************************)
EXTENDS Naturals, Sequences, Functions

CONSTANTS
    FilePaths,       \* paths of managed files
    FileBytes,       \* contents
    NoBytes,         \* nothing there
    MaxWrites,       \* bound: governed writes
    MaxRemovals,     \* bound: deletions and references dropped
    MaxFileFaults    \* bound: deaths and disk errors

ASSUME FileAssumption ==
    /\ NoBytes \notin FileBytes
    /\ {MaxWrites, MaxRemovals, MaxFileFaults} \subseteq Nat

FileIds == FilePaths \X (0..MaxWrites)

VARIABLES
    fpath,     \* bytes at each path
    fver,      \* bytes of the versions
    ftrash,    \* bytes in the trash under each path's name, then name.1 and so on
    frec,      \* the index: lifecycle, path or version, trash_path, sha256
    fcommit,   \* sys/file-commits: records about to be indexed
    fintent,   \* sys/file-mutations: the items of each write that is not settled
    fref,      \* files somebody refers to
    fkept,     \* ghost: the bytes the first of them saw
    ftodo,     \* what the holder of the lock has left to do
    fdelete,   \* a deletion that has checked and not begun
    fwrites, fremovals, ffaults

fdisk == <<fpath, fver, ftrash, frec, fcommit, fintent>>
fileVars == <<fdisk, fref, fkept, ftodo, fdelete, fwrites, fremovals, ffaults>>

\* ver is the version the record's path points to, trash its trash_path; sha stands for the bytes.
NoRecord == [life |-> "none", ver |-> 0, trash |-> 0, sha |-> NoBytes]
ActiveRecord(bytes) == [life |-> "active", ver |-> 0, trash |-> 0, sha |-> bytes]

NoDelete == <<>>

(* What is left to do: a step on one file, and what follows from it; for   *)
(* write m, the items to copy, whether the intent has to be written, what  *)
(* the writer puts where, and the items to settle; for a reconciliation,   *)
(* the commits and the intents.                                            *)
NoStep == [k |-> "none"]
FileStep(k, f, bytes, n) == [k |-> k, f |-> f, bytes |-> bytes, n |-> n]

Idle == [step |-> NoStep, m |-> 0, copies |-> {}, log |-> FALSE, puts |-> {}, items |-> {},
         commits |-> {}, intents |-> {}]

FileInit ==
    /\ fpath = [p \in FilePaths |-> NoBytes]
    /\ fver = [f \in FileIds |-> NoBytes]
    /\ ftrash = [p \in FilePaths |-> <<>>]
    /\ frec = [f \in FileIds |-> NoRecord]
    /\ fcommit = [f \in FileIds |-> NoBytes]
    /\ fintent = [m \in 1..MaxWrites |-> {}]
    /\ fref = {} /\ fkept = [f \in FileIds |-> NoBytes]
    /\ ftodo = Idle /\ fdelete = NoDelete
    /\ fwrites = 0 /\ fremovals = 0 /\ ffaults = 0

\* resolve_file_path
Resolved(f) == IF frec[f].ver = 0 THEN fpath[f[1]] ELSE fver[<<f[1], frec[f].ver>>]

\* The lock is free and the operation will do this.
FileBegin(todo) == ftodo = Idle /\ ftodo' = todo

\* One step on one file, and what follows it.
FileDoes(step) == FileBegin([Idle EXCEPT !.step = step])

\* Somebody removes or lets go of a file.
Removal == fremovals < MaxRemovals /\ fremovals' = fremovals + 1

\* Who refers to what, and what is counted, stays.
FileRest == UNCHANGED <<fref, fkept, fdelete, fwrites, fremovals, ffaults>>

-----------------------------------------------------------------------------
(* _settle: what write m did to one item is read from the disk.            *)

SettleHistorical(item, m) == [item.rec EXCEPT !.ver = m, !.sha = item.before]

\* The record is neither the one before, nor the settled one.
SettleConflict(item, m) ==
    LET actual == frec[item.f]
        now == fpath[item.f[1]]
    IN  /\ actual # item.rec
        /\ ~(item.ver /\ actual = SettleHistorical(item, m))
        /\ \/ item.ver
           \/ actual = NoRecord
           \/ actual.ver # item.rec.ver
           \/ actual.sha # now /\ ~(now = NoBytes /\ actual.life = "purged")

SettleRaises(item, m) ==
    LET now == fpath[item.f[1]]
        cur == <<item.f[1], m>>
    IN  \/ SettleConflict(item, m)
        \/ now = item.before /\ item.ver /\ frec[item.f] = SettleHistorical(item, m)
        \/ now # item.before /\ item.ver
           /\ \/ fver[cur] # item.before
              \/ /\ now # NoBytes /\ frec[cur] # NoRecord
                 /\ frec[cur].ver # 0 \/ frec[cur].sha # now

\* The bytes write m left get a record of their own.
CurrentStep(p, m) ==
    IF fpath[p] # NoBytes /\ frec[<<p, m>>] = NoRecord
    THEN FileStep("commit", <<p, m>>, fpath[p], 0) ELSE NoStep

SettleStep(item, m) ==
    LET now == fpath[item.f[1]]
    IN  IF item.ver
        THEN IF now = item.before THEN FileStep("unversion", item.f, NoBytes, m)
             ELSE IF frec[item.f] = SettleHistorical(item, m) THEN CurrentStep(item.f[1], m)
             ELSE FileStep("history", item.f, item.before, m)
        ELSE IF now = item.before /\ item.rec.sha = now THEN NoStep
        ELSE IF now = NoBytes THEN FileStep("purge", item.f, NoBytes, 0)
        ELSE FileStep("sha", item.f, now, 0)

-----------------------------------------------------------------------------
(* Steps on one file.                                                      *)

\* The first free name in the trash.
TrashSlot(seq) ==
    CHOOSE k \in 1..(Len(seq) + 1) :
        /\ k <= Len(seq) => seq[k] = NoBytes
        /\ \A j \in 1..(k - 1) : seq[j] # NoBytes

Trashed(seq, bytes) ==
    IF TrashSlot(seq) > Len(seq) THEN Append(seq, bytes)
    ELSE [seq EXCEPT ![TrashSlot(seq)] = bytes]

InTrash(f) == ftrash[f[1]][frec[f].trash]

\* update_file_record, append_file_record; a purged record is not deleted softly.
Updated(s) ==
    LET r == frec[s.f]
    IN  CASE s.k = "index" -> ActiveRecord(s.bytes)
          [] s.k = "sha" -> [r EXCEPT !.sha = s.bytes]
          [] s.k = "history" -> [r EXCEPT !.ver = s.n, !.sha = s.bytes]
          [] s.k = "purge" -> [r EXCEPT !.life = "purged"]
          [] s.k = "soft" -> IF r.life = "purged" THEN r ELSE [r EXCEPT !.life = "soft"]
          [] s.k = "trashPath" -> [r EXCEPT !.trash = s.n]
          [] s.k = "active" -> [r EXCEPT !.life = "active", !.trash = 0]

Moved(s) ==
    \/ /\ s.k = "write"
       /\ fpath' = [fpath EXCEPT ![s.f[1]] = s.bytes]
       /\ UNCHANGED <<fver, ftrash, frec, fcommit>>
    \/ /\ s.k \in {"commit", "uncommit"}
       /\ fcommit' = [fcommit EXCEPT ![s.f] = IF s.k = "commit" THEN s.bytes ELSE NoBytes]
       /\ UNCHANGED <<fpath, fver, ftrash, frec>>
    \/ /\ s.k \in {"index", "sha", "history", "purge", "soft", "trashPath", "active"}
       /\ frec' = [frec EXCEPT ![s.f] = Updated(s)]
       /\ UNCHANGED <<fpath, fver, ftrash, fcommit>>
    \/ /\ s.k = "unversion"
       /\ fver' = [fver EXCEPT ![<<s.f[1], s.n>>] = NoBytes]
       /\ UNCHANGED <<fpath, ftrash, frec, fcommit>>
    \/ /\ s.k = "unlink"
       /\ LET r == frec[s.f]
          IN  /\ ftrash' = IF r.trash = 0 THEN ftrash
                           ELSE [ftrash EXCEPT ![s.f[1]][r.trash] = NoBytes]
              /\ fpath' = IF r.trash = 0 /\ r.ver = 0 THEN [fpath EXCEPT ![s.f[1]] = NoBytes]
                          ELSE fpath
              /\ fver' = IF r.trash = 0 /\ r.ver # 0
                         THEN [fver EXCEPT ![<<s.f[1], r.ver>>] = NoBytes] ELSE fver
       /\ UNCHANGED <<frec, fcommit>>
    \/ /\ s.k = "trash"
       /\ ftrash' = [ftrash EXCEPT ![s.f[1]] = Trashed(@, fpath[s.f[1]])]
       /\ fpath' = [fpath EXCEPT ![s.f[1]] = NoBytes]
       /\ UNCHANGED <<fver, frec, fcommit>>
    \/ /\ s.k = "untrash"
       /\ fpath' = [fpath EXCEPT ![s.f[1]] = InTrash(s.f)]
       /\ ftrash' = [ftrash EXCEPT ![s.f[1]][frec[s.f].trash] = NoBytes]
       /\ UNCHANGED <<fver, frec, fcommit>>

\* What the operation does next: create_file_record writes the commit intent, the index
\* line, and the intent goes; a deletion marks the record and then notes where it went.
Follows(s) ==
    CASE s.k = "write" -> FileStep("commit", s.f, s.bytes, 0)
      [] s.k = "commit" -> FileStep("index", s.f, s.bytes, 0)
      [] s.k = "index" -> FileStep("uncommit", s.f, NoBytes, 0)
      [] s.k = "history" -> CurrentStep(s.f[1], s.n)
      [] s.k = "trash" -> FileStep("soft", s.f, NoBytes, s.n)
      [] s.k = "soft" /\ s.n > 0 -> FileStep("trashPath", s.f, NoBytes, s.n)
      [] s.k = "untrash" -> FileStep("active", s.f, NoBytes, 0)
      [] s.k = "unlink" -> FileStep("purge", s.f, NoBytes, 0)
      [] OTHER -> NoStep

FileStepDone ==
    /\ ftodo.step # NoStep
    /\ Moved(ftodo.step) /\ UNCHANGED fintent
    /\ ftodo' = [ftodo EXCEPT !.step = Follows(ftodo.step)]
    /\ FileRest

-----------------------------------------------------------------------------
(* A governed write, and a reconciliation, under the lock.                 *)

CopyVersion ==
    /\ \E i \in ftodo.copies :
          /\ fver' = [fver EXCEPT ![<<i.f[1], ftodo.m>>] = i.before]
          /\ ftodo' = [ftodo EXCEPT !.copies = @ \ {i}]
    /\ UNCHANGED <<fpath, ftrash, frec, fcommit, fintent>> /\ FileRest

LogIntent ==
    /\ ftodo.log /\ ftodo.copies = {}
    /\ fintent' = [fintent EXCEPT ![ftodo.m] = ftodo.items]
    /\ ftodo' = [ftodo EXCEPT !.log = FALSE]
    /\ UNCHANGED <<fpath, fver, ftrash, frec, fcommit>> /\ FileRest

WriterPuts ==
    /\ ~ftodo.log
    /\ \E w \in ftodo.puts :
          /\ fpath' = [fpath EXCEPT ![w[1]] = w[2]]
          /\ ftodo' = [ftodo EXCEPT !.puts = @ \ {w}]
    /\ UNCHANGED <<fver, ftrash, frec, fcommit, fintent>> /\ FileRest

\* A write is being settled, and none of its items is half way.
Settling == ftodo.m # 0 /\ ~ftodo.log /\ ftodo.puts = {} /\ ftodo.step = NoStep

\* An exception leaves the write that is being settled as it is, and a reconciliation
\* goes on with the next intent.
Raised == [ftodo EXCEPT !.step = NoStep, !.m = 0, !.items = {}]

SettleItem ==
    /\ Settling
    /\ \E i \in ftodo.items :
          ftodo' = IF SettleRaises(i, ftodo.m) THEN Raised
                   ELSE [ftodo EXCEPT !.items = @ \ {i}, !.step = SettleStep(i, ftodo.m)]
    /\ UNCHANGED fdisk /\ FileRest

DropIntent ==
    /\ Settling /\ ftodo.items = {}
    /\ fintent' = [fintent EXCEPT ![ftodo.m] = {}]
    /\ ftodo' = [ftodo EXCEPT !.m = 0]
    /\ UNCHANGED <<fpath, fver, ftrash, frec, fcommit>> /\ FileRest

\* A commit whose bytes are there is indexed.
AdoptCommit ==
    /\ ftodo.step = NoStep
    /\ \E f \in ftodo.commits :
          ftodo' = [ftodo EXCEPT !.commits = @ \ {f},
                      !.step = IF fpath[f[1]] # fcommit[f] THEN NoStep
                               ELSE IF frec[f] = NoRecord THEN FileStep("index", f, fcommit[f], 0)
                               ELSE FileStep("uncommit", f, NoBytes, 0)]
    /\ UNCHANGED fdisk /\ FileRest

ReopenIntent ==
    /\ ftodo.step = NoStep /\ ftodo.m = 0 /\ ftodo.commits = {}
    /\ \E m \in ftodo.intents :
          ftodo' = [ftodo EXCEPT !.m = m, !.items = fintent[m], !.intents = @ \ {m}]
    /\ UNCHANGED fdisk /\ FileRest

\* The process dies and its lock is free.
FileHolderDies ==
    /\ ftodo # Idle /\ ffaults < MaxFileFaults
    /\ ffaults' = ffaults + 1
    /\ ftodo' = Idle
    /\ UNCHANGED <<fdisk, fref, fkept, fdelete, fwrites, fremovals>>

\* A step raises OSError.  Before the writer runs the versions are removed; what a
\* writer that raises has done is settled.
FileStepRaises ==
    /\ ffaults < MaxFileFaults /\ ffaults' = ffaults + 1
    /\ \/ /\ ftodo.log
          /\ ftodo' = Idle
          /\ fver' = [f \in FileIds |-> IF f[2] = ftodo.m THEN NoBytes ELSE fver[f]]
       \/ /\ ~ftodo.log /\ ftodo.puts # {}
          /\ ftodo' = [ftodo EXCEPT !.puts = {}]
          /\ UNCHANGED fver
       \/ /\ ~ftodo.log /\ ftodo.puts = {}
          /\ ftodo.step # NoStep \/ ftodo.m # 0
          /\ ftodo' = Raised
          /\ UNCHANGED fver
    /\ UNCHANGED <<fpath, ftrash, frec, fcommit, fintent, fref, fkept, fdelete, fwrites, fremovals>>

-----------------------------------------------------------------------------
(* Governed operations.                                                    *)

\* import_user_upload, write_agent_output, write_knowledge_document: bytes at a path
\* of their own, then the record.
CreateFile(p, bytes) ==
    /\ fpath[p] = NoBytes /\ fcommit[<<p, 0>>] = NoBytes
    /\ \A g \in FileIds : g[1] = p => frec[g] = NoRecord
    /\ FileDoes(FileStep("write", <<p, 0>>, bytes, 0))
    /\ UNCHANGED fdisk /\ FileRest

Governed(scope) ==
    {f \in FileIds : /\ f[1] \in scope /\ frec[f].life = "active" /\ frec[f].ver = 0
                     /\ fpath[f[1]] # NoBytes}

\* "referenced_payload_changed_requires_readback", or two records of one path.
WriteRefused_ambiguous(scope) ==
    \E f, g \in Governed(scope) : f # g /\ f[1] = g[1]

WriteRefused(scope) ==
    \/ \E f \in Governed(scope) : f \in fref /\ fpath[f[1]] # frec[f].sha
    \/ \E f, g \in Governed(scope) : f # g /\ f[1] = g[1]

\* managed_file_mutation around a writer that leaves the bytes after.
GovernedWrite(scope, after) ==
    LET m == fwrites + 1
        items == {[f |-> f, rec |-> frec[f], before |-> fpath[f[1]], ver |-> f \in fref] :
                     f \in Governed(scope)}
    IN  /\ fwrites < MaxWrites /\ fwrites' = m
        /\ ~WriteRefused(scope)
        /\ FileBegin([Idle EXCEPT !.m = IF items = {} THEN 0 ELSE m,
                         !.copies = {i \in items : i.ver}, !.log = items # {},
                         !.puts = {<<p, after[p]>> : p \in scope}, !.items = items])
        /\ UNCHANGED <<fdisk, fref, fkept, fdelete, fremovals, ffaults>>

\* reconcile_file_commits with apply: verified commits are indexed, then every
\* intent is settled on what is there now.
ReconcileFiles ==
    LET commits == {f \in FileIds : fcommit[f] # NoBytes
                                    /\ frec[f] \in {NoRecord, ActiveRecord(fcommit[f])}}
        intents == {m \in 1..MaxWrites : fintent[m] # {}}
    IN  /\ commits # {} \/ intents # {}
        /\ FileBegin([Idle EXCEPT !.commits = commits, !.intents = intents])
        /\ UNCHANGED fdisk /\ FileRest

\* workspace.file delete: to the trash, then the record follows.
TrashFile(f) ==
    /\ f \in Governed({f[1]})
    /\ FileDoes(FileStep("trash", f, NoBytes, TrashSlot(ftrash[f[1]])))
    /\ Removal /\ UNCHANGED <<fdisk, fref, fkept, fdelete, fwrites, ffaults>>

\* reconcile_trashed_file_records: the payload is absent, and the trash has it under the
\* name of the path.  Nothing in the program calls it; it is taken to run alone.
ReconcileTrash(f) ==
    /\ frec[f].life = "active" /\ frec[f].ver = 0 /\ fpath[f[1]] = NoBytes
    /\ ftrash[f[1]] # <<>> /\ ftrash[f[1]][1] = frec[f].sha
    /\ FileDoes(FileStep("soft", f, NoBytes, 1))
    /\ UNCHANGED fdisk /\ FileRest

\* restore_file: only its exact payload.
RestoreFile(f) ==
    /\ frec[f].life = "soft"
    /\ IF frec[f].trash > 0
       THEN /\ InTrash(f) = frec[f].sha /\ fpath[f[1]] = NoBytes
            /\ FileDoes(FileStep("untrash", f, NoBytes, 0))
       ELSE /\ Resolved(f) = frec[f].sha
            /\ FileDoes(FileStep("active", f, NoBytes, 0))
    /\ UNCHANGED fdisk /\ FileRest

\* delete_unreferenced_file: the check, and then, under the lock, the deletion.  One
\* that is forced is the user's decision about the bytes too.
DeleteCheck(f, permanent, force) ==
    /\ fdelete = NoDelete
    /\ frec[f].life \notin {"none", "purged"}
    /\ force \/ f \notin fref
    /\ fdelete' = <<f, permanent>>
    /\ fkept' = [fkept EXCEPT ![f] = NoBytes]
    /\ Removal
    /\ UNCHANGED <<fdisk, fref, ftodo, fwrites, ffaults>>

\* Another operation may have purged the file since.
DeleteFile ==
    /\ fdelete # NoDelete /\ fdelete' = NoDelete
    /\ LET f == fdelete[1]
       IN  FileDoes(IF frec[f].life = "purged" THEN NoStep
                    ELSE FileStep(IF fdelete[2] THEN "unlink" ELSE "soft", f, NoBytes, 0))
    /\ UNCHANGED <<fdisk, fref, fkept, fwrites, fremovals, ffaults>>

-----------------------------------------------------------------------------
(* Operations without the workspace lock.                                  *)

\* A write of the file that did not copy its bytes is not settled.
UnsettledWrite(f) == \E m \in 1..MaxWrites : \E i \in fintent[m] : i.f = f /\ ~i.ver

\* add_reference, replace_owner_references.  Who begins to refer to a file while it
\* is being written or deleted, while a write of it is not settled, or while its record
\* does not tell its bytes, has no claim on them.
AddReference(f) ==
    /\ frec[f].life = "active" /\ f \notin fref
    /\ fref' = fref \cup {f}
    /\ fkept' = [fkept EXCEPT ![f] =
                   IF /\ ftodo = Idle /\ Resolved(f) = frec[f].sha
                      /\ fdelete = NoDelete \/ fdelete[1] # f
                      /\ ~UnsettledWrite(f)
                   THEN frec[f].sha ELSE NoBytes]
    /\ UNCHANGED <<fdisk, ftodo, fdelete, fwrites, fremovals, ffaults>>

\* remove_reference, remove_session_references
DropReference(f) ==
    /\ f \in fref
    /\ fref' = fref \ {f}
    /\ fkept' = [fkept EXCEPT ![f] = NoBytes]
    /\ Removal
    /\ UNCHANGED <<fdisk, ftodo, fdelete, fwrites, ffaults>>

\* A knowledge source that is deleted recycles its normalized file.
RecycleUnlocked(f) ==
    /\ frec[f].life = "active" /\ f \notin fref
    /\ Removal
    /\ frec' = [frec EXCEPT ![f].life = "soft"]
    /\ UNCHANGED <<fpath, fver, ftrash, fcommit, fintent, ftodo, fref, fkept, fdelete,
                   fwrites, ffaults>>

FileNext ==
    \/ FileStepDone \/ CopyVersion \/ LogIntent \/ WriterPuts \/ SettleItem \/ DropIntent
    \/ AdoptCommit \/ ReopenIntent \/ FileHolderDies \/ FileStepRaises
    \/ ReconcileFiles \/ DeleteFile
    \/ \E p \in FilePaths, bytes \in FileBytes : CreateFile(p, bytes)
    \/ \E scope \in (SUBSET FilePaths) \ {{}} :
          \E after \in [scope -> FileBytes \cup {NoBytes}] : GovernedWrite(scope, after)
    \/ \E f \in FileIds :
          \/ TrashFile(f) \/ ReconcileTrash(f) \/ RestoreFile(f)
          \/ \E permanent, force \in BOOLEAN : DeleteCheck(f, permanent, force)
          \/ AddReference(f) \/ DropReference(f) \/ RecycleUnlocked(f)

FileSpec == FileInit /\ [][FileNext]_fileVars

-----------------------------------------------------------------------------
Bytes == FileBytes \cup {NoBytes}
FileRecords == [life : {"none", "active", "soft", "purged"}, ver : 0..MaxWrites, trash : Nat,
                sha : Bytes]
FileItems == [f : FileIds, rec : FileRecords, before : Bytes, ver : BOOLEAN]
FileSteps == [k : {"write", "commit", "index", "uncommit", "sha", "history", "purge", "unversion",
                   "unlink", "soft", "trash", "trashPath", "untrash", "active"},
              f : FileIds, bytes : Bytes, n : Nat]
FileTodos == [step : FileSteps \cup {NoStep}, m : 0..MaxWrites, log : BOOLEAN,
              copies : SUBSET FileItems, puts : SUBSET (FilePaths \X Bytes),
              items : SUBSET FileItems, commits : SUBSET FileIds, intents : SUBSET (1..MaxWrites)]

\* Types of the files' state.
FileTypeOK ==
    /\ fpath \in [FilePaths -> Bytes]
    /\ {fver, fcommit, fkept} \subseteq [FileIds -> Bytes]
    /\ ftrash \in [FilePaths -> Seq(Bytes)]
    /\ frec \in [FileIds -> FileRecords]
    /\ fintent \in [1..MaxWrites -> SUBSET FileItems]
    /\ fref \subseteq FileIds
    /\ ftodo \in FileTodos
    /\ fdelete \in (FileIds \X BOOLEAN) \cup {NoDelete}
    /\ fwrites \in 0..MaxWrites /\ fremovals \in 0..MaxRemovals /\ ffaults \in 0..MaxFileFaults

\* "retain the actual bytes used by existing owners": the bytes somebody refers to are
\* where the record says, or in the trash, or in the version of a write that can
\* still be settled, whatever was written since and wherever it was interrupted.
ReferencedBytesKept ==
    \A f \in FileIds : fkept[f] # NoBytes /\ frec[f].life = "active" =>
        \/ fkept[f] \in {Resolved(f)} \cup Range(ftrash[f[1]])
        \/ \E m \in 1..MaxWrites : \E i \in fintent[m] :
              /\ i.f = f /\ i.ver /\ ~SettleConflict(i, m)
              /\ fver[<<f[1], m>>] = fkept[f]
=============================================================================
