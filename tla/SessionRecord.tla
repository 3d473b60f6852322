---------------------------- MODULE SessionRecord ----------------------------
(***************************************************************************)
(* What is on disk of a session, and how it is deleted for good            *)
(* (storage/session_store.py): the session record, the messages with the   *)
(* references by which they hold files, the run records, the request       *)
(* registry, coding records, the job and the experience journal.           *)
(*                                                                         *)
(* A deletion holds the session lock from its tombstone to its verdict.    *)
(* Whoever writes the session record or a coding record takes that lock    *)
(* and looks for the tombstone.  A turn that persists its result           *)
(* (agent/runtime/turn_persistence.py), a rewind and a snapshot            *)
(* (storage/session_snapshot.py) take it for some of their steps only.     *)
(* One session is modelled: sessions share nothing.                        *)
(***************************************************************************)
EXTENDS Naturals, FiniteSets

CONSTANTS
    SrecTurns,       \* turns of the session
    MaxDeletions,    \* bound: permanent deletions
    MaxUserSteps,    \* bound: changes of status and rewinds
    MaxSrecFaults    \* bound: deaths of the backend and failing deletions of a file

ASSUME SrecAssumption == {MaxDeletions, MaxUserSteps, MaxSrecFaults} \subseteq Nat

Messages == SrecTurns \X {"user", "assistant"}

VARIABLES
    srec,       \* <session>.json: its status and run_ids
    stomb,      \* .<session>.deleted
    smsg, sdir, \* message files, and their directory
    sref,       \* messages with references to files
    ssnap,      \* snapshots taken
    srun,       \* run records
    sreq, sreqdir,  \* request records, and their directory
    scode,      \* is there a coding record?
    sagent,     \* the session's job: none, idle or running
    sjournal,   \* is there an experience journal?
    spc,        \* where each turn is
    sdel,       \* the deletion that is under way
    saged,      \* retention has the session on its list
    srepair,    \* the listing that has read the messages of a session without record
    srewind,    \* the messages a rewind is still to write
    slate,      \* history: what writers under way at the last tombstone may still write
    sgone,      \* history: the last deletion said that it succeeded
    sdeletions, suser, sfaults

srecDisk == <<srec, stomb, smsg, sdir, sref, ssnap, srun, sreq, sreqdir, scode,
              sagent, sjournal>>
srecActors == <<spc, sdel, saged, srepair, srewind>>
srecHistory == <<slate, sgone, sdeletions, suser, sfaults>>
srecVars == <<srecDisk, srecActors, srecHistory>>

NoSession == [status |-> "none", runs |-> {}]
NoDeletion == [at |-> "off", by |-> "user", runs |-> {}, had |-> FALSE, failed |-> FALSE]

SrecInit ==
    /\ srec = NoSession /\ stomb = FALSE
    /\ smsg = {} /\ sdir = FALSE /\ sref = {} /\ ssnap = {}
    /\ srun = {} /\ sreq = {} /\ sreqdir = FALSE
    /\ scode = FALSE /\ sagent = "none" /\ sjournal = FALSE
    /\ spc = [t \in SrecTurns |-> "new"]
    /\ sdel = NoDeletion /\ saged = FALSE
    /\ srepair = {} /\ srewind = {}
    /\ slate = {} /\ sgone = FALSE
    /\ sdeletions = 0 /\ suser = 0 /\ sfaults = 0

-----------------------------------------------------------------------------
\* _session_lock: only a deletion keeps it from one step to the next.
SessionFree == sdel.at \in {"off", "job", "journal"}

UnderWay(t) == spc[t] \notin {"new", "ended"}

\* Facts of a session: its messages, and <<t, "run">> for a run record.
TurnFacts(t) == {t} \X {"user", "assistant", "run"}

SrecGoes(t, point) == spc' = [spc EXCEPT ![t] = point]

\* SessionMessageStore.write_message, the file; it makes the directory.
PutMessage(t, role) ==
    /\ smsg' = smsg \cup {<<t, role>>}
    /\ sdir' = TRUE

\* A step of turn t that leaves the rest of the disk alone.
SrecTurnRest ==
    UNCHANGED <<stomb, ssnap, scode, sdel, saged, srepair, srewind,
                sgone, sdeletions, suser, sfaults>>

\* _session_is_tombstoned_unlocked, asked under the lock by whoever writes the record.
Writable_always == SessionFree

Writable == SessionFree /\ ~stomb

-----------------------------------------------------------------------------
(* A turn, from its claim to its end.                                      *)

\* _running_session_turn_unlocked; list_jobs leaves out the job of a session of which it
\* finds nothing, or whose record says deleted.
JobBusy ==
    /\ sagent = "running"
    /\ srec # NoSession \/ sdir
    /\ srec.status # "deleted"

\* claim_session_turn: the session's job, a provisional message, the request record.
\* It does not ask for the tombstone.
ClaimTurn(t) ==
    /\ spc[t] = "new" /\ SessionFree
    /\ ~JobBusy
    /\ sagent' = "running"
    /\ PutMessage(t, "user")
    /\ sref' = sref \ {<<t, "user">>}
    /\ sreq' = sreq \cup {t} /\ sreqdir' = TRUE
    /\ SrecGoes(t, "claimed")
    /\ slate' = IF stomb THEN slate \cup TurnFacts(t) ELSE slate
    /\ UNCHANGED <<srec, srun, sjournal>> /\ SrecTurnRest

\* submit_user_message: ensure_session makes the record, or raises.
EnsureSession(t) ==
    /\ spc[t] = "claimed" /\ SessionFree
    /\ IF Writable
       THEN /\ srec' = IF srec = NoSession THEN [NoSession EXCEPT !.status = "active"]
                       ELSE srec
            /\ SrecGoes(t, "started")
       ELSE SrecGoes(t, "persisted") /\ UNCHANGED srec
    /\ UNCHANGED <<smsg, sdir, sref, srun, sreq, sreqdir, sagent, sjournal, slate>>
    /\ SrecTurnRest

\* The message files and then the references of a message: the one of the user when
\* the turn starts (_persist_inflight_user_message) and once more, with the one of the
\* assistant, when it is persisted.
MessageStep ==
    [started |-> [role |-> "user", file |-> TRUE, next |-> "inflight"],
     inflight |-> [role |-> "user", file |-> FALSE, next |-> "running"],
     projected |-> [role |-> "user", file |-> TRUE, next |-> "asked"],
     asked |-> [role |-> "user", file |-> FALSE, next |-> "answering"],
     answering |-> [role |-> "assistant", file |-> TRUE, next |-> "answered"],
     answered |-> [role |-> "assistant", file |-> FALSE, next |-> "journal"]]

WriteMessage(t) ==
    /\ spc[t] \in DOMAIN MessageStep
    /\ LET s == MessageStep[spc[t]]
       IN  /\ IF s.file THEN PutMessage(t, s.role) /\ UNCHANGED sref
              ELSE sref' = sref \cup {<<t, s.role>>} /\ UNCHANGED <<smsg, sdir>>
           /\ SrecGoes(t, s.next)
    /\ UNCHANGED <<srec, srun, sreq, sreqdir, sagent, sjournal, slate>> /\ SrecTurnRest

\* write_run_record: the file, with no regard to the session ...
WriteRun(t) ==
    /\ spc[t] = "running"
    /\ srun' = srun \cup {t}
    /\ SrecGoes(t, "recorded")
    /\ UNCHANGED <<srec, smsg, sdir, sref, sreq, sreqdir, sagent, sjournal, slate>>
    /\ SrecTurnRest

\* ... and ensure_session with add_run_to_session, whose refusal is ignored.
LinkRun(t) ==
    /\ spc[t] = "recorded" /\ SessionFree
    /\ srec' = IF ~Writable THEN srec
               ELSE [status |-> IF srec = NoSession THEN "active" ELSE srec.status,
                     runs |-> srec.runs \cup {t}]
    /\ SrecGoes(t, "linked")
    /\ UNCHANGED <<smsg, sdir, sref, srun, sreq, sreqdir, sagent, sjournal, slate>>
    /\ SrecTurnRest

\* _merge_result_projection: update_run_record reads the record and saves it.
ReadRun(t) ==
    /\ spc[t] = "linked"
    /\ SrecGoes(t, IF t \in srun THEN "projecting" ELSE "projected")
    /\ UNCHANGED <<srec, smsg, sdir, sref, srun, sreq, sreqdir, sagent, sjournal, slate>>
    /\ SrecTurnRest

SaveRun(t) ==
    /\ spc[t] = "projecting"
    /\ srun' = srun \cup {t}
    /\ SrecGoes(t, "projected")
    /\ UNCHANGED <<srec, smsg, sdir, sref, sreq, sreqdir, sagent, sjournal, slate>>
    /\ SrecTurnRest

\* append_experience
JournalTurn(t) ==
    /\ spc[t] = "journal"
    /\ sjournal' = TRUE
    /\ SrecGoes(t, "persisted")
    /\ UNCHANGED <<srec, smsg, sdir, sref, srun, sreq, sreqdir, sagent, slate>>
    /\ SrecTurnRest

\* finish_claimed_session_turn looks for the record, which makes its directory; a turn
\* that raised gets its answer from ensure_turn_terminal, under the session lock.
FinishRequest(t) ==
    /\ spc[t] = "persisted" /\ SessionFree
    /\ sreqdir' = TRUE
    /\ IF <<t, "assistant">> \in smsg THEN UNCHANGED <<smsg, sdir>> ELSE PutMessage(t, "assistant")
    /\ SrecGoes(t, "finished")
    /\ UNCHANGED <<srec, sref, srun, sreq, sagent, sjournal, slate>> /\ SrecTurnRest

\* attach_run_to_session_job: finds the job, or makes it again.
AttachJob(t) ==
    /\ spc[t] = "finished"
    /\ sagent' = "idle"
    /\ SrecGoes(t, "ended")
    /\ UNCHANGED <<srec, smsg, sdir, sref, srun, sreq, sreqdir, sjournal, slate>>
    /\ SrecTurnRest

-----------------------------------------------------------------------------
(* delete_session_permanently.                                             *)

\* Asked for by the user, or by a retention that listed the session some time ago.
RetentionLists ==
    /\ ~saged /\ srec # NoSession
    /\ saged' = TRUE
    /\ UNCHANGED <<srecDisk, spc, sdel, srepair, srewind, srecHistory>>

LateFacts ==
    (UNION {TurnFacts(t) : t \in {u \in SrecTurns : UnderWay(u)}}) \cup srewind

BeginDeletion(by) ==
    /\ sdel.at = "off" /\ sdeletions < MaxDeletions
    /\ by = "retention" => saged
    /\ sdeletions' = sdeletions + 1
    /\ saged' = (saged /\ by # "retention")
    /\ stomb' = TRUE
    /\ sdel' = [at |-> "scan", by |-> by, runs |-> srec.runs, failed |-> FALSE,
                had |-> srec # NoSession \/ sdir \/ sreqdir]
    /\ slate' = LateFacts
    /\ sgone' = FALSE
    /\ UNCHANGED <<srec, smsg, sdir, sref, ssnap, srun, sreq, sreqdir, scode, sagent,
                   sjournal, spc, srepair, srewind, suser, sfaults>>

\* The next step of the deletion succeeds, or raises OSError and is noted.
DeletionGoes(at) == sdel' = [sdel EXCEPT !.at = at]

DeletionFails(at) ==
    /\ sfaults < MaxSrecFaults /\ sfaults' = sfaults + 1
    /\ sdel' = [sdel EXCEPT !.at = at, !.failed = TRUE]

DeletionRest == UNCHANGED <<spc, saged, srepair, srewind, slate, sdeletions, suser>>

\* list_runs
ScanRuns ==
    /\ sdel.at = "scan"
    /\ \/ sdel' = [sdel EXCEPT !.at = "runs", !.runs = @ \cup srun] /\ UNCHANGED sfaults
       \/ DeletionFails("runs")
    /\ UNCHANGED <<srecDisk, sgone>> /\ DeletionRest

DeleteRuns ==
    /\ sdel.at = "runs"
    /\ \/ DeletionGoes("record") /\ srun' = srun \ sdel.runs /\ UNCHANGED sfaults
       \/ /\ DeletionFails("record")
          /\ \E kept \in (SUBSET (srun \cap sdel.runs)) \ {{}} :
                srun' = (srun \ sdel.runs) \cup kept
    /\ UNCHANGED <<srec, stomb, smsg, sdir, sref, ssnap, sreq, sreqdir, scode, sagent,
                   sjournal, sgone>>
    /\ DeletionRest

DeleteRecord ==
    /\ sdel.at = "record"
    /\ \/ DeletionGoes("messages") /\ srec' = NoSession /\ UNCHANGED sfaults
       \/ DeletionFails("messages") /\ srec # NoSession /\ UNCHANGED srec
    /\ UNCHANGED <<stomb, smsg, sdir, sref, ssnap, srun, sreq, sreqdir, scode, sagent,
                   sjournal, sgone>>
    /\ DeletionRest

\* rmtree of the directory with the messages and the snapshots
DeleteMessages ==
    /\ sdel.at = "messages"
    /\ \/ /\ DeletionGoes("registry") /\ UNCHANGED sfaults
          /\ smsg' = {} /\ ssnap' = {} /\ sdir' = FALSE
       \/ /\ DeletionFails("registry") /\ sdir
          /\ smsg' \in SUBSET smsg
          /\ UNCHANGED <<sdir, ssnap>>
    /\ UNCHANGED <<srec, stomb, sref, srun, sreq, sreqdir, scode, sagent, sjournal, sgone>>
    /\ DeletionRest

DeleteRegistry ==
    /\ sdel.at = "registry"
    /\ \/ DeletionGoes("coding") /\ sreq' = {} /\ sreqdir' = FALSE /\ UNCHANGED sfaults
       \/ DeletionFails("coding") /\ sreqdir /\ UNCHANGED <<sreq, sreqdir>>
    /\ UNCHANGED <<srec, stomb, smsg, sdir, sref, ssnap, srun, scode, sagent, sjournal, sgone>>
    /\ DeletionRest

DeleteCoding ==
    /\ sdel.at = "coding"
    /\ \/ DeletionGoes("verdict") /\ scode' = FALSE /\ UNCHANGED sfaults
       \/ DeletionFails("verdict") /\ UNCHANGED scode
    /\ UNCHANGED <<srec, stomb, smsg, sdir, sref, ssnap, srun, sreq, sreqdir, sagent,
                   sjournal, sgone>>
    /\ DeletionRest

\* complete looks again; the references go only then, and success needs no failure
\* and something that was there.
Complete == srec = NoSession /\ ~sdir /\ ~sreqdir

Verdict ==
    /\ sdel.at = "verdict"
    /\ sref' = IF Complete THEN {} ELSE sref
    /\ sgone' = (Complete /\ ~sdel.failed /\ sdel.had)
    /\ sdel' = IF sgone' /\ sdel.by = "user" THEN [NoDeletion EXCEPT !.at = "job"]
               ELSE NoDeletion
    /\ UNCHANGED <<srec, stomb, smsg, sdir, ssnap, srun, sreq, sreqdir, scode, sagent,
                   sjournal, sfaults>>
    /\ DeletionRest

\* The route goes on after success, without the lock: _complete_session_job,
\* delete_experience_journal.
DeleteJobAndJournal ==
    /\ sdel.at \in {"job", "journal"}
    /\ IF sdel.at = "job" THEN sagent' = "none" /\ DeletionGoes("journal") /\ UNCHANGED sjournal
       ELSE sjournal' = FALSE /\ sdel' = NoDeletion /\ UNCHANGED sagent
    /\ UNCHANGED <<srec, stomb, smsg, sdir, sref, ssnap, srun, sreq, sreqdir, scode, sgone, sfaults>>
    /\ DeletionRest

DeletionStep ==
    \/ ScanRuns \/ DeleteRuns \/ DeleteRecord \/ DeleteMessages \/ DeleteRegistry
    \/ DeleteCoding \/ Verdict \/ DeleteJobAndJournal

-----------------------------------------------------------------------------
(* Others who write.                                                       *)

OwnerStep == suser < MaxUserSteps /\ suser' = suser + 1

\* update_session: archive, soft deletion, restore; the session's job follows.
UpdateStatus(status) ==
    /\ OwnerStep
    /\ Writable /\ srec # NoSession /\ srec.status # status
    /\ srec' = [srec EXCEPT !.status = status]
    /\ sagent' = CASE sagent = "none" -> "none"
                   [] status = "archived" -> "idle"
                   [] status = "active" /\ \E t \in SrecTurns : UnderWay(t) -> "running"
                   [] OTHER -> sagent
    /\ UNCHANGED <<stomb, smsg, sdir, sref, ssnap, srun, sreq, sreqdir, scode, sjournal,
                   srecActors, slate, sgone, sdeletions, sfaults>>

\* list_sessions finds a directory with messages and no record: reads them ...
RepairReads ==
    /\ srepair = {} /\ srec = NoSession /\ smsg # {}
    /\ srepair' = {m[1] : m \in smsg}
    /\ UNCHANGED <<srecDisk, spc, sdel, saged, srewind, srecHistory>>

\* ... and, under the lock, makes the record again (_session_from_messages).
RepairWrites ==
    /\ srepair # {} /\ SessionFree
    /\ srec' = IF ~Writable THEN srec
               ELSE [status |-> IF srec = NoSession THEN "active" ELSE srec.status,
                     runs |-> srec.runs \cup srepair]
    /\ srepair' = {}
    /\ UNCHANGED <<stomb, smsg, sdir, sref, ssnap, srun, sreq, sreqdir, scode, sagent,
                   sjournal, spc, sdel, saged, srewind, srecHistory>>

\* coding_state_store.change, by a task of the session
ChangeCoding ==
    /\ Writable /\ ~scode
    /\ scode' = TRUE
    /\ UNCHANGED <<srec, stomb, smsg, sdir, sref, ssnap, srun, sreq, sreqdir, sagent,
                   sjournal, srecActors, srecHistory>>

\* create_snapshot asks for the session, and keeps a copy of its messages (one copy at
\* a time is enough here).
TakeSnapshot ==
    /\ ssnap = {}
    /\ Writable /\ srec # NoSession
    /\ ssnap' = smsg /\ sdir' = TRUE
    /\ UNCHANGED <<srec, stomb, smsg, sref, srun, sreq, sreqdir, scode, sagent, sjournal,
                   srecActors, srecHistory>>

\* rewind_session asks for the snapshot only; it removes the messages and writes the
\* others one by one, with no lock over the whole.
BeginRewind ==
    /\ OwnerStep
    /\ srewind = {} /\ ssnap # {}
    /\ smsg' = {} /\ sdir' = TRUE
    /\ srewind' = ssnap
    /\ slate' = IF stomb THEN slate \cup ssnap ELSE slate
    /\ UNCHANGED <<srec, stomb, sref, ssnap, srun, sreq, sreqdir, scode, sagent, sjournal,
                   spc, sdel, saged, srepair, sgone, sdeletions, sfaults>>

RewindWrites(m) ==
    /\ m \in srewind
    /\ PutMessage(m[1], m[2])
    /\ sref' = sref \cup {m}
    /\ srewind' = srewind \ {m}
    /\ UNCHANGED <<srec, stomb, ssnap, srun, sreq, sreqdir, scode, sagent, sjournal,
                   spc, sdel, saged, srepair, srecHistory>>

\* The backend dies, with its turns, a deletion and the rest; at startup the job of an
\* interrupted turn is ended.
SrecRestart ==
    /\ sfaults < MaxSrecFaults /\ sfaults' = sfaults + 1
    /\ spc' = [t \in SrecTurns |-> IF UnderWay(t) THEN "ended" ELSE spc[t]]
    /\ sdel' = NoDeletion /\ saged' = FALSE /\ srepair' = {} /\ srewind' = {}
    /\ sagent' = IF sagent = "running" THEN "idle" ELSE sagent
    /\ UNCHANGED <<srec, stomb, smsg, sdir, sref, ssnap, srun, sreq, sreqdir, scode,
                   sjournal, slate, sgone, sdeletions, suser>>

SrecNext ==
    \/ \E t \in SrecTurns :
          \/ ClaimTurn(t) \/ EnsureSession(t) \/ WriteMessage(t) \/ WriteRun(t)
          \/ LinkRun(t) \/ ReadRun(t) \/ SaveRun(t) \/ JournalTurn(t)
          \/ FinishRequest(t) \/ AttachJob(t)
    \/ RetentionLists
    \/ \E by \in {"user", "retention"} : BeginDeletion(by)
    \/ DeletionStep
    \/ \E status \in {"active", "archived", "deleted"} : UpdateStatus(status)
    \/ RepairReads \/ RepairWrites \/ ChangeCoding
    \/ TakeSnapshot \/ BeginRewind \/ \E m \in Messages : RewindWrites(m)
    \/ SrecRestart

SrecSpec == SrecInit /\ [][SrecNext]_srecVars

-----------------------------------------------------------------------------
\* Types of the session's state.
SrecTypeOK ==
    /\ srec \in [status : {"none", "active", "archived", "deleted"}, runs : SUBSET SrecTurns]
    /\ {smsg, sref, ssnap, srewind} \subseteq SUBSET Messages
    /\ {srun, sreq} \subseteq SUBSET SrecTurns
    /\ {stomb, sdir, sreqdir, scode, sjournal, saged, sgone} \subseteq BOOLEAN
    /\ sagent \in {"none", "idle", "running"}
    /\ srepair \subseteq SrecTurns

\* "Delete session state under one lock and leave a tombstone against revival": when a
\* deletion says that it succeeded, no record is there, nor will a status change, a
\* listing, a new turn or a coding task bring one back; and what there is of messages,
\* references and runs was written by a turn or a rewind that was under way when the
\* deletion began, or that began after it (they do not ask for the tombstone).
DeletedIsGone ==
    sgone => /\ srec = NoSession /\ ~scode
             /\ smsg \cup sref \cup srun \X {"run"} \subseteq slate

\* "A durable tombstone forbids late writers from recreating session facts": after the
\* success of a deletion, no message, reference or run record of the session is there.
TombstoneForbids == sgone => smsg = {} /\ sref = {} /\ srun = {}
=============================================================================
