--------------------------- MODULE CodingCandidate ---------------------------
(***************************************************************************)
(* One coding candidate (agent/runtime/durable/coding_state.py) from the   *)
(* seal of its source to its publication into the project: the reviews     *)
(* that run beside each other, the acceptance derived from their records,  *)
(* the publication transaction with its journal (storage/                  *)
(* project_changes.py), and the two read-backs, of an execution that was   *)
(* interrupted (coding_recovery.py) and of a publication.                  *)
(*                                                                         *)
(* Every record has a lock of its own, so one store.change is one step.    *)
(* Attaching a review, publishing and reading back an execution also hold  *)
(* the candidate's publication lock; finishing a review does not, which is *)
(* why publication compares the revision it read.                          *)
(***************************************************************************)
EXTENDS Naturals, FiniteSets

CONSTANTS
    CandReviews,     \* the QA tasks
    CandFiles,       \* the files the candidate changes
    CandFaults,      \* which of "die", "disk", "edit" may happen
    MaxCandDeaths,   \* bound: processes that die
    MaxCandEdits     \* bound: edits of the project by others

ASSUME CandAssumption ==
    /\ CandFaults \subseteq {"die", "disk", "edit"}
    /\ MaxCandDeaths \in Nat /\ MaxCandEdits \in Nat
    /\ CandFiles # {}

VARIABLES
    cand,        \* the record: state, review ids, round, recovery
    review,      \* the review records
    qa,          \* the QA workers
    producer,    \* is the producing worker still running?
    publisher,   \* the integrate call: its place, and is its read current?
    pubLock,     \* who holds the publication lock
    journal,     \* the phase in the publication journal
    project,     \* each file: as before the change, after it, or otherwise
    candDeaths, candEdits,
    editLost     \* history: did the publication overwrite somebody's edit?

candVars == <<cand, review, qa, producer, publisher, pubLock, journal, project,
              candDeaths, candEdits, editLost>>

Reviewable == {"ready", "under_review", "accepted", "review_rejected",
               "review_incomplete"}
PubStates == {"publishing", "integrated", "conflict", "publication_unknown"}
NoReview == [state |-> "none", outcome |-> "none", round |-> 0]

CandInit ==
    /\ cand = [state |-> "building", ids |-> {}, round |-> 0, resolved |-> {},
               recoveryRound |-> 0, accepted |-> {}]
    /\ review = [r \in CandReviews |-> NoReview]
    /\ qa = [r \in CandReviews |-> "none"]
    /\ producer = TRUE
    /\ publisher = [pc |-> "idle", current |-> FALSE]
    /\ pubLock = "free"
    /\ journal = "none"
    /\ project = [f \in CandFiles |-> "before"]
    /\ candDeaths = 0 /\ candEdits = 0
    /\ editLost = FALSE

\* A change of the candidate record makes what the publisher read outdated.
CandWrite(record) ==
    /\ cand' = record
    /\ publisher' = [publisher EXCEPT !.current = FALSE]

-----------------------------------------------------------------------------
(* The producer seals its candidate.                                       *)

CandSeal(validation, closed) ==
    /\ producer /\ cand.state = "building"
    /\ producer' = FALSE
    /\ CandWrite([cand EXCEPT !.state =
          CASE validation = "unknown" \/ ~closed -> "execution_unknown"
            [] validation = "passed" /\ closed   -> "ready"
            [] OTHER                             -> "validation_failed"])
    /\ UNCHANGED <<review, qa, pubLock, journal, project, candDeaths, candEdits,
                   editLost>>

-----------------------------------------------------------------------------
(* Reviews.                                                                *)

\* resolved_unknown
Unresolved(r) == review[r].state = "execution_unknown" /\ r \notin cand.resolved

\* _accepted_review_item
GoodReview(r) ==
    /\ review[r].state = "completed" /\ review[r].outcome = "pass"
    /\ cand.recoveryRound > 0 => review[r].round > cand.recoveryRound

Current(c) == {r \in c.ids : review[r].round = c.round}

\* reconcile_reviews: the state the review records add up to.
Judged(c) ==
    CASE \E r \in c.ids : Unresolved(r) -> "execution_unknown"
      [] \E r \in c.ids : review[r].state = "running" -> "under_review"
      [] \E r \in Current(c) : review[r].outcome = "fail" -> "review_rejected"
      [] Current(c) = {} \/ \E r \in Current(c) : review[r].outcome # "pass"
            -> "review_incomplete"
      [] OTHER -> "accepted"

\* reconcile_reviews does not write in another state, over a missing record, on
\* incomplete evidence or against the transitions.
Unreconcilable(c) ==
    LET s == Judged(c)
    IN  \/ c.state \notin Reviewable
        \/ \E r \in c.ids : review[r].state = "none"
        \/ s = "accepted" /\ \E r \in Current(c) : ~GoodReview(r)
        \/ s \notin {c.state, "under_review"} /\ c.state # "under_review"

\* One PASS of the round is enough.
CandReconcile_onePass ==
    LET good == {r \in Current(cand) : GoodReview(r)}
    IN  IF cand.state \notin Reviewable THEN UNCHANGED <<cand, publisher>>
        ELSE CandWrite([cand EXCEPT
                !.state = IF good # {} THEN "accepted" ELSE Judged(cand),
                !.accepted = good])

\* Otherwise it does, with a new updated_at even when the state is the same.
CandReconcile ==
    IF Unreconcilable(cand) THEN UNCHANGED <<cand, publisher>>
    ELSE CandWrite([cand EXCEPT
            !.state = Judged(cand),
            !.accepted = IF Judged(cand) = "accepted" THEN Current(cand) ELSE {}])

\* start_review takes the publication lock, restores the records of dead
\* reviewers whose second write was lost (recover_review_links) ...
Lost_dead == {r \in cand.ids : qa[r] = "dead"}

Lost == {r \in cand.ids : review[r].state = "none"}

StartReview(r) ==
    /\ qa[r] = "none" /\ pubLock = "free"
    /\ cand.state \in Reviewable
    /\ \A x \in Lost : qa[x] = "dead"
    /\ pubLock' = "review"
    /\ qa' = [qa EXCEPT ![r] = IF Lost = {} THEN "attach" ELSE "restored"]
    /\ review' = [x \in CandReviews |->
          IF x \in Lost THEN [state |-> "interrupted", outcome |-> "unknown",
                              round |-> cand.round]
          ELSE review[x]]
    /\ UNCHANGED <<cand, producer, publisher, journal, project, candDeaths,
                   candEdits, editLost>>

\* ... judges the candidate anew after that ...
RestoredReviews(r) ==
    /\ qa[r] = "restored"
    /\ CandReconcile
    /\ qa' = [qa EXCEPT ![r] = "attach"]
    /\ UNCHANGED <<review, producer, pubLock, journal, project, candDeaths,
                   candEdits, editLost>>

\* ... registers the review in the candidate ...
AttachReview(r) ==
    /\ qa[r] = "attach"
    /\ IF cand.state \in Reviewable
       THEN /\ CandWrite([cand EXCEPT
                  !.ids = @ \cup {r},
                  !.round = IF cand.state = "under_review" THEN @ ELSE @ + 1,
                  !.state = "under_review"])
            /\ qa' = [qa EXCEPT ![r] = "record"]
            /\ UNCHANGED pubLock
       ELSE /\ pubLock' = "free"
            /\ qa' = [qa EXCEPT ![r] = "done"]
            /\ UNCHANGED <<cand, publisher>>
    /\ UNCHANGED <<review, producer, journal, project, candDeaths, candEdits,
                   editLost>>

\* ... and only then writes its record.
RecordReview(r) ==
    /\ qa[r] = "record"
    /\ review' = [review EXCEPT ![r] = [state |-> "running", outcome |-> "none",
                                        round |-> cand.round]]
    /\ pubLock' = "free"
    /\ qa' = [qa EXCEPT ![r] = "judging"]
    /\ UNCHANGED <<cand, producer, publisher, journal, project, candDeaths,
                   candEdits, editLost>>

\* finish_review: what judgement, checks, cleanup and cancellation add up to.
Outcome(judgement, checks, closed, interrupted) ==
    CASE checks = "unknown" \/ ~closed \/ interrupted -> "unknown"
      [] checks = "failed" -> "fail"
      [] checks = "none" /\ judgement = "pass" -> "unknown"
      [] OTHER -> judgement

FinishReview(r, judgement, checks, closed, interrupted) ==
    /\ qa[r] = "judging"
    /\ review' = [review EXCEPT ![r] =
          [state   |-> CASE checks = "unknown" \/ ~closed -> "execution_unknown"
                         [] checks # "unknown" /\ closed /\ interrupted -> "interrupted"
                         [] OTHER -> "completed",
           outcome |-> Outcome(judgement, checks, closed, interrupted),
           round   |-> @.round]]
    /\ qa' = [qa EXCEPT ![r] = "reconcile"]
    /\ UNCHANGED <<cand, producer, publisher, pubLock, journal, project, candDeaths,
                   candEdits, editLost>>

ReconcileReview(r) ==
    /\ qa[r] = "reconcile"
    /\ CandReconcile
    /\ qa' = [qa EXCEPT ![r] = "done"]
    /\ UNCHANGED <<review, producer, pubLock, journal, project, candDeaths,
                   candEdits, editLost>>

-----------------------------------------------------------------------------
(* reconcile_execution: read back what an interrupted execution left.      *)

ReconcileExecution ==
    /\ pubLock = "free"
    /\ cand.state \in {"building", "execution_unknown"} /\ ~producer
    /\ \A r \in cand.ids :
          qa[r] \in {"done", "dead"} /\ review[r].state \notin {"none", "running"}
    /\ CandWrite([cand EXCEPT
          !.state = "review_incomplete",
          !.recoveryRound = cand.round,
          !.resolved = {r \in cand.ids : review[r].state = "execution_unknown"},
          !.accepted = {}])
    /\ UNCHANGED <<review, qa, producer, pubLock, journal, project, candDeaths,
                   candEdits, editLost>>

-----------------------------------------------------------------------------
(* integrate, under the publication lock.                                  *)

\* accepted_reviews
Acceptable ==
    /\ \A r \in cand.ids : review[r].state \notin {"none", "running"} /\ ~Unresolved(r)
    /\ cand.accepted # {} /\ \A r \in cand.accepted : GoodReview(r)

PubGoes(pc) == publisher' = [publisher EXCEPT !.pc = pc]

PubEnds ==
    /\ publisher' = [pc |-> "idle", current |-> FALSE]
    /\ pubLock' = "free"

PubRead ==
    /\ publisher.pc = "idle" /\ pubLock = "free"
    /\ cand.state \in {"accepted", "conflict", "publishing", "publication_unknown"}
    /\ Acceptable
    /\ pubLock' = "publish"
    /\ publisher' = [pc |-> IF cand.state \in {"accepted", "conflict"}
                            THEN "start" ELSE "readback",
                     current |-> TRUE]
    /\ UNCHANGED <<cand, review, qa, producer, journal, project, candDeaths,
                   candEdits, editLost>>

\* publication_started, refused when the record has changed since the read.
PubStart ==
    /\ publisher.pc = "start"
    /\ IF publisher.current
       THEN /\ cand' = [cand EXCEPT !.state = "publishing"]
            /\ PubGoes("publish")
            /\ UNCHANGED pubLock
       ELSE PubEnds /\ UNCHANGED cand
    /\ UNCHANGED <<review, qa, producer, journal, project, candDeaths, candEdits,
                   editLost>>

\* publish_changes, up to the journal: an unexpected file is a conflict, a
\* failing copy an exception.
PubPrepare == IF \A f \in CandFiles : project[f] = "before" THEN "apply" ELSE "conflict"

PubCheck(fails) ==
    /\ publisher.pc = "publish"
    /\ fails => "disk" \in CandFaults
    /\ IF fails THEN PubGoes("exception") /\ UNCHANGED journal
       ELSE /\ PubGoes(PubPrepare)
            /\ journal' = IF PubPrepare = "apply" THEN "applying" ELSE journal
    /\ UNCHANGED <<cand, review, qa, producer, pubLock, project, candDeaths,
                   candEdits, editLost>>

PubReplace(f) ==
    /\ publisher.pc = "apply"
    /\ project[f] # "after"
    /\ project' = [project EXCEPT ![f] = "after"]
    /\ editLost' = (editLost \/ project[f] = "other")
    /\ UNCHANGED <<cand, review, qa, producer, publisher, pubLock, journal,
                   candDeaths, candEdits>>

\* _recover, after the last file or at a failing write: read the files back
\* and keep all of the change or none of it.
Readback_some ==
    CASE \E f \in CandFiles : project[f] = "after" -> "integrated"
      [] \E f \in CandFiles : project[f] = "other" -> "unknown"
      [] OTHER -> "rolled_back"

Readback ==
    CASE \A f \in CandFiles : project[f] = "after" -> "integrated"
      [] \E f \in CandFiles : project[f] = "other" -> "unknown"
      [] OTHER -> "rolled_back"

PubRecover ==
    /\ publisher.pc = "apply"
    /\ Readback = "integrated" \/ "disk" \in CandFaults
    /\ journal' = Readback
    /\ project' = IF Readback = "rolled_back"
                  THEN [f \in CandFiles |-> "before"] ELSE project
    /\ PubGoes(Readback)
    /\ UNCHANGED <<cand, review, qa, producer, pubLock, candDeaths, candEdits,
                   editLost>>

\* _recover itself fails, perhaps after it has put some files back.
PubRecoverFails(kept) ==
    /\ publisher.pc = "apply"
    /\ "disk" \in CandFaults
    /\ project' = IF Readback # "rolled_back" THEN project
                  ELSE [f \in CandFiles |-> IF f \in kept THEN project[f] ELSE "before"]
    /\ PubGoes("unknown")
    /\ UNCHANGED <<cand, review, qa, producer, pubLock, journal, candDeaths, candEdits,
                   editLost>>

\* reconcile_publication: only reads, and only a clear answer counts.
PubReadback ==
    /\ publisher.pc = "readback"
    /\ LET phase == IF Readback = "rolled_back"
                       /\ \E f \in CandFiles : project[f] # "before"
                    THEN "unknown" ELSE Readback
       IN  /\ journal' = IF journal = "none" THEN journal ELSE phase
           /\ PubGoes(IF journal = "none" \/ phase = "unknown" THEN "unclear" ELSE phase)
    /\ UNCHANGED <<cand, review, qa, producer, pubLock, project, candDeaths,
                   candEdits, editLost>>

PubResult == [integrated |-> "integrated", rolled_back |-> "conflict",
              conflict |-> "conflict", unknown |-> "publication_unknown",
              exception |-> "publication_unknown"]

PubFinish ==
    /\ publisher.pc \in DOMAIN PubResult \cup {"unclear"}
    /\ cand' = IF publisher.pc = "unclear" THEN cand
               ELSE [cand EXCEPT !.state = PubResult[publisher.pc]]
    /\ PubEnds
    /\ UNCHANGED <<review, qa, producer, journal, project, candDeaths, candEdits,
                   editLost>>

-----------------------------------------------------------------------------
(* The environment.                                                        *)

\* An edit of the project, which waits for the workspace's file lock.
EditProject(f) ==
    /\ "edit" \in CandFaults
    /\ candEdits < MaxCandEdits
    /\ publisher.pc \notin {"apply", "publish", "readback"}
    /\ project' = [project EXCEPT ![f] = "other"]
    /\ candEdits' = candEdits + 1
    /\ UNCHANGED <<cand, review, qa, producer, publisher, pubLock, journal,
                   candDeaths, editLost>>

\* The process dies with its workers; the records stay as they are.
CandDies ==
    /\ "die" \in CandFaults
    /\ candDeaths < MaxCandDeaths
    /\ candDeaths' = candDeaths + 1
    /\ producer' = FALSE
    /\ qa' = [r \in CandReviews |->
                IF qa[r] \in {"none", "done"} THEN qa[r] ELSE "dead"]
    /\ publisher' = [pc |-> "idle", current |-> FALSE]
    /\ pubLock' = "free"
    /\ UNCHANGED <<cand, review, journal, project, candEdits, editLost>>

-----------------------------------------------------------------------------
ReviewStep(r) ==
    \/ StartReview(r) \/ RestoredReviews(r) \/ AttachReview(r) \/ RecordReview(r)
    \/ \E judgement \in {"pass", "fail", "unknown"},
          checks \in {"none", "passed", "failed", "unknown"},
          closed, interrupted \in BOOLEAN :
             FinishReview(r, judgement, checks, closed, interrupted)
    \/ ReconcileReview(r)

Publish ==
    \/ PubRead \/ PubStart \/ PubRecover \/ PubReadback \/ PubFinish
    \/ \E fails \in BOOLEAN : PubCheck(fails)
    \/ \E kept \in SUBSET CandFiles : PubRecoverFails(kept)
    \/ \E f \in CandFiles : PubReplace(f)

CandNext ==
    \/ \E validation \in {"passed", "failed", "unknown"}, closed \in BOOLEAN :
          CandSeal(validation, closed)
    \/ \E r \in CandReviews : ReviewStep(r)
    \/ ReconcileExecution
    \/ Publish
    \/ \E f \in CandFiles : EditProject(f)
    \/ CandDies

CandSpec == CandInit /\ [][CandNext]_candVars

-----------------------------------------------------------------------------
\* Values of the state; the publication lock is held by its users only.
CandTypeOK ==
    /\ cand \in [state : Reviewable \cup PubStates
                           \cup {"building", "validation_failed", "execution_unknown"},
                 ids : SUBSET CandReviews, round : Nat, resolved : SUBSET CandReviews,
                 recoveryRound : Nat, accepted : SUBSET CandReviews]
    /\ review \in [CandReviews ->
          [state : {"none", "running", "completed", "interrupted", "execution_unknown"},
           outcome : {"none", "pass", "fail", "unknown"}, round : Nat]]
    /\ qa \in [CandReviews -> {"none", "restored", "attach", "record", "judging",
                               "reconcile", "done", "dead"}]
    /\ producer \in BOOLEAN
    /\ publisher \in [pc : {"idle", "start", "publish", "apply", "readback", "unclear"}
                              \cup DOMAIN PubResult, current : BOOLEAN]
    /\ pubLock = CASE publisher.pc # "idle" -> "publish"
                   [] \E r \in CandReviews : qa[r] \in {"restored", "attach", "record"}
                        -> "review"
                   [] OTHER -> "free"
    /\ journal \in {"none", "applying", "integrated", "rolled_back", "unknown"}
    /\ project \in [CandFiles -> {"before", "after", "other"}]
    /\ candDeaths \in Nat /\ candEdits \in Nat /\ editLost \in BOOLEAN

\* docs/API.md: all parallel reviewers have to pass, and one PASS cannot cover
\* another's failure.  What is being or has been published was accepted by
\* every review of its last round, none of its reviews is still running or
\* lost, and no execution of unknown outcome is left open.
PublishedIsReviewed ==
    cand.state \in PubStates =>
        /\ Current(cand) # {}
        /\ \A r \in Current(cand) : GoodReview(r)
        /\ \A r \in cand.ids : review[r].state \notin {"none", "running"}
                               /\ ~Unresolved(r)

\* A candidate is integrated only on the journal's word, and the journal only
\* says so when it read every file of the change back.  And "never overwrite an
\* unrelated edit" (project_changes.py): what somebody edited between review,
\* publication and its recovery survives.
PublicationIsReadBack ==
    /\ cand.state = "integrated" => journal = "integrated"
    /\ journal = "integrated" /\ candEdits = 0
          => \A f \in CandFiles : project[f] = "after"
    /\ ~editLost

\* A review that was closed keeps its verdict, whoever dies and whatever is
\* reconciled later.
ReviewStands ==
    [][\A r \in CandReviews :
          review[r].state \in {"completed", "interrupted", "execution_unknown"}
             => review'[r] = review[r]]_candVars
=============================================================================
