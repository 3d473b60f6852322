------------------------------ MODULE JobStore ------------------------------
(***************************************************************************)
(* The durable job record of jobs/store.py and the transition table of     *)
(* jobs/manager.py, as pure operators on one record.                       *)
(*                                                                         *)
(* Every operator here stands for one critical section under the per-job   *)
(* FileLock (a read-modify-write of <job_id>.json), or for a test made on  *)
(* a record that was read earlier without the lock.  Which of the two a    *)
(* caller uses is the caller's business and is what makes the callers      *)
(* interesting: update_job merges fields and never looks at the status.    *)
(*                                                                         *)
(* Time stamps, titles, progress, artifacts and events are left out: no    *)
(* guard of the code depends on them.                                      *)
(*                                                                         *)
(* Here and in the other modules an operator X_bug, defined before X, is a *)
(* plausible wrong version of X; PROJECT.json says which property of which *)
(* run it breaks when it takes X's place.  Nothing else refers to it.      *)
(***************************************************************************)
EXTENDS Naturals

(***************************************************************************)
(* JOB_STATUSES, and two values for "there is no such file": a job id that *)
(* is not in use yet and one whose directory has been removed.             *)
(***************************************************************************)
Statuses == {"created", "queued", "running", "succeeded", "failed",
             "cancelled", "paused"}

Absent == {"unborn", "deleted"}

Terminal == {"succeeded", "failed", "cancelled"}

JobRecord == [status           : Statuses \cup Absent,
              retry_count      : Nat,
              cancel_requested : BOOLEAN]

NewRecord == [status           |-> "unborn",
              retry_count      |-> 0,
              cancel_requested |-> FALSE]

Exists(rec) == rec.status \notin Absent

(* ALLOWED_TRANSITIONS together with PLANNED_TRANSITIONS (created->running). *)
AllowedTransitions ==
    [created   |-> {"queued", "cancelled", "running"},
     queued    |-> {"running", "cancelled", "failed"},
     running   |-> {"succeeded", "failed", "cancelled", "paused"},
     paused    |-> {"running", "cancelled", "failed"},
     failed    |-> {"queued", "running", "cancelled"},
     succeeded |-> {"running"},
     cancelled |-> {"running"}]

(* _check_transition: FALSE stands for the ValueError it raises. *)
CheckTransition(current, target) ==
    \/ current = target
    \/ target \in AllowedTransitions[current]

(* _transition / update_job(status): no test of the status it overwrites. *)
SetStatus(rec, target) ==
    IF Exists(rec) THEN [rec EXCEPT !.status = target] ELSE rec

(* mark_cancelled also makes the request flag durable. *)
SetCancelled(rec) ==
    IF Exists(rec)
    THEN [rec EXCEPT !.status = "cancelled", !.cancel_requested = TRUE]
    ELSE rec

(* The patch of retry_job; count is the retry_count its caller read. *)
SetRetried(rec, count) ==
    IF Exists(rec)
    THEN [status |-> "queued", retry_count |-> count + 1,
          cancel_requested |-> FALSE]
    ELSE rec

(* The patch of reconcile_running_jobs; c is the cancel flag it read. *)
SetReconciled_requeue(rec, c) ==
    IF Exists(rec)
    THEN [rec EXCEPT !.status = IF c THEN "cancelled" ELSE "queued",
                     !.cancel_requested = c]
    ELSE rec

SetReconciled(rec, c) ==
    IF Exists(rec)
    THEN [rec EXCEPT !.status = IF c THEN "cancelled" ELSE "failed",
                     !.cancel_requested = c]
    ELSE rec

(* claim_job_for_execution: compare-and-set queued -> running. *)
Claimable(rec) == rec.status = "queued"

SetClaimed(rec) ==
    [rec EXCEPT !.status = "running", !.cancel_requested = FALSE]

(* fence_reclaimed_running_job: only a redelivery (attempt > 1) fences. *)
Fenced_never(rec, attempt) == FALSE

Fenced_offByOne(rec, attempt) == attempt > 2 /\ rec.status = "running"

Fenced(rec, attempt) == attempt > 1 /\ rec.status = "running"

SetFenced(rec) == [rec EXCEPT !.status = "failed"]

(* request_job_cancellation: one-way flag, only while the job is running. *)
SetCancelRequested(rec) ==
    IF rec.status = "running"
    THEN [rec EXCEPT !.cancel_requested = TRUE]
    ELSE rec
=============================================================================
