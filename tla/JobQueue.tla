------------------------------ MODULE JobQueue ------------------------------
(***************************************************************************)
(* The background-job pipeline in Redis mode: RedisJobQueue                *)
(* (jobs/queue.py), the worker loop and its heartbeat thread               *)
(* (jobs/worker.py), run_job (jobs/runner.py) and the API calls that act   *)
(* on the same record (jobs/manager.py, jobs/store.py).                    *)
(*                                                                         *)
(* Three kinds of process interleave.  A worker polls the queue, claims a  *)
(* delivery and runs it; its heartbeat thread renews the lease; an API     *)
(* client creates, cancels, retries or deletes jobs.  One step is one      *)
(* Redis command (or Lua script) or one locked read-modify-write of a job  *)
(* record, so every check-then-act of the code is two steps here.          *)
(*                                                                         *)
(* A delivery is the string {workspace, job, attempt, principal}; it is    *)
(* both the list element and the key of the lease hash, so two deliveries  *)
(* of the same job and attempt are indistinguishable.                      *)
(***************************************************************************)
EXTENDS JobStore, Sequences

CONSTANTS
    Workers,         \* worker processes
    Clients,         \* API threads that act on jobs
    Jobs,            \* job ids
    MaxRetries,      \* JobRecord.max_retries (3 in the code)
    MaxSubmissions,  \* bound: how often one job may be put in the queue
    MaxAttempt,      \* bound: a lease of this attempt no longer expires
    Faults           \* which of the failures below may happen

ASSUME ConstantsAssumption ==
    /\ MaxRetries \in Nat
    /\ MaxSubmissions \in Nat \ {0}
    /\ MaxAttempt \in Nat \ {0}
    /\ Faults \subseteq {"workerCrash", "apiCrash", "restart", "stall",
                         "lockTimeout", "redisError"}

Payload == [job : Jobs, attempt : Nat \ {0}]

NoReceipt == [attempt |-> 0]

Delivery(j, n) == [job |-> j, attempt |-> n]

Again(p) == [p EXCEPT !.attempt = p.attempt + 1]

VARIABLES
    job,         \* the durable records
    queued,      \* list QUEUED: LPUSH appends here, RPOP takes the head
    processing,  \* list PROCESSING
    leases,      \* keys of hash LEASES (the worker id in it is never read)
    stale,       \* the leases whose heartbeat_at is too old
    wpc,         \* control point of each worker
    receipt,     \* the delivery each worker holds
    scan,        \* stale leases the worker's HGETALL returned, to be moved
    mark,        \* the mark_* call the worker is in
    again,       \* the ack is the first half of a retry
    hb,          \* control point of the heartbeat thread
    lost,        \* the lease_lost event
    late,        \* HSETs of heartbeat threads that outlived their join
    call,        \* the API call each client is in
    submitted,   \* history: writes of status "queued"
    runs         \* history: successful claim_job_for_execution calls

redis   == <<queued, processing, leases, stale, late>>
worker  == <<wpc, receipt, scan, mark, again>>
beat    == <<hb, lost>>
history == <<submitted, runs>>
vars    == <<job, redis, worker, beat, call, history>>

WorkerPoints ==
    {"idle", "reclaim", "claimed", "start", "exec", "mark", "write", "post",
     "returned", "raised", "ackRemove", "ackLease", "push"}

(* Points at which the worker is inside run_job's try block. *)
Executing == {"exec", "mark", "write", "post"}

(* Where a mark_* call is made: by the job's handler, by run_job itself    *)
(* after the handler returned, or by run_job's except clause.              *)
Mark == [target : Terminal, by : {"handler", "final", "except"}]

Idle == [op |-> "none"]

Calls ==
    {Idle}
      \cup [op : {"enqueueWrite", "push", "cancelWrite", "cancelRequest",
                  "deleteWrite"}, job : Jobs]
      \cup [op : {"retryWrite"}, job : Jobs, seen : Nat]
      \cup [op : {"reconcileWrite"}, job : Jobs, seen : BOOLEAN]

NoMark == [target |-> "failed", by |-> "except"]

Init ==
    /\ job        = [j \in Jobs |-> NewRecord]
    /\ queued     = <<>>
    /\ processing = <<>>
    /\ leases     = {}
    /\ stale      = {}
    /\ late       = {}
    /\ wpc        = [w \in Workers |-> "idle"]
    /\ receipt    = [w \in Workers |-> NoReceipt]
    /\ scan       = [w \in Workers |-> {}]
    /\ mark       = [w \in Workers |-> NoMark]
    /\ again      = [w \in Workers |-> FALSE]
    /\ hb         = [w \in Workers |-> "off"]
    /\ lost       = [w \in Workers |-> FALSE]
    /\ call       = [c \in Clients |-> Idle]
    /\ submitted  = [j \in Jobs |-> 0]
    /\ runs       = [j \in Jobs |-> 0]

-----------------------------------------------------------------------------
(* Redis commands. *)

(* LREM key 1 p: one occurrence goes, a missing element is no error.  Which *)
(* one is immaterial: PROCESSING is never read in order.                   *)
LRem(list, p) ==
    IF \E i \in 1..Len(list) : list[i] = p
    THEN LET i == CHOOSE i \in 1..Len(list) : list[i] = p
         IN  SubSeq(list, 1, i - 1) \o SubSeq(list, i + 1, Len(list))
    ELSE list

HSet(p) == /\ leases' = leases \cup {p}
           /\ stale'  = stale \ {p}

HDel(p) == /\ leases' = leases \ {p}
           /\ stale'  = stale \ {p}

-----------------------------------------------------------------------------
(* The worker: _run_once.  The store lock makes each of these one step. *)

Goto(w, point) == wpc' = [wpc EXCEPT ![w] = point]

(* Leaving _run_once, with or without the delivery acknowledged. *)
GoIdle(w) ==
    /\ Goto(w, "idle")
    /\ receipt' = [receipt EXCEPT ![w] = NoReceipt]
    /\ mark'    = [mark EXCEPT ![w] = NoMark]
    /\ again'   = [again EXCEPT ![w] = FALSE]

(* reclaim_stale reads the whole hash once and keeps the stale entries. *)
BeginPoll(w) ==
    /\ wpc[w] = "idle"
    /\ Goto(w, "reclaim")
    /\ scan' = [scan EXCEPT ![w] = stale]
    /\ UNCHANGED <<job, redis, receipt, mark, again, beat, call, history>>

(* One Lua script per stale entry: nothing happens unless the lease value *)
(* is still the one that was read, i.e. it was neither renewed nor moved. *)
ReclaimStale(w, p) ==
    /\ wpc[w] = "reclaim"
    /\ p \in scan[w]
    /\ scan' = [scan EXCEPT ![w] = scan[w] \ {p}]
    /\ IF p \in stale
       THEN /\ HDel(p)
            /\ processing' = LRem(processing, p)
            /\ queued' = Append(queued, Again(p))
       ELSE UNCHANGED <<leases, stale, processing, queued>>
    /\ UNCHANGED <<job, late, wpc, receipt, mark, again, beat, call, history>>

(* claim: RPOPLPUSH and HSET in one script. *)
ClaimDelivery(w) ==
    /\ wpc[w] = "reclaim"
    /\ scan[w] = {}
    /\ queued # <<>>
    /\ receipt' = [receipt EXCEPT ![w] = Head(queued)]
    /\ queued' = Tail(queued)
    /\ processing' = <<Head(queued)>> \o processing
    /\ HSet(Head(queued))
    /\ Goto(w, "claimed")
    /\ UNCHANGED <<job, late, scan, mark, again, beat, call, history>>

NothingQueued(w) ==
    /\ wpc[w] = "reclaim"
    /\ scan[w] = {}
    /\ queued = <<>>
    /\ Goto(w, "idle")
    /\ UNCHANGED <<job, redis, receipt, scan, mark, again, beat, call, history>>

(* get_job and fence_reclaimed_running_job: a redelivery that finds the    *)
(* job running fails it; a job that is gone is acknowledged; otherwise the *)
(* heartbeat thread starts and run_job is called.                          *)
InspectDelivery(w) ==
    LET p   == receipt[w]
        rec == job[p.job]
    IN  /\ wpc[w] = "claimed"
        /\ \/ /\ Fenced(rec, p.attempt)
              /\ job' = [job EXCEPT ![p.job] = SetFenced(rec)]
              /\ Goto(w, "ackRemove")
              /\ UNCHANGED beat
           \/ /\ ~Exists(rec)
              /\ Goto(w, "ackRemove")
              /\ UNCHANGED <<job, beat>>
           \/ /\ Exists(rec) /\ ~Fenced(rec, p.attempt)
              /\ Goto(w, "start")
              /\ hb'   = [hb EXCEPT ![w] = "wait"]
              /\ lost' = [lost EXCEPT ![w] = FALSE]
              /\ UNCHANGED job
        /\ UNCHANGED <<redis, receipt, scan, mark, again, call, history>>

(* run_job's claim_job_for_execution; a stale dispatch returns at once. *)
ClaimExecution(w) ==
    LET j == receipt[w].job
    IN  /\ wpc[w] = "start"
        /\ IF Claimable(job[j])
           THEN /\ job' = [job EXCEPT ![j] = SetClaimed(job[j])]
                /\ runs' = [runs EXCEPT ![j] = runs[j] + 1]
                /\ Goto(w, "exec")
           ELSE /\ UNCHANGED <<job, runs>>
                /\ Goto(w, "returned")
        /\ UNCHANGED <<redis, receipt, scan, mark, again, beat, call, submitted>>

(* The record lock is not granted within its timeout: run_job raises. *)
ClaimExecutionTimeout(w) ==
    /\ "lockTimeout" \in Faults
    /\ wpc[w] = "start"
    /\ receipt[w].attempt < MaxAttempt
    /\ Goto(w, "raised")
    /\ UNCHANGED <<job, redis, receipt, scan, mark, again, beat, call, history>>

(* The job handler ends: it returns, reports a failure with mark_failed,   *)
(* raises, or has seen cancel_requested and calls mark_cancelled.          *)
HandlerEnds(w) ==
    /\ wpc[w] = "exec"
    /\ \/ /\ Goto(w, "post")
          /\ UNCHANGED mark
       \/ /\ Goto(w, "mark")
          /\ \E by \in {"handler", "except"} :
                mark' = [mark EXCEPT ![w] = [target |-> "failed", by |-> by]]
       \/ /\ job[receipt[w].job].cancel_requested
          /\ Goto(w, "mark")
          /\ mark' = [mark EXCEPT ![w] =
                        [target |-> "cancelled", by |-> "handler"]]
    /\ UNCHANGED <<job, redis, receipt, scan, again, beat, call, history>>

(* After the handler: the lease test, then the fresh read of the record. *)
CheckOutcome(w) ==
    /\ wpc[w] = "post"
    /\ IF \/ lost[w]
          \/ job[receipt[w].job].status \in {"failed", "cancelled"} \cup Absent
       THEN /\ Goto(w, "returned")
            /\ UNCHANGED mark
       ELSE /\ Goto(w, "mark")
            /\ mark' = [mark EXCEPT ![w] =
                          [target |-> "succeeded", by |-> "final"]]
    /\ UNCHANGED <<job, redis, receipt, scan, again, beat, call, history>>

(* Control after a mark_* call that did not raise. *)
AfterMark(w) == IF mark[w].by = "handler" THEN "post" ELSE "returned"

(* The read and _check_transition of a mark_* call; run_job tests the      *)
(* lease a second time just before mark_succeeded.  A refused transition   *)
(* raises into run_job's except clause, or out of run_job from there.      *)
MarkCheck(w) ==
    LET rec == job[receipt[w].job]
    IN  /\ wpc[w] = "mark"
        /\ \/ /\ mark[w].by = "final" /\ lost[w]
              /\ Goto(w, "returned")
              /\ UNCHANGED mark
           \/ /\ ~(mark[w].by = "final" /\ lost[w])
              /\ ~Exists(rec)
              /\ Goto(w, AfterMark(w))
              /\ UNCHANGED mark
           \/ /\ ~(mark[w].by = "final" /\ lost[w])
              /\ Exists(rec)
              /\ CheckTransition(rec.status, mark[w].target)
              /\ Goto(w, "write")
              /\ UNCHANGED mark
           \/ /\ ~(mark[w].by = "final" /\ lost[w])
              /\ Exists(rec)
              /\ ~CheckTransition(rec.status, mark[w].target)
              /\ Goto(w, IF mark[w].by = "except" THEN "raised" ELSE "mark")
              /\ mark' = [mark EXCEPT ![w] = NoMark]
        /\ UNCHANGED <<job, redis, receipt, scan, again, beat, call, history>>

(* update_job of a mark_* call: the status is not looked at again. *)
MarkWrite(w) ==
    LET j == receipt[w].job
    IN  /\ wpc[w] = "write"
        /\ job' = [job EXCEPT ![j] =
                     IF mark[w].target = "cancelled"
                     THEN SetCancelled(job[j])
                     ELSE SetStatus(job[j], mark[w].target)]
        /\ Goto(w, AfterMark(w))
        /\ UNCHANGED <<redis, receipt, scan, mark, again, beat, call, history>>

(* run_job is over.  heartbeat_stop is set and the thread joined for one   *)
(* second, but its Redis socket may take three: an HSET in flight lands    *)
(* later.  A lost lease is not acknowledged; an exception means retry.     *)
FinishDelivery(w) ==
    /\ wpc[w] \in {"returned", "raised"}
    /\ hb' = [hb EXCEPT ![w] = "off"]
    /\ late' = IF hb[w] = "seen" THEN late \cup {receipt[w]} ELSE late
    /\ IF lost[w]
       THEN GoIdle(w)
       ELSE /\ again' = [again EXCEPT ![w] = (wpc[w] = "raised")]
            /\ Goto(w, "ackRemove")
            /\ UNCHANGED <<receipt, mark>>
    /\ UNCHANGED <<job, queued, processing, leases, stale, scan, lost, call,
                   history>>

(* ack is two commands, LREM and HDEL; retry adds an LPUSH. *)
AckRemove(w) ==
    /\ wpc[w] = "ackRemove"
    /\ processing' = LRem(processing, receipt[w])
    /\ Goto(w, "ackLease")
    /\ UNCHANGED <<job, queued, leases, stale, late, receipt, scan, mark, again,
                   beat, call, history>>

AckLease(w) ==
    /\ wpc[w] = "ackLease"
    /\ HDel(receipt[w])
    /\ IF again[w]
       THEN Goto(w, "push") /\ UNCHANGED <<receipt, mark, again>>
       ELSE GoIdle(w)
    /\ UNCHANGED <<job, queued, processing, late, scan, beat, call, history>>

RetryPush(w) ==
    /\ wpc[w] = "push"
    /\ queued' = Append(queued, Again(receipt[w]))
    /\ GoIdle(w)
    /\ UNCHANGED <<job, processing, leases, stale, late, scan, beat, call,
                   history>>

-----------------------------------------------------------------------------
(* The heartbeat thread: HEXISTS and HSET are two commands. *)

HeartbeatCheck(w) ==
    /\ hb[w] = "wait"
    /\ IF receipt[w] \in leases
       THEN hb' = [hb EXCEPT ![w] = "seen"] /\ UNCHANGED lost
       ELSE /\ hb'   = [hb EXCEPT ![w] = "off"]
            /\ lost' = [lost EXCEPT ![w] = TRUE]
    /\ UNCHANGED <<job, redis, worker, call, history>>

HeartbeatSet(w) ==
    /\ hb[w] = "seen"
    /\ HSet(receipt[w])
    /\ hb' = [hb EXCEPT ![w] = "wait"]
    /\ UNCHANGED <<job, queued, processing, late, worker, lost, call, history>>

(* A Redis error ends the thread; the worker is not told. *)
HeartbeatDies(w) ==
    /\ "redisError" \in Faults
    /\ hb[w] \in {"wait", "seen"}
    /\ hb' = [hb EXCEPT ![w] = "off"]
    /\ UNCHANGED <<job, redis, worker, lost, call, history>>

LateHeartbeat(p) ==
    /\ p \in late
    /\ late' = late \ {p}
    /\ HSet(p)
    /\ UNCHANGED <<job, queued, processing, worker, beat, call, history>>

-----------------------------------------------------------------------------
(* Failures. *)

(* A live thread renews its lease at a third of the lease time, and only   *)
(* the job handler takes long, so without a stall the lease gets old only  *)
(* under a dead worker, or under a handler whose thread is gone; and an    *)
(* HSET in flight lands, or fails, long before.                            *)
Renewed(p) ==
    \/ p \in late
    \/ \E w \in Workers :
          /\ receipt[w] = p
          /\ hb[w] # "off" \/ wpc[w] \notin Executing

LeaseExpires(p) ==
    /\ p \in leases \ stale
    /\ p.attempt < MaxAttempt
    /\ "stall" \in Faults \/ ~Renewed(p)
    /\ stale' = stale \cup {p}
    /\ UNCHANGED <<job, queued, processing, leases, late, worker, beat, call,
                   history>>

(* The process dies and is started again; its thread dies with it. *)
WorkerCrash(w) ==
    /\ "workerCrash" \in Faults
    /\ receipt[w] # NoReceipt
    /\ receipt[w].attempt < MaxAttempt
    /\ GoIdle(w)
    /\ hb'   = [hb EXCEPT ![w] = "off"]
    /\ lost' = [lost EXCEPT ![w] = FALSE]
    /\ UNCHANGED <<job, redis, scan, call, history>>

ClientCrash(c) ==
    /\ "apiCrash" \in Faults
    /\ call[c] # Idle
    /\ call' = [call EXCEPT ![c] = Idle]
    /\ UNCHANGED <<job, redis, worker, beat, history>>

-----------------------------------------------------------------------------
(* API calls.  The read (and every test on it) is one step, the write that *)
(* follows is another: jobs/manager.py holds no lock in between.           *)

CallStep(c, next) == call' = [call EXCEPT ![c] = next]

(* A status write is counted when it puts an existing job in the queue. *)
CountSubmission(j) ==
    submitted' = [submitted EXCEPT ![j] =
                    IF Exists(job[j]) THEN submitted[j] + 1 ELSE submitted[j]]

(* create_job: the id is not published before enqueue_job has read it, so  *)
(* that read finds "created" and is part of this step.                     *)
CreateJob(c, j) ==
    /\ call[c] = Idle
    /\ job[j].status = "unborn"
    /\ job' = [job EXCEPT ![j].status = "created"]
    /\ CallStep(c, [op |-> "enqueueWrite", job |-> j])
    /\ UNCHANGED <<redis, worker, beat, history>>

EnqueueWrite(c) ==
    LET j == call[c].job
    IN  /\ call[c].op = "enqueueWrite"
        /\ job' = [job EXCEPT ![j] = SetStatus(job[j], "queued")]
        /\ CountSubmission(j)
        /\ CallStep(c, [op |-> "push", job |-> j])
        /\ UNCHANGED <<redis, worker, beat, runs>>

(* queue.enqueue: always attempt 1. *)
EnqueuePush(c) ==
    /\ call[c].op = "push"
    /\ queued' = Append(queued, Delivery(call[c].job, 1))
    /\ CallStep(c, Idle)
    /\ UNCHANGED <<job, processing, leases, stale, late, worker, beat, history>>

(* cancel_job looks at the status once and then takes one of two paths. *)
CancelRead(c, j) ==
    /\ call[c] = Idle
    /\ \/ /\ job[j].status = "queued"
          /\ CallStep(c, [op |-> "cancelWrite", job |-> j])
       \/ /\ job[j].status = "running"
          /\ CallStep(c, [op |-> "cancelRequest", job |-> j])
    /\ UNCHANGED <<job, redis, worker, beat, history>>

CancelWrite(c) ==
    LET j == call[c].job
    IN  /\ call[c].op = "cancelWrite"
        /\ job' = [job EXCEPT ![j] = SetStatus(job[j], "cancelled")]
        /\ CallStep(c, Idle)
        /\ UNCHANGED <<redis, worker, beat, history>>

CancelRequest(c) ==
    LET j == call[c].job
    IN  /\ call[c].op = "cancelRequest"
        /\ job' = [job EXCEPT ![j] = SetCancelRequested(job[j])]
        /\ CallStep(c, Idle)
        /\ UNCHANGED <<redis, worker, beat, history>>

(* retry_job(force = FALSE): a queued job passes the test as well. *)
RetryRead(c, j) ==
    /\ call[c] = Idle
    /\ Exists(job[j])
    /\ CheckTransition(job[j].status, "queued")
    /\ job[j].retry_count < MaxRetries
    /\ submitted[j] < MaxSubmissions
    /\ CallStep(c, [op |-> "retryWrite", job |-> j,
                    seen |-> job[j].retry_count])
    /\ UNCHANGED <<job, redis, worker, beat, history>>

RetryWrite(c) ==
    LET j == call[c].job
    IN  /\ call[c].op = "retryWrite"
        /\ job' = [job EXCEPT ![j] = SetRetried(job[j], call[c].seen)]
        /\ CountSubmission(j)
        /\ CallStep(c, [op |-> "push", job |-> j])
        /\ UNCHANGED <<redis, worker, beat, runs>>

(* DELETE /api/jobs/<id>: the route tests the status, then delete_job. *)
DeleteRead(c, j) ==
    /\ call[c] = Idle
    /\ job[j].status \in Terminal
    /\ CallStep(c, [op |-> "deleteWrite", job |-> j])
    /\ UNCHANGED <<job, redis, worker, beat, history>>

DeleteWrite(c) ==
    LET j == call[c].job
    IN  /\ call[c].op = "deleteWrite"
        /\ job' = [job EXCEPT ![j] = [NewRecord EXCEPT !.status = "deleted"]]
        /\ CallStep(c, Idle)
        /\ UNCHANGED <<redis, worker, beat, history>>

(* reconcile_running_jobs of a restarted backend: it reads the file, then  *)
(* writes through update_job.  Workers are other processes and run on.     *)
ReconcileRead(c, j) ==
    /\ "restart" \in Faults
    /\ call[c] = Idle
    /\ job[j].status = "running"
    /\ CallStep(c, [op |-> "reconcileWrite", job |-> j,
                    seen |-> job[j].cancel_requested])
    /\ UNCHANGED <<job, redis, worker, beat, history>>

ReconcileWrite(c) ==
    LET j == call[c].job
    IN  /\ call[c].op = "reconcileWrite"
        /\ job' = [job EXCEPT ![j] = SetReconciled(job[j], call[c].seen)]
        /\ CallStep(c, Idle)
        /\ UNCHANGED <<redis, worker, beat, history>>

-----------------------------------------------------------------------------
PollStep(w) ==
    \/ BeginPoll(w)
    \/ \E p \in scan[w] : ReclaimStale(w, p)
    \/ ClaimDelivery(w)
    \/ NothingQueued(w)
    \/ InspectDelivery(w)

RunStep(w) ==
    \/ ClaimExecution(w)
    \/ ClaimExecutionTimeout(w)
    \/ HandlerEnds(w)
    \/ CheckOutcome(w)
    \/ MarkCheck(w)
    \/ MarkWrite(w)

AckStep(w) ==
    \/ FinishDelivery(w)
    \/ AckRemove(w)
    \/ AckLease(w)
    \/ RetryPush(w)

WorkerStep(w) == PollStep(w) \/ RunStep(w) \/ AckStep(w)

HeartbeatStep(w) == HeartbeatCheck(w) \/ HeartbeatSet(w)

ClientRead(c, j) ==
    \/ CreateJob(c, j)
    \/ CancelRead(c, j)
    \/ RetryRead(c, j)
    \/ DeleteRead(c, j)
    \/ ReconcileRead(c, j)

ClientWrite(c) ==
    \/ EnqueueWrite(c)
    \/ EnqueuePush(c)
    \/ CancelWrite(c)
    \/ CancelRequest(c)
    \/ RetryWrite(c)
    \/ DeleteWrite(c)
    \/ ReconcileWrite(c)

LeaseStep ==
    \/ \E p \in leases : LeaseExpires(p)
    \/ \E p \in late : LateHeartbeat(p)

Next ==
    \/ \E w \in Workers : \/ WorkerStep(w)
                          \/ HeartbeatStep(w)
                          \/ HeartbeatDies(w)
                          \/ WorkerCrash(w)
    \/ \E c \in Clients : \/ \E j \in Jobs : ClientRead(c, j)
                          \/ ClientWrite(c)
                          \/ ClientCrash(c)
    \/ LeaseStep

(* Workers poll forever and handlers end; a call that has begun goes on;   *)
(* the clock runs, so a lease nobody renews does get old.                  *)
Fairness ==
    /\ \A w \in Workers : WF_vars(WorkerStep(w)) /\ WF_vars(HeartbeatStep(w))
    /\ \A c \in Clients : WF_vars(ClientWrite(c))
    /\ WF_vars(LeaseStep)

Spec == Init /\ [][Next]_vars

FairSpec == Spec /\ Fairness

-----------------------------------------------------------------------------
(* Types of the variables, and where a worker is when it holds a delivery  *)
(* and when its heartbeat thread runs.                                     *)
StoreOK ==
    /\ job       \in [Jobs -> JobRecord]
    /\ call      \in [Clients -> Calls]
    /\ submitted \in [Jobs -> Nat]
    /\ runs      \in [Jobs -> Nat]

RedisOK ==
    /\ queued     \in Seq(Payload)
    /\ processing \in Seq(Payload)
    /\ leases     \subseteq Payload
    /\ stale      \subseteq leases
    /\ late       \subseteq Payload

WorkerOK ==
    /\ wpc     \in [Workers -> WorkerPoints]
    /\ receipt \in [Workers -> Payload \cup {NoReceipt}]
    /\ scan    \in [Workers -> SUBSET Payload]
    /\ mark    \in [Workers -> Mark]
    /\ again   \in [Workers -> BOOLEAN]
    /\ hb      \in [Workers -> {"off", "wait", "seen"}]
    /\ lost    \in [Workers -> BOOLEAN]

ControlOK == \A w \in Workers :
    /\ receipt[w] = NoReceipt <=> wpc[w] \in {"idle", "reclaim"}
    /\ hb[w] # "off" => wpc[w] \in {"start", "returned", "raised"}
                                      \cup Executing

TypeOK == StoreOK /\ RedisOK /\ WorkerOK /\ ControlOK

(***************************************************************************)
(* A job's handler is started at most once for each time the job was put   *)
(* in the queue, however often the delivery is repeated: crashes, expired  *)
(* leases, duplicate list entries and lost acks never start it again.      *)
(* (claim_job_for_execution: "Atomically claim one queued job for          *)
(* execution; return None for stale dispatches".)                          *)
(***************************************************************************)
RunsAtMostSubmissions == \A j \in Jobs : runs[j] <= submitted[j]

(* What is needed besides: a job that is waiting still has its turn left. *)
TurnLeft == \A j \in Jobs :
    job[j].status = "queued" => runs[j] < submitted[j]

(* A delivery that will still be acted on: nobody is about to drop it. *)
Pending(j) ==
    \/ \E i \in 1..Len(queued) : queued[i].job = j
    \/ \E c \in Clients : call[c].op = "push" /\ call[c].job = j
    \/ \E p \in leases :
          /\ p.job = j
          /\ ~\E w \in Workers :
                 receipt[w] = p /\ wpc[w] \in {"returned", "ackRemove", "ackLease"}

HeldBy(j, points) ==
    \E w \in Workers : /\ wpc[w] \in points
                       /\ receipt[w].job = j
                       /\ ~lost[w]

(***************************************************************************)
(* No job is forgotten: a queued job has a delivery on its way or a worker *)
(* about to claim it, and a running job has a worker that will record its  *)
(* outcome or a delivery whose redelivery will fence it.                   *)
(***************************************************************************)
NoJobForgotten == \A j \in Jobs :
    /\ job[j].status = "queued" =>
          Pending(j) \/ HeldBy(j, {"claimed", "start", "raised", "push"})
    /\ job[j].status = "running" =>
          Pending(j) \/ HeldBy(j, Executing \cup {"claimed"})

\* A job that is queued or running; whoever asked for it waits until it succeeds,
\* fails, is cancelled or is fenced, also when workers crash on the way.
JobWaits == \E j \in Jobs : job[j].status \in {"queued", "running"}
=============================================================================
