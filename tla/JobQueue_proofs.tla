--------------------------- MODULE JobQueue_proofs ---------------------------
(***************************************************************************)
(* Proofs about JobQueue for any numbers of workers, clients, jobs,        *)
(* retries and attempts, and any set of faults.                            *)
(*                                                                         *)
(* RunsAtMostSubmissions is not inductive: nothing in it forbids a queued  *)
(* job that has used up its submissions.  TurnLeft adds that, and the pair *)
(* is inductive over TypeOK because the only step that starts a handler is *)
(* the compare-and-set from "queued" of claim_job_for_execution.           *)
(*                                                                         *)
(* NoJobForgotten needs more: that an open job has exactly one delivery,   *)
(* who may hold it, and that nobody submits a job twice (OutInv, below).   *)
(***************************************************************************)
EXTENDS JobQueue, SequenceTheorems, Integers, TLAPS

(* Redis LREM and the moves built on it keep a list of deliveries. *)
LEMMA LRemType ==
    ASSUME NEW list \in Seq(Payload), NEW p
    PROVE  LRem(list, p) \in Seq(Payload)
<1>1. CASE \E i \in 1..Len(list) : list[i] = p
  <2> DEFINE i == CHOOSE i \in 1..Len(list) : list[i] = p
             a == SubSeq(list, 1, i - 1)
             b == SubSeq(list, i + 1, Len(list))
  <2>1. LRem(list, p) = a \o b
    BY <1>1, Zenon DEF LRem
  <2>2. i \in 1..Len(list)
    BY <1>1, Zenon
  <2>3. /\ \A k \in 1..(i - 1) : list[k] \in Payload
        /\ \A k \in (i + 1)..Len(list) : list[k] \in Payload
    <3> HIDE DEF i
    <3> QED
      BY <2>2
  <2>4. a \in Seq(Payload) /\ b \in Seq(Payload)
    <3> HIDE DEF i
    <3> QED
      BY <2>2, <2>3, SubSeqProperties
  <2> HIDE DEF a, b
  <2> QED
    BY <2>1, <2>4, ConcatProperties
<1>2. CASE ~\E i \in 1..Len(list) : list[i] = p
  BY <1>2, Zenon DEF LRem
<1> QED
  BY <1>1, <1>2

(* Every write of a record yields a record. *)
LEMMA RecordType ==
    ASSUME NEW rec \in JobRecord
    PROVE  /\ \A t \in Statuses : SetStatus(rec, t) \in JobRecord
           /\ SetCancelled(rec) \in JobRecord
           /\ \A n \in Nat : SetRetried(rec, n) \in JobRecord
           /\ \A b \in BOOLEAN : SetReconciled(rec, b) \in JobRecord
           /\ SetClaimed(rec) \in JobRecord
           /\ SetFenced(rec) \in JobRecord
           /\ SetCancelRequested(rec) \in JobRecord
           /\ rec.status \in Statuses \cup Absent
           /\ rec.retry_count \in Nat
           /\ rec.cancel_requested \in BOOLEAN
<1> USE DEF JobRecord, Exists, Statuses, Absent
<1>1. \A t \in Statuses : SetStatus(rec, t) \in JobRecord
  BY DEF SetStatus
<1>2. SetCancelled(rec) \in JobRecord
  BY DEF SetCancelled
<1>3. \A n \in Nat : SetRetried(rec, n) \in JobRecord
  BY DEF SetRetried
<1>4. \A b \in BOOLEAN : SetReconciled(rec, b) \in JobRecord
  BY DEF SetReconciled
<1>5. SetClaimed(rec) \in JobRecord /\ SetFenced(rec) \in JobRecord
  BY DEF SetClaimed, SetFenced
<1>6. SetCancelRequested(rec) \in JobRecord
  BY DEF SetCancelRequested
<1> QED
  BY <1>1, <1>2, <1>3, <1>4, <1>5, <1>6

LEMMA NewRecordType == [NewRecord EXCEPT !.status = "deleted"] \in JobRecord
BY DEF NewRecord, JobRecord, Statuses, Absent

(* A delivery may be repeated; no delivery is the empty receipt. *)
LEMMA PayloadType ==
    /\ \A p \in Payload : p.job \in Jobs /\ Again(p) \in Payload
    /\ \A j \in Jobs : Delivery(j, 1) \in Payload
    /\ NoReceipt \notin Payload
BY DEF Payload, Again, Delivery, NoReceipt

(* What the steps of an API call carry. *)
LEMMA CallType ==
    ASSUME NEW x \in Calls
    PROVE  /\ x.op # "none" => x.job \in Jobs
           /\ x.op = "retryWrite" => x.seen \in Nat
           /\ x.op = "reconcileWrite" => x.seen \in BOOLEAN
BY DEF Calls, Idle

LEMMA Calling ==
    ASSUME StoreOK, NEW c \in Clients, call[c].op # "none"
    PROVE  /\ call[c].job \in Jobs
           /\ job[call[c].job] \in JobRecord
           /\ call[c].op = "retryWrite" => call[c].seen \in Nat
           /\ call[c].op = "reconcileWrite" => call[c].seen \in BOOLEAN
BY CallType DEF StoreOK

LEMMA CallTypeMake ==
    ASSUME NEW j \in Jobs
    PROVE  /\ Idle \in Calls
           /\ \A op \in {"enqueueWrite", "push", "cancelWrite",
                         "cancelRequest", "deleteWrite"} :
                 [op |-> op, job |-> j] \in Calls
           /\ \A n \in Nat : [op |-> "retryWrite", job |-> j, seen |-> n] \in Calls
           /\ \A b \in BOOLEAN :
                 [op |-> "reconcileWrite", job |-> j, seen |-> b] \in Calls
BY DEF Calls, Idle

LEMMA InitType == Init => TypeOK
<1> SUFFICES ASSUME Init PROVE TypeOK
  OBVIOUS
<1> USE DEF Init
<1>1. StoreOK
  BY DEF StoreOK, NewRecord, JobRecord, Statuses, Absent, Calls, Idle
<1>2. RedisOK
  BY DEF RedisOK
<1>3. WorkerOK
  BY DEF WorkerOK, WorkerPoints, Mark, NoMark, Terminal
<1>4. ControlOK
  BY DEF ControlOK
<1> QED
  BY <1>1, <1>2, <1>3, <1>4 DEF TypeOK

(* A worker past its claim holds a delivery, whose job has a record. *)
LEMMA Holding ==
    ASSUME TypeOK, NEW w \in Workers, wpc[w] \notin {"idle", "reclaim"}
    PROVE  /\ receipt[w] \in Payload
           /\ receipt[w].job \in Jobs
           /\ job[receipt[w].job] \in JobRecord
BY PayloadType DEF TypeOK, WorkerOK, StoreOK, ControlOK

(* Only records, API calls and the two counters: the worker's writes, then the clients'. *)
LEMMA StoreStep ==
    ASSUME TypeOK, Next
    PROVE  StoreOK'
<1> USE DEF TypeOK, StoreOK, CallStep, CountSubmission
<1>1. CASE \E w \in Workers : InspectDelivery(w)
  BY <1>1, Holding, RecordType DEF InspectDelivery, history
<1>2. CASE \E w \in Workers : ClaimExecution(w)
  BY <1>2, Holding, RecordType DEF ClaimExecution
<1>3. CASE \E w \in Workers : MarkWrite(w)
  BY <1>3, Holding, RecordType DEF MarkWrite, Mark, Terminal, Statuses, WorkerOK, history
<1>4. CASE \E c \in Clients, j \in Jobs : CreateJob(c, j)
  <2> PICK c \in Clients, j \in Jobs : CreateJob(c, j)
    BY <1>4
  <2>1. [job[j] EXCEPT !.status = "created"] \in JobRecord
    BY DEF JobRecord, Statuses
  <2>2. job' = [job EXCEPT ![j] = [job[j] EXCEPT !.status = "created"]]
    BY DEF CreateJob
  <2> QED
    BY <2>1, <2>2, CallTypeMake DEF CreateJob, history
<1>5. CASE \E c \in Clients, j \in Jobs : CancelRead(c, j)
  BY <1>5, CallTypeMake DEF CancelRead, history
<1>6. CASE \E c \in Clients, j \in Jobs : RetryRead(c, j)
  <2> PICK c \in Clients, j \in Jobs : RetryRead(c, j)
    BY <1>6
  <2>1. job[j].retry_count \in Nat
    BY RecordType
  <2> QED
    BY <2>1, CallTypeMake DEF RetryRead, history
<1>7. CASE \E c \in Clients, j \in Jobs : DeleteRead(c, j)
  BY <1>7, CallTypeMake DEF DeleteRead, history
<1>8. CASE \E c \in Clients, j \in Jobs : ReconcileRead(c, j)
  <2> PICK c \in Clients, j \in Jobs : ReconcileRead(c, j)
    BY <1>8
  <2>1. job[j].cancel_requested \in BOOLEAN
    BY RecordType
  <2> QED
    BY <2>1, CallTypeMake DEF ReconcileRead, history
<1>9. CASE \E c \in Clients : EnqueueWrite(c)
  <2> PICK c \in Clients : EnqueueWrite(c)
    BY <1>9
  <2>1. SetStatus(job[call[c].job], "queued") \in JobRecord
    BY Calling, RecordType DEF EnqueueWrite, Statuses
  <2>2. job' \in [Jobs -> JobRecord] /\ runs' \in [Jobs -> Nat]
    BY <2>1, Calling DEF EnqueueWrite
  <2>3. submitted' \in [Jobs -> Nat]
    BY Calling DEF EnqueueWrite
  <2>4. call' \in [Clients -> Calls]
    BY Calling, CallTypeMake DEF EnqueueWrite
  <2> QED
    BY <2>2, <2>3, <2>4
<1>10. CASE \E c \in Clients : EnqueuePush(c)
  BY <1>10, CallType, CallTypeMake DEF EnqueuePush, history
<1>11. CASE \E c \in Clients : CancelWrite(c)
  <2> PICK c \in Clients : CancelWrite(c)
    BY <1>11
  <2>1. SetStatus(job[call[c].job], "cancelled") \in JobRecord
    BY Calling, RecordType DEF CancelWrite, Statuses
  <2> QED
    BY <2>1, Calling, CallTypeMake DEF CancelWrite, history
<1>12. CASE \E c \in Clients : CancelRequest(c)
  <2> PICK c \in Clients : CancelRequest(c)
    BY <1>12
  <2>1. SetCancelRequested(job[call[c].job]) \in JobRecord
    BY Calling, RecordType DEF CancelRequest, Statuses
  <2> QED
    BY <2>1, Calling, CallTypeMake DEF CancelRequest, history
<1>13. CASE \E c \in Clients : RetryWrite(c)
  <2> PICK c \in Clients : RetryWrite(c)
    BY <1>13
  <2>1. SetRetried(job[call[c].job], call[c].seen) \in JobRecord
    BY Calling, RecordType DEF RetryWrite, Statuses
  <2>2. job' \in [Jobs -> JobRecord] /\ runs' \in [Jobs -> Nat]
    BY <2>1, Calling DEF RetryWrite
  <2>3. submitted' \in [Jobs -> Nat]
    BY Calling DEF RetryWrite
  <2>4. call' \in [Clients -> Calls]
    BY Calling, CallTypeMake DEF RetryWrite
  <2> QED
    BY <2>2, <2>3, <2>4
<1>14. CASE \E c \in Clients : DeleteWrite(c)
  BY <1>14, CallType, CallTypeMake, NewRecordType DEF DeleteWrite, history
<1>15. CASE \E c \in Clients : ReconcileWrite(c)
  <2> PICK c \in Clients : ReconcileWrite(c)
    BY <1>15
  <2>1. SetReconciled(job[call[c].job], call[c].seen) \in JobRecord
    BY Calling, RecordType DEF ReconcileWrite, Statuses
  <2> QED
    BY <2>1, Calling, CallTypeMake DEF ReconcileWrite, history
<1>16. CASE \E c \in Clients : ClientCrash(c)
  BY <1>16 DEF ClientCrash, Calls, Idle, history
<1>17. CASE UNCHANGED <<job, call, submitted, runs>>
  BY <1>17
<1> QED
  BY <1>1, <1>2, <1>3, <1>4, <1>5, <1>6, <1>7, <1>8, <1>9, <1>10, <1>11,
     <1>12, <1>13, <1>14, <1>15, <1>16, <1>17
  DEF Next, WorkerStep, PollStep, RunStep, AckStep, HeartbeatStep,
      ClientRead, ClientWrite, LeaseStep, BeginPoll, ReclaimStale,
      ClaimDelivery, NothingQueued, ClaimExecutionTimeout,
      HandlerEnds, CheckOutcome, MarkCheck, FinishDelivery, AckRemove,
      AckLease, RetryPush, HeartbeatCheck, HeartbeatSet,
      HeartbeatDies, WorkerCrash, LeaseExpires, LateHeartbeat, redis,
      worker, beat, history

(* The Redis lists and the lease hash. *)
LEMMA RedisStep ==
    ASSUME TypeOK, Next
    PROVE  RedisOK'
<1> USE DEF TypeOK, RedisOK, HSet, HDel
<1>1. CASE \E w \in Workers : \E p \in scan[w] : ReclaimStale(w, p)
  <2> PICK w \in Workers : \E p \in scan[w] : ReclaimStale(w, p)
    BY <1>1
  <2> PICK p \in scan[w] : ReclaimStale(w, p)
    OBVIOUS
  <2>1. CASE p \in stale
    <3>1. LRem(processing, p) \in Seq(Payload)
      BY LRemType
    <3>2. Append(queued, Again(p)) \in Seq(Payload)
      BY <2>1, PayloadType, AppendProperties
    <3> QED
      BY <2>1, <3>1, <3>2 DEF ReclaimStale
  <2>2. CASE p \notin stale
    BY <2>2 DEF ReclaimStale
  <2> QED
    BY <2>1, <2>2
<1>2. CASE \E w \in Workers : ClaimDelivery(w)
  BY <1>2, HeadTailProperties, ConcatProperties DEF ClaimDelivery
<1>3. CASE \E w \in Workers : FinishDelivery(w)
  BY <1>3, Holding DEF FinishDelivery
<1>4. CASE \E w \in Workers : AckRemove(w)
  BY <1>4, Holding, LRemType DEF AckRemove
<1>5. CASE \E w \in Workers : AckLease(w)
  BY <1>5 DEF AckLease
<1>6. CASE \E w \in Workers : RetryPush(w)
  BY <1>6, Holding, PayloadType, AppendProperties DEF RetryPush
<1>7. CASE \E w \in Workers : HeartbeatSet(w)
  BY <1>7, Holding DEF HeartbeatSet, ControlOK, Executing
<1>8. CASE \E c \in Clients : EnqueuePush(c)
  BY <1>8, CallType, PayloadType, AppendProperties DEF EnqueuePush, StoreOK
<1>9. CASE \E p \in leases : LeaseExpires(p)
  BY <1>9 DEF LeaseExpires
<1>10. CASE \E p \in late : LateHeartbeat(p)
  BY <1>10 DEF LateHeartbeat
<1>11. CASE UNCHANGED <<queued, processing, leases, stale, late>>
  BY <1>11
<1> QED
  BY <1>1, <1>2, <1>3, <1>4, <1>5, <1>6, <1>7, <1>8, <1>9, <1>10, <1>11
  DEF Next, WorkerStep, PollStep, RunStep, AckStep, HeartbeatStep,
      ClientRead, ClientWrite, LeaseStep, BeginPoll, NothingQueued,
      InspectDelivery, ClaimExecution, ClaimExecutionTimeout,
      HandlerEnds, CheckOutcome, MarkCheck, MarkWrite, HeartbeatCheck,
      HeartbeatDies, WorkerCrash, CreateJob, CancelRead, RetryRead,
      DeleteRead, ReconcileRead, EnqueueWrite, CancelWrite,
      CancelRequest, RetryWrite, DeleteWrite, ReconcileWrite,
      ClientCrash, redis, worker, beat, history

(* What a worker that leaves _run_once resets. *)
LEMMA IdleType ==
    ASSUME WorkerOK, NEW w \in Workers, GoIdle(w)
    PROVE  /\ wpc'     \in [Workers -> WorkerPoints]
           /\ receipt' \in [Workers -> Payload \cup {NoReceipt}]
           /\ mark'    \in [Workers -> Mark]
           /\ again'   \in [Workers -> BOOLEAN]
BY DEF WorkerOK, GoIdle, Goto, WorkerPoints, Mark, NoMark, Terminal

(* The workers' own variables. *)
LEMMA WorkerStepType ==
    ASSUME TypeOK, Next
    PROVE  WorkerOK'
<1> USE DEF TypeOK, WorkerOK, Goto, GoIdle, WorkerPoints, Mark, NoMark, Terminal
<1>1. CASE \E w \in Workers : BeginPoll(w)
  BY <1>1 DEF BeginPoll, RedisOK, redis, beat, worker
<1>2. CASE \E w \in Workers : \E p \in scan[w] : ReclaimStale(w, p)
  BY <1>2 DEF ReclaimStale, beat, worker
<1>3. CASE \E w \in Workers : ClaimDelivery(w)
  BY <1>3, HeadTailProperties DEF ClaimDelivery, RedisOK, beat, worker
<1>4. CASE \E w \in Workers : NothingQueued(w)
  BY <1>4 DEF NothingQueued, beat, worker
<1>5. CASE \E w \in Workers : InspectDelivery(w)
  BY <1>5 DEF InspectDelivery, beat, worker
<1>6. CASE \E w \in Workers : ClaimExecution(w)
  BY <1>6 DEF ClaimExecution, beat, worker
<1>7. CASE \E w \in Workers : ClaimExecutionTimeout(w)
  BY <1>7 DEF ClaimExecutionTimeout, beat, worker
<1>8. CASE \E w \in Workers : HandlerEnds(w)
  <2> PICK w \in Workers : HandlerEnds(w)
    BY <1>8
  <2>1. mark' \in [Workers -> Mark]
    BY DEF HandlerEnds
  <2>2. wpc' \in [Workers -> WorkerPoints]
    BY DEF HandlerEnds
  <2> QED
    BY <2>1, <2>2 DEF HandlerEnds, beat
<1>9. CASE \E w \in Workers : CheckOutcome(w)
  <2> PICK w \in Workers : CheckOutcome(w)
    BY <1>9
  <2>1. mark' \in [Workers -> Mark]
    BY DEF CheckOutcome
  <2>2. wpc' \in [Workers -> WorkerPoints]
    BY DEF CheckOutcome
  <2> QED
    BY <2>1, <2>2 DEF CheckOutcome, beat
<1>10. CASE \E w \in Workers : MarkCheck(w)
  <2> PICK w \in Workers : MarkCheck(w)
    BY <1>10
  <2>1. mark' \in [Workers -> Mark]
    BY DEF MarkCheck
  <2>2. wpc' \in [Workers -> WorkerPoints]
    BY DEF MarkCheck, AfterMark
  <2> QED
    BY <2>1, <2>2 DEF MarkCheck, beat
<1>11. CASE \E w \in Workers : MarkWrite(w)
  BY <1>11 DEF MarkWrite, AfterMark, beat, worker
<1>12. CASE \E w \in Workers : FinishDelivery(w)
  <2> PICK w \in Workers : FinishDelivery(w)
    BY <1>12
  <2> HIDE DEF GoIdle
  <2>1. CASE lost[w]
    BY <2>1, IdleType DEF FinishDelivery
  <2>2. CASE ~lost[w]
    BY <2>2 DEF FinishDelivery
  <2> QED
    BY <2>1, <2>2
<1>13. CASE \E w \in Workers : AckRemove(w)
  BY <1>13 DEF AckRemove, beat, worker
<1>14. CASE \E w \in Workers : AckLease(w)
  <2> PICK w \in Workers : AckLease(w)
    BY <1>14
  <2> HIDE DEF GoIdle
  <2>1. CASE again[w]
    BY <2>1 DEF AckLease, beat
  <2>2. CASE ~again[w]
    BY <2>2, IdleType DEF AckLease, beat
  <2> QED
    BY <2>1, <2>2
<1>15. CASE \E w \in Workers : RetryPush(w)
  BY <1>15 DEF RetryPush, beat, worker
<1>16. CASE \E w \in Workers : HeartbeatCheck(w)
  BY <1>16 DEF HeartbeatCheck, beat, worker
<1>17. CASE \E w \in Workers : HeartbeatSet(w)
  BY <1>17 DEF HeartbeatSet, beat, worker
<1>18. CASE \E w \in Workers : HeartbeatDies(w)
  BY <1>18 DEF HeartbeatDies, beat, worker
<1>19. CASE \E w \in Workers : WorkerCrash(w)
  BY <1>19 DEF WorkerCrash, beat, worker
<1>20. CASE UNCHANGED <<worker, beat>>
  BY <1>20 DEF worker, beat
<1> QED
  BY <1>1, <1>2, <1>3, <1>4, <1>5, <1>6, <1>7, <1>8, <1>9, <1>10, <1>11,
     <1>12, <1>13, <1>14, <1>15, <1>16, <1>17, <1>18, <1>19, <1>20
  DEF Next, WorkerStep, PollStep, RunStep, AckStep, HeartbeatStep,
      ClientRead, ClientWrite, LeaseStep, CreateJob, CancelRead,
      RetryRead, DeleteRead, ReconcileRead, EnqueueWrite, EnqueuePush,
      CancelWrite, CancelRequest, RetryWrite, DeleteWrite,
      ReconcileWrite, ClientCrash, LeaseExpires, LateHeartbeat, redis,
      worker, beat, history

(* Where a worker holds a delivery and has a heartbeat thread. *)
LEMMA ControlStep ==
    ASSUME TypeOK, Next
    PROVE  ControlOK'
<1> USE DEF TypeOK, ControlOK, WorkerOK, Goto, GoIdle, WorkerPoints, Executing
<1>1. CASE \E w \in Workers : BeginPoll(w)
  BY <1>1, PayloadType DEF BeginPoll, beat, worker
<1>2. CASE \E w \in Workers : \E p \in scan[w] : ReclaimStale(w, p)
  BY <1>2, PayloadType DEF ReclaimStale, beat, worker
<1>3. CASE \E w \in Workers : ClaimDelivery(w)
  BY <1>3, HeadTailProperties, PayloadType DEF ClaimDelivery, RedisOK, beat
<1>4. CASE \E w \in Workers : NothingQueued(w)
  BY <1>4, PayloadType DEF NothingQueued, beat, worker
<1>5. CASE \E w \in Workers : InspectDelivery(w)
  BY <1>5, PayloadType DEF InspectDelivery, beat, worker
<1>6. CASE \E w \in Workers : ClaimExecution(w)
  BY <1>6, PayloadType DEF ClaimExecution, beat, worker
<1>7. CASE \E w \in Workers : ClaimExecutionTimeout(w)
  BY <1>7, PayloadType DEF ClaimExecutionTimeout, beat, worker
<1>8. CASE \E w \in Workers : HandlerEnds(w)
  BY <1>8, PayloadType DEF HandlerEnds, beat, worker
<1>9. CASE \E w \in Workers : CheckOutcome(w)
  BY <1>9, PayloadType DEF CheckOutcome, beat, worker
<1>10. CASE \E w \in Workers : MarkCheck(w)
  BY <1>10, PayloadType DEF MarkCheck, AfterMark, beat, worker
<1>11. CASE \E w \in Workers : MarkWrite(w)
  BY <1>11, PayloadType DEF MarkWrite, AfterMark, beat, worker
<1>12. CASE \E w \in Workers : FinishDelivery(w)
  BY <1>12, PayloadType DEF FinishDelivery, beat, worker
<1>13. CASE \E w \in Workers : AckRemove(w)
  BY <1>13, PayloadType DEF AckRemove, beat, worker
<1>14. CASE \E w \in Workers : AckLease(w)
  BY <1>14, PayloadType DEF AckLease, beat, worker
<1>15. CASE \E w \in Workers : RetryPush(w)
  BY <1>15, PayloadType DEF RetryPush, beat, worker
<1>16. CASE \E w \in Workers : HeartbeatCheck(w)
  BY <1>16, PayloadType DEF HeartbeatCheck, beat, worker
<1>17. CASE \E w \in Workers : HeartbeatSet(w)
  BY <1>17, PayloadType DEF HeartbeatSet, beat, worker
<1>18. CASE \E w \in Workers : HeartbeatDies(w)
  BY <1>18, PayloadType DEF HeartbeatDies, beat, worker
<1>19. CASE \E w \in Workers : WorkerCrash(w)
  BY <1>19, PayloadType DEF WorkerCrash, beat, worker
<1>20. CASE UNCHANGED <<worker, beat>>
  BY <1>20 DEF worker, beat
<1> QED
  BY <1>1, <1>2, <1>3, <1>4, <1>5, <1>6, <1>7, <1>8, <1>9, <1>10, <1>11,
     <1>12, <1>13, <1>14, <1>15, <1>16, <1>17, <1>18, <1>19, <1>20
  DEF Next, WorkerStep, PollStep, RunStep, AckStep, HeartbeatStep,
      ClientRead, ClientWrite, LeaseStep, CreateJob, CancelRead,
      RetryRead, DeleteRead, ReconcileRead, EnqueueWrite, EnqueuePush,
      CancelWrite, CancelRequest, RetryWrite, DeleteWrite,
      ReconcileWrite, ClientCrash, LeaseExpires, LateHeartbeat, redis,
      worker, beat, history

(* JobQueue's variables keep their types. *)
THEOREM TypeCorrect == Spec => []TypeOK
<1>1. TypeOK /\ [Next]_vars => TypeOK'
  <2>1. ASSUME TypeOK, Next PROVE TypeOK'
    BY <2>1, StoreStep, RedisStep, WorkerStepType, ControlStep DEF TypeOK
  <2>2. ASSUME TypeOK, UNCHANGED vars PROVE TypeOK'
    BY <2>2 DEF TypeOK, StoreOK, RedisOK, WorkerOK, ControlOK, vars, redis,
                worker, beat, history
  <2> QED
    BY <2>1, <2>2
<1> QED
  BY <1>1, InitType, PTL DEF Spec

-----------------------------------------------------------------------------
(* No record write except the two submissions makes a job queued. *)
LEMMA NotQueued ==
    ASSUME NEW rec \in JobRecord
    PROVE  /\ \A t \in Statuses \ {"queued"} :
                 SetStatus(rec, t).status = "queued" => rec.status = "queued"
           /\ SetCancelled(rec).status = "queued" => rec.status = "queued"
           /\ \A b \in BOOLEAN :
                 SetReconciled(rec, b).status = "queued" => rec.status = "queued"
           /\ SetClaimed(rec).status # "queued"
           /\ SetFenced(rec).status # "queued"
           /\ SetCancelRequested(rec).status = "queued" => rec.status = "queued"
<1> USE DEF JobRecord, Exists, Statuses, Absent
<1>1. \A t \in Statuses \ {"queued"} :
         SetStatus(rec, t).status = "queued" => rec.status = "queued"
  BY DEF SetStatus
<1>2. SetCancelled(rec).status = "queued" => rec.status = "queued"
  BY DEF SetCancelled
<1>3. \A b \in BOOLEAN :
         SetReconciled(rec, b).status = "queued" => rec.status = "queued"
  BY DEF SetReconciled
<1>4. SetClaimed(rec).status # "queued" /\ SetFenced(rec).status # "queued"
  BY DEF SetClaimed, SetFenced
<1>5. SetCancelRequested(rec).status = "queued" => rec.status = "queued"
  BY DEF SetCancelRequested
<1> QED
  BY <1>1, <1>2, <1>3, <1>4, <1>5

(* A step that counts nothing and queues nothing keeps both invariants. *)
LEMMA QuietStep ==
    ASSUME RunsAtMostSubmissions, TurnLeft, UNCHANGED <<submitted, runs>>,
           \A j \in Jobs : job'[j].status = "queued" => job[j].status = "queued"
    PROVE  (RunsAtMostSubmissions /\ TurnLeft)'
BY DEF RunsAtMostSubmissions, TurnLeft

(* A submission gives the job one more turn. *)
LEMMA SubmissionStep ==
    ASSUME StoreOK, RunsAtMostSubmissions, TurnLeft, NEW j \in Jobs,
           CountSubmission(j), UNCHANGED runs,
           NEW r, job' = [job EXCEPT ![j] = r], ~Exists(job[j]) => r = job[j]
    PROVE  (RunsAtMostSubmissions /\ TurnLeft)'
<1>1. CASE Exists(job[j])
  BY <1>1 DEF StoreOK, RunsAtMostSubmissions, TurnLeft, CountSubmission
<1>2. CASE ~Exists(job[j])
  BY <1>2 DEF StoreOK, RunsAtMostSubmissions, TurnLeft, CountSubmission
<1> QED
  BY <1>1, <1>2

(***************************************************************************)
(* However deliveries are repeated, lost, reclaimed or interleaved with    *)
(* API calls, crashes and restarts, a job's handler runs at most once per  *)
(* submission: claim_job_for_execution is the only way in.                 *)
(***************************************************************************)
THEOREM AtMostOneRunPerSubmission == Spec => []RunsAtMostSubmissions
<1> DEFINE Inv == RunsAtMostSubmissions /\ TurnLeft
<1>1. Init => Inv
  BY DEF Init, RunsAtMostSubmissions, TurnLeft, NewRecord
<1>2. ASSUME TypeOK, Inv, Next PROVE Inv'
  <2> USE <1>2 DEF TypeOK
  <2>1. ASSUME NEW w \in Workers, ClaimExecution(w) PROVE Inv'
    <3>1. CASE Claimable(job[receipt[w].job])
      <4> DEFINE j == receipt[w].job
      <4>1. j \in Jobs /\ job[j] \in JobRecord
        BY <2>1, Holding DEF ClaimExecution
      <4>2. /\ job' = [job EXCEPT ![j] = SetClaimed(job[j])]
            /\ runs' = [runs EXCEPT ![j] = runs[j] + 1]
            /\ submitted' = submitted
            /\ job[j].status = "queued"
        BY <2>1, <3>1 DEF ClaimExecution, Claimable
      <4>3. SetClaimed(job[j]).status # "queued"
        BY <4>1, NotQueued
      <4> HIDE DEF j
      <4> QED
        BY <4>1, <4>2, <4>3 DEF StoreOK, RunsAtMostSubmissions, TurnLeft
    <3>2. CASE ~Claimable(job[receipt[w].job])
      BY <2>1, <3>2, QuietStep DEF ClaimExecution
    <3> QED
      BY <3>1, <3>2
  <2>2. ASSUME NEW w \in Workers, InspectDelivery(w) PROVE Inv'
    <3>1. receipt[w].job \in Jobs /\ job[receipt[w].job] \in JobRecord
      BY <2>2, Holding DEF InspectDelivery
    <3> QED
      BY <2>2, <3>1, NotQueued, QuietStep DEF InspectDelivery, StoreOK, history
  <2>3. ASSUME NEW w \in Workers, MarkWrite(w) PROVE Inv'
    <3> DEFINE j == receipt[w].job
    <3>1. j \in Jobs /\ job[j] \in JobRecord
      BY <2>3, Holding DEF MarkWrite
    <3>2. mark[w].target \in Statuses \ {"queued"}
      BY DEF WorkerOK, Mark, Terminal, Statuses
    <3>3. PICK r : /\ job' = [job EXCEPT ![j] = r]
                   /\ r.status = "queued" => job[j].status = "queued"
      BY <2>3, <3>1, <3>2, NotQueued DEF MarkWrite
    <3> QED
      BY <2>3, <3>1, <3>3, QuietStep DEF MarkWrite, StoreOK, history
  <2>4. ASSUME NEW c \in Clients, EnqueueWrite(c) PROVE Inv'
    <3>1. call[c].job \in Jobs
      BY <2>4, Calling DEF EnqueueWrite
    <3>2. ~Exists(job[call[c].job]) =>
             SetStatus(job[call[c].job], "queued") = job[call[c].job]
      BY DEF SetStatus
    <3> QED
      BY <2>4, <3>1, <3>2, SubmissionStep DEF EnqueueWrite
  <2>5. ASSUME NEW c \in Clients, RetryWrite(c) PROVE Inv'
    <3>1. call[c].job \in Jobs
      BY <2>5, Calling DEF RetryWrite
    <3>2. ~Exists(job[call[c].job]) =>
             SetRetried(job[call[c].job], call[c].seen) = job[call[c].job]
      BY DEF SetRetried
    <3> QED
      BY <2>5, <3>1, <3>2, SubmissionStep DEF RetryWrite
  <2>6. ASSUME NEW c \in Clients,
               \/ CancelWrite(c)
               \/ CancelRequest(c)
               \/ DeleteWrite(c)
               \/ ReconcileWrite(c)
        PROVE  Inv'
    <3> DEFINE j == call[c].job
    <3>1. /\ j \in Jobs
          /\ job[j] \in JobRecord
          /\ call[c].op = "reconcileWrite" => call[c].seen \in BOOLEAN
      BY <2>6, Calling DEF CancelWrite, CancelRequest, DeleteWrite,
                           ReconcileWrite
    <3>2. SetStatus(job[j], "cancelled").status = "queued"
             => job[j].status = "queued"
      BY <3>1, NotQueued DEF Statuses
    <3>3. [NewRecord EXCEPT !.status = "deleted"].status = "deleted"
      BY DEF NewRecord
    <3>4. \E r : /\ job' = [job EXCEPT ![j] = r]
                 /\ r.status = "queued" => job[j].status = "queued"
      <4>1. CASE CancelWrite(c)
        BY <4>1, <3>2 DEF CancelWrite
      <4>2. CASE CancelRequest(c)
        BY <4>2, <3>1, NotQueued DEF CancelRequest
      <4>3. CASE DeleteWrite(c)
        BY <4>3, <3>3 DEF DeleteWrite
      <4>4. CASE ReconcileWrite(c)
        BY <4>4, <3>1, NotQueued DEF ReconcileWrite
      <4> QED
        BY <2>6, <4>1, <4>2, <4>3, <4>4
    <3>5. UNCHANGED <<submitted, runs>>
      BY <2>6 DEF CancelWrite, CancelRequest, DeleteWrite, ReconcileWrite,
                  history
    <3> QED
      BY <3>1, <3>4, <3>5, QuietStep DEF StoreOK
  <2>7. ASSUME NEW c \in Clients, NEW j \in Jobs, CreateJob(c, j) PROVE Inv'
    <3>1. UNCHANGED <<submitted, runs>>
      BY <2>7 DEF CreateJob, history
    <3>2. job' = [job EXCEPT ![j] = [job[j] EXCEPT !.status = "created"]]
      BY <2>7 DEF CreateJob
    <3>3. [job[j] EXCEPT !.status = "created"].status # "queued"
      BY DEF StoreOK, JobRecord
    <3> QED
      BY <3>1, <3>2, <3>3, QuietStep DEF StoreOK
  <2>8. CASE UNCHANGED <<job, submitted, runs>>
    BY <2>8, QuietStep
  <2> QED
    BY <2>1, <2>2, <2>3, <2>4, <2>5, <2>6, <2>7, <2>8
    DEF Next, WorkerStep, PollStep, RunStep, AckStep, HeartbeatStep,
        ClientRead, ClientWrite, LeaseStep, BeginPoll, ReclaimStale,
        ClaimDelivery, NothingQueued, ClaimExecutionTimeout, HandlerEnds,
        CheckOutcome, MarkCheck, FinishDelivery, AckRemove, AckLease,
        RetryPush, HeartbeatCheck, HeartbeatSet, HeartbeatDies, WorkerCrash,
        CancelRead, RetryRead, DeleteRead, ReconcileRead, EnqueuePush,
        ClientCrash, LeaseExpires, LateHeartbeat, history
<1>3. ASSUME Inv, UNCHANGED vars PROVE Inv'
  BY <1>3, QuietStep DEF vars, history
<1> QED
  BY <1>1, <1>2, <1>3, TypeCorrect, PTL DEF Spec

-----------------------------------------------------------------------------
(* No job is forgotten.  While a job is queued or running there is exactly *)
(* one of: a client about to push it, an entry of the list, a lease.  That *)
(* one is never lost, because the only holders of a delivery of such a job *)
(* are the worker that inspects it and the one that runs it, neither of    *)
(* which acknowledges.  A running job is delivered again only with a later *)
(* attempt, and is fenced when it is.                                      *)

Early == {"unborn", "created"}

JobOpen(j) == job[j].status \in {"queued", "running"}

\* Points at which a worker has a delivery and has not asked for its job.
Before == {"claimed", "start"}

Pushing(j) == \E c \in Clients : call[c].op = "push" /\ call[c].job = j

Listed(j) == \E i \in 1 .. Len(queued) : queued[i].job = j

Leased(j) == \E p \in leases : p.job = j

\* A job is submitted by one call, and other calls come after its submission.
CallsInOrder ==
    /\ \A c \in Clients : call[c].op # "none" =>
          /\ call[c].op # "retryWrite"
          /\ call[c].op = "enqueueWrite" => job[call[c].job].status = "created"
          /\ call[c].op # "enqueueWrite" => job[call[c].job].status \notin Early
    /\ \A c, d \in Clients :
          /\ {call[c].op, call[d].op} \subseteq {"enqueueWrite", "push"}
          /\ call[c].job = call[d].job
          => c = d

\* A job that was not submitted has no delivery.
NotYetOut == \A j \in Jobs : job[j].status \in Early =>
    /\ ~Listed(j) /\ ~Leased(j)
    /\ \A p \in late : p.job # j
    /\ \A w \in Workers : receipt[w] # NoReceipt => receipt[w].job # j

OneDelivery == \A j \in Jobs : JobOpen(j) =>
    /\ Pushing(j) \/ Listed(j) \/ Leased(j)
    /\ Pushing(j) => job[j].status = "queued" /\ ~Listed(j) /\ ~Leased(j)
    /\ Listed(j) => ~Leased(j)
    /\ \A i, k \in 1 .. Len(queued) :
          queued[i].job = j /\ queued[k].job = j => i = k
    /\ \A p, q \in leases : p.job = j /\ q.job = j => p = q
    /\ \A p \in late : p.job # j

Redelivered == \A i \in 1 .. Len(queued) :
    job[queued[i].job].status = "running" => queued[i].attempt > 1

\* A worker that holds a delivery of an open job: one that has not asked for the
\* job, or whose heartbeat thread is alive, has a fresh lease.
HolderOK(w) == receipt[w] # NoReceipt /\ JobOpen(receipt[w].job) =>
    /\ wpc[w] \in Before \cup Executing
    /\ wpc[w] # "claimed" => ~lost[w]
    /\ wpc[w] \in Before \/ hb[w] # "off" => receipt[w] \in leases \ stale
    /\ job[receipt[w].job].status = "queued" => wpc[w] \in Before
    /\ job[receipt[w].job].status = "running" =>
          wpc[w] # "start" /\ (wpc[w] = "claimed" => receipt[w].attempt > 1)

Waits(w, j) == receipt[w] # NoReceipt /\ receipt[w].job = j /\ wpc[w] \in Before

OneWaits == \A j \in Jobs : JobOpen(j) =>
    \A v, w \in Workers : Waits(v, j) /\ Waits(w, j) => v = w

OutInv ==
    /\ CallsInOrder /\ NotYetOut /\ OneDelivery /\ Redelivered /\ OneWaits
    /\ \A w \in Workers : HolderOK(w)

\* Statuses that may only be closed.
Closes ==
    \A j \in Jobs :
        \/ job'[j].status = job[j].status
        \/ job[j].status \notin Early /\ job'[j].status \notin Early \cup {"queued", "running"}

\* Calls that are new are not submissions, and nobody leaves a push.
CallsOn ==
    \A c \in Clients :
        \/ call'[c] = call[c]
        \/ call'[c] = Idle /\ call[c].op # "push"
        \/ /\ call'[c].op \notin {"none", "enqueueWrite", "push", "retryWrite"}
           /\ call'[c].job \in Jobs /\ job[call'[c].job].status \notin Early
           /\ call[c].op = "none"

LEMMA CallsOnStep ==
    ASSUME StoreOK, CallsInOrder, Closes, CallsOn
    PROVE  CallsInOrder'
<1>1. ASSUME NEW c \in Clients, (call[c].op # "none")'
      PROVE  /\ call'[c].op # "retryWrite"
             /\ call'[c].op = "enqueueWrite" => job'[call'[c].job].status = "created"
             /\ call'[c].op # "enqueueWrite" => job'[call'[c].job].status \notin Early
  <2>1. CASE call'[c] = call[c]
    <3>1. call[c].op # "none"
      BY <1>1, <2>1
    <3>2. call[c].job \in Jobs
      BY <3>1, Calling
    <3> QED BY <2>1, <3>1, <3>2 DEF CallsInOrder, Closes, Early
  <2>2. CASE call'[c] = Idle
    BY <1>1, <2>2 DEF Idle
  <2>3. CASE /\ call'[c].op \notin {"none", "enqueueWrite", "push", "retryWrite"}
             /\ call'[c].job \in Jobs /\ job[call'[c].job].status \notin Early
    BY <2>3 DEF Closes, Early
  <2> QED BY <2>1, <2>2, <2>3 DEF CallsOn
<1>2. ASSUME NEW c \in Clients, NEW d \in Clients,
             {call'[c].op, call'[d].op} \subseteq {"enqueueWrite", "push"},
             call'[c].job = call'[d].job
      PROVE  c = d
  <2>1. call'[c] = call[c] /\ call'[d] = call[d]
    BY <1>2 DEF CallsOn, Idle
  <2> QED BY <1>2, <2>1 DEF CallsInOrder
<1> QED BY <1>1, <1>2 DEF CallsInOrder

\* What a step that leaves redis alone and only closes jobs preserves.
LEMMA ClosingStep ==
    ASSUME TypeOK, OutInv, Closes, CallsOn, UNCHANGED redis,
           \A w \in Workers : receipt'[w] \in {receipt[w], NoReceipt},
           \A w \in Workers : receipt'[w] # NoReceipt =>
               HolderOK(w)' /\ (wpc'[w] \in Before => wpc[w] \in Before)
    PROVE  OutInv'
<1>1. CallsInOrder'
  BY CallsOnStep DEF TypeOK, OutInv
<1>2. NotYetOut'
  BY DEF OutInv, NotYetOut, Closes, redis, Listed, Leased, Early
<1>3. \A j \in Jobs : JobOpen(j)' => JobOpen(j) /\ job'[j].status = job[j].status
  BY DEF JobOpen, Closes
<1>4. \A j \in Jobs : Pushing(j)' <=> Pushing(j)
  BY DEF CallsOn, Idle, Pushing
<1>5. OneDelivery'
  <2>1. \A j \in Jobs : (Listed(j)' <=> Listed(j)) /\ (Leased(j)' <=> Leased(j))
    BY DEF Listed, Leased, redis
  <2> QED BY <1>3, <1>4, <2>1 DEF OutInv, OneDelivery, redis
<1>6. Redelivered'
  <2>1. \A i \in 1 .. Len(queued) : queued[i].job \in Jobs
    BY PayloadType DEF TypeOK, RedisOK
  <2> QED BY <2>1, <1>3 DEF OutInv, Redelivered, redis, JobOpen
<1>7. OneWaits'
  BY <1>3 DEF OutInv, OneWaits, Waits
<1>8. \A w \in Workers : HolderOK(w)'
  BY DEF HolderOK
<1> QED BY <1>1, <1>2, <1>5, <1>6, <1>7, <1>8 DEF OutInv

\* A holder that is left alone by such a step.
LEMMA HolderStays ==
    ASSUME TypeOK, OutInv, Closes, UNCHANGED redis, NEW w \in Workers,
           receipt'[w] = receipt[w], wpc'[w] = wpc[w], hb'[w] = hb[w], lost'[w] = lost[w]
    PROVE  HolderOK(w)'
<1>1. receipt[w] # NoReceipt => receipt[w].job \in Jobs
  BY PayloadType DEF TypeOK, WorkerOK
<1> QED BY <1>1 DEF OutInv, HolderOK, JobOpen, Closes, redis

\* The steps of worker w that leave the redis structures alone and close at most
\* the job w holds.
LEMMA OwnStep ==
    ASSUME TypeOK, OutInv, Closes, UNCHANGED <<redis, call>>, NEW w \in Workers,
           \A v \in Workers \ {w} : /\ receipt'[v] = receipt[v] /\ wpc'[v] = wpc[v]
                                    /\ hb'[v] = hb[v] /\ lost'[v] = lost[v],
           receipt'[w] \in {receipt[w], NoReceipt},
           receipt'[w] # NoReceipt =>
               HolderOK(w)' /\ (wpc'[w] \in Before => wpc[w] \in Before)
    PROVE  OutInv'
<1>1. \A v \in Workers : v # w => HolderOK(v)'
  BY HolderStays, Zenon
<1>2. CallsOn
  BY DEF CallsOn
<1> QED BY <1>1, <1>2, ClosingStep

LEMMA PollingStep ==
    ASSUME TypeOK, OutInv, NEW w \in Workers, BeginPoll(w) \/ NothingQueued(w)
    PROVE  OutInv'
<1>1. receipt' = receipt /\ hb' = hb /\ lost' = lost /\ job' = job /\ UNCHANGED <<redis, call>>
  BY DEF BeginPoll, NothingQueued, redis, beat
<1>2. receipt[w] = NoReceipt
  BY DEF TypeOK, ControlOK, BeginPoll, NothingQueued
<1>3. \A v \in Workers \ {w} : wpc'[v] = wpc[v]
  BY DEF BeginPoll, NothingQueued, Goto, TypeOK, WorkerOK
<1>4. Closes
  BY <1>1 DEF Closes
<1> QED BY <1>1, <1>2, <1>3, <1>4, OwnStep

\* A holder knows what its job's record is while the job is open.
LEMMA OpenHolder ==
    ASSUME TypeOK, OutInv, NEW w \in Workers, receipt[w] # NoReceipt
    PROVE  /\ receipt[w] \in Payload /\ receipt[w].job \in Jobs
           /\ job[receipt[w].job] \in JobRecord
           /\ job[receipt[w].job].status \notin Early
           /\ wpc[w] \notin Before \cup Executing => ~JobOpen(receipt[w].job)
BY PayloadType DEF TypeOK, WorkerOK, StoreOK, OutInv, NotYetOut, HolderOK

LEMMA InspectStep ==
    ASSUME TypeOK, OutInv, NEW w \in Workers, InspectDelivery(w)
    PROVE  OutInv'
<1> DEFINE own == receipt[w].job
<1>1. receipt[w] # NoReceipt /\ wpc[w] = "claimed"
  BY DEF InspectDelivery, TypeOK, ControlOK
<1>2. own \in Jobs /\ job[own] \in JobRecord /\ job[own].status \notin Early
  BY <1>1, OpenHolder
<1>3. receipt' = receipt /\ UNCHANGED <<redis, call>>
  BY DEF InspectDelivery, redis
<1>4. \A v \in Workers \ {w} : wpc'[v] = wpc[v] /\ hb'[v] = hb[v] /\ lost'[v] = lost[v]
  BY DEF InspectDelivery, Goto, TypeOK, WorkerOK, beat
<1>5. \A v \in Workers \ {w} : receipt'[v] = receipt[v]
  BY <1>3
<1>6. CASE Fenced(job[own], receipt[w].attempt)
  <2>1. job' = [job EXCEPT ![own] = SetFenced(job[own])] /\ wpc'[w] = "ackRemove"
    BY <1>6, <1>1 DEF InspectDelivery, Goto, TypeOK, WorkerOK, Fenced, Exists, Absent
  <2>2. job'[own].status = "failed"
    BY <2>1, <1>2 DEF SetFenced, TypeOK, StoreOK, JobRecord
  <2>3. Closes
    BY <2>1, <2>2, <1>2 DEF Closes, TypeOK, StoreOK, Early
  <2>4. HolderOK(w)'
    BY <2>2, <1>3 DEF HolderOK, JobOpen
  <2> QED BY <1>3, <1>4, <1>5, <2>1, <2>3, <2>4, OwnStep DEF Before
<1>7. CASE ~Exists(job[own])
  <2>1. job' = job /\ wpc'[w] = "ackRemove"
    BY <1>7, <1>1 DEF InspectDelivery, Goto, TypeOK, WorkerOK, Fenced, Exists, Absent
  <2>2. Closes
    BY <2>1 DEF Closes
  <2>3. HolderOK(w)'
    BY <2>1, <1>7, <1>3 DEF HolderOK, JobOpen, Exists, Absent
  <2> QED BY <1>3, <1>4, <1>5, <2>1, <2>2, <2>3, OwnStep DEF Before
<1>8. CASE Exists(job[own]) /\ ~Fenced(job[own], receipt[w].attempt)
  <2>1. job' = job /\ wpc'[w] = "start" /\ lost'[w] = FALSE
    BY <1>8, <1>1 DEF InspectDelivery, Goto, TypeOK, WorkerOK
  <2>2. Closes
    BY <2>1 DEF Closes
  <2>3. JobOpen(own) => job[own].status = "queued" /\ receipt[w] \in leases \ stale
    BY <1>1, <1>8 DEF OutInv, HolderOK, Fenced, JobOpen, Before
  <2>4. HolderOK(w)'
    BY <2>1, <2>3, <1>3 DEF HolderOK, JobOpen, Before, redis
  <2> QED BY <1>1, <1>3, <1>4, <1>5, <2>1, <2>2, <2>4, OwnStep DEF Before
<1> QED BY <1>6, <1>7, <1>8

\* The handler goes on: its job is not queued, and the worker stays inside run_job
\* unless the job is closed.
LEMMA RunningStep ==
    ASSUME TypeOK, OutInv, NEW w \in Workers, wpc[w] \in Executing,
           HandlerEnds(w) \/ CheckOutcome(w) \/ MarkCheck(w)
    PROVE  OutInv'
<1> DEFINE own == receipt[w].job
<1>1. receipt[w] # NoReceipt /\ wpc[w] \notin Before
  BY DEF TypeOK, ControlOK, Executing, Before
<1>2. /\ receipt' = receipt /\ hb' = hb /\ lost' = lost /\ job' = job
      /\ UNCHANGED <<redis, call>>
  BY DEF HandlerEnds, CheckOutcome, MarkCheck, redis, beat
<1>3. \A v \in Workers \ {w} : wpc'[v] = wpc[v]
  BY DEF HandlerEnds, CheckOutcome, MarkCheck, Goto, TypeOK, WorkerOK
<1>4. Closes
  BY <1>2 DEF Closes
<1>5. wpc'[w] \notin Before
  BY DEF HandlerEnds, CheckOutcome, MarkCheck, Goto, TypeOK, WorkerOK, AfterMark, Before
<1>6. JobOpen(own) => ~lost[w] /\ job[own].status = "running"
  BY <1>1 DEF OutInv, HolderOK, Executing, JobOpen
<1>7. JobOpen(own) => wpc'[w] \in Executing
  <2>1. CASE HandlerEnds(w)
    BY <2>1 DEF HandlerEnds, Goto, TypeOK, WorkerOK, Executing
  <2>2. CASE CheckOutcome(w)
    BY <2>2, <1>6 DEF CheckOutcome, Goto, TypeOK, WorkerOK, Executing, Absent
  <2>3. CASE MarkCheck(w)
    <3>1. mark[w].target \in Terminal
      BY DEF TypeOK, WorkerOK, Mark
    <3>2. JobOpen(own) => Exists(job[own]) /\ CheckTransition(job[own].status, mark[w].target)
      BY <1>6, <3>1 DEF Exists, Absent, CheckTransition, AllowedTransitions, Terminal
    <3> QED BY <2>3, <3>2, <1>6 DEF MarkCheck, Goto, TypeOK, WorkerOK, Executing
  <2> QED BY <2>1, <2>2, <2>3
<1>8. HolderOK(w)'
  BY <1>1, <1>2, <1>5, <1>6, <1>7 DEF OutInv, HolderOK, JobOpen, redis, Executing, Before
<1> QED BY <1>2, <1>3, <1>4, <1>5, <1>8, OwnStep

LEMMA MarkingStep ==
    ASSUME TypeOK, OutInv, NEW w \in Workers, MarkWrite(w)
    PROVE  OutInv'
<1> DEFINE own == receipt[w].job
<1>1. receipt[w] # NoReceipt /\ wpc[w] = "write"
  BY DEF TypeOK, ControlOK, MarkWrite
<1>2. own \in Jobs /\ job[own] \in JobRecord /\ job[own].status \notin Early
  BY <1>1, OpenHolder
<1>3. /\ receipt' = receipt /\ hb' = hb /\ lost' = lost /\ UNCHANGED <<redis, call>>
  BY DEF MarkWrite, redis, beat
<1>4. (\A v \in Workers \ {w} : wpc'[v] = wpc[v]) /\ wpc'[w] \in {"post", "returned"}
  BY DEF MarkWrite, Goto, TypeOK, WorkerOK, AfterMark
<1>5. mark[w].target \in Terminal
  BY DEF TypeOK, WorkerOK, Mark
<1>6. PICK r : /\ job' = [job EXCEPT ![own] = r]
               /\ r = IF mark[w].target = "cancelled" THEN SetCancelled(job[own])
                      ELSE SetStatus(job[own], mark[w].target)
  BY DEF MarkWrite
<1>7. IF Exists(job[own]) THEN r.status \in Terminal ELSE r = job[own]
  BY <1>2, <1>5, <1>6 DEF SetCancelled, SetStatus, JobRecord, Terminal
<1>8. job'[own] = r /\ \A j \in Jobs \ {own} : job'[j] = job[j]
  BY <1>2, <1>6 DEF TypeOK, StoreOK
<1>9. Closes
  BY <1>2, <1>7, <1>8 DEF Closes, Terminal, Early
<1>10. ~JobOpen(own)'
  BY <1>3, <1>7, <1>8 DEF JobOpen, Terminal, Exists, Absent
<1>11. HolderOK(w)'
  BY <1>3, <1>10 DEF HolderOK
<1> QED BY <1>3, <1>4, <1>9, <1>11, OwnStep DEF Before

\* An entry that is appended to the list.
LEMMA AppendedEntry ==
    ASSUME RedisOK, NEW x \in Payload, queued' = Append(queued, x)
    PROVE  /\ Len(queued) \in Nat /\ Len(queued') = Len(queued) + 1
           /\ \A i \in 1 .. Len(queued) : queued'[i] = queued[i]
           /\ queued'[Len(queued) + 1] = x
BY DEF RedisOK

LEMMA AppendedListed ==
    ASSUME RedisOK, NEW x \in Payload, queued' = Append(queued, x)
    PROVE  \A j : Listed(j)' <=> (Listed(j) \/ x.job = j)
<1>1. /\ Len(queued) \in Nat /\ Len(queued') = Len(queued) + 1
      /\ \A i \in 1 .. Len(queued) : queued'[i] = queued[i]
      /\ queued'[Len(queued) + 1] = x
  BY AppendedEntry
<1> TAKE j
<1>2. ASSUME Listed(j) PROVE Listed(j)'
  <2> PICK i \in 1 .. Len(queued) : queued[i].job = j
    BY <1>2 DEF Listed
  <2> QED BY <1>1 DEF Listed
<1>3. ASSUME x.job = j PROVE Listed(j)'
  <2> Len(queued) + 1 \in 1 .. Len(queued')
    BY <1>1
  <2> QED BY <1>1, <1>3 DEF Listed
<1>4. ASSUME Listed(j)' PROVE Listed(j) \/ x.job = j
  <2> PICK i \in 1 .. Len(queued') : queued'[i].job = j
    BY <1>4 DEF Listed
  <2>1. i \in 1 .. Len(queued) \/ i = Len(queued) + 1
    BY <1>1
  <2> QED BY <1>1, <2>1 DEF Listed
<1> QED BY <1>2, <1>3, <1>4

\* The list after an entry for a job that is not open, or was not listed.
LEMMA AppendedOnce ==
    ASSUME RedisOK, NEW x \in Payload, queued' = Append(queued, x), NEW j,
           \A i, k \in 1 .. Len(queued) :
               queued[i].job = j /\ queued[k].job = j => i = k,
           x.job # j \/ ~Listed(j)
    PROVE  \A i, k \in 1 .. Len(queued') :
               queued'[i].job = j /\ queued'[k].job = j => i = k
<1>1. /\ Len(queued) \in Nat /\ Len(queued') = Len(queued) + 1
      /\ \A i \in 1 .. Len(queued) : queued'[i] = queued[i]
      /\ queued'[Len(queued) + 1] = x
  BY AppendedEntry
<1> SUFFICES ASSUME NEW i \in 1 .. Len(queued'), NEW k \in 1 .. Len(queued'),
                    queued'[i].job = j, queued'[k].job = j
             PROVE  i = k
  OBVIOUS
<1>2. i \in 1 .. Len(queued) \/ i = Len(queued) + 1
  BY <1>1
<1>3. k \in 1 .. Len(queued) \/ k = Len(queued) + 1
  BY <1>1
<1>4. CASE x.job # j
  <2>1. i \in 1 .. Len(queued) /\ k \in 1 .. Len(queued)
    BY <1>1, <1>2, <1>3, <1>4
  <2> QED BY <1>1, <2>1
<1>5. CASE ~Listed(j)
  <2>1. i \notin 1 .. Len(queued) /\ k \notin 1 .. Len(queued)
    BY <1>1, <1>5 DEF Listed
  <2> QED BY <1>2, <1>3, <2>1
<1> QED BY <1>4, <1>5

\* Steps about a delivery whose job is submitted and closed.
LEMMA StrayStep ==
    ASSUME TypeOK, OutInv, UNCHANGED <<job, call>>, NEW stray \in Payload,
           job[stray.job].status \notin Early, ~JobOpen(stray.job),
           leases' \ {stray} = leases \ {stray},
           stale' \ {stray} = stale \ {stray},
           late' \ {stray} = late \ {stray},
           queued' = queued
           \/ \E x \in Payload : x.job = stray.job /\ queued' = Append(queued, x),
           \A v \in Workers :
              \/ /\ receipt'[v] = receipt[v] /\ wpc'[v] = wpc[v]
                 /\ hb'[v] = hb[v] /\ lost'[v] = lost[v]
              \/ /\ receipt[v] # NoReceipt /\ receipt[v].job = stray.job
                 /\ receipt'[v] \in {receipt[v], NoReceipt}
    PROVE  OutInv'
<1>1. CallsInOrder'
  BY DEF OutInv, CallsInOrder
<1>2. \A j \in Jobs : (JobOpen(j)' <=> JobOpen(j)) /\ (Pushing(j)' <=> Pushing(j))
  BY DEF JobOpen, Pushing
<1>3. \A p : p # stray => /\ p \in leases' <=> p \in leases
                          /\ p \in stale' <=> p \in stale
                          /\ p \in late' <=> p \in late
  <2> TAKE p
  <2> HAVE p # stray
  <2>1. p \in leases' <=> p \in leases' \ {stray}
    OBVIOUS
  <2>2. p \in leases <=> p \in leases \ {stray}
    OBVIOUS
  <2>3. p \in stale' <=> p \in stale' \ {stray}
    OBVIOUS
  <2>4. p \in stale <=> p \in stale \ {stray}
    OBVIOUS
  <2>5. p \in late' <=> p \in late' \ {stray}
    OBVIOUS
  <2>6. p \in late <=> p \in late \ {stray}
    OBVIOUS
  <2> QED BY <2>1, <2>2, <2>3, <2>4, <2>5, <2>6
<1>4. \A j \in Jobs : j # stray.job => (Leased(j)' <=> Leased(j))
  BY <1>3 DEF Leased
<1>5. \A j \in Jobs : j # stray.job => (Listed(j)' <=> Listed(j))
  BY AppendedListed DEF Listed, TypeOK
<1>6. \A j \in Jobs : j # stray.job => \A p \in late' : p.job = j => p \in late
  BY <1>3
<1>7. NotYetOut'
  <2> SUFFICES ASSUME NEW j \in Jobs, job[j].status \in Early
               PROVE  /\ ~Listed(j)' /\ ~Leased(j)'
                      /\ \A p \in late' : p.job # j
                      /\ \A w \in Workers : receipt'[w] # NoReceipt => receipt'[w].job # j
    BY DEF NotYetOut
  <2>1. j # stray.job
    OBVIOUS
  <2>2. \A w \in Workers : receipt'[w] # NoReceipt => receipt'[w] = receipt[w]
    OBVIOUS
  <2>3. /\ ~Listed(j) /\ ~Leased(j) /\ \A p \in late : p.job # j
        /\ \A w \in Workers : receipt[w] # NoReceipt => receipt[w].job # j
    BY DEF OutInv, NotYetOut
  <2>4. \A w \in Workers : receipt'[w] # NoReceipt => receipt'[w].job # j
    BY <2>2, <2>3
  <2> QED BY <1>4, <1>5, <1>6, <2>1, <2>3, <2>4
<1>8. OneDelivery'
  <2> SUFFICES ASSUME NEW j \in Jobs, JobOpen(j)
               PROVE  /\ Pushing(j)' \/ Listed(j)' \/ Leased(j)'
                      /\ Pushing(j)' => job[j].status = "queued" /\ ~Listed(j)' /\ ~Leased(j)'
                      /\ Listed(j)' => ~Leased(j)'
                      /\ \A i, k \in 1 .. Len(queued') :
                            queued'[i].job = j /\ queued'[k].job = j => i = k
                      /\ \A p, q \in leases' : p.job = j /\ q.job = j => p = q
                      /\ \A p \in late' : p.job # j
    BY <1>2 DEF OneDelivery
  <2>1. j # stray.job
    OBVIOUS
  <2>2. /\ Pushing(j) \/ Listed(j) \/ Leased(j)
        /\ Pushing(j) => job[j].status = "queued" /\ ~Listed(j) /\ ~Leased(j)
        /\ Listed(j) => ~Leased(j)
        /\ \A i, k \in 1 .. Len(queued) :
              queued[i].job = j /\ queued[k].job = j => i = k
        /\ \A p, q \in leases : p.job = j /\ q.job = j => p = q
        /\ \A p \in late : p.job # j
    BY DEF OutInv, OneDelivery
  <2>3. \A i, k \in 1 .. Len(queued') :
            queued'[i].job = j /\ queued'[k].job = j => i = k
    <3>1. CASE queued' = queued
      BY <3>1, <2>2
    <3>2. ASSUME NEW x \in Payload, x.job = stray.job, queued' = Append(queued, x)
          PROVE  \A i, k \in 1 .. Len(queued') :
                     queued'[i].job = j /\ queued'[k].job = j => i = k
      BY <3>2, <2>1, <2>2, AppendedOnce DEF TypeOK
    <3> QED BY <3>1, <3>2
  <2>4. \A p, q \in leases' : p.job = j /\ q.job = j => p = q
    BY <1>3, <2>1, <2>2
  <2> QED BY <1>2, <1>4, <1>5, <1>6, <2>1, <2>2, <2>3, <2>4
<1>9. Redelivered'
  <2>1. CASE queued' = queued
    BY <2>1 DEF OutInv, Redelivered
  <2>2. ASSUME NEW x \in Payload, x.job = stray.job, queued' = Append(queued, x)
        PROVE  Redelivered'
    <3>1. \A i \in 1 .. Len(queued') : i \in 1 .. Len(queued) \/ queued'[i] = x
      BY <2>2, AppendedEntry DEF TypeOK
    <3>2. \A i \in 1 .. Len(queued) : queued'[i] = queued[i]
      BY <2>2, AppendedEntry DEF TypeOK
    <3> QED BY <2>2, <3>1, <3>2 DEF OutInv, Redelivered, JobOpen
  <2> QED BY <2>1, <2>2
<1>10. OneWaits'
  BY <1>2 DEF OutInv, OneWaits, Waits
<1>11. \A v \in Workers : HolderOK(v)'
  <2> SUFFICES ASSUME NEW v \in Workers, (receipt[v] # NoReceipt)', JobOpen(receipt[v].job)'
               PROVE  HolderOK(v)'
    BY DEF HolderOK
  <2>1. receipt'[v] = receipt[v] /\ receipt[v].job \in Jobs
    BY PayloadType DEF TypeOK, WorkerOK
  <2>2. receipt[v].job # stray.job /\ receipt[v] # stray
    BY <2>1 DEF JobOpen
  <2>3. wpc'[v] = wpc[v] /\ hb'[v] = hb[v] /\ lost'[v] = lost[v]
    BY <2>2
  <2>4. receipt[v] \in leases' \ stale' <=> receipt[v] \in leases \ stale
    BY <1>3, <2>2
  <2> QED BY <1>2, <2>1, <2>3, <2>4 DEF OutInv, HolderOK, JobOpen
<1> QED BY <1>1, <1>7, <1>8, <1>9, <1>10, <1>11 DEF OutInv

\* The acknowledgement, and what a heartbeat thread leaves behind.
LEMMA AckStepKeeps ==
    ASSUME TypeOK, OutInv, NEW w \in Workers,
           FinishDelivery(w) \/ AckRemove(w) \/ AckLease(w) \/ RetryPush(w)
    PROVE  OutInv'
<1>1. receipt[w] # NoReceipt /\ wpc[w] \notin Before \cup Executing
  BY DEF TypeOK, ControlOK, FinishDelivery, AckRemove, AckLease, RetryPush, Before, Executing
<1>2. PICK own \in Payload : own = receipt[w]
  BY <1>1, OpenHolder
<1>3. job[own.job].status \notin Early /\ ~JobOpen(own.job)
  BY <1>1, <1>2, OpenHolder
<1>4. job' = job /\ call' = call
  BY DEF FinishDelivery, AckRemove, AckLease, RetryPush, history
<1>5. /\ leases' \ {own} = leases \ {own} /\ stale' \ {own} = stale \ {own}
      /\ late' \ {own} = late \ {own}
  BY <1>2 DEF FinishDelivery, AckRemove, AckLease, RetryPush, HDel
<1>6. \/ queued' = queued
      \/ \E x \in Payload : x.job = own.job /\ queued' = Append(queued, x)
  <2>1. Again(own) \in Payload /\ Again(own).job = own.job
    BY PayloadType DEF Again, Payload
  <2> QED BY <2>1, <1>2 DEF FinishDelivery, AckRemove, AckLease, RetryPush
<1>7. \A v \in Workers \ {w} : /\ receipt'[v] = receipt[v] /\ wpc'[v] = wpc[v]
                               /\ hb'[v] = hb[v] /\ lost'[v] = lost[v]
  BY DEF FinishDelivery, AckRemove, AckLease, RetryPush, GoIdle, Goto, TypeOK, WorkerOK, beat
<1>8. receipt'[w] \in {receipt[w], NoReceipt}
  BY DEF FinishDelivery, AckRemove, AckLease, RetryPush, GoIdle, TypeOK, WorkerOK
<1> QED BY <1>1, <1>2, <1>3, <1>4, <1>5, <1>6, <1>7, <1>8, StrayStep

LEMMA BeatStep ==
    ASSUME TypeOK, OutInv, NEW w \in Workers, HeartbeatStep(w) \/ HeartbeatDies(w)
    PROVE  OutInv'
<1>1. receipt[w] # NoReceipt /\ hb[w] # "off" /\ wpc[w] # "claimed"
  BY DEF TypeOK, ControlOK, HeartbeatStep, HeartbeatCheck, HeartbeatSet, HeartbeatDies, Executing
<1>2. PICK own \in Payload : own = receipt[w]
  BY <1>1, OpenHolder
<1>3. job' = job /\ call' = call /\ receipt' = receipt /\ wpc' = wpc
  BY DEF HeartbeatStep, HeartbeatCheck, HeartbeatSet, HeartbeatDies, worker, history
<1>4. \A v \in Workers \ {w} : hb'[v] = hb[v] /\ lost'[v] = lost[v]
  BY DEF HeartbeatStep, HeartbeatCheck, HeartbeatSet, HeartbeatDies, TypeOK, WorkerOK
<1>5. CASE ~JobOpen(own.job)
  <2>1. job[own.job].status \notin Early
    BY <1>1, <1>2, OpenHolder
  <2>2. /\ leases' \ {own} = leases \ {own} /\ stale' \ {own} = stale \ {own}
        /\ late' = late /\ queued' = queued
    BY <1>2 DEF HeartbeatStep, HeartbeatCheck, HeartbeatSet, HeartbeatDies, HSet, redis
  <2> QED BY <1>1, <1>2, <1>3, <1>4, <1>5, <2>1, <2>2, StrayStep
<1>6. CASE JobOpen(own.job)
  <2>1. receipt[w] \in leases \ stale /\ ~lost[w]
    BY <1>1, <1>2, <1>6 DEF OutInv, HolderOK
  <2>2. /\ leases' = leases /\ stale' = stale /\ UNCHANGED <<queued, processing, late>>
        /\ lost'[w] = FALSE
    BY <2>1 DEF HeartbeatStep, HeartbeatCheck, HeartbeatSet, HeartbeatDies, HSet, redis,
                TypeOK, WorkerOK
  <2>3. Closes
    BY <1>3 DEF Closes
  <2>4. HolderOK(w)'
    BY <1>1, <1>2, <1>3, <1>6, <2>1, <2>2 DEF OutInv, HolderOK, JobOpen
  <2> QED BY <1>3, <1>4, <2>2, <2>3, <2>4, OwnStep DEF redis
<1> QED BY <1>5, <1>6

LEMMA CrashStep ==
    ASSUME TypeOK, OutInv, NEW w \in Workers, WorkerCrash(w)
    PROVE  OutInv'
<1>1. job' = job /\ UNCHANGED <<redis, call>>
  BY DEF WorkerCrash
<1>2. \A v \in Workers \ {w} : /\ receipt'[v] = receipt[v] /\ wpc'[v] = wpc[v]
                               /\ hb'[v] = hb[v] /\ lost'[v] = lost[v]
  BY DEF WorkerCrash, GoIdle, Goto, TypeOK, WorkerOK
<1>3. receipt'[w] = NoReceipt
  BY DEF WorkerCrash, GoIdle, TypeOK, WorkerOK
<1>4. Closes
  BY <1>1 DEF Closes
<1> QED BY <1>1, <1>2, <1>3, <1>4, OwnStep

LEMMA LateStep ==
    ASSUME TypeOK, OutInv, NEW p \in late, LateHeartbeat(p)
    PROVE  OutInv'
<1>1. p \in Payload /\ p.job \in Jobs
  BY PayloadType DEF TypeOK, RedisOK
<1>2. job[p.job].status \notin Early /\ ~JobOpen(p.job)
  BY <1>1 DEF OutInv, NotYetOut, OneDelivery
<1>3. /\ leases' \ {p} = leases \ {p} /\ stale' \ {p} = stale \ {p}
      /\ late' \ {p} = late \ {p} /\ UNCHANGED <<queued, job, call, receipt, wpc, hb, lost>>
  BY DEF LateHeartbeat, HSet, worker, beat
<1> QED BY <1>1, <1>2, <1>3, StrayStep

\* A lease gets old only when nobody renews it.
LEMMA ExpiryStep ==
    ASSUME TypeOK, OutInv, "stall" \notin Faults, NEW p \in leases, LeaseExpires(p)
    PROVE  OutInv'
<1>1. /\ stale' = stale \cup {p}
      /\ UNCHANGED <<job, queued, leases, late, call, receipt, wpc, hb, lost>>
  BY DEF LeaseExpires, worker, beat
<1>2. \A v \in Workers : receipt[v] = p => hb[v] = "off" /\ wpc[v] \in Executing
  BY DEF LeaseExpires, Renewed
<1>3. \A v \in Workers : HolderOK(v)'
  BY <1>1, <1>2 DEF OutInv, HolderOK, JobOpen, Before, Executing
<1>4. (CallsInOrder /\ NotYetOut /\ OneDelivery /\ Redelivered /\ OneWaits)'
  BY <1>1 DEF OutInv, CallsInOrder, NotYetOut, OneDelivery, Redelivered, OneWaits, Waits,
              Pushing, Listed, Leased, JobOpen
<1> QED BY <1>3, <1>4 DEF OutInv

\* A stale lease goes back to the list as the next attempt.
LEMMA ReclaimStep ==
    ASSUME TypeOK, OutInv, NEW w \in Workers, NEW p \in scan[w], ReclaimStale(w, p)
    PROVE  OutInv'
<1>1. UNCHANGED <<job, call, late, receipt, wpc, hb, lost>>
  BY DEF ReclaimStale, beat
<1>2. CASE p \notin stale
  <2>1. UNCHANGED <<queued, leases, stale>>
    BY <1>2 DEF ReclaimStale
  <2> QED BY <1>1, <2>1 DEF OutInv, CallsInOrder, NotYetOut, OneDelivery, Redelivered, OneWaits,
                            Waits, Pushing, Listed, Leased, JobOpen, HolderOK
<1>3. CASE p \in stale
  <2>1. /\ p \in leases /\ p \in Payload /\ p.job \in Jobs
        /\ Again(p) \in Payload /\ Again(p).job = p.job /\ Again(p).attempt > 1
    BY <1>3, PayloadType DEF TypeOK, RedisOK, Payload, Again
  <2>2. /\ leases' = leases \ {p} /\ stale' = stale \ {p}
        /\ queued' = Append(queued, Again(p))
    BY <1>3 DEF ReclaimStale, HDel
  <2>3. job[p.job].status \notin Early
    BY <2>1 DEF OutInv, NotYetOut, Leased
  <2>4. CASE ~JobOpen(p.job)
    <3>1. leases' \ {p} = leases \ {p} /\ stale' \ {p} = stale \ {p}
      BY <2>2
    <3> QED BY <1>1, <2>1, <2>2, <2>3, <2>4, <3>1, StrayStep
  <2>5. CASE JobOpen(p.job)
    <3> DEFINE own == p.job
    <3>1. /\ Leased(own) /\ ~Pushing(own) /\ ~Listed(own)
          /\ \A q \in leases : q.job = own => q = p
      BY <2>1, <2>5 DEF OutInv, OneDelivery, Leased
    <3>2. ~Leased(own)'
      BY <2>2, <3>1 DEF Leased
    <3>3. \A j \in Jobs : Listed(j)' <=> (Listed(j) \/ j = own)
      BY <2>1, <2>2, AppendedListed DEF TypeOK
    <3>4. \A j \in Jobs : j # own => (Leased(j)' <=> Leased(j))
      BY <2>2 DEF Leased
    <3>5. \A j \in Jobs : (JobOpen(j)' <=> JobOpen(j)) /\ (Pushing(j)' <=> Pushing(j))
      BY <1>1 DEF JobOpen, Pushing
    <3>6. CallsInOrder'
      BY <1>1 DEF OutInv, CallsInOrder
    <3>7. NotYetOut'
      BY <1>1, <2>3, <3>3, <3>4 DEF OutInv, NotYetOut
    <3>8. OneDelivery'
      <4> SUFFICES ASSUME NEW j \in Jobs, JobOpen(j)
                   PROVE  /\ Pushing(j)' \/ Listed(j)' \/ Leased(j)'
                          /\ Pushing(j)' => job'[j].status = "queued" /\ ~Listed(j)' /\ ~Leased(j)'
                          /\ Listed(j)' => ~Leased(j)'
                          /\ \A i, k \in 1 .. Len(queued') :
                                queued'[i].job = j /\ queued'[k].job = j => i = k
                          /\ \A x, y \in leases' : x.job = j /\ y.job = j => x = y
                          /\ \A x \in late' : x.job # j
        BY <3>5 DEF OneDelivery
      <4>1. /\ Pushing(j) \/ Listed(j) \/ Leased(j)
            /\ Pushing(j) => job[j].status = "queued" /\ ~Listed(j) /\ ~Leased(j)
            /\ Listed(j) => ~Leased(j)
            /\ \A i, k \in 1 .. Len(queued) :
                  queued[i].job = j /\ queued[k].job = j => i = k
            /\ \A x, y \in leases : x.job = j /\ y.job = j => x = y
            /\ \A x \in late : x.job # j
        BY DEF OutInv, OneDelivery
      <4>2. \A i, k \in 1 .. Len(queued') :
                queued'[i].job = j /\ queued'[k].job = j => i = k
        BY <2>1, <2>2, <3>1, <4>1, AppendedOnce DEF TypeOK
      <4>3. \A x, y \in leases' : x.job = j /\ y.job = j => x = y
        BY <2>2, <4>1
      <4> QED BY <1>1, <3>1, <3>2, <3>3, <3>4, <3>5, <4>1, <4>2, <4>3
    <3>9. Redelivered'
      <4>1. \A i \in 1 .. Len(queued') : i \in 1 .. Len(queued) \/ queued'[i] = Again(p)
        BY <2>1, <2>2, AppendedEntry DEF TypeOK
      <4>2. \A i \in 1 .. Len(queued) : queued'[i] = queued[i]
        BY <2>1, <2>2, AppendedEntry DEF TypeOK
      <4> QED BY <1>1, <2>1, <4>1, <4>2 DEF OutInv, Redelivered
    <3>10. OneWaits'
      BY <1>1 DEF OutInv, OneWaits, Waits, JobOpen
    <3>11. \A v \in Workers : HolderOK(v)'
      BY <1>1, <1>3, <2>2 DEF OutInv, HolderOK, JobOpen
    <3> QED BY <3>6, <3>7, <3>8, <3>9, <3>10, <3>11 DEF OutInv
  <2> QED BY <2>4, <2>5
<1> QED BY <1>2, <1>3

\* The list without its head.
LEMMA TakenEntry ==
    ASSUME RedisOK, queued # << >>, queued' = Tail(queued)
    PROVE  /\ Len(queued) \in Nat /\ Len(queued) > 0 /\ queued[1] \in Payload
           /\ Len(queued') = Len(queued) - 1
           /\ \A i \in 1 .. Len(queued') : queued'[i] = queued[i + 1]
           /\ Head(queued) = queued[1]
BY DEF RedisOK

LEMMA ClaimStep ==
    ASSUME TypeOK, OutInv, NEW w \in Workers, ClaimDelivery(w)
    PROVE  OutInv'
<1>1. queued # << >> /\ queued' = Tail(queued)
  BY DEF ClaimDelivery
<1>2. PICK p \in Payload : p = Head(queued)
  BY <1>1, TakenEntry DEF TypeOK
<1>3. /\ Len(queued) \in Nat /\ Len(queued) > 0 /\ queued[1] = p
      /\ Len(queued') = Len(queued) - 1
      /\ \A i \in 1 .. Len(queued') : queued'[i] = queued[i + 1]
  BY <1>1, <1>2, TakenEntry DEF TypeOK
<1>4. p.job \in Jobs
  BY PayloadType
<1>5. /\ leases' = leases \cup {p} /\ stale' = stale \ {p}
      /\ UNCHANGED <<job, call, late, hb, lost>>
  BY <1>2 DEF ClaimDelivery, HSet, beat
<1>6. receipt'[w] = p /\ wpc'[w] = "claimed"
  BY <1>2 DEF ClaimDelivery, Goto, TypeOK, WorkerOK
<1>7. \A v \in Workers \ {w} : receipt'[v] = receipt[v] /\ wpc'[v] = wpc[v]
  BY DEF ClaimDelivery, Goto, TypeOK, WorkerOK
<1>8. receipt[w] = NoReceipt /\ hb[w] = "off"
  BY DEF ClaimDelivery, TypeOK, ControlOK, WorkerOK, Executing
<1> DEFINE own == p.job
<1>9. Listed(own)
  BY <1>3 DEF Listed
<1>10. job[own].status \notin Early
  BY <1>4, <1>9 DEF OutInv, NotYetOut
<1>11. JobOpen(own) => ~Pushing(own) /\ ~Leased(own)
  BY <1>4, <1>9 DEF OutInv, OneDelivery
<1>12. JobOpen(own) => ~Listed(own)'
  <2> SUFFICES ASSUME JobOpen(own), NEW i \in 1 .. Len(queued'), queued'[i].job = own
               PROVE  FALSE
    BY DEF Listed
  <2>1. /\ i + 1 \in 1 .. Len(queued) /\ 1 \in 1 .. Len(queued) /\ i + 1 # 1
        /\ queued[i + 1].job = own
    BY <1>3
  <2>2. \A h, k \in 1 .. Len(queued) : queued[h].job = own /\ queued[k].job = own => h = k
    BY <1>4 DEF OutInv, OneDelivery
  <2> QED BY <1>3, <2>1, <2>2
<1>13. \A j \in Jobs : j # own => (Listed(j)' <=> Listed(j))
  <2> TAKE j \in Jobs
  <2> HAVE j # own
  <2>1. ASSUME Listed(j)' PROVE Listed(j)
    <3> PICK i \in 1 .. Len(queued') : queued'[i].job = j
      BY <2>1 DEF Listed
    <3>1. i + 1 \in 1 .. Len(queued) /\ queued[i + 1].job = j
      BY <1>3
    <3> QED BY <3>1 DEF Listed
  <2>2. ASSUME Listed(j) PROVE Listed(j)'
    <3> PICK i \in 1 .. Len(queued) : queued[i].job = j
      BY <2>2 DEF Listed
    <3>1. i # 1
      BY <1>3
    <3>2. i - 1 \in 1 .. Len(queued') /\ (i - 1) + 1 = i
      BY <1>3, <3>1
    <3>3. queued'[i - 1].job = j
      BY <1>3, <3>2
    <3> QED BY <3>2, <3>3 DEF Listed
  <2> QED BY <2>1, <2>2
<1>14. \A j \in Jobs : Leased(j)' <=> (Leased(j) \/ j = own)
  BY <1>5 DEF Leased
<1>15. \A j \in Jobs : (JobOpen(j)' <=> JobOpen(j)) /\ (Pushing(j)' <=> Pushing(j))
  BY <1>5 DEF JobOpen, Pushing
<1>16. CallsInOrder'
  BY <1>5 DEF OutInv, CallsInOrder
<1>17. NotYetOut'
  <2> SUFFICES ASSUME NEW j \in Jobs, job[j].status \in Early
               PROVE  /\ ~Listed(j)' /\ ~Leased(j)'
                      /\ \A x \in late' : x.job # j
                      /\ \A v \in Workers : receipt'[v] # NoReceipt => receipt'[v].job # j
    BY <1>5 DEF NotYetOut
  <2>1. j # own
    BY <1>10
  <2>2. /\ ~Listed(j) /\ ~Leased(j) /\ \A x \in late : x.job # j
        /\ \A v \in Workers : receipt[v] # NoReceipt => receipt[v].job # j
    BY DEF OutInv, NotYetOut
  <2> QED BY <1>5, <1>6, <1>7, <1>13, <1>14, <2>1, <2>2
<1>18. OneDelivery'
  <2> SUFFICES ASSUME NEW j \in Jobs, JobOpen(j)
               PROVE  /\ Pushing(j)' \/ Listed(j)' \/ Leased(j)'
                      /\ Pushing(j)' => job'[j].status = "queued" /\ ~Listed(j)' /\ ~Leased(j)'
                      /\ Listed(j)' => ~Leased(j)'
                      /\ \A i, k \in 1 .. Len(queued') :
                            queued'[i].job = j /\ queued'[k].job = j => i = k
                      /\ \A x, y \in leases' : x.job = j /\ y.job = j => x = y
                      /\ \A x \in late' : x.job # j
    BY <1>15 DEF OneDelivery
  <2>1. /\ Pushing(j) \/ Listed(j) \/ Leased(j)
        /\ Pushing(j) => job[j].status = "queued" /\ ~Listed(j) /\ ~Leased(j)
        /\ Listed(j) => ~Leased(j)
        /\ \A i, k \in 1 .. Len(queued) :
              queued[i].job = j /\ queued[k].job = j => i = k
        /\ \A x, y \in leases : x.job = j /\ y.job = j => x = y
        /\ \A x \in late : x.job # j
    BY DEF OutInv, OneDelivery
  <2>2. ASSUME NEW i \in 1 .. Len(queued'), NEW k \in 1 .. Len(queued'),
               queued'[i].job = j, queued'[k].job = j
        PROVE  i = k
    <3>1. i + 1 \in 1 .. Len(queued) /\ k + 1 \in 1 .. Len(queued)
      BY <1>3
    <3>2. queued[i + 1].job = j /\ queued[k + 1].job = j
      BY <1>3, <2>2
    <3>3. i + 1 = k + 1
      BY <2>1, <3>1, <3>2
    <3> QED BY <3>3
  <2>3. ASSUME NEW x \in leases', NEW y \in leases', x.job = j, y.job = j PROVE x = y
    <3>1. CASE j = own
      BY <1>5, <1>11, <2>3, <3>1 DEF Leased
    <3>2. CASE j # own
      BY <1>5, <2>1, <2>3, <3>2
    <3> QED BY <3>1, <3>2
  <2>4. /\ Pushing(j)' \/ Listed(j)' \/ Leased(j)'
        /\ Pushing(j)' => job'[j].status = "queued" /\ ~Listed(j)' /\ ~Leased(j)'
        /\ Listed(j)' => ~Leased(j)'
    BY <1>5, <1>11, <1>12, <1>13, <1>14, <1>15, <2>1
  <2> QED BY <1>5, <2>1, <2>2, <2>3, <2>4
<1>19. Redelivered'
  <2> SUFFICES ASSUME NEW i \in 1 .. Len(queued'), job[queued'[i].job].status = "running"
               PROVE  queued'[i].attempt > 1
    BY <1>5 DEF Redelivered
  <2>1. i + 1 \in 1 .. Len(queued) /\ queued'[i] = queued[i + 1]
    BY <1>3
  <2> QED BY <2>1 DEF OutInv, Redelivered
<1>20. \A v \in Workers : receipt[v] # NoReceipt /\ receipt[v].job = own /\ JobOpen(own) =>
          receipt[v] \notin leases
  BY <1>11 DEF Leased
<1>21. OneWaits'
  <2> SUFFICES ASSUME NEW j \in Jobs, JobOpen(j), NEW u \in Workers, NEW v \in Workers,
                      Waits(u, j)', Waits(v, j)'
               PROVE  u = v
    BY <1>15 DEF OneWaits
  <2>1. CASE j = own
    <3>1. \A x \in Workers \ {w} : ~Waits(x, j)'
      BY <1>7, <1>20, <2>1 DEF OutInv, HolderOK, Waits
    <3> QED BY <3>1
  <2>2. CASE j # own
    <3>1. u # w /\ v # w
      BY <1>6, <2>2 DEF Waits
    <3> QED BY <1>7, <3>1 DEF OutInv, OneWaits, Waits
  <2> QED BY <2>1, <2>2
<1>22. HolderOK(w)'
  <2>1. job[own].status = "running" => p.attempt > 1
    BY <1>3 DEF OutInv, Redelivered
  <2> QED BY <1>5, <1>6, <1>8, <2>1 DEF HolderOK, Before
<1>23. ASSUME NEW v \in Workers \ {w} PROVE HolderOK(v)'
  <2>1. receipt[v] \in leases \ stale => receipt[v] \in leases' \ stale'
    BY <1>5
  <2> QED BY <1>5, <1>7, <2>1 DEF OutInv, HolderOK, JobOpen
<1> QED BY <1>16, <1>17, <1>18, <1>19, <1>21, <1>22, <1>23 DEF OutInv

\* The compare-and-set: the one worker that waits becomes the one that runs.
LEMMA ExecutionStep ==
    ASSUME TypeOK, OutInv, NEW w \in Workers, ClaimExecution(w)
    PROVE  OutInv'
<1>1. receipt[w] # NoReceipt /\ wpc[w] = "start"
  BY DEF ClaimExecution, TypeOK, ControlOK
<1>2. PICK own \in Jobs : own = receipt[w].job
  BY <1>1, OpenHolder
<1>3. receipt[w] \in Payload /\ receipt[w].job = own /\ job[own] \in JobRecord
  BY <1>1, <1>2, OpenHolder
<1>4. UNCHANGED <<redis, call, receipt, hb, lost>>
  BY DEF ClaimExecution, beat, worker
<1>5. \A v \in Workers \ {w} : wpc'[v] = wpc[v]
  BY DEF ClaimExecution, Goto, TypeOK, WorkerOK
<1>6. CASE ~Claimable(job[own])
  <2>1. job' = job /\ wpc'[w] = "returned"
    BY <1>2, <1>6 DEF ClaimExecution, Goto, TypeOK, WorkerOK
  <2>2. Closes
    BY <2>1 DEF Closes
  <2>3. ~JobOpen(own)
    BY <1>1, <1>2, <1>6 DEF OutInv, HolderOK, JobOpen, Claimable
  <2>4. HolderOK(w)'
    BY <1>2, <1>4, <2>1, <2>3 DEF HolderOK, JobOpen
  <2> QED BY <1>4, <1>5, <2>1, <2>2, <2>4, OwnStep DEF Before
<1>7. CASE Claimable(job[own])
  <2>1. job' = [job EXCEPT ![own] = SetClaimed(job[own])] /\ wpc'[w] = "exec"
    BY <1>2, <1>7 DEF ClaimExecution, Goto, TypeOK, WorkerOK
  <2>2. /\ job[own].status = "queued" /\ job'[own].status = "running"
        /\ \A j \in Jobs \ {own} : job'[j] = job[j]
    BY <1>3, <1>7, <2>1 DEF Claimable, SetClaimed, JobRecord, TypeOK, StoreOK
  <2>3. JobOpen(own) /\ receipt[w] \in leases \ stale /\ ~lost[w]
    BY <1>1, <1>2, <2>2 DEF OutInv, HolderOK, JobOpen, Before
  <2>4. Leased(own)
    BY <1>3, <2>3 DEF Leased
  <2>5. ~Pushing(own) /\ ~Listed(own)
    BY <2>3, <2>4 DEF OutInv, OneDelivery
  <2>6. \A v \in Workers : Waits(v, own) => v = w
    BY <1>1, <1>2, <2>3 DEF OutInv, OneWaits, Waits, Before
  <2>7. \A j \in Jobs : /\ JobOpen(j)' <=> JobOpen(j)
                        /\ Pushing(j)' <=> Pushing(j)
                        /\ Listed(j)' <=> Listed(j)
                        /\ Leased(j)' <=> Leased(j)
    BY <1>4, <2>2 DEF JobOpen, Pushing, Listed, Leased, redis
  <2>8. CallsInOrder'
    <3>1. \A c \in Clients : call[c].op # "none" => call[c].job \in Jobs
      BY Calling DEF TypeOK
    <3> QED BY <1>4, <2>2, <3>1 DEF OutInv, CallsInOrder, Early
  <2>9. NotYetOut'
    BY <1>4, <2>2, <2>7 DEF OutInv, NotYetOut, Early, redis
  <2>10. OneDelivery'
    <3>1. \A j \in Jobs : Pushing(j) => job'[j] = job[j]
      BY <2>2, <2>5
    <3> QED BY <1>4, <2>7, <3>1 DEF OutInv, OneDelivery, redis
  <2>11. Redelivered'
    <3>1. \A i \in 1 .. Len(queued) : queued[i].job \in Jobs \ {own}
      BY <2>5, PayloadType DEF Listed, TypeOK, RedisOK
    <3> QED BY <1>4, <2>2, <3>1 DEF OutInv, Redelivered, redis
  <2>12. OneWaits'
    <3>1. \A v \in Workers, j \in Jobs : Waits(v, j)' => Waits(v, j)
      BY <1>1, <1>4, <1>5, <2>1 DEF Waits, Before
    <3> QED BY <2>7, <3>1 DEF OutInv, OneWaits
  <2>13. HolderOK(w)'
    BY <1>3, <1>4, <2>1, <2>2, <2>3 DEF HolderOK, Before, Executing, redis
  <2>14. ASSUME NEW v \in Workers \ {w} PROVE HolderOK(v)'
    <3>1. CASE receipt[v] = NoReceipt
      BY <1>4, <3>1 DEF HolderOK
    <3>2. CASE receipt[v] # NoReceipt /\ receipt[v].job = own
      <4>1. wpc[v] \notin Before
        BY <2>6, <3>2 DEF Waits
      <4>2. wpc[v] \in Before
        BY <2>2, <2>3, <3>2 DEF OutInv, HolderOK
      <4> QED BY <4>1, <4>2
    <3>3. CASE receipt[v] # NoReceipt /\ receipt[v].job # own
      <4>1. job'[receipt[v].job] = job[receipt[v].job]
        BY <2>2, <3>3, OpenHolder
      <4> QED BY <1>4, <1>5, <4>1 DEF OutInv, HolderOK, JobOpen, redis
    <3> QED BY <3>1, <3>2, <3>3
  <2> QED BY <2>8, <2>9, <2>10, <2>11, <2>12, <2>13, <2>14 DEF OutInv
<1> QED BY <1>6, <1>7

-----------------------------------------------------------------------------
(* The calls of the API.                                                   *)

\* A call that only closes a job, or only begins.
LEMMA CallingStep ==
    ASSUME TypeOK, OutInv, Closes, CallsOn, UNCHANGED <<redis, worker, beat>>
    PROVE  OutInv'
<1>1. \A w \in Workers : HolderOK(w)'
  BY HolderStays DEF worker, beat
<1> QED BY <1>1, ClosingStep DEF worker, beat

LEMMA ReadStep ==
    ASSUME TypeOK, OutInv, MaxRetries = 0, NEW c \in Clients, NEW j \in Jobs,
           CancelRead(c, j) \/ RetryRead(c, j) \/ DeleteRead(c, j) \/ ReconcileRead(c, j)
    PROVE  OutInv'
<1>1. ~RetryRead(c, j)
  <2>1. job[j].retry_count \in Nat
    BY RecordType DEF TypeOK, StoreOK
  <2> QED BY <2>1 DEF RetryRead
<1>2. UNCHANGED <<job, redis, worker, beat>> /\ call[c].op = "none"
  BY <1>1 DEF CancelRead, DeleteRead, ReconcileRead, Idle
<1>3. job[j].status \notin Early
  BY <1>1 DEF CancelRead, DeleteRead, ReconcileRead, Early, Terminal
<1>4. /\ call'[c].op \in {"cancelWrite", "cancelRequest", "deleteWrite", "reconcileWrite"}
      /\ call'[c].job = j
  BY <1>1 DEF CancelRead, DeleteRead, ReconcileRead, CallStep, TypeOK, StoreOK
<1>5. \A d \in Clients \ {c} : call'[d] = call[d]
  BY <1>1 DEF CancelRead, DeleteRead, ReconcileRead, CallStep, TypeOK, StoreOK
<1>6. CallsOn
  BY <1>2, <1>3, <1>4, <1>5 DEF CallsOn
<1>7. Closes
  BY <1>2 DEF Closes
<1> QED BY <1>2, <1>6, <1>7, CallingStep

LEMMA WriteStep ==
    ASSUME TypeOK, OutInv, NEW c \in Clients,
           CancelWrite(c) \/ CancelRequest(c) \/ RetryWrite(c) \/ DeleteWrite(c)
           \/ ReconcileWrite(c)
    PROVE  OutInv'
<1>1. ~RetryWrite(c)
  BY DEF OutInv, CallsInOrder, RetryWrite
<1>2. call[c].op \in {"cancelWrite", "cancelRequest", "deleteWrite", "reconcileWrite"}
  BY <1>1 DEF CancelWrite, CancelRequest, DeleteWrite, ReconcileWrite
<1>3. PICK own \in Jobs : own = call[c].job
  BY <1>2, Calling DEF TypeOK
<1>4. job[own].status \notin Early
  BY <1>2, <1>3 DEF OutInv, CallsInOrder
<1>5. job[own] \in JobRecord
  BY DEF TypeOK, StoreOK
<1>6. UNCHANGED <<redis, worker, beat>>
  BY <1>1 DEF CancelWrite, CancelRequest, DeleteWrite, ReconcileWrite
<1>7. /\ \A d \in Clients \ {c} : call'[d] = call[d]
      /\ call'[c] = Idle
  BY <1>1 DEF CancelWrite, CancelRequest, DeleteWrite, ReconcileWrite, CallStep, TypeOK, StoreOK
<1>8. CallsOn
  BY <1>2, <1>7 DEF CallsOn
<1>9. PICK r : /\ job' = [job EXCEPT ![own] = r]
               /\ \/ r.status = job[own].status
                  \/ r.status \in {"cancelled", "failed", "deleted"}
  <2>1. CASE CancelWrite(c)
    <3>1. job' = [job EXCEPT ![own] = SetStatus(job[own], "cancelled")]
      BY <1>3, <2>1 DEF CancelWrite
    <3>2. SetStatus(job[own], "cancelled").status
             \in {job[own].status, "cancelled"}
      BY <1>5 DEF SetStatus, JobRecord
    <3> QED BY <3>1, <3>2
  <2>2. CASE CancelRequest(c)
    <3>1. job' = [job EXCEPT ![own] = SetCancelRequested(job[own])]
      BY <1>3, <2>2 DEF CancelRequest
    <3>2. SetCancelRequested(job[own]).status
             \in {job[own].status}
      BY <1>5 DEF SetCancelRequested, JobRecord
    <3> QED BY <3>1, <3>2
  <2>3. CASE DeleteWrite(c)
    <3>1. job' = [job EXCEPT ![own] = [NewRecord EXCEPT !.status = "deleted"]]
      BY <1>3, <2>3 DEF DeleteWrite
    <3>2. [NewRecord EXCEPT !.status = "deleted"].status
             \in {"deleted"}
      BY <1>5 DEF NewRecord
    <3> QED BY <3>1, <3>2
  <2>4. CASE ReconcileWrite(c)
    <3>1. job' = [job EXCEPT ![own] = SetReconciled(job[own], call[c].seen)]
      BY <1>3, <2>4 DEF ReconcileWrite
    <3>2. SetReconciled(job[own], call[c].seen).status
             \in {job[own].status, "cancelled", "failed"}
      BY <1>5 DEF SetReconciled, JobRecord
    <3> QED BY <3>1, <3>2
  <2> QED BY <1>1, <2>1, <2>2, <2>3, <2>4
<1>10. Closes
  BY <1>4, <1>9 DEF Closes, Early, TypeOK, StoreOK
<1> QED BY <1>6, <1>8, <1>10, CallingStep

\* The submission of a new job: created, queued, pushed.
LEMMA CreateStep ==
    ASSUME TypeOK, OutInv, NEW c \in Clients, NEW j \in Jobs, CreateJob(c, j)
    PROVE  OutInv'
<1>1. /\ job' = [job EXCEPT ![j].status = "created"]
      /\ UNCHANGED <<redis, worker, beat>> /\ job[j].status = "unborn"
      /\ call[c].op = "none"
  BY DEF CreateJob, Idle
<1>2. call'[c] = [op |-> "enqueueWrite", job |-> j] /\ \A d \in Clients \ {c} : call'[d] = call[d]
  BY DEF CreateJob, CallStep, TypeOK, StoreOK
<1>3. job'[j].status = "created" /\ \A i \in Jobs \ {j} : job'[i] = job[i]
  BY <1>1, RecordType DEF TypeOK, StoreOK, JobRecord
<1>4. \A d \in Clients : call[d].op # "none" => call[d].job \in Jobs \ {j}
  BY <1>1, Calling DEF OutInv, CallsInOrder, TypeOK, Early
<1>5. CallsInOrder'
  <2>1. ASSUME NEW d \in Clients, (call[d].op # "none")'
        PROVE  /\ call'[d].op # "retryWrite"
               /\ call'[d].op = "enqueueWrite" => job'[call'[d].job].status = "created"
               /\ call'[d].op # "enqueueWrite" => job'[call'[d].job].status \notin Early
    <3>1. CASE d = c
      BY <1>2, <1>3, <3>1
    <3>2. CASE d # c
      <4>1. call'[d] = call[d] /\ call[d].op # "none"
        BY <1>2, <2>1, <3>2
      <4>2. job'[call[d].job] = job[call[d].job]
        BY <1>3, <1>4, <4>1
      <4> QED BY <4>1, <4>2 DEF OutInv, CallsInOrder
    <3> QED BY <3>1, <3>2
  <2>2. ASSUME NEW d \in Clients, NEW e \in Clients,
               {call'[d].op, call'[e].op} \subseteq {"enqueueWrite", "push"},
               call'[d].job = call'[e].job
        PROVE  d = e
    <3>1. \A x \in Clients \ {c} : call'[x].op # "none" => call'[x].job # j
      BY <1>2, <1>4
    <3>2. CASE d = c \/ e = c
      BY <1>2, <2>2, <3>1, <3>2
    <3>3. CASE d # c /\ e # c
      BY <1>2, <2>2, <3>3 DEF OutInv, CallsInOrder
    <3> QED BY <3>2, <3>3
  <2> QED BY <2>1, <2>2 DEF CallsInOrder
<1>6. \A i \in Jobs : /\ JobOpen(i)' <=> JobOpen(i)
                      /\ Listed(i)' <=> Listed(i)
                      /\ Leased(i)' <=> Leased(i)
                      /\ JobOpen(i) => i # j
  BY <1>1, <1>3 DEF JobOpen, Listed, Leased, redis
<1>7. \A i \in Jobs : i # j => (Pushing(i)' <=> Pushing(i))
  <2>1. \A d \in Clients : call'[d].op = "push" <=> call[d].op = "push"
    BY <1>1, <1>2
  <2>2. \A d \in Clients : call[d].op = "push" => call'[d] = call[d]
    BY <1>1, <1>2
  <2> QED BY <2>1, <2>2 DEF Pushing
<1>8. NotYetOut'
  <2>1. \A i \in Jobs : job'[i].status \in Early => job[i].status \in Early
    BY <1>1, <1>3 DEF Early
  <2> QED BY <1>1, <1>6, <2>1 DEF OutInv, NotYetOut, redis, worker
<1>9. OneDelivery'
  BY <1>1, <1>3, <1>6, <1>7 DEF OutInv, OneDelivery, redis
<1>10. Redelivered'
  <2>1. \A i \in 1 .. Len(queued) : queued[i].job \in Jobs
    BY PayloadType DEF TypeOK, RedisOK
  <2> QED BY <1>1, <1>3, <2>1 DEF OutInv, Redelivered, redis
<1>11. OneWaits'
  BY <1>1, <1>6 DEF OutInv, OneWaits, Waits, worker
<1>12. ASSUME NEW w \in Workers PROVE HolderOK(w)'
  <2>1. receipt[w] # NoReceipt => receipt[w].job \in Jobs \ {j}
    BY <1>1, OpenHolder DEF Early
  <2> QED BY <1>1, <1>3, <2>1 DEF OutInv, HolderOK, JobOpen, redis, worker, beat
<1> QED BY <1>5, <1>8, <1>9, <1>10, <1>11, <1>12 DEF OutInv

LEMMA SubmitStep ==
    ASSUME TypeOK, OutInv, NEW c \in Clients, EnqueueWrite(c)
    PROVE  OutInv'
<1>1. PICK own \in Jobs : own = call[c].job
  BY Calling DEF TypeOK, EnqueueWrite
<1>2. call[c].op = "enqueueWrite" /\ job[own].status = "created"
  BY <1>1 DEF OutInv, CallsInOrder, EnqueueWrite
<1>3. job'[own].status = "queued" /\ \A i \in Jobs \ {own} : job'[i] = job[i]
  <2>1. job' = [job EXCEPT ![own] = SetStatus(job[own], "queued")]
    BY <1>1 DEF EnqueueWrite
  <2>2. SetStatus(job[own], "queued").status = "queued"
    BY <1>2 DEF SetStatus, Exists, Absent, TypeOK, StoreOK, JobRecord
  <2> QED BY <2>1, <2>2 DEF TypeOK, StoreOK
<1>4. /\ call'[c] = [op |-> "push", job |-> own]
      /\ \A d \in Clients \ {c} : call'[d] = call[d]
      /\ UNCHANGED <<redis, worker, beat>>
  BY <1>1 DEF EnqueueWrite, CallStep, TypeOK, StoreOK
<1>5. \A d \in Clients \ {c} : call[d].op # "none" => call[d].job \in Jobs \ {own}
  <2> SUFFICES ASSUME NEW d \in Clients \ {c}, call[d].op # "none" PROVE call[d].job # own
    BY Calling DEF TypeOK
  <2> SUFFICES ASSUME call[d].job = own PROVE FALSE
    OBVIOUS
  <2>1. call[d].op = "enqueueWrite"
    BY <1>2 DEF OutInv, CallsInOrder, Early
  <2> QED BY <1>1, <1>2, <2>1 DEF OutInv, CallsInOrder
<1>6. CallsInOrder'
  <2>1. ASSUME NEW d \in Clients, (call[d].op # "none")'
        PROVE  /\ call'[d].op # "retryWrite"
               /\ call'[d].op = "enqueueWrite" => job'[call'[d].job].status = "created"
               /\ call'[d].op # "enqueueWrite" => job'[call'[d].job].status \notin Early
    <3>1. CASE d = c
      BY <1>3, <1>4, <3>1 DEF Early
    <3>2. CASE d # c
      <4>1. call'[d] = call[d] /\ call[d].op # "none"
        BY <1>4, <2>1, <3>2
      <4>2. job'[call[d].job] = job[call[d].job]
        BY <1>3, <1>5, <3>2, <4>1
      <4> QED BY <4>1, <4>2 DEF OutInv, CallsInOrder
    <3> QED BY <3>1, <3>2
  <2>2. ASSUME NEW d \in Clients, NEW e \in Clients,
               {call'[d].op, call'[e].op} \subseteq {"enqueueWrite", "push"},
               call'[d].job = call'[e].job
        PROVE  d = e
    <3>1. \A x \in Clients \ {c} : call'[x].op # "none" => call'[x].job # own
      BY <1>4, <1>5
    <3>2. CASE d = c \/ e = c
      BY <1>4, <2>2, <3>1, <3>2
    <3>3. CASE d # c /\ e # c
      BY <1>4, <2>2, <3>3 DEF OutInv, CallsInOrder
    <3> QED BY <3>2, <3>3
  <2> QED BY <2>1, <2>2 DEF CallsInOrder
<1>7. \A i \in Jobs : /\ i # own => (JobOpen(i)' <=> JobOpen(i))
                      /\ Listed(i)' <=> Listed(i)
                      /\ Leased(i)' <=> Leased(i)
  BY <1>3, <1>4 DEF JobOpen, Listed, Leased, redis
<1>8. \A i \in Jobs : i # own => (Pushing(i)' <=> Pushing(i))
  <2> TAKE i \in Jobs
  <2> HAVE i # own
  <2>1. \A d \in Clients : call[d].op = "push" => call'[d] = call[d]
    BY <1>2, <1>4
  <2>2. \A d \in Clients : (call'[d].op = "push" /\ call'[d].job = i) => call'[d] = call[d]
    BY <1>4
  <2> QED BY <2>1, <2>2 DEF Pushing
<1>9. Pushing(own)'
  BY <1>4 DEF Pushing
<1>10. /\ ~Listed(own) /\ ~Leased(own) /\ \A p \in late : p.job # own
       /\ \A w \in Workers : receipt[w] # NoReceipt => receipt[w].job # own
  BY <1>2 DEF OutInv, NotYetOut, Early
<1>11. NotYetOut'
  <2>1. \A i \in Jobs : job'[i].status \in Early => i # own /\ job[i].status \in Early
    BY <1>3 DEF Early
  <2> QED BY <1>4, <1>7, <2>1 DEF OutInv, NotYetOut, redis, worker
<1>12. OneDelivery'
  <2> SUFFICES ASSUME NEW j \in Jobs, JobOpen(j)'
               PROVE  /\ Pushing(j)' \/ Listed(j)' \/ Leased(j)'
                      /\ Pushing(j)' => job'[j].status = "queued" /\ ~Listed(j)' /\ ~Leased(j)'
                      /\ Listed(j)' => ~Leased(j)'
                      /\ \A i, k \in 1 .. Len(queued') :
                            queued'[i].job = j /\ queued'[k].job = j => i = k
                      /\ \A x, y \in leases' : x.job = j /\ y.job = j => x = y
                      /\ \A x \in late' : x.job # j
    BY DEF OneDelivery
  <2>1. queued' = queued /\ leases' = leases /\ late' = late
    BY <1>4 DEF redis
  <2>2. CASE j = own
    <3>1. ~Listed(j)' /\ ~Leased(j)'
      BY <1>7, <1>10, <2>2
    <3>2. \A i \in 1 .. Len(queued') : queued'[i].job # j
      BY <2>1, <1>10, <2>2 DEF Listed
    <3>3. \A x \in leases' : x.job # j
      BY <2>1, <1>10, <2>2 DEF Leased
    <3>4. \A x \in late' : x.job # j
      BY <2>1, <1>10, <2>2
    <3> QED BY <1>3, <1>9, <2>2, <3>1, <3>2, <3>3, <3>4
  <2>3. CASE j # own
    BY <1>3, <1>7, <1>8, <2>1, <2>3 DEF OutInv, OneDelivery
  <2> QED BY <2>2, <2>3
<1>13. Redelivered'
  <2>1. \A i \in 1 .. Len(queued) : queued[i].job \in Jobs \ {own}
    BY <1>10, PayloadType DEF Listed, TypeOK, RedisOK
  <2> QED BY <1>3, <1>4, <2>1 DEF OutInv, Redelivered, redis
<1>14. OneWaits'
  <2>1. \A w \in Workers : ~Waits(w, own)
    BY <1>10 DEF Waits
  <2>2. \A w \in Workers, i \in Jobs : Waits(w, i)' <=> Waits(w, i)
    BY <1>4 DEF Waits, worker
  <2> QED BY <1>7, <2>1, <2>2 DEF OutInv, OneWaits
<1>15. ASSUME NEW w \in Workers PROVE HolderOK(w)'
  <2>1. receipt[w] # NoReceipt => receipt[w].job \in Jobs \ {own}
    BY <1>10, OpenHolder
  <2> QED BY <1>3, <1>4, <2>1 DEF OutInv, HolderOK, JobOpen, redis, worker, beat
<1> QED BY <1>6, <1>11, <1>12, <1>13, <1>14, <1>15 DEF OutInv

LEMMA PushStep ==
    ASSUME TypeOK, OutInv, NEW c \in Clients, EnqueuePush(c)
    PROVE  OutInv'
<1>1. PICK own \in Jobs : own = call[c].job
  BY Calling DEF TypeOK, EnqueuePush
<1>2. call[c].op = "push" /\ job[own].status \notin Early
  BY <1>1 DEF OutInv, CallsInOrder, EnqueuePush
<1>3. PICK x \in Payload : x = Delivery(own, 1)
  BY PayloadType
<1>4. x.job = own
  BY <1>3 DEF Delivery
<1>5. /\ queued' = Append(queued, x) /\ UNCHANGED <<job, leases, stale, late, worker, beat>>
      /\ call'[c] = Idle /\ \A d \in Clients \ {c} : call'[d] = call[d]
  BY <1>1, <1>3 DEF EnqueuePush, CallStep, TypeOK, StoreOK
<1>6. CallsInOrder'
  <2>1. \A d \in Clients : call'[d].op # "none" => call'[d] = call[d]
    BY <1>5 DEF Idle
  <2>2. \A d \in Clients : call'[d].op \in {"enqueueWrite", "push"} => call'[d].op # "none"
    OBVIOUS
  <2> QED BY <1>5, <2>1, <2>2 DEF OutInv, CallsInOrder
<1>7. \A j \in Jobs : /\ JobOpen(j)' <=> JobOpen(j)
                      /\ Leased(j)' <=> Leased(j)
                      /\ Listed(j)' <=> (Listed(j) \/ j = own)
  BY <1>4, <1>5, AppendedListed DEF JobOpen, Leased, TypeOK
<1>8. \A j \in Jobs : j # own => (Pushing(j)' <=> Pushing(j))
  <2> TAKE j \in Jobs
  <2> HAVE j # own
  <2>1. \A d \in Clients : (call[d].op = "push" /\ call[d].job = j) => call'[d] = call[d]
    BY <1>1, <1>5
  <2>2. \A d \in Clients : call'[d].op = "push" => call'[d] = call[d]
    BY <1>5 DEF Idle
  <2> QED BY <2>1, <2>2 DEF Pushing
<1>9. ~Pushing(own)'
  <2> SUFFICES ASSUME NEW d \in Clients, call'[d].op = "push", call'[d].job = own PROVE FALSE
    BY DEF Pushing
  <2>1. d # c
    BY <1>5 DEF Idle
  <2>2. call'[d] = call[d]
    BY <1>5, <2>1
  <2> QED BY <1>1, <1>2, <2>1, <2>2 DEF OutInv, CallsInOrder
<1>10. Pushing(own)
  BY <1>1, <1>2 DEF Pushing
<1>11. NotYetOut'
  BY <1>2, <1>5, <1>7 DEF OutInv, NotYetOut, worker
<1>12. OneDelivery'
  <2> SUFFICES ASSUME NEW j \in Jobs, JobOpen(j)
               PROVE  /\ Pushing(j)' \/ Listed(j)' \/ Leased(j)'
                      /\ Pushing(j)' => job'[j].status = "queued" /\ ~Listed(j)' /\ ~Leased(j)'
                      /\ Listed(j)' => ~Leased(j)'
                      /\ \A i, k \in 1 .. Len(queued') :
                            queued'[i].job = j /\ queued'[k].job = j => i = k
                      /\ \A p, q \in leases' : p.job = j /\ q.job = j => p = q
                      /\ \A p \in late' : p.job # j
    BY <1>7 DEF OneDelivery
  <2>1. /\ Pushing(j) \/ Listed(j) \/ Leased(j)
        /\ Pushing(j) => job[j].status = "queued" /\ ~Listed(j) /\ ~Leased(j)
        /\ Listed(j) => ~Leased(j)
        /\ \A i, k \in 1 .. Len(queued) :
              queued[i].job = j /\ queued[k].job = j => i = k
        /\ \A p, q \in leases : p.job = j /\ q.job = j => p = q
        /\ \A p \in late : p.job # j
    BY DEF OutInv, OneDelivery
  <2>2. x.job # j \/ ~Listed(j)
    BY <1>4, <1>10, <2>1
  <2>3. \A i, k \in 1 .. Len(queued') : queued'[i].job = j /\ queued'[k].job = j => i = k
    BY <1>5, <2>1, <2>2, AppendedOnce DEF TypeOK
  <2> QED BY <1>5, <1>7, <1>8, <1>9, <1>10, <2>1, <2>3
<1>13. Redelivered'
  <2>1. \A i \in 1 .. Len(queued') : i \in 1 .. Len(queued) \/ queued'[i] = x
    BY <1>5, AppendedEntry DEF TypeOK
  <2>2. \A i \in 1 .. Len(queued) : queued'[i] = queued[i]
    BY <1>5, AppendedEntry DEF TypeOK
  <2>3. job[own].status # "running"
    BY <1>10 DEF OutInv, OneDelivery, JobOpen
  <2> QED BY <1>4, <1>5, <2>1, <2>2, <2>3 DEF OutInv, Redelivered
<1>14. OneWaits'
  BY <1>5, <1>7 DEF OutInv, OneWaits, Waits, worker
<1>15. \A w \in Workers : HolderOK(w)'
  BY <1>5 DEF OutInv, HolderOK, JobOpen, worker, beat
<1> QED BY <1>6, <1>11, <1>12, <1>13, <1>14, <1>15 DEF OutInv

LEMMA OutInit == Init => OutInv
<1> SUFFICES ASSUME Init PROVE OutInv
  OBVIOUS
<1>1. CallsInOrder
  BY DEF Init, CallsInOrder, Idle
<1>2. NotYetOut
  BY DEF Init, NotYetOut, Listed, Leased
<1>3. OneDelivery /\ OneWaits
  BY DEF Init, OneDelivery, OneWaits, JobOpen, NewRecord
<1>4. Redelivered /\ \A w \in Workers : HolderOK(w)
  BY DEF Init, Redelivered, HolderOK
<1> QED BY <1>1, <1>2, <1>3, <1>4 DEF OutInv

LEMMA OutStep ==
    ASSUME MaxRetries = 0, Faults \cap {"apiCrash", "lockTimeout", "stall"} = {},
           TypeOK, OutInv, [Next]_vars
    PROVE  OutInv'
<1>1. ASSUME NEW w \in Workers, PollStep(w) PROVE OutInv'
  BY <1>1, PollingStep, ReclaimStep, ClaimStep, InspectStep DEF PollStep
<1>2. ASSUME NEW w \in Workers, RunStep(w) PROVE OutInv'
  <2>1. ~ClaimExecutionTimeout(w)
    BY DEF ClaimExecutionTimeout
  <2>2. HandlerEnds(w) \/ CheckOutcome(w) \/ MarkCheck(w) => wpc[w] \in Executing
    BY DEF HandlerEnds, CheckOutcome, MarkCheck, Executing
  <2> QED BY <1>2, <2>1, <2>2, ExecutionStep, RunningStep, MarkingStep DEF RunStep
<1>3. ASSUME NEW w \in Workers, AckStep(w) PROVE OutInv'
  BY <1>3, AckStepKeeps DEF AckStep
<1>4. ASSUME NEW w \in Workers, HeartbeatStep(w) \/ HeartbeatDies(w) PROVE OutInv'
  BY <1>4, BeatStep
<1>5. ASSUME NEW w \in Workers, WorkerCrash(w) PROVE OutInv'
  BY <1>5, CrashStep
<1>6. ASSUME NEW c \in Clients, NEW j \in Jobs, ClientRead(c, j) PROVE OutInv'
  BY <1>6, CreateStep, ReadStep DEF ClientRead
<1>7. ASSUME NEW c \in Clients, ClientWrite(c) PROVE OutInv'
  BY <1>7, SubmitStep, PushStep, WriteStep DEF ClientWrite
<1>8. ASSUME NEW c \in Clients, ClientCrash(c) PROVE OutInv'
  BY <1>8 DEF ClientCrash
<1>9. ASSUME LeaseStep PROVE OutInv'
  BY <1>9, ExpiryStep, LateStep DEF LeaseStep
<1>10. CASE UNCHANGED vars
  BY <1>10 DEF vars, redis, worker, beat, OutInv, CallsInOrder, NotYetOut, OneDelivery,
               Redelivered, OneWaits, HolderOK, Waits, Pushing, Listed, Leased, JobOpen
<1> QED BY <1>1, <1>2, <1>3, <1>4, <1>5, <1>6, <1>7, <1>8, <1>9, <1>10
        DEF Next, WorkerStep

(***************************************************************************)
(* A job that nobody retries is never forgotten, whatever the crashes of   *)
(* workers, errors of Redis in heartbeat threads, late heartbeats,         *)
(* cancellations, deletions and reconciliations of restarted backends: a   *)
(* queued or running job always has a delivery that will be acted on.  No  *)
(* hypothesis can be dropped: a retry, an API process that dies before its *)
(* push, a claim that times out on the record's lock, and a heartbeat that *)
(* stalls beside its worker each lose the delivery.                        *)
(***************************************************************************)
THEOREM NoJobIsForgotten ==
    ASSUME MaxRetries = 0, Faults \cap {"apiCrash", "lockTimeout", "stall"} = {}
    PROVE  Spec => []NoJobForgotten
<1>1. ASSUME TypeOK, OutInv PROVE NoJobForgotten
  <2> SUFFICES ASSUME NEW j \in Jobs, JobOpen(j) PROVE Pending(j)
    BY DEF NoJobForgotten, JobOpen
  <2>1. Pushing(j) \/ Listed(j) \/ Leased(j)
    BY <1>1 DEF OutInv, OneDelivery
  <2>2. CASE Pushing(j) \/ Listed(j)
    BY <2>2 DEF Pushing, Listed, Pending
  <2>3. CASE Leased(j)
    <3>1. PICK p \in leases : p.job = j
      BY <2>3 DEF Leased
    <3>2. ASSUME NEW w \in Workers, receipt[w] = p
          PROVE  wpc[w] \notin {"returned", "ackRemove", "ackLease"}
      <4>1. p \in Payload /\ NoReceipt \notin Payload
        BY <1>1, PayloadType DEF TypeOK, RedisOK
      <4>2. wpc[w] \in Before \cup Executing
        BY <1>1, <3>1, <3>2, <4>1 DEF OutInv, HolderOK
      <4> QED BY <4>2 DEF Before, Executing
    <3> QED BY <3>1, <3>2 DEF Pending
  <2> QED BY <2>1, <2>2, <2>3
<1>2. TypeOK /\ OutInv /\ [Next]_vars => OutInv'
  BY OutStep
<1> QED BY <1>1, <1>2, OutInit, TypeCorrect, PTL DEF Spec
=============================================================================
