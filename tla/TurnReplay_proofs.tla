------------------------- MODULE TurnReplay_proofs -------------------------
(***************************************************************************)
(* TurnReplay implements TurnStream for any number of processes, frames,   *)
(* connections, subscriptions and restarts, and any combination of faults. *)
(*                                                                         *)
(* The inductive invariant says that nothing outside the file disagrees    *)
(* with it: every cache, every batch a pump has read and what the client   *)
(* has applied are prefixes of the file, and every frame on its way        *)
(* carries the content the file has at its sequence number.                *)
(*                                                                         *)
(* On it rest two more theorems: one answer is stored, and the frames on a *)
(* socket leave no gap.                                                    *)
(***************************************************************************)
EXTENDS TurnReplay, SequenceTheorems, TLAPS

Within(s, t) ==
    /\ Len(s) <= Len(t)
    /\ \A k \in 1 .. Len(s) : s[k] = t[k]

Genuine(m, t) == m.kind = "frame" => m.seq \in 1 .. Len(t) /\ m.frame = t[m.seq]

AllGenuine(q, t) == \A k \in 1 .. Len(q) : Genuine(q[k], t)

CachesWithin == \A p \in Procs : Within(cache[p], file)
BatchesWithin == \A i \in Pumps : Within(pump[i].batch, file)
InFlightGenuine == AllGenuine(live.queue, file) /\ AllGenuine(net, file)
ShownWithin == Within(client.shown, file)

\* the inductive invariant behind the refinement
ReplayInv ==
    TypeOK /\ CachesWithin /\ BatchesWithin /\ InFlightGenuine /\ ShownWithin

\* the log as a whole stays or grows by one frame
LogStep ==
    \/ file' = file
    \/ \E f \in Frame : ~Ended(file) /\ file' = Append(file, f)

USE ReplayAssumption DEF Pumps

-----------------------------------------------------------------------------
(* Sequences *)

LEMMA WithinStays ==
    ASSUME file \in Seq(Frame), LogStep, NEW s \in Seq(Frame), Within(s, file)
    PROVE  Within(s, file')
<1>1. CASE file' = file
  BY <1>1
<1>2. CASE \E f \in Frame : file' = Append(file, f)
  BY <1>2 DEF Within
<1> QED BY <1>1, <1>2 DEF LogStep

LEMMA WithinItself == ASSUME NEW s \in Seq(Frame) PROVE Within(s, s)
  BY DEF Within

LEMMA WithinAppend ==
    ASSUME NEW t \in Seq(Frame), NEW s \in Seq(Frame), Within(s, t),
           Len(s) + 1 <= Len(t)
    PROVE  Within(Append(s, t[Len(s) + 1]), t)
  BY DEF Within

LEMMA GenuineStays ==
    ASSUME file \in Seq(Frame), LogStep, NEW m \in Message, Genuine(m, file)
    PROVE  Genuine(m, file')
  BY DEF LogStep, Genuine, Message

LEMMA AllGenuineStays ==
    ASSUME file \in Seq(Frame), LogStep, NEW q \in Seq(Message),
           AllGenuine(q, file)
    PROVE  AllGenuine(q, file')
  BY GenuineStays DEF AllGenuine

LEMMA AllGenuineAppend ==
    ASSUME NEW t, NEW q \in Seq(Message), AllGenuine(q, t),
           NEW m \in Message, Genuine(m, t)
    PROVE  AllGenuine(Append(q, m), t) /\ Append(q, m) \in Seq(Message)
  BY DEF AllGenuine

LEMMA AllGenuineTail ==
    ASSUME NEW t, NEW q \in Seq(Message), AllGenuine(q, t), q # << >>
    PROVE  /\ AllGenuine(Tail(q), t) /\ Tail(q) \in Seq(Message)
           /\ q[1] \in Message /\ Genuine(q[1], t)
  BY DEF AllGenuine

LEMMA PrefixAndRest ==
    ASSUME NEW t \in Seq(Frame), NEW c \in Seq(Frame), Within(c, t)
    PROVE  c \o SubSeq(t, Len(c) + 1, Len(t)) = t
<1>1. /\ Len(c) \in Nat /\ Len(t) \in Nat /\ Len(c) <= Len(t)
      /\ \A i \in 1 .. Len(t) : t[i] \in Frame
  BY DEF Within
<1>2. PICK s : s = SubSeq(t, Len(c) + 1, Len(t))
  OBVIOUS
<1>3. /\ s \in Seq(Frame) /\ Len(s) = Len(t) - Len(c)
      /\ \A i \in 1 .. Len(t) - Len(c) : s[i] = t[Len(c) + i]
  <2>1. \A i \in Len(c) + 1 .. Len(t) : t[i] \in Frame
    BY <1>1
  <2>2. /\ s \in Seq(Frame)
        /\ Len(s) = IF Len(c) + 1 <= Len(t) THEN Len(t) - (Len(c) + 1) + 1
                    ELSE 0
        /\ \A i \in 1 .. Len(t) - (Len(c) + 1) + 1 :
              s[i] = t[Len(c) + 1 + i - 1]
    BY <1>1, <1>2, <2>1, SubSeqProperties
  <2> QED BY <1>1, <2>2
<1>4. /\ (c \o s) \in Seq(Frame)
      /\ Len(c \o s) = Len(t)
      /\ \A i \in 1 .. Len(t) :
            (c \o s)[i] = IF i <= Len(c) THEN c[i] ELSE s[i - Len(c)]
  BY <1>1, <1>3, ConcatProperties
<1>5. \A i \in 1 .. Len(c \o s) : (c \o s)[i] = t[i]
  BY <1>1, <1>3, <1>4 DEF Within
<1>6. c \o s = t
  BY <1>4, <1>5, SeqEqual
<1> QED BY <1>2, <1>6

\* loading brings a cache to the file: nothing is missed, nothing invented
LEMMA LoadedIsFile ==
    ASSUME TypeOK, CachesWithin, NEW p \in Procs
    PROVE  Loaded(p) = file
<1>1. cache[p] \in Seq(Frame) /\ file \in Seq(Frame) /\ Within(cache[p], file)
  BY DEF TypeOK, LogOK, CachesWithin
<1>2. ~(Len(file) < Len(cache[p]))
  BY <1>1 DEF Within
<1> QED BY <1>1, <1>2, PrefixAndRest DEF Loaded

-----------------------------------------------------------------------------
(* What the steps do to the log and to the caches, given the invariant *)

\* a step of the log: the file stays or grows, the cache of p follows
LogMoves(p) ==
    /\ LogStep
    /\ file' \in Seq(Frame) /\ torn' \in BOOLEAN
    /\ \/ cache' = [cache EXCEPT ![p] = file]
       \/ cache' = [cache EXCEPT ![p] = file']

LEMMA LoadMoves ==
    ASSUME TypeOK, CachesWithin, NEW p \in Procs, Load(p),
           UNCHANGED <<file, torn>>
    PROVE  LogMoves(p)
  BY LoadedIsFile DEF Load, LogMoves, LogStep, TypeOK, LogOK

LEMMA AppendMoves ==
    ASSUME TypeOK, CachesWithin, NEW p \in Procs, NEW f \in Frame,
           ~Ended(Loaded(p)), AppendLine(p, f)
    PROVE  LogMoves(p) /\ file' = Append(file, f)
<1>1. file \in Seq(Frame) /\ Loaded(p) = file
  BY LoadedIsFile DEF TypeOK, LogOK
<1>2. SubSeq(file, 1, Len(Loaded(p))) = file
  BY <1>1, SubSeqFull
<1>3. file' = Append(file, f) /\ torn' = FALSE
  BY <1>2 DEF AppendLine
<1>4. cache' = [cache EXCEPT ![p] = file']
  BY <1>1, <1>3 DEF AppendLine
<1>5. ~Ended(file)
  BY <1>1
<1>6. file' \in Seq(Frame)
  BY <1>1, <1>3
<1> QED BY <1>3, <1>4, <1>5, <1>6 DEF LogMoves, LogStep

LEMMA FailMoves ==
    ASSUME TypeOK, CachesWithin, NEW p \in Procs, NEW f \in Frame,
           ~Ended(Loaded(p)), FailLine(p, f)
    PROVE  LogMoves(p)
<1>1. file \in Seq(Frame) /\ Loaded(p) = file
  BY LoadedIsFile DEF TypeOK, LogOK
<1>2. SubSeq(file, 1, Len(Loaded(p))) = file
  BY <1>1, SubSeqFull
<1>3. cache' = [cache EXCEPT ![p] = file]
  BY <1>1 DEF FailLine, Load
<1>4. /\ file' = file \/ file' = Append(file, f)
      /\ torn' \in BOOLEAN
  BY <1>2 DEF FailLine
<1>5. ~Ended(file)
  BY <1>1
<1>6. file' \in Seq(Frame)
  BY <1>1, <1>4
<1> QED BY <1>3, <1>4, <1>5, <1>6 DEF LogMoves, LogStep

LEMMA CachesFollow ==
    ASSUME TypeOK, CachesWithin, NEW p \in Procs, LogMoves(p)
    PROVE  LogOK' /\ CachesWithin'
<1>1. file \in Seq(Frame) /\ cache \in [Procs -> Seq(Frame)] /\ LogStep
      /\ file' \in Seq(Frame) /\ torn' \in BOOLEAN
  BY DEF TypeOK, LogOK, LogMoves
<1>2. cache' \in [Procs -> Seq(Frame)]
  BY <1>1 DEF LogMoves
<1>3. Within(file, file') /\ Within(file', file')
  BY <1>1, WithinItself, WithinStays
<1>4. ASSUME NEW q \in Procs PROVE Within(cache'[q], file')
  <2>1. CASE q = p
    BY <1>1, <1>3, <2>1 DEF LogMoves
  <2>2. CASE q # p
    <3>1. cache'[q] = cache[q] /\ cache[q] \in Seq(Frame)
      BY <1>1, <2>2 DEF LogMoves
    <3> QED BY <1>1, <3>1, WithinStays DEF CachesWithin
  <2> QED BY <2>1, <2>2
<1> QED BY <1>1, <1>2, <1>4 DEF LogOK, CachesWithin
-----------------------------------------------------------------------------
(* Preservation of the invariant *)

\* A step that leaves the log alone keeps what refers to it.
QuietLog == UNCHANGED <<file, torn, cache>>

\* The steps of the log and of nobody's socket, pump or client.
LEMMA StampMoves ==
    ASSUME TypeOK, CachesWithin, NEW f \in {Token, Done}, NEW pc, Stamp(f, pc)
    PROVE  /\ LogMoves(Home)
           /\ \/ live' = Enqueued(Notice("fault"))
              \/ \E g \in Frame : /\ live' = Enqueued(Sent(Len(file'), g))
                                  /\ Len(file') > 0 /\ g = file'[Len(file')]
<1>0. Token \in Frame /\ Done \in Frame
  BY DEF Token, Done, Frame
<1>1. Home \in Procs /\ f \in Frame /\ file \in Seq(Frame)
      /\ Loaded(Home) = file
  BY <1>0, LoadedIsFile DEF TypeOK, LogOK
<1>2. CASE ~Ended(Loaded(Home)) /\ AppendLine(Home, f)
           /\ live' = Enqueued(Sent(Len(file'), f))
  <2>1. LogMoves(Home) /\ file' = Append(file, f)
    BY <1>1, <1>2, AppendMoves
  <2>2. Len(file') > 0 /\ f = file'[Len(file')]
    BY <1>1, <2>1
  <2> QED BY <1>1, <1>2, <2>1, <2>2
<1>3. CASE Ended(Loaded(Home)) /\ Load(Home) /\ UNCHANGED <<file, torn>>
           /\ live' = Enqueued(Sent(Len(Loaded(Home)),
                                   Loaded(Home)[Len(Loaded(Home))]))
  <2>1. LogMoves(Home)
    BY <1>1, <1>3, LoadMoves
  <2>2. Len(file') > 0 /\ file'[Len(file')] \in Frame /\ Loaded(Home) = file'
    BY <1>1, <1>3 DEF Ended
  <2> QED BY <1>3, <2>1, <2>2
<1>4. CASE Load(Home) /\ UNCHANGED <<file, torn>>
           /\ live' = Enqueued(Notice("fault"))
  BY <1>1, <1>4, LoadMoves
<1>5. CASE ~Ended(Loaded(Home)) /\ FailLine(Home, f)
           /\ live' = Enqueued(Notice("fault"))
  BY <1>1, <1>5, FailMoves
<1> QED BY <1>2, <1>3, <1>4, <1>5 DEF Stamp, Fault

\* Every step moves the log as LogMoves allows, for some process.
LEMMA NextMoves ==
    ASSUME TypeOK, CachesWithin, Next
    PROVE  LogStep /\ LogOK' /\ CachesWithin'
<1>1. \/ \E p \in Procs : LogMoves(p)
      \/ QuietLog
      \/ \E p \in Procs : Crash(p)
  <2>0. Home \in Procs
    OBVIOUS
  <2>1. CASE Producer
    <3>1. CASE Emit
      BY <2>0, <3>1, StampMoves DEF Emit
    <3>2. CASE PutTerminal
      BY <2>0, <3>2, StampMoves DEF PutTerminal, QuietLog
    <3> QED BY <2>1, <3>1, <3>2 DEF Producer, RunAnswers, RunFinishes, QuietLog
  <2>2. CASE Cancel \/ Drain \/ Disconnect \/ Receive \/ ResumeAgain
             \/ PollHistory
    BY <2>2 DEF Cancel, Drain, Disconnect, Receive, ResumeAgain, PollHistory,
                QuietLog
  <2>3. CASE Attach
    <3>1. client.at \in Procs
      BY DEF TypeOK, SocketsOK
    <3> QED BY <2>3, <3>1, LoadMoves DEF Attach
  <2>4. ASSUME NEW p \in Procs,
               Reload(p) \/ StartCloseout(p) \/ FinishCloseout(p)
                 \/ Reconnect(p)
        PROVE  LogMoves(p) \/ QuietLog
    <3>1. CASE Reload(p)
      BY <3>1, LoadMoves DEF Reload
    <3>2. CASE StartCloseout(p)
      BY <3>2, LoadMoves DEF StartCloseout
    <3>3. CASE FinishCloseout(p)
      <4>1. Repair \in Frame
        BY DEF Repair, Frame
      <4> QED BY <3>3, <4>1, LoadMoves, AppendMoves, FailMoves
              DEF FinishCloseout
    <3>4. CASE Reconnect(p)
      BY <3>4 DEF Reconnect, QuietLog
    <3> QED BY <2>4, <3>1, <3>2, <3>3, <3>4
  <2>5. ASSUME NEW i \in Pumps, PumpStep(i) \/ Unsubscribe(i)
        PROVE  (\E p \in Procs : LogMoves(p)) \/ QuietLog
    <3>1. CASE PumpRead(i)
      <4>1. pump[i].at \in Procs
        BY DEF TypeOK, PumpsOK
      <4> QED BY <3>1, <4>1, LoadMoves DEF PumpRead, QuietLog
    <3> QED BY <2>5, <3>1
            DEF PumpStep, PumpSend, PumpCheck, PumpWait, Unsubscribe, QuietLog
  <2> QED BY <2>1, <2>2, <2>3, <2>4, <2>5 DEF Next
<1>2. CASE \E p \in Procs : LogMoves(p)
  BY <1>2, CachesFollow DEF LogMoves
<1>3. CASE QuietLog
  BY <1>3 DEF QuietLog, LogStep, LogOK, CachesWithin, TypeOK
<1>4. ASSUME NEW p \in Procs, Crash(p)
      PROVE  LogStep /\ LogOK' /\ CachesWithin'
  <2>1. /\ file' = file /\ torn' \in BOOLEAN
        /\ cache' = [cache EXCEPT ![p] = << >>]
    BY <1>4 DEF Crash, TypeOK, LogOK
  <2>2. << >> \in Seq(Frame) /\ Within(<< >>, file)
    BY DEF Within, TypeOK, LogOK
  <2> QED BY <2>1, <2>2 DEF LogStep, LogOK, CachesWithin, TypeOK
<1> QED BY <1>1, <1>2, <1>3, <1>4

LEMMA MessageTypes ==
    /\ \A n \in Nat, f \in Frame : Sent(n, f) \in Message
    /\ \A k \in {"fault", "pending", "interrupted"} : Notice(k) \in Message
    /\ \A k \in {"fault", "pending", "interrupted"} :
          \A t : Genuine(Notice(k), t)
    /\ \A t \in Seq(Frame) : \A n \in 1 .. Len(t) : Genuine(Sent(n, t[n]), t)
<1>1. Token \in Frame
  BY DEF Token, Frame
<1> QED BY <1>1 DEF Sent, Notice, Message, Genuine

LEMMA TurnStep == ASSUME TypeOK, Next PROVE TurnOK'
<1> USE DEF TypeOK, TurnOK
<1>1. CASE Producer
  <2>1. ASSUME NEW f, NEW pc \in {"run", "answered", "recorded", "over"},
               Stamp(f, pc), f.last \in BOOLEAN
        PROVE  prod' \in [pc : {"run", "answered", "recorded", "over", "dead"},
                          open : BOOLEAN, faulted : BOOLEAN]
    BY <2>1 DEF Stamp, Fault
  <2>2. CASE Emit
    BY <2>1, <2>2 DEF Emit, Token
  <2>3. CASE RunAnswers
    <3>1. answers' \in Seq({"own", "repair"})
      BY <2>3 DEF RunAnswers
    <3> QED BY <2>3, <3>1 DEF RunAnswers
  <2>4. CASE RunFinishes
    BY <2>4 DEF RunFinishes, FinishRecord
  <2>5. CASE PutTerminal
    BY <2>1, <2>5 DEF PutTerminal, Done
  <2> QED BY <1>1, <2>2, <2>3, <2>4, <2>5 DEF Producer
<1>2. CASE Cancel \/ Drain \/ Disconnect \/ Attach \/ Receive \/ ResumeAgain
           \/ PollHistory
  BY <1>2 DEF Cancel, Drain, Disconnect, Attach, Receive, ResumeAgain,
              PollHistory
<1>3. ASSUME NEW p \in Procs,
             Reload(p) \/ StartCloseout(p) \/ FinishCloseout(p)
               \/ Reconnect(p)
      PROVE  TurnOK'
  <2>1. CASE StartCloseout(p)
    <3>0. <<"repair">> \in Seq({"own", "repair"})
      OBVIOUS
    <3>1. answers' \in Seq({"own", "repair"})
      BY <2>1, <3>0 DEF StartCloseout
    <3>2. closer' \in {{}} \cup {{q} : q \in Procs}
      BY <2>1 DEF StartCloseout
    <3> QED BY <2>1, <3>1, <3>2 DEF StartCloseout
  <2>2. CASE FinishCloseout(p)
    BY <2>2 DEF FinishCloseout
  <2> QED BY <1>3, <2>1, <2>2 DEF Reload, Reconnect
<1>4. ASSUME NEW p \in Procs, Crash(p) PROVE TurnOK'
  BY <1>4 DEF Crash
<1>5. ASSUME NEW i \in Pumps, PumpStep(i) \/ Unsubscribe(i) PROVE TurnOK'
  BY <1>5 DEF PumpStep, PumpRead, PumpSend, PumpCheck, PumpWait, Unsubscribe
<1> QED BY <1>1, <1>2, <1>3, <1>4, <1>5 DEF Next

\* A pump holds a prefix of the log: it reads one, and the log only grows.
LEMMA PumpsStep ==
    ASSUME TypeOK, CachesWithin, BatchesWithin, LogStep, LogOK', Next
    PROVE  PumpsOK' /\ BatchesWithin'
<1>1. /\ file \in Seq(Frame) /\ file' \in Seq(Frame)
      /\ << >> \in Seq(Frame) /\ Within(<< >>, file')
  BY DEF TypeOK, LogOK, Within
<1> DEFINE OnePump(i) ==
             /\ pump'[i] \in [pc : {"none", "read", "send", "wait", "ended"},
                              at : Procs, conn : Nat, cursor : Nat,
                              batch : Seq(Frame), closed : BOOLEAN]
             /\ Within(pump'[i].batch, file')
<1>2. ASSUME NEW i \in Pumps, pump'[i] = pump[i] PROVE OnePump(i)
  BY <1>1, <1>2, WithinStays DEF TypeOK, PumpsOK, BatchesWithin
<1>3. CASE UNCHANGED pump
  BY <1>2, <1>3 DEF PumpsOK, BatchesWithin, TypeOK
<1>4. CASE Attach
  <2>1. CASE UNCHANGED pump
    BY <1>3, <2>1
  <2>2. ASSUME NEW i \in Pumps,
               pump' = [k \in Pumps |->
                     IF k = i THEN [NoPump EXCEPT !.pc = "read",
                                        !.at = client.at,
                                        !.conn = client.conn,
                                        !.cursor = resume[1]]
                     ELSE IF pump[k].conn = client.conn
                     THEN [pump[k] EXCEPT !.closed = TRUE]
                     ELSE pump[k]]
        PROVE  PumpsOK' /\ BatchesWithin'
    <3>1. client.at \in Procs /\ client.conn \in Nat /\ resume[1] \in Nat
      BY <1>4 DEF Attach, TypeOK, SocketsOK
    <3>2. ASSUME NEW k \in Pumps PROVE OnePump(k)
      <4>1. CASE k = i
        BY <1>1, <2>2, <3>1, <4>1 DEF NoPump
      <4>2. CASE k # i
        <5>1. Within(pump[k].batch, file')
          BY <1>1, WithinStays DEF TypeOK, PumpsOK, BatchesWithin
        <5> QED BY <2>2, <4>2, <5>1 DEF TypeOK, PumpsOK
      <4> QED BY <4>1, <4>2
    <3> QED BY <2>2, <3>2 DEF PumpsOK, BatchesWithin
  <2> QED BY <1>4, <2>1, <2>2 DEF Attach
<1>5. ASSUME NEW i \in Pumps, PumpStep(i) \/ Unsubscribe(i)
      PROVE  PumpsOK' /\ BatchesWithin'
  <2>1. PICK r : SetPump(i, r)
    BY <1>5 DEF PumpStep, PumpRead, PumpSend, PumpCheck, PumpWait,
                Unsubscribe, SetPump
  <2>2. pump[i].at \in Procs /\ Loaded(pump[i].at) = file
        /\ Within(file, file') /\ Within(pump[i].batch, file')
    BY <1>1, LoadedIsFile, WithinItself, WithinStays
    DEF TypeOK, PumpsOK, BatchesWithin
  <2>3. OnePump(i)
    <3>0. i \in DOMAIN pump
          /\ pump[i] \in [pc : {"none", "read", "send", "wait", "ended"},
                          at : Procs, conn : Nat, cursor : Nat,
                          batch : Seq(Frame), closed : BOOLEAN]
      BY DEF TypeOK, PumpsOK
    <3>1. CASE PumpRead(i)
      <4>1. \/ pump'[i] = [pump[i] EXCEPT !.pc = "ended"]
            \/ pump'[i] = [pump[i] EXCEPT !.pc = "send", !.batch = file]
        BY <2>2, <3>0, <3>1 DEF PumpRead, SetPump
      <4> QED BY <1>1, <2>2, <3>0, <4>1
    <3>2. CASE PumpSend(i)
      <4>1. \/ pump'[i] = [pump[i] EXCEPT !.pc = "ended"]
            \/ \E c \in {"ended", "send"} :
                  pump'[i] = [pump[i] EXCEPT !.cursor = pump[i].cursor + 1,
                                             !.pc = c]
        BY <3>0, <3>2 DEF PumpSend, SetPump
      <4>2. pump[i].cursor + 1 \in Nat
        BY <3>0
      <4>3. CASE pump'[i] = [pump[i] EXCEPT !.pc = "ended"]
        BY <2>2, <3>0, <4>3
      <4>4. ASSUME NEW c \in {"ended", "send"},
                   pump'[i] = [pump[i] EXCEPT !.cursor = pump[i].cursor + 1,
                                              !.pc = c]
            PROVE  OnePump(i)
        BY <2>2, <3>0, <4>2, <4>4
      <4> QED BY <4>1, <4>3, <4>4
    <3>3. CASE PumpCheck(i) \/ PumpWait(i) \/ Unsubscribe(i)
      <4>1. \/ \E c \in {"wait", "ended", "read"} :
                  pump'[i] = [pump[i] EXCEPT !.pc = c]
            \/ pump'[i] = [pump[i] EXCEPT !.closed = TRUE]
        BY <3>0, <3>3 DEF PumpCheck, PumpWait, Unsubscribe, SetPump
      <4> QED BY <2>2, <3>0, <4>1
    <3> QED BY <1>5, <3>1, <3>2, <3>3 DEF PumpStep
  <2>4. ASSUME NEW k \in Pumps, k # i PROVE OnePump(k)
    BY <1>2, <2>1, <2>4 DEF SetPump, TypeOK, PumpsOK
  <2> QED BY <2>1, <2>3, <2>4 DEF SetPump, PumpsOK, BatchesWithin, TypeOK
<1>6. ASSUME NEW p \in Procs, Crash(p) PROVE PumpsOK' /\ BatchesWithin'
  <2>1. ASSUME NEW k \in Pumps PROVE OnePump(k)
    <3>1. Within(pump[k].batch, file')
      BY <1>1, WithinStays DEF TypeOK, PumpsOK, BatchesWithin
    <3> QED BY <1>6, <3>1 DEF Crash, TypeOK, PumpsOK
  <2> QED BY <1>6, <2>1 DEF Crash, PumpsOK, BatchesWithin
<1>7. UNCHANGED pump \/ Attach \/ (\E p \in Procs : Crash(p))
      \/ (\E i \in Pumps : PumpStep(i) \/ Unsubscribe(i))
  BY DEF Next, Producer, Emit, RunAnswers, RunFinishes, PutTerminal, Cancel,
         Drain, Disconnect, Receive, ResumeAgain, PollHistory, Reload,
         StartCloseout, FinishCloseout, Reconnect
<1> QED BY <1>3, <1>4, <1>5, <1>6, <1>7

\* A message is queued only with the content the log holds at its number.
LEMMA SocketsStep ==
    ASSUME ReplayInv, LogStep, LogOK', Next
    PROVE  SocketsOK' /\ InFlightGenuine' /\ ShownWithin'
<1> DEFINE Sound(q) == q \in Seq(Message) /\ AllGenuine(q, file')
           LiveSound == /\ live' \in [open : BOOLEAN, queue : Seq(Message)]
                        /\ AllGenuine(live'.queue, file')
           ClientSound == /\ client' \in
                               [shown : Seq(Frame), up : BOOLEAN, conn : Nat,
                                at : Procs, fault : BOOLEAN,
                                mode : {"stream", "pending", "history",
                                        "finished"}]
                          /\ Within(client'.shown, file')
<1>1. /\ file \in Seq(Frame) /\ file' \in Seq(Frame) /\ Home \in Procs
      /\ Sound(net) /\ Sound(live.queue) /\ live.open \in BOOLEAN
      /\ Sound(<< >>) /\ << >> \in Seq(Nat)
  <2>1. /\ file \in Seq(Frame) /\ file' \in Seq(Frame)
        /\ net \in Seq(Message) /\ AllGenuine(net, file)
        /\ live.queue \in Seq(Message) /\ AllGenuine(live.queue, file)
        /\ live.open \in BOOLEAN
    BY DEF ReplayInv, TypeOK, LogOK, SocketsOK, InFlightGenuine
  <2>2. << >> \in Seq(Message) /\ AllGenuine(<< >>, file') /\ << >> \in Seq(Nat)
    BY DEF AllGenuine
  <2> QED BY <2>1, <2>2, AllGenuineStays
<1>2. /\ client \in [shown : Seq(Frame), up : BOOLEAN, conn : Nat,
                     at : Procs, fault : BOOLEAN,
                     mode : {"stream", "pending", "history", "finished"}]
      /\ Within(client.shown, file')
      /\ resume \in Seq(Nat) /\ crashes \in Nat
  BY <1>1, WithinStays DEF ReplayInv, TypeOK, SocketsOK, ShownWithin
<1>3. ASSUME LiveSound, Sound(net'), ClientSound, resume' \in Seq(Nat),
             crashes' \in Nat
      PROVE  SocketsOK' /\ InFlightGenuine' /\ ShownWithin'
  BY <1>3 DEF SocketsOK, InFlightGenuine, ShownWithin
<1>4. live' = live => LiveSound
  BY <1>1 DEF ReplayInv, TypeOK, SocketsOK
<1>5. live' = LostLive => LiveSound
  BY <1>1 DEF LostLive
<1>6. client' = client => ClientSound
  BY <1>2
<1> HIDE DEF LiveSound, ClientSound, Sound
<1>7. CASE Producer
  <2>1. ASSUME NEW m \in Message, Genuine(m, file'), live' = Enqueued(m)
        PROVE  LiveSound
    <3>1. Append(live.queue, m) \in Seq(Message)
          /\ AllGenuine(Append(live.queue, m), file')
      BY <1>1, <2>1, AllGenuineAppend DEF Sound
    <3>2. live \in [open : BOOLEAN, queue : Seq(Message)]
      BY DEF ReplayInv, TypeOK, SocketsOK
    <3>3. CASE live.open
      <4>1. live' = [live EXCEPT !.queue = Append(live.queue, m)]
        BY <2>1, <3>3 DEF Enqueued
      <4> QED BY <3>1, <3>2, <4>1 DEF LiveSound
    <3>4. CASE ~live.open
      BY <1>4, <2>1, <3>4 DEF Enqueued
    <3> QED BY <3>3, <3>4
  <2>2. ASSUME NEW f \in {Token, Done}, NEW pc, Stamp(f, pc) PROVE LiveSound
    <3>1. \/ live' = Enqueued(Notice("fault"))
          \/ \E g \in Frame : /\ live' = Enqueued(Sent(Len(file'), g))
                              /\ Len(file') > 0 /\ g = file'[Len(file')]
      BY <2>2, StampMoves DEF ReplayInv
    <3>2. Notice("fault") \in Message /\ Genuine(Notice("fault"), file')
      BY MessageTypes
    <3>3. ASSUME NEW g \in Frame, Len(file') > 0, g = file'[Len(file')]
          PROVE  /\ Sent(Len(file'), g) \in Message
                 /\ Genuine(Sent(Len(file'), g), file')
      BY <1>1, <3>3, MessageTypes
    <3> QED BY <2>1, <3>1, <3>2, <3>3
  <2>3. LiveSound
    BY <1>4, <1>7, <2>2
    DEF Producer, Emit, RunAnswers, RunFinishes, PutTerminal
  <2>4. UNCHANGED <<net, client, resume, crashes>>
    BY <1>7 DEF Producer, Emit, RunAnswers, RunFinishes, PutTerminal
  <2> QED BY <1>1, <1>2, <1>3, <1>6, <2>3, <2>4
<1>8. CASE Drain
  <2>1. live.queue # << >>
    BY <1>8 DEF Drain
  <2>2. /\ Tail(live.queue) \in Seq(Message) /\ AllGenuine(Tail(live.queue), file')
        /\ live.queue[1] \in Message /\ Genuine(live.queue[1], file')
    BY <1>1, <2>1, AllGenuineTail DEF Sound
  <2>3. Sound(Append(net, live.queue[1]))
    BY <1>1, <2>2, AllGenuineAppend DEF Sound
  <2>4. live' = [live EXCEPT !.queue = Tail(live.queue)] => LiveSound
    BY <2>2 DEF LiveSound, ReplayInv, TypeOK, SocketsOK
  <2> QED BY <1>1, <1>2, <1>3, <1>5, <1>6, <1>8, <2>3, <2>4 DEF Drain
<1>9. CASE Attach
  <2>1. Sound(net')
    <3>1. CASE UNCHANGED net
      BY <1>1, <3>1
    <3>2. CASE net' = Append(net, Notice(Disposition(client.at)))
               /\ Disposition(client.at) # "ready"
      <4>1. Disposition(client.at) \in {"pending", "interrupted"}
        BY <3>2 DEF Disposition
      <4> QED BY <1>1, <3>2, <4>1, MessageTypes, AllGenuineAppend DEF Sound
    <3> QED BY <1>9, <3>1, <3>2 DEF Attach
  <2> QED BY <1>1, <1>2, <1>3, <1>4, <1>6, <1>9, <2>1 DEF Attach
<1>10. CASE Receive
  <2>1. net # << >> /\ client' = Handle(net[1])
    BY <1>10 DEF Receive
  <2>2. /\ Sound(Tail(net)) /\ net[1] \in Message /\ Genuine(net[1], file')
    BY <1>1, <2>1, AllGenuineTail DEF Sound
  <2>3. ClientSound
    <3>1. CASE net[1].kind = "frame" /\ net[1].seq = Len(client.shown) + 1
      <4>1. /\ net[1].frame = file'[Len(client.shown) + 1]
            /\ Len(client.shown) + 1 <= Len(file')
            /\ net[1].frame \in Frame
        BY <2>2, <3>1 DEF Genuine, Message
      <4>2. Append(client.shown, net[1].frame) \in Seq(Frame)
            /\ Within(Append(client.shown, net[1].frame), file')
        BY <1>1, <1>2, <4>1, WithinAppend
      <4>3. \/ client' = client
            \/ \E m \in {"finished", "stream"} :
                  client' = [client EXCEPT
                        !.shown = Append(client.shown, net[1].frame),
                        !.mode = m]
        BY <2>1, <3>1 DEF Handle, Expected
      <4> QED BY <1>2, <1>6, <4>2, <4>3 DEF ClientSound
    <3>2. CASE ~(net[1].kind = "frame" /\ net[1].seq = Len(client.shown) + 1)
      <4>1. \/ client' = client
            \/ \E m \in {"pending", "history"}, b \in BOOLEAN :
                  client' = [client EXCEPT !.fault = b, !.mode = m]
            \/ client' = [client EXCEPT
                             !.up = net[1].seq < Len(client.shown) + 1]
        BY <2>1, <3>2 DEF Handle, Expected
      <4>2. (net[1].seq < Len(client.shown) + 1) \in BOOLEAN
        OBVIOUS
      <4> QED BY <1>2, <1>6, <4>1, <4>2 DEF ClientSound
    <3> QED BY <3>1, <3>2
  <2> QED BY <1>1, <1>2, <1>3, <1>4, <1>5, <1>10, <2>2, <2>3 DEF Receive
<1>11. CASE Disconnect \/ ResumeAgain \/ PollHistory \/ Cancel
  <2>1. ClientSound
    BY <1>2, <1>6, <1>11
    DEF ClientSound, Disconnect, ResumeAgain, PollHistory, Cancel
  <2>2. resume' \in Seq(Nat)
    <3>1. <<Len(client.shown)>> \in Seq(Nat)
      BY <1>2
    <3> QED BY <1>1, <1>2, <1>11, <3>1
            DEF Disconnect, ResumeAgain, PollHistory, Cancel
  <2> QED BY <1>1, <1>2, <1>3, <1>4, <1>5, <1>11, <2>1, <2>2
          DEF Disconnect, ResumeAgain, PollHistory, Cancel
<1>12. ASSUME NEW p \in Procs,
              Reload(p) \/ StartCloseout(p) \/ FinishCloseout(p)
       PROVE  SocketsOK' /\ InFlightGenuine' /\ ShownWithin'
  BY <1>1, <1>2, <1>3, <1>4, <1>6, <1>12
  DEF Reload, StartCloseout, FinishCloseout
<1>13. ASSUME NEW p \in Procs, Reconnect(p)
       PROVE  SocketsOK' /\ InFlightGenuine' /\ ShownWithin'
  <2>1. ClientSound
    <3>1. client' = [client EXCEPT !.up = TRUE, !.at = p,
                                  !.conn = client.conn + 1]
      BY <1>13 DEF Reconnect
    <3>2. client.conn + 1 \in Nat
      BY <1>2
    <3> QED BY <1>2, <3>1, <3>2 DEF ClientSound
  <2>2. resume' \in Seq(Nat)
    <3>1. <<Len(client.shown)>> \in Seq(Nat)
      BY <1>2
    <3> QED BY <1>1, <1>13, <3>1 DEF Reconnect
  <2> QED BY <1>1, <1>2, <1>3, <1>4, <1>13, <2>1, <2>2 DEF Reconnect
<1>14. ASSUME NEW p \in Procs, Crash(p)
       PROVE  SocketsOK' /\ InFlightGenuine' /\ ShownWithin'
  <2>1. ClientSound
    BY <1>2, <1>6, <1>14 DEF ClientSound, Crash
  <2>2. resume' \in Seq(Nat) /\ Sound(net') /\ crashes' \in Nat
    <3>1. crashes' \in Nat
      BY <1>2, <1>14 DEF Crash
    <3>2. \/ net' = << >> /\ resume' = << >>
          \/ net' = net /\ resume' = resume
      BY <1>14 DEF Crash
    <3> QED BY <1>1, <1>2, <3>1, <3>2
  <2> QED BY <1>3, <1>4, <1>5, <1>14, <2>1, <2>2 DEF Crash
<1>15. ASSUME NEW i \in Pumps, PumpStep(i) \/ Unsubscribe(i)
       PROVE  SocketsOK' /\ InFlightGenuine' /\ ShownWithin'
  <2>1. Sound(net')
    <3>1. CASE UNCHANGED net
      BY <1>1, <3>1
    <3>2. CASE net' # net
      <4> DEFINE n == pump[i].cursor + 1
      <4>1. /\ PumpSend(i) /\ n <= Len(pump[i].batch)
            /\ net' = Append(net, Sent(n, pump[i].batch[n]))
        BY <1>15, <3>2 DEF PumpStep, PumpRead, PumpSend, PumpCheck, PumpWait,
                           Unsubscribe
      <4>2. /\ pump[i].batch \in Seq(Frame) /\ pump[i].cursor \in Nat
            /\ Within(pump[i].batch, file')
        BY <1>1, WithinStays DEF ReplayInv, TypeOK, PumpsOK, BatchesWithin
      <4>3. n \in 1 .. Len(file') /\ pump[i].batch[n] = file'[n]
            /\ pump[i].batch[n] \in Frame /\ n \in Nat
        <5>1. /\ Len(pump[i].batch) \in Nat /\ Len(file') \in Nat
              /\ Len(pump[i].batch) <= Len(file')
          BY <1>1, <4>2 DEF Within
        <5>2. n \in 1 .. Len(pump[i].batch) /\ n \in Nat
          BY <4>1, <4>2, <5>1
        <5> HIDE DEF n
        <5>3. n \in 1 .. Len(file')
          BY <5>1, <5>2
        <5>4. pump[i].batch[n] = file'[n]
          BY <4>2, <5>2 DEF Within
        <5>5. pump[i].batch[n] \in Frame
          BY <4>2, <5>2, ElementOfSeq
        <5> QED BY <5>2, <5>3, <5>4, <5>5
      <4>4. /\ Sent(n, pump[i].batch[n]) \in Message
            /\ Genuine(Sent(n, pump[i].batch[n]), file')
        BY <1>1, <4>3, MessageTypes
      <4> QED BY <1>1, <4>1, <4>4, AllGenuineAppend DEF Sound
    <3> QED BY <3>1, <3>2
  <2>2. UNCHANGED <<live, client, resume, crashes>>
    BY <1>15 DEF PumpStep, PumpRead, PumpSend, PumpCheck, PumpWait,
                 Unsubscribe
  <2> QED BY <1>2, <1>3, <1>4, <1>6, <2>1, <2>2
<1> QED BY <1>7, <1>8, <1>9, <1>10, <1>11, <1>12, <1>13, <1>14, <1>15 DEF Next

LEMMA ReplayInit == Init => ReplayInv
<1> SUFFICES ASSUME Init PROVE ReplayInv
  OBVIOUS
<1>1. /\ << >> \in Seq(Frame) /\ << >> \in Seq(Message) /\ << >> \in Seq(Nat)
      /\ << >> \in Seq({"own", "repair"})
      /\ Len(<< >>) = 0 /\ Home \in Procs
  OBVIOUS
<1>2. LogOK /\ TurnOK
  BY <1>1 DEF Init, LogOK, TurnOK
<1>3. PumpsOK
  BY <1>1 DEF Init, PumpsOK, NoPump
<1>4. SocketsOK
  BY <1>1 DEF Init, SocketsOK
<1>5. CachesWithin /\ BatchesWithin /\ InFlightGenuine /\ ShownWithin
  BY <1>1 DEF Init, NoPump, CachesWithin, BatchesWithin, InFlightGenuine,
              ShownWithin, Within, AllGenuine
<1> QED BY <1>2, <1>3, <1>4, <1>5 DEF ReplayInv, TypeOK

LEMMA ReplayStep == ReplayInv /\ [Next]_vars => ReplayInv' /\ LogStep
<1> SUFFICES ASSUME ReplayInv, [Next]_vars PROVE ReplayInv' /\ LogStep
  OBVIOUS
<1>1. CASE UNCHANGED vars
  BY <1>1 DEF vars, LogStep, ReplayInv, TypeOK, LogOK, TurnOK, PumpsOK,
              SocketsOK, CachesWithin, BatchesWithin, InFlightGenuine,
              ShownWithin
<1>2. CASE Next
  <2>1. LogStep /\ LogOK' /\ CachesWithin'
    BY <1>2, NextMoves DEF ReplayInv
  <2>2. TurnOK'
    BY <1>2, TurnStep DEF ReplayInv
  <2>3. PumpsOK' /\ BatchesWithin'
    BY <1>2, <2>1, PumpsStep DEF ReplayInv
  <2>4. SocketsOK' /\ InFlightGenuine' /\ ShownWithin'
    BY <1>2, <2>1, SocketsStep
  <2> QED BY <2>1, <2>2, <2>3, <2>4 DEF ReplayInv, TypeOK
<1> QED BY <1>1, <1>2

-----------------------------------------------------------------------------
\* The variables of TurnReplay always have their types.
THEOREM ReplayTypeCorrect == Spec => []TypeOK
<1>1. ReplayInv => TypeOK
  BY DEF ReplayInv
<1> QED BY <1>1, ReplayInit, ReplayStep, PTL DEF Spec

\* A step of the client applies the next frame of the log, or none.
LEMMA ShownStep ==
    ASSUME ReplayInv, [Next]_vars
    PROVE  \/ client'.shown = client.shown
           \/ /\ Len(client.shown) < Len(file) /\ file' = file
              /\ client'.shown =
                    Append(client.shown, file[Len(client.shown) + 1])
<1>1. CASE Receive /\ client'.shown # client.shown
  <2>1. net # << >> /\ client' = Handle(net[1]) /\ file' = file
    BY <1>1 DEF Receive
  <2>2. net[1] \in Message /\ Genuine(net[1], file)
    BY <2>1, AllGenuineTail DEF ReplayInv, TypeOK, SocketsOK, InFlightGenuine
  <2>3. client \in [shown : Seq(Frame), up : BOOLEAN, conn : Nat,
                    at : Procs, fault : BOOLEAN,
                    mode : {"stream", "pending", "history", "finished"}]
    BY DEF ReplayInv, TypeOK, SocketsOK
  <2>4. /\ net[1].kind = "frame" /\ net[1].seq = Len(client.shown) + 1
        /\ client'.shown = Append(client.shown, net[1].frame)
    BY <1>1, <2>1, <2>3 DEF Handle, Expected
  <2>5. Len(client.shown) \in Nat /\ Len(file) \in Nat
    BY <2>3 DEF ReplayInv, TypeOK, LogOK
  <2> QED BY <2>1, <2>2, <2>4, <2>5 DEF Genuine
<1>2. CASE ~Receive
  <2>1. client \in [shown : Seq(Frame), up : BOOLEAN, conn : Nat,
                    at : Procs, fault : BOOLEAN,
                    mode : {"stream", "pending", "history", "finished"}]
    BY DEF ReplayInv, TypeOK, SocketsOK
  <2> QED
    BY <1>2, <2>1
    DEF Next, vars, Producer, Emit, RunAnswers, RunFinishes, PutTerminal,
        Cancel, Drain, Disconnect, Attach, ResumeAgain, PollHistory, Reload,
        StartCloseout, FinishCloseout, Reconnect, Crash, PumpStep, PumpRead,
        PumpSend, PumpCheck, PumpWait, Unsubscribe
<1> QED BY <1>1, <1>2

\* The replay of a turn is the stream its readers are promised: the log only
\* grows and ends with its one terminal frame, and the client applies exactly
\* its frames, each once and in order, through any number of processes, torn
\* writes, restarts, lost sockets and repeated resumes.
THEOREM ReplayIsStream == Spec => StreamSpec
<1>1. Init => Stream!Init
  BY DEF Init, Stream!Init
<1>2. ReplayInv /\ [Next]_vars
        => [Stream!Next]_<<file, client.shown>>
  <2> SUFFICES ASSUME ReplayInv, [Next]_vars,
                      ~(UNCHANGED <<file, client.shown>>)
               PROVE  Stream!Next
    OBVIOUS
  <2>1. CASE client'.shown = client.shown
    BY <2>1, ReplayStep
    DEF LogStep, Stream!Next, Stream!Grow, Stream!Ended, Ended, Stream!Frame,
        Frame
  <2>2. CASE client'.shown # client.shown
    BY <2>2, ShownStep DEF Stream!Next, Stream!Show
  <2> QED BY <2>1, <2>2
<1> QED BY <1>1, <1>2, ReplayInit, ReplayStep, PTL
        DEF Spec, StreamSpec, Stream!Spec

-----------------------------------------------------------------------------
(* One answer.                                                             *)

\* Nobody has declared over, or is closing, a run that has not answered.
RunIsOpen ==
    prod.pc = "run" =>
        answers = << >> /\ record = "running" /\ job = "running" /\ closer = {}

LEMMA AnswerStep ==
    ASSUME "cancel" \notin Faults, "peerRestart" \notin Faults,
           TypeOK, RunIsOpen, OneAnswer, [Next]_vars
    PROVE  RunIsOpen' /\ OneAnswer'
<1> USE DEF RunIsOpen, OneAnswer
<1>0. /\ answers \in Seq({"own", "repair"})
      /\ prod \in [pc : {"run", "answered", "recorded", "over", "dead"},
                   open : BOOLEAN, faulted : BOOLEAN]
  BY DEF TypeOK, TurnOK
<1>1. CASE RunAnswers
  <2>1. answers = << >> /\ answers' = <<"own">> /\ prod'.pc = "answered"
    BY <1>0, <1>1 DEF RunAnswers
  <2> QED BY <2>1
<1>2. ASSUME NEW f, NEW pc, Stamp(f, pc) PROVE prod'.pc = pc
  BY <1>0, <1>2 DEF Stamp, Fault
<1>3. CASE Emit
  BY <1>2, <1>3 DEF Emit
<1>4. CASE RunFinishes
  BY <1>0, <1>4 DEF RunFinishes
<1>5. CASE PutTerminal
  BY <1>0, <1>2, <1>5 DEF PutTerminal
<1>6. ASSUME NEW p \in Procs, StartCloseout(p) PROVE RunIsOpen' /\ OneAnswer'
  <2>1. prod.pc # "run" /\ prod' = prod
    BY <1>6 DEF StartCloseout, Closable
  <2>2. Len(answers') <= 1
    BY <1>6 DEF StartCloseout
  <2> QED BY <2>1, <2>2
<1>7. ASSUME NEW p \in Procs, FinishCloseout(p)
      PROVE  RunIsOpen' /\ OneAnswer'
  BY <1>7 DEF FinishCloseout
<1>8. ASSUME NEW p \in Procs, Crash(p) PROVE RunIsOpen' /\ OneAnswer'
  <2>1. p = Home /\ prod'.pc = "dead" /\ answers' = answers
    BY <1>0, <1>8 DEF Crash
  <2> QED BY <2>1
<1>9. CASE UNCHANGED <<prod, record, job, answers, closer>>
  BY <1>9
<1> QED
  BY <1>1, <1>3, <1>4, <1>5, <1>6, <1>7, <1>8, <1>9
  DEF Next, vars, Producer, Cancel, Drain, Disconnect, Attach, Receive,
      ResumeAgain, PollHistory, Reload, Reconnect, PumpStep, PumpRead,
      PumpSend, PumpCheck, PumpWait, Unsubscribe

\* One request gets one assistant message, whatever is dropped, crashes at
\* Home or fails to be written, as long as the turn is not cancelled and no
\* other process starts again meanwhile: those two let a closeout take a turn
\* that still runs for a dead one (_reconcile_running_request_record,
\* reconcile_running_jobs).
THEOREM OneAnswerIsStored ==
    ASSUME "cancel" \notin Faults, "peerRestart" \notin Faults
    PROVE  Spec => []OneAnswer
<1> DEFINE AnswerInv == ReplayInv /\ RunIsOpen /\ OneAnswer
<1>1. Init => AnswerInv
  <2>1. Init => RunIsOpen /\ OneAnswer
    BY DEF Init, RunIsOpen, OneAnswer
  <2> QED BY <2>1, ReplayInit
<1>2. AnswerInv /\ [Next]_vars => AnswerInv'
  <2>1. ReplayInv => TypeOK
    BY DEF ReplayInv
  <2> QED BY <2>1, AnswerStep, ReplayStep
<1> QED BY <1>1, <1>2, PTL DEF Spec

-----------------------------------------------------------------------------
(* No gap on a socket.  A frame number is reached if the client will have  *)
(* applied it, or one behind it, when it has read what is on its way.      *)

IsFrame(m) == m.kind = "frame"

Carries(q, n) == \E k \in 1 .. Len(q) : IsFrame(q[k]) /\ n <= q[k].seq
Reaches(s, q, n) == n <= s \/ Carries(q, n)

\* Each frame of q continues s and base, or one before it in q.
Follows(q, s, base) ==
    \A k \in 1 .. Len(q) : IsFrame(q[k]) =>
        \/ Reaches(s, base, q[k].seq - 1)
        \/ \E j \in 1 .. k - 1 : IsFrame(q[j]) /\ q[k].seq - 1 <= q[j].seq

LEMMA SeqsAreNumbers ==
    ASSUME NEW q \in Seq(Message)
    PROVE  \A k \in 1 .. Len(q) : q[k].seq \in Nat
<1>1. \A k \in 1 .. Len(q) : q[k] \in Message
  OBVIOUS
<1> QED BY <1>1 DEF Message

LEMMA TailItems ==
    ASSUME NEW q \in Seq(Message), q # << >>
    PROVE  /\ Len(q) \in Nat /\ Len(q) > 0 /\ q[1] \in Message
           /\ Tail(q) \in Seq(Message) /\ Len(Tail(q)) = Len(q) - 1
           /\ \A k \in 1 .. Len(Tail(q)) : Tail(q)[k] = q[k + 1]
           /\ \A j \in 2 .. Len(q) : Tail(q)[j - 1] = q[j]
  OBVIOUS

LEMMA AppendCarries ==
    ASSUME NEW q \in Seq(Message), NEW m \in Message
    PROVE  /\ \A n \in Int : Carries(q, n) => Carries(Append(q, m), n)
           /\ IsFrame(m) => Carries(Append(q, m), m.seq)
<1>1. /\ Len(q) \in Nat /\ Len(Append(q, m)) = Len(q) + 1
      /\ Append(q, m)[Len(q) + 1] = m
      /\ \A k \in 1 .. Len(q) : Append(q, m)[k] = q[k]
  OBVIOUS
<1>2. m.seq \in Nat
  BY DEF Message
<1> QED BY <1>1, <1>2 DEF Carries

LEMMA AppendReaches ==
    ASSUME NEW q \in Seq(Message), NEW m \in Message, NEW s \in Nat,
           NEW n \in Int, Reaches(s, q, n)
    PROVE  Reaches(s, Append(q, m), n)
  BY AppendCarries DEF Reaches

LEMMA AppendFollows ==
    ASSUME NEW q \in Seq(Message), NEW b \in Seq(Message), NEW s \in Nat,
           NEW m \in Message, Follows(q, s, b),
           IsFrame(m) => Reaches(s, b, m.seq - 1) \/ Carries(q, m.seq - 1)
    PROVE  Follows(Append(q, m), s, b)
<1>1. /\ Len(q) \in Nat /\ Len(Append(q, m)) = Len(q) + 1
      /\ Append(q, m)[Len(q) + 1] = m
      /\ \A k \in 1 .. Len(q) : Append(q, m)[k] = q[k]
  OBVIOUS
<1> DEFINE r == Append(q, m)
<1> HIDE DEF r
<1>2. /\ Len(q) \in Nat /\ Len(r) = Len(q) + 1 /\ r[Len(q) + 1] = m
      /\ \A k \in 1 .. Len(q) : r[k] = q[k]
  BY <1>1 DEF r
<1> SUFFICES ASSUME NEW k \in 1 .. Len(r), IsFrame(r[k])
             PROVE  \/ Reaches(s, b, r[k].seq - 1)
                    \/ \E j \in 1 .. k - 1 :
                          IsFrame(r[j]) /\ r[k].seq - 1 <= r[j].seq
  BY DEF Follows, r
<1>3. CASE k \in 1 .. Len(q)
  <2> DEFINE size == Len(q)
  <2>1. size \in Nat /\ k \in 1 .. size
    BY <1>2, <1>3
  <2> HIDE DEF size
  <2>2. 1 .. k - 1 \subseteq 1 .. size
    BY <2>1
  <2>3. \A j \in 1 .. size : r[j] = q[j]
    BY <1>2 DEF size
  <2>4. r[k] = q[k] /\ \A j \in 1 .. k - 1 : r[j] = q[j]
    BY <2>1, <2>2, <2>3, Zenon
  <2> QED BY <1>3, <2>4 DEF Follows
<1>4. CASE k = Len(q) + 1
  <2>1. r[k] = m /\ 1 .. k - 1 = 1 .. Len(q)
    BY <1>2, <1>4
  <2> QED BY <1>2, <2>1 DEF Carries
<1> QED BY <1>2, <1>3, <1>4

LEMMA MoreFollows ==
    ASSUME NEW q \in Seq(Message), NEW b, NEW s, NEW c, NEW t,
           Follows(q, s, b),
           \A n \in Int : Reaches(s, b, n) => Reaches(t, c, n)
    PROVE  Follows(q, t, c)
<1>1. \A k \in 1 .. Len(q) : q[k].seq - 1 \in Int
  BY SeqsAreNumbers
<1> QED BY <1>1 DEF Follows

\* what is drained from the queue goes on, in its order, behind the socket
LEMMA DrainFollows ==
    ASSUME NEW q \in Seq(Message), NEW b \in Seq(Message), NEW s \in Nat,
           Follows(q, s, b), q # << >>
    PROVE  /\ IsFrame(q[1]) => Reaches(s, b, q[1].seq - 1)
           /\ Follows(Tail(q), s, Append(b, q[1]))
           /\ \A n \in Int : Carries(q, n) =>
                 Carries(Tail(q), n) \/ Carries(Append(b, q[1]), n)
<1> DEFINE r == Tail(q)
           c == Append(b, q[1])
<1>1. /\ Len(q) \in Nat /\ Len(q) > 0 /\ q[1] \in Message
      /\ Len(r) = Len(q) - 1
      /\ \A k \in 1 .. Len(r) : r[k] = q[k + 1]
      /\ \A j \in 2 .. Len(q) : r[j - 1] = q[j]
      /\ \A k \in 1 .. Len(q) : q[k].seq \in Nat
  BY TailItems, SeqsAreNumbers
<1>2. IsFrame(q[1]) => Reaches(s, b, q[1].seq - 1)
  BY <1>1 DEF Follows
<1>3. \A n \in Int : Reaches(s, b, n) => Reaches(s, c, n)
  BY <1>1, AppendReaches
<1>4. \A n \in Int : IsFrame(q[1]) /\ n <= q[1].seq => Carries(c, n)
  <2>1. IsFrame(q[1]) => Carries(c, q[1].seq)
    BY <1>1, AppendCarries
  <2>2. c \in Seq(Message)
    BY <1>1
  <2>3. \A k \in 1 .. Len(c) : c[k].seq \in Nat
    BY <2>2, SeqsAreNumbers
  <2> HIDE DEF c
  <2> QED BY <1>1, <2>1, <2>3 DEF Carries
<1> HIDE DEF r, c
<1>5. Follows(r, s, c)
  <2> SUFFICES ASSUME NEW k \in 1 .. Len(r), IsFrame(r[k])
               PROVE  \/ Reaches(s, c, r[k].seq - 1)
                      \/ \E j \in 1 .. k - 1 :
                            IsFrame(r[j]) /\ r[k].seq - 1 <= r[j].seq
    BY DEF Follows
  <2>1. k + 1 \in 1 .. Len(q) /\ r[k] = q[k + 1] /\ r[k].seq - 1 \in Int
    BY <1>1
  <2>2. CASE Reaches(s, b, r[k].seq - 1)
    BY <1>3, <2>1, <2>2
  <2>3. CASE ~Reaches(s, b, r[k].seq - 1)
    <3>1. PICK j \in 1 .. k : IsFrame(q[j]) /\ r[k].seq - 1 <= q[j].seq
      <4>1. (k + 1) - 1 = k
        OBVIOUS
      <4>2. IsFrame(q[k + 1]) /\ ~Reaches(s, b, q[k + 1].seq - 1)
        BY <2>1, <2>3
      <4>3. \E j \in 1 .. (k + 1) - 1 :
               IsFrame(q[j]) /\ q[k + 1].seq - 1 <= q[j].seq
        BY <2>1, <4>2 DEF Follows
      <4> QED BY <2>1, <4>1, <4>3
    <3>2. CASE j = 1
      BY <1>4, <2>1, <3>1, <3>2 DEF Reaches
    <3>3. CASE j # 1
      <4>1. j - 1 \in 1 .. k - 1 /\ j - 1 \in 1 .. Len(r)
        BY <1>1, <3>1, <3>3
      <4>2. r[j - 1] = q[j]
        BY <1>1, <3>1, <3>3, <4>1
      <4> QED BY <3>1, <4>1, <4>2
    <3> QED BY <3>2, <3>3
  <2> QED BY <2>2, <2>3
<1>6. ASSUME NEW n \in Int, Carries(q, n) PROVE Carries(r, n) \/ Carries(c, n)
  <2>1. PICK k \in 1 .. Len(q) : IsFrame(q[k]) /\ n <= q[k].seq
    BY <1>6 DEF Carries
  <2>2. CASE k = 1
    BY <1>4, <2>1, <2>2
  <2>3. CASE k # 1
    <3>1. k - 1 \in 1 .. Len(r) /\ r[k - 1] = q[k]
      BY <1>1, <2>1, <2>3
    <3> QED BY <2>1, <3>1 DEF Carries
  <2> QED BY <2>2, <2>3
<1> QED BY <1>2, <1>5, <1>6 DEF r, c

\* the client takes the head of the socket
LEMMA HeadTaken ==
    ASSUME NEW q \in Seq(Message), NEW s \in Nat, NEW t \in Nat,
           Follows(q, s, << >>), q # << >>, s <= t,
           IsFrame(q[1]) => q[1].seq <= t
    PROVE  /\ Follows(Tail(q), t, << >>)
           /\ \A n \in Int : Reaches(s, q, n) => Reaches(t, Tail(q), n)
<1> DEFINE r == Tail(q)
<1>1. /\ Len(q) \in Nat /\ Len(q) > 0
      /\ Len(r) = Len(q) - 1
      /\ \A k \in 1 .. Len(r) : r[k] = q[k + 1]
      /\ \A j \in 2 .. Len(q) : r[j - 1] = q[j]
      /\ \A k \in 1 .. Len(q) : q[k].seq \in Nat
  BY TailItems, SeqsAreNumbers
<1>2. \A u, n : Reaches(u, << >>, n) <=> n <= u
  BY DEF Reaches, Carries
<1> HIDE DEF r
<1>3. Follows(r, t, << >>)
  <2> SUFFICES ASSUME NEW k \in 1 .. Len(r), IsFrame(r[k])
               PROVE  \/ r[k].seq - 1 <= t
                      \/ \E j \in 1 .. k - 1 :
                            IsFrame(r[j]) /\ r[k].seq - 1 <= r[j].seq
    BY <1>2 DEF Follows
  <2>1. k + 1 \in 1 .. Len(q) /\ r[k] = q[k + 1] /\ r[k].seq \in Nat
    BY <1>1
  <2>2. CASE r[k].seq - 1 <= s
    BY <2>1, <2>2
  <2>3. CASE ~(r[k].seq - 1 <= s)
    <3>1. PICK j \in 1 .. k : IsFrame(q[j]) /\ r[k].seq - 1 <= q[j].seq
      <4>1. (k + 1) - 1 = k
        OBVIOUS
      <4>2. IsFrame(q[k + 1]) /\ ~Reaches(s, << >>, q[k + 1].seq - 1)
        BY <1>2, <2>1, <2>3
      <4>3. \E j \in 1 .. (k + 1) - 1 :
               IsFrame(q[j]) /\ q[k + 1].seq - 1 <= q[j].seq
        BY <2>1, <4>2 DEF Follows
      <4> QED BY <2>1, <4>1, <4>3
    <3>2. CASE j = 1
      <4>1. /\ IsFrame(q[1]) /\ r[k].seq - 1 <= q[1].seq
            /\ q[1].seq \in Nat /\ q[1].seq <= t
        BY <1>1, <3>1, <3>2
      <4>2. r[k].seq - 1 <= t
        BY <1>1, <2>1, <4>1
      <4> QED BY <4>2
    <3>3. CASE j # 1
      <4>1. j - 1 \in 1 .. k - 1 /\ j - 1 \in 1 .. Len(r)
        BY <1>1, <3>1, <3>3
      <4>2. r[j - 1] = q[j]
        BY <1>1, <3>1, <3>3, <4>1
      <4> QED BY <3>1, <4>1, <4>2
    <3> QED BY <3>2, <3>3
  <2> QED BY <2>2, <2>3
<1>4. ASSUME NEW n \in Int, Reaches(s, q, n) PROVE Reaches(t, r, n)
  <2>1. CASE n <= s
    BY <2>1 DEF Reaches
  <2>2. CASE ~(n <= s)
    <3>1. PICK k \in 1 .. Len(q) : IsFrame(q[k]) /\ n <= q[k].seq
      BY <1>4, <2>2 DEF Reaches, Carries
    <3>2. CASE k = 1
      BY <1>1, <3>1, <3>2 DEF Reaches
    <3>3. CASE k # 1
      <4>1. k - 1 \in 1 .. Len(r) /\ r[k - 1] = q[k]
        BY <1>1, <3>1, <3>3
      <4> QED BY <3>1, <4>1 DEF Reaches, Carries
    <3> QED BY <3>2, <3>3
  <2> QED BY <2>1, <2>2
<1> QED BY <1>3, <1>4 DEF r

-----------------------------------------------------------------------------
\* What the client has applied, or its socket carries, goes as far as n; the
\* queue of the submitting socket included.
Covered(n) == Reaches(Len(client.shown), net, n)
CoveredLive(n) == Covered(n) \/ Carries(live.queue, n)

NetChain == Follows(net, Len(client.shown), << >>)
QueueChain == Follows(live.queue, Len(client.shown), net)

\* A subscription of the current connection goes on where its socket is.
PumpsFollow ==
    \A i \in Pumps :
        ~pump[i].closed /\ pump[i].conn = client.conn => Covered(pump[i].cursor)

\* As long as the producer sends, all that is logged is applied or on its
\* way; only the terminal of a closeout, which nobody sends, can be missing.
ProducerFollows ==
    live.open /\ prod.open =>
        CoveredLive(IF Ended(file) THEN Len(file) - 1 ELSE Len(file))

\* Who is connected to what; a producer that has stopped sending is faulted.
Wiring ==
    /\ ~client.up => net = << >> /\ resume = << >>
    /\ live.open => client.up /\ client.at = Home
    /\ live.queue # << >> => live.open
    /\ resume # << >> => resume[1] <= Len(client.shown)
    /\ \A i \in Pumps : pump[i].conn <= client.conn
    /\ prod.pc \in {"run", "answered", "recorded"} => prod.open \/ prod.faulted

Continuous ==
    client.up /\ client.mode # "finished" =>
        NetChain /\ QueueChain /\ PumpsFollow /\ ProducerFollows

GapInv == ReplayInv /\ Wiring /\ Continuous

ClientType == [shown : Seq(Frame), up : BOOLEAN, conn : Nat, at : Procs,
               fault : BOOLEAN,
               mode : {"stream", "pending", "history", "finished"}]

\* what the invariant says of the types of what a socket is made of
LEMMA SocketTypes ==
    ASSUME ReplayInv
    PROVE  /\ client \in ClientType /\ Len(client.shown) \in Nat
           /\ live \in [open : BOOLEAN, queue : Seq(Message)]
           /\ live.queue \in Seq(Message)
           /\ net \in Seq(Message) /\ resume \in Seq(Nat)
           /\ prod \in [pc : {"run", "answered", "recorded", "over", "dead"},
                        open : BOOLEAN, faulted : BOOLEAN]
           /\ file \in Seq(Frame) /\ Len(file) \in Nat
  BY DEF ReplayInv, TypeOK, LogOK, TurnOK, SocketsOK, ClientType

\* the head of the socket is the next frame at most
LEMMA HeadContinues ==
    ASSUME ReplayInv, NetChain, net # << >>, IsFrame(net[1])
    PROVE  net[1].seq <= Len(client.shown) + 1
<1>1. /\ net \in Seq(Message) /\ Len(client.shown) \in Nat /\ 1 \in 1 .. Len(net)
      /\ net[1].seq \in Nat
  BY SocketTypes, SeqsAreNumbers
<1>2. Reaches(Len(client.shown), << >>, net[1].seq - 1)
  BY <1>1 DEF NetChain, Follows
<1> QED BY <1>1, <1>2 DEF Reaches, Carries

\* Receive: the next frame is applied, an earlier one dropped, and the client
\* never has a reason to close its socket.
LEMMA ReceiveMoves ==
    ASSUME ReplayInv, NetChain, client.mode # "finished", Receive
    PROVE  /\ client'.up /\ net' = Tail(net) /\ UNCHANGED <<live, resume>>
           /\ client'.conn = client.conn /\ client'.at = client.at
           /\ Len(client'.shown) \in Nat
           /\ Len(client.shown) <= Len(client'.shown)
           /\ IsFrame(net[1]) => net[1].seq <= Len(client'.shown)
<1>1. /\ client \in ClientType /\ Len(client.shown) \in Nat
      /\ net # << >> /\ client.up /\ client' = Handle(net[1])
      /\ net[1] \in Message /\ net[1].seq \in Nat
  BY SocketTypes, TailItems DEF Receive, Message
<1>2. CASE ~IsFrame(net[1])
  <2>1. client' = [client EXCEPT !.fault = (net[1].kind = "fault"),
                        !.mode = IF net[1].kind = "pending" THEN "pending"
                                 ELSE "history"]
    BY <1>1, <1>2 DEF Handle, IsFrame
  <2>2. /\ client'.shown = client.shown /\ client'.up = client.up
        /\ client'.conn = client.conn /\ client'.at = client.at
    BY <1>1, <2>1 DEF ClientType
  <2> QED BY <1>1, <1>2, <2>2 DEF Receive
<1>3. CASE IsFrame(net[1]) /\ net[1].seq = Len(client.shown) + 1
  <2>1. \E m \in {"finished", "stream"} :
           client' = [client EXCEPT
                        !.shown = Append(client.shown, net[1].frame), !.mode = m]
    BY <1>1, <1>3 DEF Handle, Expected, IsFrame
  <2>2. /\ client'.shown = Append(client.shown, net[1].frame)
        /\ client'.up = client.up
        /\ client'.conn = client.conn /\ client'.at = client.at
    BY <1>1, <2>1 DEF ClientType
  <2>3. Len(client'.shown) = Len(client.shown) + 1
    BY <1>1, <2>2 DEF ClientType
  <2> QED BY <1>1, <1>3, <2>2, <2>3 DEF Receive
<1>4. CASE IsFrame(net[1]) /\ net[1].seq # Len(client.shown) + 1
  <2>1. net[1].seq < Len(client.shown) + 1
    BY <1>1, <1>4, HeadContinues
  <2>2. client' = [client EXCEPT !.up = TRUE]
    BY <1>1, <1>4, <2>1 DEF Handle, Expected, IsFrame
  <2>3. client' = client
    BY <1>1, <2>2 DEF ClientType
  <2> QED BY <1>1, <2>1, <2>3 DEF Receive
<1> QED BY <1>2, <1>3, <1>4

LEMMA WiringStep ==
    ASSUME GapInv, Next, ReplayInv'
    PROVE  Wiring'
<1>1. /\ client \in ClientType /\ Len(client.shown) \in Nat /\ client.conn \in Nat
      /\ live \in [open : BOOLEAN, queue : Seq(Message)]
      /\ net \in Seq(Message) /\ resume \in Seq(Nat)
      /\ prod \in [pc : {"run", "answered", "recorded", "over", "dead"},
                   open : BOOLEAN, faulted : BOOLEAN]
  BY SocketTypes DEF GapInv, ClientType
<1>2. \A i \in Pumps : pump[i].conn \in Nat
  BY DEF GapInv, ReplayInv, TypeOK, PumpsOK
<1> DEFINE Quiet == ~client'.up => net' = << >> /\ resume' = << >>
           LiveUp == live'.open => client'.up /\ client'.at = Home
           LiveKept == live'.queue # << >> => live'.open
           Asked == resume' # << >> => resume'[1] <= Len(client'.shown)
           PumpsOld == \A i \in Pumps : pump'[i].conn <= client'.conn
           Sends == prod'.pc \in {"run", "answered", "recorded"} =>
                       prod'.open \/ prod'.faulted
<1> SUFFICES Quiet /\ LiveUp /\ LiveKept /\ Asked /\ PumpsOld /\ Sends
  BY DEF Wiring
<1>0. Wiring
  BY DEF GapInv
<1>3. CASE Producer
  <2>1. ASSUME NEW f \in {Token, Done}, NEW pc, Stamp(f, pc),
               f = Token \/ pc = "over"
        PROVE  /\ \/ live' = live
                  \/ live.open /\ \E m : live' =
                                    [live EXCEPT !.queue = Append(live.queue, m)]
               /\ Sends
    <3>1. \/ live' = live
          \/ live.open /\ \E m : live' =
                            [live EXCEPT !.queue = Append(live.queue, m)]
      BY <2>1 DEF Stamp, Fault, Enqueued
    <3>2. \/ prod' = [prod EXCEPT !.pc = pc, !.open = ~f.last]
          \/ f.last /\ prod' = [prod EXCEPT !.pc = pc, !.open = FALSE]
          \/ prod' = [prod EXCEPT !.pc = pc, !.open = FALSE, !.faulted = TRUE]
      BY <2>1 DEF Stamp, Fault
    <3>3. ~Token.last /\ Done.last
      BY DEF Token, Done
    <3>4. CASE f = Token
      <4>1. \/ prod' = [prod EXCEPT !.pc = pc, !.open = TRUE]
            \/ prod' = [prod EXCEPT !.pc = pc, !.open = FALSE, !.faulted = TRUE]
        BY <3>2, <3>3, <3>4
      <4>2. prod'.open = TRUE \/ prod'.faulted = TRUE
        BY <1>1, <4>1
      <4> QED BY <3>1, <4>2
    <3>5. CASE pc = "over"
      <4>1. prod'.pc = "over"
        BY <1>1, <3>2, <3>5
      <4> QED BY <3>1, <4>1
    <3> QED BY <2>1, <3>1, <3>4, <3>5
  <2>2. /\ \/ live' = live
           \/ live.open /\ \E m : live' =
                            [live EXCEPT !.queue = Append(live.queue, m)]
        /\ Sends
    <3>1. CASE Emit
      BY <2>1, <3>1 DEF Emit
    <3>2. CASE PutTerminal
      BY <1>1, <2>1, <3>2 DEF PutTerminal
    <3>3. CASE RunAnswers \/ RunFinishes
      BY <1>0, <1>1, <3>3 DEF RunAnswers, RunFinishes, Wiring
    <3> QED BY <1>3, <3>1, <3>2, <3>3 DEF Producer
  <2>3. UNCHANGED <<pump, net, resume, client>>
    BY <1>3 DEF Producer, Emit, RunAnswers, RunFinishes, PutTerminal
  <2>4. live'.open = live.open /\ LiveKept
    BY <1>0, <1>1, <2>2 DEF Wiring
  <2> QED BY <1>0, <2>2, <2>3, <2>4 DEF Wiring
<1>4. CASE Drain
  <2>1. live.open
    BY <1>0, <1>4 DEF Drain, Wiring
  <2>2. CASE live' = LostLive
    BY <1>0, <1>4, <2>1, <2>2 DEF Drain, Wiring, LostLive
  <2>3. CASE live' = [live EXCEPT !.queue = Tail(live.queue)]
    <3>1. live'.open = live.open
      BY <1>1, <2>3
    <3> QED BY <1>0, <1>4, <2>1, <3>1 DEF Drain, Wiring
  <2> QED BY <1>4, <2>2, <2>3 DEF Drain
<1>5. CASE Disconnect
  <2>1. client'.up = FALSE /\ client'.conn = client.conn
    BY <1>1, <1>5 DEF Disconnect, ClientType
  <2> QED BY <1>0, <1>5, <2>1 DEF Disconnect, LostLive, Wiring
<1>6. CASE Attach
  <2>1. PumpsOld
    <3>1. CASE UNCHANGED pump
      BY <1>0, <1>6, <3>1 DEF Attach, Wiring
    <3>2. ASSUME NEW i \in Pumps,
               pump' = [k \in Pumps |->
                     IF k = i THEN [NoPump EXCEPT !.pc = "read",
                                        !.at = client.at,
                                        !.conn = client.conn,
                                        !.cursor = resume[1]]
                     ELSE IF pump[k].conn = client.conn
                     THEN [pump[k] EXCEPT !.closed = TRUE]
                     ELSE pump[k]]
          PROVE  PumpsOld
      <4>0. client' = client
        BY <1>6 DEF Attach
      <4>1. ASSUME NEW k \in Pumps
            PROVE  pump'[k].conn = client.conn \/ pump'[k].conn = pump[k].conn
        <5>1. pump[k] \in [pc : {"none", "read", "send", "wait", "ended"},
                         at : Procs, conn : Nat, cursor : Nat,
                         batch : Seq(Frame), closed : BOOLEAN]
          BY DEF GapInv, ReplayInv, TypeOK, PumpsOK
        <5> QED BY <3>2, <5>1 DEF NoPump
      <4>2. ASSUME NEW k \in Pumps PROVE pump'[k].conn <= client.conn
        <5>1. pump[k].conn <= client.conn /\ client.conn <= client.conn
          BY <1>0, <1>1 DEF Wiring
        <5> QED BY <4>1, <5>1
      <4> QED BY <4>0, <4>2
    <3> QED BY <1>6, <3>1, <3>2 DEF Attach
  <2>2. client.up /\ resume' = << >> /\ UNCHANGED <<live, client, prod>>
    BY <1>6 DEF Attach
  <2> QED BY <1>0, <2>1, <2>2 DEF Wiring
<1>7. CASE Receive
  <2>1. client'.conn = client.conn /\ client'.at = client.at
        /\ Len(client'.shown) \in Nat /\ Len(client.shown) <= Len(client'.shown)
    <3>1. \/ client' = client
          \/ \E b, m : client' = [client EXCEPT !.fault = b, !.mode = m]
          \/ \E f, m : client' = [client EXCEPT
                                    !.shown = Append(client.shown, f), !.mode = m]
          \/ \E b : client' = [client EXCEPT !.up = b]
      BY <1>7 DEF Receive, Handle
    <3>2. /\ client'.conn = client.conn /\ client'.at = client.at
          /\ client'.shown = client.shown
                \/ \E f : client'.shown = Append(client.shown, f)
      BY <1>1, <3>1 DEF ClientType
    <3>3. client'.shown \in Seq(Frame)
      BY SocketTypes DEF ReplayInv, TypeOK, SocketsOK
    <3> QED BY <1>1, <3>2, <3>3 DEF ClientType
  <2>2. CASE client'.up
    <3>1. /\ UNCHANGED <<live, resume, pump, prod>> /\ client.up
      BY <1>7, <2>2 DEF Receive
    <3>2. Asked
      <4>1. resume # << >> => resume[1] \in Nat
        BY <1>1
      <4> QED BY <1>0, <1>1, <2>1, <3>1, <4>1 DEF Wiring
    <3> QED BY <1>0, <2>1, <2>2, <3>1, <3>2 DEF Wiring
  <2>3. CASE ~client'.up
    <3>1. /\ UNCHANGED <<pump, prod>> /\ live' = LostLive /\ net' = << >>
          /\ resume' = << >>
      BY <1>7, <2>3 DEF Receive
    <3> QED BY <1>0, <2>1, <2>3, <3>1 DEF Wiring, LostLive
  <2> QED BY <2>2, <2>3
<1>8. CASE ResumeAgain \/ PollHistory \/ Cancel
  <2>1. /\ client'.up = client.up /\ client'.conn = client.conn
        /\ client'.at = client.at /\ client'.shown = client.shown
    BY <1>1, <1>8 DEF ResumeAgain, PollHistory, Cancel, ClientType
  <2>2. UNCHANGED <<live, net, pump, prod>>
    BY <1>8 DEF ResumeAgain, PollHistory, Cancel
  <2>3. \/ resume' = resume
        \/ client.up /\ resume' = <<Len(client.shown)>>
    BY <1>8 DEF ResumeAgain, PollHistory, Cancel
  <2> QED BY <1>0, <1>1, <2>1, <2>2, <2>3 DEF Wiring
<1>9. ASSUME NEW p \in Procs,
             Reload(p) \/ StartCloseout(p) \/ FinishCloseout(p)
      PROVE  Quiet /\ LiveUp /\ LiveKept /\ Asked /\ PumpsOld /\ Sends
  BY <1>0, <1>9 DEF Reload, StartCloseout, FinishCloseout, Wiring
<1>10. ASSUME NEW p \in Procs, Reconnect(p)
       PROVE  Quiet /\ LiveUp /\ LiveKept /\ Asked /\ PumpsOld /\ Sends
  <2>1. /\ client'.up /\ client'.shown = client.shown
        /\ client'.conn = client.conn + 1
    BY <1>1, <1>10 DEF Reconnect, ClientType
  <2>2. ~live.open /\ UNCHANGED <<live, net, pump, prod>>
    BY <1>0, <1>10 DEF Reconnect, Wiring
  <2>3. resume' = << >> \/ resume' = <<Len(client.shown)>>
    BY <1>10 DEF Reconnect
  <2>4. PumpsOld
    BY <1>0, <1>1, <1>2, <2>1, <2>2 DEF Wiring
  <2> QED BY <1>0, <1>1, <2>1, <2>2, <2>3, <2>4 DEF Wiring
<1>11. ASSUME NEW p \in Procs, Crash(p)
       PROVE  Quiet /\ LiveUp /\ LiveKept /\ Asked /\ PumpsOld /\ Sends
  <2>1. Sends
    BY <1>0, <1>1, <1>11 DEF Crash, Wiring
  <2>2. PumpsOld
    <3>1. client'.conn = client.conn
      BY <1>1, <1>11 DEF Crash, ClientType
    <3>2. ASSUME NEW i \in Pumps PROVE pump'[i].conn = pump[i].conn
      <4>1. pump[i] \in [pc : {"none", "read", "send", "wait", "ended"},
                       at : Procs, conn : Nat, cursor : Nat,
                       batch : Seq(Frame), closed : BOOLEAN]
        BY DEF GapInv, ReplayInv, TypeOK, PumpsOK
      <4> QED BY <1>11, <4>1 DEF Crash
    <3> QED BY <1>0, <3>1, <3>2 DEF Wiring
  <2>3. CASE client.at = p
    <3>1. /\ net' = << >> /\ resume' = << >> /\ ~client'.up
      BY <1>1, <1>11, <2>3 DEF Crash, ClientType
    <3>2. LiveUp /\ LiveKept
      BY <1>0, <1>11, <2>3 DEF Crash, LostLive, Wiring
    <3> QED BY <2>1, <2>2, <3>1, <3>2
  <2>4. CASE client.at # p
    <3>1. UNCHANGED <<client, net, resume>>
      BY <1>11, <2>4 DEF Crash
    <3>2. LiveUp /\ LiveKept
      BY <1>0, <1>11, <3>1 DEF Crash, LostLive, Wiring
    <3> QED BY <1>0, <2>1, <2>2, <3>1, <3>2 DEF Wiring
  <2> QED BY <2>3, <2>4
<1>12. ASSUME NEW i \in Pumps, PumpStep(i) \/ Unsubscribe(i)
       PROVE  Quiet /\ LiveUp /\ LiveKept /\ Asked /\ PumpsOld /\ Sends
  <2>1. UNCHANGED <<live, client, resume, prod>>
    BY <1>12 DEF PumpStep, PumpRead, PumpSend, PumpCheck, PumpWait, Unsubscribe
  <2>2. net' = net \/ client.up
    BY <1>12 DEF PumpStep, PumpRead, PumpSend, PumpCheck, PumpWait, Unsubscribe,
                 Attached
  <2>3. ASSUME NEW k \in Pumps PROVE pump'[k].conn = pump[k].conn
    <3>1. pump \in [Pumps -> [pc : {"none", "read", "send", "wait", "ended"},
                       at : Procs, conn : Nat, cursor : Nat,
                       batch : Seq(Frame), closed : BOOLEAN]]
      BY DEF GapInv, ReplayInv, TypeOK, PumpsOK
    <3>2. CASE k # i
      BY <1>12, <3>1, <3>2
      DEF PumpStep, PumpRead, PumpSend, PumpCheck, PumpWait, Unsubscribe, SetPump
    <3>3. CASE k = i
      <4>1. CASE PumpRead(i)
        BY <3>1, <3>3, <4>1 DEF PumpRead, SetPump
      <4>2. CASE PumpSend(i)
        <5>1. CASE pump' = [pump EXCEPT ![i] = [pump[i] EXCEPT !.pc = "ended"]]
          BY <3>1, <3>3, <5>1
        <5>2. CASE pump' # [pump EXCEPT ![i] = [pump[i] EXCEPT !.pc = "ended"]]
          <6>1. pump' = [pump EXCEPT ![i] =
                   [pump[i] EXCEPT !.cursor = pump[i].cursor + 1,
                      !.pc = IF pump[i].batch[pump[i].cursor + 1].last
                             THEN "ended" ELSE "send"]]
            BY <4>2, <5>2 DEF PumpSend, SetPump
          <6> QED BY <3>1, <3>3, <6>1
        <5> QED BY <5>1, <5>2
      <4>3. CASE PumpCheck(i) \/ PumpWait(i) \/ Unsubscribe(i)
        BY <3>1, <3>3, <4>3 DEF PumpCheck, PumpWait, Unsubscribe, SetPump
      <4> QED BY <1>12, <4>1, <4>2, <4>3 DEF PumpStep
    <3> QED BY <3>2, <3>3
  <2> QED BY <1>0, <2>1, <2>2, <2>3 DEF Wiring
<1> QED BY <1>3, <1>4, <1>5, <1>6, <1>7, <1>8, <1>9, <1>10, <1>11, <1>12 DEF Next

\* Nothing but a new connection brings an open turn back.
LEMMA SamePlace ==
    ASSUME GapInv, Next, client'.up, client'.mode # "finished",
           ~\E p \in Procs : Reconnect(p)
    PROVE  client.up /\ client.mode # "finished" /\ client'.conn = client.conn
<1>1. client \in ClientType
  BY SocketTypes DEF GapInv
<1>2. CASE Receive
  <2>1. client.up /\ client' = Handle(net[1])
    BY <1>2 DEF Receive
  <2>2. client.mode # "finished"
    BY <2>1 DEF Handle
  <2>3. \/ client' = client
        \/ \E b, m : client' = [client EXCEPT !.fault = b, !.mode = m]
        \/ \E f, m : client' = [client EXCEPT
                                  !.shown = Append(client.shown, f), !.mode = m]
        \/ \E b : client' = [client EXCEPT !.up = b]
    BY <2>1 DEF Handle
  <2> QED BY <1>1, <2>1, <2>2, <2>3 DEF ClientType
<1>3. CASE Disconnect \/ PollHistory
  BY <1>1, <1>3 DEF Disconnect, PollHistory, ClientType
<1>4. ASSUME NEW p \in Procs, Crash(p)
      PROVE  client.up /\ client.mode # "finished" /\ client'.conn = client.conn
  BY <1>1, <1>4 DEF Crash, ClientType
<1>5. CASE UNCHANGED client
  BY <1>5
<1> QED
  BY <1>2, <1>3, <1>4, <1>5
  DEF Next, Producer, Emit, RunAnswers, RunFinishes, PutTerminal, Cancel, Drain,
      Attach, ResumeAgain, Reload, StartCloseout, FinishCloseout, PumpStep,
      PumpRead, PumpSend, PumpCheck, PumpWait, Unsubscribe

\* An open turn on a socket that stays
Open == /\ client.up /\ client'.up
        /\ client.mode # "finished" /\ client'.mode # "finished"
        /\ client'.conn = client.conn
        /\ NetChain /\ QueueChain /\ PumpsFollow /\ ProducerFollows
        /\ ~\E p \in Procs : Reconnect(p)

\* What a socket is given continues it.
NetGrows ==
    /\ client'.shown = client.shown
    /\ \/ net' = net
       \/ \E m \in Message : /\ net' = Append(net, m)
                             /\ IsFrame(m) => Covered(m.seq - 1)

LEMMA NetStep == ASSUME GapInv, Next, Open PROVE Receive \/ NetGrows
<1>1. /\ ReplayInv /\ Wiring /\ client \in ClientType
      /\ live \in [open : BOOLEAN, queue : Seq(Message)]
      /\ live.queue \in Seq(Message) /\ net \in Seq(Message)
  BY SocketTypes DEF GapInv
<1>2. CASE Drain
  <2>1. /\ live.queue # << >>
        /\ client' = client
        /\ \/ net' = net
           \/ net' = Append(net, live.queue[1])
    BY <1>2 DEF Drain
  <2>2. /\ live.queue[1] \in Message
        /\ IsFrame(live.queue[1]) => Covered(live.queue[1].seq - 1)
    <3>1. live.queue[1] \in Message /\ Len(client.shown) \in Nat
      BY <1>1, <2>1, TailItems, SocketTypes
    <3>2. Follows(live.queue, Len(client.shown), net)
      BY DEF Open, QueueChain
    <3>3. IsFrame(live.queue[1]) =>
             Reaches(Len(client.shown), net, live.queue[1].seq - 1)
      BY <1>1, <2>1, <3>1, <3>2, DrainFollows
    <3> QED BY <3>1, <3>3 DEF Covered
  <2> QED BY <2>1, <2>2 DEF NetGrows
<1>3. CASE Attach
  <2>1. /\ client' = client
        /\ \/ net' = net
           \/ /\ net' = Append(net, Notice(Disposition(client.at)))
              /\ Disposition(client.at) # "ready"
    BY <1>3 DEF Attach
  <2>2. Disposition(client.at) \in {"ready", "pending", "interrupted"}
    BY DEF Disposition
  <2>3. Disposition(client.at) # "ready" =>
           /\ Notice(Disposition(client.at)) \in Message
           /\ ~IsFrame(Notice(Disposition(client.at)))
    BY <2>2, MessageTypes DEF Notice, IsFrame
  <2> QED BY <2>1, <2>3 DEF NetGrows
<1>4. ASSUME NEW i \in Pumps, PumpSend(i) PROVE NetGrows
  <2> DEFINE n == pump[i].cursor + 1
             f == pump[i].batch[n]
  <2>1. /\ client' = client
        /\ \/ net' = net
           \/ /\ net' = Append(net, Sent(n, f)) /\ n <= Len(pump[i].batch)
              /\ ~pump[i].closed /\ pump[i].conn = client.conn
    BY <1>4 DEF PumpSend, Attached
  <2>2. /\ pump[i].cursor \in Nat /\ pump[i].batch \in Seq(Frame)
    BY <1>1 DEF ReplayInv, TypeOK, PumpsOK
  <2>3. n \in Nat /\ n \in 1 .. Len(pump[i].batch) => f \in Frame
    <3>1. n \in Nat
      BY <2>2
    <3> HIDE DEF n
    <3> QED BY <2>2, <3>1, ElementOfSeq
  <2>4. n \in Nat /\ n >= 1
    BY <2>2
  <2>5. CASE net' # net
    <3>1. n \in 1 .. Len(pump[i].batch)
      BY <2>1, <2>2, <2>4, <2>5
    <3>2. Sent(n, f) \in Message /\ Sent(n, f).seq = n
      BY <2>3, <2>4, <3>1, MessageTypes DEF Sent
    <3>3. Covered(pump[i].cursor) /\ n - 1 = pump[i].cursor
      BY <2>1, <2>2, <2>5 DEF Open, PumpsFollow
    <3>4. Covered(Sent(n, f).seq - 1)
      BY <3>2, <3>3
    <3> QED BY <2>1, <2>5, <3>2, <3>4 DEF NetGrows
  <2> QED BY <2>1, <2>5 DEF NetGrows
<1>5. ASSUME NEW p \in Procs, Crash(p) PROVE NetGrows
  <2>1. client.at # p
    BY <1>1, <1>5 DEF Crash, Open, ClientType
  <2> QED BY <1>5, <2>1 DEF Crash, NetGrows
<1>6. CASE PollHistory
  BY <1>1, <1>6 DEF PollHistory, NetGrows, ClientType
<1>7. CASE Disconnect
  BY <1>1, <1>7 DEF Disconnect, Open, ClientType
<1>8. CASE UNCHANGED <<net, client>>
  BY <1>8 DEF NetGrows
<1> QED
  BY <1>2, <1>3, <1>4, <1>5, <1>6, <1>7, <1>8
  DEF Next, Open, Producer, Emit, RunAnswers, RunFinishes, PutTerminal, Cancel,
      ResumeAgain, Reload, StartCloseout, FinishCloseout, PumpStep,
      PumpRead, PumpCheck, PumpWait, Unsubscribe

LEMMA NetChainStep ==
    ASSUME GapInv, Next, Open
    PROVE  NetChain' /\ \A n \in Int : Covered(n) => Covered(n)'
<1>1. /\ ReplayInv /\ client \in ClientType /\ Len(client.shown) \in Nat
      /\ net \in Seq(Message)
  BY SocketTypes DEF GapInv
<1>2. CASE Receive
  <2>1. /\ net # << >> /\ net' = Tail(net)
        /\ Len(client'.shown) \in Nat
        /\ Len(client.shown) <= Len(client'.shown)
        /\ IsFrame(net[1]) => net[1].seq <= Len(client'.shown)
    BY <1>1, <1>2, ReceiveMoves DEF Receive, Open
  <2>2. Follows(net, Len(client.shown), << >>)
    BY DEF Open, NetChain
  <2> QED BY <1>1, <2>1, <2>2, HeadTaken DEF NetChain, Covered
<1>3. CASE NetGrows
  <2>1. CASE net' = net
    BY <1>3, <2>1 DEF NetGrows, NetChain, Covered, Open
  <2>2. CASE net' # net
    <3>1. PICK m \in Message : /\ net' = Append(net, m)
                               /\ IsFrame(m) => Covered(m.seq - 1)
      BY <1>3, <2>2 DEF NetGrows
    <3>2. Follows(Append(net, m), Len(client.shown), << >>)
      <4>1. IsFrame(m) => Reaches(Len(client.shown), << >>, m.seq - 1)
                            \/ Carries(net, m.seq - 1)
        BY <3>1 DEF Covered, Reaches
      <4>2. << >> \in Seq(Message) /\ Follows(net, Len(client.shown), << >>)
        BY DEF Open, NetChain
      <4> QED BY <1>1, <4>1, <4>2, AppendFollows
    <3>3. \A n \in Int : Reaches(Len(client.shown), net, n) =>
                         Reaches(Len(client.shown), Append(net, m), n)
      BY <1>1, AppendReaches
    <3> QED BY <1>3, <3>1, <3>2, <3>3 DEF NetGrows, NetChain, Covered
  <2> QED BY <2>1, <2>2
<1> QED BY <1>2, <1>3, NetStep

\* The queue of the submitting socket is drained in order, lost or left alone.
LEMMA QueueStep ==
    ASSUME GapInv, Next, Open, ~Producer
    PROVE  /\ QueueChain'
           /\ live'.open =>
                live.open /\ \A n \in Int : CoveredLive(n) => CoveredLive(n)'
<1>1. /\ ReplayInv /\ client \in ClientType /\ Len(client.shown) \in Nat
      /\ live \in [open : BOOLEAN, queue : Seq(Message)]
      /\ live.queue \in Seq(Message) /\ net \in Seq(Message)
  BY SocketTypes DEF GapInv
<1>2. /\ Follows(live.queue, Len(client.shown), net)
      /\ \A n \in Int : Covered(n) => Covered(n)'
  BY NetChainStep DEF Open, QueueChain
<1>3. CASE live' = LostLive
  BY <1>3 DEF LostLive, QueueChain, Follows
<1>4. CASE live' = live
  <2>1. Follows(live.queue, Len(client'.shown), net')
    BY <1>1, <1>2, MoreFollows DEF Covered
  <2> QED BY <1>2, <1>4, <2>1 DEF QueueChain, CoveredLive
<1>5. CASE Drain /\ live' # LostLive
  <2>1. /\ live.queue # << >> /\ client' = client
        /\ net' = Append(net, live.queue[1])
        /\ live' = [live EXCEPT !.queue = Tail(live.queue)]
    BY <1>5 DEF Drain
  <2>2. live'.queue = Tail(live.queue) /\ live'.open = live.open
    BY <1>1, <2>1
  <2>3. /\ Follows(Tail(live.queue), Len(client.shown), net')
        /\ \A n \in Int : Carries(live.queue, n) =>
              Carries(Tail(live.queue), n) \/ Carries(net', n)
    BY <1>1, <1>2, <2>1, DrainFollows
  <2>4. QueueChain'
    BY <2>1, <2>2, <2>3 DEF QueueChain
  <2>5. ASSUME NEW n \in Int, CoveredLive(n) PROVE CoveredLive(n)'
    <3>1. Covered(n) => Covered(n)'
      BY <1>2
    <3>2. Carries(live.queue, n) => Carries(live'.queue, n) \/ Covered(n)'
      BY <2>2, <2>3 DEF Covered, Reaches
    <3> QED BY <2>5, <3>1, <3>2 DEF CoveredLive
  <2> QED BY <2>2, <2>4, <2>5
<1>6. Drain \/ live' = live \/ live' = LostLive
  BY DEF Next, Disconnect, Receive, Cancel, Attach, ResumeAgain, PollHistory,
         Reload, StartCloseout, FinishCloseout, Reconnect, Crash, PumpStep,
         PumpRead, PumpSend, PumpCheck, PumpWait, Unsubscribe
<1> QED BY <1>3, <1>4, <1>5, <1>6

\* What the producer hands over continues what it handed over before.
LEMMA StampContinues ==
    ASSUME GapInv, Open, prod.open, NEW f \in {Token, Done}, NEW pc, Stamp(f, pc)
    PROVE  \/ ~live.open /\ live' = live
           \/ /\ live.open
              /\ \E m \in Message :
                    /\ live' = [live EXCEPT !.queue = Append(live.queue, m)]
                    /\ IsFrame(m) => CoveredLive(m.seq - 1)
                    /\ prod'.open =>
                          ~Ended(file') /\ IsFrame(m) /\ m.seq = Len(file')
<1>1. /\ ReplayInv /\ file \in Seq(Frame) /\ Len(file) \in Nat
      /\ prod \in [pc : {"run", "answered", "recorded", "over", "dead"},
                   open : BOOLEAN, faulted : BOOLEAN]
      /\ TypeOK /\ CachesWithin /\ Home \in Procs
  BY SocketTypes DEF GapInv, ReplayInv
<1>2. Loaded(Home) = file
  BY <1>1, LoadedIsFile
<1>3. f \in Frame
  <2>1. Token \in Frame /\ Done \in Frame
    BY DEF Token, Done, Frame
  <2> QED BY <2>1
<1>4. CASE ~live.open
  BY <1>4 DEF Stamp, Fault, Enqueued
<1>5. CASE live.open
  <2>0. CoveredLive(IF Ended(file) THEN Len(file) - 1 ELSE Len(file))
    BY <1>5 DEF Open, ProducerFollows
  <2>1. CASE ~Ended(file) /\ AppendLine(Home, f)
             /\ prod' = [prod EXCEPT !.pc = pc, !.open = ~f.last]
             /\ live' = Enqueued(Sent(Len(file'), f))
    <3>1. file' = Append(file, f)
      BY <1>1, <1>2, <1>3, <2>1, AppendMoves
    <3>2. Len(file') = Len(file) + 1 /\ file'[Len(file')] = f
      BY <1>1, <3>1
    <3>3. /\ Sent(Len(file'), f) \in Message /\ IsFrame(Sent(Len(file'), f))
          /\ Sent(Len(file'), f).seq = Len(file')
      BY <1>1, <1>3, <3>2, MessageTypes DEF Sent, IsFrame
    <3>4. CoveredLive(Sent(Len(file'), f).seq - 1)
      BY <1>1, <2>0, <2>1, <3>2, <3>3
    <3>5. prod'.open => ~Ended(file')
      <4>1. prod'.open = ~f.last
        BY <1>1, <2>1
      <4> QED BY <3>2, <4>1 DEF Ended
    <3> QED BY <1>5, <2>1, <3>3, <3>4, <3>5 DEF Enqueued
  <2>2. CASE Ended(file)
             /\ prod' = [prod EXCEPT !.pc = pc, !.open = FALSE]
             /\ live' = Enqueued(Sent(Len(file), file[Len(file)]))
    <3>1. Len(file) > 0 /\ file[Len(file)] \in Frame
      BY <1>1, <2>2 DEF Ended
    <3> DEFINE m == Sent(Len(file), file[Len(file)])
    <3>2. /\ m \in Message /\ IsFrame(m) /\ m.seq = Len(file)
      BY <1>1, <3>1, MessageTypes DEF Sent, IsFrame
    <3>3. CoveredLive(m.seq - 1)
      BY <1>1, <2>0, <2>2, <3>2
    <3>4. ~prod'.open
      BY <1>1, <2>2
    <3>5. live' = [live EXCEPT !.queue = Append(live.queue, m)]
      BY <1>5, <2>2 DEF Enqueued
    <3> HIDE DEF m
    <3> QED BY <1>5, <3>2, <3>3, <3>4, <3>5
  <2>3. CASE prod' = [prod EXCEPT !.pc = pc, !.open = FALSE, !.faulted = TRUE]
             /\ live' = Enqueued(Notice("fault"))
    <3>1. Notice("fault") \in Message /\ ~IsFrame(Notice("fault"))
      BY MessageTypes DEF Notice, IsFrame
    <3>2. ~prod'.open
      BY <1>1, <2>3
    <3> QED BY <1>5, <2>3, <3>1, <3>2 DEF Enqueued
  <2> QED BY <1>2, <2>1, <2>2, <2>3 DEF Stamp, Fault
<1> QED BY <1>4, <1>5

LEMMA ProducerStep ==
    ASSUME GapInv, Next, Open, Producer, ReplayInv'
    PROVE  QueueChain' /\ ProducerFollows'
<1>1. /\ ReplayInv /\ Wiring /\ Len(client.shown) \in Nat
      /\ prod \in [pc : {"run", "answered", "recorded", "over", "dead"},
                   open : BOOLEAN, faulted : BOOLEAN]
      /\ live \in [open : BOOLEAN, queue : Seq(Message)]
      /\ live.queue \in Seq(Message) /\ net \in Seq(Message)
      /\ Len(file') \in Nat
  BY SocketTypes DEF GapInv, ReplayInv, TypeOK, LogOK
<1>2. UNCHANGED <<client, net>>
  BY DEF Producer, Emit, RunAnswers, RunFinishes, PutTerminal
<1>3. CASE live' = live /\ file' = file /\ (prod'.open => prod.open)
  BY <1>2, <1>3
  DEF Open, QueueChain, ProducerFollows, CoveredLive, Covered
<1>4. CASE ~live.open /\ live' = live
  BY <1>2, <1>4 DEF Open, QueueChain, ProducerFollows
<1>5. ASSUME NEW m \in Message,
             live' = [live EXCEPT !.queue = Append(live.queue, m)],
             IsFrame(m) => CoveredLive(m.seq - 1),
             prod'.open => ~Ended(file') /\ IsFrame(m) /\ m.seq = Len(file')
      PROVE  QueueChain' /\ ProducerFollows'
  <2>1. live'.queue = Append(live.queue, m)
    BY <1>1, <1>5
  <2>2. Follows(live'.queue, Len(client.shown), net)
    <3>1. IsFrame(m) => Reaches(Len(client.shown), net, m.seq - 1)
                          \/ Carries(live.queue, m.seq - 1)
      BY <1>5 DEF CoveredLive, Covered
    <3>2. Follows(live.queue, Len(client.shown), net)
      BY DEF Open, QueueChain
    <3> QED BY <1>1, <2>1, <3>1, <3>2, AppendFollows
  <2>3. prod'.open => CoveredLive(Len(file))' /\ ~Ended(file)'
    <3>1. IsFrame(m) => Carries(live'.queue, m.seq)
      BY <1>1, <2>1, AppendCarries
    <3> QED BY <1>5, <3>1 DEF CoveredLive
  <2> QED BY <1>2, <1>5, <2>2, <2>3 DEF QueueChain, ProducerFollows
<1>6. CASE Emit
  <2>1. prod.open /\ Stamp(Token, prod.pc)
    BY <1>6 DEF Emit
  <2> QED BY <1>4, <1>5, <2>1, StampContinues
<1>7. CASE PutTerminal
  <2>1. CASE prod.faulted
    <3>1. /\ UNCHANGED <<file, live>> /\ prod' = [prod EXCEPT !.pc = "over"]
      BY <1>7, <2>1 DEF PutTerminal
    <3> QED BY <1>1, <1>3, <3>1
  <2>2. CASE ~prod.faulted
    <3>1. prod.open /\ Stamp(Done, "over")
      BY <1>1, <1>7, <2>2 DEF PutTerminal, Wiring
    <3> QED BY <1>4, <1>5, <3>1, StampContinues
  <2> QED BY <2>1, <2>2
<1>8. CASE RunAnswers \/ RunFinishes
  <2>1. UNCHANGED <<file, live>> /\ prod'.open = prod.open
    BY <1>1, <1>8 DEF RunAnswers, RunFinishes
  <2> QED BY <1>3, <2>1
<1> QED BY <1>6, <1>7, <1>8 DEF Producer

\* A closeout only adds the terminal behind what the producer has sent.
LEMMA LogStepOfOthers ==
    ASSUME ReplayInv, Next, ~Producer
    PROVE  /\ prod'.open => prod.open
           /\ \/ file' = file
              \/ /\ ~Ended(file) /\ Ended(file')
                 /\ Len(file') = Len(file) + 1
<1>1. /\ file \in Seq(Frame) /\ Len(file) \in Nat /\ TypeOK /\ CachesWithin
      /\ prod \in [pc : {"run", "answered", "recorded", "over", "dead"},
                   open : BOOLEAN, faulted : BOOLEAN]
  BY SocketTypes DEF ReplayInv
<1>2. ASSUME NEW p \in Procs, FinishCloseout(p)
      PROVE  \/ file' = file
             \/ /\ ~Ended(file) /\ Ended(file')
                /\ Len(file') = Len(file) + 1
  <2>1. Loaded(p) = file /\ SubSeq(file, 1, Len(Loaded(p))) = file
    <3>1. Loaded(p) = file
      BY <1>1, LoadedIsFile
    <3> QED BY <1>1, <3>1, SubSeqFull
  <2>2. \/ file' = file
        \/ /\ ~Ended(file)
           /\ file' = Append(file, Repair)
    BY <1>2, <2>1 DEF FinishCloseout, AppendLine, FailLine
  <2>3. ASSUME file' = Append(file, Repair)
        PROVE  Ended(file') /\ Len(file') = Len(file) + 1
    <3>1. Repair \in Frame /\ Repair.last
      BY DEF Repair, Frame
    <3>2. Len(file') = Len(file) + 1 /\ file'[Len(file')] = Repair
      BY <1>1, <2>3, <3>1
    <3> QED BY <1>1, <3>1, <3>2 DEF Ended
  <2> QED BY <2>2, <2>3
<1>3. (\A p \in Procs : ~FinishCloseout(p)) => file' = file
  BY DEF Next, Disconnect, Receive, Cancel, Drain, Attach, ResumeAgain,
         PollHistory, Reload, StartCloseout, Reconnect, Crash, PumpStep,
         PumpRead, PumpSend, PumpCheck, PumpWait, Unsubscribe
<1>4. prod' = prod \/ prod' = [prod EXCEPT !.pc = "dead", !.open = FALSE]
  BY DEF Next, Disconnect, Receive, Cancel, Drain, Attach, ResumeAgain,
         PollHistory, Reload, StartCloseout, FinishCloseout, Reconnect, Crash,
         PumpStep, PumpRead, PumpSend, PumpCheck, PumpWait, Unsubscribe
<1>5. prod'.open => prod.open
  BY <1>1, <1>4
<1> QED BY <1>2, <1>3, <1>5

LEMMA ProducerFollowsStep ==
    ASSUME GapInv, Next, Open, ~Producer
    PROVE  ProducerFollows'
<1>1. /\ ReplayInv /\ Len(file) \in Nat
  BY SocketTypes DEF GapInv
<1> SUFFICES ASSUME live'.open, prod'.open
             PROVE  CoveredLive(IF Ended(file) THEN Len(file) - 1
                                ELSE Len(file))'
  BY DEF ProducerFollows
<1>2. /\ live.open /\ prod.open
      /\ \A n \in Int : CoveredLive(n) => CoveredLive(n)'
  BY <1>1, QueueStep, LogStepOfOthers
<1> DEFINE sent == IF Ended(file) THEN Len(file) - 1 ELSE Len(file)
<1>3. CoveredLive(sent)
  BY <1>2 DEF Open, ProducerFollows
<1>4. sent \in Int
  BY <1>1
<1>5. sent' = sent
  BY <1>1, LogStepOfOthers
<1> HIDE DEF sent
<1>6. ASSUME NEW n, n = sent, n = sent' PROVE CoveredLive(sent)'
  <2>1. CoveredLive(n) /\ n \in Int
    BY <1>3, <1>4, <1>6
  <2>2. CoveredLive(n)'
    BY <1>2, <2>1
  <2> QED BY <1>6, <2>2 DEF CoveredLive, Covered
<1> QED BY <1>5, <1>6 DEF sent

\* A subscription starts where the client is and goes on frame by frame.
LEMMA PumpsFollowStep ==
    ASSUME GapInv, Next, Open
    PROVE  PumpsFollow'
<1> DEFINE PumpType == [pc : {"none", "read", "send", "wait", "ended"},
                        at : Procs, conn : Nat, cursor : Nat,
                        batch : Seq(Frame), closed : BOOLEAN]
           OnSocket(k) == ~pump'[k].closed /\ pump'[k].conn = client'.conn
           Reached(n) == Reaches(Len(client'.shown), net', n)
           AsBefore(k) == /\ pump'[k].cursor = pump[k].cursor
                          /\ pump'[k].conn = pump[k].conn
                          /\ pump[k].closed => pump'[k].closed
<1>1. /\ ReplayInv /\ Wiring /\ pump \in [Pumps -> PumpType]
      /\ Len(client.shown) \in Nat /\ resume \in Seq(Nat)
      /\ client'.conn = client.conn
  BY SocketTypes DEF GapInv, ReplayInv, TypeOK, PumpsOK, Open
<1>2. \A n \in Int : Covered(n) => Reached(n)
  BY NetChainStep DEF Covered
<1>3. ASSUME NEW k \in Pumps, OnSocket(k), AsBefore(k)
      PROVE  Reached(pump'[k].cursor)
  <2>1. pump[k].cursor \in Nat /\ Covered(pump[k].cursor)
    BY <1>1, <1>3 DEF Open, PumpsFollow
  <2> QED BY <1>2, <1>3, <2>1
<1>4. SUFFICES ASSUME NEW k \in Pumps, OnSocket(k)
               PROVE  AsBefore(k) \/ Reached(pump'[k].cursor)
  BY <1>3 DEF PumpsFollow, Covered
<1>5. pump[k] \in PumpType
  BY <1>1
<1>6. CASE pump' = pump
  BY <1>6
<1>7. CASE Attach
  <2>1. /\ resume # << >> /\ UNCHANGED client
        /\ resume[1] \in Nat
    BY <1>1, <1>7 DEF Attach
  <2>2. Reached(resume[1])
    BY <1>1, <2>1 DEF Wiring, Reaches
  <2>3. ASSUME NEW i \in Pumps,
               pump' = [j \in Pumps |->
                     IF j = i THEN [NoPump EXCEPT !.pc = "read",
                                        !.at = client.at,
                                        !.conn = client.conn,
                                        !.cursor = resume[1]]
                     ELSE IF pump[j].conn = client.conn
                     THEN [pump[j] EXCEPT !.closed = TRUE]
                     ELSE pump[j]]
        PROVE  AsBefore(k) \/ Reached(pump'[k].cursor)
    <3>1. CASE k = i
      <4>1. pump'[k].cursor = resume[1]
        BY <2>3, <3>1 DEF NoPump
      <4> QED BY <2>2, <4>1
    <3>2. CASE k # i
      BY <1>5, <2>3, <3>2
    <3> QED BY <3>1, <3>2
  <2> QED BY <1>6, <1>7, <2>3 DEF Attach
<1>8. ASSUME NEW p \in Procs, Crash(p) PROVE AsBefore(k)
  BY <1>5, <1>8 DEF Crash
<1>9. ASSUME NEW i \in Pumps, PumpStep(i) \/ Unsubscribe(i)
      PROVE  AsBefore(k) \/ Reached(pump'[k].cursor)
  <2>1. CASE k # i
    <3>1. \E r : pump' = [pump EXCEPT ![i] = r]
      BY <1>9 DEF PumpStep, PumpRead, PumpSend, PumpCheck, PumpWait,
                  Unsubscribe, SetPump
    <3> QED BY <1>1, <2>1, <3>1
  <2>2. CASE k = i /\ PumpRead(i)
    <3>1. \/ pump' = [pump EXCEPT ![i] = [pump[i] EXCEPT !.pc = "ended"]]
          \/ pump' = [pump EXCEPT ![i] = [pump[i] EXCEPT !.pc = "send",
                                            !.batch = Loaded(pump[i].at)]]
      BY <2>2 DEF PumpRead, SetPump
    <3>2. \/ pump'[k] = [pump[k] EXCEPT !.pc = "ended"]
          \/ pump'[k] = [pump[k] EXCEPT !.pc = "send",
                                       !.batch = Loaded(pump[i].at)]
      BY <1>1, <2>2, <3>1
    <3>3. AsBefore(k)
      BY <1>5, <3>2
    <3> QED BY <3>3
  <2>3. CASE k = i /\ (PumpCheck(i) \/ PumpWait(i) \/ Unsubscribe(i))
    <3>1. \/ \E c : pump' = [pump EXCEPT ![i] = [pump[i] EXCEPT !.pc = c]]
          \/ pump' = [pump EXCEPT ![i] = [pump[i] EXCEPT !.closed = TRUE]]
      BY <2>3 DEF PumpCheck, PumpWait, Unsubscribe, SetPump
    <3>2. \/ \E c : pump'[k] = [pump[k] EXCEPT !.pc = c]
          \/ pump'[k] = [pump[k] EXCEPT !.closed = TRUE]
      BY <1>1, <2>3, <3>1
    <3>3. AsBefore(k)
      BY <1>5, <3>2
    <3> QED BY <3>3
  <2>4. CASE k = i /\ PumpSend(i)
    <3>1. CASE pump' = [pump EXCEPT ![i] = [pump[i] EXCEPT !.pc = "ended"]]
      BY <1>1, <1>5, <2>4, <3>1
    <3>2. CASE pump' # [pump EXCEPT ![i] = [pump[i] EXCEPT !.pc = "ended"]]
      <4> DEFINE n == pump[i].cursor + 1
                 m == Sent(n, pump[i].batch[n])
      <4>1. /\ pump' = [pump EXCEPT ![i] =
                   [pump[i] EXCEPT !.cursor = n,
                      !.pc = IF pump[i].batch[n].last THEN "ended" ELSE "send"]]
            /\ n <= Len(pump[i].batch)
            /\ net' = IF Attached(i) THEN Append(net, m) ELSE net
        BY <2>4, <3>2 DEF PumpSend, SetPump
      <4>2. /\ pump[i].cursor \in Nat /\ pump[i].batch \in Seq(Frame)
            /\ n \in 1 .. Len(pump[i].batch)
        BY <1>5, <2>4, <4>1
      <4>3. m \in Message /\ IsFrame(m) /\ m.seq = n
        <5> HIDE DEF n
        <5>1. pump[i].batch[n] \in Frame /\ n \in Nat
          BY <4>2, ElementOfSeq
        <5> QED BY <5>1, MessageTypes DEF Sent, IsFrame
      <4> HIDE DEF m, n
      <4>4. pump'[k].cursor = n /\ pump'[k].conn = pump[k].conn
        BY <1>1, <1>5, <2>4, <4>1
      <4>5. Attached(i)
        BY <1>1, <1>4, <2>4, <4>4 DEF Attached, Open
      <4>6. Carries(net', n)
        BY <4>1, <4>3, <4>5, AppendCarries, SocketTypes, <1>1
      <4> QED BY <4>4, <4>6 DEF Reaches
    <3> QED BY <3>1, <3>2
  <2> QED BY <1>9, <2>1, <2>2, <2>3, <2>4 DEF PumpStep
<1> QED
  BY <1>6, <1>7, <1>8, <1>9
  DEF Next, Open, Producer, Emit, RunAnswers, RunFinishes, PutTerminal, Cancel,
      Drain, Disconnect, Receive, ResumeAgain, PollHistory, Reload,
      StartCloseout, FinishCloseout

\* A new connection has nothing on it; its resume request goes on where the
\* client is, and no earlier subscription writes to it.
LEMMA ReconnectStep ==
    ASSUME GapInv, NEW p \in Procs, Reconnect(p)
    PROVE  NetChain' /\ QueueChain' /\ PumpsFollow' /\ ProducerFollows'
<1>1. /\ Wiring /\ client \in ClientType /\ client.conn \in Nat
      /\ \A i \in Pumps : pump[i].conn \in Nat
  BY SocketTypes DEF GapInv, ReplayInv, TypeOK, PumpsOK, ClientType
<1>2. /\ net' = << >> /\ live' = live /\ ~live.open /\ live.queue = << >>
      /\ pump' = pump /\ \A i \in Pumps : pump[i].conn <= client.conn
  BY <1>1 DEF Reconnect, Wiring
<1>3. client'.conn = client.conn + 1
  BY <1>1 DEF Reconnect, ClientType
<1>4. \A i \in Pumps : pump[i].conn # client'.conn
  BY <1>1, <1>2, <1>3
<1> QED BY <1>2, <1>4
        DEF NetChain, QueueChain, PumpsFollow, ProducerFollows, Follows

LEMMA GapStep == GapInv /\ [Next]_vars => GapInv'
<1> SUFFICES ASSUME GapInv, [Next]_vars PROVE GapInv'
  OBVIOUS
<1>0. ReplayInv'
  BY ReplayStep DEF GapInv
<1>1. CASE UNCHANGED vars
  BY <1>0, <1>1
  DEF vars, GapInv, Wiring, Continuous, NetChain, QueueChain, PumpsFollow,
      ProducerFollows, CoveredLive, Covered
<1>2. CASE Next
  <2>1. Wiring'
    BY <1>0, <1>2, WiringStep
  <2>2. Continuous'
    <3> SUFFICES ASSUME client'.up, client'.mode # "finished"
                 PROVE  NetChain' /\ QueueChain' /\ PumpsFollow'
                          /\ ProducerFollows'
      BY DEF Continuous
    <3>1. CASE \E p \in Procs : Reconnect(p)
      BY <3>1, ReconnectStep
    <3>2. CASE ~\E p \in Procs : Reconnect(p)
      <4>1. Open
        BY <1>2, <3>2, SamePlace DEF Open, GapInv, Continuous
      <4>2. NetChain' /\ PumpsFollow'
        BY <1>2, <4>1, NetChainStep, PumpsFollowStep
      <4>3. QueueChain' /\ ProducerFollows'
        BY <1>0, <1>2, <4>1, ProducerStep, QueueStep, ProducerFollowsStep
      <4> QED BY <4>2, <4>3
    <3> QED BY <3>1, <3>2
  <2> QED BY <1>0, <2>1, <2>2 DEF GapInv
<1> QED BY <1>1, <1>2

LEMMA GapInit == Init => GapInv
<1> SUFFICES ASSUME Init PROVE GapInv
  OBVIOUS
<1>1. Wiring
  BY DEF Init, Wiring, NoPump
<1>2. NetChain /\ QueueChain /\ PumpsFollow
  BY DEF Init, NetChain, QueueChain, PumpsFollow, Follows, NoPump
<1>3. ProducerFollows
  <2>1. Len(file) = 0 /\ Len(client.shown) = 0 /\ ~Ended(file)
    BY DEF Init, Ended
  <2> QED BY <2>1 DEF ProducerFollows, CoveredLive, Covered, Reaches
<1> QED BY <1>1, <1>2, <1>3, ReplayInit DEF GapInv, Continuous

\* What a socket carries always continues the cursor it was opened with: the
\* live queue and any number of subscriptions, replaced or resumed again, may
\* write to it at once, and the client never meets a frame ahead of the one
\* it expects (_attach_turn_replay, TurnLog._pump, _drain_turn_queue,
\* decideStreamFrame).
THEOREM SocketHasNoGap == Spec => []NoGap
<1>1. GapInv => NoGap
  <2> SUFFICES ASSUME GapInv, net # << >>, net[1].kind = "frame",
                      client.mode # "finished"
               PROVE  net[1].seq <= Len(client.shown) + 1
    BY DEF NoGap
  <2>1. client.up
    BY DEF GapInv, Wiring
  <2> QED BY <2>1, HeadContinues DEF GapInv, Continuous, IsFrame
<1> QED BY <1>1, GapInit, GapStep, PTL DEF Spec

=============================================================================
