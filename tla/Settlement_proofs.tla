------------------------- MODULE Settlement_proofs --------------------------
(***************************************************************************)
(* Proofs about the sources of the knowledge base (Knowledge), for any     *)
(* sources and calls, any number of chunks, user steps and faults; and     *)
(* what follows for the instance that MCSettlement makes of it.            *)
(***************************************************************************)
EXTENDS MCSettlement, OperationLedger_proofs, WellFoundedInduction, TLAPS

-----------------------------------------------------------------------------
(* The knowledge base: types, and how far a call is.                       *)

\* The steps of each kind of call, the last one first.
CallPlan ==
    [text |-> <<"append", "drop", "list", "refer", "record", "document">>,
     file |-> <<"refer", "append", "drop", "list",
                "append", "drop", "list", "refer", "record", "document">>,
     reindex |-> <<"append", "drop", "list">>,
     edit |-> <<"append", "list", "record">>,
     delete |-> <<"drop", "list", "retire", "unrefer", "purge">>,
     rollback |-> <<"retire", "unrefer", "purge">>]

CallKinds == {"text", "file", "reindex", "edit", "delete", "rollback"}

CallSteps ==
    {"append", "drop", "list", "refer", "record", "document", "retire", "unrefer", "purge"}

KnowledgeCalls ==
    [kind : CallKinds, src : KSources, todo : Seq(CallSteps), held : SUBSET KRows]

\* What is left of a call is the end of its plan.
OnPlan(call) ==
    /\ Len(call.todo) \in 1..Len(CallPlan[call.kind])
    /\ \A i \in 1..Len(call.todo) : call.todo[i] = CallPlan[call.kind][Len(call.todo) + 1 - i]

\* Rows in hand are rows of the source; those to be dropped or appended are chunks.
HoldsOwn(call) ==
    /\ call.held \subseteq {<<call.src, 0>>} \cup Chunks(call.src)
    /\ Head(call.todo) \in {"drop", "append"} => call.held \subseteq Chunks(call.src)

StoreTypes ==
    /\ krow \subseteq KRows /\ kdead \subseteq KSources \X Parts
    /\ kfile \in [KSources -> {"none", "kept", "trash"}] /\ kref \subseteq KSources
    /\ kchunks \in Parts /\ ktorn \subseteq KSources /\ krestarts \in 0..MaxKRestarts

CallTypes ==
    /\ kcall \in [KCalls -> KnowledgeCalls \cup {Idle}]
    /\ \A c \in KCalls : kcall[c] # Idle => OnPlan(kcall[c]) /\ HoldsOwn(kcall[c])

KTypes == StoreTypes /\ CallTypes

-----------------------------------------------------------------------------
(* The knowledge base: what holds of a source no restart has disturbed.    *)

Busy(c, s) == kcall[c] # Idle /\ kcall[c].src = s
Left(c) == Len(kcall[c].todo)
Updates(c) == kcall[c].kind \in {"reindex", "edit"}

\* Steps left to import_document itself.
ImportLeft(c) == IF kcall[c].kind = "file" THEN Left(c) - 4 ELSE Left(c)

NoRows(s) == \A k \in 0..MaxParts : <<s, k>> \notin krow
NoChunks(s) == \A k \in Parts : <<s, k>> \notin krow
NoneDead(s) == \A k \in Parts : <<s, k>> \notin kdead
RowsNew(s) == krow \cap Chunks(s) \subseteq NewChunks(s)

\* Call c has still to append row r.
WillAppend(c, r) ==
    /\ kcall[c].kind \in {"text", "file", "reindex"}
    /\ LET last == IF kcall[c].kind = "file" THEN 2 ELSE 1
       IN  Left(c) > last \/ (Left(c) = last /\ r \in kcall[c].held)

\* The source is there, but for chunks that a call is about to append again.
SourceWritten(s) ==
    /\ <<s, 0>> \in krow /\ s \in kref /\ kfile[s] = "kept"
    /\ \A r \in NewChunks(s) : r \in LiveRows \/ \E c \in KCalls : Busy(c, s) /\ WillAppend(c, r)

Absent(s) == NoRows(s) /\ s \notin kref /\ kfile[s] # "kept"

\* Whoever is at work on a source: updates, deletions, or one import or rollback.
Alone(s) ==
    \A c, d \in KCalls : Busy(c, s) /\ Busy(d, s) /\ c # d =>
        (Updates(c) /\ Updates(d)) \/ (kcall[c].kind = "delete" /\ kcall[d].kind = "delete")

Fresh(s) ==
    kfile[s] = "none" =>
        /\ NoRows(s) /\ s \notin kref /\ NoneDead(s)
        /\ \A c \in KCalls : Busy(c, s) => Imports(c) /\ ImportLeft(c) = 6

ImportSound(c, s) ==
    /\ kfile[s] = IF ImportLeft(c) = 6 THEN "none" ELSE "kept"
    /\ ImportLeft(c) >= 5 => NoRows(s)
    /\ ImportLeft(c) >= 4 => s \notin kref
    /\ ImportLeft(c) = 4 => <<s, 0>> \in krow
    /\ ImportLeft(c) >= 2 => NoChunks(s)
    /\ ImportLeft(c) = 2 => kcall[c].held = {}
    /\ ImportLeft(c) >= 1 => NoneDead(s)
    /\ ImportLeft(c) <= 3 => SourceWritten(s)

RollbackSound(c, s) ==
    /\ kfile[s] # "none"
    /\ Left(c) = 3 => \A k \in 0..MaxParts : <<s, k>> \in krow => <<s, k>> \in kcall[c].held
    /\ Left(c) <= 2 => NoRows(s)
    /\ Left(c) = 1 => s \notin kref

DeleteSound(c, s) ==
    /\ kfile[s] # "none"
    /\ \A k \in Parts : <<s, k>> \in krow => <<s, k>> \notin kdead
    /\ Left(c) = 5 => \A k \in 0..MaxParts : <<s, k>> \in krow => <<s, k>> \in kcall[c].held
    /\ Left(c) <= 4 => NoRows(s)
    /\ Left(c) <= 3 => s \notin kref
    /\ Left(c) <= 2 => kfile[s] # "kept"
    /\ Left(c) = 1 => kcall[c].held = {}

CallSound(c, s) ==
    /\ Head(kcall[c].todo) \in {"drop", "append"} => kcall[c].held \subseteq NewChunks(s)
    /\ Imports(c) => ImportSound(c, s)
    /\ kcall[c].kind = "rollback" => RollbackSound(c, s)
    /\ kcall[c].kind = "delete" => DeleteSound(c, s)
    /\ Updates(c) => SourceWritten(s)

\* Nobody but updates is at work.
SourceSettled(s) == \A c \in KCalls : Busy(c, s) => Updates(c)

Sound(s) ==
    /\ Fresh(s) /\ RowsNew(s)
    /\ SourceSettled(s) => SourceWritten(s) \/ Absent(s)
    /\ \A c \in KCalls : Busy(c, s) => CallSound(c, s)

KSafe ==
    /\ KTypes
    /\ \A s \in KSources : Alone(s)
    /\ \A s \in KSources \ ktorn : Sound(s)

LEMMA PlanLengths ==
    /\ Len(CallPlan["text"]) = 6 /\ Len(CallPlan["file"]) = 10 /\ Len(CallPlan["reindex"]) = 3
    /\ Len(CallPlan["edit"]) = 3 /\ Len(CallPlan["delete"]) = 5 /\ Len(CallPlan["rollback"]) = 3
BY DEF CallPlan

LEMMA PlanSteps ==
    /\ CallPlan["text"][1] = "append" /\ CallPlan["text"][2] = "drop"
    /\ CallPlan["text"][3] = "list" /\ CallPlan["text"][4] = "refer"
    /\ CallPlan["text"][5] = "record" /\ CallPlan["text"][6] = "document"
    /\ CallPlan["file"][1] = "refer" /\ CallPlan["file"][2] = "append"
    /\ CallPlan["file"][3] = "drop" /\ CallPlan["file"][4] = "list"
    /\ CallPlan["file"][5] = "append" /\ CallPlan["file"][6] = "drop"
    /\ CallPlan["file"][7] = "list" /\ CallPlan["file"][8] = "refer"
    /\ CallPlan["file"][9] = "record" /\ CallPlan["file"][10] = "document"
    /\ CallPlan["reindex"][1] = "append" /\ CallPlan["reindex"][2] = "drop"
    /\ CallPlan["reindex"][3] = "list"
    /\ CallPlan["edit"][1] = "append" /\ CallPlan["edit"][2] = "list"
    /\ CallPlan["edit"][3] = "record"
    /\ CallPlan["delete"][1] = "drop" /\ CallPlan["delete"][2] = "list"
    /\ CallPlan["delete"][3] = "retire" /\ CallPlan["delete"][4] = "unrefer"
    /\ CallPlan["delete"][5] = "purge"
    /\ CallPlan["rollback"][1] = "retire" /\ CallPlan["rollback"][2] = "unrefer"
    /\ CallPlan["rollback"][3] = "purge"
BY DEF CallPlan

\* A call that runs is at a step of its plan.
LEMMA AtStep ==
    ASSUME KTypes, NEW c \in KCalls, kcall[c] # Idle
    PROVE  /\ kcall[c] \in KnowledgeCalls
           /\ Left(c) \in 1..Len(CallPlan[kcall[c].kind])
           /\ Left(c) \in Nat \ {0}
           /\ Head(kcall[c].todo) = CallPlan[kcall[c].kind][Left(c)]
<1>1. kcall[c] \in KnowledgeCalls /\ OnPlan(kcall[c])
  BY DEF KTypes, CallTypes
<1>2. kcall[c].todo \in Seq(CallSteps) /\ kcall[c].kind \in CallKinds
  BY <1>1 DEF KnowledgeCalls
<1>3. Left(c) \in 1..Len(CallPlan[kcall[c].kind])
  BY <1>1 DEF OnPlan, Left
<1>4. Len(CallPlan[kcall[c].kind]) \in Nat
  BY <1>2, PlanLengths DEF CallKinds
<1>5. Left(c) \in Nat \ {0}
  BY <1>3, <1>4
<1>6. Head(kcall[c].todo) = kcall[c].todo[1]
  BY <1>2, <1>5 DEF Left
<1>7. kcall[c].todo[1] = CallPlan[kcall[c].kind][Left(c) + 1 - 1]
  BY <1>1, <1>5 DEF OnPlan, Left
<1> QED BY <1>1, <1>3, <1>5, <1>6, <1>7

\* Which call does which step, and when.
LEMMA StepMeans ==
    ASSUME KTypes, NEW c \in KCalls, kcall[c] # Idle
    PROVE  LET kind == kcall[c].kind
               step == Head(kcall[c].todo)
               At(k, n) == kind = k /\ Left(c) = n
           IN  /\ step = "document" => At("text", 6) \/ At("file", 10)
               /\ step = "record" => At("text", 5) \/ At("file", 9) \/ At("edit", 3)
               /\ step = "refer" => At("text", 4) \/ At("file", 8) \/ At("file", 1)
               /\ step = "list" => \/ At("text", 3) \/ At("file", 7) \/ At("file", 4)
                                   \/ At("reindex", 3) \/ At("edit", 2) \/ At("delete", 2)
               /\ step = "drop" => \/ At("text", 2) \/ At("file", 6) \/ At("file", 3)
                                   \/ At("reindex", 2) \/ At("delete", 1)
               /\ step = "append" => \/ At("text", 1) \/ At("file", 5) \/ At("file", 2)
                                     \/ At("reindex", 1) \/ At("edit", 1)
               /\ step = "purge" => At("delete", 5) \/ At("rollback", 3)
               /\ step = "unrefer" => At("delete", 4) \/ At("rollback", 2)
               /\ step = "retire" => At("delete", 3) \/ At("rollback", 1)
<1> DEFINE kind == kcall[c].kind
           step == Head(kcall[c].todo)
           n == Left(c)
<1>1. kind \in CallKinds /\ n \in 1..Len(CallPlan[kind]) /\ step = CallPlan[kind][n]
  BY AtStep DEF KnowledgeCalls
<1> HIDE DEF kind, step, n
<1>2. CASE kind = "text"
  <2>1. n \in 1..6 /\ step = CallPlan["text"][n]
    BY <1>1, <1>2, PlanLengths
  <2>2. \/ n = 1 /\ step = "append"
        \/ n = 2 /\ step = "drop"
        \/ n = 3 /\ step = "list"
        \/ n = 4 /\ step = "refer"
        \/ n = 5 /\ step = "record"
        \/ n = 6 /\ step = "document"
    BY <2>1, PlanSteps
  <2> QED BY <1>2, <2>2 DEF kind, step, n
<1>3. CASE kind = "file"
  <2>1. n \in 1..10 /\ step = CallPlan["file"][n]
    BY <1>1, <1>3, PlanLengths
  <2>2. \/ n = 1 /\ step = "refer"
        \/ n = 2 /\ step = "append"
        \/ n = 3 /\ step = "drop"
        \/ n = 4 /\ step = "list"
        \/ n = 5 /\ step = "append"
        \/ n = 6 /\ step = "drop"
        \/ n = 7 /\ step = "list"
        \/ n = 8 /\ step = "refer"
        \/ n = 9 /\ step = "record"
        \/ n = 10 /\ step = "document"
    BY <2>1, PlanSteps
  <2> QED BY <1>3, <2>2 DEF kind, step, n
<1>4. CASE kind = "reindex"
  <2>1. n \in 1..3 /\ step = CallPlan["reindex"][n]
    BY <1>1, <1>4, PlanLengths
  <2>2. \/ n = 1 /\ step = "append"
        \/ n = 2 /\ step = "drop"
        \/ n = 3 /\ step = "list"
    BY <2>1, PlanSteps
  <2> QED BY <1>4, <2>2 DEF kind, step, n
<1>5. CASE kind = "edit"
  <2>1. n \in 1..3 /\ step = CallPlan["edit"][n]
    BY <1>1, <1>5, PlanLengths
  <2>2. \/ n = 1 /\ step = "append"
        \/ n = 2 /\ step = "list"
        \/ n = 3 /\ step = "record"
    BY <2>1, PlanSteps
  <2> QED BY <1>5, <2>2 DEF kind, step, n
<1>6. CASE kind = "delete"
  <2>1. n \in 1..5 /\ step = CallPlan["delete"][n]
    BY <1>1, <1>6, PlanLengths
  <2>2. \/ n = 1 /\ step = "drop"
        \/ n = 2 /\ step = "list"
        \/ n = 3 /\ step = "retire"
        \/ n = 4 /\ step = "unrefer"
        \/ n = 5 /\ step = "purge"
    BY <2>1, PlanSteps
  <2> QED BY <1>6, <2>2 DEF kind, step, n
<1>7. CASE kind = "rollback"
  <2>1. n \in 1..3 /\ step = CallPlan["rollback"][n]
    BY <1>1, <1>7, PlanLengths
  <2>2. \/ n = 1 /\ step = "retire"
        \/ n = 2 /\ step = "unrefer"
        \/ n = 3 /\ step = "purge"
    BY <2>1, PlanSteps
  <2> QED BY <1>7, <2>2 DEF kind, step, n
<1> QED BY <1>1, <1>2, <1>3, <1>4, <1>5, <1>6, <1>7 DEF CallKinds

\* A call goes on, or ends.
LEMMA AdvanceMeans ==
    ASSUME KTypes, NEW c \in KCalls, kcall[c] # Idle, NEW rows, Advance(c, rows)
    PROVE  /\ \A d \in KCalls \ {c} : kcall'[d] = kcall[d]
           /\ Left(c) = 1 => kcall' = [kcall EXCEPT ![c] = Idle] /\ kcall'[c] = Idle
           /\ Left(c) # 1 =>
                /\ kcall' = [kcall EXCEPT ![c] = kcall'[c]]
                /\ kcall'[c].kind = kcall[c].kind /\ kcall'[c].src = kcall[c].src
                /\ kcall'[c].held = rows /\ kcall'[c].todo = Tail(kcall[c].todo)
                /\ Len(kcall'[c].todo) = Left(c) - 1
                /\ Head(kcall'[c].todo) = CallPlan[kcall[c].kind][Left(c) - 1]
                /\ OnPlan(kcall'[c])
                /\ (rows \subseteq KRows => kcall'[c] \in KnowledgeCalls)
                /\ kcall'[c] # Idle
<1>1. /\ kcall[c] \in KnowledgeCalls /\ Left(c) \in Nat \ {0}
      /\ Left(c) \in 1..Len(CallPlan[kcall[c].kind])
  BY AtStep
<1>2. kcall[c].todo \in Seq(CallSteps)
  BY <1>1 DEF KnowledgeCalls
<1>3. kcall \in [KCalls -> KnowledgeCalls \cup {Idle}] /\ OnPlan(kcall[c])
  BY DEF KTypes, CallTypes
<1>4. \A d \in KCalls \ {c} : kcall'[d] = kcall[d]
  BY <1>3 DEF Advance
<1>5. CASE Left(c) = 1
  BY <1>3, <1>4, <1>5 DEF Advance, Left
<1>6. CASE Left(c) # 1
  <2>1. kcall'[c] = [kcall[c] EXCEPT !.todo = Tail(kcall[c].todo), !.held = rows]
    BY <1>3, <1>6 DEF Advance, Left
  <2>2. kcall' = [kcall EXCEPT ![c] = kcall'[c]]
    BY <1>3, <2>1 DEF Advance
  <2>3. /\ kcall'[c].kind = kcall[c].kind /\ kcall'[c].src = kcall[c].src
        /\ kcall'[c].held = rows /\ kcall'[c].todo = Tail(kcall[c].todo)
    BY <1>1, <2>1 DEF KnowledgeCalls
  <2> DEFINE rest == Tail(kcall[c].todo)
  <2>4. /\ rest \in Seq(CallSteps) /\ Len(rest) = Left(c) - 1
        /\ \A i \in 1..Len(rest) : rest[i] = kcall[c].todo[i + 1]
    BY <1>1, <1>2, <1>6 DEF Left
  <2> HIDE DEF rest
  <2>5. Len(kcall'[c].todo) = Left(c) - 1
    BY <2>3, <2>4 DEF rest
  <2>6. OnPlan(kcall'[c])
    <3>1. Len(CallPlan[kcall[c].kind]) \in Nat
      BY <1>1, PlanLengths DEF KnowledgeCalls, CallKinds
    <3>2. ASSUME NEW i \in 1..Len(rest)
          PROVE  rest[i] = CallPlan[kcall[c].kind][Len(rest) + 1 - i]
      <4>1. i + 1 \in 1..Left(c)
        BY <1>1, <2>4
      <4>2. kcall[c].todo[i + 1] = CallPlan[kcall[c].kind][Left(c) + 1 - (i + 1)]
        BY <1>3, <4>1 DEF OnPlan, Left
      <4>3. Left(c) + 1 - (i + 1) = Len(rest) + 1 - i
        BY <1>1, <2>4
      <4> QED BY <2>4, <4>2, <4>3
    <3>3. Len(rest) \in 1..Len(CallPlan[kcall[c].kind])
      BY <1>1, <1>6, <2>4, <3>1
    <3>4. kcall'[c].todo = rest
      BY <2>3 DEF rest
    <3> QED BY <2>3, <3>2, <3>3, <3>4 DEF OnPlan
  <2>7. Head(kcall'[c].todo) = CallPlan[kcall[c].kind][Left(c) - 1]
    <3>1. kcall'[c].todo = rest
      BY <2>3 DEF rest
    <3>2. Len(rest) \in Nat \ {0} /\ 1 \in 1..Len(rest)
      BY <1>1, <1>6, <2>4
    <3>3. Head(rest) = rest[1]
      BY <2>4, <3>2
    <3>4. rest[1] = CallPlan[kcall[c].kind][Len(rest) + 1 - 1]
      BY <2>3, <2>6, <3>1, <3>2 DEF OnPlan
    <3>5. Len(rest) + 1 - 1 = Left(c) - 1
      BY <1>1, <2>4
    <3> QED BY <3>1, <3>3, <3>4, <3>5
  <2>8. rows \subseteq KRows => kcall'[c] \in KnowledgeCalls
    BY <1>1, <2>1, <2>4 DEF KnowledgeCalls, rest
  <2>9. kcall'[c] # Idle
    <3>1. kcall'[c].kind \in CallKinds
      BY <1>1, <2>3 DEF KnowledgeCalls
    <3> QED BY <3>1 DEF Idle, CallKinds
  <2> QED BY <1>4, <1>6, <2>2, <2>3, <2>5, <2>6, <2>7, <2>8, <2>9
<1> QED BY <1>5, <1>6

\* A call has done one of the rows in its hands.
LEMMA TakeMeans ==
    ASSUME KTypes, NEW c \in KCalls, kcall[c] # Idle, NEW r, Take(c, r)
    PROVE  /\ kcall' = [kcall EXCEPT ![c] = kcall'[c]]
           /\ \A d \in KCalls \ {c} : kcall'[d] = kcall[d]
           /\ kcall'[c].kind = kcall[c].kind /\ kcall'[c].src = kcall[c].src
           /\ kcall'[c].todo = kcall[c].todo /\ kcall'[c].held = kcall[c].held \ {r}
           /\ kcall'[c] \in KnowledgeCalls /\ OnPlan(kcall'[c]) /\ kcall'[c] # Idle
<1>1. kcall[c] \in KnowledgeCalls
  BY AtStep
<1>2. kcall \in [KCalls -> KnowledgeCalls \cup {Idle}] /\ OnPlan(kcall[c])
  BY DEF KTypes, CallTypes
<1>3. kcall'[c] = [kcall[c] EXCEPT !.held = kcall[c].held \ {r}]
  BY <1>2 DEF Take
<1>4. kcall' = [kcall EXCEPT ![c] = kcall'[c]] /\ \A d \in KCalls \ {c} : kcall'[d] = kcall[d]
  BY <1>2, <1>3 DEF Take
<1>5. /\ kcall'[c].kind = kcall[c].kind /\ kcall'[c].src = kcall[c].src
      /\ kcall'[c].todo = kcall[c].todo /\ kcall'[c].held = kcall[c].held \ {r}
      /\ kcall'[c] \in KnowledgeCalls
  BY <1>1, <1>3 DEF KnowledgeCalls
<1>6. OnPlan(kcall'[c])
  BY <1>2, <1>5 DEF OnPlan
<1>7. kcall'[c] # Idle
  BY <1>1, <1>5 DEF Idle, KnowledgeCalls, CallKinds
<1> QED BY <1>4, <1>5, <1>6, <1>7

-----------------------------------------------------------------------------
(* The knowledge base: every step keeps the types.                         *)

\* NextHeld finds the first of the rows in hand.
LEMMA NextIsHeld ==
    ASSUME KTypes, NEW c \in KCalls, kcall[c] # Idle, kcall[c].held # {}
    PROVE  NextHeld(c) \in kcall[c].held
<1> DEFINE held == kcall[c].held
           places == {r[2] : r \in held}
<1>1. held \subseteq KRows
  BY AtStep DEF KnowledgeCalls
<1>2. \A r \in held : r[2] \in Nat
  BY <1>1 DEF KRows, KnowledgeAssumption
<1>3. places \subseteq Nat /\ places # {}
  BY <1>2
<1>4. PICK n \in places : \A m \in places : ~(<<m, n>> \in OpToRel(<, Nat))
  BY <1>3, NatLessThanWellFounded, WFMin
<1>5. \A m \in places : n <= m
  <2>1. ASSUME NEW m \in places PROVE n <= m
    <3>1. m \in Nat /\ n \in Nat
      BY <1>3, <1>4
    <3>2. ~(m < n)
      BY <1>4, <3>1 DEF OpToRel
    <3> QED BY <3>1, <3>2
  <2> QED BY <2>1
<1>6. \E r \in held : \A q \in held : r[2] <= q[2]
  BY <1>5
<1> QED BY <1>6 DEF NextHeld

\* What a call takes from a list or from the chunker are chunks of its source.
LEMMA ChunksAreOwn ==
    ASSUME KTypes, NEW s \in KSources
    PROVE  /\ LiveChunks(s) \subseteq Chunks(s) /\ NewChunks(s) \subseteq Chunks(s)
           /\ Chunks(s) \subseteq KRows /\ Chunks(s) \subseteq KSources \X Parts
           /\ <<s, 0>> \in KRows
<1>1. kchunks \in 1..MaxParts /\ MaxParts \in Nat
  BY KnowledgeAssumption DEF KTypes, StoreTypes, Parts
<1>2. 1..kchunks \subseteq 1..MaxParts /\ 1..MaxParts \subseteq 0..MaxParts /\ 0 \in 0..MaxParts
  BY <1>1
<1> QED BY <1>2 DEF LiveChunks, NewChunks, Chunks, KRows, Parts

LEMMA PartsArePlaces == Parts \subseteq 0..MaxParts /\ 0 \notin Parts
BY KnowledgeAssumption DEF Parts

LEMMA AdvanceTypes ==
    ASSUME KTypes, NEW c \in KCalls, kcall[c] # Idle, NEW rows, Advance(c, rows),
           rows \subseteq Chunks(kcall[c].src)
    PROVE  CallTypes'
<1>1. kcall[c] \in KnowledgeCalls /\ kcall[c].src \in KSources
  BY AtStep DEF KnowledgeCalls
<1>2. rows \subseteq KRows
  BY <1>1, ChunksAreOwn
<1>3. /\ kcall \in [KCalls -> KnowledgeCalls \cup {Idle}]
      /\ \A d \in KCalls : kcall[d] # Idle => OnPlan(kcall[d]) /\ HoldsOwn(kcall[d])
  BY DEF KTypes, CallTypes
<1>4. /\ kcall'[c] \in KnowledgeCalls \cup {Idle}
      /\ kcall' = [kcall EXCEPT ![c] = kcall'[c]]
      /\ \A d \in KCalls \ {c} : kcall'[d] = kcall[d]
  BY <1>2, AdvanceMeans
<1>5. kcall' \in [KCalls -> KnowledgeCalls \cup {Idle}]
  BY <1>3, <1>4
<1>6. kcall'[c] # Idle => OnPlan(kcall'[c]) /\ HoldsOwn(kcall'[c])
  <2>1. kcall'[c] # Idle => OnPlan(kcall'[c]) /\ kcall'[c].held = rows
                             /\ kcall'[c].src = kcall[c].src
    BY AdvanceMeans
  <2> QED BY <2>1 DEF HoldsOwn
<1> QED BY <1>3, <1>4, <1>5, <1>6 DEF CallTypes

LEMMA TakeTypes ==
    ASSUME KTypes, NEW c \in KCalls, kcall[c] # Idle, NEW r, Take(c, r)
    PROVE  CallTypes'
<1>1. /\ kcall \in [KCalls -> KnowledgeCalls \cup {Idle}]
      /\ \A d \in KCalls : kcall[d] # Idle => OnPlan(kcall[d]) /\ HoldsOwn(kcall[d])
  BY DEF KTypes, CallTypes
<1>2. /\ kcall' = [kcall EXCEPT ![c] = kcall'[c]] /\ kcall'[c] \in KnowledgeCalls
      /\ \A d \in KCalls \ {c} : kcall'[d] = kcall[d]
      /\ OnPlan(kcall'[c])
  BY TakeMeans
<1>3. kcall' \in [KCalls -> KnowledgeCalls \cup {Idle}]
  BY <1>1, <1>2
<1>4. HoldsOwn(kcall'[c])
  BY <1>1, TakeMeans DEF HoldsOwn
<1> QED BY <1>1, <1>2, <1>3, <1>4 DEF CallTypes

\* One sequence of steps behind the other.
LEMMA OneBehindOther ==
    ASSUME NEW S, NEW a \in Seq(S), NEW b \in Seq(S), NEW all, all = a \o b
    PROVE  /\ all \in Seq(S) /\ Len(all) = Len(a) + Len(b)
           /\ \A i \in 1..Len(a) : all[i] = a[i]
           /\ \A i \in 1..Len(b) : all[Len(a) + i] = b[i]
<1>1. /\ a \o b \in Seq(S) /\ Len(a \o b) = Len(a) + Len(b)
      /\ \A i \in 1..Len(a) : (a \o b)[i] = a[i]
      /\ \A i \in 1..Len(b) : (a \o b)[Len(a) + i] = b[i]
  OBVIOUS
<1> QED BY <1>1, Zenon

\* The plans are what the calls start with.
LEMMA ReplacePlan ==
    /\ ReplaceSteps \in Seq(CallSteps) /\ Len(ReplaceSteps) = 3
    /\ ReplaceSteps[1] = "list" /\ ReplaceSteps[2] = "drop" /\ ReplaceSteps[3] = "append"
BY DEF CallSteps, ReplaceSteps

LEMMA ImportPlan ==
    ASSUME NEW steps, steps = ImportSteps
    PROVE  /\ steps \in Seq(CallSteps) /\ Len(steps) = 6
           /\ steps[1] = "document" /\ steps[2] = "record" /\ steps[3] = "refer"
           /\ steps[4] = "list" /\ steps[5] = "drop" /\ steps[6] = "append"
<1>1. PICK first : first = <<"document", "record", "refer">>
  OBVIOUS
<1>2. PICK last : last = ReplaceSteps
  OBVIOUS
<1>3. first \in Seq(CallSteps) /\ last \in Seq(CallSteps)
  BY <1>1, <1>2 DEF CallSteps, ReplaceSteps
<1>4. /\ Len(first) = 3 /\ first[1] = "document" /\ first[2] = "record" /\ first[3] = "refer"
      /\ Len(last) = 3 /\ last[1] = "list" /\ last[2] = "drop" /\ last[3] = "append"
  BY <1>1, <1>2 DEF ReplaceSteps
<1>5. steps = first \o last
  BY <1>1, <1>2 DEF ImportSteps
<1>6. /\ steps \in Seq(CallSteps) /\ Len(steps) = Len(first) + Len(last)
      /\ \A i \in 1..Len(first) : steps[i] = first[i]
      /\ \A i \in 1..Len(last) : steps[Len(first) + i] = last[i]
  BY <1>3, <1>5, OneBehindOther
<1>7. steps[3 + 1] = "list" /\ steps[3 + 2] = "drop" /\ steps[3 + 3] = "append"
  BY <1>4, <1>6
<1> QED BY <1>4, <1>6, <1>7

LEMMA IngestPlan ==
    ASSUME NEW steps, steps = IngestSteps
    PROVE  /\ steps \in Seq(CallSteps) /\ Len(steps) = 4
           /\ steps[1] = "list" /\ steps[2] = "drop" /\ steps[3] = "append"
           /\ steps[4] = "refer"
<1>1. PICK first : first = ReplaceSteps
  OBVIOUS
<1>2. PICK last : last = <<"refer">>
  OBVIOUS
<1>3. first \in Seq(CallSteps) /\ last \in Seq(CallSteps)
  BY <1>1, <1>2 DEF CallSteps, ReplaceSteps
<1>4. /\ Len(first) = 3 /\ first[1] = "list" /\ first[2] = "drop" /\ first[3] = "append"
      /\ Len(last) = 1 /\ last[1] = "refer"
  BY <1>1, <1>2 DEF ReplaceSteps
<1>5. steps = first \o last
  BY <1>1, <1>2 DEF IngestSteps
<1>6. /\ steps \in Seq(CallSteps) /\ Len(steps) = Len(first) + Len(last)
      /\ \A i \in 1..Len(first) : steps[i] = first[i]
      /\ \A i \in 1..Len(last) : steps[Len(first) + i] = last[i]
  BY <1>3, <1>5, OneBehindOther
<1>7. steps[3 + 1] = "refer"
  BY <1>4, <1>6
<1> QED BY <1>4, <1>6, <1>7

LEMMA DeletePlan ==
    ASSUME NEW first, first = PurgeSteps, NEW last, last = <<"list", "drop">>,
           NEW steps, steps = first \o last
    PROVE  /\ steps \in Seq(CallSteps) /\ Len(steps) = 5
           /\ steps[1] = "purge" /\ steps[2] = "unrefer" /\ steps[3] = "retire"
           /\ steps[4] = "list" /\ steps[5] = "drop"
<1>3. first \in Seq(CallSteps) /\ last \in Seq(CallSteps)
  BY DEF CallSteps, PurgeSteps
<1>4. /\ Len(first) = 3 /\ first[1] = "purge" /\ first[2] = "unrefer" /\ first[3] = "retire"
      /\ Len(last) = 2 /\ last[1] = "list" /\ last[2] = "drop"
  BY DEF PurgeSteps
<1>6. /\ steps \in Seq(CallSteps) /\ Len(steps) = Len(first) + Len(last)
      /\ \A i \in 1..Len(first) : steps[i] = first[i]
      /\ \A i \in 1..Len(last) : steps[Len(first) + i] = last[i]
  BY <1>3, OneBehindOther
<1>7. steps[3 + 1] = "list" /\ steps[3 + 2] = "drop"
  BY <1>4, <1>6
<1> QED BY <1>4, <1>6, <1>7

StartsWith(kind, steps) ==
    \/ kind = "text" /\ steps = ImportSteps \o <<>>
    \/ kind = "file" /\ steps = ImportSteps \o IngestSteps
    \/ kind = "reindex" /\ steps = ReplaceSteps
    \/ kind = "edit" /\ steps = EditSteps
    \/ kind = "delete" /\ steps = PurgeSteps \o <<"list", "drop">>
    \/ kind = "rollback" /\ steps = PurgeSteps
    \/ kind = "rollback" /\ steps = <<"retire">>

LEMMA NewCall ==
    ASSUME NEW kind \in CallKinds, NEW s \in KSources, NEW held \in SUBSET KRows, NEW steps,
           StartsWith(kind, steps)
    PROVE  LET call == [kind |-> kind, src |-> s, todo |-> steps, held |-> held]
           IN  /\ call \in KnowledgeCalls /\ OnPlan(call) /\ call # Idle
               /\ Head(steps) = IF kind \in {"text", "file"} THEN "document"
                                ELSE IF kind = "reindex" THEN "list"
                                ELSE IF kind = "edit" THEN "record"
                                ELSE IF steps = <<"retire">> THEN "retire" ELSE "purge"
               /\ Len(steps) = IF steps = <<"retire">> THEN 1 ELSE Len(CallPlan[kind])
<1> DEFINE call == [kind |-> kind, src |-> s, todo |-> steps, held |-> held]
<1>1. call.kind = kind /\ call.todo = steps /\ call.src = s /\ call.held = held
  OBVIOUS
<1>2. call # Idle
  <2>1. call.kind # Idle.kind
    BY <1>1 DEF Idle, CallKinds
  <2> QED BY <2>1
<1> HIDE DEF call
<1> SUFFICES /\ steps \in Seq(CallSteps) /\ call \in KnowledgeCalls /\ OnPlan(call)
             /\ Head(steps) = IF kind \in {"text", "file"} THEN "document"
                              ELSE IF kind = "reindex" THEN "list"
                              ELSE IF kind = "edit" THEN "record"
                              ELSE IF steps = <<"retire">> THEN "retire" ELSE "purge"
             /\ Len(steps) = IF steps = <<"retire">> THEN 1 ELSE Len(CallPlan[kind])
  BY <1>2 DEF call
<1>3. ASSUME steps \in Seq(CallSteps) PROVE call \in KnowledgeCalls
  BY <1>3 DEF call, KnowledgeCalls
<1>4. CASE kind = "text" /\ steps = ImportSteps \o <<>>
  <2>1. steps = ImportSteps
    <3>1. PICK first : first = ImportSteps
      OBVIOUS
    <3>2. first \in Seq(CallSteps)
      BY <3>1, ImportPlan
    <3>3. first \o <<>> = first
      BY <3>2
    <3> QED BY <1>4, <3>1, <3>3
  <2>2. Len(steps) = 6 /\ Head(steps) = "document" /\ steps \in Seq(CallSteps)
    BY <2>1, ImportPlan
  <2>3. \A i \in 1..6 : steps[i] = CallPlan["text"][6 + 1 - i]
    BY <2>1, ImportPlan, PlanSteps
  <2>4. OnPlan(call)
    <3>1. call.kind = "text" /\ call.todo = steps
      BY <1>1, <1>4
    <3>2. Len(call.todo) = 6 /\ Len(CallPlan[call.kind]) = 6
      BY <2>2, <3>1, PlanLengths
    <3>3. \A i \in 1..6 : call.todo[i] = CallPlan[call.kind][6 + 1 - i]
      BY <2>3, <3>1
    <3>4. 6 \in 1..6
      OBVIOUS
    <3> QED BY <3>2, <3>3, <3>4, Zenon DEF OnPlan
  <2>5. steps # <<"retire">>
    BY <2>2
  <2> QED BY <1>3, <1>4, <2>2, <2>4, <2>5, PlanLengths
<1>5. CASE kind = "file" /\ steps = ImportSteps \o IngestSteps
  <2>6. PICK first : first = ImportSteps
    OBVIOUS
  <2>7. PICK last : last = IngestSteps
    OBVIOUS
  <2>1. steps = first \o last
    BY <1>5, <2>6, <2>7
  <2>8. /\ steps \in Seq(CallSteps) /\ Len(steps) = 10
        /\ steps[1] = "document" /\ steps[2] = "record" /\ steps[3] = "refer"
        /\ steps[4] = "list" /\ steps[5] = "drop" /\ steps[6] = "append"
        /\ steps[7] = "list" /\ steps[8] = "drop" /\ steps[9] = "append"
        /\ steps[10] = "refer"
    <3>1. /\ first \in Seq(CallSteps) /\ Len(first) = 6
          /\ first[1] = "document" /\ first[2] = "record" /\ first[3] = "refer"
          /\ first[4] = "list" /\ first[5] = "drop" /\ first[6] = "append"
      BY <2>6, ImportPlan
    <3>2. /\ last \in Seq(CallSteps) /\ Len(last) = 4
          /\ last[1] = "list" /\ last[2] = "drop" /\ last[3] = "append" /\ last[4] = "refer"
      BY <2>7, IngestPlan
    <3>3. first \in Seq(CallSteps) /\ last \in Seq(CallSteps)
      BY <3>1, <3>2
    <3>4. /\ steps \in Seq(CallSteps) /\ Len(steps) = Len(first) + Len(last)
          /\ \A i \in 1..Len(first) : steps[i] = first[i]
          /\ \A i \in 1..Len(last) : steps[Len(first) + i] = last[i]
      BY <2>1, <3>3, OneBehindOther
    <3>5. /\ steps[6 + 1] = "list" /\ steps[6 + 2] = "drop" /\ steps[6 + 3] = "append"
          /\ steps[6 + 4] = "refer"
      BY <3>1, <3>2, <3>4
    <3> QED BY <3>1, <3>2, <3>4, <3>5
  <2>2. Len(steps) = 10 /\ Head(steps) = "document" /\ steps \in Seq(CallSteps)
    BY <2>8
  <2>3. \A i \in 1..10 : steps[i] = CallPlan["file"][10 + 1 - i]
    BY <2>8, PlanSteps
  <2>4. OnPlan(call)
    <3>1. call.kind = "file" /\ call.todo = steps
      BY <1>1, <1>5
    <3>2. Len(call.todo) = 10 /\ Len(CallPlan[call.kind]) = 10
      BY <2>2, <3>1, PlanLengths
    <3>3. \A i \in 1..10 : call.todo[i] = CallPlan[call.kind][10 + 1 - i]
      BY <2>3, <3>1
    <3>4. 10 \in 1..10
      OBVIOUS
    <3> QED BY <3>2, <3>3, <3>4, Zenon DEF OnPlan
  <2>5. steps # <<"retire">>
    BY <2>2
  <2> QED BY <1>3, <1>5, <2>2, <2>4, <2>5, PlanLengths
<1>6. CASE kind = "reindex" /\ steps = ReplaceSteps
  <2>1. Len(steps) = 3 /\ Head(steps) = "list" /\ steps \in Seq(CallSteps)
    BY <1>6 DEF CallSteps, ReplaceSteps
  <2>2. steps[1] = "list" /\ steps[2] = "drop" /\ steps[3] = "append"
    BY <1>6 DEF ReplaceSteps
  <2>3. \A i \in 1..3 : steps[i] = CallPlan["reindex"][3 + 1 - i]
    BY <2>2, PlanSteps
  <2>4. OnPlan(call)
    BY <1>1, <1>6, <2>1, <2>3, PlanLengths DEF OnPlan
  <2>5. steps # <<"retire">>
    BY <2>1
  <2> QED BY <1>3, <1>6, <2>1, <2>4, <2>5, PlanLengths
<1>7. CASE kind = "edit" /\ steps = EditSteps
  <2>1. Len(steps) = 3 /\ Head(steps) = "record" /\ steps \in Seq(CallSteps)
    BY <1>7 DEF CallSteps, EditSteps
  <2>2. steps[1] = "record" /\ steps[2] = "list" /\ steps[3] = "append"
    BY <1>7 DEF EditSteps
  <2>3. \A i \in 1..3 : steps[i] = CallPlan["edit"][3 + 1 - i]
    BY <2>2, PlanSteps
  <2>4. OnPlan(call)
    BY <1>1, <1>7, <2>1, <2>3, PlanLengths DEF OnPlan
  <2>5. steps # <<"retire">>
    BY <2>1
  <2> QED BY <1>3, <1>7, <2>1, <2>4, <2>5, PlanLengths
<1>8. CASE kind = "delete" /\ steps = PurgeSteps \o <<"list", "drop">>
  <2>6. PICK first : first = PurgeSteps
    OBVIOUS
  <2>7. PICK last : last = <<"list", "drop">>
    OBVIOUS
  <2>1. steps = first \o last
    BY <1>8, <2>6, <2>7
  <2>8. /\ steps \in Seq(CallSteps) /\ Len(steps) = 5
        /\ steps[1] = "purge" /\ steps[2] = "unrefer" /\ steps[3] = "retire"
        /\ steps[4] = "list" /\ steps[5] = "drop"
    BY <2>1, <2>6, <2>7, DeletePlan
  <2>2. Len(steps) = 5 /\ Head(steps) = "purge" /\ steps \in Seq(CallSteps)
    BY <2>8
  <2>3. \A i \in 1..5 : steps[i] = CallPlan["delete"][5 + 1 - i]
    BY <2>8, PlanSteps
  <2>4. OnPlan(call)
    <3>1. call.kind = "delete" /\ call.todo = steps
      BY <1>1, <1>8
    <3>2. Len(call.todo) = 5 /\ Len(CallPlan[call.kind]) = 5
      BY <2>2, <3>1, PlanLengths
    <3>3. \A i \in 1..5 : call.todo[i] = CallPlan[call.kind][5 + 1 - i]
      BY <2>3, <3>1
    <3>4. 5 \in 1..5
      OBVIOUS
    <3> QED BY <3>2, <3>3, <3>4, Zenon DEF OnPlan
  <2>5. steps # <<"retire">>
    BY <2>2
  <2> QED BY <1>3, <1>8, <2>2, <2>4, <2>5, PlanLengths
<1>9. CASE kind = "rollback" /\ steps = PurgeSteps
  <2>1. Len(steps) = 3 /\ Head(steps) = "purge" /\ steps \in Seq(CallSteps)
    BY <1>9 DEF CallSteps, PurgeSteps
  <2>2. steps[1] = "purge" /\ steps[2] = "unrefer" /\ steps[3] = "retire"
    BY <1>9 DEF PurgeSteps
  <2>3. \A i \in 1..3 : steps[i] = CallPlan["rollback"][3 + 1 - i]
    BY <2>2, PlanSteps
  <2>4. OnPlan(call)
    BY <1>1, <1>9, <2>1, <2>3, PlanLengths DEF OnPlan
  <2>5. steps # <<"retire">>
    BY <2>1
  <2> QED BY <1>3, <1>9, <2>1, <2>4, <2>5, PlanLengths
<1>10. CASE kind = "rollback" /\ steps = <<"retire">>
  <2>1. Len(steps) = 1 /\ Head(steps) = "retire" /\ steps \in Seq(CallSteps)
    BY <1>10 DEF CallSteps
  <2>2. steps[1] = "retire"
    BY <1>10
  <2>3. \A i \in 1..1 : steps[i] = CallPlan["rollback"][1 + 1 - i]
    BY <2>2, PlanSteps
  <2>4. OnPlan(call)
    BY <1>1, <1>10, <2>1, <2>3, PlanLengths DEF OnPlan
  <2> QED BY <1>3, <1>10, <2>1, <2>4
<1> QED BY <1>4, <1>5, <1>6, <1>7, <1>8, <1>9, <1>10, Zenon DEF StartsWith

Begun(kind, s, steps, held) == [kind |-> kind, src |-> s, todo |-> steps, held |-> held]

LEMMA BegunTypes ==
    ASSUME KTypes, NEW kind \in CallKinds, NEW s \in KSources, NEW steps,
           StartsWith(kind, steps), NEW held, held \subseteq {<<s, 0>>} \cup Chunks(s),
           NEW call, call = Begun(kind, s, steps, held)
    PROVE  /\ call \in KnowledgeCalls /\ OnPlan(call) /\ HoldsOwn(call) /\ call # Idle
           /\ call.kind = kind /\ call.src = s /\ call.held = held /\ call.todo = steps
           /\ steps = <<"retire">> => Len(call.todo) = 1
           /\ steps # <<"retire">> => Len(call.todo) = Len(CallPlan[kind])
           /\ Head(call.todo) # "drop" /\ Head(call.todo) # "append"
<1>1. held \in SUBSET KRows
  BY ChunksAreOwn
<1>2. /\ call \in KnowledgeCalls /\ OnPlan(call) /\ call # Idle
      /\ Head(steps) = IF kind \in {"text", "file"} THEN "document"
                       ELSE IF kind = "reindex" THEN "list"
                       ELSE IF kind = "edit" THEN "record"
                       ELSE IF steps = <<"retire">> THEN "retire" ELSE "purge"
      /\ Len(steps) = IF steps = <<"retire">> THEN 1 ELSE Len(CallPlan[kind])
  BY <1>1, NewCall DEF Begun
<1>3. call.kind = kind /\ call.src = s /\ call.held = held /\ call.todo = steps
  BY DEF Begun
<1>4. Head(call.todo) # "drop" /\ Head(call.todo) # "append"
  BY <1>2, <1>3
<1>5. HoldsOwn(call)
  BY <1>3, <1>4 DEF HoldsOwn
<1> QED BY <1>2, <1>3, <1>4, <1>5

LEMMA InstallTypes ==
    ASSUME KTypes, NEW c \in KCalls, NEW call \in KnowledgeCalls, OnPlan(call), HoldsOwn(call),
           kcall' = [kcall EXCEPT ![c] = call]
    PROVE  CallTypes' /\ kcall'[c] = call /\ \A d \in KCalls \ {c} : kcall'[d] = kcall[d]
<1>1. /\ kcall \in [KCalls -> KnowledgeCalls \cup {Idle}]
      /\ \A d \in KCalls : kcall[d] # Idle => OnPlan(kcall[d]) /\ HoldsOwn(kcall[d])
  BY DEF KTypes, CallTypes
<1>2. kcall'[c] = call /\ \A d \in KCalls \ {c} : kcall'[d] = kcall[d]
  BY <1>1
<1>3. kcall' \in [KCalls -> KnowledgeCalls \cup {Idle}]
  BY <1>1
<1> QED BY <1>1, <1>2, <1>3 DEF CallTypes

LEMMA StartCallTypes ==
    ASSUME KTypes, NEW c \in KCalls, NEW kind \in CallKinds, NEW s \in KSources, NEW steps,
           StartsWith(kind, steps), NEW held, held \subseteq {<<s, 0>>} \cup Chunks(s),
           StartCall(c, kind, s, steps, held)
    PROVE  /\ KTypes' /\ UNCHANGED <<krow, kdead, kfile, kref, kchunks, ktorn>>
           /\ kcall[c] = Idle /\ kcall'[c] # Idle
           /\ \A d \in KCalls \ {c} : kcall'[d] = kcall[d]
           /\ kcall'[c].kind = kind /\ kcall'[c].src = s /\ kcall'[c].held = held
           /\ steps # <<"retire">> => Len(kcall'[c].todo) = Len(CallPlan[kind])
           /\ Head(kcall'[c].todo) # "drop" /\ Head(kcall'[c].todo) # "append"
<1>1. /\ kcall[c] = Idle
      /\ kcall' = [kcall EXCEPT ![c] =
                     [kind |-> kind, src |-> s, todo |-> steps, held |-> held]]
      /\ UNCHANGED <<krow, kdead, kfile, kref, kchunks, ktorn, krestarts>>
  BY DEF StartCall, kfiles, kstays
<1>2. PICK call : call = Begun(kind, s, steps, held)
  OBVIOUS
<1>5. kcall' = [kcall EXCEPT ![c] = call]
  BY <1>1, <1>2 DEF Begun
<1>3. /\ call \in KnowledgeCalls /\ OnPlan(call) /\ HoldsOwn(call) /\ call # Idle
      /\ call.kind = kind /\ call.src = s /\ call.held = held
      /\ steps # <<"retire">> => Len(call.todo) = Len(CallPlan[kind])
      /\ Head(call.todo) # "drop" /\ Head(call.todo) # "append"
  BY <1>2, BegunTypes
<1>6. CallTypes' /\ kcall'[c] = call /\ \A d \in KCalls \ {c} : kcall'[d] = kcall[d]
  BY <1>3, <1>5, InstallTypes
<1>4. StoreTypes'
  BY <1>1 DEF KTypes, StoreTypes
<1> QED BY <1>1, <1>3, <1>4, <1>6 DEF KTypes

\* What each kind of call starts with.
LEMMA StartsOnPlan ==
    ASSUME KTypes, NEW s \in KSources
    PROVE  /\ \A kind \in {"text", "file"} :
                 StartsWith(kind, ImportSteps \o (IF kind = "file" THEN IngestSteps ELSE <<>>))
           /\ StartsWith("reindex", ReplaceSteps) /\ StartsWith("edit", EditSteps)
           /\ StartsWith("delete", PurgeSteps \o <<"list", "drop">>)
           /\ StartsWith("rollback", PurgeSteps) /\ StartsWith("rollback", <<"retire">>)
           /\ PurgedRows(s) \subseteq {<<s, 0>>} \cup Chunks(s)
<1>1. PurgedRows(s) \subseteq {<<s, 0>>} \cup Chunks(s)
  BY ChunksAreOwn DEF PurgedRows
<1> QED BY <1>1, Zenon DEF StartsWith

\* The steps on the rows, one by one.
LEMMA RowStepTypes ==
    ASSUME KTypes, NEW c \in KCalls, RowStep(c)
    PROVE  KTypes'
<1> DEFINE s == kcall[c].src
           step == Head(kcall[c].todo)
           held == kcall[c].held
<1>1. kcall[c] # Idle /\ UNCHANGED <<kfile, kref, kchunks, ktorn, krestarts>>
  BY DEF RowStep, kfiles, kstays
<1>2. kcall[c] \in KnowledgeCalls /\ s \in KSources
  BY <1>1, AtStep DEF KnowledgeCalls
<1>3. step \in {"drop", "append"} => held \subseteq Chunks(s)
  BY <1>1 DEF KTypes, CallTypes, HoldsOwn
<1>4. /\ LiveChunks(s) \subseteq Chunks(s) /\ NewChunks(s) \subseteq Chunks(s)
      /\ Chunks(s) \subseteq KRows /\ Chunks(s) \subseteq KSources \X Parts
      /\ <<s, 0>> \in KRows
  BY <1>2, ChunksAreOwn
<1>5. /\ krow \subseteq KRows /\ kdead \subseteq KSources \X Parts
  BY DEF KTypes, StoreTypes
<1>6. CASE step = "record" /\ PutRow(<<s, 0>>) /\ Advance(c, {})
  <2>1. CallTypes'
    BY <1>1, <1>6, AdvanceTypes
  <2>2. StoreTypes'
    BY <1>1, <1>4, <1>5, <1>6 DEF PutRow, KTypes, StoreTypes
  <2> QED BY <2>1, <2>2 DEF KTypes
<1>7. CASE step = "list" /\ UNCHANGED <<krow, kdead>> /\ Advance(c, LiveChunks(s))
  <2>1. CallTypes'
    BY <1>1, <1>4, <1>7, AdvanceTypes
  <2> QED BY <1>1, <1>7, <2>1 DEF KTypes, StoreTypes
<1>8. CASE step = "drop" /\ held # {} /\ DeleteRow(NextHeld(c)) /\ Take(c, NextHeld(c))
  <2>1. CallTypes'
    BY <1>1, <1>8, TakeTypes
  <2>2. NextHeld(c) \in KSources \X Parts
    BY <1>1, <1>3, <1>4, <1>8, NextIsHeld
  <2>3. StoreTypes'
    BY <1>1, <1>5, <1>8, <2>2 DEF DeleteRow, KTypes, StoreTypes
  <2> QED BY <2>1, <2>3 DEF KTypes
<1>9. CASE step = "drop" /\ held = {} /\ UNCHANGED <<krow, kdead>> /\ Advance(c, NewChunks(s))
  <2>1. CallTypes'
    BY <1>1, <1>4, <1>9, AdvanceTypes
  <2> QED BY <1>1, <1>9, <2>1 DEF KTypes, StoreTypes
<1>10. CASE step = "append" /\ held # {} /\ PutRow(NextHeld(c)) /\ Take(c, NextHeld(c))
  <2>1. CallTypes'
    BY <1>1, <1>10, TakeTypes
  <2>2. NextHeld(c) \in KRows
    BY <1>1, <1>3, <1>4, <1>10, NextIsHeld
  <2>3. StoreTypes'
    BY <1>1, <1>5, <1>10, <2>2 DEF PutRow, KTypes, StoreTypes
  <2> QED BY <2>1, <2>3 DEF KTypes
<1>11. CASE step = "append" /\ held = {} /\ UNCHANGED <<krow, kdead>> /\ Advance(c, {})
  <2>1. CallTypes'
    BY <1>1, <1>11, AdvanceTypes
  <2> QED BY <1>1, <1>11, <2>1 DEF KTypes, StoreTypes
<1> QED BY <1>6, <1>7, <1>8, <1>9, <1>10, <1>11, Zenon DEF RowStep

LEMMA OtherStepTypes ==
    ASSUME KTypes, NEW c \in KCalls,
           PurgeStep(c) \/ TextStep(c)
    PROVE  KTypes'
<1>1. kcall[c] # Idle /\ Advance(c, {}) /\ UNCHANGED <<kchunks, ktorn, krestarts>>
  BY DEF PurgeStep, TextStep, kstays
<1>2. CallTypes'
  BY <1>1, AdvanceTypes
<1>3. kcall[c].src \in KSources
  BY <1>1, AtStep DEF KnowledgeCalls
<1>4. CASE PurgeStep(c)
  BY <1>1, <1>2, <1>4 DEF PurgeStep, Purge, kfiles, KTypes, StoreTypes
<1>5. CASE TextStep(c)
  <2>1. kref' \subseteq KSources
    BY <1>3, <1>5 DEF TextStep, KTypes, StoreTypes
  <2>2. kfile' \in [KSources -> {"none", "kept", "trash"}]
    <3>1. \/ kfile' = kfile \/ kfile' = [kfile EXCEPT ![kcall[c].src] = "kept"]
          \/ kfile' = [kfile EXCEPT ![kcall[c].src] = "trash"]
      BY <1>5 DEF TextStep
    <3> QED BY <3>1 DEF KTypes, StoreTypes
  <2> QED BY <1>1, <1>2, <1>5, <2>1, <2>2 DEF TextStep, KTypes, StoreTypes
<1> QED BY <1>4, <1>5

\* How an import that fails goes on.
LEMMA FailMeans ==
    ASSUME KTypes, NEW c \in KCalls, ImportFails(c)
    PROVE  LET s == kcall[c].src
           IN  /\ KTypes' /\ UNCHANGED <<krow, kdead, kfile, kref, kchunks, ktorn>>
               /\ kcall[c] # Idle /\ s \in KSources /\ Imports(c) /\ ImportLeft(c) >= 1
               /\ \A d \in KCalls \ {c} : kcall'[d] = kcall[d]
               /\ \/ Head(kcall[c].todo) = "document" /\ kcall'[c] = Idle
                  \/ /\ Head(kcall[c].todo) # "document" /\ kcall'[c] # Idle
                     /\ kcall'[c].kind = "rollback" /\ kcall'[c].src = s
                     /\ kcall'[c].held = PurgedRows(s)
                     /\ Len(kcall'[c].todo) = IF LiveSource(s) THEN 3 ELSE 1
                     /\ Head(kcall'[c].todo) # "drop" /\ Head(kcall'[c].todo) # "append"
<1> DEFINE s == kcall[c].src
<1>1. /\ UNCHANGED <<krow, kdead, kfile, kref, kchunks, ktorn, krestarts>>
      /\ Imports(c) /\ InImportDocument(c)
      /\ kcall' = [kcall EXCEPT ![c] =
             IF Head(kcall[c].todo) = "document" THEN Idle ELSE Rollback(s)]
  BY DEF ImportFails, kfiles, kstays
<1>2. kcall[c] # Idle
  BY <1>1 DEF Imports, Idle
<1>3. s \in KSources /\ Left(c) \in Nat
  BY <1>2, AtStep DEF KnowledgeCalls
<1>4. ImportLeft(c) >= 1
  <2>1. PICK ingest : ingest = IngestSteps
    OBVIOUS
  <2>2. Len(ingest) = 4
    BY <2>1, IngestPlan
  <2>3. Left(c) > (IF kcall[c].kind = "file" THEN 4 ELSE 0)
    BY <1>1, <2>1, <2>2 DEF InImportDocument, Left
  <2> QED BY <1>3, <2>3 DEF ImportLeft
<1>5. /\ kcall \in [KCalls -> KnowledgeCalls \cup {Idle}]
      /\ \A d \in KCalls : kcall[d] # Idle => OnPlan(kcall[d]) /\ HoldsOwn(kcall[d])
  BY DEF KTypes, CallTypes
<1>6. \A d \in KCalls \ {c} : kcall'[d] = kcall[d]
  BY <1>1, <1>5
<1>7. StoreTypes'
  BY <1>1 DEF KTypes, StoreTypes
<1>8. CASE Head(kcall[c].todo) = "document"
  <2>1. kcall' = [kcall EXCEPT ![c] = Idle] /\ kcall'[c] = Idle
    BY <1>1, <1>5, <1>8
  <2>2. kcall' \in [KCalls -> KnowledgeCalls \cup {Idle}]
    BY <1>5, <2>1
  <2>3. CallTypes'
    BY <1>5, <1>6, <2>1, <2>2 DEF CallTypes
  <2> QED BY <1>1, <1>2, <1>3, <1>4, <1>6, <1>7, <1>8, <2>1, <2>3 DEF KTypes
<1>9. CASE Head(kcall[c].todo) # "document"
  <2> DEFINE steps == IF LiveSource(s) THEN PurgeSteps ELSE <<"retire">>
  <2>1. kcall' = [kcall EXCEPT ![c] = Rollback(s)]
    BY <1>1, <1>9
  <2>2. StartsWith("rollback", steps)
    BY <1>3, StartsOnPlan
  <2>3. PICK call : call = Begun("rollback", s, steps, PurgedRows(s))
    OBVIOUS
  <2>4. call = Rollback(s)
    BY <2>3 DEF Rollback, Begun
  <2>5. PurgedRows(s) \subseteq {<<s, 0>>} \cup Chunks(s) /\ "rollback" \in CallKinds
    BY <1>3, StartsOnPlan DEF CallKinds
  <2>6. kcall' = [kcall EXCEPT ![c] = call]
    BY <2>1, <2>4
  <2>7. steps = <<"retire">> <=> ~LiveSource(s)
    <3>1. Len(PurgeSteps) = 3 /\ Len(<<"retire">>) = 1
      BY DEF PurgeSteps
    <3> QED BY <3>1
  <2> HIDE DEF steps
  <2>8. /\ call \in KnowledgeCalls /\ OnPlan(call) /\ HoldsOwn(call) /\ call # Idle
        /\ call.kind = "rollback" /\ call.src = s /\ call.held = PurgedRows(s)
        /\ steps = <<"retire">> => Len(call.todo) = 1
        /\ steps # <<"retire">> => Len(call.todo) = Len(CallPlan["rollback"])
        /\ Head(call.todo) # "drop" /\ Head(call.todo) # "append"
    BY <1>3, <2>2, <2>3, <2>5, BegunTypes
  <2>9. Len(call.todo) = IF LiveSource(s) THEN 3 ELSE 1
    BY <2>7, <2>8, PlanLengths
  <2>10. CallTypes' /\ kcall'[c] = call
    BY <2>6, <2>8, InstallTypes
  <2> QED BY <1>1, <1>2, <1>3, <1>4, <1>6, <1>7, <1>9, <2>8, <2>9, <2>10 DEF KTypes
<1> QED BY <1>8, <1>9

LEMMA RestartTypes ==
    ASSUME KTypes, KnowledgeRestart
    PROVE  KTypes'
<1>1. krestarts' \in 0..MaxKRestarts
  BY KnowledgeAssumption DEF KnowledgeRestart, KTypes, StoreTypes
<1>2. CallTypes'
  BY DEF KnowledgeRestart, CallTypes
<1>3. StoreTypes'
  BY <1>1 DEF KnowledgeRestart, KTypes, StoreTypes
<1> QED BY <1>2, <1>3 DEF KTypes

LEMMA KnowledgeStepTypes ==
    ASSUME KTypes, [KnowledgeNext]_kvars
    PROVE  KTypes'
<1>1. ASSUME NEW c \in KCalls, NEW s \in KSources,
             \/ \E kind \in {"text", "file"} : StartImport(c, s, kind)
             \/ StartReindex(c, s) \/ StartEdit(c, s) \/ StartDelete(c, s)
      PROVE  KTypes'
  <2>1. {} \subseteq {<<s, 0>>} \cup Chunks(s)
    OBVIOUS
  <2>2. ASSUME NEW kind \in {"text", "file"}, StartImport(c, s, kind)
        PROVE  KTypes'
    <3>1. PICK steps : steps = ImportSteps \o (IF kind = "file" THEN IngestSteps ELSE <<>>)
      OBVIOUS
    <3>2. StartCall(c, kind, s, steps, {}) /\ StartsWith(kind, steps) /\ kind \in CallKinds
      BY <2>2, <3>1, StartsOnPlan DEF StartImport, CallKinds
    <3> QED BY <2>1, <3>2, StartCallTypes
  <2>3. CASE StartReindex(c, s)
    BY <2>1, <2>3, StartsOnPlan, StartCallTypes DEF StartReindex, CallKinds
  <2>4. CASE StartEdit(c, s)
    BY <2>1, <2>4, StartsOnPlan, StartCallTypes DEF StartEdit, CallKinds
  <2>5. CASE StartDelete(c, s)
    <3>1. PICK steps : steps = PurgeSteps \o <<"list", "drop">>
      OBVIOUS
    <3>2. /\ StartCall(c, "delete", s, steps, PurgedRows(s)) /\ StartsWith("delete", steps)
          /\ "delete" \in CallKinds /\ PurgedRows(s) \subseteq {<<s, 0>>} \cup Chunks(s)
      BY <2>5, <3>1, StartsOnPlan DEF StartDelete, CallKinds
    <3> QED BY <3>2, StartCallTypes
  <2> QED BY <1>1, <2>2, <2>3, <2>4, <2>5
<1>2. CASE ForgetMemory
  BY <1>2 DEF ForgetMemory, Purge, kfiles, kstays, KTypes, StoreTypes, CallTypes
<1>3. CASE UNCHANGED kvars
  BY <1>3 DEF kvars, KTypes, StoreTypes, CallTypes
<1> QED BY <1>1, <1>2, <1>3, RowStepTypes, OtherStepTypes, FailMeans, RestartTypes
        DEF KnowledgeNext, CallStep

-----------------------------------------------------------------------------
(* The knowledge base: every step leaves an undisturbed source sound.      *)

\* The step leaves source s alone; tombstones of its rows may go.
LeavesAlone(s) ==
    /\ \A k \in 0..MaxParts : <<s, k>> \in krow' <=> <<s, k>> \in krow
    /\ \A k \in Parts : <<s, k>> \in kdead' => <<s, k>> \in kdead
    /\ kfile'[s] = kfile[s] /\ (s \in kref' <=> s \in kref) /\ kchunks' = kchunks
    /\ \A c \in KCalls : Busy(c, s)' <=> Busy(c, s)
    /\ \A c \in KCalls : Busy(c, s) => kcall'[c] = kcall[c]

LEMMA ChunkNames ==
    ASSUME KTypes, NEW s \in KSources
    PROVE  /\ \A r : r \in Chunks(s) <=> \E k \in Parts : r = <<s, k>>
           /\ \A r \in NewChunks(s) : \E k \in Parts : r = <<s, k>>
           /\ NewChunks(s) \subseteq Chunks(s)
           /\ Parts \subseteq 0..MaxParts /\ 0 \notin Parts /\ 0 \in 0..MaxParts
           /\ \A k \in 0..MaxParts : k = 0 \/ k \in Parts
<1>1. NewChunks(s) \subseteq Chunks(s)
  BY ChunksAreOwn
<1>3. \A r : r \in Chunks(s) <=> \E k \in Parts : r = <<s, k>>
  BY DEF Chunks
<1>2. /\ Parts \subseteq 0..MaxParts /\ 0 \notin Parts /\ 0 \in 0..MaxParts
      /\ \A k \in 0..MaxParts : k = 0 \/ k \in Parts
  BY KnowledgeAssumption DEF Parts
<1> QED BY <1>1, <1>2, <1>3

LEMMA Untouched ==
    ASSUME KTypes, NEW s \in KSources, Sound(s), LeavesAlone(s)
    PROVE  Sound(s)'
<1>1. NewChunks(s)' = NewChunks(s)
  BY DEF LeavesAlone, NewChunks
<1>2. /\ NoRows(s)' <=> NoRows(s)
      /\ NoChunks(s)' <=> NoChunks(s)
      /\ NoneDead(s) => NoneDead(s)'
  BY ChunkNames DEF LeavesAlone, NoRows, NoChunks, NoneDead
<1>3. ASSUME NEW c \in KCalls, Busy(c, s)
      PROVE  /\ (Updates(c)' <=> Updates(c)) /\ Left(c)' = Left(c)
             /\ ImportLeft(c)' = ImportLeft(c) /\ (Imports(c)' <=> Imports(c))
             /\ \A r : WillAppend(c, r)' <=> WillAppend(c, r)
             /\ kcall'[c] = kcall[c]
  <2>1. kcall'[c] = kcall[c]
    BY <1>3 DEF LeavesAlone
  <2> QED BY <2>1 DEF Updates, Left, ImportLeft, Imports, WillAppend
<1>4. \A c \in KCalls : Busy(c, s)' <=> Busy(c, s)
  BY DEF LeavesAlone
<1>5. Fresh(s)'
  BY <1>2, <1>3, <1>4 DEF Sound, Fresh, LeavesAlone
<1>6. RowsNew(s)'
  <2>1. ASSUME NEW r, r \in krow' \cap Chunks(s)
        PROVE  r \in krow
    BY <2>1, ChunkNames DEF LeavesAlone
  <2>2. krow \cap Chunks(s) \subseteq NewChunks(s)
    BY DEF Sound, RowsNew
  <2>3. krow' \cap Chunks(s) \subseteq NewChunks(s)'
    BY <1>1, <2>1, <2>2
  <2> QED BY <2>3 DEF RowsNew, Chunks
<1>7. SourceWritten(s) => SourceWritten(s)'
  <2>1. SUFFICES ASSUME SourceWritten(s) PROVE SourceWritten(s)'
    OBVIOUS
  <2>2. <<s, 0>> \in krow' /\ s \in kref' /\ kfile'[s] = "kept"
    BY <2>1, ChunkNames DEF SourceWritten, LeavesAlone
  <2>3. ASSUME NEW r \in NewChunks(s)
        PROVE  r \in LiveRows' \/ \E c \in KCalls : Busy(c, s)' /\ WillAppend(c, r)'
    <3>1. CASE r \in LiveRows
      BY <3>1, <2>3, ChunkNames DEF LiveRows, LeavesAlone
    <3>2. CASE \E c \in KCalls : Busy(c, s) /\ WillAppend(c, r)
      BY <3>2, <1>3, <1>4
    <3> QED BY <2>1, <2>3, <3>1, <3>2 DEF SourceWritten
  <2> QED BY <1>1, <2>2, <2>3 DEF SourceWritten
<1>8. Absent(s) => Absent(s)'
  BY <1>2 DEF Absent, LeavesAlone
<1>9. SourceSettled(s)' => SourceWritten(s)' \/ Absent(s)'
  <2>1. SourceSettled(s)' => SourceSettled(s)
    BY <1>3, <1>4 DEF SourceSettled
  <2> QED BY <1>7, <1>8, <2>1 DEF Sound
<1>10. ASSUME NEW c \in KCalls, Busy(c, s)'
       PROVE  CallSound(c, s)'
  <2>1. Busy(c, s) /\ CallSound(c, s) /\ kcall'[c] = kcall[c]
    BY <1>3, <1>4, <1>10 DEF Sound
  <2>2. /\ kfile'[s] = kfile[s] /\ (s \in kref' <=> s \in kref)
        /\ \A k \in 0..MaxParts : <<s, k>> \in krow' <=> <<s, k>> \in krow
        /\ \A k \in Parts : <<s, k>> \in kdead' => <<s, k>> \in kdead
    BY DEF LeavesAlone
  <2>3. ImportSound(c, s) => ImportSound(c, s)'
    BY <1>2, <1>3, <1>7, <2>1, <2>2, ChunkNames DEF ImportSound
  <2>4. RollbackSound(c, s) => RollbackSound(c, s)'
    BY <1>2, <1>3, <2>1, <2>2, ChunkNames DEF RollbackSound
  <2>5. DeleteSound(c, s) => DeleteSound(c, s)'
    BY <1>2, <1>3, <2>1, <2>2, ChunkNames DEF DeleteSound
  <2> QED BY <1>1, <1>3, <1>7, <2>1, <2>3, <2>4, <2>5 DEF CallSound
<1> QED BY <1>4, <1>5, <1>6, <1>9, <1>10 DEF Sound

\* A call goes on, or ends; the others stay as they are.
GoesOn(c) ==
    /\ \A d \in KCalls \ {c} : kcall'[d] = kcall[d]
    /\ kcall'[c] = Idle \/ (kcall'[c] # Idle /\ kcall'[c].kind = kcall[c].kind
                              /\ kcall'[c].src = kcall[c].src)

LEMMA CallGoesOn ==
    ASSUME KTypes, NEW c \in KCalls, RowStep(c) \/ PurgeStep(c) \/ TextStep(c)
    PROVE  /\ GoesOn(c) /\ kcall[c] # Idle /\ kcall[c].src \in KSources
           /\ kchunks' = kchunks /\ ktorn' = ktorn
<1>1. kcall[c] # Idle /\ kchunks' = kchunks /\ ktorn' = ktorn
  BY DEF RowStep, PurgeStep, TextStep, kstays
<1>2. (\E rows : Advance(c, rows)) \/ (\E r : Take(c, r))
  BY DEF RowStep, PurgeStep, TextStep
<1>3. GoesOn(c)
  BY <1>1, <1>2, AdvanceMeans, TakeMeans DEF GoesOn
<1> QED BY <1>1, <1>3, AtStep DEF KnowledgeCalls

LEMMA AloneStays ==
    ASSUME NEW c \in KCalls, kcall[c] # Idle, GoesOn(c), NEW s, Alone(s)
    PROVE  Alone(s)'
<1>1. \A d \in KCalls : Busy(d, s)' => Busy(d, s) /\ kcall'[d].kind = kcall[d].kind
  BY DEF GoesOn, Busy
<1> QED BY <1>1 DEF Alone, Updates

\* A step of a call leaves the other sources alone.
LEMMA OthersUntouched ==
    ASSUME KTypes, NEW c \in KCalls, RowStep(c) \/ PurgeStep(c) \/ TextStep(c),
           NEW s \in KSources, s # kcall[c].src
    PROVE  LeavesAlone(s)
<1> DEFINE own == kcall[c].src
<1>1. /\ GoesOn(c) /\ kcall[c] # Idle /\ own \in KSources /\ kchunks' = kchunks
  BY CallGoesOn
<1>2. \A d \in KCalls : Busy(d, s)' <=> Busy(d, s)
  BY <1>1 DEF GoesOn, Busy
<1>3. \A d \in KCalls : Busy(d, s) => kcall'[d] = kcall[d]
  BY <1>1 DEF GoesOn, Busy
<1>4. /\ kcall[c].held \subseteq {<<own, 0>>} \cup Chunks(own)
      /\ kcall[c].held # {} => NextHeld(c) \in kcall[c].held
  BY <1>1, NextIsHeld DEF KTypes, CallTypes, HoldsOwn
<1>5. \A r \in kcall[c].held : \A k : r # <<s, k>>
  BY <1>1, <1>4 DEF Chunks
<1>6. \A k : <<own, 0>> # <<s, k>>
  OBVIOUS
<1>7. \A k \in 0..MaxParts : <<s, k>> \in krow' <=> <<s, k>> \in krow
  <2>1. CASE RowStep(c)
    BY <1>4, <1>5, <1>6, <2>1 DEF RowStep, PutRow, DeleteRow
  <2>2. CASE PurgeStep(c)
    BY <1>5, <2>2 DEF PurgeStep, Purge
  <2> QED BY <2>1, <2>2 DEF TextStep
<1>8. \A k \in Parts : <<s, k>> \in kdead' => <<s, k>> \in kdead
  <2>1. CASE RowStep(c)
    BY <1>4, <1>5, <2>1 DEF RowStep, PutRow, DeleteRow
  <2>2. CASE PurgeStep(c)
    BY <2>2 DEF PurgeStep, Purge
  <2> QED BY <2>1, <2>2 DEF TextStep
<1>9. kfile'[s] = kfile[s] /\ (s \in kref' <=> s \in kref)
  <2>1. kfile \in [KSources -> {"none", "kept", "trash"}]
    BY DEF KTypes, StoreTypes
  <2>2. CASE TextStep(c)
    BY <2>1, <2>2 DEF TextStep
  <2> QED BY <2>2 DEF RowStep, PurgeStep, kfiles
<1> QED BY <1>1, <1>2, <1>3, <1>7, <1>8, <1>9 DEF LeavesAlone

\* Chunks in hand are chunks of the present chunker, and so are the rows.
LEMMA HandsStayNew ==
    ASSUME KTypes, NEW c \in KCalls, NEW s \in KSources, Busy(c, s), RowStep(c), RowsNew(s),
           Head(kcall[c].todo) \in {"drop", "append"} => kcall[c].held \subseteq NewChunks(s)
    PROVE  /\ RowsNew(s)'
           /\ kcall'[c] # Idle /\ Head(kcall'[c].todo) \in {"drop", "append"} =>
                kcall'[c].held \subseteq NewChunks(s)'
<1> DEFINE step == Head(kcall[c].todo)
           held == kcall[c].held
<1>1. kcall[c] # Idle /\ kcall[c].src = s /\ kchunks' = kchunks
  BY CallGoesOn DEF Busy
<1>2. NewChunks(s)' = NewChunks(s)
  BY <1>1 DEF NewChunks
<1>3. held # {} => NextHeld(c) \in held
  BY <1>1, NextIsHeld
<1>4. <<s, 0>> \notin Chunks(s)
  BY PartsArePlaces DEF Chunks
<1>5. RowsNew(s)'
  <2>1. \/ krow' = krow \/ krow' = krow \cup {<<s, 0>>}
        \/ step = "append" /\ held # {} /\ krow' = krow \cup {NextHeld(c)}
    BY <1>1 DEF RowStep, PutRow, DeleteRow
  <2>2. krow' \cap Chunks(s) \subseteq NewChunks(s)
    BY <1>3, <1>4, <2>1 DEF RowsNew
  <2> QED BY <1>2, <2>2 DEF RowsNew, Chunks
<1>6. LiveChunks(s) \subseteq NewChunks(s)
  BY DEF RowsNew, LiveChunks, LiveRows
<1>7. \/ Advance(c, {}) \/ Advance(c, LiveChunks(s)) \/ Advance(c, NewChunks(s))
      \/ step \in {"drop", "append"} /\ Take(c, NextHeld(c))
  BY <1>1 DEF RowStep
<1>8. kcall'[c] # Idle => \/ kcall'[c].held \in {{}, LiveChunks(s), NewChunks(s)}
                          \/ step \in {"drop", "append"} /\ kcall'[c].held \subseteq held
  BY <1>1, <1>7, AdvanceMeans, TakeMeans
<1> QED BY <1>2, <1>5, <1>6, <1>8

\* The steps of updates, and those of an import behind the references, leave the source
\* written: what is dropped is appended by the same call.
LEMMA WrittenStays ==
    ASSUME KTypes, NEW c \in KCalls, NEW s \in KSources, Busy(c, s), RowStep(c), SourceWritten(s),
           kcall[c].kind # "delete", Imports(c) => ImportLeft(c) <= 3
    PROVE  SourceWritten(s)'
<1> DEFINE step == Head(kcall[c].todo)
           held == kcall[c].held
           last == IF kcall[c].kind = "file" THEN 2 ELSE 1
           last2 == IF kcall'[c].kind = "file" THEN 2 ELSE 1
<1>1. /\ kcall[c] # Idle /\ kcall[c].src = s /\ kchunks' = kchunks /\ GoesOn(c)
      /\ kfile' = kfile /\ kref' = kref
  BY CallGoesOn DEF Busy, RowStep, kfiles
<1>2. NewChunks(s)' = NewChunks(s)
  BY <1>1 DEF NewChunks
<1>3. krow \subseteq krow'
  BY DEF RowStep, PutRow, DeleteRow
<1>4. Left(c) \in Nat \ {0}
  BY <1>1, AtStep
<1>5. ASSUME NEW r \in NewChunks(s)
      PROVE  r \in LiveRows' \/ \E d \in KCalls : Busy(d, s)' /\ WillAppend(d, r)'
  <2>1. CASE \E d \in KCalls \ {c} : Busy(d, s) /\ WillAppend(d, r)
    BY <1>1, <2>1 DEF GoesOn, Busy, WillAppend, Left
  <2>2. CASE r \in LiveRows
    <3>1. CASE step = "drop" /\ held # {} /\ DeleteRow(NextHeld(c)) /\ Take(c, NextHeld(c))
      <4>1. \/ kcall[c].kind = "text" /\ Left(c) = 2
            \/ kcall[c].kind = "file" /\ Left(c) \in {6, 3}
            \/ kcall[c].kind = "reindex" /\ Left(c) = 2
        BY <1>1, <3>1, StepMeans
      <4>2. kcall[c].kind \in {"text", "file", "reindex"} /\ Left(c) > last
        BY <4>1
      <4>3. Busy(c, s)' /\ kcall'[c].kind = kcall[c].kind /\ Left(c)' = Left(c)
        BY <1>1, <3>1, TakeMeans DEF Busy, Left
      <4>4. WillAppend(c, r)'
        BY <4>2, <4>3 DEF WillAppend
      <4> QED BY <4>3, <4>4
    <3>2. CASE ~(step = "drop" /\ held # {})
      <4>1. r \in krow' /\ r \notin kdead'
        BY <2>2, <3>2 DEF RowStep, PutRow, LiveRows
      <4> QED BY <4>1 DEF LiveRows
    <3> QED BY <3>1, <3>2 DEF RowStep
  <2>3. CASE WillAppend(c, r)
    <3>1. /\ kcall[c].kind \in {"text", "file", "reindex"}
          /\ Left(c) > last \/ (Left(c) = last /\ r \in held)
      BY <2>3 DEF WillAppend
    <3>2. ASSUME kcall'[c] # Idle, kcall'[c].kind = kcall[c].kind, kcall'[c].src = kcall[c].src,
                 Left(c)' > last \/ (Left(c)' = last /\ r \in kcall'[c].held)
          PROVE  Busy(c, s)' /\ WillAppend(c, r)'
      <4>1. Busy(c, s)' /\ last2 = last
        BY <1>1, <3>2 DEF Busy
      <4> QED BY <3>1, <3>2, <4>1 DEF WillAppend
    <3>3. CASE step = "record"
      BY <1>1, <3>1, <3>3, StepMeans DEF Imports, ImportLeft
    <3>4. CASE step = "list" /\ Advance(c, LiveChunks(s))
      <4>1. \/ kcall[c].kind = "text" /\ Left(c) = 3
            \/ kcall[c].kind = "file" /\ Left(c) \in {7, 4}
            \/ kcall[c].kind = "reindex" /\ Left(c) = 3
        BY <1>1, <3>1, <3>4, StepMeans
      <4>2. Left(c) # 1 /\ Left(c) - 1 > last
        BY <4>1
      <4>3. /\ kcall'[c] # Idle /\ kcall'[c].kind = kcall[c].kind
            /\ kcall'[c].src = kcall[c].src /\ Left(c)' = Left(c) - 1
        BY <1>1, <3>4, <4>2, AdvanceMeans DEF Left
      <4> QED BY <3>2, <4>2, <4>3
    <3>5. CASE step = "drop" /\ Take(c, NextHeld(c))
      <4>1. \/ kcall[c].kind = "text" /\ Left(c) = 2
            \/ kcall[c].kind = "file" /\ Left(c) \in {6, 3}
            \/ kcall[c].kind = "reindex" /\ Left(c) = 2
        BY <1>1, <3>1, <3>5, StepMeans
      <4>2. Left(c) > last
        BY <4>1
      <4>3. /\ kcall'[c] # Idle /\ kcall'[c].kind = kcall[c].kind
            /\ kcall'[c].src = kcall[c].src /\ Left(c)' = Left(c)
        BY <1>1, <3>5, TakeMeans DEF Left
      <4> QED BY <3>2, <4>2, <4>3
    <3>6. CASE step = "drop" /\ Advance(c, NewChunks(s))
      <4>1. \/ kcall[c].kind = "text" /\ Left(c) = 2
            \/ kcall[c].kind = "file" /\ Left(c) \in {6, 3}
            \/ kcall[c].kind = "reindex" /\ Left(c) = 2
        BY <1>1, <3>1, <3>6, StepMeans
      <4>2. Left(c) # 1 /\ (Left(c) - 1 > last \/ Left(c) - 1 = last)
        BY <4>1
      <4>3. /\ kcall'[c] # Idle /\ kcall'[c].kind = kcall[c].kind
            /\ kcall'[c].src = kcall[c].src /\ Left(c)' = Left(c) - 1
            /\ kcall'[c].held = NewChunks(s)
        BY <1>1, <3>6, <4>2, AdvanceMeans DEF Left
      <4> QED BY <1>5, <3>2, <4>2, <4>3
    <3>7. CASE step = "append" /\ PutRow(NextHeld(c)) /\ Take(c, NextHeld(c))
      <4>1. CASE r = NextHeld(c)
        BY <3>7, <4>1 DEF PutRow, LiveRows
      <4>2. CASE r # NextHeld(c)
        <5>1. /\ kcall'[c] # Idle /\ kcall'[c].kind = kcall[c].kind
              /\ kcall'[c].src = kcall[c].src /\ Left(c)' = Left(c)
              /\ kcall'[c].held = held \ {NextHeld(c)}
          BY <1>1, <3>7, TakeMeans DEF Left
        <5>2. Left(c)' > last \/ (Left(c)' = last /\ r \in kcall'[c].held)
          BY <3>1, <4>2, <5>1
        <5> QED BY <3>2, <5>1, <5>2
      <4> QED BY <4>1, <4>2
    <3>8. CASE step = "append" /\ held = {} /\ Advance(c, {})
      <4>1. kcall[c].kind = "file" /\ Left(c) = 5
        <5>1. \/ kcall[c].kind = "text" /\ Left(c) = 1
              \/ kcall[c].kind = "file" /\ Left(c) \in {5, 2}
              \/ kcall[c].kind = "reindex" /\ Left(c) = 1
          BY <1>1, <3>1, <3>8, StepMeans
        <5> QED BY <3>1, <3>8, <5>1
      <4>2. Left(c) # 1 /\ Left(c) - 1 > last
        BY <4>1
      <4>3. /\ kcall'[c] # Idle /\ kcall'[c].kind = kcall[c].kind
            /\ kcall'[c].src = kcall[c].src /\ Left(c)' = Left(c) - 1
        BY <1>1, <3>8, <4>2, AdvanceMeans DEF Left
      <4> QED BY <3>2, <4>2, <4>3
    <3> QED BY <1>1, <3>3, <3>4, <3>5, <3>6, <3>7, <3>8 DEF RowStep
  <2> QED BY <2>1, <2>2, <2>3, <1>5 DEF SourceWritten
<1> QED BY <1>1, <1>2, <1>3, <1>5 DEF SourceWritten

\* An update: the source stays written.
LEMMA UpdateStepSound ==
    ASSUME KTypes, NEW c \in KCalls, NEW s \in KSources, Busy(c, s), Updates(c),
           Alone(s), Sound(s), RowStep(c)
    PROVE  Sound(s)'
<1>1. /\ CallSound(c, s) /\ SourceWritten(s) /\ RowsNew(s)
  BY DEF Sound, CallSound
<1>2. SourceWritten(s)'
  BY <1>1, WrittenStays DEF Updates, Imports
<1>3. /\ RowsNew(s)'
      /\ kcall'[c] # Idle /\ Head(kcall'[c].todo) \in {"drop", "append"} =>
           kcall'[c].held \subseteq NewChunks(s)'
  BY <1>1, HandsStayNew DEF CallSound
<1>4. GoesOn(c) /\ kchunks' = kchunks
  BY CallGoesOn
<1>5. ASSUME NEW d \in KCalls, Busy(d, s)'
      PROVE  CallSound(d, s)'
  <2>1. Busy(d, s) /\ kcall'[d].kind = kcall[d].kind /\ Updates(d)
    <3>1. Busy(d, s) /\ kcall'[d].kind = kcall[d].kind
      BY <1>4, <1>5 DEF GoesOn, Busy
    <3>2. d # c => Updates(d)
      BY <3>1 DEF Alone, Updates
    <3> QED BY <3>1, <3>2
  <2>2. Head(kcall'[d].todo) \in {"drop", "append"} => kcall'[d].held \subseteq NewChunks(s)'
    <3>1. CASE d = c
      BY <1>3, <1>5, <3>1 DEF Busy
    <3>2. CASE d # c
      <4>1. kcall'[d] = kcall[d] /\ CallSound(d, s)
        BY <1>4, <2>1, <3>2 DEF GoesOn, Sound
      <4> QED BY <1>4, <4>1 DEF CallSound, NewChunks
    <3> QED BY <3>1, <3>2
  <2> QED BY <1>2, <2>1, <2>2 DEF CallSound, Updates, Imports
<1>6. Fresh(s)'
  BY <1>2 DEF SourceWritten, Fresh
<1> QED BY <1>2, <1>3, <1>5, <1>6 DEF Sound

\* Nobody else is at work beside an import or a rollback.
LEMMA OnlyOne ==
    ASSUME NEW c \in KCalls, NEW s \in KSources, Busy(c, s), Alone(s), GoesOn(c),
           Imports(c) \/ kcall[c].kind = "rollback"
    PROVE  \A d \in KCalls : Busy(d, s) \/ Busy(d, s)' => d = c
<1>1. \A d \in KCalls : Busy(d, s)' => Busy(d, s)
  BY DEF GoesOn, Busy
<1> QED BY <1>1 DEF Alone, Updates, Imports

\* An import puts rows, or looks for those to drop.
LEMMA ImportRowStepSound ==
    ASSUME KTypes, NEW c \in KCalls, NEW s \in KSources, Busy(c, s), Imports(c),
           Alone(s), Sound(s), RowStep(c)
    PROVE  Sound(s)'
<1> DEFINE step == Head(kcall[c].todo)
           held == kcall[c].held
           i == ImportLeft(c)
<1>1. /\ CallSound(c, s) /\ ImportSound(c, s) /\ RowsNew(s)
  BY DEF Sound, CallSound
<1>2. /\ RowsNew(s)'
      /\ kcall'[c] # Idle /\ Head(kcall'[c].todo) \in {"drop", "append"} =>
           kcall'[c].held \subseteq NewChunks(s)'
  BY <1>1, HandsStayNew DEF CallSound
<1>3. /\ kcall[c] # Idle /\ kcall[c].src = s /\ kchunks' = kchunks /\ GoesOn(c)
      /\ kfile' = kfile /\ kref' = kref
  BY CallGoesOn DEF Busy, RowStep, kfiles
<1>4. Left(c) \in Nat \ {0} /\ i \in Int
  BY <1>3, AtStep DEF ImportLeft
<1>5. i <= 3 => SourceWritten(s)'
  BY <1>1, WrittenStays DEF ImportSound, Imports
<1>6. /\ step = "record" => i = 5
      /\ step = "list" => i = 3 \/ i = 0
      /\ step = "drop" => i = 2 \/ i = -1
      /\ step = "append" => (i = 1 /\ (kcall[c].kind = "text" => Left(c) = 1)) \/ i = -2
      /\ step \in {"record", "list", "drop", "append"}
  BY <1>3, <1>4, StepMeans DEF Imports, ImportLeft, RowStep
<1>7. kfile[s] = "kept" /\ i # 6
  BY <1>1, <1>4, <1>6 DEF ImportSound
<1>8. Fresh(s)'
  BY <1>3, <1>7 DEF Fresh
<1>9. ASSUME NEW rows, Advance(c, rows), kcall'[c] # Idle
      PROVE  kcall'[c].kind = kcall[c].kind /\ kcall'[c].held = rows /\ ImportLeft(c)' = i - 1
  BY <1>3, <1>4, <1>9, AdvanceMeans DEF ImportLeft, Left
<1>10. ASSUME NEW r, Take(c, r)
       PROVE  kcall'[c].kind = kcall[c].kind /\ ImportLeft(c)' = i
  BY <1>3, <1>10, TakeMeans DEF ImportLeft, Left
<1>11. kcall'[c] # Idle => ImportSound(c, s)'
  <2>1. CASE step = "record" /\ PutRow(<<s, 0>>) /\ Advance(c, {})
    <3>1. i = 5
      BY <1>6, <2>1
    <3>2. s \notin kref /\ NoRows(s) /\ NoChunks(s) /\ NoneDead(s)
      BY <1>1, <3>1 DEF ImportSound
    <3>3. <<s, 0>> \in krow' /\ NoChunks(s)' /\ NoneDead(s)'
      BY <2>1, <3>2, PartsArePlaces DEF PutRow, NoChunks, NoneDead
    <3> QED BY <1>3, <1>7, <1>9, <2>1, <3>1, <3>2, <3>3 DEF ImportSound
  <2>2. CASE step = "list" /\ UNCHANGED <<krow, kdead>> /\ Advance(c, LiveChunks(s))
    <3>1. i = 3 => LiveChunks(s) = {} /\ NoChunks(s)' /\ NoneDead(s)'
      <4>1. i = 3 => NoChunks(s) /\ NoneDead(s)
        BY <1>1 DEF ImportSound
      <4>2. i = 3 => LiveChunks(s) = {}
        BY <4>1 DEF NoChunks, LiveChunks, LiveRows, Chunks
      <4> QED BY <2>2, <4>1, <4>2 DEF NoChunks, NoneDead
    <3>2. SourceWritten(s)'
      BY <1>5, <1>6, <2>2
    <3> QED BY <1>3, <1>6, <1>7, <1>9, <2>2, <3>1, <3>2 DEF ImportSound
  <2>3. CASE step = "drop"
    <3>1. SourceWritten(s)'
      BY <1>5, <1>6, <2>3
    <3>2. CASE i = 2
      <4>1. held = {} /\ NoneDead(s)
        BY <1>1, <3>2 DEF ImportSound
      <4>2. UNCHANGED <<krow, kdead>> /\ Advance(c, NewChunks(s))
        BY <1>3, <2>3, <4>1 DEF RowStep
      <4> QED BY <1>3, <1>7, <1>9, <3>1, <3>2, <4>1, <4>2 DEF ImportSound, NoneDead
    <3>3. CASE i = -1
      <4>1. kcall'[c] # Idle => kcall'[c].kind = kcall[c].kind /\ ImportLeft(c)' \in {-1, -2}
        BY <1>3, <1>9, <1>10, <2>3, <3>3 DEF RowStep
      <4> QED BY <1>3, <1>7, <3>1, <4>1 DEF ImportSound
    <3> QED BY <1>6, <2>3, <3>2, <3>3
  <2>4. CASE step = "append"
    <3>1. SourceWritten(s)'
      BY <1>5, <1>6, <2>4
    <3>2. kcall'[c] # Idle => ImportLeft(c)' \in {i, i - 1}
      BY <1>3, <1>9, <1>10, <2>4 DEF RowStep
    <3>3. NoneDead(s) => NoneDead(s)'
      BY <1>3, <2>4 DEF RowStep, PutRow, NoneDead
    <3>4. i = 1 => NoneDead(s)
      BY <1>1 DEF ImportSound
    <3>5. i = 1 \/ i = -2
      BY <1>6, <2>4
    <3> QED BY <1>3, <1>7, <3>1, <3>2, <3>3, <3>4, <3>5 DEF ImportSound
  <2> QED BY <1>3, <2>1, <2>2, <2>3, <2>4 DEF RowStep
<1>12. kcall'[c] = Idle => SourceWritten(s)'
  <2>1. i # 5 \/ kcall'[c] # Idle
    BY <1>3, <1>4, AdvanceMeans, <1>6 DEF RowStep, ImportLeft
  <2>2. i <= 3 \/ i = 5
    BY <1>6
  <2> QED BY <1>5, <2>1, <2>2
<1>13. \A d \in KCalls : Busy(d, s)' => d = c
  BY <1>3, OnlyOne
<1>14. Busy(c, s)' => CallSound(c, s)'
  BY <1>2, <1>3, <1>11 DEF CallSound, Busy, GoesOn, Updates, Imports
<1>15. SourceSettled(s)' => SourceWritten(s)'
  <2>1. kcall'[c] # Idle => Busy(c, s)' /\ ~Updates(c)'
    BY <1>3 DEF GoesOn, Busy, Updates, Imports
  <2> QED BY <1>12, <2>1 DEF SourceSettled
<1> QED BY <1>2, <1>8, <1>13, <1>14, <1>15 DEF Sound

\* An import saves the text, or writes the references.
LEMMA ImportTextStepSound ==
    ASSUME KTypes, NEW c \in KCalls, NEW s \in KSources, Busy(c, s), Imports(c),
           Alone(s), Sound(s), TextStep(c)
    PROVE  Sound(s)'
<1> DEFINE step == Head(kcall[c].todo)
           i == ImportLeft(c)
<1>1. /\ CallSound(c, s) /\ ImportSound(c, s) /\ RowsNew(s) /\ Fresh(s)
  BY DEF Sound, CallSound
<1>2. /\ kcall[c] # Idle /\ kcall[c].src = s /\ kchunks' = kchunks /\ GoesOn(c)
      /\ krow' = krow /\ kdead' = kdead /\ Advance(c, {})
  BY CallGoesOn DEF Busy, TextStep
<1>3. Left(c) \in Nat \ {0} /\ i \in Int
  BY <1>2, AtStep DEF ImportLeft
<1>4. /\ step = "document" => i = 6 /\ Left(c) # 1
      /\ step = "refer" => (i = 4 /\ Left(c) # 1) \/ (i = -3 /\ Left(c) = 1)
      /\ step # "unrefer" /\ step # "retire"
  BY <1>2, <1>3, StepMeans DEF Imports, ImportLeft
<1>5. RowsNew(s)'
  BY <1>1, <1>2 DEF RowsNew, NewChunks, Chunks
<1>6. Left(c) # 1 =>
        /\ kcall'[c] # Idle /\ kcall'[c].kind = kcall[c].kind /\ kcall'[c].held = {}
        /\ ImportLeft(c)' = i - 1 /\ Busy(c, s)' /\ Imports(c)' /\ ~Updates(c)'
        /\ \A r : WillAppend(c, r)' <=>
             Left(c) - 1 > IF kcall[c].kind = "file" THEN 2 ELSE 1
  <2>1. ASSUME Left(c) # 1
        PROVE  /\ kcall'[c] # Idle /\ kcall'[c].kind = kcall[c].kind /\ kcall'[c].held = {}
               /\ kcall'[c].src = s /\ Left(c)' = Left(c) - 1
    BY <1>2, <2>1, AdvanceMeans DEF Left
  <2>2. ASSUME Left(c) # 1
        PROVE  ImportLeft(c)' = i - 1 /\ Busy(c, s)' /\ Imports(c)' /\ ~Updates(c)'
    BY <1>3, <2>1, <2>2 DEF ImportLeft, Busy, Imports, Updates
  <2>3. ASSUME Left(c) # 1, NEW r
        PROVE  WillAppend(c, r)' <=> Left(c) - 1 > IF kcall[c].kind = "file" THEN 2 ELSE 1
    <3>1. kcall[c].kind \in {"text", "file", "reindex"}
      BY DEF Imports
    <3> QED BY <2>1, <2>3, <3>1 DEF WillAppend
  <2> QED BY <2>1, <2>2, <2>3
<1>7. \A d \in KCalls : Busy(d, s)' => d = c
  BY <1>2, OnlyOne
<1>8. kfile \in [KSources -> {"none", "kept", "trash"}]
  BY DEF KTypes, StoreTypes
<1>9. CASE step = "document" /\ kfile' = [kfile EXCEPT ![s] = "kept"] /\ kref' = kref
  <2>1. i = 6 /\ Left(c) # 1 /\ kfile[s] = "none" /\ kfile'[s] = "kept"
    BY <1>1, <1>4, <1>8, <1>9 DEF ImportSound
  <2>2. NoRows(s) /\ s \notin kref /\ NoneDead(s)
    BY <1>1, <2>1 DEF Fresh
  <2>3. NoRows(s)' /\ NoChunks(s)' /\ NoneDead(s)' /\ s \notin kref'
    BY <1>2, <1>9, <2>2, PartsArePlaces DEF NoRows, NoChunks, NoneDead
  <2>4. ImportSound(c, s)'
    BY <1>6, <2>1, <2>3 DEF ImportSound
  <2>5. CallSound(c, s)'
    BY <1>6, <2>1, <2>4 DEF CallSound, Imports
  <2>6. ~SourceSettled(s)'
    BY <1>6, <2>1 DEF SourceSettled
  <2> QED BY <1>5, <1>7, <2>1, <2>5, <2>6 DEF Sound, Fresh
<1>10. CASE step = "refer" /\ kref' = kref \cup {s} /\ kfile' = kfile
  <2>1. kfile[s] = "kept" /\ kfile'[s] = "kept" /\ s \in kref'
    BY <1>1, <1>4, <1>10 DEF ImportSound
  <2>2. CASE i = 4 /\ Left(c) # 1
    <3>1. <<s, 0>> \in krow /\ NoChunks(s) /\ NoneDead(s)
      BY <1>1, <2>2 DEF ImportSound
    <3>2. Left(c) - 1 > IF kcall[c].kind = "file" THEN 2 ELSE 1
      BY <1>3, <2>2 DEF ImportLeft, Imports
    <3>3. SourceWritten(s)'
      BY <1>2, <1>6, <2>1, <2>2, <3>1, <3>2 DEF SourceWritten
    <3>4. ImportSound(c, s)'
      BY <1>2, <1>6, <2>1, <2>2, <3>1, <3>3 DEF ImportSound, NoChunks, NoneDead
    <3>5. CallSound(c, s)'
      BY <1>6, <2>2, <3>4 DEF CallSound, Imports
    <3> QED BY <1>5, <1>7, <2>1, <3>3, <3>5 DEF Sound, Fresh
  <2>3. CASE i = -3 /\ Left(c) = 1
    <3>1. SourceWritten(s) /\ kcall[c].kind = "file"
      BY <1>1, <1>3, <2>3 DEF ImportSound, ImportLeft
    <3>2. ASSUME NEW r \in NewChunks(s) PROVE r \in LiveRows'
      <4>1. ~WillAppend(c, r)
        BY <2>3, <3>1 DEF WillAppend
      <4>2. \A d \in KCalls : Busy(d, s) => d = c
        BY <1>2, OnlyOne
      <4> QED BY <1>2, <3>1, <3>2, <4>1, <4>2 DEF SourceWritten, LiveRows
    <3>3. SourceWritten(s)'
      BY <1>2, <2>1, <3>1, <3>2 DEF SourceWritten, NewChunks
    <3>4. ~Busy(c, s)'
      BY <1>2, <2>3, AdvanceMeans DEF Busy
    <3> QED BY <1>5, <1>7, <2>1, <3>3, <3>4 DEF Sound, Fresh
  <2> QED BY <1>4, <1>10, <2>2, <2>3
<1> QED BY <1>2, <1>4, <1>9, <1>10 DEF TextStep

\* An import that fails takes back what it did.
LEMMA ImportFailSound ==
    ASSUME KTypes, NEW c \in KCalls, NEW s \in KSources, Busy(c, s), ImportFails(c),
           Alone(s), Sound(s)
    PROVE  Sound(s)' /\ Alone(s)'
<1> DEFINE step == Head(kcall[c].todo)
           i == ImportLeft(c)
<1>1. /\ UNCHANGED <<krow, kdead, kfile, kref, kchunks>> /\ kcall[c] # Idle
      /\ kcall[c].src = s /\ Imports(c) /\ i >= 1
      /\ \A d \in KCalls \ {c} : kcall'[d] = kcall[d]
      /\ \/ step = "document" /\ kcall'[c] = Idle
         \/ /\ step # "document" /\ kcall'[c] # Idle
            /\ kcall'[c].kind = "rollback" /\ kcall'[c].src = s
            /\ kcall'[c].held = PurgedRows(s)
            /\ Len(kcall'[c].todo) = IF LiveSource(s) THEN 3 ELSE 1
            /\ Head(kcall'[c].todo) # "drop" /\ Head(kcall'[c].todo) # "append"
  BY FailMeans DEF Busy
<1>2. CallSound(c, s) /\ ImportSound(c, s) /\ RowsNew(s) /\ Fresh(s)
  BY <1>1 DEF Sound, CallSound
<1>3. \A d \in KCalls : Busy(d, s) \/ Busy(d, s)' => d = c
  BY <1>1 DEF Alone, Busy, Updates, Imports
<1>4. RowsNew(s)' /\ Alone(s)'
  BY <1>1, <1>2, <1>3 DEF RowsNew, NewChunks, Chunks, Alone
<1>5. i \in Int
  BY <1>1, AtStep DEF ImportLeft
<1>6. CASE step = "document" /\ kcall'[c] = Idle
  <2>1. i = 6
    BY <1>1, <1>6, StepMeans DEF ImportLeft
  <2>2. kfile[s] = "none"
    BY <1>2, <2>1 DEF ImportSound
  <2>3. NoRows(s) /\ s \notin kref /\ NoneDead(s)
    BY <1>2, <2>2 DEF Fresh
  <2>4. ~Busy(c, s)'
    BY <1>6 DEF Busy
  <2>5. Absent(s)' /\ NoRows(s)' /\ NoneDead(s)' /\ s \notin kref'
    BY <1>1, <2>2, <2>3 DEF Absent, NoRows, NoneDead
  <2> QED BY <1>3, <1>4, <2>4, <2>5 DEF Sound, Fresh
<1>7. CASE step # "document" /\ kcall'[c] # Idle
  <2>1. i # 6
    <3>1. ASSUME i = 6 PROVE step = "document"
      <4>1. (kcall[c].kind = "text" /\ Left(c) = 6) \/ (kcall[c].kind = "file" /\ Left(c) = 10)
        BY <1>1, <3>1, AtStep DEF ImportLeft, Imports
      <4> QED BY <1>1, <4>1, AtStep, PlanSteps
    <3> QED BY <1>7, <3>1
  <2>2. kfile[s] = "kept" /\ NoneDead(s)
    BY <1>1, <1>2, <2>1 DEF ImportSound
  <2>3. ~LiveSource(s) => NoRows(s) /\ s \notin kref
    <3>1. i <= 4 => <<s, 0>> \in krow
      BY <1>2, <1>5 DEF ImportSound, SourceWritten
    <3>2. <<s, 0>> \notin kdead
      BY PartsArePlaces DEF KTypes, StoreTypes
    <3>3. LiveSource(s) \/ i >= 5
      BY <1>5, <3>1, <3>2 DEF LiveSource, LiveRows
    <3> QED BY <1>2, <1>5, <3>3 DEF ImportSound
  <2>4. \A k \in 0..MaxParts : <<s, k>> \in krow => <<s, k>> \in PurgedRows(s)
    <3>1. ASSUME NEW k \in Parts, <<s, k>> \in krow PROVE <<s, k>> \in LiveChunks(s)
      BY <2>2, <3>1 DEF NoneDead, LiveChunks, LiveRows, Chunks
    <3> QED BY <3>1, ChunkNames DEF PurgedRows
  <2>5. Left(c)' = IF LiveSource(s) THEN 3 ELSE 1
    BY <1>1, <1>7 DEF Left
  <2>6. RollbackSound(c, s)'
    BY <1>1, <1>7, <2>2, <2>3, <2>4, <2>5 DEF RollbackSound, NoRows
  <2>7. CallSound(c, s)' /\ Busy(c, s)' /\ ~Updates(c)'
    BY <1>1, <1>7, <2>6 DEF CallSound, Imports, Updates, Busy
  <2>8. Fresh(s)'
    BY <1>1, <2>2 DEF Fresh
  <2> QED BY <1>3, <1>4, <2>7, <2>8 DEF Sound, SourceSettled
<1> QED BY <1>1, <1>6, <1>7

\* A rollback purges the rows, drops the references and retires the text.
LEMMA RollbackStepSound ==
    ASSUME KTypes, NEW c \in KCalls, NEW s \in KSources, Busy(c, s), kcall[c].kind = "rollback",
           Alone(s), Sound(s), RowStep(c) \/ PurgeStep(c) \/ TextStep(c)
    PROVE  Sound(s)'
<1> DEFINE step == Head(kcall[c].todo)
           n == Left(c)
<1>1. /\ CallSound(c, s) /\ RollbackSound(c, s) /\ RowsNew(s)
  BY DEF Sound, CallSound
<1>2. /\ kcall[c] # Idle /\ kcall[c].src = s /\ kchunks' = kchunks /\ GoesOn(c)
  BY CallGoesOn DEF Busy
<1>3. n \in Nat \ {0}
  BY <1>2, AtStep
<1>4. /\ ~RowStep(c)
      /\ step = "purge" => n = 3
      /\ step = "unrefer" => n = 2
      /\ step = "retire" => n = 1
      /\ step # "document" /\ step # "refer"
  BY <1>2, StepMeans DEF RowStep
<1>5. Advance(c, {})
  BY <1>4 DEF PurgeStep, TextStep
<1>6. n # 1 =>
        /\ kcall'[c] # Idle /\ kcall'[c].kind = "rollback" /\ kcall'[c].held = {}
        /\ Left(c)' = n - 1 /\ Busy(c, s)' /\ ~Imports(c)' /\ ~Updates(c)'
  BY <1>2, <1>5, AdvanceMeans DEF Left, Busy, Imports, Updates
<1>7. n = 1 => ~Busy(c, s)'
  BY <1>2, <1>5, AdvanceMeans DEF Busy
<1>8. \A d \in KCalls : Busy(d, s)' => d = c
  BY <1>2, OnlyOne
<1>9. krow' \subseteq krow /\ RowsNew(s)'
  <2>1. krow' \subseteq krow
    BY <1>4 DEF PurgeStep, Purge, TextStep
  <2> QED BY <1>1, <1>2, <2>1 DEF RowsNew, NewChunks, Chunks
<1>10. kfile \in [KSources -> {"none", "kept", "trash"}]
  BY DEF KTypes, StoreTypes
<1>11. kfile'[s] # "none"
  BY <1>1, <1>4, <1>2, <1>10 DEF PurgeStep, TextStep, RollbackSound, kfiles
<1>12. CASE PurgeStep(c)
  <2>1. n = 3 /\ krow' = krow \ kcall[c].held
    BY <1>4, <1>12 DEF PurgeStep, Purge
  <2>2. NoRows(s)'
    BY <1>1, <2>1 DEF RollbackSound, NoRows
  <2>3. RollbackSound(c, s)' /\ CallSound(c, s)'
    BY <1>6, <1>11, <2>1, <2>2 DEF RollbackSound, CallSound
  <2> QED BY <1>6, <1>8, <1>9, <1>11, <2>1, <2>3 DEF Sound, Fresh, SourceSettled
<1>13. CASE TextStep(c)
  <2>1. krow' = krow
    BY <1>13 DEF TextStep
  <2>2. CASE step = "unrefer" /\ kref' = kref \ {s} /\ kfile' = kfile
    <3>1. n = 2 /\ NoRows(s)' /\ s \notin kref'
      BY <1>1, <1>4, <2>1, <2>2 DEF RollbackSound, NoRows
    <3>2. RollbackSound(c, s)' /\ CallSound(c, s)'
      BY <1>6, <1>11, <3>1 DEF RollbackSound, CallSound
    <3> QED BY <1>6, <1>8, <1>9, <1>11, <3>1, <3>2 DEF Sound, Fresh, SourceSettled
  <2>3. CASE /\ step = "retire" /\ kref' = kref
             /\ kfile' = IF s \in kref THEN kfile ELSE [kfile EXCEPT ![s] = "trash"]
    <3>1. n = 1 /\ NoRows(s)' /\ s \notin kref'
      BY <1>1, <1>4, <2>1, <2>3 DEF RollbackSound, NoRows
    <3>2. kfile'[s] = "trash"
      BY <1>10, <2>3, <3>1
    <3>3. Absent(s)'
      BY <3>1, <3>2 DEF Absent
    <3> QED BY <1>7, <1>8, <1>9, <1>11, <3>1, <3>3 DEF Sound, Fresh
  <2> QED BY <1>2, <1>4, <1>13, <2>2, <2>3 DEF TextStep
<1> QED BY <1>4, <1>12, <1>13

\* A deletion purges, drops and retires, beside other deletions of the source.
LEMMA DeleteStepSound ==
    ASSUME KTypes, NEW c \in KCalls, NEW s \in KSources, Busy(c, s), kcall[c].kind = "delete",
           Alone(s), Sound(s), RowStep(c) \/ PurgeStep(c) \/ TextStep(c)
    PROVE  Sound(s)'
<1> DEFINE step == Head(kcall[c].todo)
           n == Left(c)
<1>1. /\ CallSound(c, s) /\ DeleteSound(c, s) /\ RowsNew(s)
  BY DEF Sound, CallSound, Updates, Imports
<1>2. /\ kcall[c] # Idle /\ kcall[c].src = s /\ kchunks' = kchunks /\ GoesOn(c)
  BY CallGoesOn DEF Busy
<1>3. n \in Nat \ {0}
  BY <1>2, AtStep
<1>4. /\ step = "purge" => n = 5
      /\ step = "unrefer" => n = 4
      /\ step = "retire" => n = 3
      /\ step = "list" => n = 2
      /\ step = "drop" => n = 1
      /\ step \notin {"document", "refer", "record", "append"}
  BY <1>2, StepMeans
<1>5. kfile \in [KSources -> {"none", "kept", "trash"}]
  BY DEF KTypes, StoreTypes
\* What the step does to the store and to the call.
<1>6. /\ krow' \subseteq krow /\ (kdead' = kdead \/ kdead' = {}) /\ kref' \subseteq kref
      /\ kfile'[s] = kfile[s] \/ kfile'[s] = "trash"
      /\ Advance(c, {}) \/ (step = "list" /\ Advance(c, LiveChunks(s)))
         \/ (step = "drop" /\ Advance(c, NewChunks(s)))
      /\ step = "purge" => krow' = krow \ kcall[c].held
      /\ step = "unrefer" => s \notin kref'
      /\ step = "retire" => s \in kref \/ kfile'[s] = "trash"
  <2>1. CASE RowStep(c)
    <3>1. step = "list" \/ step = "drop"
      BY <1>4, <2>1 DEF RowStep
    <3>2. step = "drop" => kcall[c].held = {}
      BY <1>1, <1>4 DEF DeleteSound
    <3> QED BY <1>2, <2>1, <3>1, <3>2 DEF RowStep, kfiles
  <2>2. CASE PurgeStep(c)
    BY <2>2 DEF PurgeStep, Purge, kfiles
  <2>3. CASE TextStep(c)
    <3>1. krow' = krow /\ kdead' = kdead /\ Advance(c, {})
      BY <2>3 DEF TextStep
    <3>2. CASE step = "unrefer" /\ kref' = kref \ {s} /\ kfile' = kfile
      BY <3>1, <3>2
    <3>3. CASE /\ step = "retire" /\ kref' = kref
               /\ kfile' = IF s \in kref THEN kfile ELSE [kfile EXCEPT ![s] = "trash"]
      BY <1>5, <3>1, <3>3
    <3> QED BY <1>2, <1>4, <2>3, <3>2, <3>3 DEF TextStep
  <2> QED BY <2>1, <2>2, <2>3
<1>7. RowsNew(s)'
  BY <1>1, <1>2, <1>6 DEF RowsNew, NewChunks, Chunks
\* Whatever held of a deletion holds on.
<1>8. NoRows(s) => NoRows(s)'
  BY <1>6 DEF NoRows
<1>9. kfile'[s] # "none" /\ \A k \in Parts : <<s, k>> \in krow' => <<s, k>> \notin kdead'
  BY <1>1, <1>6 DEF DeleteSound
<1>10. ASSUME NEW d \in KCalls \ {c}, Busy(d, s)'
       PROVE  CallSound(d, s)' /\ ~Updates(d)'
  <2>1. kcall'[d] = kcall[d] /\ Busy(d, s)
    BY <1>2, <1>10 DEF GoesOn, Busy
  <2>2. kcall[d].kind = "delete" /\ CallSound(d, s) /\ DeleteSound(d, s)
    BY <2>1 DEF Alone, Updates, Sound, CallSound
  <2>3. Left(d)' = Left(d) /\ kcall'[d].held = kcall[d].held
    BY <2>1 DEF Left
  <2>4. DeleteSound(d, s)'
    BY <1>6, <1>8, <1>9, <2>2, <2>3 DEF DeleteSound
  <2> QED BY <1>2, <2>1, <2>2, <2>4 DEF CallSound, Imports, Updates, NewChunks
<1>11. n <= 4 => NoRows(s)'
  BY <1>1, <1>8 DEF DeleteSound
<1>12. n = 5 => NoRows(s)'
  <2>1. n = 5 => step = "purge"
    BY <1>2, AtStep, PlanSteps
  <2> QED BY <1>1, <1>6, <2>1 DEF DeleteSound, NoRows
<1>13. n <= 4 => s \notin kref'
  <2>1. n = 4 => step = "unrefer"
    BY <1>2, AtStep, PlanSteps
  <2> QED BY <1>1, <1>3, <1>6, <2>1 DEF DeleteSound
<1>14. n <= 3 => kfile'[s] # "kept"
  <2>1. n = 3 => step = "retire"
    BY <1>2, AtStep, PlanSteps
  <2>2. n <= 3 => s \notin kref
    BY <1>1 DEF DeleteSound
  <2> QED BY <1>1, <1>3, <1>6, <2>1, <2>2 DEF DeleteSound
<1>15. n \in 1..5
  BY <1>2, AtStep, PlanLengths
<1>16. CASE n # 1
  <2>1. /\ kcall'[c] # Idle /\ kcall'[c].kind = "delete" /\ Left(c)' = n - 1
        /\ Busy(c, s)' /\ ~Imports(c)' /\ ~Updates(c)'
    BY <1>2, <1>6, <1>16, AdvanceMeans DEF Left, Busy, Imports, Updates
  <2>2. n = 2 => kcall'[c].held = {}
    <3>1. n = 2 => step = "list" /\ NoRows(s)
      BY <1>1, <1>2, AtStep, PlanSteps DEF DeleteSound
    <3>2. n = 2 => LiveChunks(s) = {}
      BY <3>1, ChunkNames DEF NoRows, LiveChunks, LiveRows
    <3> QED BY <1>2, <1>6, <1>16, <3>1, <3>2, AdvanceMeans
  <2>3. DeleteSound(c, s)'
    BY <1>9, <1>11, <1>12, <1>13, <1>14, <1>15, <1>16, <2>1, <2>2 DEF DeleteSound
  <2>4. Head(kcall'[c].todo) \in {"drop", "append"} => kcall'[c].held \subseteq NewChunks(s)'
    <3>1. Head(kcall'[c].todo) = CallPlan["delete"][n - 1]
      BY <1>2, <1>6, <1>16, AdvanceMeans
    <3>2. n # 2 => Head(kcall'[c].todo) \notin {"drop", "append"}
      BY <1>15, <1>16, <3>1, PlanSteps
    <3> QED BY <2>2, <3>2
  <2>5. CallSound(c, s)'
    BY <2>1, <2>3, <2>4 DEF CallSound
  <2> QED BY <1>7, <1>9, <1>10, <2>1, <2>5 DEF Sound, Fresh, SourceSettled
<1>17. CASE n = 1
  <2>1. ~Busy(c, s)'
    BY <1>2, <1>6, <1>17, AdvanceMeans DEF Busy
  <2>2. Absent(s)'
    BY <1>11, <1>13, <1>14, <1>17 DEF Absent
  <2> QED BY <1>7, <1>9, <1>10, <2>1, <2>2 DEF Sound, Fresh
<1> QED BY <1>16, <1>17

\* A call starts: other sources are left alone, and of this one nothing changes.
LEMMA StartMeans ==
    ASSUME KTypes, NEW c \in KCalls, NEW kind \in CallKinds, NEW s \in KSources, NEW steps,
           StartsWith(kind, steps), steps # <<"retire">>,
           NEW rows, rows \subseteq {<<s, 0>>} \cup Chunks(s), StartCall(c, kind, s, steps, rows)
    PROVE  /\ kcall[c] = Idle /\ kcall'[c] # Idle /\ Busy(c, s)' /\ ~Busy(c, s)
           /\ kcall'[c].kind = kind /\ kcall'[c].held = rows
           /\ Left(c)' = Len(CallPlan[kind])
           /\ Head(kcall'[c].todo) # "drop" /\ Head(kcall'[c].todo) # "append"
           /\ \A d \in KCalls \ {c} : kcall'[d] = kcall[d]
           /\ UNCHANGED <<krow, kdead, kfile, kref, kchunks, ktorn>>
           /\ \A q \in KSources \ {s} : LeavesAlone(q)
<1>1. /\ kcall[c] = Idle /\ kcall'[c] # Idle /\ kcall'[c].kind = kind
      /\ kcall'[c].src = s /\ kcall'[c].held = rows /\ Left(c)' = Len(CallPlan[kind])
      /\ Head(kcall'[c].todo) # "drop" /\ Head(kcall'[c].todo) # "append"
      /\ \A d \in KCalls \ {c} : kcall'[d] = kcall[d]
      /\ UNCHANGED <<krow, kdead, kfile, kref, kchunks, ktorn>>
  BY StartCallTypes DEF Left
<1>6. Busy(c, s)' /\ ~Busy(c, s)
  BY <1>1 DEF Busy
<1>7. ASSUME NEW q \in KSources \ {s}
      PROVE  LeavesAlone(q)
  <2>1. \A d \in KCalls : Busy(d, q)' <=> Busy(d, q)
    BY <1>1 DEF Busy
  <2>2. \A d \in KCalls : Busy(d, q) => kcall'[d] = kcall[d]
    BY <1>1 DEF Busy
  <2> QED BY <1>1, <2>1, <2>2 DEF LeavesAlone
<1> QED BY <1>1, <1>6, <1>7

\* Who is at work on a source.
LEMMA Workers ==
    ASSUME NEW s
    PROVE  \A d \in KCalls : Busy(d, s) => kcall[d].kind \in WorkingOn(s)
BY DEF Busy, WorkingOn

\* A call starts only beside calls it gets on with.
LEMMA StartAlone ==
    ASSUME NEW c \in KCalls, NEW s, \A d \in KCalls \ {c} : kcall'[d] = kcall[d],
           \/ WorkingOn(s) = {}
           \/ WorkingOn(s) \subseteq {"reindex", "edit"} /\ kcall'[c].kind \in {"reindex", "edit"}
           \/ WorkingOn(s) \subseteq {"delete"} /\ kcall'[c].kind = "delete"
    PROVE  Alone(s)'
<1>1. \A d \in KCalls : Busy(d, s)' =>
        d = c \/ (Busy(d, s) /\ kcall'[d].kind = kcall[d].kind /\ kcall[d].kind \in WorkingOn(s))
  BY Workers DEF Busy
<1> QED BY <1>1 DEF Alone, Updates

\* Started updates find the source written.
LEMMA StartUpdateSound ==
    ASSUME KTypes, NEW c \in KCalls, NEW s \in KSources, Sound(s), LiveSource(s),
           WorkingOn(s) \subseteq {"reindex", "edit"}, NEW kind \in {"reindex", "edit"}, NEW steps,
           StartsWith(kind, steps), steps # <<"retire">>, StartCall(c, kind, s, steps, {})
    PROVE  Sound(s)'
<1>1. /\ kcall[c] = Idle /\ kcall'[c] # Idle /\ Busy(c, s)' /\ ~Busy(c, s)
      /\ kcall'[c].kind = kind /\ kcall'[c].held = {}
      /\ \A d \in KCalls \ {c} : kcall'[d] = kcall[d]
      /\ UNCHANGED <<krow, kdead, kfile, kref, kchunks>>
  <2>1. kind \in CallKinds /\ {} \subseteq {<<s, 0>>} \cup Chunks(s)
    BY DEF CallKinds
  <2> QED BY <2>1, StartMeans
<1>2. \A d \in KCalls : Busy(d, s) => Updates(d)
  BY Workers DEF Updates
<1>3. SourceWritten(s) /\ RowsNew(s)
  <2>1. SourceWritten(s) \/ Absent(s)
    BY <1>2 DEF Sound, SourceSettled
  <2>2. 0 \in 0..MaxParts
    BY ChunkNames
  <2>3. ~Absent(s)
    BY <2>2 DEF Absent, NoRows, LiveSource, LiveRows
  <2> QED BY <2>1, <2>3 DEF Sound
<1>4. \A d \in KCalls : Busy(d, s)' => Updates(d)'
  BY <1>1, <1>2 DEF Busy, Updates
<1>5. SourceWritten(s)'
  <2>1. NewChunks(s)' = NewChunks(s) /\ LiveRows' = LiveRows
    BY <1>1 DEF NewChunks, LiveRows
  <2>2. ASSUME NEW d \in KCalls, NEW r, Busy(d, s), WillAppend(d, r)
        PROVE  Busy(d, s)' /\ WillAppend(d, r)'
    <3>1. kcall'[d] = kcall[d]
      BY <1>1, <2>2 DEF Busy
    <3> QED BY <2>2, <3>1 DEF Busy, WillAppend, Left
  <2> QED BY <1>1, <1>3, <2>1, <2>2 DEF SourceWritten
<1>6. ASSUME NEW d \in KCalls, Busy(d, s)'
      PROVE  CallSound(d, s)'
  <2>1. Head(kcall'[d].todo) \in {"drop", "append"} => kcall'[d].held \subseteq NewChunks(s)'
    <3>1. CASE d = c
      BY <1>1, <3>1
    <3>2. CASE d # c
      <4>1. Busy(d, s) /\ kcall'[d] = kcall[d] /\ CallSound(d, s)
        BY <1>1, <1>6, <3>2 DEF Busy, Sound
      <4> QED BY <1>1, <4>1 DEF CallSound, NewChunks
    <3> QED BY <3>1, <3>2
  <2> QED BY <1>4, <1>5, <1>6, <2>1 DEF CallSound, Updates, Imports
<1>7. Fresh(s)'
  BY <1>5 DEF SourceWritten, Fresh
<1>8. RowsNew(s)'
  BY <1>1, <1>3 DEF RowsNew, NewChunks, Chunks
<1> QED BY <1>5, <1>6, <1>7, <1>8 DEF Sound

\* An import starts with nothing.
LEMMA StartImportSound ==
    ASSUME KTypes, NEW c \in KCalls, NEW s \in KSources, Sound(s), kfile[s] = "none",
           WorkingOn(s) = {}, NEW kind \in {"text", "file"}, NEW steps,
           StartsWith(kind, steps), steps # <<"retire">>, StartCall(c, kind, s, steps, {})
    PROVE  Sound(s)'
<1>1. /\ kcall[c] = Idle /\ kcall'[c] # Idle /\ Busy(c, s)'
      /\ kcall'[c].kind = kind /\ kcall'[c].held = {} /\ Left(c)' = Len(CallPlan[kind])
      /\ \A d \in KCalls \ {c} : kcall'[d] = kcall[d]
      /\ UNCHANGED <<krow, kdead, kfile, kref, kchunks>>
  <2>1. kind \in CallKinds /\ {} \subseteq {<<s, 0>>} \cup Chunks(s)
    BY DEF CallKinds
  <2> QED BY <2>1, StartMeans
<1>2. \A d \in KCalls : Busy(d, s)' => d = c
  BY <1>1, Workers DEF Busy
<1>3. NoRows(s) /\ s \notin kref /\ NoneDead(s) /\ RowsNew(s)
  BY DEF Sound, Fresh
<1>4. NoRows(s)' /\ s \notin kref' /\ NoneDead(s)' /\ RowsNew(s)' /\ NoChunks(s)'
      /\ kfile'[s] = "none"
  BY <1>1, <1>3, PartsArePlaces DEF NoRows, NoneDead, RowsNew, NewChunks, Chunks, NoChunks
<1>5. Imports(c)' /\ ImportLeft(c)' = 6 /\ ~Updates(c)'
  BY <1>1, PlanLengths DEF Imports, ImportLeft, Updates
<1>6. CallSound(c, s)'
  <2>1. ImportSound(c, s)'
    BY <1>4, <1>5 DEF ImportSound
  <2> QED BY <1>1, <1>5, <2>1 DEF CallSound, Imports
<1>7. Fresh(s)'
  BY <1>2, <1>4, <1>5 DEF Fresh
<1> QED BY <1>1, <1>2, <1>4, <1>5, <1>6, <1>7 DEF Sound, SourceSettled

\* A deletion starts with every row that is there in its hands.
LEMMA StartDeleteSound ==
    ASSUME KTypes, NEW c \in KCalls, NEW s \in KSources, Sound(s), LiveSource(s),
           WorkingOn(s) \subseteq {"delete"}, NEW steps,
           StartsWith("delete", steps), steps # <<"retire">>,
           StartCall(c, "delete", s, steps, PurgedRows(s))
    PROVE  Sound(s)'
<1>1. /\ kcall[c] = Idle /\ kcall'[c] # Idle /\ Busy(c, s)' /\ ~Busy(c, s)
      /\ kcall'[c].kind = "delete" /\ kcall'[c].held = PurgedRows(s)
      /\ Left(c)' = Len(CallPlan["delete"])
      /\ Head(kcall'[c].todo) # "drop" /\ Head(kcall'[c].todo) # "append"
      /\ \A d \in KCalls \ {c} : kcall'[d] = kcall[d]
      /\ UNCHANGED <<krow, kdead, kfile, kref, kchunks>>
  <2>1. "delete" \in CallKinds /\ PurgedRows(s) \subseteq {<<s, 0>>} \cup Chunks(s)
    BY StartsOnPlan DEF CallKinds
  <2> QED BY <2>1, StartMeans
<1>2. \A d \in KCalls : Busy(d, s) => kcall[d].kind = "delete" /\ DeleteSound(d, s)
  BY Workers DEF Sound, CallSound
<1>3. kfile[s] # "none" /\ \A k \in Parts : <<s, k>> \in krow => <<s, k>> \notin kdead
  <2>1. CASE \E d \in KCalls : Busy(d, s)
    BY <1>2, <2>1 DEF DeleteSound
  <2>2. CASE ~\E d \in KCalls : Busy(d, s)
    <3>1. SourceWritten(s) \/ Absent(s)
      BY <2>2 DEF Sound, SourceSettled
    <3>2. 0 \in 0..MaxParts
      BY ChunkNames
    <3>3. SourceWritten(s)
      BY <3>1, <3>2 DEF Absent, NoRows, LiveSource, LiveRows
    <3>4. \A r \in NewChunks(s) : r \notin kdead
      BY <2>2, <3>3 DEF SourceWritten, LiveRows
    <3>5. ASSUME NEW k \in Parts, <<s, k>> \in krow PROVE <<s, k>> \in NewChunks(s)
      <4>1. <<s, k>> \in krow \cap Chunks(s)
        BY <3>5, ChunkNames
      <4> QED BY <4>1 DEF Sound, RowsNew
    <3> QED BY <3>3, <3>4, <3>5 DEF SourceWritten
  <2> QED BY <2>1, <2>2
<1>4. \A k \in 0..MaxParts : <<s, k>> \in krow => <<s, k>> \in PurgedRows(s)
  <2>1. ASSUME NEW k \in Parts, <<s, k>> \in krow PROVE <<s, k>> \in LiveChunks(s)
    BY <1>3, <2>1 DEF LiveChunks, LiveRows, Chunks
  <2> QED BY <2>1, ChunkNames DEF PurgedRows
<1>5. DeleteSound(c, s)'
  BY <1>1, <1>3, <1>4, PlanLengths DEF DeleteSound
<1>6. ASSUME NEW d \in KCalls, Busy(d, s)'
      PROVE  CallSound(d, s)' /\ kcall'[d].kind = "delete"
  <2>1. CASE d = c
    BY <1>1, <1>5, <2>1 DEF CallSound, Imports, Updates
  <2>2. CASE d # c
    <3>1. kcall'[d] = kcall[d] /\ Busy(d, s) /\ CallSound(d, s)
      BY <1>1, <1>6, <2>2 DEF Busy, Sound
    <3>2. DeleteSound(d, s)'
      BY <1>1, <1>2, <3>1 DEF DeleteSound, NoRows, Left
    <3> QED BY <1>1, <1>2, <3>1, <3>2 DEF CallSound, Imports, Updates, NewChunks
  <2> QED BY <2>1, <2>2
<1>7. RowsNew(s)'
  BY <1>1 DEF Sound, RowsNew, NewChunks, Chunks
<1>8. Fresh(s)'
  BY <1>1, <1>3 DEF Fresh
<1> QED BY <1>1, <1>6, <1>7, <1>8 DEF Sound, SourceSettled, Updates

\* A call that starts has more than one step to do.
LEMMA NotJustRetire ==
    ASSUME NEW kind \in CallKinds, kind # "rollback", NEW steps, StartsWith(kind, steps),
           NEW s \in KSources
    PROVE  steps # <<"retire">>
<1>1. CASE kind = "delete"
  <2>1. PICK first : first = PurgeSteps
    OBVIOUS
  <2>2. PICK last : last = <<"list", "drop">>
    OBVIOUS
  <2>3. steps = first \o last
    BY <1>1, <2>1, <2>2 DEF StartsWith
  <2>4. Len(steps) = 5
    BY <2>1, <2>2, <2>3, DeletePlan
  <2> QED BY <2>4
<1>2. CASE kind # "delete"
  <2>1. {} \in SUBSET KRows
    OBVIOUS
  <2>2. Head(steps) # "retire"
    BY <1>2, <2>1, NewCall DEF CallKinds
  <2> QED BY <2>2
<1> QED BY <1>1, <1>2

LEMMA StartSound ==
    ASSUME KSafe, NEW c \in KCalls, NEW s \in KSources,
           \/ \E kind \in {"text", "file"} : StartImport(c, s, kind)
           \/ StartReindex(c, s) \/ StartEdit(c, s) \/ StartDelete(c, s)
    PROVE  /\ ktorn' = ktorn
           /\ s \notin ktorn => Sound(s)'
           /\ Alone(s)'
           /\ \A q \in KSources \ {s} : LeavesAlone(q)
<1>1. KTypes /\ (s \notin ktorn => Sound(s))
  BY DEF KSafe
<1>2. CASE \E kind \in {"text", "file"} : StartImport(c, s, kind)
  <2>1. PICK kind \in {"text", "file"} : StartImport(c, s, kind)
    BY <1>2
  <2>2. PICK steps : steps = ImportSteps \o (IF kind = "file" THEN IngestSteps ELSE <<>>)
    OBVIOUS
  <2>3. /\ StartCall(c, kind, s, steps, {}) /\ StartsWith(kind, steps)
        /\ kind \in CallKinds /\ kind # "rollback" /\ {} \subseteq {<<s, 0>>} \cup Chunks(s)
        /\ kfile[s] = "none" /\ WorkingOn(s) = {}
    BY <1>1, <2>1, <2>2, StartsOnPlan DEF StartImport, CallKinds
  <2>4. steps # <<"retire">>
    BY <2>3, NotJustRetire
  <2>5. /\ ktorn' = ktorn /\ \A q \in KSources \ {s} : LeavesAlone(q)
        /\ \A d \in KCalls \ {c} : kcall'[d] = kcall[d]
    BY <1>1, <2>3, <2>4, StartMeans
  <2>6. s \notin ktorn => Sound(s)'
    BY <1>1, <2>3, <2>4, StartImportSound
  <2>7. Alone(s)'
    BY <2>3, <2>5, StartAlone
  <2> QED BY <2>5, <2>6, <2>7
<1>3. CASE StartReindex(c, s) \/ StartEdit(c, s)
  <2>0. \E kind \in {"reindex", "edit"} : \E steps :
          /\ StartCall(c, kind, s, steps, {}) /\ StartsWith(kind, steps)
          /\ LiveSource(s) /\ WorkingOn(s) \subseteq {"reindex", "edit"}
    BY <1>1, <1>3, StartsOnPlan DEF StartReindex, StartEdit
  <2>6. PICK kind \in {"reindex", "edit"} : \E steps :
          /\ StartCall(c, kind, s, steps, {}) /\ StartsWith(kind, steps)
          /\ LiveSource(s) /\ WorkingOn(s) \subseteq {"reindex", "edit"}
    BY <2>0
  <2>1. PICK steps :
          /\ StartCall(c, kind, s, steps, {}) /\ StartsWith(kind, steps)
          /\ LiveSource(s) /\ WorkingOn(s) \subseteq {"reindex", "edit"}
    BY <2>6
  <2>2. kind \in CallKinds /\ kind # "rollback" /\ {} \subseteq {<<s, 0>>} \cup Chunks(s)
    BY DEF CallKinds
  <2>3. steps # <<"retire">>
    BY <2>1, <2>2, NotJustRetire
  <2>4. /\ ktorn' = ktorn /\ \A q \in KSources \ {s} : LeavesAlone(q)
        /\ \A d \in KCalls \ {c} : kcall'[d] = kcall[d]
        /\ kcall'[c].kind = kind
    BY <1>1, <2>1, <2>2, <2>3, StartMeans
  <2>5. s \notin ktorn => Sound(s)'
    BY <1>1, <2>1, <2>3, StartUpdateSound
  <2>8. Alone(s)'
    BY <2>1, <2>4, StartAlone
  <2> QED BY <2>4, <2>5, <2>8
<1>4. CASE StartDelete(c, s)
  <2>1. PICK steps : steps = PurgeSteps \o <<"list", "drop">>
    OBVIOUS
  <2>2. /\ StartCall(c, "delete", s, steps, PurgedRows(s)) /\ StartsWith("delete", steps)
        /\ "delete" \in CallKinds /\ PurgedRows(s) \subseteq {<<s, 0>>} \cup Chunks(s)
        /\ LiveSource(s) /\ WorkingOn(s) \subseteq {"delete"}
    BY <1>1, <1>4, <2>1, StartsOnPlan DEF StartDelete, CallKinds
  <2>3. steps # <<"retire">>
    BY <2>2, NotJustRetire
  <2>4. /\ ktorn' = ktorn /\ \A q \in KSources \ {s} : LeavesAlone(q)
        /\ \A d \in KCalls \ {c} : kcall'[d] = kcall[d]
        /\ kcall'[c].kind = "delete"
    BY <1>1, <2>2, <2>3, StartMeans
  <2>5. s \notin ktorn => Sound(s)'
    BY <1>1, <2>2, <2>3, StartDeleteSound
  <2>8. Alone(s)'
    BY <2>2, <2>4, StartAlone
  <2> QED BY <2>4, <2>5, <2>8
<1> QED BY <1>2, <1>3, <1>4

\* A step of a call: the source it works on stays sound, the others are left alone.
LEMMA CallStepSound ==
    ASSUME KSafe, NEW c \in KCalls, CallStep(c)
    PROVE  KTypes' => KSafe'
<1>1. KTypes /\ (\A s \in KSources : Alone(s)) /\ \A s \in KSources \ ktorn : Sound(s)
  BY DEF KSafe
<1>2. ASSUME NEW s \in KSources, LeavesAlone(s) PROVE Alone(s)'
  <2>1. \A d \in KCalls : Busy(d, s)' => Busy(d, s) /\ kcall'[d] = kcall[d]
    BY <1>2 DEF LeavesAlone
  <2> QED BY <1>1, <1>2, <2>1 DEF Alone, Updates
<1>3. ASSUME NEW own \in KSources, ktorn' = ktorn,
             own \notin ktorn => Sound(own)', Alone(own)',
             \A q \in KSources \ {own} : LeavesAlone(q)
      PROVE  KTypes' => KSafe'
  <2>1. \A s \in KSources : Alone(s)'
    BY <1>2, <1>3
  <2>2. \A s \in KSources \ ktorn' : Sound(s)'
    BY <1>1, <1>3, Untouched
  <2> QED BY <2>1, <2>2 DEF KSafe
<1>4. ASSUME NEW s \in KSources,
             \/ \E kind \in {"text", "file"} : StartImport(c, s, kind)
             \/ StartReindex(c, s) \/ StartEdit(c, s) \/ StartDelete(c, s)
      PROVE  KTypes' => KSafe'
  <2>1. /\ ktorn' = ktorn
        /\ s \notin ktorn => Sound(s)'
        /\ Alone(s)'
        /\ \A q \in KSources \ {s} : LeavesAlone(q)
    BY <1>4, StartSound
  <2> QED BY <1>3, <2>1
<1>5. CASE RowStep(c) \/ PurgeStep(c) \/ TextStep(c)
  <2>0. /\ GoesOn(c) /\ kcall[c] # Idle /\ kcall[c].src \in KSources /\ ktorn' = ktorn
        /\ kcall[c] \in KnowledgeCalls
    BY <1>1, <1>5, CallGoesOn, AtStep
  <2>5. PICK own \in KSources : own = kcall[c].src
    BY <2>0
  <2>1. /\ GoesOn(c) /\ kcall[c] # Idle /\ kcall[c].src = own /\ ktorn' = ktorn
        /\ kcall[c] \in KnowledgeCalls
    BY <2>0, <2>5
  <2>2. \A q \in KSources \ {own} : LeavesAlone(q)
    BY <1>1, <1>5, <2>1, OthersUntouched
  <2>3. Alone(own)'
    BY <1>1, <2>1, AloneStays
  <2>4. ASSUME own \notin ktorn PROVE Sound(own)'
    <3>1. Busy(c, own) /\ Alone(own) /\ Sound(own)
      BY <1>1, <2>1, <2>4 DEF Busy
    <3>2. \/ Updates(c) \/ Imports(c) \/ kcall[c].kind \in {"rollback", "delete"}
      BY <2>1 DEF KnowledgeCalls, CallKinds, Updates, Imports
    <3>3. CASE Updates(c)
      <4>1. RowStep(c)
        BY <1>1, <1>5, <2>1, <3>3, StepMeans DEF Updates, PurgeStep, TextStep
      <4> QED BY <1>1, <2>1, <3>1, <3>3, <4>1, UpdateStepSound
    <3>4. CASE Imports(c)
      <4>1. ~PurgeStep(c)
        BY <1>1, <2>1, <3>4, StepMeans DEF Imports, PurgeStep
      <4> QED BY <1>1, <1>5, <2>1, <3>1, <3>4, <4>1, ImportRowStepSound, ImportTextStepSound
    <3>5. CASE kcall[c].kind = "rollback"
      BY <1>1, <1>5, <2>1, <3>1, <3>5, RollbackStepSound
    <3>6. CASE kcall[c].kind = "delete"
      BY <1>1, <1>5, <2>1, <3>1, <3>6, DeleteStepSound
    <3> QED BY <3>2, <3>3, <3>4, <3>5, <3>6
  <2> QED BY <1>3, <2>1, <2>2, <2>3, <2>4
<1>6. CASE ImportFails(c)
  <2>5. kcall[c].src \in KSources
    BY <1>1, <1>6, FailMeans
  <2>6. PICK own \in KSources : own = kcall[c].src
    BY <2>5
  <2>1. /\ UNCHANGED <<krow, kdead, kfile, kref, kchunks, ktorn>>
        /\ kcall[c] # Idle /\ kcall[c].src = own /\ Imports(c)
        /\ \A d \in KCalls \ {c} : kcall'[d] = kcall[d]
        /\ kcall'[c] = Idle \/ (kcall'[c] # Idle /\ kcall'[c].kind = "rollback"
                                 /\ kcall'[c].src = own)
    BY <1>1, <1>6, <2>6, FailMeans
  <2>2. \A q \in KSources \ {own} : LeavesAlone(q)
    BY <2>1 DEF LeavesAlone, Busy
  <2>3. Alone(own)'
    <3>1. \A d \in KCalls : Busy(d, own)' => d = c
      BY <1>1, <2>1 DEF Alone, Busy, Updates, Imports
    <3> QED BY <3>1 DEF Alone
  <2>4. own \notin ktorn => Sound(own)'
    BY <1>1, <1>6, <2>1, ImportFailSound DEF Busy
  <2> QED BY <1>3, <2>1, <2>2, <2>3, <2>4
<1> QED BY <1>4, <1>5, <1>6 DEF CallStep

\* A restart ends every call; a source it does not disturb had none.
LEMMA RestartSound ==
    ASSUME KSafe, KnowledgeRestart
    PROVE  KTypes' => KSafe'
<1>1. KTypes /\ \A s \in KSources \ ktorn : Sound(s)
  BY DEF KSafe
<1>2. \A c \in KCalls, s \in KSources : ~Busy(c, s)'
  BY DEF KnowledgeRestart, Busy
<1>3. UNCHANGED <<krow, kdead, kfile, kref>>
  BY DEF KnowledgeRestart
<1>4. ASSUME NEW s \in KSources \ ktorn' PROVE Sound(s)'
  <2>1. /\ s \notin ktorn /\ WorkingOn(s) = {}
        /\ kfile[s] = "none" \/ kchunks' = kchunks
    BY <1>4 DEF KnowledgeRestart
  <2>2. \A c \in KCalls : ~Busy(c, s)
    BY <2>1, Workers
  <2>3. Sound(s) /\ (SourceWritten(s) \/ Absent(s))
    BY <1>1, <2>1, <2>2 DEF Sound, SourceSettled
  <2>4. Fresh(s)'
    BY <1>2, <1>3, <2>3 DEF Sound, Fresh, NoRows, NoneDead
  <2>5. CASE kfile[s] = "none"
    <3>1. NoRows(s) /\ Absent(s)
      BY <2>3, <2>5 DEF SourceWritten, Absent
    <3>2. RowsNew(s)' /\ Absent(s)'
      <4>1. krow \cap Chunks(s) = {}
        BY <3>1, <1>1, ChunkNames DEF NoRows
      <4> QED BY <1>3, <3>1, <4>1 DEF RowsNew, Chunks, Absent, NoRows
    <3> QED BY <1>2, <2>4, <3>2 DEF Sound
  <2>6. CASE kchunks' = kchunks
    <3>1. RowsNew(s)' /\ NewChunks(s)' = NewChunks(s) /\ LiveRows' = LiveRows
      BY <1>3, <2>3, <2>6 DEF Sound, RowsNew, NewChunks, Chunks, LiveRows
    <3>2. SourceWritten(s) => SourceWritten(s)'
      BY <1>3, <2>2, <3>1 DEF SourceWritten
    <3>3. Absent(s) => Absent(s)'
      BY <1>3 DEF Absent, NoRows
    <3> QED BY <1>2, <2>3, <2>4, <3>1, <3>2, <3>3 DEF Sound
  <2> QED BY <2>1, <2>5, <2>6
<1>5. \A s \in KSources : Alone(s)'
  BY <1>2 DEF Alone
<1> QED BY <1>4, <1>5 DEF KSafe

LEMMA KnowledgeStepSafe ==
    ASSUME KSafe, [KnowledgeNext]_kvars
    PROVE  KSafe'
<1>1. KTypes' /\ KTypes
  BY KnowledgeStepTypes DEF KSafe
<1>2. ASSUME \A s \in KSources : LeavesAlone(s), ktorn' = ktorn
      PROVE  KSafe'
  <2>1. \A s \in KSources : Alone(s)'
    <3>1. ASSUME NEW s \in KSources
          PROVE  \A d \in KCalls : Busy(d, s)' => Busy(d, s) /\ kcall'[d] = kcall[d]
      BY <1>2 DEF LeavesAlone
    <3> QED BY <3>1 DEF KSafe, Alone, Updates
  <2>2. \A s \in KSources \ ktorn' : Sound(s)'
    BY <1>1, <1>2, Untouched DEF KSafe
  <2> QED BY <1>1, <2>1, <2>2 DEF KSafe
<1>3. CASE ForgetMemory
  BY <1>2, <1>3 DEF ForgetMemory, Purge, kfiles, kstays, LeavesAlone, Busy
<1>4. CASE UNCHANGED kvars
  BY <1>2, <1>4 DEF kvars, LeavesAlone, Busy
<1> QED BY <1>1, <1>3, <1>4, CallStepSound, RestartSound DEF KnowledgeNext

LEMMA KnowledgeInitSafe == KnowledgeInit => KSafe
<1> SUFFICES ASSUME KnowledgeInit PROVE KSafe
  OBVIOUS
<1>1. krow = {} /\ kdead = {} /\ kref = {} /\ kchunks = MaxParts /\ ktorn = {} /\ krestarts = 0
      /\ kfile = [s \in KSources |-> "none"] /\ kcall = [c \in KCalls |-> Idle]
  BY DEF KnowledgeInit
<1>2. MaxParts \in Parts /\ 0 \in 0..MaxKRestarts
  BY KnowledgeAssumption DEF Parts
<1>3. KTypes
  BY <1>1, <1>2 DEF KTypes, StoreTypes, CallTypes
<1>4. \A c \in KCalls, s \in KSources : ~Busy(c, s)
  BY <1>1 DEF Busy
<1>5. ASSUME NEW s \in KSources PROVE Sound(s) /\ Alone(s)
  <2>1. Absent(s) /\ NoRows(s) /\ NoneDead(s) /\ RowsNew(s) /\ s \notin kref
    BY <1>1 DEF Absent, NoRows, NoneDead, RowsNew
  <2> QED BY <1>4, <2>1 DEF Sound, Fresh, Alone
<1> QED BY <1>3, <1>5 DEF KSafe

-----------------------------------------------------------------------------
(* The knowledge base: theorems.                                           *)

\* Of every source, call and step the values are what KnowledgeTypeOK says
\* (store.import_document, reindex_source, delete_source): a call that runs has steps
\* left, and what it holds are rows of its own source.
THEOREM KnowledgeTypeCorrect == KnowledgeSpec => []KnowledgeTypeOK
<1>1. KnowledgeInit => KTypes
  BY KnowledgeInitSafe DEF KSafe
<1>2. KTypes /\ [KnowledgeNext]_kvars => KTypes'
  BY KnowledgeStepTypes
<1>3. KTypes => KnowledgeTypeOK
  <2> SUFFICES ASSUME KTypes PROVE KnowledgeTypeOK
    OBVIOUS
  <2>1. KSources \X Parts \subseteq KRows
    BY PartsArePlaces DEF KRows
  <2>2. ASSUME NEW c \in KCalls, kcall[c] # Idle
        PROVE  /\ kcall[c].src \in KSources /\ kcall[c].todo # <<>>
               /\ kcall[c].held \subseteq {kcall[c].src} \X (0..MaxParts)
    <3>1. kcall[c] \in KnowledgeCalls /\ HoldsOwn(kcall[c]) /\ Left(c) \in Nat \ {0}
      BY <2>2, AtStep DEF KTypes, CallTypes
    <3>2. kcall[c].todo # <<>>
      BY <3>1 DEF Left
    <3>3. Parts \subseteq 0..MaxParts /\ 0 \in 0..MaxParts
      BY KnowledgeAssumption DEF Parts
    <3>4. kcall[c].held \subseteq {kcall[c].src} \X (0..MaxParts)
      <4>1. \A s : Chunks(s) \subseteq {s} \X (0..MaxParts) /\ <<s, 0>> \in {s} \X (0..MaxParts)
        BY <3>3 DEF Chunks
      <4> QED BY <3>1, <4>1 DEF HoldsOwn
    <3> QED BY <3>1, <3>2, <3>4 DEF KnowledgeCalls
  <2> QED BY <2>1, <2>2 DEF KTypes, StoreTypes, KnowledgeTypeOK
<1> QED BY <1>1, <1>2, <1>3, PTL DEF KnowledgeSpec

\* When no call is at work on a source that no restart has disturbed, the source is there
\* with its record, its chunks, its references and its text, or nothing of it is
\* (store.import_document, ingest_document, reindex_source, delete_source): for any number
\* of sources, calls and chunks, and whatever purges of the common file come between.
THEOREM SourcesAreWholeOrGone == KnowledgeSpec => []WholeOrGone
<1>1. KnowledgeInit => KSafe
  BY KnowledgeInitSafe
<1>2. KSafe /\ [KnowledgeNext]_kvars => KSafe'
  BY KnowledgeStepSafe
<1>3. KSafe => WholeOrGone
  <2> SUFFICES ASSUME KSafe, NEW s \in KSources \ ktorn, WorkingOn(s) = {}
               PROVE  IF LiveSource(s)
                      THEN LiveChunks(s) = NewChunks(s) /\ s \in kref /\ kfile[s] = "kept"
                      ELSE LiveChunks(s) = {} /\ s \notin kref /\ kfile[s] # "kept"
    BY DEF WholeOrGone
  <2>1. \A c \in KCalls : ~Busy(c, s)
    BY Workers
  <2>2. KTypes /\ RowsNew(s) /\ (SourceWritten(s) \/ Absent(s))
    BY <2>1 DEF KSafe, Sound, SourceSettled
  <2>3. CASE SourceWritten(s)
    <3>1. <<s, 0>> \notin kdead
      BY <2>2, PartsArePlaces DEF KTypes, StoreTypes
    <3>2. NewChunks(s) \subseteq LiveRows /\ NewChunks(s) \subseteq Chunks(s)
      BY <2>1, <2>2, <2>3, ChunksAreOwn DEF SourceWritten
    <3>3. LiveChunks(s) = NewChunks(s)
      BY <2>2, <3>2 DEF RowsNew, LiveChunks, LiveRows
    <3> QED BY <2>3, <3>1, <3>3 DEF SourceWritten, LiveSource, LiveRows
  <2>4. CASE Absent(s)
    <3>1. ~LiveSource(s) /\ LiveChunks(s) = {}
      BY <2>2, <2>4, ChunkNames DEF Absent, NoRows, LiveSource, LiveChunks, LiveRows
    <3> QED BY <2>4, <3>1 DEF Absent
  <2> QED BY <2>2, <2>3, <2>4
<1> QED BY <1>1, <1>2, <1>3, PTL DEF KnowledgeSpec

-----------------------------------------------------------------------------
(* The components of MCSettlement together.                                *)

\* What the run of MCSettlement does is a behaviour of the frozen calls, of the ledger
\* and of the knowledge base.
THEOREM SettlementRunsItsComponents ==
    SettlementSpec => /\ Spec
                      /\ LedgerSpec
                      /\ KnowledgeSpec
<1>1. SettlementInit => Init /\ LedgerInit /\ KnowledgeInit
  BY DEF SettlementInit
<1>2. [SettlementNext]_settlementVars => [Next]_vars
  BY DEF SettlementNext, settlementVars
<1>3. [SettlementNext]_settlementVars => [LedgerNext]_ledgerVars
  BY DEF SettlementNext, settlementVars
<1>4. [SettlementNext]_settlementVars => [KnowledgeNext]_kvars
  BY DEF SettlementNext, settlementVars
<1> QED
  BY <1>1, <1>2, <1>3, <1>4, PTL
  DEF SettlementSpec, Spec, LedgerSpec, KnowledgeSpec

\* Types of the ledger and of the knowledge base.
THEOREM SettlementTypes == SettlementSpec => []SettlementTypeOK
<1>1. LedgerTypeOK /\ KnowledgeTypeOK => SettlementTypeOK
  BY DEF SettlementTypeOK
<1> QED
  BY <1>1, SettlementRunsItsComponents, LedgerTypeCorrect, KnowledgeTypeCorrect, PTL
=============================================================================
