------------------------------- MODULE Memory -------------------------------
(***************************************************************************)
(* Governed long-term memory (storage/memory_governance.py): records that  *)
(* are proposed, confirmed, rejected, expired and deleted, and that may    *)
(* supersede one another.                                                  *)
(*                                                                         *)
(* An operation holds the user's mutation lock from its first read to its  *)
(* last save.  It is one action that reads and decides, and leaves in      *)
(* mtodo the saves it will do; the process may die, or the disk refuse,    *)
(* before any of them, and the rest is lost.  A reader waits for the lock  *)
(* but sees whatever such an interruption left.                            *)
(*                                                                         *)
(* All records are of one revision domain (scope, type and owner); its     *)
(* type is core_rule or not, and they share a memory_key or have none.     *)
(* Contents are distinct; rejected and expired records are one kind,       *)
(* retired; redaction, scores, times to live and the index are left out.   *)
(***************************************************************************)
EXTENDS Naturals

CONSTANTS
    MemIds,          \* memory ids, in the order of their use; none is used twice
    NoMem,           \* no record
    MaxMemBreaks     \* bound: interrupted operations

ASSUME MemAssumption ==
    /\ MemIds \subseteq Nat /\ NoMem \notin MemIds
    /\ MaxMemBreaks \in Nat

VARIABLES
    mem,      \* the record files
    mdomain,  \* is the type core_rule, and is there a memory_key?
    mtodo,    \* the saves left to the operation that holds the lock
    mop,      \* which operation that is, and the record it is about
    mbreaks

memVars == <<mem, mdomain, mtodo, mop, mbreaks>>

MemAbsent == [status |-> "none", sup |-> NoMem, act |-> "create", group |-> NoMem]
MemDomains == [core : BOOLEAN, key : BOOLEAN]
MemOpen == {"pending", "conflict"}
NoOp == [name |-> "none", id |-> NoMem]

MemInit ==
    /\ mem = [m \in MemIds |-> MemAbsent]
    /\ mdomain \in {d \in MemDomains : d.core => d.key}  \* no key: the type plays no part
    /\ mtodo = {} /\ mop = NoOp
    /\ mbreaks = 0

-----------------------------------------------------------------------------
(* Revision chains.                                                        *)

MemExists(mm, m) == m \in MemIds /\ mm[m].status \notin {"none", "gone"}

\* The records that exist, and of those the proposals.
MemAll(mm) == {m \in MemIds : MemExists(mm, m)}
MemProposals(mm) == {m \in MemIds : mm[m].status \in MemOpen}

\* revision_ancestors: the chain of supersedes_memory_id from m, as far as it stays
\* among these records.  No chain comes round again: a record supersedes older ones.
MemAncestors(mm, m, among) ==
    LET Follows(S) == \A x \in S \cup {m} : mm[x].sup \in among => mm[x].sup \in S
    IN  {o \in among : \A S \in SUBSET among : Follows(S) => o \in S}

\* superseded_records: replaced by an active record, or a candidate by a later one.
Superseded(mm) ==
    UNION {IF mm[n].status = "active" THEN MemAncestors(mm, n, MemAll(mm))
           ELSE IF mm[n].status \in MemOpen THEN MemAncestors(mm, n, MemProposals(mm))
           ELSE {} : n \in MemIds}

\* list_retrievable: what a turn may be told.
Retrievable(mm) == {m \in MemIds : mm[m].status = "active"} \ Superseded(mm)

-----------------------------------------------------------------------------
(* Saves.                                                                  *)

\* One save, and its turn: an operation does its saves in the order of these.
MemSave(m, r, turn) == [id |-> m, rec |-> r, turn |-> turn]

\* _retire_revision_ancestors, nearest first: of m's ancestors the greatest id.
RetireAncestors(mm, m) ==
    {MemSave(o, [mm[o] EXCEPT !.status = "retired"], 3 + (m - o)) :
        o \in {a \in MemAncestors(mm, m, MemAll(mm)) : mm[a].status = "active"}}

AfterAncestors(m) == 4 + m

\* An operation takes the lock and will do these saves.
MemBegin(op, m, saves) ==
    /\ mtodo = {}
    /\ mop' = [name |-> op, id |-> m] /\ mtodo' = saves
    /\ UNCHANGED <<mem, mdomain, mbreaks>>

\* Saves of the same turn are done in any order.
MemSaveStep ==
    \E s \in mtodo :
        /\ \A t \in mtodo : s.turn <= t.turn
        /\ mem' = [mem EXCEPT ![s.id] = s.rec]
        /\ mtodo' = mtodo \ {s}
        /\ mop' = IF mtodo' = {} THEN NoOp ELSE mop
        /\ UNCHANGED <<mdomain, mbreaks>>

\* The process dies, or a save raises and the operation with it.
MemBreak ==
    /\ mtodo # {}
    /\ mbreaks < MaxMemBreaks
    /\ mbreaks' = mbreaks + 1
    /\ mtodo' = {} /\ mop' = NoOp
    /\ UNCHANGED <<mem, mdomain>>

-----------------------------------------------------------------------------
(* The write gate.                                                         *)

\* find_conflicts, and the target if it is active.
MemConflicts(target) ==
    {c \in MemIds \ Superseded(mem) :
        mdomain.key /\ mem[c].status \in {"active", "pending"}}
    \cup {t \in MemIds : t = target /\ mem[t].status = "active"}

\* The status before conflicts: a user's record is active if its type and confidence
\* allow it, an agent's is a proposal, and the exact quotation of a tool's result,
\* which replaces nothing, stands by itself.
GateStatuses(source) ==
    CASE source = "user" -> {"active", "pending"}
      [] source = "tool" -> {"active"}
      [] source = "agent" -> {"pending"}

\* The saves of a write, given what the record supersedes and whom it conflicts with.
WriteSaves(m, r, target, conflicts) ==
    LET rivals == {c \in conflicts : mem[c].status = "active"}
        rec == IF rivals = {} THEN r ELSE [r EXCEPT !.status = "conflict", !.group = m]
    IN  {MemSave(c, [mem[c] EXCEPT !.group = m], 0) : c \in rivals}
        \cup {MemSave(m, rec, 1)}
        \cup {MemSave(t, [mem[t] EXCEPT !.status = "retired"], 2) :
                 t \in {target} \cap MemProposals(mem)}
        \cup IF rec.status = "active" THEN RetireAncestors([mem EXCEPT ![m] = rec], m) ELSE {}

\* m is the next unused id.
MemFresh(m) ==
    /\ mem[m].status = "none"
    /\ \A o \in MemIds : mem[o].status = "none" => m <= o

\* MemoryWriteGate.write for a fresh id.  A user's record, given a target or being a
\* core rule, supersedes instead of conflicting: the target, or the conflict that was
\* updated last, which is any of them here.
GateWrite(m, source, act, target) ==
    LET conflicts == MemConflicts(target)
        takesOver == source = "user" /\ conflicts # {} /\ (target # NoMem \/ mdomain.core)
    IN  /\ MemFresh(m)
        /\ target # NoMem => MemExists(mem, target) /\ target \notin Superseded(mem)
        /\ act = "expire" => source = "agent" /\ target # NoMem
        /\ source = "tool" => target = NoMem
        /\ \E status \in GateStatuses(source),
              previous \in IF takesOver /\ target = NoMem THEN conflicts ELSE {target} :
              LET r == [MemAbsent EXCEPT !.status = status, !.act = act,
                                         !.sup = previous]
              IN  MemBegin("write", m, WriteSaves(m, r, target,
                                                  IF takesOver THEN {} ELSE conflicts))

\* A record of no value is kept as rejected, before its target is looked at.
GateRejects(m, target) ==
    /\ MemFresh(m)
    /\ target # NoMem => MemExists(mem, target)
    /\ MemBegin("write", m,
          {MemSave(m, [MemAbsent EXCEPT !.status = "retired", !.sup = target], 1)})

-----------------------------------------------------------------------------
(* Decisions of the user.                                                  *)

\* A revision can be confirmed only while its target exists and is still the latest.
Confirmable(m) ==
    /\ mem[m].status \in MemOpen
    /\ (mem[m].sup # NoMem \/ mem[m].act = "expire") => MemExists(mem, mem[m].sup)
    /\ mem[m].act = "create" => mem[m].sup \notin Superseded(mem)

\* confirm_memory
ConfirmMemory(m) ==
    /\ Confirmable(m)
    /\ LET rec == [mem[m] EXCEPT !.status = "active"]
           replaced == RetireAncestors([mem EXCEPT ![m] = rec], m)
           rivals == {r \in MemIds \ ({m} \cup {s.id : s \in replaced}) :
                         rec.group # NoMem /\ mem[r].group = rec.group
                         /\ mem[r].status = "active"}
       IN  IF rec.act = "expire"
           THEN MemBegin("confirm", m,
                    {MemSave(rec.sup, [mem[rec.sup] EXCEPT !.status = "retired"], 1),
                     MemSave(m, [rec EXCEPT !.status = "retired"], 2)})
           ELSE MemBegin("confirm", m,
                    {MemSave(m, rec, 1)} \cup replaced
                    \cup {MemSave(r, [mem[r] EXCEPT !.status = "retired"], AfterAncestors(m)) :
                             r \in rivals})

\* reject_memory, expire_memory, and "forget" of a user's command
RetireMemory_alone(m) ==
    /\ MemExists(mem, m) /\ mem[m].status # "retired"
    /\ MemBegin("retire", m, {MemSave(m, [mem[m] EXCEPT !.status = "retired"], AfterAncestors(m))})

RetireMemory(m) ==
    /\ MemExists(mem, m) /\ mem[m].status # "retired"
    /\ MemBegin("retire", m,
          {MemSave(m, [mem[m] EXCEPT !.status = "retired"], AfterAncestors(m))}
          \cup IF mem[m].status = "active" THEN RetireAncestors(mem, m) ELSE {})

\* delete_file
DeleteMemory(m) ==
    /\ MemExists(mem, m)
    /\ MemBegin("delete", m,
          {MemSave(m, [MemAbsent EXCEPT !.status = "gone"], AfterAncestors(m))}
          \cup IF mem[m].status = "active" \/ m \in Superseded(mem)
               THEN RetireAncestors(mem, m) ELSE {})

MemNext ==
    \/ MemSaveStep \/ MemBreak
    \/ \E m \in MemIds :
          \/ \E source \in {"user", "agent", "tool"},
                act \in {"create", "expire"}, target \in MemIds \cup {NoMem} :
                GateWrite(m, source, act, target)
          \/ \E target \in MemIds \cup {NoMem} : GateRejects(m, target)
          \/ ConfirmMemory(m)
          \/ RetireMemory(m)
          \/ DeleteMemory(m)

MemSpec == MemInit /\ [][MemNext]_memVars

-----------------------------------------------------------------------------
(* Properties.                                                             *)

MemRecords ==
    [status : {"none", "pending", "active", "retired", "conflict", "gone"},
     sup : MemIds \cup {NoMem}, act : {"create", "expire"}, group : MemIds \cup {NoMem}]

\* Types of the memory's state.
MemTypeOK ==
    /\ mem \in [MemIds -> MemRecords]
    /\ mdomain \in MemDomains
    /\ mtodo \subseteq [id : MemIds, rec : MemRecords, turn : Nat]
    /\ mop \in [name : {"none", "write", "confirm", "retire", "delete"}, id : MemIds \cup {NoMem}]
    /\ mbreaks \in 0..MaxMemBreaks

\* A record that is not retrievable becomes so only by its own write or confirmation,
\* when a confirmation retires the one that replaced it, or when a proposal is deleted
\* (_delete_file_locked retires the older records of a proposal that another proposal
\* follows, and with them what kept a third one back): rejecting, expiring or deleting
\* any other revision brings none of its ancestors back, after an interrupted clean-up
\* either.
NoneComesBack ==
    [][\A m \in Retrievable(mem') \ Retrievable(mem) :
          \/ mem[m].status # "active"
          \/ mop.name = "confirm"
          \/ mop.name = "delete" /\ mem[mop.id].status \in MemOpen]_memVars
=============================================================================
