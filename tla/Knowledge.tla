----------------------------- MODULE Knowledge -----------------------------
(***************************************************************************)
(* The knowledge base (agent/modules/knowledge): a source is a record and  *)
(* its chunks, rows of one append-only file (core/context/                 *)
(* context_store.py), with its text in a managed file to which the         *)
(* reference index holds a reference.                                      *)
(*                                                                         *)
(* Every append, and the rewrite by a purge, is one locked step; a call is *)
(* a sequence of them, and calls of the API and of index jobs in worker    *)
(* processes run beside each other.  A deletion, and an import, is alone   *)
(* with its source: the code does not see to it (a call that has read the  *)
(* source before would put it back), this is a restriction of the model.   *)
(***************************************************************************)
EXTENDS Naturals, Sequences, FiniteSets

CONSTANTS
    KSources,        \* sources; each is imported once
    KCalls,          \* calls that run at a time
    MaxParts,        \* into how many chunks the chunker splits a text
    MaxKRestarts     \* bound

ASSUME KnowledgeAssumption == MaxParts \in Nat \ {0} /\ MaxKRestarts \in Nat

\* The rows of a source: 0 is its record, the others are its chunks.  The id of
\* a chunk is made of the source and the position, so a reindex uses it again.
Parts == 1..MaxParts
KRows == KSources \X (0..MaxParts)
Chunks(s) == {s} \X Parts

VARIABLES
    krow,      \* rows with a content
    kdead,     \* rows with a tombstone behind their last content
    kfile,     \* the managed file: none, kept or trash
    kref,      \* sources with their references
    kchunks,   \* number of chunks the present chunker makes
    kcall,     \* the calls: kind, source, steps left, rows in hand
    ktorn,     \* history: sources that a restart has disturbed
    krestarts

kvars == <<krow, kdead, kfile, kref, kchunks, kcall, ktorn, krestarts>>
kfiles == <<kfile, kref>>
kstays == <<kchunks, ktorn, krestarts>>

Idle == [kind |-> "none", src |-> "none", todo |-> <<>>, held |-> {}]

KnowledgeInit ==
    /\ krow = {} /\ kdead = {}
    /\ kfile = [s \in KSources |-> "none"] /\ kref = {}
    /\ kchunks = MaxParts
    /\ kcall = [c \in KCalls |-> Idle]
    /\ ktorn = {} /\ krestarts = 0

\* ContextStore.list_items: the last row wins.
LiveRows == krow \ kdead
LiveSource(s) == <<s, 0>> \in LiveRows
LiveChunks(s) == LiveRows \cap Chunks(s)

WorkingOn(s) == {kcall[c].kind : c \in {d \in KCalls : kcall[d].src = s}}

\* put, put_many (one row) and delete
PutRow(r) == krow' = krow \cup {r} /\ kdead' = kdead \ {r}
DeleteRow(r) == krow' = krow /\ kdead' = kdead \cup {r}

\* purge: every tombstone goes, also those of rows that are not purged.
Purge(rows) == krow' = krow \ rows /\ kdead' = {}

-----------------------------------------------------------------------------
(* Calls.                                                                  *)

ReplaceSteps == <<"list", "drop", "append">>
ImportSteps == <<"document", "record", "refer">> \o ReplaceSteps
IngestSteps == ReplaceSteps \o <<"refer">>
EditSteps == <<"record", "list", "append">>
PurgeSteps == <<"purge", "unrefer", "retire">>

StartCall(c, kind, s, steps, held) ==
    /\ kcall[c] = Idle
    /\ kcall' = [kcall EXCEPT ![c] = [kind |-> kind, src |-> s, todo |-> steps, held |-> held]]
    /\ UNCHANGED <<krow, kdead, kfiles, kstays>>

\* import_document, and what import_file does after it; artifacts take the former only.
StartImport(c, s, kind) ==
    /\ kfile[s] = "none" /\ WorkingOn(s) = {}
    /\ StartCall(c, kind, s, ImportSteps \o (IF kind = "file" THEN IngestSteps ELSE <<>>), {})

\* reindex_source reads the record and the text, from the job or from the route.
StartReindex(c, s) ==
    /\ LiveSource(s) /\ kfile[s] # "none"
    /\ WorkingOn(s) \subseteq {"reindex", "edit"}
    /\ StartCall(c, "reindex", s, ReplaceSteps, {})

\* disable_source, rename_source: the record and the chunks are written again.
StartEdit(c, s) ==
    /\ LiveSource(s) /\ WorkingOn(s) \subseteq {"reindex", "edit"}
    /\ StartCall(c, "edit", s, EditSteps, {})

PurgedRows_recordOnly(s) == {<<s, 0>>}

\* delete_source asks for tombstoned chunks too, but a tombstone has no type and no source.
PurgedRows(s) == {<<s, 0>>} \cup LiveChunks(s)

StartDelete(c, s) ==
    /\ LiveSource(s) /\ WorkingOn(s) \subseteq {"delete"}
    /\ StartCall(c, "delete", s, PurgeSteps \o <<"list", "drop">>, PurgedRows(s))

-----------------------------------------------------------------------------
(* The steps of a call.                                                    *)

\* A reindex takes the chunks the store lists; then those of the present chunker.
NewChunks(s) == {s} \X (1..kchunks)

\* The call goes on with its next step and these chunks.
Advance(c, held) ==
    LET todo == kcall[c].todo
    IN  kcall' = [kcall EXCEPT ![c] =
            IF Len(todo) = 1 THEN Idle ELSE [@ EXCEPT !.todo = Tail(todo), !.held = held]]

\* One of the chunks in hand is done.
Take(c, r) == kcall' = [kcall EXCEPT ![c].held = @ \ {r}]

\* The first of the chunks in hand.
NextHeld(c) == CHOOSE r \in kcall[c].held : \A q \in kcall[c].held : r[2] <= q[2]

RowStep(c) ==
    LET s == kcall[c].src
        step == Head(kcall[c].todo)
        held == kcall[c].held
    IN  /\ kcall[c] # Idle
        /\ UNCHANGED <<kfiles, kstays>>
        /\ \/ /\ step = "record" /\ PutRow(<<s, 0>>) /\ Advance(c, {})
           \/ /\ step = "list" /\ UNCHANGED <<krow, kdead>> /\ Advance(c, LiveChunks(s))
           \/ /\ step = "drop" /\ held # {}
              /\ DeleteRow(NextHeld(c)) /\ Take(c, NextHeld(c))
           \/ /\ step = "drop" /\ held = {} /\ UNCHANGED <<krow, kdead>>
              /\ Advance(c, NewChunks(s))
           \/ /\ step = "append" /\ held # {}
              /\ PutRow(NextHeld(c)) /\ Take(c, NextHeld(c))
           \/ /\ step = "append" /\ held = {} /\ UNCHANGED <<krow, kdead>> /\ Advance(c, {})

PurgeStep(c) ==
    /\ kcall[c] # Idle /\ Head(kcall[c].todo) = "purge"
    /\ Purge(kcall[c].held)
    /\ Advance(c, {})
    /\ UNCHANGED <<kfiles, kstays>>

\* write_knowledge_document, replace_owner_references, soft_delete_file; a deletion
\* keeps a file that somebody refers to.
TextStep(c) ==
    LET s == kcall[c].src
        step == Head(kcall[c].todo)
    IN  /\ kcall[c] # Idle
        /\ \/ step = "document" /\ kfile' = [kfile EXCEPT ![s] = "kept"] /\ kref' = kref
           \/ step = "refer" /\ kref' = kref \cup {s} /\ kfile' = kfile
           \/ step = "unrefer" /\ kref' = kref \ {s} /\ kfile' = kfile
           \/ /\ step = "retire" /\ kref' = kref
              /\ kfile' = IF s \in kref THEN kfile ELSE [kfile EXCEPT ![s] = "trash"]
        /\ Advance(c, {})
        /\ UNCHANGED <<krow, kdead, kstays>>

\* A step of import_document raises.  If the text was saved, the import takes back what
\* it did: delete_source, which does nothing without a record, and soft_delete_file.
Rollback(s) ==
    [kind |-> "rollback", src |-> s, held |-> PurgedRows(s),
     todo |-> IF LiveSource(s) THEN PurgeSteps ELSE <<"retire">>]

Imports(c) == kcall[c].kind \in {"text", "file"}
InImportDocument(c) ==
    Len(kcall[c].todo) > (IF kcall[c].kind = "file" THEN Len(IngestSteps) ELSE 0)

ImportFails(c) ==
    LET s == kcall[c].src
    IN  /\ Imports(c) /\ InImportDocument(c)
        /\ kcall' = [kcall EXCEPT ![c] =
             IF Head(@.todo) = "document" THEN Idle ELSE Rollback(s)]
        /\ UNCHANGED <<krow, kdead, kfiles, kstays>>

\* _delete_memory_projection: a purge of another row of the same file.
ForgetMemory ==
    /\ kdead # {} /\ Purge({})
    /\ UNCHANGED <<kfiles, kcall, kstays>>

\* The processes end and start again, perhaps with another chunker.  This disturbs the
\* sources that were being worked on, and all if they are to be chunked otherwise.
KnowledgeRestart ==
    /\ krestarts < MaxKRestarts /\ krestarts' = krestarts + 1
    /\ kcall' = [c \in KCalls |-> Idle]
    /\ kchunks' \in Parts
    /\ ktorn' = ktorn \cup {s \in KSources :
                              WorkingOn(s) # {} \/ (kfile[s] # "none" /\ kchunks' # kchunks)}
    /\ UNCHANGED <<krow, kdead, kfile, kref>>

-----------------------------------------------------------------------------
CallStep(c) ==
    \/ \E s \in KSources :
         \/ \E kind \in {"text", "file"} : StartImport(c, s, kind)
         \/ StartReindex(c, s) \/ StartEdit(c, s) \/ StartDelete(c, s)
    \/ RowStep(c) \/ PurgeStep(c) \/ TextStep(c) \/ ImportFails(c)

KnowledgeNext == (\E c \in KCalls : CallStep(c)) \/ ForgetMemory \/ KnowledgeRestart

KnowledgeSpec == KnowledgeInit /\ [][KnowledgeNext]_kvars

-----------------------------------------------------------------------------
\* Values of the state; a call that runs has steps left.
KnowledgeTypeOK ==
    /\ krow \subseteq KRows /\ kdead \subseteq KRows
    /\ kfile \in [KSources -> {"none", "kept", "trash"}] /\ kref \subseteq KSources
    /\ kchunks \in Parts /\ ktorn \subseteq KSources /\ krestarts \in 0..MaxKRestarts
    /\ \A c \in KCalls : kcall[c] # Idle =>
         /\ kcall[c].src \in KSources /\ kcall[c].todo # <<>>
         /\ kcall[c].held \subseteq {kcall[c].src} \X (0..MaxParts)

\* When no call is at work on a source, it is there as a whole (record, every
\* chunk, references, text) or nothing of it is: whatever purges of other
\* sources and memories came between the steps of a reindex, and wherever an
\* import failed and took back what it had done (store.import_document).  A
\* source that a restart disturbed is nobody's to repair, and is left out.
WholeOrGone ==
    \A s \in KSources \ ktorn : WorkingOn(s) = {} =>
        IF LiveSource(s)
        THEN LiveChunks(s) = NewChunks(s) /\ s \in kref /\ kfile[s] = "kept"
        ELSE LiveChunks(s) = {} /\ s \notin kref /\ kfile[s] # "kept"

\* "Physically delete a source and its chunks" (store.delete_source): no chunk
\* of a source that is gone can be found.
DeletedIsPurged ==
    \A s \in KSources : WorkingOn(s) = {} /\ ~LiveSource(s) => LiveChunks(s) = {}
=============================================================================
