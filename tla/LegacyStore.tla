----------------------------- MODULE LegacyStore -----------------------------
(***************************************************************************)
(* The event tables of src/database.rs, which all chains share: what a     *)
(* range write and a rollback do to them, event by event.  ChainRunner     *)
(* says when the two transactions run; here each is one step, and the      *)
(* blocks they are about are chosen freely, as long as a chain could hold  *)
(* them.                                                                   *)
(*                                                                         *)
(* Addresses, fees and payloads are left out.  An assigned row stands for  *)
(* the oracle, relayer and fees it carries, so the assignment columns of   *)
(* an accepted row hold the id of the row they were copied from.           *)
(***************************************************************************)
EXTENDS Integers, FiniteSets, Sequences, SequencesExt

CONSTANTS
    Chain,          \* the indexed chains
    MsgOf,          \* [Chain -> the messages sent on it]
    MsgTo,          \* [Chain -> the messages delivered on it]
    Payload,        \* the chain ids a signature may name
    Events,         \* the events of a run, a subset of Event
    MaxBlock,       \* bound: heights are 1..MaxBlock
    MaxEvents,      \* bound: events of a block
    Hash,           \* tells the blocks a chain had at one height apart
    B49eFrom        \* [Msg -> block the legacy oracle counts from on its route]

Height == 1..MaxBlock
Msg    == UNION {MsgOf[c] \cup MsgTo[c] : c \in Chain}

\* A signature is indexed on one chain and names another in its payload.
Event ==
    [type : {"accepted", "dispatched", "imported"}, msg : Msg]
    \cup [type : {"assigned"}, msg : Msg,
          oracle : {"listed", "b49e", "other"}, relayer : {"listed", "other"}]
    \cup [type : {"signature"}, payload : Payload]
    \cup [type : {"msgport"}]

ASSUME StoreAssumption ==
    /\ MaxBlock \in Nat /\ MaxEvents \in Nat
    /\ Events \subseteq Event
    /\ \A c, d \in Chain : c # d => /\ MsgOf[c] \cap MsgOf[d] = {}
                                   /\ MsgTo[c] \cap MsgTo[d] = {}

VARIABLES
    accepted,    \* ormp_message_accepted, keyed by the message hash
    assigned,    \* ormp_message_assigned, keyed by the log id
    dispatched,  \* ormp_message_dispatched, keyed by the message hash
    imported,    \* ormp_hash_imported, keyed by the message hash
    msgport,     \* msgport_message_sent and _recv, keyed by block, hash, index
    signatures,  \* signature_pub_signature_submittion, keyed likewise
    anchors,     \* ormp_indexer_block_anchor: a set of [chain, block, hash]
    checkpoint,  \* [Chain -> next_block]
    indexed      \* history: [Chain -> the blocks indexed and not rolled back]

tables == <<accepted, assigned, dispatched, imported, msgport, signatures>>
vars   == <<tables, anchors, checkpoint, indexed>>

Unset     == <<>>
LogId     == Chain \X Height \X (1..MaxEvents)
BlockHash == Chain \X Hash     \* blocks of two chains never share a hash
EventId   == Height \X BlockHash \X (1..MaxEvents)

Init ==
    /\ accepted = {} /\ assigned = {} /\ dispatched = {} /\ imported = {}
    /\ msgport = {} /\ signatures = {} /\ anchors = {}
    /\ checkpoint = [c \in Chain |-> 1]
    /\ indexed = [c \in Chain |-> <<>>]

-----------------------------------------------------------------------------
(* Writing the events of a block.                                          *)

Upsert(table, row) == {r \in table : r.id # row.id} \cup {row}

\* is_oracle_assignment_for_accepted: the legacy oracle counts only on some
\* routes (of chain 1 only on that to chain 46) and only from a block on; for a
\* message on another route that block is above MaxBlock.
OracleMatches(assignment, row) ==
    \/ assignment.oracle = "listed"
    \/ assignment.oracle = "b49e" /\ row.block >= B49eFrom[row.id]

\* backfill_message_assignment: one UPDATE of the accepted row of the message.
Assign(row, assignment) ==
    [row EXCEPT !.oracle = IF OracleMatches(assignment, row) THEN assignment.id ELSE @,
                !.relayer = IF assignment.relayer = "listed" THEN assignment.id ELSE @]

BackfillAssignment(table, assignment) ==
    {IF row.id = assignment.msg THEN Assign(row, assignment) ELSE row : row \in table}

\* ORDER BY block_number, id.
Earlier(a, b) ==
    \/ a.block < b.block
    \/ a.block = b.block /\ a.id[3] < b.id[3]

LastOf(assignments) ==
    CHOOSE a \in assignments : \A other \in assignments : a = other \/ Earlier(other, a)

\* One UPDATE for each row, in that order: the last row's comes last.
BackfillAll(table, assignments) ==
    MapThenFoldSet(LAMBDA a, filled : BackfillAssignment(filled, a),
                   table, LAMBDA a : a, LastOf, assignments)

\* The rows of the events, each with the chain and block it is found at.  The
\* assignment columns of an accepted row are filled in by backfills.
AcceptedRow(at, msg) == [id |-> msg, chain |-> at.chain, block |-> at.block,
                         oracle |-> Unset, relayer |-> Unset]

AssignedRow(at, e) == [id |-> <<at.chain, at.block, at.index>>, chain |-> at.chain,
                       block |-> at.block, msg |-> e.msg,
                       oracle |-> e.oracle, relayer |-> e.relayer]

DispatchedRow(at, msg) == [id |-> msg, chain |-> at.chain, block |-> at.block]

ImportedRow(at, msg) == [id |-> msg, chain |-> at.chain, block |-> at.block]

\* legacy_event_log_id: block number, block hash and log index.
EventLogId(at) == <<at.block, at.hash, at.index>>

MsgportRow(at) == [id |-> EventLogId(at), chain |-> at.chain, block |-> at.block]

\* The chain of a signature row is the one its payload names.
SignatureRow(at, e) == [id |-> EventLogId(at), chain |-> e.payload, block |-> at.block]

\* insert_message_accepted leaves the assignment columns of an existing row as
\* they are; backfill_accepted_assignment then fills them from what is there.
WriteAccepted(db, at, e) ==
    LET row  == AcceptedRow(at, e.msg)
        old  == {r \in db.accepted : r.id = row.id}
        kept == {[row EXCEPT !.oracle = r.oracle, !.relayer = r.relayer] : r \in old}
        rows == (db.accepted \ old) \cup (IF old = {} THEN {row} ELSE kept)
    IN  [db EXCEPT !.accepted = BackfillAll(rows, {a \in db.assigned : a.msg = e.msg})]

WriteAssigned(db, at, e) ==
    LET row == AssignedRow(at, e)
    IN  [db EXCEPT !.assigned = Upsert(@, row),
                   !.accepted = BackfillAssignment(@, row)]

WriteDispatched(db, at, e) == [db EXCEPT !.dispatched = Upsert(@, DispatchedRow(at, e.msg))]

WriteImported(db, at, e) == [db EXCEPT !.imported = Upsert(@, ImportedRow(at, e.msg))]

WriteMsgport(db, at) == [db EXCEPT !.msgport = Upsert(@, MsgportRow(at))]

WriteSignature(db, at, e) == [db EXCEPT !.signatures = Upsert(@, SignatureRow(at, e))]

WriteLegacyEvent(db, at, e) ==
    CASE e.type = "accepted"   -> WriteAccepted(db, at, e)
      [] e.type = "assigned"   -> WriteAssigned(db, at, e)
      [] e.type = "dispatched" -> WriteDispatched(db, at, e)
      [] e.type = "imported"   -> WriteImported(db, at, e)
      [] e.type = "msgport"    -> WriteMsgport(db, at)
      [] e.type = "signature"  -> WriteSignature(db, at, e)

Database == [accepted |-> accepted, assigned |-> assigned, dispatched |-> dispatched,
             imported |-> imported, msgport |-> msgport, signatures |-> signatures]

Commit(db) ==
    /\ accepted' = db.accepted /\ assigned' = db.assigned
    /\ dispatched' = db.dispatched /\ imported' = db.imported
    /\ msgport' = db.msgport /\ signatures' = db.signatures

-----------------------------------------------------------------------------
(* What a block of a chain may hold: a message is accepted and assigned on  *)
(* the chain it is sent on, its hash imported and it dispatched on the one  *)
(* it is delivered on, each once; an assignment may be repeated in a later  *)
(* block.  (Two oracles could import one hash; one oracle is assumed.)      *)

EventsBefore(c) == UNION {ToSet(block.events) : block \in ToSet(indexed[c])}

\* The parts of an event a chain emits once for a message.
Once(e) == IF e.type \in {"accepted", "dispatched", "imported", "assigned"}
             THEN {<<e.type, e.msg>>} ELSE {}

CanFollow(c, events) ==
    /\ \A i, j \in DOMAIN events : i # j => Once(events[i]) \cap Once(events[j]) = {}
    /\ \A i \in DOMAIN events, e \in EventsBefore(c) :
           Once(events[i]) \cap Once(e) # {} => e.type = "assigned"

EmittedOn(c) ==
    {e \in Events : /\ e.type \in {"accepted", "assigned"} => e.msg \in MsgOf[c]
                    /\ e.type \in {"dispatched", "imported"} => e.msg \in MsgTo[c]}

Contents(c) == UNION {[1..n -> EmittedOn(c)] : n \in 0..MaxEvents}

\* Mutant: one too high.
NextBlockSkipsOne(b) == b + 2
NextBlock(b) == b + 1

\* The i-th event of a block, with the place it is found at.
Found(c, b, block, i) ==
    [chain |-> c, block |-> b, index |-> i, hash |-> block.hash, event |-> block.events[i]]

\* The events of a block in the order of the logs.
WriteEvents(db, c, b, block) ==
    FoldLeftDomain(LAMBDA d, i : WriteLegacyEvent(d, Found(c, b, block, i), block.events[i]),
                   db, block.events)

\* write_events_and_advance_checkpoint, for a range of one block: the events,
\* the anchor, the checkpoint.
WriteBlock(c, b, block) ==
    /\ Commit(WriteEvents(Database, c, b, block))
    /\ anchors' = {a \in anchors : a.chain # c \/ a.block # b}
                    \cup {[chain |-> c, block |-> b, hash |-> block.hash]}
    /\ checkpoint' = [checkpoint EXCEPT ![c] = NextBlock(b)]

IndexBlock(c) ==
    LET b == Len(indexed[c]) + 1 IN
    /\ b \in Height
    /\ \E events \in Contents(c), hash \in Hash :
         /\ CanFollow(c, events)
         /\ LET block == [hash |-> <<c, hash>>, events |-> events] IN
              /\ WriteBlock(c, b, block)
              /\ indexed' = [indexed EXCEPT ![c] = Append(@, block)]

\* What the contract guarantees: a message has one assignment.
AssignedOnce == \A x, y \in assigned : x.msg = y.msg => x = y

\* A process that read the checkpoint earlier commits its range late.  With a
\* repeated assignment the late one would win; the contract emits none.
IndexBlockAgain(c) ==
    /\ AssignedOnce
    /\ \E b \in DOMAIN indexed[c] : WriteBlock(c, b, indexed[c][b])
    /\ UNCHANGED indexed

-----------------------------------------------------------------------------
\* Mutant: DELETE without the chain id.
AboveOnAnyChain(table, c, b) == {r \in table : r.block >= b}
\* WHERE chain_id = c AND block_number >= b
Above(table, c, b) == {r \in table : r.chain = c /\ r.block >= b}

\* Mutant: the rolled back assignments are looked up after they are deleted.
RecomputedMessagesNone(c, b) == {}
\* rolled_back_assignment_msg_hashes
RecomputedMessages(c, b) == {r.msg : r \in Above(assigned, c, b)}

\* recompute_accepted_assignments
Recompute(table, assignments, msgs) ==
    LET cleared == {IF r.id \in msgs
                      THEN [r EXCEPT !.oracle = Unset, !.relayer = Unset] ELSE r :
                    r \in table}
    IN  BackfillAll(cleared, {a \in assignments : a.msg \in msgs})

\* Mutant: only the chain_id column is consulted.
SignaturesAnchoredNone(c, b) == {}
\* delete_signature_submittions_by_source_anchors
SignaturesAnchored(c, b) ==
    {s \in signatures : \E a \in Above(anchors, c, b) :
        s.block = a.block /\ s.id[2] = a.hash}

\* rollback_legacy_from: one transaction.
Rollback(c) ==
    /\ \E b \in DOMAIN indexed[c] :
         LET remaining == assigned \ Above(assigned, c, b) IN
           /\ assigned' = remaining
           /\ accepted' = Recompute(accepted \ Above(accepted, c, b), remaining,
                                    RecomputedMessages(c, b))
           /\ dispatched' = dispatched \ Above(dispatched, c, b)
           /\ imported' = imported \ Above(imported, c, b)
           /\ msgport' = msgport \ Above(msgport, c, b)
           /\ signatures' = (signatures \ SignaturesAnchored(c, b))
                              \ Above(signatures, c, b)
           /\ anchors' = anchors \ Above(anchors, c, b)
           /\ checkpoint' = [checkpoint EXCEPT ![c] = b]
           /\ indexed' = [indexed EXCEPT ![c] = SubSeq(@, 1, b - 1)]

Next == \E c \in Chain : IndexBlock(c) \/ IndexBlockAgain(c) \/ Rollback(c)

Spec == Init /\ [][Next]_vars
-----------------------------------------------------------------------------
(***************************************************************************)
(* Properties.  The reference is a database that only ever saw the blocks  *)
(* that are indexed now.                                                   *)
(***************************************************************************)
TypeOK ==
    /\ \A r \in accepted :
         /\ r \in [id : Msg, chain : Chain, block : Height,
                   oracle : LogId \cup {Unset}, relayer : LogId \cup {Unset}]
         /\ r.id \in MsgOf[r.chain]
    /\ assigned \subseteq [id : LogId, chain : Chain, block : Height, msg : Msg,
                           oracle : {"listed", "b49e", "other"},
                           relayer : {"listed", "other"}]
    /\ dispatched \subseteq [id : Msg, chain : Chain, block : Height]
    /\ imported \subseteq [id : Msg, chain : Chain, block : Height]
    /\ msgport \subseteq [id : EventId, chain : Chain, block : Height]
    /\ signatures \subseteq [id : EventId, chain : Payload, block : Height]
    /\ anchors \subseteq [chain : Chain, block : Height, hash : BlockHash]
    /\ checkpoint \in [Chain -> 1..(MaxBlock + 1)]

\* All events indexed now, each with where it was found.
EventsOf(c, b) == {Found(c, b, indexed[c][b], i) : i \in DOMAIN indexed[c][b].events}

Indexed == UNION {UNION {EventsOf(c, b) : b \in DOMAIN indexed[c]} : c \in Chain}

IndexedOf(type) == {x \in Indexed : x.event.type = type}

\* The event tables hold exactly the events of the indexed blocks: a rollback
\* takes away what the blocks it undoes had added and nothing else
\* (src/database.rs:156-212, 512-545).
RowsMatchIndexed ==
    /\ assigned   = {AssignedRow(x, x.event) : x \in IndexedOf("assigned")}
    /\ dispatched = {DispatchedRow(x, x.event.msg) : x \in IndexedOf("dispatched")}
    /\ imported   = {ImportedRow(x, x.event.msg) : x \in IndexedOf("imported")}
    /\ msgport    = {MsgportRow(x) : x \in IndexedOf("msgport")}

LatestId(assignments) == IF assignments = {} THEN Unset ELSE LastOf(assignments).id

\* Whatever the order in which acceptances and assignments were indexed, rolled
\* back and indexed again, an accepted row names the latest assignment of its
\* message that counts for it, as if the blocks had been indexed once
\* (src/database.rs:382-435, 686-763).
AcceptedMatchIndexed ==
    /\ \A r \in accepted :
         LET mine == {a \in assigned : a.msg = r.id} IN
           /\ r.oracle = LatestId({a \in mine : OracleMatches(a, r)})
           /\ r.relayer = LatestId({a \in mine : a.relayer = "listed"})
    /\ {[id |-> r.id, chain |-> r.chain, block |-> r.block] : r \in accepted}
         = {[id |-> x.event.msg, chain |-> x.chain, block |-> x.block] :
               x \in IndexedOf("accepted")}

\* The same of the signatures, which do not record the chain they were indexed
\* on (src/database.rs:171-190, 353-380; tests/postgres_writer.rs:428).
SignaturesMatchIndexed ==
    signatures = {SignatureRow(x, x.event) : x \in IndexedOf("signature")}
=============================================================================
