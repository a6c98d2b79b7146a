------------------------------ MODULE EventStore ------------------------------
(***************************************************************************)
(* The canonical Event Store (crates/event-store): one SQLite database in  *)
(* WAL mode behind one mutex, holding the append-only event log, the       *)
(* projections derived from it and the command ledger.                     *)
(*                                                                         *)
(* Every public write is one IMMEDIATE transaction made under the Core's   *)
(* store lock, so each is one action here.  What is kept: the optimistic   *)
(* sequence check, the receipt-tail check, the lease fence read inside the *)
(* transaction, the idempotency ledger, import of a peer's envelopes, the  *)
(* relaxed-durability window with its "stuck" outcome, process kill, power *)
(* loss and startup recovery.                                              *)
(*                                                                         *)
(* What is abstracted: payload bytes and the object store; hashes, which   *)
(* are taken to be collision free (an event's integrity hash is its id     *)
(* together with `prev`, the hash it was computed over; a receipt's hash   *)
(* is the id of the event that carries it); the lifecycle rules of the     *)
(* aggregates other than a session's creation and lease generation.  A     *)
(* request carries one event, and a batch one or two requests.             *)
(***************************************************************************)
EXTENDS Integers, Sequences

CONSTANTS Session,     \* session aggregates
          Call,        \* tool-call aggregates: the ones that carry receipts
          Stream,      \* assistant-stream aggregates: the ones that carry deltas
          SessionOf,   \* the session a Call or a Stream belongs to
          Command,     \* command ids
          Hash,        \* request hashes
          CanStick,    \* may `PRAGMA synchronous=FULL` fail after a relaxed append?
          MaxEvents,   \* bound: events that ever land
          MaxGen,      \* bound: lease generations
          MaxBoot      \* bound: Core starts

Aggregate == Session \cup Call \cup Stream
None == -1
Peer == -2

ASSUME StoreAssumption ==
    /\ Session \cap (Call \cup Stream) = {} /\ Call \cap Stream = {}
    /\ SessionOf \in [Call \cup Stream -> Session]
    /\ CanStick \in BOOLEAN
    /\ MaxEvents \in Nat /\ MaxGen \in Nat /\ MaxBoot \in Nat
    /\ None \notin Command /\ Peer \notin Command

VARIABLES
    up,          \* a Core process has the store open
    db,          \* the committed database: [log, proj, commands, boot]
    survivable,  \* the databases a power loss may leave: a set that holds db
    stuck,       \* relaxed_stuck: the connection is left at synchronous=NORMAL
    nextId,      \* source of event ids
    acked,       \* history: ids a caller may have been told are on the disk
    replies      \* history: <<command, ids>> a command's caller may have been told

vars == <<up, db, survivable, stuck, nextId, acked, replies>>

-----------------------------------------------------------------------------
(* The rows of the database.                                               *)

SessionKind == {"SessionCreated", "SessionLeaseAcquired", "state"}
Kind == SessionKind \cup {"EffectReceiptAppended", "AssistantTextDelta"}

KindsOf(a) == CASE a \in Session -> SessionKind
                [] a \in Call    -> {"EffectReceiptAppended", "state"}
                [] OTHER         -> {"AssistantTextDelta", "state"}

OwnerOf(a) == IF a \in Session THEN a ELSE SessionOf[a]

\* An AppendRequest with its one NewEvent.  arg is the generation of a lease
\* event and the presented previous_receipt_hash of a receipt (0: none).
Request == [agg : Aggregate, kind : Kind, arg : Nat, expected : Nat \cup {None}]

\* A StoredEvent.  fence and cmd are history: the lease generation a fenced
\* append presented, the command that appended it (Peer: another Core did, and
\* this one imported the envelope).
Event == [id : Nat, agg : Aggregate, seq : Nat, prev : Nat, kind : Kind, arg : Nat,
          fence : Nat \cup {None}, cmd : Command \cup {None, Peer}]

\* A row of effect_receipts, in ledger order.  peer is history: it was imported.
Receipt == [id : Nat, link : Nat, peer : BOOLEAN]
Proj == [created : SUBSET Session, lease : [Session -> Nat], receipts : Seq(Receipt), cursor : Nat]
Row == [hash : Hash, first : Nat, last : Nat]
NoRow == [hash |-> None, first |-> 0, last |-> 0]
DB == [log : Seq(Event), proj : Proj, commands : [Command -> Row \cup {NoRow}], boot : Nat]

EmptyProj == [created |-> {}, lease |-> [s \in Session |-> 0], receipts |-> << >>, cursor |-> 0]
EmptyDB == [log |-> << >>, proj |-> EmptyProj, commands |-> [c \in Command |-> NoRow], boot |-> 0]

-----------------------------------------------------------------------------
(* Reading the log.                                                        *)

\* i is the position of the row `ORDER BY sequence DESC LIMIT 1` finds for a.
IsHead(log, a, i) ==
    /\ i \in DOMAIN log /\ log[i].agg = a
    /\ \A j \in DOMAIN log : log[j].agg = a => log[j].seq <= log[i].seq

head(log, a) ==
    IF \E i \in DOMAIN log : IsHead(log, a, i)
    THEN LET i == CHOOSE i \in DOMAIN log : IsHead(log, a, i)
         IN [seq |-> log[i].seq, id |-> log[i].id]
    ELSE [seq |-> 0, id |-> 0]

last_receipt_hash(p) == IF p.receipts = << >> THEN 0 ELSE p.receipts[Len(p.receipts)].id

\* verify_aggregate: in sequence order the rows are numbered contiguously from
\* 1, and every hash is over the one before it.
verify_aggregate(log, a) ==
    \A i \in DOMAIN log : log[i].agg = a =>
        /\ \A j \in DOMAIN log : (log[j].agg = a /\ log[j].seq = log[i].seq) => j = i
        /\ IF log[i].seq = 1 THEN log[i].prev = 0
           ELSE \E j \in DOMAIN log : /\ log[j].agg = a
                                     /\ log[j].seq = log[i].seq - 1
                                     /\ log[j].id = log[i].prev

-----------------------------------------------------------------------------
(* projections::apply: the legality check of the aggregate, then the rows. *)

apply_ok(p, e) ==
    e.agg \in Session =>
        IF e.seq = 1 THEN e.kind = "SessionCreated"
        ELSE /\ e.kind # "SessionCreated"
             /\ e.kind = "SessionLeaseAcquired" => e.arg > p.lease[e.agg]

\* insert_receipt: the row is taken as it stands, whatever it links to.
insert_receipt(e) == [id |-> e.id, link |-> e.arg, peer |-> e.cmd = Peer]

apply(p, e, offset) ==
    [created  |-> IF e.kind = "SessionCreated" THEN p.created \cup {e.agg} ELSE p.created,
     lease    |-> IF e.kind = "SessionLeaseAcquired" THEN [p.lease EXCEPT ![e.agg] = e.arg]
                                                     ELSE p.lease,
     receipts |-> IF e.kind = "EffectReceiptAppended"
                  THEN Append(p.receipts, insert_receipt(e)) ELSE p.receipts,
     cursor   |-> offset]

rebuild(log) ==
    LET replay[i \in 0 .. Len(log)] ==
            IF i = 0 THEN EmptyProj ELSE apply(replay[i - 1], log[i], i)
    IN replay[Len(log)]

-----------------------------------------------------------------------------
(* append_in and its batches.                                              *)

\* The envelope append_in makes of request r, under id.
envelope(d, r, id, fence, cmd) ==
    LET h == head(d.log, r.agg)
    IN [id |-> id, agg |-> r.agg, seq |-> h.seq + 1, prev |-> h.id, kind |-> r.kind,
        arg |-> r.arg, fence |-> fence, cmd |-> cmd]

\* Mutant of insert: the row is written, the projections are not.
insert_unprojected(d, e) == [d EXCEPT !.log = Append(@, e)]

\* Insert one row and apply the projections, in the same transaction.
insert(d, e) == [log |-> Append(d.log, e), proj |-> apply(d.proj, e, Len(d.log) + 1),
                 commands |-> d.commands, boot |-> d.boot]

\* Mutant of receipt_links: the tail a receipt presents is taken on trust.
receipt_links_unchecked(d, r) == TRUE

receipt_links(d, r) == r.kind = "EffectReceiptAppended" => r.arg = last_receipt_hash(d.proj)

append_ok(d, r) ==
    /\ r.expected \in {None, head(d.log, r.agg).seq}
    /\ receipt_links(d, r)
    /\ apply_ok(d.proj, envelope(d, r, 0, None, None))

append_in(d, r, id, fence, cmd) == insert(d, envelope(d, r, id, fence, cmd))

batch_ok(d, reqs, fence, cmd) ==
    /\ append_ok(d, reqs[1])
    /\ Len(reqs) = 2 => append_ok(append_in(d, reqs[1], nextId, fence, cmd), reqs[2])

append_batch(d, reqs, fence, cmd) ==
    LET d1 == append_in(d, reqs[1], nextId, fence, cmd)
    IN IF Len(reqs) = 1 THEN d1 ELSE append_in(d1, reqs[2], nextId + 1, fence, cmd)

link(r, tail) == IF r.kind = "EffectReceiptAppended" THEN [r EXCEPT !.arg = tail] ELSE r

\* append_all_chained: link each receipt of the batch to the tail as it is here.
seal(d, reqs) ==
    LET tail == last_receipt_hash(d.proj)
    IN <<link(reqs[1], tail),
         link(reqs[2], IF reqs[1].kind = "EffectReceiptAppended" THEN nextId ELSE tail)>>

\* Mutant of fence_ok: the generation is checked nowhere.
fence_ok_unchecked(d, s, g) == TRUE

\* The fence: a session without a lease (or without a row) is at generation 0.
fence_ok(d, s, g) == g = None \/ g = d.proj.lease[s]

ids(log, first, last) == {log[i].id : i \in first .. last}

-----------------------------------------------------------------------------
(* Commit levels (SQLite, external): a full commit syncs the whole WAL, a  *)
(* relaxed one leaves every database since the last sync possible.         *)

\* Mutant of commit: the set of what a power loss may leave is not kept up.
commit_unsynced(d) == db' = d /\ UNCHANGED survivable

\* Mutant of commit: synchronous=NORMAL for every write.
commit_normal(d) == db' = d /\ survivable' = survivable \cup {d}

commit(d) == /\ db' = d
             /\ survivable' = IF stuck THEN survivable \cup {d} ELSE {d}

commit_relaxed(d) == db' = d /\ survivable' = survivable \cup {d}

\* Once a full-durability write commits, its caller may have been told: the
\* process can die just before or just after the reply leaves.
acknowledge(new) == acked' = acked \cup new

room(n) == nextId + n <= MaxEvents + 1

-----------------------------------------------------------------------------
(* Actions: the writes.                                                    *)

Init ==
    /\ up = FALSE /\ stuck = FALSE
    /\ db = EmptyDB /\ survivable = {EmptyDB}
    /\ nextId = 1 /\ acked = {} /\ replies = {}

\* append / append_fenced at Durability::Full.
append_full(r, g) ==
    /\ up /\ ~stuck /\ room(1)
    /\ fence_ok(db, OwnerOf(r.agg), g)
    /\ append_ok(db, r)
    /\ commit(append_in(db, r, nextId, g, None))
    /\ nextId' = nextId + 1
    /\ acknowledge({nextId})
    /\ UNCHANGED <<up, stuck, replies>>

only_deltas(r) == r.agg \in Stream /\ r.kind = "AssistantTextDelta"

\* append_with / append_fenced_with at Durability::Relaxed: enter, append (it
\* may be refused), leave.  Leaving may fail, whatever the append did.
append_relaxed(r, g) ==
    /\ up /\ ~stuck /\ room(1)
    /\ only_deltas(r)
    /\ \/ /\ fence_ok(db, OwnerOf(r.agg), g) /\ append_ok(db, r)
          /\ commit_relaxed(append_in(db, r, nextId, g, None))
          /\ nextId' = nextId + 1
       \/ /\ ~(fence_ok(db, OwnerOf(r.agg), g) /\ append_ok(db, r))
          /\ UNCHANGED <<db, survivable, nextId>>
    /\ stuck' \in {FALSE, CanStick}
    /\ UNCHANGED <<up, acked, replies>>

\* append_all / append_all_chained: the fence is the first request's session.
append_all(reqs, g, sealed) ==
    LET rs == IF sealed THEN seal(db, reqs) ELSE reqs
    IN /\ up /\ room(2)
       /\ fence_ok(db, OwnerOf(reqs[1].agg), g)
       /\ batch_ok(db, rs, g, None)
       /\ commit(append_batch(db, rs, g, None))
       /\ nextId' = nextId + 2
       /\ acknowledge({nextId, nextId + 1})
       /\ UNCHANGED <<up, stuck, replies>>

\* Mutant of record_command: no ledger row is written.
record_command_skipped(d, c, row) == d

record_command(d, c, row) == [d EXCEPT !.commands = [d.commands EXCEPT ![c] = row]]

\* execute_command_all, first execution: no ledger row for c.
command_applied(c, h, reqs) ==
    /\ up /\ room(Len(reqs))
    /\ db.commands[c] = NoRow
    /\ batch_ok(db, reqs, None, c)
    /\ LET d   == append_batch(db, reqs, None, c)
           row == [hash |-> h, first |-> Len(db.log) + 1, last |-> Len(db.log) + Len(reqs)]
           new == nextId .. nextId + Len(reqs) - 1
       IN /\ commit(record_command(d, c, row))
          /\ nextId' = nextId + Len(reqs)
          /\ acknowledge(new)
          /\ replies' = replies \cup {<<c, new>>}
    /\ UNCHANGED <<up, stuck>>

\* Mutant of prior_outcome: the range runs to the end of the log.
prior_outcome_tail(d, c) == ids(d.log, d.commands[c].first, Len(d.log))

\* prior_outcome: the recorded outcome of a command that already ran.
prior_outcome(d, c) == ids(d.log, d.commands[c].first, d.commands[c].last)

\* execute_command_all, a retry with the same request: nothing is appended.
command_replayed(c, h) ==
    /\ up
    /\ db.commands[c] # NoRow /\ db.commands[c].hash = h
    /\ replies' = replies \cup {<<c, prior_outcome(db, c)>>}
    /\ UNCHANGED <<up, db, survivable, stuck, nextId, acked>>

\* Mutant of import_ok: the previous hash is not compared.
import_ok_unchained(d, e) ==
    /\ \A i \in DOMAIN d.log : d.log[i].id # e.id
    /\ e.seq = head(d.log, e.agg).seq + 1
    /\ apply_ok(d.proj, e)

\* import_envelopes, one envelope a peer recorded: it must continue the
\* aggregate's chain here.  Neither the fence nor the receipt tail is checked.
import_ok(d, e) ==
    /\ \A i \in DOMAIN d.log : d.log[i].id # e.id
    /\ e.seq = head(d.log, e.agg).seq + 1
    /\ e.prev = head(d.log, e.agg).id
    /\ apply_ok(d.proj, e)

import_envelopes(e) ==
    /\ up /\ room(1)
    /\ e.id = nextId
    /\ import_ok(db, e)
    /\ commit(insert(db, e))
    /\ nextId' = nextId + 1
    /\ acknowledge({e.id})
    /\ UNCHANGED <<up, stuck, replies>>

-----------------------------------------------------------------------------
(* Actions: failures and recovery.                                         *)

\* The process dies between two transactions; committed data is in the WAL.
kill ==
    /\ up
    /\ up' = FALSE
    /\ UNCHANGED <<db, survivable, stuck, nextId, acked, replies>>

\* The machine dies: only what was synced is sure to be there.
power_loss ==
    /\ up' = FALSE
    /\ db' \in survivable
    /\ survivable' = {db'}
    /\ UNCHANGED <<stuck, nextId, acked, replies>>

\* open_with_report then recover_on_start: synchronous=FULL again, every chain
\* verified, the projections rebuilt when their cursor lags, the boot generation
\* advanced.  The rebuild after a schema migration is the same rebuild;
\* ProjectionsAreTheFold below says it changes nothing at any moment.
recover_on_start ==
    /\ ~up /\ db.boot < MaxBoot
    /\ \A a \in Aggregate : verify_aggregate(db.log, a)
    /\ up' = TRUE /\ stuck' = FALSE
    /\ LET p == IF db.proj.cursor # Len(db.log) THEN rebuild(db.log) ELSE db.proj
           d == [log |-> db.log, proj |-> p, commands |-> db.commands, boot |-> db.boot + 1]
       IN db' = d /\ survivable' = {d}
    /\ UNCHANGED <<nextId, acked, replies>>

-----------------------------------------------------------------------------
(* What the callers in services/modbit-core ask of the store.  Sessions are *)
(* created and leased by commands; a receipt presents any tail its caller   *)
(* may have read; a peer's receipt links to the tail its own ledger had.    *)

Fence == {None} \cup 0 .. MaxGen

AppendRequests ==
    {r \in [agg : Aggregate, kind : Kind, arg : 0 .. MaxEvents, expected : {None, 0}] :
        /\ r.kind \in KindsOf(r.agg) \ {"SessionCreated", "SessionLeaseAcquired"}
        /\ r.kind # "EffectReceiptAppended" => r.arg = 0}

CommandRequests ==
    {r \in AppendRequests : r.agg \in Session} \cup
    {r \in [agg : Session, kind : {"SessionCreated", "SessionLeaseAcquired"},
            arg : 0 .. MaxGen, expected : {None}] : r.kind = "SessionCreated" => r.arg = 0}

\* A tool call's outcome and its receipt, or two calls', in one transaction of
\* one session; a receipt in a batch is linked by seal, so presents no tail.
BatchRequests == [agg : Call, kind : {"EffectReceiptAppended", "state"}, arg : {0}, expected : {None}]
Batches == {b \in BatchRequests \X BatchRequests : OwnerOf(b[1].agg) = OwnerOf(b[2].agg)}

\* The tail a peer's ledger had when it recorded a receipt: none, a receipt that
\* is here too, or one of a session that was never brought here (an id past
\* those of this log).
PeerTails ==
    {0, MaxEvents + 1} \cup {db.proj.receipts[i].id : i \in DOMAIN db.proj.receipts}

PeerRequests ==
    {r \in AppendRequests \cup CommandRequests :
        r.expected = None /\ r.kind # "EffectReceiptAppended"}
    \cup [agg : Call, kind : {"EffectReceiptAppended"}, arg : PeerTails, expected : {None}]

\* A peer's copy of the aggregate is at, behind or ahead of this one, with the
\* same history or another.
Envelopes ==
    {[id |-> nextId, agg |-> r.agg, seq |-> n, prev |-> p, kind |-> r.kind, arg |-> r.arg,
      fence |-> None, cmd |-> Peer] :
        r \in PeerRequests, n \in 1 .. MaxEvents, p \in 0 .. MaxEvents}

append_with == \E r \in AppendRequests, g \in Fence : append_full(r, g) \/ append_relaxed(r, g)

append_all_inner ==
    \E reqs \in Batches, g \in Fence, sealed \in BOOLEAN :
        append_all(reqs, g, sealed)

execute_command_all ==
    \E c \in Command, h \in Hash :
        command_replayed(c, h) \/ \E r \in CommandRequests : command_applied(c, h, <<r>>)

import_mirrored == \E e \in Envelopes : import_envelopes(e)

Next == append_with \/ append_all_inner \/ execute_command_all \/ import_mirrored
        \/ kill \/ power_loss \/ recover_on_start

Spec == Init /\ [][Next]_vars

-----------------------------------------------------------------------------
(* Properties.                                                             *)

\* Every variable has its type, and the open database is one a power loss may
\* leave behind.
TypeOK ==
    /\ up \in BOOLEAN /\ stuck \in BOOLEAN
    /\ db \in DB /\ survivable \subseteq DB /\ db \in survivable
    /\ nextId \in Nat \ {0}
    /\ acked \subseteq Nat
    /\ replies \subseteq Command \X SUBSET Nat

\* What recover_on_start demands of the log before a Core may start: whatever
\* mix of appends, batches, commands, imports and crashes wrote it, every
\* aggregate's chain verifies, so a restart is never refused.
ChainsVerify == \A a \in Aggregate : verify_aggregate(db.log, a)

IsLease(e, s) == e.kind = "SessionLeaseAcquired" /\ e.agg = s

FencedAt(log, i) ==
    LET s == OwnerOf(log[i].agg)
    IN /\ \A j \in DOMAIN log : IsLease(log[j], s) =>
              IF j < i THEN log[j].arg <= log[i].fence ELSE log[j].arg > log[i].fence
       /\ log[i].fence # 0 => \E j \in 1 .. i - 1 : IsLease(log[j], s) /\ log[j].arg = log[i].fence

\* docs/33 "Session kernel lease": an event appended under a lease generation
\* sits in the log between the acquisition of that generation and the next
\* one, so a superseded loop or tool never advanced state, crashes included.
FencedWritesInForce == \A i \in DOMAIN db.log : db.log[i].fence # None => FencedAt(db.log, i)

LinksTail(receipts, i) == receipts[i].link = IF i = 1 THEN 0 ELSE receipts[i - 1].id

\* append_in, seal: a receipt this Core appends, on any path, links to the
\* receipt before it in the ledger, its own or imported: writers that read the
\* tail at different moments, crashes and imports never make it fork the chain.
\* An imported receipt may: import_envelopes compares it with no tail.
OwnReceiptsLink ==
    \A i \in DOMAIN db.proj.receipts :
        ~db.proj.receipts[i].peer => LinksTail(db.proj.receipts, i)

\* docs/30 "idempotent by command_id": the events a command appended are
\* exactly the range its ledger row records; a command without a row left none.
CommandsAppliedOnce ==
    \A c \in Command :
        {i \in DOMAIN db.log : db.log[i].cmd = c} =
            IF db.commands[c] = NoRow THEN {} ELSE db.commands[c].first .. db.commands[c].last

\* Projections are derived state: rebuilding them from the log at any moment
\* changes nothing (lib.rs: "rebuild every projection row (idempotent)").
ProjectionsAreTheFold == db.proj = rebuild(db.log)

IdsOf(log) == {log[i].id : i \in DOMAIN log}

\* store.rs append_with: a power loss can take only relaxed deltas; whatever a
\* caller was told is on the disk is in every database a power loss can leave.
AckedSurvive == \A d \in survivable : acked \subseteq IdsOf(d.log)

\* Two answers to the same command report the same events, whatever crashed
\* between the first execution and the retry.
RepliesAgree == \A a, b \in replies : a[1] = b[1] => a[2] = b[2]

\* A lease generation, once committed, is never rolled back by a crash or a
\* rebuild, so it is never handed out a second time.
LeaseNeverRollsBack ==
    [][\A s \in Session : db'.proj.lease[s] >= db.proj.lease[s]]_vars

=============================================================================
