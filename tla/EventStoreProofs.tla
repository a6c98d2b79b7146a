--------------------------- MODULE EventStoreProofs ---------------------------
(***************************************************************************)
(* Proofs about the Event Store for every set of sessions, aggregates and  *)
(* commands, every bound and any number of crashes.                        *)
(***************************************************************************)
EXTENDS EventStore, NaturalFacts

-----------------------------------------------------------------------------
(* Types of the operators.                                                 *)

\* head finds a sequence number and an id, whatever the log.
LEMMA HeadType ==
    ASSUME NEW log \in Seq(Event), NEW a
    PROVE  head(log, a) \in [seq : Nat, id : Nat]
<1>1. CASE \E i \in DOMAIN log : IsHead(log, a, i)
  <2> DEFINE i == CHOOSE i \in DOMAIN log : IsHead(log, a, i)
  <2>1. i \in DOMAIN log
    BY <1>1
  <2>2. log[i] \in Event
    BY <2>1
  <2>3. head(log, a) = [seq |-> log[i].seq, id |-> log[i].id]
    BY <1>1 DEF head
  <2> QED BY <2>2, <2>3 DEF Event
<1>2. CASE ~ \E i \in DOMAIN log : IsHead(log, a, i)
  BY <1>2 DEF head
<1> QED BY <1>1, <1>2

\* The envelope append_in builds is a well-formed event.
LEMMA EnvelopeType ==
    ASSUME NEW d \in DB, NEW r \in Request, NEW id \in Nat,
           NEW f \in Nat \cup {None}, NEW c \in Command \cup {None}
    PROVE  envelope(d, r, id, f, c) \in Event
<1>1. head(d.log, r.agg) \in [seq : Nat, id : Nat]
  BY HeadType DEF DB
<1> QED BY <1>1 DEF envelope, Event, Request

\* Inserting a well-formed event keeps the database well formed.
LEMMA InsertType ==
    ASSUME NEW d \in DB, NEW e \in Event,
           e.kind = "SessionLeaseAcquired" => e.agg \in Session,
           e.kind = "SessionCreated" => e.agg \in Session
    PROVE  insert(d, e) \in DB
<1>1. Append(d.log, e) \in Seq(Event)
  BY DEF DB
<1>2. apply(d.proj, e, Len(d.log) + 1) \in Proj
  <2>1. d.proj \in Proj /\ Len(d.log) \in Nat
    BY DEF DB
  <2>2. insert_receipt(e) \in Receipt
    BY DEF Event, Receipt, insert_receipt
  <2> QED BY <2>1, <2>2 DEF apply, Proj, Event
<1> QED BY <1>1, <1>2 DEF insert, DB

\* The receipt tail is an id, or 0 for an empty ledger.
LEMMA TailType ==
    ASSUME NEW d \in DB
    PROVE  last_receipt_hash(d.proj) \in Nat
<1>1. d.proj.receipts \in Seq(Receipt)
  BY DEF DB, Proj
<1>2. CASE d.proj.receipts # << >>
  <2>1. Len(d.proj.receipts) \in DOMAIN d.proj.receipts
    BY <1>1, <1>2
  <2>2. d.proj.receipts[Len(d.proj.receipts)] \in Receipt
    BY <1>1, <2>1
  <2> QED BY <2>2 DEF last_receipt_hash, Receipt
<1>3. CASE d.proj.receipts = << >>
  BY <1>3 DEF last_receipt_hash
<1> QED BY <1>2, <1>3

-----------------------------------------------------------------------------
(* What a step does to the database.                                       *)

\* e may follow the log of d: its kind fits the aggregate, it continues the
\* aggregate's chain, the projection accepts it, its fence is the generation in
\* force, its receipt links the tail unless a peer wrote it.
Legal(d, e) ==
    /\ e \in Event
    /\ e.kind \in KindsOf(e.agg)
    /\ e.seq = head(d.log, e.agg).seq + 1 /\ e.prev = head(d.log, e.agg).id
    /\ apply_ok(d.proj, e)
    /\ e.fence \in {None, d.proj.lease[OwnerOf(e.agg)]}
    /\ e.kind = "EffectReceiptAppended" /\ e.cmd # Peer => e.arg = last_receipt_hash(d.proj)

Inserted(d, d2) == \E e : Legal(d, e) /\ e.cmd \notin Command /\ d2 = insert(d, e)

Commanded(d, d2) ==
    \E e, c, h : /\ c \in Command /\ h \in Hash
                 /\ Legal(d, e) /\ e.cmd = c /\ d.commands[c] = NoRow
                 /\ d2 = record_command(insert(d, e), c,
                          [hash |-> h, first |-> Len(d.log) + 1, last |-> Len(d.log) + 1])

Booted(d) == [log |-> d.log, proj |-> d.proj, commands |-> d.commands, boot |-> d.boot + 1]

\* The databases one transaction can make of d.
Written(d, d2) ==
    \/ Inserted(d, d2)
    \/ \E d1 : Inserted(d, d1) /\ Inserted(d1, d2)
    \/ Commanded(d, d2)
    \/ d2 = Booted(d)

\* Requests of the callers are requests.
LEMMA RequestTypes ==
    /\ AppendRequests \subseteq Request
    /\ CommandRequests \subseteq Request
    /\ BatchRequests \subseteq Request
    /\ \A r \in AppendRequests \cup CommandRequests \cup BatchRequests : r.kind \in KindsOf(r.agg)
<1> USE StoreAssumption
<1>1. AppendRequests \subseteq Request /\ \A r \in AppendRequests : r.kind \in KindsOf(r.agg)
  BY DEF AppendRequests, Request
<1>2. CommandRequests \subseteq Request /\ \A r \in CommandRequests : r.kind \in KindsOf(r.agg)
  BY <1>1 DEF CommandRequests, Request, KindsOf, SessionKind, Kind, Aggregate
<1>3. BatchRequests \subseteq Request /\ \A r \in BatchRequests : r.kind \in KindsOf(r.agg)
  BY DEF BatchRequests, Request, KindsOf, SessionKind, Kind, Aggregate
<1> QED BY <1>1, <1>2, <1>3

\* What a peer sends is a well-formed event, marked as the peer's.
LEMMA EnvelopesType ==
    ASSUME db \in DB, nextId \in Nat, NEW e \in Envelopes
    PROVE  e \in Event /\ e.kind \in KindsOf(e.agg) /\ e.fence = None /\ e.cmd = Peer
<1> USE StoreAssumption
<1>1. PeerTails \subseteq Nat
  <2> DEFINE R == db.proj.receipts
  <2>1. R \in Seq(Receipt)
    BY DEF DB, Proj
  <2>2. PeerTails = {0, MaxEvents + 1} \cup {R[i].id : i \in DOMAIN R}
    BY DEF PeerTails
  <2> HIDE DEF R
  <2>3. \A i \in DOMAIN R : R[i] \in Receipt
    BY <2>1
  <2>4. \A i \in DOMAIN R : R[i].id \in Nat
    BY <2>3 DEF Receipt
  <2> QED BY <2>2, <2>4
<1>2. ASSUME NEW r \in PeerRequests
      PROVE  r \in Request /\ r.kind \in KindsOf(r.agg)
  <2>1. CASE r \in AppendRequests \cup CommandRequests
    BY <2>1, RequestTypes
  <2>2. CASE r \in [agg : Call, kind : {"EffectReceiptAppended"}, arg : PeerTails, expected : {None}]
    BY <1>1, <2>2 DEF Request, KindsOf, Kind, Aggregate
  <2> QED BY <2>1, <2>2 DEF PeerRequests
<1>3. PICK r \in PeerRequests, n \in 1 .. MaxEvents, p \in 0 .. MaxEvents :
        e = [id |-> nextId, agg |-> r.agg, seq |-> n, prev |-> p, kind |-> r.kind,
             arg |-> r.arg, fence |-> None, cmd |-> Peer]
  BY DEF Envelopes
<1>4. r \in Request /\ r.kind \in KindsOf(r.agg)
  BY <1>2
<1> QED BY <1>3, <1>4 DEF Event, Request

\* A request that passes append_in's checks lands as a legal event.
LEMMA AppendIsLegal ==
    ASSUME NEW d \in DB, NEW r \in Request, NEW id \in Nat,
           NEW f \in Nat \cup {None}, NEW c \in Command \cup {None},
           r.kind \in KindsOf(r.agg), append_ok(d, r), fence_ok(d, OwnerOf(r.agg), f)
    PROVE  /\ Legal(d, envelope(d, r, id, f, c))
           /\ envelope(d, r, id, f, c).cmd = c
           /\ append_in(d, r, id, f, c) = insert(d, envelope(d, r, id, f, c))
<1> DEFINE e == envelope(d, r, id, f, c)
<1>1. e \in Event
  BY EnvelopeType
<1>2. e.agg = r.agg /\ e.kind = r.kind /\ e.arg = r.arg /\ e.fence = f /\ e.cmd = c
  BY DEF envelope
<1>3. apply_ok(d.proj, e)
  BY DEF append_ok, apply_ok, envelope
<1>4. e.fence \in {None, d.proj.lease[OwnerOf(e.agg)]}
  BY <1>2 DEF fence_ok
<1>5. e.kind = "EffectReceiptAppended" => e.arg = last_receipt_hash(d.proj)
  BY <1>2 DEF append_ok, receipt_links
<1>6. e.seq = head(d.log, e.agg).seq + 1 /\ e.prev = head(d.log, e.agg).id
  BY <1>2 DEF envelope
<1> QED BY <1>1, <1>2, <1>3, <1>4, <1>5, <1>6 DEF Legal, append_in

\* Linking a batch's receipts keeps its requests well formed and their kinds.
LEMMA SealedRequests ==
    ASSUME NEW d \in DB, nextId \in Nat, NEW reqs \in Batches, NEW sealed \in BOOLEAN
    PROVE  LET rs == IF sealed THEN seal(d, reqs) ELSE reqs IN
           /\ rs \in Request \X Request
           /\ \A i \in {1, 2} : /\ rs[i].kind \in KindsOf(rs[i].agg) /\ rs[i].agg = reqs[i].agg
                                /\ rs[i].kind \in {"EffectReceiptAppended", "state"}
           /\ OwnerOf(rs[1].agg) = OwnerOf(rs[2].agg)
<1>1. reqs \in BatchRequests \X BatchRequests /\ OwnerOf(reqs[1].agg) = OwnerOf(reqs[2].agg)
  BY DEF Batches
<1>2. /\ reqs[1] \in Request /\ reqs[2] \in Request
      /\ reqs[1].kind \in KindsOf(reqs[1].agg) /\ reqs[2].kind \in KindsOf(reqs[2].agg)
  BY <1>1, RequestTypes
<1>3. /\ reqs[1].kind \in {"EffectReceiptAppended", "state"}
      /\ reqs[2].kind \in {"EffectReceiptAppended", "state"}
  BY <1>1 DEF BatchRequests
<1>4. \A r \in Request, t \in Nat :
        link(r, t) \in Request /\ link(r, t).kind = r.kind /\ link(r, t).agg = r.agg
  BY DEF link, Request
<1>5. last_receipt_hash(d.proj) \in Nat
  BY TailType
<1>6. CASE ~sealed
  BY <1>1, <1>2, <1>3, <1>6
<1>7. CASE sealed
  <2>1. PICK t \in Nat, u \in Nat : seal(d, reqs) = <<link(reqs[1], t), link(reqs[2], u)>>
    BY <1>5 DEF seal
  <2> DEFINE q1 == link(reqs[1], t)
             q2 == link(reqs[2], u)
  <2>2. /\ q1 \in Request /\ q1.kind = reqs[1].kind /\ q1.agg = reqs[1].agg
        /\ q2 \in Request /\ q2.kind = reqs[2].kind /\ q2.agg = reqs[2].agg
    BY <1>2, <1>4
  <2> HIDE DEF q1, q2
  <2>3. seal(d, reqs) = <<q1, q2>>
    BY <2>1 DEF q1, q2
  <2>4. /\ seal(d, reqs) \in Request \X Request
        /\ seal(d, reqs)[1] = q1 /\ seal(d, reqs)[2] = q2
    BY <2>2, <2>3
  <2> QED BY <1>1, <1>2, <1>3, <1>7, <2>2, <2>4
<1> QED BY <1>6, <1>7

\* Parts of the inductive invariant, each about one database.

\* Sequence numbers start at 1 and an aggregate with rows has a last one.
HeadsIn(d) == \A i \in DOMAIN d.log :
    d.log[i].seq >= 1 /\ \E h \in DOMAIN d.log : IsHead(d.log, d.log[i].agg, h)

ChainsIn(d) == \A a \in Aggregate : verify_aggregate(d.log, a)

\* The projected generation of a session is the greatest one its log acquired.
LeasesIn(d) == \A s \in Session :
    /\ \A j \in DOMAIN d.log : IsLease(d.log[j], s) => d.log[j].arg <= d.proj.lease[s]
    /\ d.proj.lease[s] # 0 =>
          \E j \in DOMAIN d.log : IsLease(d.log[j], s) /\ d.log[j].arg = d.proj.lease[s]

FencesIn(d) == \A i \in DOMAIN d.log : d.log[i].fence # None => FencedAt(d.log, i)

ReceiptsIn(d) == \A i \in DOMAIN d.proj.receipts :
    ~d.proj.receipts[i].peer => LinksTail(d.proj.receipts, i)

RowsOf(log, c) == {i \in DOMAIN log : log[i].cmd = c}

CommandsIn(d) == \A c \in Command :
    RowsOf(d.log, c) =
        IF d.commands[c] = NoRow THEN {} ELSE d.commands[c].first .. d.commands[c].last

Good(d) == /\ d.proj.cursor = Len(d.log)
           /\ HeadsIn(d) /\ ChainsIn(d) /\ LeasesIn(d)
           /\ FencesIn(d) /\ ReceiptsIn(d) /\ CommandsIn(d)

\* The inductive invariant: every database a power loss may leave is Good, so
\* it does not matter which one it leaves.
StoreInv == TypeOK /\ \A d \in survivable : Good(d)

\* Every step leaves a database that was survivable or one written from db, and
\* adds nothing else to what may survive.
LEMMA StepShape ==
    ASSUME StoreInv, Next
    PROVE  /\ db' \in survivable \/ Written(db, db')
           /\ survivable' \subseteq survivable \cup {db'}
           /\ db' \in survivable'
<1> USE StoreAssumption
<1>0. /\ db \in DB /\ db \in survivable /\ nextId \in Nat /\ nextId + 1 \in Nat
      /\ db.proj.cursor = Len(db.log)
  BY DEF StoreInv, TypeOK, Good
<1>1. CASE append_with
  <2>1. PICK r \in AppendRequests, g \in Fence : append_full(r, g) \/ append_relaxed(r, g)
    BY <1>1 DEF append_with
  <2>2. r \in Request /\ r.kind \in KindsOf(r.agg) /\ g \in Nat \cup {None}
    BY RequestTypes DEF Fence
  <2> DEFINE e == envelope(db, r, nextId, g, None)
  <2>3. fence_ok(db, OwnerOf(r.agg), g) /\ append_ok(db, r) =>
          Inserted(db, append_in(db, r, nextId, g, None))
    BY <1>0, <2>2, AppendIsLegal DEF Inserted
  <2>4. CASE append_full(r, g)
    BY <1>0, <2>3, <2>4 DEF append_full, commit, Written
  <2>5. CASE append_relaxed(r, g)
    BY <1>0, <2>3, <2>5 DEF append_relaxed, commit_relaxed, Written
  <2> QED BY <2>1, <2>4, <2>5
<1>2. CASE append_all_inner
  <2>1. PICK reqs \in Batches, g \in Fence, sealed \in BOOLEAN : append_all(reqs, g, sealed)
    BY <1>2 DEF append_all_inner
  <2> DEFINE rs == IF sealed THEN seal(db, reqs) ELSE reqs
  <2>2. /\ reqs[1] \in BatchRequests /\ reqs[2] \in BatchRequests
        /\ reqs = <<reqs[1], reqs[2]>> /\ OwnerOf(reqs[1].agg) = OwnerOf(reqs[2].agg)
    BY DEF Batches
  <2>3. /\ rs = <<rs[1], rs[2]>>
        /\ rs[1] \in Request /\ rs[1].kind = reqs[1].kind /\ rs[1].agg = reqs[1].agg
        /\ rs[2] \in Request /\ rs[2].kind = reqs[2].kind /\ rs[2].agg = reqs[2].agg
    <3>1. last_receipt_hash(db.proj) \in Nat
      BY <1>0, TailType
    <3>2. reqs[1] \in Request /\ reqs[2] \in Request
      BY <2>2, RequestTypes
    <3>3. \A r \in Request, t \in Nat :
            link(r, t) \in Request /\ link(r, t).kind = r.kind /\ link(r, t).agg = r.agg
      BY DEF link, Request
    <3> QED BY <1>0, <2>2, <3>1, <3>2, <3>3 DEF seal
  <2>4. /\ reqs[1].kind \in KindsOf(reqs[1].agg) /\ reqs[2].kind \in KindsOf(reqs[2].agg)
        /\ g \in Nat \cup {None}
    BY <2>2, RequestTypes DEF Fence
  <2> DEFINE d1 == append_in(db, rs[1], nextId, g, None)
             d2 == append_in(d1, rs[2], nextId + 1, g, None)
  <2>5. /\ fence_ok(db, OwnerOf(rs[1].agg), g) /\ append_ok(db, rs[1]) /\ append_ok(d1, rs[2])
        /\ commit(d2)
    <3>1. Len(rs) = 2
      BY <2>3
    <3> QED BY <2>1, <2>3, <3>1 DEF append_all, batch_ok, append_batch
  <2> DEFINE e1 == envelope(db, rs[1], nextId, g, None)
  <2>6. Legal(db, e1) /\ e1.cmd = None /\ d1 = insert(db, e1)
    <3>1. rs[1].kind \in KindsOf(rs[1].agg) /\ rs[1] \in Request
      BY <2>3, <2>4
    <3>2. None \in Command \cup {None}
      OBVIOUS
    <3> HIDE DEF rs
    <3> QED BY <1>0, <2>4, <2>5, <3>1, <3>2, AppendIsLegal
  <2>9. e1.kind \notin {"SessionLeaseAcquired", "SessionCreated"}
    BY <2>2, <2>3 DEF envelope, BatchRequests
  <2>10. d1 \in DB
    BY <1>0, <2>6, <2>9, InsertType DEF Legal
  <2>7. fence_ok(d1, OwnerOf(rs[2].agg), g)
    BY <2>2, <2>3, <2>5, <2>6, <2>9 DEF fence_ok, insert, apply
  <2>8. Inserted(d1, d2)
    <3>1. rs[2].kind \in KindsOf(rs[2].agg) /\ rs[2] \in Request
      BY <2>3, <2>4
    <3>2. None \in Command \cup {None}
      OBVIOUS
    <3> DEFINE e2 == envelope(d1, rs[2], nextId + 1, g, None)
    <3> HIDE DEF rs, d1
    <3>3. Legal(d1, e2) /\ e2.cmd = None /\ d2 = insert(d1, e2)
      BY <1>0, <2>4, <2>5, <2>7, <2>10, <3>1, <3>2, AppendIsLegal
    <3> QED BY <3>3 DEF Inserted
  <2> QED BY <2>5, <2>6, <2>8 DEF commit, Written, Inserted
<1>3. CASE execute_command_all
  <2>1. PICK c \in Command, h \in Hash :
          command_replayed(c, h) \/ \E r \in CommandRequests : command_applied(c, h, <<r>>)
    BY <1>3 DEF execute_command_all
  <2>2. CASE command_replayed(c, h)
    BY <1>0, <2>2 DEF command_replayed
  <2>3. ASSUME NEW r \in CommandRequests, command_applied(c, h, <<r>>)
        PROVE  Commanded(db, db') /\ survivable' \subseteq survivable \cup {db'} /\ db' \in survivable'
    <3>1. r \in Request /\ r.kind \in KindsOf(r.agg)
      BY RequestTypes
    <3>2. append_ok(db, r) /\ db.commands[c] = NoRow
      BY <2>3 DEF command_applied, batch_ok
    <3> DEFINE e == envelope(db, r, nextId, None, c)
    <3>6. fence_ok(db, OwnerOf(r.agg), None) /\ None \in Nat \cup {None}
      BY DEF fence_ok
    <3>7. c \in Command \cup {None}
      OBVIOUS
    <3>8. db \in DB /\ nextId \in Nat
      BY <1>0
    <3>3. Legal(db, e) /\ e.cmd = c /\ append_in(db, r, nextId, None, c) = insert(db, e)
      <4>1. ASSUME NEW f \in Nat \cup {None}, NEW k \in Command \cup {None},
                   fence_ok(db, OwnerOf(r.agg), f)
            PROVE  /\ Legal(db, envelope(db, r, nextId, f, k))
                   /\ envelope(db, r, nextId, f, k).cmd = k
                   /\ append_in(db, r, nextId, f, k) = insert(db, envelope(db, r, nextId, f, k))
        BY <3>8, <3>1, <3>2, <4>1, AppendIsLegal
      <4> QED BY <4>1, <3>6, <3>7
    <3>4. append_batch(db, <<r>>, None, c) = insert(db, e)
      BY <3>3 DEF append_batch
    <3>5. commit(record_command(insert(db, e), c,
                   [hash |-> h, first |-> Len(db.log) + 1, last |-> Len(db.log) + 1]))
      BY <2>3, <3>4 DEF command_applied
    <3> QED BY <3>2, <3>3, <3>5 DEF Commanded, commit
  <2> QED BY <2>1, <2>2, <2>3 DEF Written
<1>4. CASE import_mirrored
  <2>1. PICK e \in Envelopes : import_envelopes(e)
    BY <1>4 DEF import_mirrored
  <2>2. e \in Event /\ e.kind \in KindsOf(e.agg) /\ e.fence = None /\ e.cmd = Peer
    BY <1>0, EnvelopesType
  <2>3. Inserted(db, insert(db, e))
    BY <2>1, <2>2 DEF Inserted, Legal, import_envelopes, import_ok
  <2> QED BY <1>0, <2>1, <2>3 DEF import_envelopes, commit, Written
<1>5. CASE kill
  BY <1>0, <1>5 DEF kill
<1>6. CASE power_loss
  BY <1>0, <1>6 DEF power_loss
<1>7. CASE recover_on_start
  BY <1>0, <1>7 DEF recover_on_start, Written, Booted
<1> QED BY <1>1, <1>2, <1>3, <1>4, <1>5, <1>6, <1>7 DEF Next

-----------------------------------------------------------------------------
(* Inserting a legal event keeps a database good.                          *)

\* The log after an insertion, row by row.
LEMMA InsertedLog ==
    ASSUME NEW d \in DB, NEW e \in Event
    PROVE  /\ Len(d.log) \in Nat
           /\ DOMAIN d.log = 1 .. Len(d.log)
           /\ \A i \in DOMAIN d.log : d.log[i] \in Event
           /\ DOMAIN insert(d, e).log = 1 .. Len(d.log) + 1
           /\ Len(insert(d, e).log) = Len(d.log) + 1
           /\ insert(d, e).log[Len(d.log) + 1] = e
           /\ \A i \in DOMAIN d.log : insert(d, e).log[i] = d.log[i]
<1>1. d.log \in Seq(Event)
  BY DEF DB
<1> QED BY <1>1 DEF insert

\* head is the last row of an aggregate that has one, and 0 otherwise.
LEMMA HeadIs ==
    ASSUME NEW d \in DB, HeadsIn(d), NEW a
    PROVE  \/ \E h \in DOMAIN d.log : /\ IsHead(d.log, a, h)
                                     /\ head(d.log, a).seq = d.log[h].seq
                                     /\ head(d.log, a).id = d.log[h].id
           \/ /\ \A i \in DOMAIN d.log : d.log[i].agg # a
              /\ head(d.log, a).seq = 0 /\ head(d.log, a).id = 0
<1>1. CASE \E i \in DOMAIN d.log : IsHead(d.log, a, i)
  <2> DEFINE h == CHOOSE i \in DOMAIN d.log : IsHead(d.log, a, i)
  <2>1. h \in DOMAIN d.log /\ IsHead(d.log, a, h)
    BY <1>1
  <2>2. head(d.log, a) = [seq |-> d.log[h].seq, id |-> d.log[h].id]
    BY <1>1 DEF head
  <2>3. head(d.log, a).seq = d.log[h].seq /\ head(d.log, a).id = d.log[h].id
    BY <2>2
  <2> HIDE DEF h
  <2> QED BY <2>1, <2>3
<1>2. CASE ~ \E i \in DOMAIN d.log : IsHead(d.log, a, i)
  <2>1. head(d.log, a) = [seq |-> 0, id |-> 0]
    BY <1>2 DEF head
  <2> QED BY <1>2, <2>1 DEF HeadsIn
<1> QED BY <1>1, <1>2

\* A legal event is numbered after every row of its aggregate.
LEMMA NewestSequence ==
    ASSUME NEW d \in DB, Good(d), NEW e, Legal(d, e)
    PROVE  /\ e.seq >= 1
           /\ \A i \in DOMAIN d.log : d.log[i].agg = e.agg => d.log[i].seq < e.seq
<1>1. e \in Event /\ e.seq = head(d.log, e.agg).seq + 1
  BY DEF Legal
<1>2. head(d.log, e.agg).seq \in Nat
  BY HeadType DEF DB
<1>3. \A i \in DOMAIN d.log : d.log[i].seq \in Nat
  BY <1>1, InsertedLog DEF Event
<1>4. HeadsIn(d)
  BY DEF Good
<1> QED BY <1>1, <1>2, <1>3, <1>4, HeadIs DEF IsHead

\* append_in and import_envelopes keep every aggregate's chain verifiable.
LEMMA InsertKeepsChains ==
    ASSUME NEW d \in DB, Good(d), NEW e, Legal(d, e)
    PROVE  HeadsIn(insert(d, e)) /\ ChainsIn(insert(d, e))
<1> DEFINE n == Len(d.log) + 1
           L == insert(d, e).log
<1>1. e \in Event /\ HeadsIn(d) /\ ChainsIn(d) /\ e.prev = head(d.log, e.agg).id
      /\ e.seq = head(d.log, e.agg).seq + 1
  BY DEF Legal, Good
<1>2. /\ Len(d.log) \in Nat /\ DOMAIN L = 1 .. n /\ DOMAIN d.log = 1 .. Len(d.log)
      /\ L[n] = e /\ \A i \in DOMAIN d.log : L[i] = d.log[i]
      /\ \A i \in DOMAIN L : L[i] \in Event
  BY <1>1, InsertedLog
<1>3. e.seq >= 1 /\ \A i \in DOMAIN d.log : d.log[i].agg = e.agg => d.log[i].seq < e.seq
  BY NewestSequence
<1>4. \A i \in DOMAIN L : L[i].seq \in Nat
  BY <1>2 DEF Event
<1> HIDE DEF n, L
<1>5. HeadsIn(insert(d, e))
  <2> SUFFICES ASSUME NEW i \in DOMAIN L
               PROVE  L[i].seq >= 1 /\ \E h \in DOMAIN L : IsHead(L, L[i].agg, h)
    BY DEF HeadsIn, L
  <2>1. CASE L[i].agg = e.agg
    <3>1. n \in DOMAIN L
      BY <1>2 DEF n
    <3>2. IsHead(L, L[i].agg, n)
      <4>1. ASSUME NEW j \in DOMAIN L, L[j].agg = e.agg
            PROVE  L[j].seq <= L[n].seq
        <5>1. CASE j = n
          BY <1>4, <5>1
        <5>2. CASE j # n
          <6>1. j \in DOMAIN d.log
            BY <1>2, <4>1, <5>2 DEF n
          <6>2. L[j] = d.log[j] /\ L[n] = e
            BY <1>2, <6>1
          <6>3. d.log[j].seq < e.seq
            BY <1>3, <4>1, <6>1, <6>2
          <6>4. L[j].seq \in Nat /\ L[n].seq \in Nat
            BY <1>4, <3>1
          <6> QED BY <6>2, <6>3, <6>4
        <5> QED BY <5>1, <5>2
      <4>2. L[n].agg = e.agg
        BY <1>2
      <4> QED BY <2>1, <3>1, <4>1, <4>2 DEF IsHead
    <3>3. L[i].seq >= 1
      BY <1>1, <1>2, <1>3 DEF HeadsIn, n
    <3> QED BY <3>1, <3>2, <3>3
  <2>2. CASE L[i].agg # e.agg
    <3>1. i \in DOMAIN d.log
      BY <1>2, <2>2 DEF n
    <3>2. PICK h \in DOMAIN d.log : IsHead(d.log, d.log[i].agg, h)
      BY <1>1, <3>1 DEF HeadsIn
    <3>3. d.log[i].seq >= 1
      BY <1>1, <3>1 DEF HeadsIn
    <3>4. h \in DOMAIN L /\ L[i] = d.log[i] /\ L[h] = d.log[h]
      BY <1>2, <3>1, <3>2 DEF n
    <3>5. IsHead(L, L[i].agg, h)
      <4>1. L[h].agg = L[i].agg
        BY <3>2, <3>4 DEF IsHead
      <4>2. ASSUME NEW j \in DOMAIN L, L[j].agg = L[i].agg
            PROVE  L[j].seq <= L[h].seq
        <5>1. j \in DOMAIN d.log /\ L[j] = d.log[j]
          BY <1>2, <2>2, <4>2 DEF n
        <5> QED BY <3>2, <3>4, <4>2, <5>1 DEF IsHead
      <4> QED BY <3>4, <4>1, <4>2 DEF IsHead
    <3> QED BY <3>3, <3>4, <3>5
  <2> QED BY <2>1, <2>2
<1>6. ChainsIn(insert(d, e))
  <2> SUFFICES ASSUME NEW a \in Aggregate, NEW i \in DOMAIN L, L[i].agg = a
               PROVE  /\ \A j \in DOMAIN L : (L[j].agg = a /\ L[j].seq = L[i].seq) => j = i
                      /\ IF L[i].seq = 1 THEN L[i].prev = 0
                         ELSE \E j \in DOMAIN L : /\ L[j].agg = a
                                                 /\ L[j].seq = L[i].seq - 1
                                                 /\ L[j].id = L[i].prev
    BY DEF ChainsIn, verify_aggregate, L
  <2>1. CASE i = n
    <3>1. \A j \in DOMAIN L : (L[j].agg = a /\ L[j].seq = L[i].seq) => j = i
      BY <1>2, <1>3, <1>4, <2>1 DEF n
    <3>2. CASE \E h \in DOMAIN d.log : /\ IsHead(d.log, a, h)
                                       /\ head(d.log, a).seq = d.log[h].seq
                                       /\ head(d.log, a).id = d.log[h].id
      <4>1. PICK h \in DOMAIN d.log : /\ IsHead(d.log, a, h)
                                      /\ head(d.log, a).seq = d.log[h].seq
                                      /\ head(d.log, a).id = d.log[h].id
        BY <3>2
      <4>2. h \in DOMAIN L /\ L[h] = d.log[h] /\ L[h].agg = a /\ L[h].seq >= 1
        BY <1>1, <1>2, <4>1 DEF IsHead, HeadsIn, n
      <4>3. L[i] = e /\ e.agg = a
        BY <1>2, <2>1
      <4>4. L[h].seq = L[i].seq - 1 /\ L[h].id = L[i].prev /\ L[i].seq # 1
        BY <1>1, <1>4, <4>1, <4>2, <4>3
      <4> QED BY <3>1, <4>2, <4>4
    <3>3. CASE head(d.log, a).seq = 0 /\ head(d.log, a).id = 0
      BY <1>1, <1>2, <2>1, <3>1, <3>3
    <3> QED BY <1>1, <3>2, <3>3, HeadIs
  <2>2. CASE i # n
    <3>1. i \in DOMAIN d.log /\ L[i] = d.log[i] /\ d.log[i].agg = a
      BY <1>2, <2>2 DEF n
    <3>2. /\ \A j \in DOMAIN d.log : (d.log[j].agg = a /\ d.log[j].seq = d.log[i].seq) => j = i
          /\ IF d.log[i].seq = 1 THEN d.log[i].prev = 0
             ELSE \E j \in DOMAIN d.log : /\ d.log[j].agg = a
                                         /\ d.log[j].seq = d.log[i].seq - 1
                                         /\ d.log[j].id = d.log[i].prev
      BY <1>1, <3>1 DEF ChainsIn, verify_aggregate
    <3>3. \A j \in DOMAIN L : (L[j].agg = a /\ L[j].seq = L[i].seq) => j = i
      <4> SUFFICES ASSUME NEW j \in DOMAIN L, L[j].agg = a, L[j].seq = L[i].seq
                   PROVE  j = i
        OBVIOUS
      <4>1. j # n
        BY <1>2, <1>3, <1>4, <3>1
      <4> QED BY <1>2, <3>1, <3>2, <4>1 DEF n
    <3>4. DOMAIN d.log \subseteq DOMAIN L
      BY <1>2 DEF n
    <3> QED BY <1>2, <3>1, <3>2, <3>3, <3>4
  <2> QED BY <2>1, <2>2
<1> QED BY <1>5, <1>6

\* A legal event keeps the projected generation the greatest of the log, and
\* every fenced row between its generation and the next.
LEMMA InsertKeepsFences ==
    ASSUME NEW d \in DB, Good(d), NEW e, Legal(d, e)
    PROVE  LeasesIn(insert(d, e)) /\ FencesIn(insert(d, e))
<1> USE StoreAssumption
<1> DEFINE n == Len(d.log) + 1
           L == insert(d, e).log
           G == insert(d, e).proj.lease
<1>1. /\ e \in Event /\ LeasesIn(d) /\ FencesIn(d)
      /\ e.fence \in {None, d.proj.lease[OwnerOf(e.agg)]}
  BY DEF Legal, Good
<1>2. /\ Len(d.log) \in Nat /\ DOMAIN L = 1 .. n /\ DOMAIN d.log = 1 .. Len(d.log)
      /\ L[n] = e /\ \A i \in DOMAIN d.log : L[i] = d.log[i]
      /\ \A i \in DOMAIN L : L[i] \in Event
  BY <1>1, InsertedLog
<1>3. d.proj.lease \in [Session -> Nat]
  BY DEF DB, Proj
<1>4. \A i \in DOMAIN L : OwnerOf(L[i].agg) \in Session /\ L[i].arg \in Nat
                         /\ L[i].fence \in Nat \cup {None}
  BY <1>2 DEF Event, OwnerOf, Aggregate
<1>5. e.kind = "SessionLeaseAcquired" => e.agg \in Session /\ e.arg > d.proj.lease[e.agg]
  <2>1. e.kind = "SessionLeaseAcquired" => e.agg \in Session
    BY DEF Legal, KindsOf
  <2> QED BY <2>1 DEF Legal, apply_ok
<1>6. \A s \in Session : G[s] = IF IsLease(e, s) THEN e.arg ELSE d.proj.lease[s]
  BY <1>3, <1>5 DEF insert, apply, IsLease
<1> HIDE DEF n, L, G
<1>7. LeasesIn(insert(d, e))
  <2> SUFFICES ASSUME NEW s \in Session
               PROVE  /\ \A j \in DOMAIN L : IsLease(L[j], s) => L[j].arg <= G[s]
                      /\ G[s] # 0 => \E j \in DOMAIN L : IsLease(L[j], s) /\ L[j].arg = G[s]
    BY DEF LeasesIn, L, G
  <2>1. /\ \A j \in DOMAIN d.log : IsLease(d.log[j], s) => d.log[j].arg <= d.proj.lease[s]
        /\ d.proj.lease[s] # 0 =>
              \E j \in DOMAIN d.log : IsLease(d.log[j], s) /\ d.log[j].arg = d.proj.lease[s]
        /\ d.proj.lease[s] \in Nat
    BY <1>1, <1>3 DEF LeasesIn
  <2>2. DOMAIN d.log \subseteq DOMAIN L /\ n \in DOMAIN L
        /\ \A j \in DOMAIN L : j = n \/ j \in DOMAIN d.log
    BY <1>2 DEF n
  <2>3. CASE IsLease(e, s)
    <3>1. G[s] = e.arg /\ e.arg > d.proj.lease[s] /\ e.arg \in Nat
      BY <1>1, <1>5, <1>6, <2>3 DEF IsLease, Event
    <3>2. \A j \in DOMAIN L : IsLease(L[j], s) => L[j].arg <= G[s]
      BY <1>2, <1>4, <2>1, <2>2, <3>1
    <3> QED BY <1>2, <2>2, <2>3, <3>1, <3>2
  <2>4. CASE ~IsLease(e, s)
    <3>1. G[s] = d.proj.lease[s]
      BY <1>6, <2>4
    <3> QED BY <1>2, <2>1, <2>2, <2>4, <3>1
  <2> QED BY <2>3, <2>4
<1>8. FencesIn(insert(d, e))
  <2> SUFFICES ASSUME NEW i \in DOMAIN L, L[i].fence # None
               PROVE  FencedAt(L, i)
    BY DEF FencesIn, L
  <2> DEFINE s == OwnerOf(L[i].agg)
  <2>1. /\ s \in Session /\ L[i].fence \in Nat
        /\ \A j \in DOMAIN d.log : IsLease(d.log[j], s) => d.log[j].arg <= d.proj.lease[s]
        /\ d.proj.lease[s] # 0 =>
              \E j \in DOMAIN d.log : IsLease(d.log[j], s) /\ d.log[j].arg = d.proj.lease[s]
        /\ d.proj.lease[s] \in Nat
    BY <1>1, <1>3, <1>4 DEF LeasesIn
  <2>2. IsLease(e, s) => e.arg > d.proj.lease[s]
    BY <1>5 DEF IsLease
  <2>3. CASE i = n
    <3>1. L[i].fence = d.proj.lease[s]
      BY <1>1, <1>2, <2>3
    <3>2. \A j \in DOMAIN L : IsLease(L[j], s) =>
              IF j < i THEN L[j].arg <= L[i].fence ELSE L[j].arg > L[i].fence
      BY <1>2, <2>1, <2>2, <2>3, <3>1 DEF n
    <3>3. L[i].fence # 0 => \E j \in 1 .. i - 1 : IsLease(L[j], s) /\ L[j].arg = L[i].fence
      BY <1>2, <2>1, <2>3, <3>1 DEF n
    <3> QED BY <3>2, <3>3 DEF FencedAt
  <2>4. CASE i # n
    <3>1. i \in DOMAIN d.log /\ L[i] = d.log[i]
      BY <1>2, <2>4 DEF n
    <3>2. FencedAt(d.log, i)
      BY <1>1, <3>1 DEF FencesIn
    <3>3. L[i].fence # 0 =>
            \E j \in 1 .. i - 1 : IsLease(d.log[j], s) /\ d.log[j].arg = L[i].fence
      BY <3>1, <3>2 DEF FencedAt
    <3>4. L[i].fence <= d.proj.lease[s]
      BY <1>2, <2>1, <3>1, <3>3
    <3>5. ASSUME NEW j \in DOMAIN L, IsLease(L[j], s)
          PROVE  IF j < i THEN L[j].arg <= L[i].fence ELSE L[j].arg > L[i].fence
      <4>1. CASE j = n
        BY <1>2, <1>4, <2>1, <2>2, <3>1, <3>4, <3>5, <4>1 DEF n
      <4>2. CASE j # n
        <5>1. j \in DOMAIN d.log /\ L[j] = d.log[j]
          BY <1>2, <4>2 DEF n
        <5> QED BY <3>1, <3>2, <3>5, <5>1 DEF FencedAt
      <4> QED BY <4>1, <4>2
    <3>6. L[i].fence # 0 => \E j \in 1 .. i - 1 : IsLease(L[j], s) /\ L[j].arg = L[i].fence
      BY <1>2, <3>1, <3>3
    <3> QED BY <3>5, <3>6 DEF FencedAt
  <2> QED BY <2>3, <2>4
<1> QED BY <1>7, <1>8

\* A receipt of this Core links to the tail it finds; an imported one may link
\* anywhere, and the receipts before it are not disturbed.
LEMMA InsertKeepsReceipts ==
    ASSUME NEW d \in DB, Good(d), NEW e, Legal(d, e)
    PROVE  ReceiptsIn(insert(d, e))
<1> DEFINE R == d.proj.receipts
           S == insert(d, e).proj.receipts
           x == insert_receipt(e)
<1>1. R \in Seq(Receipt) /\ ReceiptsIn(d)
  BY DEF DB, Proj, Good
<1>2. S = IF e.kind = "EffectReceiptAppended" THEN Append(R, x) ELSE R
  BY DEF insert, apply
<1>3. CASE e.kind # "EffectReceiptAppended"
  BY <1>1, <1>2, <1>3 DEF ReceiptsIn
<1>4. CASE e.kind = "EffectReceiptAppended"
  <2>0. x.link = e.arg /\ (~x.peer => e.cmd # Peer)
    BY DEF insert_receipt
  <2>1. ~x.peer => x.link = IF R = << >> THEN 0 ELSE R[Len(R)].id
    BY <1>4, <2>0 DEF Legal, last_receipt_hash
  <2>2. S = Append(R, x)
    BY <1>2, <1>4
  <2> HIDE DEF R, S, x
  <2> SUFFICES ASSUME NEW i \in DOMAIN S, ~S[i].peer
               PROVE  S[i].link = IF i = 1 THEN 0 ELSE S[i - 1].id
    BY DEF ReceiptsIn, LinksTail, S
  <2>3. Len(R) \in Nat /\ DOMAIN R = 1 .. Len(R) /\ DOMAIN S = 1 .. Len(R) + 1
        /\ S[Len(R) + 1] = x /\ \A j \in DOMAIN R : S[j] = R[j]
    BY <1>1, <2>2
  <2>4. CASE i = Len(R) + 1
    <3>1. S[i].link = IF R = << >> THEN 0 ELSE R[Len(R)].id
      BY <2>1, <2>3, <2>4
    <3>2. CASE R = << >>
      <4>1. Len(R) = 0
        BY <3>2
      <4> QED BY <2>4, <3>1, <3>2, <4>1
    <3>3. CASE R # << >>
      <4>1. Len(R) \in DOMAIN R
        BY <1>1, <2>3, <3>3
      <4> QED BY <2>3, <2>4, <3>1, <3>3, <4>1
    <3> QED BY <3>2, <3>3
  <2>5. CASE i # Len(R) + 1
    <3>1. i \in DOMAIN R /\ (i # 1 => i - 1 \in DOMAIN R)
      BY <2>3, <2>5
    <3>2. R[i].link = IF i = 1 THEN 0 ELSE R[i - 1].id
      BY <1>1, <2>3, <3>1 DEF ReceiptsIn, LinksTail, R
    <3> QED BY <2>3, <3>1, <3>2
  <2> QED BY <2>4, <2>5
<1> QED BY <1>3, <1>4

\* What an insertion leaves to say about the database: its type, and all of
\* Good but the command ledger.
LEMMA InsertKeeps ==
    ASSUME NEW d \in DB, Good(d), NEW e, Legal(d, e)
    PROVE  LET x == insert(d, e) IN
           /\ x \in DB /\ x.commands = d.commands
           /\ x.proj.cursor = Len(x.log)
           /\ HeadsIn(x) /\ ChainsIn(x) /\ LeasesIn(x) /\ FencesIn(x) /\ ReceiptsIn(x)
           /\ \A c : RowsOf(x.log, c) =
                       RowsOf(d.log, c) \cup (IF e.cmd = c THEN {Len(d.log) + 1} ELSE {})
<1> USE StoreAssumption
<1> DEFINE x == insert(d, e)
<1>1. e \in Event /\ (e.kind \in {"SessionLeaseAcquired", "SessionCreated"} => e.agg \in Session)
  BY DEF Legal, KindsOf
<1>2. x \in DB
  BY <1>1, InsertType
<1>3. x.commands = d.commands /\ x.proj.cursor = Len(d.log) + 1
  BY DEF insert, apply
<1>4. Len(x.log) = Len(d.log) + 1
  BY <1>1, InsertedLog
<1>5. ASSUME NEW c
      PROVE  RowsOf(x.log, c) = RowsOf(d.log, c) \cup (IF e.cmd = c THEN {Len(d.log) + 1} ELSE {})
  <2> HIDE DEF x
  <2>1. /\ Len(d.log) \in Nat /\ DOMAIN d.log = 1 .. Len(d.log)
        /\ DOMAIN x.log = 1 .. Len(d.log) + 1 /\ x.log[Len(d.log) + 1] = e
        /\ \A i \in DOMAIN d.log : x.log[i] = d.log[i]
    BY <1>1, InsertedLog DEF x
  <2> QED BY <2>1 DEF RowsOf
<1> HIDE DEF x
<1>6. HeadsIn(x) /\ ChainsIn(x) /\ LeasesIn(x) /\ FencesIn(x) /\ ReceiptsIn(x)
  BY InsertKeepsChains, InsertKeepsFences, InsertKeepsReceipts DEF x
<1>7. x.proj.cursor = Len(x.log)
  BY <1>3, <1>4
<1> QED BY <1>2, <1>3, <1>5, <1>6, <1>7 DEF x

-----------------------------------------------------------------------------
(* Every transaction keeps the database good.                              *)

\* An append, or an imported envelope.
LEMMA InsertedGood ==
    ASSUME NEW d \in DB, Good(d), NEW d2, Inserted(d, d2)
    PROVE  d2 \in DB /\ Good(d2)
<1> USE StoreAssumption
<1>1. PICK e : Legal(d, e) /\ e.cmd \notin Command /\ d2 = insert(d, e)
  BY DEF Inserted
<1>2. /\ d2 \in DB /\ d2.commands = d.commands /\ d2.proj.cursor = Len(d2.log)
      /\ HeadsIn(d2) /\ ChainsIn(d2) /\ LeasesIn(d2) /\ FencesIn(d2) /\ ReceiptsIn(d2)
      /\ \A c : RowsOf(d2.log, c) =
                  RowsOf(d.log, c) \cup (IF e.cmd = c THEN {Len(d.log) + 1} ELSE {})
  BY <1>1, InsertKeeps
<1>3. \A c \in Command : RowsOf(d2.log, c) = RowsOf(d.log, c)
  BY <1>1, <1>2
<1>4. CommandsIn(d2)
  BY <1>2, <1>3 DEF Good, CommandsIn
<1> QED BY <1>2, <1>4 DEF Good

\* A command's append and its ledger row.
LEMMA CommandedGood ==
    ASSUME NEW d \in DB, Good(d), NEW d2, Commanded(d, d2)
    PROVE  d2 \in DB /\ Good(d2)
<1> USE StoreAssumption
<1>1. PICK e, c, h : /\ c \in Command /\ h \in Hash
                     /\ Legal(d, e) /\ e.cmd = c /\ d.commands[c] = NoRow
                     /\ d2 = record_command(insert(d, e), c,
                              [hash |-> h, first |-> Len(d.log) + 1, last |-> Len(d.log) + 1])
  BY DEF Commanded
<1> DEFINE x == insert(d, e)
           n == Len(d.log) + 1
           row == [hash |-> h, first |-> n, last |-> n]
<1>2. /\ x \in DB /\ x.commands = d.commands /\ x.proj.cursor = Len(x.log)
      /\ HeadsIn(x) /\ ChainsIn(x) /\ LeasesIn(x) /\ FencesIn(x) /\ ReceiptsIn(x)
      /\ \A k : RowsOf(x.log, k) = RowsOf(d.log, k) \cup (IF e.cmd = k THEN {n} ELSE {})
  BY <1>1, InsertKeeps
<1>3. Len(d.log) \in Nat
  BY DEF DB
<1>4. row \in Row /\ row # NoRow
  BY <1>1, <1>3 DEF Row, NoRow
<1> HIDE DEF x, row
<1>5. d2.log = x.log /\ d2.proj = x.proj /\ d2.boot = x.boot
      /\ d2.commands = [x.commands EXCEPT ![c] = row] /\ d2 \in DB
  BY <1>1, <1>2, <1>4 DEF record_command, DB, x, row
<1>6. CommandsIn(d2)
  <2> SUFFICES ASSUME NEW k \in Command
               PROVE  RowsOf(d2.log, k) = IF d2.commands[k] = NoRow THEN {}
                                          ELSE d2.commands[k].first .. d2.commands[k].last
    BY DEF CommandsIn
  <2>1. RowsOf(d.log, k) = IF d.commands[k] = NoRow THEN {}
                           ELSE d.commands[k].first .. d.commands[k].last
    BY DEF Good, CommandsIn
  <2>2. x.commands \in [Command -> Row \cup {NoRow}]
    BY <1>2 DEF DB
  <2>3. CASE k = c
    <3>1. d2.commands[k] = row
      BY <1>5, <2>2, <2>3
    <3>2. RowsOf(d2.log, k) = {n}
      BY <1>1, <1>2, <1>5, <2>1, <2>3
    <3>3. row.first .. row.last = {n}
      BY <1>3 DEF row
    <3> QED BY <1>4, <3>1, <3>2, <3>3
  <2>4. CASE k # c
    <3>1. d2.commands[k] = d.commands[k]
      BY <1>2, <1>5, <2>2, <2>4
    <3>2. RowsOf(d2.log, k) = RowsOf(d.log, k)
      <4>1. RowsOf(x.log, k) = RowsOf(d.log, k) \cup (IF e.cmd = k THEN {n} ELSE {})
        BY <1>2
      <4>2. e.cmd # k
        BY <1>1, <2>4
      <4> HIDE DEF n
      <4>3. RowsOf(x.log, k) = RowsOf(d.log, k)
        BY <4>1, <4>2
      <4> QED BY <1>5, <4>3
    <3> QED BY <2>1, <3>1, <3>2
  <2> QED BY <2>3, <2>4
<1>7. d2.proj.cursor = Len(d2.log)
  BY <1>2, <1>5
<1>8. HeadsIn(d2) /\ ChainsIn(d2) /\ LeasesIn(d2) /\ FencesIn(d2) /\ ReceiptsIn(d2)
  BY <1>2, <1>5 DEF HeadsIn, ChainsIn, LeasesIn, FencesIn, ReceiptsIn
<1> QED BY <1>5, <1>6, <1>7, <1>8 DEF Good

\* A start that finds the projections at the end of the log.
LEMMA BootedGood ==
    ASSUME NEW d \in DB, Good(d)
    PROVE  Booted(d) \in DB /\ Good(Booted(d))
<1>1. /\ Booted(d).log = d.log /\ Booted(d).proj = d.proj /\ Booted(d).commands = d.commands
      /\ Booted(d) \in DB
  BY DEF Booted, DB
<1> QED BY <1>1 DEF Good, HeadsIn, ChainsIn, LeasesIn, FencesIn, ReceiptsIn, CommandsIn

\* Whatever one transaction makes of a good database is a good one.
LEMMA WrittenGood ==
    ASSUME NEW d \in DB, Good(d), NEW d2, Written(d, d2)
    PROVE  d2 \in DB /\ Good(d2)
<1>1. CASE Inserted(d, d2)
  BY <1>1, InsertedGood
<1>2. CASE \E d1 : Inserted(d, d1) /\ Inserted(d1, d2)
  <2>1. PICK d1 : Inserted(d, d1) /\ Inserted(d1, d2)
    BY <1>2
  <2>2. d1 \in DB /\ Good(d1)
    BY <2>1, InsertedGood
  <2> QED BY <2>1, <2>2, InsertedGood
<1>3. CASE Commanded(d, d2)
  BY <1>3, CommandedGood
<1>4. CASE d2 = Booted(d)
  BY <1>4, BootedGood
<1> QED BY <1>1, <1>2, <1>3, <1>4 DEF Written

\* The variables outside the database keep their types.
LEMMA StepTypes ==
    ASSUME StoreInv, Next
    PROVE  /\ up' \in BOOLEAN /\ stuck' \in BOOLEAN /\ nextId' \in Nat \ {0}
           /\ acked' \subseteq Nat /\ replies' \subseteq Command \X SUBSET Nat
<1> USE StoreAssumption
<1>0. /\ up \in BOOLEAN /\ stuck \in BOOLEAN /\ nextId \in Nat \ {0}
      /\ acked \subseteq Nat /\ replies \subseteq Command \X SUBSET Nat
      /\ db \in DB /\ Good(db)
  BY DEF StoreInv, TypeOK
<1>1. ASSUME NEW r \in AppendRequests, NEW g \in Fence, append_full(r, g) \/ append_relaxed(r, g)
      PROVE  /\ up' \in BOOLEAN /\ stuck' \in BOOLEAN /\ nextId' \in Nat \ {0}
             /\ acked' \subseteq Nat /\ replies' \subseteq Command \X SUBSET Nat
  <2>1. up' = up /\ replies' = replies /\ stuck' \in {stuck, FALSE, CanStick}
    BY <1>1 DEF append_full, append_relaxed
  <2>2. nextId' \in {nextId, nextId + 1} /\ acked' \subseteq acked \cup {nextId}
    BY <1>1 DEF append_full, append_relaxed, acknowledge
  <2>3. nextId' \in Nat \ {0} /\ acked' \subseteq Nat
    BY <1>0, <2>2
  <2> QED BY <1>0, <2>1, <2>3
<1>2. ASSUME NEW reqs, NEW g, NEW sealed, append_all(reqs, g, sealed)
      PROVE  /\ up' \in BOOLEAN /\ stuck' \in BOOLEAN /\ nextId' \in Nat \ {0}
             /\ acked' \subseteq Nat /\ replies' \subseteq Command \X SUBSET Nat
  BY <1>0, <1>2 DEF append_all, acknowledge
<1>3. ASSUME NEW c \in Command, NEW h \in Hash, NEW r \in CommandRequests,
             command_applied(c, h, <<r>>)
      PROVE  /\ up' \in BOOLEAN /\ stuck' \in BOOLEAN /\ nextId' \in Nat \ {0}
             /\ acked' \subseteq Nat /\ replies' \subseteq Command \X SUBSET Nat
  <2> DEFINE new == nextId .. nextId
  <2>1. new \subseteq Nat
    BY <1>0
  <2>2. /\ nextId' = nextId + 1 /\ acked' = acked \cup new /\ up' = up /\ stuck' = stuck
        /\ replies' = replies \cup {<<c, new>>}
    BY <1>0, <1>3 DEF command_applied, acknowledge
  <2> HIDE DEF new
  <2>3. <<c, new>> \in Command \X SUBSET Nat
    BY <2>1
  <2>4. replies' \subseteq Command \X SUBSET Nat /\ acked' \subseteq Nat
    BY <1>0, <2>1, <2>2, <2>3
  <2>5. nextId' \in Nat \ {0}
    BY <1>0, <2>2
  <2> QED BY <1>0, <2>2, <2>4, <2>5
<1>4. ASSUME NEW c \in Command, NEW h \in Hash, command_replayed(c, h)
      PROVE  /\ up' \in BOOLEAN /\ stuck' \in BOOLEAN /\ nextId' \in Nat \ {0}
             /\ acked' \subseteq Nat /\ replies' \subseteq Command \X SUBSET Nat
  <2>1. db.commands[c].first .. db.commands[c].last \subseteq DOMAIN db.log
    BY <1>0, <1>4 DEF command_replayed, Good, CommandsIn, RowsOf
  <2>2. db.log \in Seq(Event)
    BY <1>0 DEF DB
  <2>5. \A i \in DOMAIN db.log : db.log[i] \in Event
    BY <2>2
  <2>3. \A i \in DOMAIN db.log : db.log[i].id \in Nat
    BY <2>5 DEF Event
  <2>4. prior_outcome(db, c) \subseteq Nat
    BY <2>1, <2>3 DEF prior_outcome, ids
  <2> QED BY <1>0, <1>4, <2>4 DEF command_replayed
<1>5. ASSUME NEW e, import_envelopes(e)
      PROVE  /\ up' \in BOOLEAN /\ stuck' \in BOOLEAN /\ nextId' \in Nat \ {0}
             /\ acked' \subseteq Nat /\ replies' \subseteq Command \X SUBSET Nat
  BY <1>0, <1>5 DEF import_envelopes, acknowledge
<1>6. CASE kill
  BY <1>0, <1>6 DEF kill
<1>7. CASE power_loss
  BY <1>0, <1>7 DEF power_loss
<1>8. CASE recover_on_start
  BY <1>0, <1>8 DEF recover_on_start
<1> QED BY <1>1, <1>2, <1>3, <1>4, <1>5, <1>6, <1>7, <1>8
        DEF Next, append_with, append_all_inner, execute_command_all, import_mirrored

\* The empty store satisfies the invariant.
LEMMA InitInv == Init => StoreInv
<1> USE StoreAssumption
<1> SUFFICES ASSUME Init PROVE StoreInv
  OBVIOUS
<1>1. EmptyProj \in Proj /\ EmptyDB \in DB
  <2>1. EmptyProj \in Proj
    BY DEF EmptyProj, Proj
  <2> QED BY <2>1 DEF EmptyDB, DB
<1>2. TypeOK
  <2>1. up \in BOOLEAN /\ stuck \in BOOLEAN
    BY DEF Init
  <2>2. db \in DB /\ survivable \subseteq DB /\ db \in survivable
    BY <1>1 DEF Init
  <2>3. nextId \in Nat \ {0} /\ acked \subseteq Nat
    BY DEF Init
  <2>4. replies \subseteq Command \X SUBSET Nat
    BY DEF Init
  <2> QED BY <2>1, <2>2, <2>3, <2>4 DEF TypeOK
<1>3. /\ EmptyDB.log = << >> /\ EmptyDB.proj = EmptyProj
      /\ EmptyDB.commands = [c \in Command |-> NoRow]
      /\ EmptyProj.cursor = 0 /\ EmptyProj.receipts = << >>
      /\ EmptyProj.lease = [s \in Session |-> 0]
  BY DEF EmptyDB, EmptyProj
<1>4. Good(EmptyDB)
  BY <1>3 DEF Good, HeadsIn, ChainsIn, LeasesIn, FencesIn, ReceiptsIn, CommandsIn, RowsOf,
              verify_aggregate
<1> QED BY <1>2, <1>4 DEF Init, StoreInv

\* Every step of the store keeps the invariant.
LEMMA NextInv == StoreInv /\ [Next]_vars => StoreInv'
<1> SUFFICES ASSUME StoreInv, [Next]_vars PROVE StoreInv'
  OBVIOUS
<1>1. CASE Next
  <2>1. /\ db' \in survivable \/ Written(db, db')
        /\ survivable' \subseteq survivable \cup {db'} /\ db' \in survivable'
    BY <1>1, StepShape
  <2>2. db \in DB /\ Good(db) /\ survivable \subseteq DB /\ \A d \in survivable : Good(d)
    BY DEF StoreInv, TypeOK
  <2>3. db' \in DB /\ Good(db')
    BY <2>1, <2>2, WrittenGood
  <2>4. TypeOK'
    BY <1>1, <2>1, <2>2, <2>3, StepTypes DEF TypeOK
  <2>5. \A d \in survivable' : Good(d)
    BY <2>1, <2>2, <2>3
  <2> QED BY <2>4, <2>5 DEF StoreInv
<1>2. CASE UNCHANGED vars
  BY <1>2 DEF vars, StoreInv, TypeOK
<1> QED BY <1>1, <1>2

\* StoreInv is an invariant of the store.
THEOREM Invariance == Spec => []StoreInv
BY InitInv, NextInv, PTL DEF Spec

\* Type correctness: the store's state is well formed after any history.
THEOREM Typing == Spec => []TypeOK
<1>1. StoreInv => TypeOK
  BY DEF StoreInv
<1> QED BY <1>1, Invariance, PTL

\* append_in, import_envelopes, recover_on_start: whatever was written, and
\* whatever a power loss took, every chain verifies and a restart is accepted.
THEOREM Chains == Spec => []ChainsVerify
<1>1. StoreInv => ChainsVerify
  BY DEF StoreInv, TypeOK, Good, ChainsIn, ChainsVerify
<1> QED BY <1>1, Invariance, PTL

\* append_fenced, append_all_chained: an event appended under a generation lies
\* between that generation's acquisition and the next one, in every history.
THEOREM Fencing == Spec => []FencedWritesInForce
<1>1. StoreInv => FencedWritesInForce
  BY DEF StoreInv, TypeOK, Good, FencesIn, FencedWritesInForce
<1> QED BY <1>1, Invariance, PTL

\* append_in's tail check and seal, with import_envelopes beside them: whatever
\* a peer's envelopes put into the ledger, a receipt this Core appends links to
\* the receipt before it, so every break of the chain is at an imported receipt.
THEOREM ReceiptChain == Spec => []OwnReceiptsLink
<1>1. StoreInv => OwnReceiptsLink
  BY DEF StoreInv, TypeOK, Good, ReceiptsIn, OwnReceiptsLink
<1> QED BY <1>1, Invariance, PTL

\* execute_command_all: a command's events are the range its ledger row names.
THEOREM CommandsOnce == Spec => []CommandsAppliedOnce
<1>1. StoreInv => CommandsAppliedOnce
  BY DEF StoreInv, TypeOK, Good, CommandsIn, RowsOf, CommandsAppliedOnce
<1> QED BY <1>1, Invariance, PTL

-----------------------------------------------------------------------------
(* Rebuilding the projections: what `replay` of rebuild computes.  That a  *)
(* recursive function exists and is unique is proved here by a least       *)
(* counterexample, for it ranges over the positions of the log.            *)

IsReplay(f, log, n) ==
    f = [i \in 0 .. n |-> IF i = 0 THEN EmptyProj ELSE apply(f[i - 1], log[i], i)]

\* A replay, position by position.
LEMMA ReplayAt ==
    ASSUME NEW log, NEW n \in Nat, NEW f, IsReplay(f, log, n)
    PROVE  f[0] = EmptyProj /\ \A i \in 1 .. n : f[i] = apply(f[i - 1], log[i], i)
<1>1. \A i \in 0 .. n : f[i] = IF i = 0 THEN EmptyProj ELSE apply(f[i - 1], log[i], i)
  <2> DEFINE V(i) == IF i = 0 THEN EmptyProj ELSE apply(f[i - 1], log[i], i)
  <2>1. f = [i \in 0 .. n |-> V(i)]
    BY Zenon DEF IsReplay
  <2> HIDE DEF V
  <2>2. \A i \in 0 .. n : f[i] = V(i)
    BY <2>1
  <2> QED BY <2>2 DEF V
<1>2. 0 \in 0 .. n /\ \A i \in 1 .. n : i \in 0 .. n /\ i # 0
  OBVIOUS
<1> QED BY <1>1, <1>2

\* Every log can be replayed.
LEMMA ReplayExists ==
    ASSUME NEW log, NEW n \in Nat
    PROVE  \E f : IsReplay(f, log, n)
<1> DEFINE Bad == {k \in Nat : ~\E f : IsReplay(f, log, k)}
<1> SUFFICES Bad = {}
  OBVIOUS
<1> SUFFICES ASSUME Bad # {} PROVE FALSE
  OBVIOUS
<1>1. PICK k \in Bad : \A j \in Bad : k <= j
  <2>1. Bad \subseteq Nat
    OBVIOUS
  <2> HIDE DEF Bad
  <2> QED BY <2>1, LeastNat
<1>2. k # 0
  <2> SUFFICES ASSUME k = 0 PROVE FALSE
    OBVIOUS
  <2> DEFINE f == [i \in 0 .. 0 |-> EmptyProj]
  <2>1. f = [i \in 0 .. 0 |-> IF i = 0 THEN EmptyProj ELSE apply(f[i - 1], log[i], i)]
    <3>1. \A i \in 0 .. 0 : i = 0
      OBVIOUS
    <3> QED BY <3>1
  <2>2. IsReplay(f, log, 0)
    BY <2>1, Zenon DEF IsReplay
  <2> QED BY <2>2
<1>3. k - 1 \in Nat /\ ~(k <= k - 1)
  BY <1>2
<1>4. PICK f : IsReplay(f, log, k - 1)
  BY <1>1, <1>3
<1>5. f[0] = EmptyProj /\ \A i \in 1 .. (k - 1) : f[i] = apply(f[i - 1], log[i], i)
  BY <1>3, <1>4, ReplayAt
<1> DEFINE V(i) == IF i = 0 THEN EmptyProj ELSE apply(f[i - 1], log[i], i)
           g == [i \in 0 .. k |-> V(i)]
<1>6. \A i \in 0 .. k : i # 0 => g[i - 1] = f[i - 1]
  <2> SUFFICES ASSUME NEW i \in 0 .. k, i # 0 PROVE g[i - 1] = f[i - 1]
    OBVIOUS
  <2>1. i - 1 \in 0 .. k /\ (i - 1 = 0 \/ i - 1 \in 1 .. (k - 1))
    BY <1>1
  <2> HIDE DEF V
  <2>2. g[i - 1] = V(i - 1)
    BY <2>1
  <2>3. V(i - 1) = f[i - 1]
    BY <1>5, <2>1 DEF V
  <2> QED BY <2>2, <2>3
<1>7. g = [i \in 0 .. k |-> IF i = 0 THEN EmptyProj ELSE apply(g[i - 1], log[i], i)]
  <2> HIDE DEF g
  <2>1. \A i \in 0 .. k : V(i) = IF i = 0 THEN EmptyProj ELSE apply(g[i - 1], log[i], i)
    BY <1>6
  <2> HIDE DEF V
  <2> QED BY <2>1 DEF g
<1>8. IsReplay(g, log, k)
  <2> HIDE DEF g
  <2> QED BY <1>7, Zenon DEF IsReplay
<1> QED BY <1>8

\* Replays of two logs agree as far as the logs do.
LEMMA ReplaysAgree ==
    ASSUME NEW log, NEW n \in Nat, NEW f, IsReplay(f, log, n),
           NEW log2, NEW m \in Nat, NEW g, IsReplay(g, log2, m),
           n <= m, \A i \in 1 .. n : log2[i] = log[i]
    PROVE  \A i \in 0 .. n : g[i] = f[i]
<1> DEFINE Bad == {i \in 0 .. n : g[i] # f[i]}
<1> SUFFICES ASSUME Bad # {} PROVE FALSE
  OBVIOUS
<1>1. PICK i \in Bad : \A j \in Bad : i <= j
  <2>1. Bad \subseteq Nat
    OBVIOUS
  <2> HIDE DEF Bad
  <2> QED BY <2>1, LeastNat
<1>2. /\ f[0] = EmptyProj /\ \A j \in 1 .. n : f[j] = apply(f[j - 1], log[j], j)
      /\ g[0] = EmptyProj /\ \A j \in 1 .. m : g[j] = apply(g[j - 1], log2[j], j)
  BY ReplayAt
<1>3. i # 0 /\ i \in 1 .. n /\ i \in 1 .. m /\ i - 1 \in 0 .. n /\ ~(i <= i - 1)
  BY <1>2
<1>4. g[i - 1] = f[i - 1]
  BY <1>1, <1>3
<1>5. g[i] = f[i]
  BY <1>2, <1>3, <1>4
<1> QED BY <1>5

\* rebuild is the last value of any replay.
LEMMA RebuildIs ==
    ASSUME NEW log, Len(log) \in Nat
    PROVE  \E f : IsReplay(f, log, Len(log)) /\ rebuild(log) = f[Len(log)]
<1> DEFINE c == CHOOSE f : IsReplay(f, log, Len(log))
<1>1. IsReplay(c, log, Len(log))
  BY ReplayExists
<1>2. rebuild(log) = c[Len(log)]
  BY Zenon DEF rebuild, IsReplay
<1> QED BY <1>1, <1>2

\* rebuild of the empty log, and of a log with one more row.
LEMMA RebuildEmpty == rebuild(<< >>) = EmptyProj
<1> DEFINE z == << >>
<1>1. Len(z) = 0
  OBVIOUS
<1> HIDE DEF z
<1>2. PICK f : IsReplay(f, z, Len(z)) /\ rebuild(z) = f[Len(z)]
  BY <1>1, RebuildIs
<1>3. f[0] = EmptyProj
  BY <1>1, <1>2, ReplayAt
<1> QED BY <1>1, <1>2, <1>3 DEF z

\* Inserting an event moves the projections as the rebuild would.
LEMMA RebuildInsert ==
    ASSUME NEW d \in DB, NEW e \in Event, d.proj = rebuild(d.log)
    PROVE  insert(d, e).proj = rebuild(insert(d, e).log)
<1> DEFINE L == insert(d, e).log
           n == Len(d.log)
<1>1. /\ n \in Nat /\ DOMAIN d.log = 1 .. n /\ Len(L) = n + 1
      /\ L[n + 1] = e /\ \A i \in DOMAIN d.log : L[i] = d.log[i]
  BY InsertedLog
<1>2. insert(d, e).proj = apply(d.proj, e, n + 1)
  BY DEF insert
<1> HIDE DEF L, n
<1>3. PICK f : IsReplay(f, d.log, n) /\ rebuild(d.log) = f[n]
  BY <1>1, RebuildIs DEF n
<1>4. PICK g : IsReplay(g, L, n + 1) /\ rebuild(L) = g[n + 1]
  BY <1>1, RebuildIs
<1>5. \A i \in 0 .. n : g[i] = f[i]
  <2>1. n + 1 \in Nat /\ n <= n + 1 /\ \A i \in 1 .. n : L[i] = d.log[i]
    BY <1>1
  <2> QED BY <1>1, <1>3, <1>4, <2>1, ReplaysAgree
<1>6. g[n + 1] = apply(g[(n + 1) - 1], L[n + 1], n + 1)
  <2>1. n + 1 \in Nat /\ n + 1 \in 1 .. n + 1
    BY <1>1
  <2>2. \A i \in 1 .. (n + 1) : g[i] = apply(g[i - 1], L[i], i)
    BY <1>4, <2>1, ReplayAt
  <2> QED BY <2>1, <2>2
<1>7. (n + 1) - 1 = n /\ n \in 0 .. n
  BY <1>1
<1>8. rebuild(L) = apply(f[n], e, n + 1)
  BY <1>1, <1>4, <1>5, <1>6, <1>7
<1> QED BY <1>2, <1>3, <1>8 DEF L

\* A database whose projections are the fold of its log.
FoldIn(d) == d.proj = rebuild(d.log)

\* Every transaction keeps them so.
LEMMA WrittenFold ==
    ASSUME NEW d \in DB, Good(d), FoldIn(d), NEW d2, Written(d, d2)
    PROVE  FoldIn(d2)
<1>1. ASSUME NEW x \in DB, FoldIn(x), NEW y, Inserted(x, y)
      PROVE  FoldIn(y)
  <2>1. PICK e : Legal(x, e) /\ y = insert(x, e)
    BY <1>1 DEF Inserted
  <2>2. e \in Event
    BY <2>1 DEF Legal
  <2> QED BY <1>1, <2>1, <2>2, RebuildInsert DEF FoldIn
<1>2. CASE Inserted(d, d2)
  BY <1>1, <1>2
<1>3. CASE \E d1 : Inserted(d, d1) /\ Inserted(d1, d2)
  <2>1. PICK d1 : Inserted(d, d1) /\ Inserted(d1, d2)
    BY <1>3
  <2>2. d1 \in DB
    BY <2>1, InsertedGood
  <2> QED BY <1>1, <2>1, <2>2
<1>4. CASE Commanded(d, d2)
  <2>1. PICK e, c, row : Legal(d, e) /\ d2 = record_command(insert(d, e), c, row)
    BY <1>4 DEF Commanded
  <2>2. d2.log = insert(d, e).log /\ d2.proj = insert(d, e).proj /\ e \in Event
    BY <2>1 DEF record_command, insert, Legal
  <2> QED BY <2>2, RebuildInsert DEF FoldIn
<1>5. CASE d2 = Booted(d)
  <2>1. d2.log = d.log /\ d2.proj = d.proj
    BY <1>5 DEF Booted
  <2> QED BY <2>1 DEF FoldIn
<1> QED BY <1>2, <1>3, <1>4, <1>5 DEF Written

FoldInv == StoreInv /\ \A d \in survivable : FoldIn(d)

\* insert, rebuild, recover_on_start: after any history, crashes included, the
\* projection rows are the ones a rebuild from the log would write.
THEOREM ProjectionsFold == Spec => []ProjectionsAreTheFold
<1>1. Init => FoldInv
  <2> SUFFICES ASSUME Init PROVE FoldInv
    OBVIOUS
  <2>1. StoreInv /\ survivable = {EmptyDB}
    BY InitInv DEF Init
  <2>2. EmptyDB.proj = EmptyProj /\ EmptyDB.log = << >>
    BY DEF EmptyDB
  <2> QED BY <2>1, <2>2, RebuildEmpty DEF FoldInv, FoldIn
<1>2. FoldInv /\ [Next]_vars => FoldInv'
  <2> SUFFICES ASSUME FoldInv, [Next]_vars PROVE FoldInv'
    OBVIOUS
  <2>1. StoreInv /\ StoreInv' /\ db \in DB /\ Good(db) /\ db \in survivable
        /\ \A d \in survivable : FoldIn(d)
    BY NextInv DEF FoldInv, StoreInv, TypeOK
  <2>2. CASE Next
    <3>1. /\ db' \in survivable \/ Written(db, db')
          /\ survivable' \subseteq survivable \cup {db'}
      BY <2>1, <2>2, StepShape
    <3>2. FoldIn(db')
      BY <2>1, <3>1, WrittenFold
    <3> QED BY <2>1, <3>1, <3>2 DEF FoldInv
  <2>3. CASE UNCHANGED vars
    BY <2>1, <2>3 DEF FoldInv, vars
  <2> QED BY <2>2, <2>3
<1>3. FoldInv => ProjectionsAreTheFold
  BY DEF FoldInv, FoldIn, StoreInv, TypeOK, ProjectionsAreTheFold
<1> QED BY <1>1, <1>2, <1>3, PTL DEF Spec

-----------------------------------------------------------------------------
(* Durability, on a machine where synchronous=FULL can always be restored. *)

\* An insertion adds exactly the event's id to the log.
LEMMA IdsGrow ==
    ASSUME NEW d \in DB, NEW e \in Event
    PROVE  IdsOf(insert(d, e).log) = IdsOf(d.log) \cup {e.id}
<1> DEFINE L == insert(d, e).log
<1>1. /\ Len(d.log) \in Nat /\ DOMAIN d.log = 1 .. Len(d.log)
      /\ DOMAIN L = 1 .. Len(d.log) + 1 /\ L[Len(d.log) + 1] = e
      /\ \A i \in DOMAIN d.log : L[i] = d.log[i]
  BY InsertedLog
<1> HIDE DEF L
<1>2. IdsOf(L) = IdsOf(d.log) \cup {e.id}
  BY <1>1 DEF IdsOf
<1> QED BY <1>2 DEF L

\* No transaction takes an event or a generation away.
LEMMA WrittenGrows ==
    ASSUME NEW d \in DB, Good(d), NEW d2, Written(d, d2)
    PROVE  /\ IdsOf(d.log) \subseteq IdsOf(d2.log)
           /\ \A s \in Session : d2.proj.lease[s] >= d.proj.lease[s]
<1>1. ASSUME NEW x \in DB, NEW e, Legal(x, e)
      PROVE  /\ IdsOf(x.log) \subseteq IdsOf(insert(x, e).log)
             /\ \A s \in Session : insert(x, e).proj.lease[s] >= x.proj.lease[s]
  <2>1. e \in Event
    BY <1>1 DEF Legal
  <2>2. IdsOf(insert(x, e).log) = IdsOf(x.log) \cup {e.id}
    BY <2>1, IdsGrow
  <2>3. x.proj.lease \in [Session -> Nat]
    BY DEF DB, Proj
  <2>4. e.kind = "SessionLeaseAcquired" =>
            e.agg \in Session /\ e.arg > x.proj.lease[e.agg] /\ e.arg \in Nat
    <3>1. e.kind = "SessionLeaseAcquired" => e.agg \in Session
      BY <1>1 DEF Legal, KindsOf
    <3> QED BY <1>1, <2>1, <3>1 DEF Legal, apply_ok, Event
  <2>5. insert(x, e).proj.lease = IF e.kind = "SessionLeaseAcquired"
                                  THEN [x.proj.lease EXCEPT ![e.agg] = e.arg] ELSE x.proj.lease
    BY DEF insert, apply
  <2> QED BY <2>2, <2>3, <2>4, <2>5
<1>2. ASSUME NEW x \in DB, Good(x), NEW y, Inserted(x, y)
      PROVE  /\ IdsOf(x.log) \subseteq IdsOf(y.log)
             /\ \A s \in Session : y.proj.lease[s] >= x.proj.lease[s]
  BY <1>1, <1>2 DEF Inserted
<1>3. ASSUME NEW x \in DB, NEW s \in Session
      PROVE  x.proj.lease[s] \in Nat
  BY DEF DB, Proj
<1>4. CASE Inserted(d, d2)
  BY <1>2, <1>4
<1>5. CASE \E d1 : Inserted(d, d1) /\ Inserted(d1, d2)
  <2>1. PICK d1 : Inserted(d, d1) /\ Inserted(d1, d2)
    BY <1>5
  <2>2. d1 \in DB /\ Good(d1)
    BY <2>1, InsertedGood
  <2>3. d2 \in DB
    BY <2>1, <2>2, InsertedGood
  <2>4. IdsOf(d.log) \subseteq IdsOf(d1.log) /\ IdsOf(d1.log) \subseteq IdsOf(d2.log)
    BY <1>2, <2>1, <2>2
  <2>5. ASSUME NEW s \in Session
        PROVE  d2.proj.lease[s] >= d.proj.lease[s]
    <3>1. d2.proj.lease[s] >= d1.proj.lease[s] /\ d1.proj.lease[s] >= d.proj.lease[s]
      BY <1>2, <2>1, <2>2
    <3> QED BY <1>3, <2>2, <2>3, <3>1
  <2> QED BY <2>4, <2>5
<1>6. CASE Commanded(d, d2)
  <2>1. PICK e, c, row : Legal(d, e) /\ d2 = record_command(insert(d, e), c, row)
    BY <1>6 DEF Commanded
  <2>2. d2.log = insert(d, e).log /\ d2.proj = insert(d, e).proj
    BY <2>1 DEF record_command, insert
  <2> QED BY <1>1, <2>1, <2>2
<1>7. CASE d2 = Booted(d)
  <2>1. d2.log = d.log /\ d2.proj = d.proj
    BY <1>7 DEF Booted
  <2> QED BY <1>3, <2>1
<1> QED BY <1>4, <1>5, <1>6, <1>7 DEF Written

\* An event is acknowledged only by a step that writes it at full durability.
LEMMA AcksLand ==
    ASSUME StoreInv, Next
    PROVE  \/ acked' = acked
           \/ /\ survivable' = IF stuck THEN survivable \cup {db'} ELSE {db'}
              /\ IdsOf(db.log) \cup (acked' \ acked) \subseteq IdsOf(db'.log)
<1> USE StoreAssumption
<1>0. db \in DB /\ Good(db) /\ nextId \in Nat /\ nextId + 1 \in Nat
      /\ None \in Command \cup {None} /\ None \in Nat \cup {None}
  BY DEF StoreInv, TypeOK
<1>1. ASSUME NEW x \in DB, NEW r \in Request, NEW i \in Nat, NEW f \in Nat \cup {None},
             NEW k \in Command \cup {None}
      PROVE  IdsOf(append_in(x, r, i, f, k).log) = IdsOf(x.log) \cup {i}
  <2>1. envelope(x, r, i, f, k) \in Event /\ envelope(x, r, i, f, k).id = i
    BY EnvelopeType DEF envelope
  <2> QED BY <2>1, IdsGrow DEF append_in
<1>2. ASSUME NEW r \in AppendRequests, NEW g \in Fence, append_full(r, g)
      PROVE  /\ survivable' = IF stuck THEN survivable \cup {db'} ELSE {db'}
             /\ IdsOf(db.log) \cup (acked' \ acked) \subseteq IdsOf(db'.log)
  <2>1. r \in Request /\ g \in Nat \cup {None}
    BY RequestTypes DEF Fence
  <2>2. IdsOf(append_in(db, r, nextId, g, None).log) = IdsOf(db.log) \cup {nextId}
    <3>1. ASSUME NEW f \in Nat \cup {None}, NEW k \in Command \cup {None}
          PROVE  IdsOf(append_in(db, r, nextId, f, k).log) = IdsOf(db.log) \cup {nextId}
      <4>1. db \in DB /\ r \in Request /\ nextId \in Nat
        BY <1>0, <2>1
      <4> QED BY <1>1, <4>1
    <3> QED BY <1>0, <2>1, <3>1
  <2> QED BY <1>2, <2>2 DEF append_full, commit, acknowledge
<1>3. ASSUME NEW r \in AppendRequests, NEW g \in Fence, append_relaxed(r, g)
      PROVE  acked' = acked
  BY <1>3 DEF append_relaxed
<1>4. ASSUME NEW reqs \in Batches, NEW g \in Fence, NEW sealed \in BOOLEAN,
             append_all(reqs, g, sealed)
      PROVE  /\ survivable' = IF stuck THEN survivable \cup {db'} ELSE {db'}
             /\ IdsOf(db.log) \cup (acked' \ acked) \subseteq IdsOf(db'.log)
  <2> DEFINE rs == IF sealed THEN seal(db, reqs) ELSE reqs
             d1 == append_in(db, rs[1], nextId, g, None)
             d2 == append_in(d1, rs[2], nextId + 1, g, None)
  <2>1. rs \in Request \X Request /\ rs[1].kind \in KindsOf(rs[1].agg)
    BY <1>0, SealedRequests
  <2>2. rs[1] \in Request /\ rs[2] \in Request /\ Len(rs) = 2 /\ g \in Nat \cup {None}
    BY <2>1 DEF Fence
  <2>3. db' = d2 /\ survivable' = (IF stuck THEN survivable \cup {d2} ELSE {d2})
        /\ acked' = acked \cup {nextId, nextId + 1}
    <3>1. commit(append_batch(db, rs, g, None)) /\ acknowledge({nextId, nextId + 1})
      BY <1>4 DEF append_all
    <3>2. append_batch(db, rs, g, None) = d2
      <4> HIDE DEF rs
      <4> QED BY <2>2 DEF append_batch
    <3> QED BY <3>1, <3>2 DEF commit, acknowledge
  <2> HIDE DEF rs
  <2>4. d1 \in DB
    <3>1. envelope(db, rs[1], nextId, g, None) \in Event
      BY <1>0, <2>2, EnvelopeType
    <3>2. envelope(db, rs[1], nextId, g, None).kind = rs[1].kind
          /\ envelope(db, rs[1], nextId, g, None).agg = rs[1].agg
      BY DEF envelope
    <3>3. rs[1].kind \in {"SessionLeaseAcquired", "SessionCreated"} => rs[1].agg \in Session
      BY <2>1 DEF KindsOf
    <3> QED BY <1>0, <3>1, <3>2, <3>3, InsertType DEF append_in
  <2>5. IdsOf(d1.log) = IdsOf(db.log) \cup {nextId}
    <3>1. \A q \in Request, f \in Nat \cup {None}, k \in Command \cup {None} :
            IdsOf(append_in(db, q, nextId, f, k).log) = IdsOf(db.log) \cup {nextId}
      BY <1>0, <1>1
    <3> QED BY <1>0, <2>2, <3>1
  <2> HIDE DEF d1
  <2>6. IdsOf(d2.log) = IdsOf(d1.log) \cup {nextId + 1}
    <3>1. \A q \in Request, i \in Nat, f \in Nat \cup {None}, k \in Command \cup {None} :
            IdsOf(append_in(d1, q, i, f, k).log) = IdsOf(d1.log) \cup {i}
      BY <1>1, <2>4
    <3> QED BY <1>0, <2>2, <3>1
  <2> QED BY <2>3, <2>5, <2>6
<1>5. ASSUME NEW c \in Command, NEW h \in Hash, NEW r \in CommandRequests,
             command_applied(c, h, <<r>>)
      PROVE  /\ survivable' = IF stuck THEN survivable \cup {db'} ELSE {db'}
             /\ IdsOf(db.log) \cup (acked' \ acked) \subseteq IdsOf(db'.log)
  <2>1. r \in Request /\ c \in Command \cup {None}
    BY RequestTypes
  <2> DEFINE x == append_in(db, r, nextId, None, c)
  <2>2. IdsOf(x.log) = IdsOf(db.log) \cup {nextId}
    <3>1. \A f \in Nat \cup {None}, k \in Command \cup {None} :
            IdsOf(append_in(db, r, nextId, f, k).log) = IdsOf(db.log) \cup {nextId}
      BY <1>0, <1>1, <2>1
    <3> QED BY <1>0, <2>1, <3>1
  <2>3. append_batch(db, <<r>>, None, c) = x
    BY DEF append_batch
  <2>4. nextId .. nextId = {nextId} /\ nextId + 1 - 1 = nextId
    BY <1>0
  <2>5. acked' = acked \cup {nextId}
    BY <1>5, <2>4 DEF command_applied, acknowledge
  <2>6. \E row : commit(record_command(x, c, row))
    BY <1>5, <2>3 DEF command_applied
  <2>7. \A row : record_command(x, c, row).log = x.log
    BY DEF record_command, append_in, insert
  <2> HIDE DEF x
  <2>8. db'.log = x.log /\ survivable' = IF stuck THEN survivable \cup {db'} ELSE {db'}
    BY <2>6, <2>7 DEF commit
  <2> QED BY <2>2, <2>5, <2>8
<1>6. ASSUME NEW e \in Envelopes, import_envelopes(e)
      PROVE  /\ survivable' = IF stuck THEN survivable \cup {db'} ELSE {db'}
             /\ IdsOf(db.log) \cup (acked' \ acked) \subseteq IdsOf(db'.log)
  <2>1. e \in Event
    BY <1>0, EnvelopesType
  <2>2. IdsOf(insert(db, e).log) = IdsOf(db.log) \cup {e.id}
    BY <1>0, <2>1, IdsGrow
  <2> QED BY <1>6, <2>2 DEF import_envelopes, commit, acknowledge
<1>7. ASSUME NEW c, NEW h, command_replayed(c, h)
      PROVE  acked' = acked
  BY <1>7 DEF command_replayed
<1>8. kill \/ power_loss \/ recover_on_start => acked' = acked
  BY DEF kill, power_loss, recover_on_start
<1> QED BY <1>2, <1>3, <1>4, <1>5, <1>6, <1>7, <1>8
        DEF Next, append_with, append_all_inner, execute_command_all, import_mirrored

\* Only a relaxed delta leaves an older database possible, and it moves no
\* lease and no ledger row.
LEMMA RelaxedIsOnlyDeltas ==
    ASSUME StoreInv, Next, ~stuck
    PROVE  \/ survivable' = {db'}
           \/ db'.proj.lease = db.proj.lease /\ db'.commands = db.commands
<1>1. ASSUME NEW r, NEW g, append_relaxed(r, g)
      PROVE  db'.proj.lease = db.proj.lease /\ db'.commands = db.commands
  BY <1>1 DEF append_relaxed, commit_relaxed, only_deltas, append_in, envelope, insert, apply
<1>2. ASSUME NEW r, NEW g, append_full(r, g)
      PROVE  survivable' = {db'}
  BY <1>2 DEF append_full, commit
<1>3. ASSUME NEW reqs, NEW g, NEW sealed, append_all(reqs, g, sealed)
      PROVE  survivable' = {db'}
  BY <1>3 DEF append_all, commit
<1>4. ASSUME NEW c, NEW h, NEW r, command_applied(c, h, <<r>>)
      PROVE  survivable' = {db'}
  BY <1>4 DEF command_applied, commit
<1>5. ASSUME NEW e, import_envelopes(e)
      PROVE  survivable' = {db'}
  BY <1>5 DEF import_envelopes, commit
<1>6. ASSUME NEW c, NEW h, command_replayed(c, h)
      PROVE  db' = db
  BY <1>6 DEF command_replayed
<1>7. kill => db' = db
  BY DEF kill
<1>8. power_loss \/ recover_on_start => survivable' = {db'}
  BY DEF power_loss, recover_on_start
<1> QED BY <1>1, <1>2, <1>3, <1>4, <1>5, <1>6, <1>7, <1>8
        DEF Next, append_with, append_all_inner, execute_command_all, import_mirrored

\* Every database a power loss may leave holds what was acknowledged and the
\* generations of the open one.
DurableInv ==
    /\ StoreInv
    /\ stuck = FALSE
    /\ \A d \in survivable : acked \subseteq IdsOf(d.log) /\ d.proj.lease = db.proj.lease

\* Where synchronous=FULL can always be restored, relaxed_stuck is never set.
LEMMA NeverStuck ==
    ASSUME ~CanStick, stuck = FALSE, Next
    PROVE  stuck' = FALSE
BY StoreAssumption DEF Next, append_with, append_all_inner, execute_command_all, import_mirrored,
   append_full, append_relaxed, append_all, command_applied, command_replayed, import_envelopes,
   kill, power_loss, recover_on_start

\* Every step, a power loss included, preserves DurableInv.
LEMMA DurableStep ==
    ASSUME ~CanStick
    PROVE  /\ Init => DurableInv
           /\ DurableInv /\ [Next]_vars => DurableInv'
<1>1. Init => DurableInv
  BY InitInv DEF Init, DurableInv
<1>2. ASSUME DurableInv, Next PROVE DurableInv'
  <2>0. /\ StoreInv /\ stuck = FALSE /\ db \in DB /\ db \in survivable /\ Good(db)
        /\ \A d \in survivable : acked \subseteq IdsOf(d.log) /\ d.proj.lease = db.proj.lease
    BY <1>2 DEF DurableInv, StoreInv, TypeOK
  <2>1. StoreInv' /\ stuck' = FALSE
    BY <1>2, <2>0, NextInv, NeverStuck
  <2>2. /\ db' \in survivable \/ Written(db, db')
        /\ survivable' \subseteq survivable \cup {db'}
    BY <1>2, <2>0, StepShape
  <2>3. db' \in survivable \/ IdsOf(db.log) \subseteq IdsOf(db'.log)
    BY <2>0, <2>2, WrittenGrows
  <2>4. acked \subseteq IdsOf(db'.log)
    BY <2>0, <2>3
  <2>5. \A d \in survivable' : acked' \subseteq IdsOf(d.log)
    <3>1. CASE acked' = acked
      BY <2>0, <2>2, <2>4, <3>1
    <3>2. CASE /\ survivable' = IF stuck THEN survivable \cup {db'} ELSE {db'}
               /\ IdsOf(db.log) \cup (acked' \ acked) \subseteq IdsOf(db'.log)
      BY <2>0, <2>4, <3>2
    <3> QED BY <1>2, <2>0, <3>1, <3>2, AcksLand
  <2>6. \A d \in survivable' : d.proj.lease = db'.proj.lease
    <3>1. survivable' = {db'} \/ db'.proj.lease = db.proj.lease
      BY <1>2, <2>0, RelaxedIsOnlyDeltas
    <3> QED BY <2>0, <2>2, <3>1
  <2> QED BY <2>1, <2>5, <2>6 DEF DurableInv
<1>3. ASSUME DurableInv, UNCHANGED vars PROVE DurableInv'
  <2>1. StoreInv'
    BY <1>3, NextInv DEF DurableInv
  <2> QED BY <1>3, <2>1 DEF DurableInv, vars
<1> QED BY <1>1, <1>2, <1>3

\* append_with, leave_durability: if synchronous=FULL can always be restored,
\* a power loss takes nothing a caller was told is on the disk.
THEOREM Durability ==
    ASSUME ~CanStick
    PROVE  Spec => []AckedSurvive
<1>1. (Init => DurableInv) /\ (DurableInv /\ [Next]_vars => DurableInv')
  BY DurableStep
<1>2. DurableInv => AckedSurvive
  BY DEF DurableInv, AckedSurvive
<1> QED BY <1>1, <1>2, PTL DEF Spec

\* AcquireSessionLease over a power loss: under the same assumption no step,
\* a crash included, takes a lease generation back.
THEOREM LeaseMonotone ==
    ASSUME ~CanStick
    PROVE  Spec => LeaseNeverRollsBack
<1>1. (Init => DurableInv) /\ (DurableInv /\ [Next]_vars => DurableInv')
  BY DurableStep
<1>2. DurableInv /\ [Next]_vars => [\A s \in Session : db'.proj.lease[s] >= db.proj.lease[s]]_vars
  <2> SUFFICES ASSUME DurableInv, Next, NEW s \in Session
               PROVE  db'.proj.lease[s] >= db.proj.lease[s]
    OBVIOUS
  <2>1. /\ StoreInv /\ db \in DB /\ Good(db)
        /\ \A d \in survivable : d.proj.lease = db.proj.lease
    BY DEF DurableInv, StoreInv, TypeOK
  <2>2. db' \in survivable \/ Written(db, db')
    BY <2>1, StepShape
  <2>3. db.proj.lease[s] \in Nat
    BY <2>1 DEF DB, Proj
  <2> QED BY <2>1, <2>2, <2>3, WrittenGrows
<1> QED BY <1>1, <1>2, PTL DEF Spec, LeaseNeverRollsBack

-----------------------------------------------------------------------------
(* Replies to a command, on the same machine.                              *)

\* What a reply said is what the ledger of d would answer again.
Answers(d, p) == d.commands[p[1]] # NoRow /\ prior_outcome(d, p[1]) = p[2]

\* No transaction changes the outcome a ledger row records.
LEMMA WrittenKeepsOutcomes ==
    ASSUME NEW d \in DB, Good(d), NEW d2, Written(d, d2),
           NEW c \in Command, d.commands[c] # NoRow
    PROVE  d2.commands[c] = d.commands[c] /\ prior_outcome(d2, c) = prior_outcome(d, c)
<1>1. ASSUME NEW x \in DB, Good(x), NEW e \in Event, x.commands[c] # NoRow,
             NEW y, y.log = insert(x, e).log, y.commands[c] = x.commands[c]
      PROVE  prior_outcome(y, c) = prior_outcome(x, c)
  <2>1. x.commands[c].first .. x.commands[c].last \subseteq DOMAIN x.log
    BY <1>1 DEF Good, CommandsIn, RowsOf
  <2>2. \A i \in DOMAIN x.log : y.log[i] = x.log[i]
    BY <1>1, InsertedLog
  <2>3. \A i \in x.commands[c].first .. x.commands[c].last : y.log[i] = x.log[i]
    BY <2>1, <2>2
  <2> DEFINE S == x.commands[c].first .. x.commands[c].last
  <2>4. /\ prior_outcome(y, c) = {y.log[i].id : i \in S}
        /\ prior_outcome(x, c) = {x.log[i].id : i \in S}
    BY <1>1 DEF prior_outcome, ids
  <2> HIDE DEF S
  <2>5. \A i \in S : y.log[i] = x.log[i]
    BY <2>3 DEF S
  <2> QED BY <2>4, <2>5
<1>2. ASSUME NEW x \in DB, Good(x), x.commands[c] # NoRow, NEW y, Inserted(x, y)
      PROVE  y.commands[c] = x.commands[c] /\ prior_outcome(y, c) = prior_outcome(x, c)
  <2>1. PICK e : Legal(x, e) /\ y = insert(x, e)
    BY <1>2 DEF Inserted
  <2>2. e \in Event /\ y.commands = x.commands
    BY <2>1 DEF Legal, insert
  <2> QED BY <1>1, <1>2, <2>1, <2>2
<1>3. CASE Inserted(d, d2)
  BY <1>2, <1>3
<1>4. CASE \E d1 : Inserted(d, d1) /\ Inserted(d1, d2)
  <2>1. PICK d1 : Inserted(d, d1) /\ Inserted(d1, d2)
    BY <1>4
  <2>2. d1 \in DB /\ Good(d1)
    BY <2>1, InsertedGood
  <2>3. d1.commands[c] = d.commands[c] /\ prior_outcome(d1, c) = prior_outcome(d, c)
    BY <1>2, <2>1
  <2> QED BY <1>2, <2>1, <2>2, <2>3
<1>5. CASE Commanded(d, d2)
  <2>1. PICK e, k, row : /\ Legal(d, e) /\ d.commands[k] = NoRow
                         /\ d2 = record_command(insert(d, e), k, row)
    BY <1>5 DEF Commanded
  <2>2. d2.log = insert(d, e).log /\ d2.commands = [d.commands EXCEPT ![k] = row] /\ e \in Event
    BY <2>1 DEF record_command, insert, Legal
  <2>3. d.commands \in [Command -> Row \cup {NoRow}] /\ k # c
    BY <2>1 DEF DB
  <2>4. d2.commands[c] = d.commands[c]
    BY <2>2, <2>3
  <2> QED BY <1>1, <2>2, <2>4
<1>6. CASE d2 = Booted(d)
  BY <1>6 DEF Booted, prior_outcome
<1> QED BY <1>3, <1>4, <1>5, <1>6 DEF Written

\* A new reply repeats the ledger of the open database, or is that of a command
\* that is now on the disk with its ledger row.
LEMMA RepliesLand ==
    ASSUME StoreInv, Next, ~stuck, NEW p, p \in replies', p \notin replies
    PROVE  \/ db' = db /\ survivable' = survivable /\ Answers(db, p)
           \/ survivable' = {db'} /\ Answers(db', p)
<1> USE StoreAssumption
<1>0. db \in DB /\ Good(db) /\ nextId \in Nat /\ Len(db.log) \in Nat
  BY DEF StoreInv, TypeOK, DB
<1>1. PICK c \in Command, h \in Hash :
        command_replayed(c, h) \/ \E r \in CommandRequests : command_applied(c, h, <<r>>)
  BY DEF Next, append_with, append_all_inner, execute_command_all, import_mirrored,
         append_full, append_relaxed, append_all, import_envelopes, kill, power_loss,
         recover_on_start
<1>2. CASE command_replayed(c, h)
  <2>1. p = <<c, prior_outcome(db, c)>> /\ db.commands[c] # NoRow
        /\ db' = db /\ survivable' = survivable
    BY <1>2 DEF command_replayed
  <2> QED BY <2>1 DEF Answers
<1>3. ASSUME NEW r \in CommandRequests, command_applied(c, h, <<r>>)
      PROVE  survivable' = {db'} /\ Answers(db', p)
  <2>1. r \in Request /\ c \in Command \cup {None} /\ None \in Nat \cup {None}
    BY RequestTypes
  <2> DEFINE e == envelope(db, r, nextId, None, c)
             n == Len(db.log) + 1
             row == [hash |-> h, first |-> n, last |-> n]
  <2>2. e \in Event /\ e.id = nextId
    <3>1. \A f \in Nat \cup {None}, k \in Command \cup {None} :
            envelope(db, r, nextId, f, k) \in Event
      BY <1>0, <2>1, EnvelopeType
    <3> QED BY <2>1, <3>1 DEF envelope
  <2>3. append_batch(db, <<r>>, None, c) = insert(db, e)
    BY DEF append_batch, append_in
  <2>4. commit(record_command(insert(db, e), c, row))
    BY <1>3, <2>3 DEF command_applied
  <2>5. nextId .. nextId = {nextId} /\ nextId + 1 - 1 = nextId
    BY <1>0
  <2>6. p = <<c, {nextId}>>
    BY <1>3, <2>5 DEF command_applied
  <2>7. insert(db, e).log[n] = e
    BY <1>0, <2>2, InsertedLog
  <2> HIDE DEF e
  <2>8. /\ survivable' = {db'} /\ db'.log = insert(db, e).log
        /\ db'.commands = [db.commands EXCEPT ![c] = row]
    BY <2>4 DEF commit, record_command, insert
  <2>9. db.commands \in [Command -> Row \cup {NoRow}]
    BY <1>0 DEF DB
  <2>10. db'.commands[c] = row
    BY <2>8, <2>9
  <2>11. row # NoRow /\ row.first = n /\ row.last = n /\ n .. n = {n}
    BY <1>0 DEF NoRow
  <2> HIDE DEF row, n
  <2>12. prior_outcome(db', c) = {db'.log[i].id : i \in {n}}
    BY <2>10, <2>11 DEF prior_outcome, ids
  <2>13. prior_outcome(db', c) = {nextId}
    BY <2>2, <2>7, <2>8, <2>12
  <2> QED BY <2>6, <2>8, <2>10, <2>11, <2>13 DEF Answers
<1> QED BY <1>1, <1>2, <1>3

\* Every database a power loss may leave answers every command as the open one
\* does, and as every caller was answered.
ReplyInv ==
    /\ DurableInv
    /\ \A d \in survivable : d.commands = db.commands
    /\ \A d \in survivable, c \in Command :
          db.commands[c] # NoRow => prior_outcome(d, c) = prior_outcome(db, c)
    /\ \A p \in replies : Answers(db, p)

\* execute_command_all, prior_outcome: where synchronous=FULL can always be
\* restored, a command is answered with the same events each time it is asked,
\* across kills, power losses and restarts.
THEOREM RepliesNeverDiffer ==
    ASSUME ~CanStick
    PROVE  Spec => []RepliesAgree
<1>1. Init => ReplyInv
  <2> SUFFICES ASSUME Init PROVE ReplyInv
    OBVIOUS
  <2>1. DurableInv /\ survivable = {db} /\ replies = {}
    BY DurableStep DEF Init
  <2> QED BY <2>1 DEF ReplyInv
<1>2. ASSUME ReplyInv, Next PROVE ReplyInv'
  <2>0. /\ DurableInv /\ StoreInv /\ stuck = FALSE /\ db \in DB /\ db \in survivable /\ Good(db)
        /\ \A d \in survivable : d \in DB /\ Good(d) /\ d.commands = db.commands
        /\ \A d \in survivable, c \in Command :
              db.commands[c] # NoRow => prior_outcome(d, c) = prior_outcome(db, c)
        /\ \A p \in replies : Answers(db, p)
        /\ \A p \in replies : p[1] \in Command
    BY <1>2 DEF ReplyInv, DurableInv, StoreInv, TypeOK
  <2>1. DurableInv' /\ \A p \in replies' : p[1] \in Command
    <3>1. DurableInv'
      BY <1>2, <2>0, DurableStep
    <3> QED BY <3>1 DEF DurableInv, StoreInv, TypeOK
  <2>2. /\ db' \in survivable \/ Written(db, db')
        /\ survivable' \subseteq survivable \cup {db'} /\ db' \in survivable'
    BY <1>2, <2>0, StepShape
  <2>3. survivable' = {db'} \/ db'.commands = db.commands
    BY <1>2, <2>0, RelaxedIsOnlyDeltas
  <2>4. ASSUME NEW c \in Command, db.commands[c] # NoRow
        PROVE  db'.commands[c] = db.commands[c] /\ prior_outcome(db', c) = prior_outcome(db, c)
    <3>1. CASE db' \in survivable
      BY <2>0, <2>4, <3>1
    <3>2. CASE Written(db, db')
      BY <2>0, <2>4, <3>2, WrittenKeepsOutcomes
    <3> QED BY <2>2, <3>1, <3>2
  <2>5. \A d \in survivable' : d.commands = db'.commands
    BY <2>0, <2>2, <2>3
  <2>6. \A d \in survivable', c \in Command :
          db'.commands[c] # NoRow => prior_outcome(d, c) = prior_outcome(db', c)
    <3> SUFFICES ASSUME NEW d \in survivable', NEW c \in Command, db'.commands[c] # NoRow, d # db'
                 PROVE  prior_outcome(d, c) = prior_outcome(db', c)
      OBVIOUS
    <3>1. d \in survivable /\ db'.commands = db.commands
      BY <2>2, <2>3
    <3>2. db.commands[c] # NoRow
      BY <3>1
    <3>3. prior_outcome(d, c) = prior_outcome(db, c)
      BY <2>0, <3>1, <3>2
    <3>4. prior_outcome(db', c) = prior_outcome(db, c)
      BY <2>4, <3>2
    <3> QED BY <3>3, <3>4
  <2>7. ASSUME NEW p \in replies' PROVE Answers(db', p)
    <3>1. CASE p \in replies
      <4>1. Answers(db, p) /\ p[1] \in Command
        BY <2>0, <3>1
      <4>2. db'.commands[p[1]] = db.commands[p[1]]
            /\ prior_outcome(db', p[1]) = prior_outcome(db, p[1])
        BY <2>4, <4>1 DEF Answers
      <4> QED BY <4>1, <4>2 DEF Answers
    <3>2. CASE p \notin replies
      BY <1>2, <2>0, <3>2, RepliesLand
    <3> QED BY <3>1, <3>2
  <2> QED BY <2>1, <2>5, <2>6, <2>7 DEF ReplyInv
<1>3. ASSUME ReplyInv, UNCHANGED vars PROVE ReplyInv'
  <2>1. DurableInv'
    BY <1>3, DurableStep DEF ReplyInv
  <2> QED BY <1>3, <2>1 DEF ReplyInv, vars
<1>4. ReplyInv => RepliesAgree
  BY DEF ReplyInv, Answers, RepliesAgree
<1>5. ReplyInv /\ [Next]_vars => ReplyInv'
  BY <1>2, <1>3
<1> QED BY <1>1, <1>4, <1>5, PTL DEF Spec
=============================================================================
