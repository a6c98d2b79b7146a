-------------------------- MODULE SessionLeaseProofs --------------------------
(***************************************************************************)
(* Proofs about the session lease, for every set of clients, sessions and  *)
(* commands and every bound: the clients' requests are requests the store  *)
(* knows, so the composition inherits every theorem of the store, and no   *)
(* two clients are handed the same generation by a first execution.        *)
(***************************************************************************)
EXTENDS SessionLease, EventStoreProofs

-----------------------------------------------------------------------------
(* The requests of the handlers are requests of the store.                 *)

\* CreateSession asks for sequence 0; the store would do the same without.
LEMMA CreateIsACommand ==
    ASSUME NEW m \in Command, NEW s \in Session, CreateSession(m, s)
    PROVE  execute_command_all
<1> USE StoreAssumption, LeaseAssumption
<1> DEFINE r == [agg |-> s, kind |-> "SessionCreated", arg |-> 0, expected |-> 0]
           q == [agg |-> s, kind |-> "SessionCreated", arg |-> 0, expected |-> None]
           h == OwnerHash[Issuer[m]]
<1>1. h \in Hash
  OBVIOUS
<1>2. q \in CommandRequests
  BY DEF CommandRequests
<1>3. command_applied(m, h, <<r>>)
  BY DEF CreateSession
<1>4. \A d, id, f, k : envelope(d, r, id, f, k) = envelope(d, q, id, f, k)
  BY DEF envelope
<1>5. append_ok(db, r) => append_ok(db, q)
  BY <1>4 DEF append_ok, receipt_links
<1>6. append_batch(db, <<r>>, None, m) = append_batch(db, <<q>>, None, m)
  BY <1>4 DEF append_batch, append_in
<1>7. batch_ok(db, <<q>>, None, m)
  BY <1>3, <1>5 DEF command_applied, batch_ok
<1>8. Len(<<r>>) = 1 /\ Len(<<q>>) = 1
  OBVIOUS
<1> HIDE DEF r, q, h
<1>9. command_applied(m, h, <<q>>)
  BY <1>3, <1>6, <1>7, <1>8 DEF command_applied
<1> QED BY <1>1, <1>2, <1>9 DEF execute_command_all

\* A generation within its bound is a fence the store may be presented.
LeaseBounds ==
    /\ StoreInv
    /\ \A d \in survivable, s \in Session : d.proj.lease[s] <= MaxGen
    /\ held \in [Client -> [Session -> 0 .. MaxGen]]

\* A session event without a tail or a generation is a request of commands and
\* of appends; so is a call's, of appends.
LEMMA StateRequests ==
    ASSUME NEW a \in Session \cup Call
    PROVE  /\ StateRequest(a) \in AppendRequests
           /\ a \in Session => StateRequest(a) \in CommandRequests
<1> USE StoreAssumption
<1>1. "state" \in KindsOf(a) \ {"SessionCreated", "SessionLeaseAcquired"}
  BY DEF KindsOf, SessionKind
<1>2. a \in Aggregate /\ "state" \in Kind /\ 0 \in 0 .. MaxEvents
  BY DEF Aggregate, Kind, SessionKind
<1>3. StateRequest(a) \in AppendRequests
  BY <1>1, <1>2 DEF AppendRequests, StateRequest
<1>4. StateRequest(a).agg = a
  BY DEF StateRequest
<1> QED BY <1>3, <1>4 DEF CommandRequests

\* Every step of the composition is a step of the store, or leaves it alone.
LEMMA StoreStep ==
    ASSUME LeaseBounds, LNext
    PROVE  [Next]_vars
<1> USE StoreAssumption, LeaseAssumption
<1>1. ASSUME NEW m \in Command, NEW s \in Session, CreateSession(m, s)
      PROVE  Next
  BY <1>1, CreateIsACommand DEF Next
<1>2. ASSUME NEW m \in Command, NEW s \in Session, AcquireSessionLease(m, s)
      PROVE  Next
  <2> DEFINE g == db.proj.lease[s] + 1
             r == LeaseRequest(s, g)
  <2>1. db.proj.lease[s] \in Nat
    BY DEF LeaseBounds, StoreInv, TypeOK, DB, Proj
  <2>2. g \in 0 .. MaxGen /\ command_applied(m, OwnerHash[Issuer[m]], <<r>>)
    BY <1>2, <2>1 DEF AcquireSessionLease
  <2>3. r \in CommandRequests
    <3> HIDE DEF g
    <3> QED BY <2>2 DEF CommandRequests, LeaseRequest
  <2>4. OwnerHash[Issuer[m]] \in Hash
    OBVIOUS
  <2> HIDE DEF r
  <2>5. execute_command_all
    BY <2>2, <2>3, <2>4 DEF execute_command_all
  <2> QED BY <2>5 DEF Next
<1>3. ASSUME NEW m \in Command, NEW s \in Session, AcquireReplayed(m, s)
      PROVE  Next
  <2>1. OwnerHash[Issuer[m]] \in Hash /\ command_replayed(m, OwnerHash[Issuer[m]])
    BY <1>3 DEF AcquireReplayed
  <2>2. execute_command_all
    BY <2>1 DEF execute_command_all
  <2> QED BY <2>2 DEF Next
<1>4. ASSUME NEW g \in 1 .. MaxGen
      PROVE  g \in Fence
  BY DEF Fence
<1>5. ASSUME NEW s \in Session, NEW g \in 1 .. MaxGen, NEW a \in Call,
             FencedAppend(s, g, StateRequest(a))
      PROVE  Next
  <2>1. append_full(StateRequest(a), g) /\ StateRequest(a) \in AppendRequests
    BY <1>5, StateRequests DEF FencedAppend
  <2>2. append_with
    BY <1>4, <2>1 DEF append_with
  <2> QED BY <2>2 DEF Next
<1>6. ASSUME NEW s \in Session, NEW g \in 1 .. MaxGen, NEW a \in Stream,
             FencedDelta(s, g, DeltaRequest(a))
      PROVE  Next
  <2>1. DeltaRequest(a) \in AppendRequests
    <3>1. "AssistantTextDelta" \in KindsOf(a) \ {"SessionCreated", "SessionLeaseAcquired"}
      BY DEF KindsOf, SessionKind
    <3>2. a \in Aggregate /\ "AssistantTextDelta" \in Kind /\ 0 \in 0 .. MaxEvents
      BY DEF Aggregate, Kind
    <3> QED BY <3>1, <3>2 DEF AppendRequests, DeltaRequest
  <2>2. append_relaxed(DeltaRequest(a), g)
    BY <1>6 DEF FencedDelta
  <2>3. append_with
    BY <1>4, <2>1, <2>2 DEF append_with
  <2> QED BY <2>3 DEF Next
<1>7. ASSUME NEW c \in Client, NEW s \in Session, require_lease(c, s)
      PROVE  UNCHANGED vars
  BY <1>7 DEF require_lease
<1>8. ASSUME NEW m \in Command, NEW s \in Session, NEW g \in 1 .. MaxGen, QueueInput(m, s, g)
      PROVE  Next
  <2>1. PICK h \in Hash : command_applied(m, h, <<StateRequest(s)>>) \/ command_replayed(m, h)
    BY <1>8 DEF QueueInput
  <2>2. StateRequest(s) \in CommandRequests
    BY StateRequests
  <2>3. execute_command_all
    BY <2>1, <2>2 DEF execute_command_all
  <2> QED BY <2>3 DEF Next
<1>9. ASSUME NEW c \in Client, NEW s \in Session, NEW g \in 1 .. MaxGen, StartTask(c, s, g)
      PROVE  Next
  <2>1. append_full(StateRequest(s), None) /\ StateRequest(s) \in AppendRequests /\ None \in Fence
    BY <1>9, StateRequests DEF StartTask, Fence
  <2>2. append_with
    BY <2>1 DEF append_with
  <2> QED BY <2>2 DEF Next
<1>10. crash \/ restart => Next
  BY DEF crash, restart, Next
<1> QED BY <1>1, <1>2, <1>3, <1>5, <1>6, <1>7, <1>8, <1>9, <1>10 DEF LNext

-----------------------------------------------------------------------------
(* What a step does to the generations, the store's and the clients'.      *)

\* A command that acquires no lease leaves the generations alone.
LEMMA AppliedLease ==
    ASSUME NEW c, NEW h, NEW r, command_applied(c, h, <<r>>)
    PROVE  db'.proj.lease = IF r.kind = "SessionLeaseAcquired"
                            THEN [db.proj.lease EXCEPT ![r.agg] = r.arg] ELSE db.proj.lease
<1> DEFINE e == envelope(db, r, nextId, None, c)
<1>1. append_batch(db, <<r>>, None, c) = insert(db, e)
  BY DEF append_batch, append_in
<1>2. e.kind = r.kind /\ e.agg = r.agg /\ e.arg = r.arg
  BY DEF envelope
<1> HIDE DEF e
<1>3. PICK row : db' = record_command(insert(db, e), c, row)
  BY <1>1 DEF command_applied, commit
<1>4. db'.proj = insert(db, e).proj
  BY <1>3 DEF record_command, insert
<1> QED BY <1>2, <1>4 DEF insert, apply

\* A step mints the next generation and may hand it to one client; or repeats
\* the one in force to a client; or does neither.
Minted(m, s) ==
    LET g == db.proj.lease[s] + 1
    IN /\ g <= MaxGen
       /\ db'.proj.lease = [db.proj.lease EXCEPT ![s] = g]
       /\ receive(Issuer[m], s, g, "applied")

Repeated(m, s) == db' = db /\ receive(Issuer[m], s, db.proj.lease[s], "replayed")

Neither == /\ db' \in survivable \/ db'.proj.lease = db.proj.lease
           /\ UNCHANGED <<held, via>>

\* A step of the leases mints a generation, answers a command again, or neither.
LEMMA LeaseStep ==
    ASSUME StoreInv, LNext
    PROVE  \/ \E m \in Command, s \in Session : Minted(m, s) \/ Repeated(m, s)
           \/ Neither
<1> USE StoreAssumption, LeaseAssumption
<1>0. db \in survivable /\ db.proj.cursor = Len(db.log)
  BY DEF StoreInv, TypeOK, Good
<1>1. ASSUME NEW m \in Command, NEW s \in Session, CreateSession(m, s)
      PROVE  Neither
  <2> DEFINE r == [agg |-> s, kind |-> "SessionCreated", arg |-> 0, expected |-> 0]
  <2>1. command_applied(m, OwnerHash[Issuer[m]], <<r>>) /\ UNCHANGED <<held, via>>
    BY <1>1 DEF CreateSession, clients
  <2>2. r.kind # "SessionLeaseAcquired"
    OBVIOUS
  <2> HIDE DEF r
  <2> QED BY <2>1, <2>2, AppliedLease DEF Neither
<1>2. ASSUME NEW m \in Command, NEW s \in Session, AcquireSessionLease(m, s)
      PROVE  Minted(m, s)
  <2> DEFINE g == db.proj.lease[s] + 1
             r == LeaseRequest(s, g)
  <2>1. /\ g <= MaxGen /\ command_applied(m, OwnerHash[Issuer[m]], <<r>>)
        /\ receive(Issuer[m], s, g, "applied")
    BY <1>2 DEF AcquireSessionLease
  <2>2. r.kind = "SessionLeaseAcquired" /\ r.agg = s /\ r.arg = g
    BY DEF LeaseRequest
  <2> HIDE DEF r
  <2>3. db'.proj.lease = [db.proj.lease EXCEPT ![s] = g]
    BY <2>1, <2>2, AppliedLease
  <2> QED BY <2>1, <2>3 DEF Minted
<1>3. ASSUME NEW m \in Command, NEW s \in Session, AcquireReplayed(m, s)
      PROVE  Repeated(m, s)
  BY <1>3 DEF AcquireReplayed, Repeated, replayed_generation, command_replayed
<1>4. ASSUME NEW a, NEW g, append_full(StateRequest(a), g)
      PROVE  db'.proj.lease = db.proj.lease
  BY <1>4 DEF append_full, commit, append_in, envelope, insert, apply, StateRequest
<1>5. ASSUME NEW s \in Session, NEW g \in 1 .. MaxGen, NEW a \in Call,
             FencedAppend(s, g, StateRequest(a))
      PROVE  Neither
  <2>1. UNCHANGED <<held, via>> /\ append_full(StateRequest(a), g)
    BY <1>5 DEF FencedAppend, clients
  <2> QED BY <1>4, <2>1 DEF Neither
<1>6. ASSUME NEW s \in Session, NEW g \in 1 .. MaxGen, NEW a \in Stream,
             FencedDelta(s, g, DeltaRequest(a))
      PROVE  Neither
  <2>1. UNCHANGED <<held, via>> /\ append_relaxed(DeltaRequest(a), g)
    BY <1>6 DEF FencedDelta, clients
  <2>2. append_relaxed(DeltaRequest(a), g) => db'.proj.lease = db.proj.lease
    BY DEF append_relaxed, commit_relaxed, append_in, envelope, insert, apply, DeltaRequest
  <2> QED BY <2>1, <2>2 DEF Neither
<1>7. ASSUME NEW c \in Client, NEW s \in Session, require_lease(c, s)
      PROVE  Neither
  BY <1>7 DEF require_lease, Neither, clients, vars
<1>8. ASSUME NEW m \in Command, NEW s \in Session, NEW g \in 1 .. MaxGen, QueueInput(m, s, g)
      PROVE  Neither
  <2>1. PICK h : command_applied(m, h, <<StateRequest(s)>>) \/ command_replayed(m, h)
    BY <1>8 DEF QueueInput
  <2>2. UNCHANGED <<held, via>> /\ StateRequest(s).kind # "SessionLeaseAcquired"
    BY <1>8 DEF QueueInput, clients, StateRequest
  <2>3. CASE command_applied(m, h, <<StateRequest(s)>>)
    BY <2>2, <2>3, AppliedLease DEF Neither
  <2>4. CASE command_replayed(m, h)
    BY <2>2, <2>4 DEF command_replayed, Neither
  <2> QED BY <2>1, <2>3, <2>4
<1>9. ASSUME NEW c \in Client, NEW s \in Session, NEW g \in 1 .. MaxGen, StartTask(c, s, g)
      PROVE  Neither
  <2>1. UNCHANGED <<held, via>> /\ append_full(StateRequest(s), None)
    BY <1>9 DEF StartTask, clients
  <2> QED BY <1>4, <2>1 DEF Neither
<1>10. ASSUME crash \/ restart
       PROVE  Neither
  BY <1>0, <1>10 DEF crash, restart, clients, kill, power_loss, recover_on_start, Neither
<1> QED BY <1>1, <1>2, <1>3, <1>5, <1>6, <1>7, <1>8, <1>9, <1>10 DEF LNext

How == {"none", "applied", "replayed"}

\* A reply a client stores changes its entry for that session and no other.
LEMMA ReceiveAt ==
    ASSUME held \in [Client -> [Session -> Nat]], via \in [Client -> [Session -> How]],
           NEW c \in Client, NEW s \in Session, NEW g \in Nat, NEW how \in How,
           receive(c, s, g, how)
    PROVE  /\ via' \in [Client -> [Session -> How]]
           /\ \A a \in Client, t \in Session :
                 \/ held'[a][t] = held[a][t] /\ via'[a][t] = via[a][t]
                 \/ a = c /\ t = s /\ held'[a][t] = g /\ via'[a][t] = how
<1>1. CASE UNCHANGED <<held, via>>
  BY <1>1
<1>2. CASE /\ held' = [held EXCEPT ![c][s] = g]
           /\ via' = [via EXCEPT ![c][s] = how]
  <2>1. held[c] \in [Session -> Nat] /\ via[c] \in [Session -> How]
    OBVIOUS
  <2> DEFINE x == [held[c] EXCEPT ![s] = g]
             y == [via[c] EXCEPT ![s] = how]
  <2>2. /\ x \in [Session -> Nat] /\ y \in [Session -> How] /\ x[s] = g /\ y[s] = how
        /\ \A t \in Session : t # s => x[t] = held[c][t] /\ y[t] = via[c][t]
    BY <2>1
  <2>3. held' = [held EXCEPT ![c] = x] /\ via' = [via EXCEPT ![c] = y]
    BY <1>2
  <2> HIDE DEF x, y
  <2>4. held' \in [Client -> [Session -> Nat]] /\ via' \in [Client -> [Session -> How]]
    BY <2>2, <2>3
  <2>5. /\ held'[c] = x /\ via'[c] = y
        /\ \A a \in Client : a # c => held'[a] = held[a] /\ via'[a] = via[a]
    BY <2>3
  <2> QED BY <2>2, <2>4, <2>5
<1> QED BY <1>1, <1>2 DEF receive

\* In particular a client's generations keep their type.
LEMMA HeldType ==
    ASSUME NEW G, held \in [Client -> [Session -> G]],
           NEW c \in Client, NEW s \in Session, NEW g \in G, NEW how, receive(c, s, g, how)
    PROVE  held' \in [Client -> [Session -> G]]
<1>1. CASE held' = held
  BY <1>1
<1>2. CASE held' = [held EXCEPT ![c][s] = g]
  <2> DEFINE x == [held[c] EXCEPT ![s] = g]
  <2>1. x \in [Session -> G] /\ held' = [held EXCEPT ![c] = x]
    BY <1>2
  <2> HIDE DEF x
  <2> QED BY <2>1
<1> QED BY <1>1, <1>2 DEF receive

-----------------------------------------------------------------------------
(* The composition is the store, driven by its clients.                    *)

\* Generations stay within their bound, whatever crashes.
LEMMA BoundsInit == LInit => LeaseBounds
<1> SUFFICES ASSUME LInit PROVE LeaseBounds
  OBVIOUS
<1>1. StoreInv /\ survivable = {EmptyDB}
  BY InitInv DEF LInit, Init
<1>2. EmptyDB.proj.lease = [s \in Session |-> 0]
  BY DEF EmptyDB, EmptyProj
<1>3. held \in [Client -> [Session -> 0 .. MaxGen]]
  BY StoreAssumption DEF LInit
<1> QED BY <1>1, <1>2, <1>3, StoreAssumption DEF LeaseBounds

\* Every step keeps the generations the clients hold within the bounds.
LEMMA BoundsNext == LeaseBounds /\ [LNext]_leaseVars => LeaseBounds'
<1> USE StoreAssumption, LeaseAssumption
<1> SUFFICES ASSUME LeaseBounds, [LNext]_leaseVars PROVE LeaseBounds'
  OBVIOUS
<1>0. /\ StoreInv /\ db \in survivable
      /\ \A d \in survivable, s \in Session : d.proj.lease[s] \in 0 .. MaxGen
      /\ db.proj.lease \in [Session -> Nat]
  <2>1. /\ StoreInv /\ db \in survivable /\ survivable \subseteq DB
        /\ \A d \in survivable, s \in Session : d.proj.lease[s] <= MaxGen
    BY DEF LeaseBounds, StoreInv, TypeOK
  <2>2. \A d \in DB : d.proj.lease \in [Session -> Nat]
    BY DEF DB, Proj
  <2> QED BY <2>1, <2>2
<1>1. CASE LNext
  <2>1. [Next]_vars
    BY <1>1, StoreStep
  <2>2. StoreInv' /\ survivable' \subseteq survivable \cup {db'}
    BY <1>0, <2>1, NextInv, StepShape DEF vars
  <2>3. ASSUME NEW m \in Command, NEW s \in Session, Minted(m, s) \/ Repeated(m, s)
        PROVE  /\ held' \in [Client -> [Session -> 0 .. MaxGen]]
               /\ \A t \in Session : db'.proj.lease[t] <= MaxGen
    <3> DEFINE g == db.proj.lease[s]
    <3>1. g \in 0 .. MaxGen /\ g \in Nat /\ held \in [Client -> [Session -> 0 .. MaxGen]]
          /\ Issuer[m] \in Client
      BY <1>0 DEF LeaseBounds
    <3>2. CASE Minted(m, s)
      <4>1. g + 1 \in 0 .. MaxGen /\ receive(Issuer[m], s, g + 1, "applied")
            /\ db'.proj.lease = [db.proj.lease EXCEPT ![s] = g + 1]
        BY <3>1, <3>2 DEF Minted
      <4> HIDE DEF g
      <4>2. held' \in [Client -> [Session -> 0 .. MaxGen]]
        <5> DEFINE G == 0 .. MaxGen
                   c == Issuer[m]
                   v == g + 1
                   how == "applied"
        <5>1. /\ held \in [Client -> [Session -> G]] /\ v \in G /\ c \in Client
              /\ receive(c, s, v, how)
          BY <3>1, <4>1
        <5> HIDE DEF G, c, v, how
        <5>2. held' \in [Client -> [Session -> G]]
          BY <5>1, HeldType
        <5> QED BY <5>2 DEF G
      <4>3. \A t \in Session : db'.proj.lease[t] \in 0 .. MaxGen
        BY <1>0, <4>1
      <4> QED BY <4>2, <4>3
    <3>3. CASE Repeated(m, s)
      <4>1. receive(Issuer[m], s, g, "replayed") /\ db' = db
        BY <3>3 DEF Repeated
      <4> HIDE DEF g
      <4>2. held' \in [Client -> [Session -> 0 .. MaxGen]]
        <5> DEFINE G == 0 .. MaxGen
                   c == Issuer[m]
                   v == g
                   how == "replayed"
        <5>1. /\ held \in [Client -> [Session -> G]] /\ v \in G /\ c \in Client
              /\ receive(c, s, v, how)
          BY <3>1, <4>1
        <5> HIDE DEF G, c, v, how
        <5>2. held' \in [Client -> [Session -> G]]
          BY <5>1, HeldType
        <5> QED BY <5>2 DEF G
      <4> QED BY <1>0, <4>1, <4>2
    <3> QED BY <2>3, <3>2, <3>3
  <2>4. CASE Neither
    <3>1. held' \in [Client -> [Session -> 0 .. MaxGen]]
      BY <2>4 DEF Neither, LeaseBounds
    <3>2. \A t \in Session : db'.proj.lease[t] <= MaxGen
      BY <1>0, <2>4 DEF Neither
    <3> QED BY <1>0, <2>2, <3>1, <3>2 DEF LeaseBounds
  <2> QED BY <1>0, <1>1, <2>2, <2>3, <2>4, LeaseStep DEF LeaseBounds
<1>2. CASE UNCHANGED leaseVars
  <2>1. StoreInv' /\ survivable' = survivable /\ held' = held
    BY <1>0, <1>2, NextInv DEF leaseVars, vars
  <2> QED BY <2>1 DEF LeaseBounds
<1> QED BY <1>1, <1>2

\* AcquireSessionLease, the handlers' unfenced writes and the loops' fenced ones
\* over the Event Store: whatever the clients do is a behaviour of the store's
\* specification, so every theorem about the store is one about the composition.
THEOREM LeaseImplementsStore == LSpec => Spec
<1>1. LInit => Init
  BY DEF LInit
<1>2. LeaseBounds /\ [LNext]_leaseVars => [Next]_vars
  <2> SUFFICES ASSUME LeaseBounds, [LNext]_leaseVars PROVE [Next]_vars
    OBVIOUS
  <2>1. CASE LNext
    BY <2>1, StoreStep
  <2>2. CASE UNCHANGED leaseVars
    BY <2>2 DEF leaseVars, vars
  <2> QED BY <2>1, <2>2
<1> QED BY <1>1, <1>2, BoundsInit, BoundsNext, PTL DEF LSpec, Spec

\* append_fenced, as run loops and tools use it: a loop started by a command
\* that presented a generation, even one superseded between require_lease and
\* the start, never lands an append once another client acquired the session,
\* over any crash.  It says nothing of the handlers' own writes, which carry no
\* fence.
THEOREM LeaseFencing == LSpec => []FencedWritesInForce
BY LeaseImplementsStore, Fencing, PTL

-----------------------------------------------------------------------------
(* One minter per generation.                                              *)

\* No client holds a generation the store has not reached, so the next one is
\* new to every client; power loss included, since no generation is taken back.
MinterInv ==
    /\ DurableInv
    /\ LeaseBounds
    /\ via \in [Client -> [Session -> How]]
    /\ \A c \in Client, s \in Session :
          held[c][s] <= db.proj.lease[s] /\ (via[c][s] = "none" => held[c][s] = 0)
    /\ \A a, b \in Client, s \in Session :
          (a # b /\ via[a][s] = "applied" /\ via[b][s] = "applied") => held[a][s] # held[b][s]

\* Every step preserves it: only a mint gives a generation, and it is new.
LEMMA MinterNext ==
    ASSUME ~CanStick, MinterInv, LNext
    PROVE  MinterInv'
<1> USE StoreAssumption, LeaseAssumption
<1>0. /\ DurableInv /\ LeaseBounds /\ StoreInv
      /\ db.proj.lease \in [Session -> Nat]
      /\ \A d \in survivable : d.proj.lease = db.proj.lease
  BY DEF MinterInv, DurableInv, StoreInv, TypeOK, DB, Proj
<1>1. LeaseBounds' /\ DurableInv' /\ db'.proj.lease \in [Session -> Nat]
  <2>1. LeaseBounds'
    BY <1>0, BoundsNext
  <2>2. DurableInv'
    <3>1. [Next]_vars
      BY <1>0, StoreStep
    <3> QED BY <1>0, <3>1, DurableStep
  <2>3. db'.proj.lease \in [Session -> Nat]
    BY <2>2 DEF DurableInv, StoreInv, TypeOK, DB, Proj
  <2> QED BY <2>1, <2>2, <2>3
<1>2. /\ held \in [Client -> [Session -> Nat]] /\ via \in [Client -> [Session -> How]]
      /\ held' \in [Client -> [Session -> Nat]]
  <2>1. 0 .. MaxGen \subseteq Nat
    OBVIOUS
  <2>2. /\ held \in [Client -> [Session -> 0 .. MaxGen]]
        /\ held' \in [Client -> [Session -> 0 .. MaxGen]] /\ via \in [Client -> [Session -> How]]
    BY <1>0, <1>1 DEF MinterInv, LeaseBounds
  <2> QED BY <2>1, <2>2
<1>3. /\ \A c \in Client, s \in Session :
            held[c][s] <= db.proj.lease[s] /\ (via[c][s] = "none" => held[c][s] = 0)
      /\ \A a, b \in Client, s \in Session :
            (a # b /\ via[a][s] = "applied" /\ via[b][s] = "applied") => held[a][s] # held[b][s]
  BY DEF MinterInv
<1> DEFINE Below == \A c \in Client, s \in Session :
                       held'[c][s] <= db'.proj.lease[s] /\ (via'[c][s] = "none" => held'[c][s] = 0)
           Apart == \A a, b \in Client, s \in Session :
                       (a # b /\ via'[a][s] = "applied" /\ via'[b][s] = "applied")
                          => held'[a][s] # held'[b][s]
<1>4. ASSUME NEW m \in Command, NEW s \in Session, Minted(m, s)
      PROVE  Below /\ Apart /\ via' \in [Client -> [Session -> How]]
  <2> DEFINE g == db.proj.lease[s] + 1
             c == Issuer[m]
  <2>1. /\ receive(c, s, g, "applied") /\ db'.proj.lease = [db.proj.lease EXCEPT ![s] = g]
        /\ g \in Nat /\ c \in Client /\ "applied" \in How
    BY <1>0, <1>4 DEF Minted, How
  <2>2. /\ via' \in [Client -> [Session -> How]]
        /\ \A a \in Client, t \in Session :
              \/ held'[a][t] = held[a][t] /\ via'[a][t] = via[a][t]
              \/ a = c /\ t = s /\ held'[a][t] = g /\ via'[a][t] = "applied"
    <3> DEFINE how == "applied"
    <3>1. /\ receive(c, s, g, how) /\ g \in Nat /\ c \in Client /\ how \in How
          /\ held \in [Client -> [Session -> Nat]] /\ via \in [Client -> [Session -> How]]
      BY <1>2, <2>1
    <3> HIDE DEF g, c, how
    <3>2. /\ via' \in [Client -> [Session -> How]]
          /\ \A a \in Client, t \in Session :
                \/ held'[a][t] = held[a][t] /\ via'[a][t] = via[a][t]
                \/ a = c /\ t = s /\ held'[a][t] = g /\ via'[a][t] = how
      BY <3>1, ReceiveAt
    <3> QED BY <3>2 DEF how
  <2>3. /\ \A t \in Session : db.proj.lease[t] \in Nat /\ db.proj.lease[t] <= db'.proj.lease[t]
        /\ db'.proj.lease[s] = g /\ g > db.proj.lease[s]
    BY <1>0, <2>1
  <2>4. \A a \in Client, t \in Session : held[a][t] \in Nat /\ db'.proj.lease[t] \in Nat
    BY <1>1, <1>2
  <2> HIDE DEF g, c
  <2>5. \A a \in Client : held[a][s] < g
    BY <1>3, <2>1, <2>3, <2>4
  <2>6. Below
    <3> SUFFICES ASSUME NEW a \in Client, NEW t \in Session
                 PROVE  held'[a][t] <= db'.proj.lease[t] /\ (via'[a][t] = "none" => held'[a][t] = 0)
      OBVIOUS
    <3>1. held[a][t] <= db.proj.lease[t] /\ (via[a][t] = "none" => held[a][t] = 0)
      BY <1>3
    <3>2. CASE held'[a][t] = held[a][t] /\ via'[a][t] = via[a][t]
      BY <2>3, <2>4, <3>1, <3>2
    <3>3. CASE a = c /\ t = s /\ held'[a][t] = g /\ via'[a][t] = "applied"
      BY <2>1, <2>3, <3>3
    <3> QED BY <2>2, <3>2, <3>3
  <2>7. Apart
    <3> SUFFICES ASSUME NEW a \in Client, NEW b \in Client, NEW t \in Session, a # b,
                        via'[a][t] = "applied", via'[b][t] = "applied"
                 PROVE  held'[a][t] # held'[b][t]
      OBVIOUS
    <3>1. \A x \in Client : held[x][s] # g
      BY <2>1, <2>4, <2>5
    <3>2. via[a][t] = "applied" /\ via[b][t] = "applied" => held[a][t] # held[b][t]
      BY <1>3
    <3>3. /\ \/ held'[a][t] = held[a][t] /\ via'[a][t] = via[a][t]
             \/ a = c /\ t = s /\ held'[a][t] = g
          /\ \/ held'[b][t] = held[b][t] /\ via'[b][t] = via[b][t]
             \/ b = c /\ t = s /\ held'[b][t] = g
      BY <2>2
    <3> QED BY <3>1, <3>2, <3>3
  <2> QED BY <2>2, <2>6, <2>7
<1>5. ASSUME NEW m \in Command, NEW s \in Session, Repeated(m, s)
      PROVE  Below /\ Apart /\ via' \in [Client -> [Session -> How]]
  <2> DEFINE g == db.proj.lease[s]
             c == Issuer[m]
  <2>1. receive(c, s, g, "replayed") /\ db' = db /\ g \in Nat /\ c \in Client /\ "replayed" \in How
    BY <1>0, <1>5 DEF Repeated, How
  <2>2. /\ via' \in [Client -> [Session -> How]]
        /\ \A a \in Client, t \in Session :
              \/ held'[a][t] = held[a][t] /\ via'[a][t] = via[a][t]
              \/ a = c /\ t = s /\ held'[a][t] = g /\ via'[a][t] = "replayed"
    <3> DEFINE how == "replayed"
    <3>1. /\ receive(c, s, g, how) /\ g \in Nat /\ c \in Client /\ how \in How
          /\ held \in [Client -> [Session -> Nat]] /\ via \in [Client -> [Session -> How]]
      BY <1>2, <2>1
    <3> HIDE DEF g, c, how
    <3>2. /\ via' \in [Client -> [Session -> How]]
          /\ \A a \in Client, t \in Session :
                \/ held'[a][t] = held[a][t] /\ via'[a][t] = via[a][t]
                \/ a = c /\ t = s /\ held'[a][t] = g /\ via'[a][t] = how
      BY <3>1, ReceiveAt
    <3> QED BY <3>2 DEF how
  <2>3. db'.proj.lease = db.proj.lease /\ g <= g
    BY <2>1
  <2>4. Below
    <3> SUFFICES ASSUME NEW a \in Client, NEW t \in Session
                 PROVE  held'[a][t] <= db'.proj.lease[t] /\ (via'[a][t] = "none" => held'[a][t] = 0)
      OBVIOUS
    <3>1. held[a][t] <= db.proj.lease[t] /\ (via[a][t] = "none" => held[a][t] = 0)
      BY <1>3
    <3>2. CASE held'[a][t] = held[a][t] /\ via'[a][t] = via[a][t]
      BY <2>3, <3>1, <3>2
    <3>3. CASE a = c /\ t = s /\ held'[a][t] = g /\ via'[a][t] = "replayed"
      BY <2>3, <3>3
    <3> QED BY <2>2, <3>2, <3>3
  <2>5. Apart
    <3> SUFFICES ASSUME NEW a \in Client, NEW b \in Client, NEW t \in Session, a # b,
                        via'[a][t] = "applied", via'[b][t] = "applied"
                 PROVE  held'[a][t] # held'[b][t]
      OBVIOUS
    <3>1. /\ held'[a][t] = held[a][t] /\ via'[a][t] = via[a][t]
          /\ held'[b][t] = held[b][t] /\ via'[b][t] = via[b][t]
      BY <2>2
    <3> QED BY <1>3, <3>1
  <2> QED BY <2>2, <2>4, <2>5
<1>6. CASE Neither
  <2>1. held' = held /\ via' = via /\ db'.proj.lease = db.proj.lease
    BY <1>0, <1>6 DEF Neither
  <2>2. Below /\ Apart
    BY <1>3, <2>1
  <2> QED BY <1>1, <1>2, <2>1, <2>2 DEF MinterInv
<1>7. CASE \E m \in Command, s \in Session : Minted(m, s) \/ Repeated(m, s)
  <2>1. Below /\ Apart /\ via' \in [Client -> [Session -> How]]
    BY <1>4, <1>5, <1>7
  <2> QED BY <1>1, <2>1 DEF MinterInv
<1> QED BY <1>0, <1>6, <1>7, LeaseStep

\* AcquireSessionLease: where synchronous=FULL can always be restored, two
\* acquisitions that were both first executions never hand two clients the same
\* generation, however the Core crashes between them.
THEOREM OneMinter ==
    ASSUME ~CanStick
    PROVE  LSpec => []OneMinterPerGeneration
<1>1. LInit => MinterInv
  <2> SUFFICES ASSUME LInit PROVE MinterInv
    OBVIOUS
  <2>1. LeaseBounds /\ DurableInv
    BY BoundsInit, DurableStep DEF LInit
  <2>2. /\ held = [c \in Client |-> [s \in Session |-> 0]]
        /\ via = [c \in Client |-> [s \in Session |-> "none"]] /\ db = EmptyDB
    BY DEF LInit, Init
  <2>3. EmptyDB.proj.lease = [s \in Session |-> 0]
    BY DEF EmptyDB, EmptyProj
  <2>4. via \in [Client -> [Session -> How]]
    BY <2>2 DEF How
  <2>5. \A c \in Client, s \in Session :
          held[c][s] <= db.proj.lease[s] /\ held[c][s] = 0 /\ via[c][s] # "applied"
    <3> SUFFICES ASSUME NEW c \in Client, NEW s \in Session
                 PROVE  held[c][s] <= db.proj.lease[s] /\ held[c][s] = 0 /\ via[c][s] # "applied"
      OBVIOUS
    <3>1. held[c] = [x \in Session |-> 0] /\ via[c] = [x \in Session |-> "none"]
      BY <2>2
    <3>2. held[c][s] = 0 /\ via[c][s] = "none"
      BY <3>1
    <3>3. db.proj.lease[s] = 0
      BY <2>2, <2>3
    <3> QED BY <3>2, <3>3
  <2> QED BY <2>1, <2>4, <2>5 DEF MinterInv
<1>2. MinterInv /\ [LNext]_leaseVars => MinterInv'
  <2> SUFFICES ASSUME MinterInv, UNCHANGED leaseVars PROVE MinterInv'
    BY MinterNext
  <2>1. LeaseBounds'
    BY BoundsNext DEF MinterInv
  <2>2. DurableInv'
    BY DurableStep DEF MinterInv, leaseVars, vars
  <2> QED BY <2>1, <2>2 DEF MinterInv, leaseVars
<1>3. MinterInv => OneMinterPerGeneration
  <2> SUFFICES ASSUME MinterInv, NEW a \in Client, NEW b \in Client, NEW s \in Session,
                      a # b, held[a][s] # 0, held[a][s] = held[b][s]
               PROVE  "replayed" \in {via[a][s], via[b][s]}
    BY DEF OneMinterPerGeneration
  <2>1. via[a][s] \in How /\ via[b][s] \in How
    BY DEF MinterInv
  <2>2. via[a][s] # "none" /\ via[b][s] # "none"
    BY DEF MinterInv
  <2>3. ~(via[a][s] = "applied" /\ via[b][s] = "applied")
    BY DEF MinterInv
  <2> QED BY <2>1, <2>2, <2>3 DEF How
<1> QED BY <1>1, <1>2, <1>3, PTL DEF LSpec
===============================================================================
