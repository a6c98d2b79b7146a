-------------------------- MODULE CloudWorkerProofs --------------------------
(***************************************************************************)
(* Proofs about CloudWorker, for any workers, commands and bounds: every   *)
(* aggregate of the cloud log is one chain, a command creates its task at  *)
(* most once, only the owner adds what a Core recorded, and the cursors of *)
(* a worker never claim too much.                                          *)
(***************************************************************************)
EXTENDS CloudWorker, NaturalFacts, FiniteSetTheorems, SequenceTheorems, TLAPS

-----------------------------------------------------------------------------
(* Picking elements of a sequence by their places                          *)

\* Max of a bounded set of naturals is its greatest element.
LEMMA MaxFacts ==
    ASSUME NEW T, T \subseteq Nat, T # {}, NEW b \in Nat, \A k \in T : k <= b
    PROVE  Max(T) \in T /\ \A k \in T : k <= Max(T)
<1>1. PICK m \in T : \A k \in T : k <= m
  BY GreatestBelow
<1>2. \E x \in T : \A k \in T : x >= k
  BY <1>1
<1>3. Max(T) \in T /\ \A k \in T : Max(T) >= k
  BY <1>2 DEF Max
<1> QED BY <1>3

\* The places of a sequence: finitely many naturals.
LEMMA PlacesFinite ==
    ASSUME NEW n \in Nat, NEW I \in SUBSET (1 .. n)
    PROVE  /\ IsFiniteSet(I) /\ Cardinality(I) \in Nat
           /\ \A k \in I : k \in Nat /\ 1 <= k /\ k <= n
<1>1. 1 \in Int /\ n \in Int
  OBVIOUS
<1>2. IsFiniteSet(1 .. n)
  BY <1>1, FS_Interval
<1>3. IsFiniteSet(I)
  BY <1>2, FS_Subset
<1>4. Cardinality(I) \in Nat
  BY <1>3, FS_CardinalityType
<1>5. ASSUME NEW k \in I PROVE k \in Nat /\ 1 <= k /\ k <= n
  <2>1. k \in 1 .. n
    OBVIOUS
  <2> QED BY <2>1
<1> QED BY <1>3, <1>4, <1>5

\* The places up to i.
Upto(I, i) == {k \in I : k <= i}

\* The rank of a place counts a finite set.
LEMMA UptoFacts ==
    ASSUME NEW n \in Nat, NEW I \in SUBSET (1 .. n), NEW i \in Nat
    PROVE  /\ IsFiniteSet(Upto(I, i)) /\ Rank(I, i) = Cardinality(Upto(I, i))
           /\ Rank(I, i) \in Nat /\ Rank(I, i) <= Cardinality(I)
<1>1. IsFiniteSet(I)
  BY PlacesFinite
<1>2. Upto(I, i) \in SUBSET I
  BY DEF Upto
<1>3. IsFiniteSet(Upto(I, i)) /\ Cardinality(Upto(I, i)) <= Cardinality(I)
  BY <1>1, <1>2, FS_Subset
<1>4. Rank(I, i) = Cardinality(Upto(I, i))
  BY DEF Rank, Upto
<1>5. Cardinality(Upto(I, i)) \in Nat
  BY <1>3, FS_CardinalityType
<1> QED BY <1>3, <1>4, <1>5

\* One place further.
LEMMA RankStep ==
    ASSUME NEW n \in Nat, NEW I \in SUBSET (1 .. n), NEW i \in Nat
    PROVE  Rank(I, i + 1) = IF i + 1 \in I THEN Rank(I, i) + 1 ELSE Rank(I, i)
<1>1. IsFiniteSet(Upto(I, i)) /\ Rank(I, i) = Cardinality(Upto(I, i))
  BY UptoFacts
<1>2. Rank(I, i + 1) = Cardinality(Upto(I, i + 1))
  BY DEF Rank, Upto
<1>3. \A k \in I : k \in Nat
  BY PlacesFinite
<1>4. \A k \in I : k <= i + 1 <=> (k <= i \/ k = i + 1)
  BY <1>3
<1>5. ~(i + 1 <= i)
  OBVIOUS
<1>6. CASE i + 1 \in I
  <2>1. Upto(I, i + 1) = Upto(I, i) \cup {i + 1}
    BY <1>4, <1>6, Zenon DEF Upto
  <2>2. i + 1 \notin Upto(I, i)
    BY <1>5, Zenon DEF Upto
  <2>3. Cardinality(Upto(I, i) \cup {i + 1}) = Cardinality(Upto(I, i)) + 1
    BY <1>1, <2>2, FS_AddElement
  <2> QED BY <1>1, <1>2, <1>6, <2>1, <2>3
<1>7. CASE i + 1 \notin I
  <2>1. Upto(I, i + 1) = Upto(I, i)
    BY <1>4, <1>7, Zenon DEF Upto
  <2> QED BY <1>1, <1>2, <1>7, <2>1
<1> QED BY <1>6, <1>7

\* Every rank has its place ...
LEMMA RankHasPlace ==
    ASSUME NEW n \in Nat, NEW I \in SUBSET (1 .. n), NEW j \in Nat, 1 <= j, j <= Cardinality(I)
    PROVE  \E i \in I : Rank(I, i) = j
<1> DEFINE T == {i \in Nat : j <= Rank(I, i)}
<1>1. \A k \in I : k \in Nat /\ 1 <= k /\ k <= n
  BY PlacesFinite
<1>2. Rank(I, n) = Cardinality(I)
  <2>1. {k \in I : k <= n} = I
    BY <1>1
  <2> QED BY <2>1 DEF Rank
<1>3. n \in T
  BY <1>2
<1>4. PICK m \in T : \A k \in T : m <= k
  <2>1. T \subseteq Nat /\ T # {}
    BY <1>3
  <2> HIDE DEF T
  <2> QED BY <2>1, LeastNat
<1>5. m # 0
  <2>0. \A k \in I : ~(k <= 0)
    BY <1>1
  <2>1. {k \in I : k <= 0} = {}
    BY <2>0, Zenon
  <2>2. Rank(I, 0) = 0
    BY <2>1, FS_EmptySet DEF Rank
  <2> QED BY <1>4, <2>2
<1>6. m - 1 \in Nat /\ m = (m - 1) + 1 /\ ~(m <= m - 1)
  BY <1>4, <1>5
<1>7. Rank(I, m - 1) \in Nat
  BY <1>6, UptoFacts
<1>8. Rank(I, m) = IF m \in I THEN Rank(I, m - 1) + 1 ELSE Rank(I, m - 1)
  <2> DEFINE k == m - 1
  <2>1. k \in Nat /\ m = k + 1
    BY <1>6
  <2> HIDE DEF k
  <2>2. Rank(I, k + 1) = IF k + 1 \in I THEN Rank(I, k) + 1 ELSE Rank(I, k)
    BY <2>1, RankStep
  <2> QED BY <2>1, <2>2 DEF k
<1>9. j <= Rank(I, m) /\ ~(j <= Rank(I, m - 1))
  BY <1>4, <1>6
<1>10. m \in I /\ Rank(I, m) = j
  BY <1>7, <1>8, <1>9
<1> QED BY <1>10

\* ... and no two places have the same rank.
LEMMA RankIsOne ==
    ASSUME NEW n \in Nat, NEW I \in SUBSET (1 .. n), NEW i \in I, NEW k \in I, i < k
    PROVE  Rank(I, i) < Rank(I, k)
<1>0. \A m \in I : m \in Nat
  BY PlacesFinite
<1>1. \A m \in I : m <= i => m <= k
  BY <1>0
<1>2. k <= k /\ ~(k <= i)
  BY <1>0
<1>3. /\ IsFiniteSet(Upto(I, k)) /\ IsFiniteSet(Upto(I, i))
      /\ Rank(I, i) = Cardinality(Upto(I, i)) /\ Rank(I, k) = Cardinality(Upto(I, k))
      /\ Rank(I, i) \in Nat /\ Rank(I, k) \in Nat
  <2>1. i \in Nat /\ k \in Nat
    BY <1>0
  <2> QED BY <2>1, UptoFacts
<1>4. k \notin Upto(I, i)
  BY <1>2, Zenon DEF Upto
<1>5. Cardinality(Upto(I, i) \cup {k}) = Cardinality(Upto(I, i)) + 1
  BY <1>3, <1>4, FS_AddElement
<1>6. Upto(I, i) \cup {k} \in SUBSET Upto(I, k)
  BY <1>1, <1>2, Zenon DEF Upto
<1>7. Cardinality(Upto(I, i) \cup {k}) <= Cardinality(Upto(I, k))
  BY <1>3, <1>6, FS_Subset
<1> QED BY <1>3, <1>5, <1>7

\* What is picked is there, and what is there is picked.
LEMMA PickFacts ==
    ASSUME NEW S, NEW s \in Seq(S), NEW I \in SUBSET DOMAIN s
    PROVE  /\ Pick(s, I) \in Seq(S)
           /\ \A j \in DOMAIN Pick(s, I) : \E i \in I : Pick(s, I)[j] = s[i]
           /\ \A i \in I : \E j \in DOMAIN Pick(s, I) : Pick(s, I)[j] = s[i]
<1> DEFINE n == Len(s)
           N == Cardinality(I)
           place(j) == CHOOSE i \in I : Rank(I, i) = j
<1>1. n \in Nat /\ DOMAIN s = 1 .. n /\ \A i \in I : s[i] \in S
  OBVIOUS
<1>2. I \in SUBSET (1 .. n)
  BY <1>1
<1>3. N \in Nat /\ \A k \in I : k \in Nat
  BY <1>1, <1>2, PlacesFinite
<1> HIDE DEF n
<1>4. \A j \in 1 .. N : place(j) \in I /\ Rank(I, place(j)) = j
  <2> TAKE j \in 1 .. N
  <2>1. j \in Nat /\ 1 <= j /\ j <= Cardinality(I)
    BY <1>3
  <2>2. \E i \in I : Rank(I, i) = j
    BY <1>1, <1>2, <2>1, RankHasPlace
  <2> QED BY <2>2
<1>5. Pick(s, I) = [j \in 1 .. N |-> s[place(j)]]
  BY DEF Pick
<1>6. ASSUME NEW i \in I PROVE place(Rank(I, i)) = i /\ Rank(I, i) \in 1 .. N
  <2>0. i \in Nat
    BY <1>3
  <2>1. /\ Rank(I, i) \in Nat /\ Rank(I, i) <= Cardinality(I)
        /\ IsFiniteSet(Upto(I, i)) /\ Rank(I, i) = Cardinality(Upto(I, i))
    BY <1>1, <1>2, <2>0, UptoFacts
  <2>2. Rank(I, i) # 0
    <3>0. i <= i
      BY <2>0
    <3>1. Upto(I, i) # {}
      BY <3>0 DEF Upto
    <3> QED BY <2>1, <3>1, FS_EmptySet
  <2>3. Rank(I, i) \in 1 .. N
    BY <1>3, <2>1, <2>2
  <2>4. place(Rank(I, i)) \in I /\ Rank(I, place(Rank(I, i))) = Rank(I, i)
    BY <1>4, <2>3
  <2>5. ASSUME NEW k \in I, Rank(I, k) = Rank(I, i) PROVE k = i
    <3>0. ~(Rank(I, i) < Rank(I, k)) /\ ~(Rank(I, k) < Rank(I, i))
      BY <2>1, <2>5
    <3>1. i < k => Rank(I, i) < Rank(I, k)
      BY <1>1, <1>2, RankIsOne
    <3>2. k < i => Rank(I, k) < Rank(I, i)
      BY <1>1, <1>2, RankIsOne
    <3>3. k \in Nat
      BY <1>3
    <3> QED BY <2>0, <3>0, <3>1, <3>2, <3>3
  <2> HIDE DEF place
  <2> QED BY <2>3, <2>4, <2>5
<1> HIDE DEF place, N
<1>7. Pick(s, I) \in Seq(S) /\ DOMAIN Pick(s, I) = 1 .. N
  <2>1. \A j \in 1 .. N : s[place(j)] \in S
    BY <1>1, <1>4
  <2> QED BY <1>3, <1>5, <2>1
<1>8. \A j \in 1 .. N : Pick(s, I)[j] = s[place(j)]
  BY <1>5
<1> QED BY <1>4, <1>6, <1>7, <1>8

-----------------------------------------------------------------------------
(* Events and logs                                                         *)

Agg == {"session"} \cup Task
Id == (Worker \cup {"api"}) \X (Nat \ {0})

Event_ == [id : Id, agg : Agg, type : {"created", "input", "run", "stop", "lease"},
           cmd : Cmd \cup {"none"}, prev : Id \cup {NoId}]

\* The events there may be, when C are the commands that create: such a command
\* creates the task of its own name, first in its aggregate.
Ev(C) == {e \in Event_ : e.type = "created" /\ e.cmd \in C => e.agg = e.cmd /\ e.prev = NoId}

\* Log m goes on where l ends.
Grows(l, m) == Len(l) <= Len(m) /\ \A i \in DOMAIN l : m[i] = l[i]

Chain(log) == \A i \in DOMAIN log : log[i].prev = HeadId(SubSeq(log, 1, i - 1), log[i].agg)

\* The places of an aggregate are places of the log.
LEMMA OfPlaces ==
    ASSUME NEW S, NEW log \in Seq(S), NEW a
    PROVE  Of(log, a) \in SUBSET (1 .. Len(log)) /\ Of(log, a) \subseteq Nat
<1>1. DOMAIN log = 1 .. Len(log) /\ Len(log) \in Nat
  OBVIOUS
<1>2. Of(log, a) \subseteq DOMAIN log
  BY DEF Of
<1> QED BY <1>1, <1>2

\* The head of an aggregate is the id of one of its events.
LEMMA HeadFacts ==
    ASSUME NEW S, NEW log \in Seq(S), NEW a
    PROVE  /\ Of(log, a) = {} => HeadId(log, a) = NoId
           /\ Of(log, a) # {} => \E i \in Of(log, a) : i \in DOMAIN log /\ HeadId(log, a) = log[i].id
<1>1. CASE Of(log, a) = {}
  BY <1>1 DEF HeadId
<1>2. CASE Of(log, a) # {}
  <2>1. Of(log, a) \subseteq Nat /\ Len(log) \in Nat /\ \A k \in Of(log, a) : k <= Len(log)
    <3>1. Of(log, a) \in SUBSET (1 .. Len(log)) /\ Len(log) \in Nat
      BY OfPlaces
    <3>2. Of(log, a) \subseteq Nat
      BY OfPlaces
    <3> QED BY <3>1, <3>2, PlacesFinite
  <2>2. Max(Of(log, a)) \in Of(log, a)
    BY <1>2, <2>1, MaxFacts
  <2>3. HeadId(log, a) = log[Max(Of(log, a))].id
    BY <1>2 DEF HeadId
  <2>4. Of(log, a) \subseteq DOMAIN log
    BY DEF Of
  <2> QED BY <1>2, <2>2, <2>3, <2>4
<1> QED BY <1>1, <1>2

\* The fields of an event have their types; no event has the id of none.
LEMMA IdOfEvent ==
    ASSUME NEW C, NEW e \in Ev(C)
    PROVE  /\ e \in Event_ /\ e.id \in Id /\ e.agg \in Agg /\ e.cmd \in Cmd \cup {"none"}
           /\ e.id # NoId /\ e.prev \in Id \cup {NoId}
           /\ e.type = "created" /\ e.cmd \in C => e.agg = e.cmd /\ e.prev = NoId
<1>1. e \in Event_ /\ (e.type = "created" /\ e.cmd \in C => e.agg = e.cmd /\ e.prev = NoId)
  BY DEF Ev
<1>2. e.id \in Id /\ e.agg \in Agg /\ e.cmd \in Cmd \cup {"none"} /\ e.prev \in Id \cup {NoId}
  BY <1>1 DEF Event_
<1>3. e.id[2] # 0
  BY <1>2 DEF Id
<1>4. NoId[2] = 0
  BY DEF NoId
<1> QED BY <1>1, <1>2, <1>3, <1>4

\* An aggregate's head is an id, and none only when it has no events.
LEMMA HeadIsId ==
    ASSUME NEW C, NEW log \in Seq(Ev(C)), NEW a
    PROVE  HeadId(log, a) \in Id \cup {NoId} /\ (Of(log, a) # {} => HeadId(log, a) # NoId)
<1>1. CASE Of(log, a) = {}
  BY <1>1, HeadFacts
<1>2. CASE Of(log, a) # {}
  <2>1. PICK i \in DOMAIN log : HeadId(log, a) = log[i].id
    BY <1>2, HeadFacts
  <2>2. log[i] \in Ev(C)
    OBVIOUS
  <2> QED BY <2>1, <2>2, IdOfEvent
<1> QED BY <1>1, <1>2

\* What is recorded next is an event, if a creating command finds nothing of its
\* aggregate.
LEMMA EventFacts ==
    ASSUME NEW C \in SUBSET Cmd, NEW log \in Seq(Ev(C)), NEW by \in Worker \cup {"api"}, NEW a \in Agg,
           NEW type \in {"created", "input", "run", "stop", "lease"}, NEW cmd \in Cmd \cup {"none"},
           type = "created" /\ cmd \in C => a = cmd /\ Of(log, a) = {}
    PROVE  /\ Event(log, by, a, type, cmd) \in Ev(C)
           /\ Event(log, by, a, type, cmd).id[1] = by
           /\ Event(log, by, a, type, cmd).prev = HeadId(log, Event(log, by, a, type, cmd).agg)
<1> DEFINE e == Event(log, by, a, type, cmd)
           h == HeadId(log, a)
<1>1. h \in Id \cup {NoId} /\ (type = "created" /\ cmd \in C => h = NoId)
  BY HeadIsId, HeadFacts
<1>2. <<by, Len(log) + 1>> \in Id /\ <<by, Len(log) + 1>>[1] = by
  BY DEF Id
<1>3. e = [id |-> <<by, Len(log) + 1>>, agg |-> a, type |-> type, cmd |-> cmd, prev |-> h]
  BY DEF Event
<1> HIDE DEF h
<1>4. e \in Event_
  BY <1>1, <1>2, <1>3 DEF Event_
<1>5. e.type = type /\ e.cmd = cmd /\ e.agg = a /\ e.prev = h /\ e.id = <<by, Len(log) + 1>>
  BY <1>3
<1> HIDE DEF e
<1>6. e \in Ev(C)
  BY <1>1, <1>4, <1>5 DEF Ev
<1> QED BY <1>2, <1>5, <1>6 DEF e, h

-----------------------------------------------------------------------------
(* A log grows                                                             *)

\* A log that grows keeps its places and ids.
LEMMA GrowsFacts ==
    ASSUME NEW S, NEW l \in Seq(S), NEW m \in Seq(S), Grows(l, m)
    PROVE  /\ DOMAIN l \subseteq DOMAIN m /\ Ids(l) \subseteq Ids(m)
<1>1. DOMAIN l = 1 .. Len(l) /\ DOMAIN m = 1 .. Len(m) /\ Len(l) \in Nat /\ Len(m) \in Nat
  OBVIOUS
<1>2. Len(l) <= Len(m) /\ \A i \in DOMAIN l : m[i] = l[i]
  BY DEF Grows
<1>3. DOMAIN l \subseteq DOMAIN m
  BY <1>1, <1>2
<1>4. \A i \in DOMAIN l : l[i].id \in {m[k].id : k \in DOMAIN m}
  BY <1>2, <1>3
<1> QED BY <1>3, <1>4 DEF Ids

\* Adding a batch is growing.
LEMMA GrowsConcat ==
    ASSUME NEW S, NEW l \in Seq(S), NEW d \in Seq(S)
    PROVE  /\ l \o d \in Seq(S) /\ Grows(l, l \o d)
           /\ \A i \in DOMAIN (l \o d) : i \in DOMAIN l \/ (i - Len(l) \in DOMAIN d /\ (l \o d)[i] = d[i - Len(l)])
           /\ \A i \in DOMAIN d : Len(l) + i \in DOMAIN (l \o d) /\ (l \o d)[Len(l) + i] = d[i]
<1>1. Len(l \o d) = Len(l) + Len(d) /\ Len(l) \in Nat /\ Len(d) \in Nat
  OBVIOUS
<1>2. Grows(l, l \o d)
  BY <1>1 DEF Grows
<1> QED BY <1>1, <1>2

\* Adding one event is growing.
LEMMA GrowsAppend ==
    ASSUME NEW S, NEW l \in Seq(S), NEW e \in S
    PROVE  /\ Append(l, e) \in Seq(S) /\ Grows(l, Append(l, e)) /\ Len(Append(l, e)) = Len(l) + 1
           /\ \A i \in DOMAIN Append(l, e) : i \in DOMAIN l \/ Append(l, e)[i] = e
<1>1. Len(Append(l, e)) = Len(l) + 1 /\ Len(l) \in Nat
  OBVIOUS
<1>2. Grows(l, Append(l, e))
  BY <1>1 DEF Grows
<1> QED BY <1>1, <1>2

\* An event of a log is among its ids.
LEMMA IdThere ==
    ASSUME NEW l, NEW i \in DOMAIN l
    PROVE  l[i].id \in Ids(l)
BY DEF Ids

\* What of a batch is new, and that all of it is there afterwards.
LEMMA TakenFacts ==
    ASSUME NEW S, NEW l \in Seq(S), NEW b \in Seq(S)
    PROVE  /\ Fresh(l, b) \in Seq(S) /\ Taken(l, b) \in Seq(S) /\ Grows(l, Taken(l, b))
           /\ \A i \in DOMAIN b : b[i].id \in Ids(Taken(l, b))
           /\ \A i \in DOMAIN Taken(l, b) :
                i \in DOMAIN l \/ \E k \in DOMAIN b : b[k].id \notin Ids(l) /\ Taken(l, b)[i] = b[k]
<1> DEFINE I == {i \in DOMAIN b : b[i].id \notin Ids(l)}
           new == Fresh(l, b)
<1>0. I \in SUBSET DOMAIN b /\ new = Pick(b, I) /\ Taken(l, b) = l \o new
  BY DEF Fresh, Taken
<1>1. /\ new \in Seq(S)
      /\ \A j \in DOMAIN new : \E i \in I : new[j] = b[i]
      /\ \A i \in I : \E j \in DOMAIN new : new[j] = b[i]
  <2> HIDE DEF I, new
  <2> QED BY <1>0, PickFacts
<1> HIDE DEF new
<1>2. /\ l \o new \in Seq(S) /\ Grows(l, l \o new)
      /\ \A i \in DOMAIN (l \o new) : i \in DOMAIN l \/ (i - Len(l) \in DOMAIN new /\ (l \o new)[i] = new[i - Len(l)])
      /\ \A i \in DOMAIN new : Len(l) + i \in DOMAIN (l \o new) /\ (l \o new)[Len(l) + i] = new[i]
  <2>1. new \in Seq(S)
    BY <1>1
  <2> QED BY ONLY l \in Seq(S), <2>1, GrowsConcat, SMTT(30)
<1>3. Ids(l) \subseteq Ids(l \o new)
  BY <1>2, GrowsFacts
<1>4. ASSUME NEW i \in DOMAIN b PROVE b[i].id \in Ids(l \o new)
  <2>1. CASE i \in I
    <3>1. PICK j \in DOMAIN new : new[j] = b[i]
      BY <1>1, <2>1
    <3>2. Len(l) + j \in DOMAIN (l \o new) /\ (l \o new)[Len(l) + j] = b[i]
      BY <1>2, <3>1
    <3> QED BY <3>2, IdThere
  <2>2. CASE i \notin I
    BY <1>3, <2>2
  <2> QED BY <2>1, <2>2
<1>5. ASSUME NEW i \in DOMAIN (l \o new), i \notin DOMAIN l
      PROVE  \E k \in DOMAIN b : b[k].id \notin Ids(l) /\ (l \o new)[i] = b[k]
  <2>1. i - Len(l) \in DOMAIN new /\ (l \o new)[i] = new[i - Len(l)]
    BY <1>2, <1>5
  <2>2. PICK k \in I : new[i - Len(l)] = b[k]
    BY <1>1, <2>1
  <2> QED BY <2>1, <2>2
<1> QED BY <1>0, <1>1, <1>2, <1>4, <1>5 DEF new

\* The part of a log before a place does not change when the log grows.
LEMMA PrefixGrows ==
    ASSUME NEW S, NEW l \in Seq(S), NEW m \in Seq(S), Grows(l, m), NEW n \in Nat, n <= Len(l)
    PROVE  SubSeq(m, 1, n) = SubSeq(l, 1, n)
<1>1. Len(l) <= Len(m) /\ Len(l) \in Nat /\ Len(m) \in Nat /\ \A i \in DOMAIN l : m[i] = l[i]
  BY DEF Grows
<1>2. \A i \in 1 .. n : m[i] = l[i]
  BY <1>1
<1>3. SubSeq(m, 1, n) = [i \in 1 .. n |-> m[i]] /\ SubSeq(l, 1, n) = [i \in 1 .. n |-> l[i]]
  BY <1>1
<1>4. [i \in 1 .. n |-> m[i]] = [i \in 1 .. n |-> l[i]]
  BY <1>2
<1> QED BY <1>3, <1>4

\* A chain grows by what continues it.
LEMMA ChainGrows ==
    ASSUME NEW S, NEW l \in Seq(S), NEW m \in Seq(S), Grows(l, m), Chain(l),
           \A i \in DOMAIN m : i \notin DOMAIN l => m[i].prev = HeadId(SubSeq(m, 1, i - 1), m[i].agg)
    PROVE  Chain(m)
<1> SUFFICES ASSUME NEW i \in DOMAIN m PROVE m[i].prev = HeadId(SubSeq(m, 1, i - 1), m[i].agg)
  BY DEF Chain
<1>1. CASE i \in DOMAIN l
  <2>1. i - 1 \in Nat /\ i - 1 <= Len(l)
    BY <1>1
  <2>2. SubSeq(m, 1, i - 1) = SubSeq(l, 1, i - 1)
    BY <2>1, PrefixGrows
  <2>3. m[i] = l[i]
    BY <1>1 DEF Grows
  <2>4. l[i].prev = HeadId(SubSeq(l, 1, i - 1), l[i].agg)
    BY <1>1 DEF Chain
  <2> QED BY <2>2, <2>3, <2>4
<1> QED BY <1>1

\* An event that names its aggregate's head keeps the chain whole.
LEMMA ChainAppend ==
    ASSUME NEW S, NEW l \in Seq(S), NEW e \in S, Chain(l), e.prev = HeadId(l, e.agg)
    PROVE  Chain(Append(l, e))
<1> DEFINE m == Append(l, e)
<1>1. m \in Seq(S) /\ Grows(l, m) /\ Len(m) = Len(l) + 1 /\ Len(l) \in Nat
  BY GrowsAppend
<1>2. ASSUME NEW i \in DOMAIN m, i \notin DOMAIN l
      PROVE  m[i].prev = HeadId(SubSeq(m, 1, i - 1), m[i].agg)
  <2>1. i = Len(l) + 1 /\ m[i] = e /\ i - 1 = Len(l)
    BY <1>1, <1>2
  <2>2. SubSeq(m, 1, Len(l)) = SubSeq(l, 1, Len(l))
    <3> HIDE DEF m
    <3>1. Len(l) <= Len(l)
      BY <1>1
    <3> QED BY <1>1, <3>1, PrefixGrows
  <2>3. SubSeq(l, 1, Len(l)) = l
    OBVIOUS
  <2> HIDE DEF m
  <2> QED BY <2>1, <2>2, <2>3
<1> HIDE DEF m
<1>3. Chain(m)
  BY <1>1, <1>2, ChainGrows
<1> QED BY <1>3 DEF m

\* A batch that fits keeps the chains whole, whatever of it was there before.
LEMMA ChainTaken ==
    ASSUME NEW S, NEW l \in Seq(S), NEW b \in Seq(S), Chain(l), Fits(l, b)
    PROVE  Chain(Taken(l, b))
<1> DEFINE new == Fresh(l, b)
           m == Taken(l, b)
<1>1. new \in Seq(S) /\ m \in Seq(S) /\ Grows(l, m)
  BY TakenFacts
<1>2. m = l \o new
  BY DEF Taken
<1>3. \A i \in DOMAIN new : new[i].prev = HeadId(l \o SubSeq(new, 1, i - 1), new[i].agg)
  BY DEF Fits, Continues
<1> HIDE DEF new, m
<1>4. Len(l) \in Nat /\ Len(new) \in Nat /\ Len(m) = Len(l) + Len(new)
  BY <1>1, <1>2
<1>5. ASSUME NEW i \in DOMAIN m, i \notin DOMAIN l
      PROVE  m[i].prev = HeadId(SubSeq(m, 1, i - 1), m[i].agg)
  <2> DEFINE k == i - Len(l)
  <2>1. k \in DOMAIN new /\ m[i] = new[k] /\ k \in Nat /\ 1 <= k /\ k <= Len(new) /\ i = Len(l) + k
    BY <1>1, <1>2, <1>4, <1>5
  <2> HIDE DEF k
  <2>2. SubSeq(m, 1, i - 1) = l \o SubSeq(new, 1, k - 1)
    <3> DEFINE p == SubSeq(new, 1, k - 1)
    <3>1. p \in Seq(S) /\ Len(p) = k - 1 /\ \A j \in 1 .. k - 1 : p[j] = new[j]
      BY <1>1, <1>4, <2>1
    <3> HIDE DEF p
    <3>2. i - 1 \in Nat /\ i - 1 <= Len(m) /\ i - 1 = Len(l) + (k - 1)
      BY <1>4, <2>1
    <3>3. /\ SubSeq(m, 1, i - 1) \in Seq(S) /\ Len(SubSeq(m, 1, i - 1)) = i - 1
          /\ \A j \in 1 .. i - 1 : SubSeq(m, 1, i - 1)[j] = m[j]
      BY <1>1, <3>2
    <3>4. /\ l \o p \in Seq(S) /\ Len(l \o p) = i - 1
          /\ \A j \in 1 .. i - 1 : (l \o p)[j] = IF j <= Len(l) THEN l[j] ELSE p[j - Len(l)]
      <4>1. /\ l \o p \in Seq(S) /\ Len(l \o p) = Len(l) + Len(p)
            /\ \A j \in 1 .. Len(l) + Len(p) : (l \o p)[j] = IF j <= Len(l) THEN l[j] ELSE p[j - Len(l)]
        BY <3>1, ConcatProperties
      <4>2. Len(l) + Len(p) = i - 1
        BY <3>1, <3>2
      <4> QED BY <4>1, <4>2
    <3>5. ASSUME NEW j \in 1 .. i - 1 PROVE m[j] = IF j <= Len(l) THEN l[j] ELSE p[j - Len(l)]
      <4>1. CASE j <= Len(l)
        BY <1>1, <1>4, <4>1 DEF Grows
      <4>2. CASE ~(j <= Len(l))
        <5>1. j - Len(l) \in 1 .. k - 1 /\ j \in DOMAIN m
          BY <1>1, <1>4, <2>1, <3>2, <4>2
        <5>2. m[j] = new[j - Len(l)]
          BY <1>1, <1>2, <1>4, <4>2, <5>1
        <5> QED BY <3>1, <4>2, <5>1, <5>2
      <4> QED BY <4>1, <4>2
    <3>6. SubSeq(m, 1, i - 1) = l \o p
      BY <3>3, <3>4, <3>5, SeqEqual
    <3> QED BY <3>6 DEF p
  <2>3. new[k].prev = HeadId(l \o SubSeq(new, 1, k - 1), new[k].agg)
    BY <1>3, <2>1
  <2> QED BY <2>1, <2>2, <2>3
<1>6. Chain(m)
  BY <1>1, <1>5, ChainGrows
<1> QED BY <1>6 DEF m

\* On a chain, an aggregate is created once.
LEMMA ChainCreatedOnce ==
    ASSUME NEW C \in SUBSET Cmd, NEW log \in Seq(Ev(C)), Chain(log), NEW c \in C,
           NEW i \in DOMAIN log, NEW k \in DOMAIN log, i < k,
           log[i].cmd = c, log[i].type = "created", log[k].cmd = c, log[k].type = "created"
    PROVE  FALSE
<1> DEFINE p == SubSeq(log, 1, k - 1)
<1>1. log[i] \in Ev(C) /\ log[k] \in Ev(C)
  OBVIOUS
<1>2. log[i].agg = c /\ log[k].agg = c /\ log[k].prev = NoId
  BY <1>1, IdOfEvent
<1>3. p \in Seq(Ev(C)) /\ i \in DOMAIN p /\ p[i] = log[i]
  OBVIOUS
<1>4. HeadId(p, c) = NoId
  BY <1>2 DEF Chain
<1> HIDE DEF p
<1>5. i \in Of(p, c)
  BY <1>2, <1>3 DEF Of
<1> QED BY <1>3, <1>4, <1>5, HeadIsId

-----------------------------------------------------------------------------
(* The invariant                                                           *)

Host ==
    [at : {"idle", "import", "import_save", "pass", "mirror", "mirror_save", "pending", "execute",
           "complete", "start", "stopped", "failed"},
     gen : Nat, up : BOOLEAN, base : Nat, upto : Nat,
     next : {"none", "present", "imported", "pending", "complete", "stopped"},
     todo : Seq(Cmd), done : Seq(Cmd \X {"ACCEPTED", "REJECTED"}), started : SUBSET Task]

Cursors == [imported : Nat, exported : Nat]

\* The ids of the events of l at the places from .. upto are in m.
There(l, m, from, upto) == \A i \in from .. upto : l[i].id \in Ids(m)

\* What the data directory and the hosting of worker w owe to the cloud log:
\* CursorsTellTheTruth, and what it takes while a transfer is made and its
\* cursor not yet saved; an event of the Core is its own or came from the cloud.
Sound(log, c, s, h, w) ==
    /\ s.imported <= Len(log) /\ s.exported <= Len(c)
    /\ There(log, c, 1, s.imported)
    /\ h.base > 0 => There(c, log, h.base + 1, s.exported)
    /\ h.at \in {"import", "import_save"} => h.base = 0
    /\ h.at = "import_save" => h.upto <= Len(log) /\ There(log, c, 1, h.upto)
    /\ h.at \in {"mirror", "mirror_save"} =>
         h.upto <= Len(c) /\ h.next \in {"pending", "complete", "stopped"}
    /\ h.at = "mirror_save" => There(c, log, s.exported + 1, h.upto)
    /\ \A i \in DOMAIN c : c[i].id[1] = w \/ c[i].id \in Ids(log)

Logs == Seq(Ev(Creates))

StoreOK ==
    /\ kind \in [Cmd -> {"CreateTask", "Task:steer"}]
    /\ cloud \in Logs /\ Chain(cloud)
    /\ lease \in [worker : Worker \cup {"none"}, gen : Nat, live : BOOLEAN] /\ lease.gen <= Budget
    /\ row \in [Cmd -> {"none", "PENDING", "ACCEPTED", "REJECTED"}] /\ queue \in Seq(Cmd)

RestOK == api \subseteq Cmd \X {"relay", "append"} /\ faults \in Nat

DisksOK ==
    /\ core \in [Worker -> Logs] /\ st \in [Worker -> Cursors] /\ host \in [Worker -> Host]
    /\ \A w \in Worker : host[w].gen <= lease.gen

WorkersOK == \A w \in Worker : Sound(cloud, core[w], st[w], host[w], w)

IInv == StoreOK /\ RestOK /\ DisksOK /\ WorkersOK

-----------------------------------------------------------------------------
(* How a worker stays sound                                                *)

\* The cloud log grows, whoever adds to it.
LEMMA SoundCloud ==
    ASSUME NEW S, NEW l \in Seq(S), NEW m \in Seq(S), Grows(l, m), NEW c \in Seq(S),
           NEW s \in Cursors, NEW h \in Host, NEW w, Sound(l, c, s, h, w)
    PROVE  Sound(m, c, s, h, w)
<1>1. Ids(l) \subseteq Ids(m)
  BY GrowsFacts
<1>2. Len(l) <= Len(m) /\ Len(l) \in Nat /\ Len(m) \in Nat /\ \A i \in 1 .. Len(l) : m[i] = l[i]
  BY DEF Grows
<1>3. s.imported \in Nat /\ s.exported \in Nat /\ h.upto \in Nat /\ h.base \in Nat
  BY DEF Cursors, Host
<1>4. s.imported <= Len(m) /\ s.exported <= Len(c) /\ There(m, c, 1, s.imported)
  <2>1. s.imported <= Len(l) /\ s.exported <= Len(c) /\ There(l, c, 1, s.imported)
    BY DEF Sound
  <2>2. \A i \in 1 .. s.imported : m[i] = l[i]
    BY <1>2, <1>3, <2>1
  <2>3. There(m, c, 1, s.imported)
    BY <2>1, <2>2 DEF There
  <2> QED BY <1>2, <1>3, <2>1, <2>3
<1>5. h.base > 0 => There(c, m, h.base + 1, s.exported)
  BY <1>1 DEF Sound, There
<1>6. h.at = "import_save" => h.upto <= Len(m) /\ There(m, c, 1, h.upto)
  <2> SUFFICES ASSUME h.at = "import_save" PROVE h.upto <= Len(m) /\ There(m, c, 1, h.upto)
    OBVIOUS
  <2>1. h.upto <= Len(l) /\ There(l, c, 1, h.upto)
    BY DEF Sound
  <2>2. \A i \in 1 .. h.upto : m[i] = l[i]
    BY <1>2, <1>3, <2>1
  <2>3. There(m, c, 1, h.upto)
    BY <2>1, <2>2 DEF There
  <2> QED BY <1>2, <1>3, <2>1, <2>3
<1>7. h.at = "mirror_save" => There(c, m, s.exported + 1, h.upto)
  BY <1>1 DEF Sound, There
<1>8. \A i \in DOMAIN c : c[i].id[1] = w \/ c[i].id \in Ids(m)
  BY <1>1 DEF Sound
<1>9. /\ h.at \in {"import", "import_save"} => h.base = 0
      /\ h.at \in {"mirror", "mirror_save"} =>
           h.upto <= Len(c) /\ h.next \in {"pending", "complete", "stopped"}
  BY DEF Sound
<1> QED BY <1>4, <1>5, <1>6, <1>7, <1>8, <1>9 DEF Sound

\* The Core of the worker records events of its own.
LEMMA SoundCore ==
    ASSUME NEW S, NEW l \in Seq(S), NEW c \in Seq(S), NEW d \in Seq(S), Grows(c, d),
           NEW s \in Cursors, NEW h \in Host, NEW w, Sound(l, c, s, h, w),
           \A i \in DOMAIN d : i \in DOMAIN c \/ d[i].id[1] = w \/ d[i].id \in Ids(l)
    PROVE  Sound(l, d, s, h, w)
<1>1. Ids(c) \subseteq Ids(d)
  BY GrowsFacts
<1>2. Len(c) <= Len(d) /\ Len(c) \in Nat /\ Len(d) \in Nat /\ \A i \in 1 .. Len(c) : d[i] = c[i]
  BY DEF Grows
<1>3. s.imported \in Nat /\ s.exported \in Nat /\ h.upto \in Nat /\ h.base \in Nat
  BY DEF Cursors, Host
<1>4. s.imported <= Len(l) /\ s.exported <= Len(c) /\ s.exported <= Len(d) /\ There(l, d, 1, s.imported)
  BY <1>1, <1>2, <1>3 DEF Sound, There
<1>5. h.base > 0 => There(d, l, h.base + 1, s.exported)
  <2> SUFFICES ASSUME h.base > 0 PROVE There(d, l, h.base + 1, s.exported)
    OBVIOUS
  <2>1. There(c, l, h.base + 1, s.exported)
    BY DEF Sound
  <2>2. \A i \in h.base + 1 .. s.exported : d[i] = c[i]
    BY <1>2, <1>3, <1>4
  <2> QED BY <2>1, <2>2 DEF There
<1>6. h.at = "import_save" => h.upto <= Len(l) /\ There(l, d, 1, h.upto)
  BY <1>1 DEF Sound, There
<1>7. h.at \in {"mirror", "mirror_save"} => h.upto <= Len(c) /\ h.upto <= Len(d)
  BY <1>2, <1>3 DEF Sound
<1>8. h.at = "mirror_save" => There(d, l, s.exported + 1, h.upto)
  <2> SUFFICES ASSUME h.at = "mirror_save" PROVE There(d, l, s.exported + 1, h.upto)
    OBVIOUS
  <2>1. There(c, l, s.exported + 1, h.upto) /\ h.upto <= Len(c)
    BY DEF Sound
  <2>2. \A i \in s.exported + 1 .. h.upto : d[i] = c[i]
    BY <1>2, <1>3, <2>1
  <2> QED BY <2>1, <2>2 DEF There
<1>9. ASSUME NEW i \in DOMAIN d PROVE d[i].id[1] = w \/ d[i].id \in Ids(l)
  <2>1. CASE i \in DOMAIN c
    <3>1. d[i] = c[i]
      BY <2>1 DEF Grows
    <3> QED BY <2>1, <3>1 DEF Sound
  <2> QED BY <2>1
<1>10. /\ h.at \in {"import", "import_save"} => h.base = 0
       /\ h.at \in {"mirror", "mirror_save"} => h.next \in {"pending", "complete", "stopped"}
  BY DEF Sound
<1> QED BY <1>4, <1>5, <1>6, <1>7, <1>8, <1>9, <1>10 DEF Sound

\* The worker goes on to a step that owes nothing more.
LEMMA SoundHost ==
    ASSUME NEW l, NEW c, NEW s, NEW h, NEW g, NEW w, Sound(l, c, s, h, w),
           ~(0 > 0), g.base \in {0, h.base}, g.at \in {"import", "import_save"} => g.base = 0,
           \/ g.at \notin {"import_save", "mirror", "mirror_save"}
           \/ g.at = h.at /\ g.upto = h.upto /\ g.next = h.next
           \/ /\ g.at = "mirror" /\ g.upto <= Len(c)
              /\ g.next \in {"pending", "complete", "stopped"}
    PROVE  Sound(l, c, s, g, w)
BY DEF Sound

-----------------------------------------------------------------------------
(* Steps of one worker, and of none                                        *)

\* What a command does is settled when it is made.
LEMMA SameKind ==
    ASSUME kind' = kind
    PROVE  Creates' = Creates /\ Logs' = Logs
BY DEF Creates, Logs, Ev

Lease == [worker : Worker \cup {"none"}, gen : Nat, live : BOOLEAN]

\* Generations are ordered.
LEMMA GenTrans ==
    ASSUME NEW a \in Nat, NEW b \in Nat, NEW c \in Nat, a <= b, b <= c
    PROVE  a <= c
OBVIOUS

\* A step of one worker keeps the others sound: they know only what a growing
\* cloud log and a growing generation leave true.
LEMMA WorkerStep ==
    ASSUME IInv, NEW w \in Worker, kind' = kind, cloud' \in Logs, Grows(cloud, cloud'),
           lease' \in Lease, lease.gen <= lease'.gen,
           NEW c \in Logs, NEW s \in Cursors, NEW h \in Host,
           core' = [core EXCEPT ![w] = c], st' = [st EXCEPT ![w] = s], host' = [host EXCEPT ![w] = h],
           h.gen <= lease'.gen, Sound(cloud', c, s, h, w)
    PROVE  DisksOK' /\ WorkersOK'
<1>1. /\ core \in [Worker -> Logs] /\ st \in [Worker -> Cursors] /\ host \in [Worker -> Host]
      /\ cloud \in Logs /\ lease \in Lease
  BY DEF IInv, DisksOK, StoreOK, Lease
<1>2. core' \in [Worker -> Logs] /\ st' \in [Worker -> Cursors] /\ host' \in [Worker -> Host]
  BY <1>1
<1>3. Logs' = Logs
  BY SameKind
<1>4. ASSUME NEW v \in Worker PROVE host'[v].gen <= lease'.gen
  <2>1. CASE v = w
    BY <1>1, <2>1
  <2>2. CASE v # w
    <3>1. host'[v] = host[v] /\ host[v] \in Host
      BY <1>1, <2>2
    <3>2. host[v].gen <= lease.gen
      BY DEF IInv, DisksOK
    <3>3. host[v].gen \in Nat
      BY <3>1 DEF Host
    <3>4. lease.gen \in Nat /\ lease'.gen \in Nat
      BY <1>1 DEF Lease
    <3> QED BY <3>1, <3>2, <3>3, <3>4, GenTrans
  <2> QED BY <2>1, <2>2
<1>5. ASSUME NEW v \in Worker PROVE Sound(cloud', core'[v], st'[v], host'[v], v)
  <2>1. CASE v = w
    <3>1. core'[w] = c /\ st'[w] = s /\ host'[w] = h
      BY <1>1
    <3> QED BY <2>1, <3>1
  <2>2. CASE v # w
    <3>1. core'[v] = core[v] /\ st'[v] = st[v] /\ host'[v] = host[v]
      BY <1>1, <2>2
    <3>2. core[v] \in Logs /\ st[v] \in Cursors /\ host[v] \in Host
      BY <1>1
    <3>3. Sound(cloud, core[v], st[v], host[v], v)
      BY DEF IInv, WorkersOK
    <3>4. Sound(cloud', core[v], st[v], host[v], v)
      BY <1>1, <3>2, <3>3, SoundCloud DEF Logs
    <3> QED BY <3>1, <3>4
  <2> QED BY <2>1, <2>2
<1> QED BY <1>2, <1>3, <1>4, <1>5 DEF DisksOK, WorkersOK

\* A step of the cloud alone keeps every worker sound.
LEMMA SharedStep ==
    ASSUME IInv, UNCHANGED <<kind, core, st, host>>, cloud' \in Logs, Grows(cloud, cloud'),
           lease'.gen = lease.gen
    PROVE  DisksOK' /\ WorkersOK'
<1>1. /\ core \in [Worker -> Logs] /\ st \in [Worker -> Cursors] /\ host \in [Worker -> Host]
      /\ cloud \in Logs /\ \A w \in Worker : host[w].gen <= lease.gen
  BY DEF IInv, DisksOK, StoreOK
<1>2. Logs' = Logs
  BY SameKind
<1>3. ASSUME NEW v \in Worker PROVE Sound(cloud', core[v], st[v], host[v], v)
  <2>2. core[v] \in Logs /\ st[v] \in Cursors /\ host[v] \in Host
    BY <1>1
  <2>3. Sound(cloud, core[v], st[v], host[v], v)
    BY DEF IInv, WorkersOK
  <2> QED BY <1>1, <2>2, <2>3, SoundCloud DEF Logs
<1> QED BY <1>1, <1>2, <1>3 DEF DisksOK, WorkersOK

\* A log that stays as it is grows.
LEMMA GrowsSelf ==
    ASSUME NEW S, NEW l \in Seq(S)
    PROVE  Grows(l, l)
<1>1. Len(l) \in Nat
  OBVIOUS
<1> QED BY <1>1 DEF Grows

\* What the invariant says of one worker.
LEMMA WorkerFacts ==
    ASSUME IInv, NEW w \in Worker
    PROVE  /\ core \in [Worker -> Logs] /\ st \in [Worker -> Cursors] /\ host \in [Worker -> Host]
           /\ core[w] \in Logs /\ st[w] \in Cursors /\ host[w] \in Host /\ cloud \in Logs
           /\ Sound(cloud, core[w], st[w], host[w], w)
           /\ faults \in Nat /\ lease \in Lease /\ host[w].gen <= lease.gen
BY DEF IInv, DisksOK, StoreOK, Lease, RestOK, WorkersOK

\* Steps of one worker that leave the store and the requests alone ...
LEMMA LocalStep ==
    ASSUME IInv, UNCHANGED <<store, api>>, faults' \in Nat, NEW w \in Worker,
           NEW d \in Logs, NEW s \in Cursors, NEW h \in Host, h.gen \in {0, host[w].gen},
           core' = [core EXCEPT ![w] = d], st' = [st EXCEPT ![w] = s], host' = [host EXCEPT ![w] = h],
           Sound(cloud, d, s, h, w)
    PROVE  IInv'
<1>1. cloud \in Logs /\ lease \in Lease /\ host[w].gen <= lease.gen
  BY WorkerFacts
<1>2. kind' = kind /\ cloud' = cloud /\ lease' = lease /\ row' = row /\ queue' = queue /\ api' = api
  BY DEF store
<1>3. lease.gen \in Nat /\ lease.gen <= lease.gen /\ h.gen <= lease.gen
  <2>1. lease.gen \in Nat
    BY <1>1 DEF Lease
  <2> QED BY <1>1, <2>1
<1>4. Grows(cloud, cloud)
  BY <1>1, GrowsSelf DEF Logs
<1>5. DisksOK' /\ WorkersOK'
  <2>1. cloud' \in Logs /\ Grows(cloud, cloud') /\ lease' \in Lease /\ lease.gen <= lease'.gen /\ h.gen <= lease'.gen
    BY <1>1, <1>2, <1>3, <1>4
  <2>2. Sound(cloud', d, s, h, w)
    BY <1>2
  <2> QED BY <1>2, <2>1, <2>2, WorkerStep
<1>6. StoreOK' /\ RestOK'
  <2>1. Logs' = Logs
    BY <1>2, SameKind
  <2>2. StoreOK /\ RestOK
    BY DEF IInv
  <2>3. RestOK'
    BY <1>2, <2>2 DEF RestOK
  <2>4. StoreOK'
    BY <1>2, <2>1, <2>2 DEF StoreOK, Chain
  <2> QED BY <2>3, <2>4
<1> QED BY <1>5, <1>6 DEF IInv

\* ... and its disks too.
LEMMA HostStep ==
    ASSUME IInv, UNCHANGED <<store, api, disks>>, faults' \in Nat,
           NEW w \in Worker, NEW h \in Host, host' = [host EXCEPT ![w] = h], h.gen \in {0, host[w].gen},
           Sound(cloud, core[w], st[w], h, w)
    PROVE  IInv'
<1>1. core \in [Worker -> Logs] /\ st \in [Worker -> Cursors] /\ core[w] \in Logs /\ st[w] \in Cursors
  BY WorkerFacts
<1>2. core' = [core EXCEPT ![w] = core[w]] /\ st' = [st EXCEPT ![w] = st[w]]
  BY <1>1 DEF disks
<1> QED BY <1>1, <1>2, LocalStep

-----------------------------------------------------------------------------
(* Initially                                                               *)

\* Nothing has been asked and nobody owns the session.
LEMMA InitHolds == CInit => IInv
<1> SUFFICES ASSUME CInit PROVE IInv
  OBVIOUS
<1> USE DEF CInit
<1> DEFINE C == Creates
<1>1. C \in SUBSET Cmd /\ "none" \notin C
  BY CloudAssumption DEF Creates
<1> HIDE DEF C
<1> DEFINE nil == <<>>
<1>2. nil \in Seq(Ev(C)) /\ Of(nil, "session") = {} /\ Chain(nil)
  BY DEF Of, Chain
<1> DEFINE e1 == Event(nil, "api", "session", "created", "none")
           born == <<e1>>
           e2 == Event(born, "api", "t", "created", "none")
<1> HIDE DEF nil
<1>3. e1 \in Ev(C) /\ e1.prev = HeadId(nil, e1.agg)
  <2>1. "api" \in Worker \cup {"api"} /\ "session" \in Agg /\ "none" \in Cmd \cup {"none"}
    BY DEF Agg
  <2>2. "created" \in {"created", "input", "run", "stop", "lease"}
    OBVIOUS
  <2> QED BY ONLY <1>1, <1>2, <2>1, <2>2, EventFacts, SMTT(60)
<1> HIDE DEF e1
<1>4. born \in Seq(Ev(C)) /\ Chain(born)
  <2>2. Chain(Append(nil, e1))
    BY <1>2, <1>3, ChainAppend
  <2>3. Append(nil, e1) = <<e1>>
    BY DEF nil
  <2> QED BY <1>3, <2>2, <2>3
<1> HIDE DEF born
<1>5. e2 \in Ev(C) /\ e2.prev = HeadId(born, e2.agg)
  <2>1. "api" \in Worker \cup {"api"} /\ "t" \in Agg /\ "none" \in Cmd \cup {"none"}
    BY DEF Agg, Task
  <2>2. "created" \in {"created", "input", "run", "stop", "lease"}
    OBVIOUS
  <2> QED BY ONLY <1>1, <1>4, <2>1, <2>2, EventFacts, SMTT(60)
<1> HIDE DEF e2
<1>6. Append(born, e2) \in Seq(Ev(C)) /\ Chain(Append(born, e2))
  BY <1>4, <1>5, ChainAppend
<1>7. cloud = born \/ cloud = Append(born, e2)
  BY DEF e1, e2, born, nil
<1>8. cloud \in Logs /\ Chain(cloud)
  BY <1>4, <1>6, <1>7 DEF Logs, C
<1>9. StoreOK
  <2>1. 0 \in Nat /\ Budget \in Nat /\ 0 <= Budget
    BY CloudAssumption
  <2>2. lease = [worker |-> "none", gen |-> 0, live |-> FALSE] /\ lease.gen = 0
    OBVIOUS
  <2>3. lease \in [worker : Worker \cup {"none"}, gen : Nat, live : BOOLEAN] /\ lease.gen <= Budget
    BY <2>1, <2>2
  <2> QED BY <1>8, <2>3 DEF StoreOK
<1>10. RestOK
  BY DEF RestOK
<1>11. Idle \in Host /\ Idle.gen = 0 /\ Idle.base = 0 /\ Idle.at = "idle"
  BY DEF Idle, Host
<1>12. DisksOK
  <2>1. core \in [Worker -> Logs]
    BY <1>2 DEF Logs, C, nil
  <2>2. st \in [Worker -> Cursors]
    BY DEF Cursors
  <2>3. host \in [Worker -> Host] /\ \A w \in Worker : host[w].gen = 0
    BY <1>11
  <2>4. lease.gen = 0 /\ 0 <= 0
    OBVIOUS
  <2> QED BY <2>1, <2>2, <2>3, <2>4 DEF DisksOK
<1>13. ASSUME NEW w \in Worker PROVE Sound(cloud, core[w], st[w], host[w], w)
  <2>1. core[w] = <<>> /\ st[w] = [imported |-> 0, exported |-> 0] /\ host[w] = Idle
    OBVIOUS
  <2>2. Len(cloud) \in Nat /\ Len(<<>>) = 0 /\ DOMAIN <<>> = {}
    BY <1>8 DEF Logs
  <2>3. 0 <= Len(cloud) /\ 0 <= 0 /\ ~(0 > 0) /\ 1 .. 0 = {}
    BY <2>2
  <2> QED BY <1>11, <2>1, <2>2, <2>3 DEF Sound, There
<1> QED BY <1>9, <1>10, <1>12, <1>13 DEF IInv, WorkersOK

-----------------------------------------------------------------------------
(* The API and the lease                                                   *)

\* What the invariant says of the cloud's tables.
LEMMA StoreFacts ==
    ASSUME IInv
    PROVE  /\ cloud \in Logs /\ Chain(cloud) /\ lease \in Lease /\ lease.gen \in Nat /\ lease.gen <= Budget
           /\ row \in [Cmd -> {"none", "PENDING", "ACCEPTED", "REJECTED"}] /\ queue \in Seq(Cmd)
           /\ api \subseteq Cmd \X {"relay", "append"} /\ faults \in Nat
           /\ kind \in [Cmd -> {"CreateTask", "Task:steer"}]
           /\ Grows(cloud, cloud)
<1>1. cloud \in Logs
  BY DEF IInv, StoreOK
<1>2. Grows(cloud, cloud)
  BY <1>1, GrowsSelf DEF Logs
<1>3. lease \in Lease
  BY DEF IInv, StoreOK, Lease
<1>4. lease.gen \in Nat
  BY <1>3 DEF Lease
<1> QED BY <1>1, <1>2, <1>3, <1>4 DEF IInv, StoreOK, RestOK

\* A client sends a command, or sends it again.
LEMMA Requested ==
    ASSUME IInv, NEW c \in Cmd, request(c)
    PROVE  IInv'
<1>1. UNCHANGED <<kind, cloud, lease, row, queue, core, st, host, faults>>
  BY DEF request, store, disks
<1>2. api' \subseteq Cmd \X {"relay", "append"}
  BY StoreFacts DEF request
<1>3. DisksOK' /\ WorkersOK'
  BY <1>1, StoreFacts, SharedStep
<1>4. StoreOK' /\ RestOK'
  BY <1>1, <1>2, StoreFacts, SameKind DEF StoreOK, RestOK, Chain, Lease
<1> QED BY <1>3, <1>4 DEF IInv

\* The API queues a command for the owner.
LEMMA Enqueued ==
    ASSUME IInv, NEW c \in Cmd, enqueue(c)
    PROVE  IInv'
<1>1. UNCHANGED <<kind, cloud, lease, core, st, host, faults>>
  BY DEF enqueue, disks
<1>2. api' \subseteq Cmd \X {"relay", "append"}
  BY StoreFacts DEF enqueue
<1>3. DisksOK' /\ WorkersOK'
  BY <1>1, StoreFacts, SharedStep
<1>4. row' \in [Cmd -> {"none", "PENDING", "ACCEPTED", "REJECTED"}] /\ queue' \in Seq(Cmd)
  <2>1. row \in [Cmd -> {"none", "PENDING", "ACCEPTED", "REJECTED"}] /\ queue \in Seq(Cmd)
    BY StoreFacts
  <2>2. CASE row' = row /\ queue' = queue
    BY <2>1, <2>2
  <2>3. CASE row' = [row EXCEPT ![c] = "PENDING"] /\ queue' = Append(queue, c)
    BY <2>1, <2>3
  <2> QED BY <2>2, <2>3 DEF enqueue
<1>5. StoreOK' /\ RestOK'
  BY <1>1, <1>2, <1>4, StoreFacts, SameKind DEF StoreOK, RestOK, Chain, Lease
<1> QED BY <1>3, <1>5 DEF IInv

\* append adds an event that continues its aggregate, and the API's id is no
\* worker's.
LEMMA AppendFacts ==
    ASSUME IInv, NEW c \in Cmd, append(c)
    PROVE  /\ cloud' \in Logs /\ Grows(cloud, cloud') /\ Chain(cloud')
           /\ \A i \in DOMAIN cloud' : i \in DOMAIN cloud \/ cloud'[i].id[1] = "api"
<1> DEFINE a == IF c \in Creates THEN c ELSE "t"
           type == IF c \in Creates THEN "created" ELSE "input"
           by == "api"
           e == Event(cloud, by, a, type, c)
<1>0. cloud \in Seq(Ev(Creates)) /\ Chain(cloud) /\ Grows(cloud, cloud)
  BY StoreFacts DEF Logs
<1>1. CASE cloud' = cloud
  BY <1>0, <1>1 DEF Logs
<1>2. CASE row[c] = "none" /\ (c \in Creates => Of(cloud, a) = {})
  <2>1. a \in Agg /\ by \in Worker \cup {"api"} /\ type \in {"created", "input", "run", "stop", "lease"} /\ c \in Cmd \cup {"none"}
    BY DEF Agg, Task
  <2>2. type = "created" /\ c \in Creates => a = c /\ Of(cloud, a) = {}
    BY <1>2
  <2>3. Creates \in SUBSET Cmd
    BY DEF Creates
  <2>4. cloud' = Append(cloud, e)
    BY <1>2 DEF append
  <2>5. cloud \in Seq(Ev(Creates))
    BY <1>0
  <2> HIDE DEF a, type, by
  <2>6. e \in Ev(Creates) /\ e.id[1] = by /\ e.prev = HeadId(cloud, e.agg)
    BY ONLY <2>1, <2>2, <2>3, <2>5, EventFacts, SMTT(60)
  <2> HIDE DEF e
  <2> QED BY <1>0, <2>4, <2>6, GrowsAppend, ChainAppend DEF Logs, by
<1> QED BY <1>1, <1>2 DEF append

\* The API appends to the cloud log while there is no owner.
LEMMA Appended ==
    ASSUME IInv, NEW c \in Cmd, append(c)
    PROVE  IInv'
<1>1. UNCHANGED <<kind, lease, queue, core, st, host, faults>>
  BY DEF append, disks
<1>2. api' \subseteq Cmd \X {"relay", "append"}
  BY StoreFacts DEF append
<1>3. DisksOK' /\ WorkersOK'
  BY <1>1, AppendFacts, SharedStep
<1>4. row' \in [Cmd -> {"none", "PENDING", "ACCEPTED", "REJECTED"}]
  BY StoreFacts DEF append
<1>5. StoreOK' /\ RestOK'
  BY <1>1, <1>2, <1>4, StoreFacts, AppendFacts, SameKind DEF StoreOK, RestOK, Chain, Lease
<1> QED BY <1>3, <1>5 DEF IInv

\* The lease expires: a worker that has not noticed keeps its generation.
LEMMA Expired ==
    ASSUME IInv, expire
    PROVE  IInv'
<1>1. UNCHANGED <<kind, cloud, row, queue, api, core, st, host, faults>>
  BY DEF expire, disks
<1>2. lease' = [lease EXCEPT !.live = FALSE]
  BY DEF expire
<1>3. lease' \in Lease /\ lease'.gen = lease.gen
  BY <1>2, StoreFacts DEF Lease
<1>4. DisksOK' /\ WorkersOK'
  BY <1>1, <1>3, StoreFacts, SharedStep
<1>5. StoreOK' /\ RestOK'
  BY <1>1, <1>3, StoreFacts, SameKind DEF StoreOK, RestOK, Chain, Lease
<1> QED BY <1>4, <1>5 DEF IInv

-----------------------------------------------------------------------------
(* What a Core records                                                     *)

\* SetToSeq lists a finite set.
LEMMA SetToSeqFacts ==
    ASSUME NEW T, IsFiniteSet(T)
    PROVE  SetToSeq(T) \in [1 .. Cardinality(T) -> T] /\ Cardinality(T) \in Nat
<1>1. Cardinality(T) \in Nat /\ ExistsBijection(1 .. Cardinality(T), T)
  BY FS_CardinalityType
<1>2. \E f \in [1 .. Cardinality(T) -> T] : IsInjective(f)
  BY <1>1, Zenon DEF ExistsBijection, Bijection, Injection
<1>3. SetToSeq(T) \in [1 .. Cardinality(T) -> T]
  BY <1>2, Zenon DEF SetToSeq
<1> QED BY <1>1, <1>3

\* There are finitely many tasks.
LEMMA TaskFinite == IsFiniteSet(Task)
<1>1. IsFiniteSet(Cmd)
  BY CloudAssumption
<1>2. IsFiniteSet(Cmd \cup {"t"})
  BY <1>1, FS_AddElement
<1>3. Task = Cmd \cup {"t"}
  BY Zenon DEF Task
<1> QED BY <1>2, <1>3

\* A Core that starts adds events of its own.
LEMMA ReconciledFacts ==
    ASSUME IInv, NEW w \in Worker
    PROVE  /\ Reconciled(w) \in Logs /\ Grows(core[w], Reconciled(w))
           /\ \A i \in DOMAIN Reconciled(w) : i \in DOMAIN core[w] \/ Reconciled(w)[i].id[1] = w
<1> DEFINE C == Creates
           c == core[w]
           T == {t \in Task : State(core[w], t) = "Running"}
           ran == SetToSeq(T)
           n == Cardinality(T)
           stop(i) == [Event(c, w, ran[i], "stop", "none") EXCEPT !.id = <<w, Len(c) + i>>]
           d == [i \in DOMAIN ran |-> stop(i)]
<1>1. c \in Seq(Ev(C)) /\ C \in SUBSET Cmd
  BY WorkerFacts DEF Logs, Creates
<1>2. ran \in [1 .. n -> T] /\ n \in Nat /\ T \subseteq Task
  <2>1. T \in SUBSET Task
    OBVIOUS
  <2> HIDE DEF T
  <2>2. IsFiniteSet(T)
    BY <2>1, TaskFinite, FS_Subset
  <2> QED BY <2>1, <2>2, SetToSeqFacts
<1>3. Reconciled(w) = c \o d
  BY DEF Reconciled
<1> HIDE DEF C, c, T, ran, n
<1>4. ASSUME NEW i \in 1 .. n PROVE stop(i) \in Ev(C) /\ stop(i).id[1] = w
  <2> DEFINE e == Event(c, w, ran[i], "stop", "none")
             id == <<w, Len(c) + i>>
  <2>1. ran[i] \in Agg /\ w \in Worker \cup {"api"} /\ "none" \in Cmd \cup {"none"}
    BY <1>2 DEF Agg
  <2>2. "stop" \in {"created", "input", "run", "stop", "lease"} /\ "stop" # "created"
    OBVIOUS
  <2>3. e \in Ev(C) /\ e.type = "stop"
    <3>1. e \in Ev(C)
      BY ONLY <1>1, <2>1, <2>2, EventFacts, SMTT(60)
    <3>2. e.type = "stop"
      BY DEF Event
    <3> QED BY <3>1, <3>2
  <2>4. id \in Id /\ id[1] = w
    <3>1. Len(c) \in Nat /\ i \in Nat /\ i # 0
      BY <1>1, <1>2
    <3> QED BY <3>1 DEF Id
  <2>5. e \in Event_
    BY <2>3 DEF Ev
  <2>6. stop(i) = [e EXCEPT !.id = id]
    OBVIOUS
  <2> HIDE DEF e, id, stop
  <2>7. stop(i) \in Event_ /\ stop(i).id = id /\ stop(i).type = e.type
    BY <2>4, <2>5, <2>6 DEF Event_
  <2> QED BY <2>2, <2>3, <2>4, <2>7 DEF Ev
<1> HIDE DEF stop
<1>5. d \in Seq(Ev(C)) /\ DOMAIN d = 1 .. n /\ \A i \in DOMAIN d : d[i].id[1] = w
  <2>1. DOMAIN ran = 1 .. n
    BY <1>2
  <2> QED BY <1>2, <1>4, <2>1
<1> HIDE DEF d
<1>6. /\ c \o d \in Seq(Ev(C)) /\ Grows(c, c \o d)
      /\ \A i \in DOMAIN (c \o d) : i \in DOMAIN c \/ (i - Len(c) \in DOMAIN d /\ (c \o d)[i] = d[i - Len(c)])
  <2>1. c \in Seq(Ev(C)) /\ d \in Seq(Ev(C))
    BY <1>1, <1>5
  <2> QED BY ONLY <2>1, GrowsConcat
<1>7. ASSUME NEW i \in DOMAIN (c \o d), i \notin DOMAIN c PROVE (c \o d)[i].id[1] = w
  <2>1. i - Len(c) \in DOMAIN d /\ (c \o d)[i] = d[i - Len(c)]
    BY <1>6, <1>7
  <2> QED BY <1>5, <2>1
<1> QED BY <1>3, <1>6, <1>7 DEF Logs, C, c

\* So does one that records a step.
LEMMA RecordsFacts ==
    ASSUME IInv, NEW w \in Worker, NEW a \in Agg, NEW type \in {"created", "input", "run", "stop", "lease"},
           NEW cmd \in Cmd \cup {"none"}, type = "created" /\ cmd \in Creates => a = cmd /\ Of(core[w], a) = {},
           Records(w, a, type, cmd)
    PROVE  \E d \in Logs : /\ core' = [core EXCEPT ![w] = d] /\ Grows(core[w], d)
                           /\ \A i \in DOMAIN d : i \in DOMAIN core[w] \/ d[i].id[1] = w
<1> DEFINE c == core[w]
           e == Event(c, w, a, type, cmd)
<1>1. c \in Seq(Ev(Creates)) /\ Creates \in SUBSET Cmd /\ w \in Worker \cup {"api"}
  BY WorkerFacts DEF Logs, Creates
<1>2. type = "created" /\ cmd \in Creates => a = cmd /\ Of(c, a) = {}
  OBVIOUS
<1>3. core' = [core EXCEPT ![w] = Append(c, e)]
  BY DEF Records
<1> HIDE DEF c
<1>4. e \in Ev(Creates) /\ e.id[1] = w
  BY ONLY <1>1, <1>2, a \in Agg, type \in {"created", "input", "run", "stop", "lease"},
          cmd \in Cmd \cup {"none"}, EventFacts, SMTT(60)
<1> HIDE DEF e
<1>5. /\ Append(c, e) \in Logs /\ Grows(c, Append(c, e))
      /\ \A i \in DOMAIN Append(c, e) : i \in DOMAIN c \/ Append(c, e)[i] = e
  BY <1>1, <1>4, GrowsAppend DEF Logs
<1>6. \A i \in DOMAIN Append(c, e) : i \in DOMAIN c \/ Append(c, e)[i].id[1] = w
  BY <1>4, <1>5
<1> QED BY <1>3, <1>5, <1>6 DEF c

\* A worker whose Core records events of its own, and that goes on to a step
\* that owes nothing more.
LEMMA CoreStep ==
    ASSUME IInv, UNCHANGED <<store, api, st>>, faults' \in Nat,
           NEW w \in Worker, NEW d \in Logs, core' = [core EXCEPT ![w] = d], Grows(core[w], d),
           \A i \in DOMAIN d : i \in DOMAIN core[w] \/ d[i].id[1] = w,
           NEW h \in Host, host' = [host EXCEPT ![w] = h], h.gen = host[w].gen,
           Sound(cloud, d, st[w], host[w], w) => Sound(cloud, d, st[w], h, w)
    PROVE  IInv'
<1>1. /\ st \in [Worker -> Cursors] /\ core[w] \in Logs /\ st[w] \in Cursors /\ host[w] \in Host
      /\ cloud \in Logs /\ Sound(cloud, core[w], st[w], host[w], w)
  BY WorkerFacts
<1>2. Sound(cloud, d, st[w], host[w], w)
  BY <1>1, SoundCore DEF Logs
<1>3. st' = [st EXCEPT ![w] = st[w]]
  BY <1>1
<1> QED BY <1>1, <1>2, <1>3, LocalStep

-----------------------------------------------------------------------------
(* Claiming and importing                                                  *)

\* A worker without a session knows nothing.
LEMMA IdleFacts ==
    Idle \in Host /\ Idle.gen = 0 /\ Idle.base = 0 /\ Idle.at = "idle"
BY DEF Idle, Host

\* A worker claims the session under a new generation.
LEMMA Claimed ==
    ASSUME IInv, NEW w \in Worker, claim(w)
    PROVE  IInv'
<1> DEFINE d == Reconciled(w)
           g == lease.gen + 1
           h == [Idle EXCEPT !.at = "import", !.gen = g, !.up = TRUE]
<1>1. /\ core \in [Worker -> Logs] /\ st \in [Worker -> Cursors] /\ core[w] \in Logs /\ st[w] \in Cursors /\ host[w] \in Host
      /\ cloud \in Logs /\ lease \in Lease /\ Sound(cloud, core[w], st[w], host[w], w)
  BY WorkerFacts
<1>2. UNCHANGED <<kind, cloud, row, queue, api, st, faults>>
  BY DEF claim
<1>3. lease' = [worker |-> w, gen |-> g, live |-> TRUE] /\ core' = [core EXCEPT ![w] = d] /\ host' = [host EXCEPT ![w] = h]
  BY DEF claim
<1>4. g \in Nat /\ lease.gen <= g /\ g <= g /\ g <= Budget
  <2>1. lease.gen \in Nat /\ faults \in Nat /\ Budget \in Nat
    BY StoreFacts, CloudAssumption
  <2>2. lease.gen + faults < Budget
    BY DEF claim
  <2> QED BY <2>1, <2>2
<1> HIDE DEF g
<1>5. lease' \in Lease /\ lease'.gen = g
  BY <1>3, <1>4 DEF Lease
<1>6. h \in Host /\ h.gen = g /\ h.base = 0 /\ h.at = "import"
  BY <1>4, IdleFacts DEF Host
<1>7. /\ d \in Logs /\ Grows(core[w], d)
      /\ \A i \in DOMAIN d : i \in DOMAIN core[w] \/ d[i].id[1] = w
  BY ReconciledFacts
<1> HIDE DEF d, h
<1>8. Sound(cloud, d, st[w], host[w], w)
  BY <1>1, <1>7, SoundCore DEF Logs
<1>9. Sound(cloud, d, st[w], h, w)
  <2>1. ~(0 > 0)
    OBVIOUS
  <2> QED BY <1>6, <1>8, <2>1, SoundHost
<1>10. DisksOK' /\ WorkersOK'
  <2>1. cloud' \in Logs /\ Grows(cloud, cloud') /\ lease.gen <= lease'.gen /\ h.gen <= lease'.gen
    BY <1>1, <1>2, <1>4, <1>5, <1>6, StoreFacts
  <2>2. st' = [st EXCEPT ![w] = st[w]]
    BY <1>1, <1>2
  <2>3. Sound(cloud', d, st[w], h, w)
    BY <1>2, <1>9
  <2> QED BY <1>1, <1>2, <1>3, <1>5, <1>6, <1>7, <2>1, <2>2, <2>3, WorkerStep
<1>11. StoreOK' /\ RestOK'
  <2>1. Logs' = Logs
    BY <1>2, SameKind
  <2>2. RestOK'
    BY <1>2, StoreFacts DEF RestOK
  <2>3. lease' \in [worker : Worker \cup {"none"}, gen : Nat, live : BOOLEAN] /\ lease'.gen <= Budget
    BY <1>4, <1>5 DEF Lease
  <2>4. StoreOK'
    BY <1>2, <2>1, <2>3, StoreFacts DEF StoreOK, Chain
  <2> QED BY <2>2, <2>4
<1> QED BY <1>10, <1>11 DEF IInv

\* What import takes is there afterwards, whole.
LEMMA ImportSound ==
    ASSUME NEW S, NEW l \in Seq(S), NEW c \in Seq(S), NEW s \in Cursors, NEW h \in Host, NEW g \in Host, NEW w,
           Sound(l, c, s, h, w), h.at = "import",
           g.at = "import_save", g.upto = Len(l), g.base = h.base
    PROVE  Sound(l, Taken(c, SubSeq(l, s.imported + 1, Len(l))), s, g, w)
<1> DEFINE b == SubSeq(l, s.imported + 1, Len(l))
           d == Taken(c, b)
           n == s.imported
<1>1. n \in Nat /\ n <= Len(l) /\ Len(l) \in Nat /\ There(l, c, 1, n) /\ h.base = 0
  BY DEF Sound, Cursors
<1>0. /\ b \in Seq(S) /\ DOMAIN b = 1 .. Len(l) - n
      /\ \A k \in 1 .. Len(l) - n : b[k] = l[n + k]
  <2>1. b \in Seq(S) /\ Len(b) = Len(l) - n /\ Len(l) - n \in Nat
    BY <1>1
  <2>2. \A k \in 1 .. Len(l) - n : b[k] = l[n + k]
    BY <1>1
  <2> HIDE DEF b, n
  <2>3. DOMAIN b = 1 .. Len(l) - n
    BY <2>1
  <2> QED BY <2>1, <2>2, <2>3
<1> HIDE DEF b, n
<1>2. ASSUME NEW i \in 1 .. Len(l), ~(i <= n) PROVE i - n \in DOMAIN b /\ b[i - n] = l[i]
  <2>1. i - n \in 1 .. Len(l) - n /\ n + (i - n) = i
    BY <1>1, <1>2
  <2> QED BY <1>0, <2>1
<1>3. ASSUME NEW k \in DOMAIN b PROVE n + k \in DOMAIN l /\ b[k] = l[n + k]
  <2>1. k \in 1 .. Len(l) - n
    BY <1>0
  <2>2. n + k \in 1 .. Len(l) /\ DOMAIN l = 1 .. Len(l)
    BY <1>1, <2>1
  <2> QED BY <1>0, <2>1, <2>2
<1>4. /\ d \in Seq(S) /\ Grows(c, d) /\ \A i \in DOMAIN b : b[i].id \in Ids(d)
      /\ \A i \in DOMAIN d : i \in DOMAIN c \/ \E k \in DOMAIN b : b[k].id \notin Ids(c) /\ d[i] = b[k]
  BY <1>0, TakenFacts
<1> HIDE DEF d
<1>5. \A i \in DOMAIN d : i \in DOMAIN c \/ d[i].id[1] = w \/ d[i].id \in Ids(l)
  <2>1. \A k \in DOMAIN b : b[k].id \in Ids(l)
    BY <1>3, IdThere
  <2> QED BY <1>4, <2>1
<1>6. Sound(l, d, s, h, w)
  BY <1>4, <1>5, SoundCore
<1>7. There(l, d, 1, Len(l))
  <2> SUFFICES ASSUME NEW i \in 1 .. Len(l) PROVE l[i].id \in Ids(d)
    BY DEF There
  <2>1. CASE i <= n
    <3>1. i \in 1 .. n
      BY <1>1, <2>1
    <3>2. l[i].id \in Ids(c)
      BY <1>1, <3>1 DEF There
    <3>3. Ids(c) \subseteq Ids(d)
      BY <1>4, GrowsFacts
    <3> QED BY <3>2, <3>3
  <2>2. CASE ~(i <= n)
    BY <1>2, <1>4, <2>2
  <2> QED BY <2>1, <2>2
<1>8. Len(l) <= Len(l) /\ g.base = 0 /\ ~(0 > 0)
  BY <1>1
<1>9. Sound(l, d, s, g, w)
  BY <1>6, <1>7, <1>8 DEF Sound
<1> QED BY <1>9 DEF d, b, n

\* The cloud log is imported into the Core, whatever of it was there before.
LEMMA Imported ==
    ASSUME IInv, NEW w \in Worker, import(w)
    PROVE  IInv'
<1> DEFINE batch == SubSeq(cloud, st[w].imported + 1, Len(cloud))
           c == core[w]
<1>1. /\ core \in [Worker -> Logs] /\ st \in [Worker -> Cursors] /\ host \in [Worker -> Host]
      /\ c \in Logs /\ st[w] \in Cursors /\ host[w] \in Host /\ cloud \in Logs
      /\ Sound(cloud, c, st[w], host[w], w) /\ faults \in Nat
  BY WorkerFacts
<1>2. UNCHANGED <<store, api, st, faults>> /\ faults' \in Nat /\ st' = [st EXCEPT ![w] = st[w]]
  BY <1>1 DEF import
<1>3. host[w].at = "import" /\ ~(0 > 0)
  BY DEF import, At
<1>4. CASE Records(w, "session", "lease", "none") /\ host' = [host EXCEPT ![w].at = "pass", ![w].base = Len(c)]
  <2> DEFINE h == [host[w] EXCEPT !.at = "pass", !.base = Len(c)]
  <2>1. Len(c) \in Nat
    BY <1>1 DEF Logs
  <2>2. h \in Host /\ h.gen = host[w].gen /\ h.at = "pass" /\ h.base = Len(c)
    BY <1>1, <2>1 DEF Host
  <2>3. host' = [host EXCEPT ![w] = h]
    BY <1>1, <1>4
  <2>4. PICK d \in Logs : /\ core' = [core EXCEPT ![w] = d] /\ Grows(core[w], d)
                          /\ \A i \in DOMAIN d : i \in DOMAIN core[w] \/ d[i].id[1] = w
    <3>1. "session" \in Agg /\ "lease" \in {"created", "input", "run", "stop", "lease"}
          /\ "none" \in Cmd \cup {"none"} /\ "lease" # "created"
      BY DEF Agg
    <3>2. Records(w, "session", "lease", "none")
      BY <1>4
    <3> QED BY <3>1, <3>2, RecordsFacts
  <2>5. There(d, cloud, Len(c) + 1, st[w].exported)
    <3>1. st[w].exported <= Len(c) /\ st[w].exported \in Nat
      BY <1>1 DEF Sound, Cursors
    <3>2. Len(c) + 1 .. st[w].exported = {}
      BY <2>1, <3>1
    <3> QED BY <3>2 DEF There
  <2> HIDE DEF h
  <2>6. ASSUME Sound(cloud, d, st[w], host[w], w) PROVE Sound(cloud, d, st[w], h, w)
    BY <2>2, <2>5, <2>6 DEF Sound
  <2> QED BY <1>2, <2>2, <2>3, <2>4, <2>6, CoreStep
<1>5. CASE /\ core' = [core EXCEPT ![w] = Taken(c, batch)]
           /\ host' = [host EXCEPT ![w].at = "import_save", ![w].upto = Len(cloud),
                         ![w].next = IF Fresh(core[w], batch) = <<>> THEN "present" ELSE "imported"]
  <2> DEFINE n == IF Fresh(core[w], batch) = <<>> THEN "present" ELSE "imported"
             h == [host[w] EXCEPT !.at = "import_save", !.upto = Len(cloud), !.next = n]
             d == Taken(c, batch)
  <2>1. Len(cloud) \in Nat /\ n \in {"present", "imported"}
    BY <1>1 DEF Logs
  <2>2. host' = [host EXCEPT ![w] = h]
    BY <1>1, <1>5
  <2> HIDE DEF n
  <2>3. /\ h \in Host /\ h.gen = host[w].gen /\ h.at = "import_save" /\ h.upto = Len(cloud)
        /\ h.base = host[w].base
    BY <1>1, <2>1 DEF Host
  <2> HIDE DEF h
  <2>4. d \in Logs
    <3>1. batch \in Seq(Ev(Creates))
      <4>1. st[w].imported \in Nat
        BY <1>1 DEF Cursors
      <4> QED BY <1>1, <4>1 DEF Logs
    <3> HIDE DEF batch
    <3> QED BY <1>1, <3>1, TakenFacts DEF Logs
  <2>5. Sound(cloud, d, st[w], h, w)
    BY <1>1, <1>3, <2>3, ImportSound DEF Logs
  <2> HIDE DEF d
  <2>6. core' = [core EXCEPT ![w] = d]
    BY <1>5 DEF d
  <2> QED BY <1>1, <1>2, <2>2, <2>3, <2>4, <2>5, <2>6, LocalStep
<1>6. CASE Goes(w, "failed") /\ UNCHANGED core
  <2> DEFINE h == [host[w] EXCEPT !.at = "failed"]
  <2>1. h \in Host /\ h.gen = host[w].gen /\ h.at = "failed" /\ h.base = host[w].base
    BY <1>1 DEF Host
  <2>2. host' = [host EXCEPT ![w] = h] /\ UNCHANGED <<store, api, disks>>
    BY <1>1, <1>2, <1>6 DEF Goes, disks
  <2> HIDE DEF h
  <2>3. Sound(cloud, c, st[w], h, w)
    BY <1>1, <1>3, <2>1, SoundHost
  <2> QED BY <1>2, <2>1, <2>2, <2>3, HostStep
<1> QED BY <1>4, <1>5, <1>6 DEF import

\* The import cursor is saved: what it passes is in the Core.
LEMMA ImportSaved ==
    ASSUME IInv, NEW w \in Worker, import_save(w)
    PROVE  IInv'
<1> DEFINE c == core[w]
           e == IF host[w].next = "imported" THEN Len(c) ELSE st[w].exported
           s == [imported |-> host[w].upto, exported |-> e]
           h == [host[w] EXCEPT !.at = "import", !.upto = 0, !.next = "none"]
<1>1. /\ core \in [Worker -> Logs] /\ st \in [Worker -> Cursors] /\ host \in [Worker -> Host]
      /\ c \in Logs /\ st[w] \in Cursors /\ host[w] \in Host /\ cloud \in Logs
      /\ Sound(cloud, c, st[w], host[w], w) /\ faults \in Nat
  BY WorkerFacts
<1>2. UNCHANGED <<store, api, core, faults>> /\ faults' \in Nat /\ core' = [core EXCEPT ![w] = c]
  BY <1>1 DEF import_save
<1>3. host[w].at = "import_save"
  BY DEF import_save, At
<1>4. Len(c) \in Nat /\ st[w].exported \in Nat /\ host[w].upto \in Nat /\ st[w].exported <= Len(c)
  BY <1>1 DEF Logs, Cursors, Host, Sound
<1>5. e \in Nat /\ e <= Len(c)
  BY <1>4
<1>6. host' = [host EXCEPT ![w] = h] /\ st' = [st EXCEPT ![w] = s]
  BY <1>1 DEF import_save
<1> HIDE DEF e
<1>7. s \in Cursors /\ s.imported = host[w].upto /\ s.exported = e
  BY <1>4, <1>5 DEF Cursors
<1>8. h \in Host /\ h.gen = host[w].gen /\ h.at = "import" /\ h.base = host[w].base
  BY <1>1 DEF Host
<1> HIDE DEF h, s
<1>9. Sound(cloud, c, s, h, w)
  <2>1. /\ host[w].base = 0 /\ host[w].upto <= Len(cloud) /\ There(cloud, c, 1, host[w].upto)
        /\ \A i \in DOMAIN c : c[i].id[1] = w \/ c[i].id \in Ids(cloud)
    BY <1>1, <1>3 DEF Sound
  <2>2. ~(0 > 0)
    OBVIOUS
  <2> QED BY <1>5, <1>7, <1>8, <2>1, <2>2 DEF Sound
<1> QED BY <1>1, <1>2, <1>6, <1>7, <1>8, <1>9, LocalStep

-----------------------------------------------------------------------------
(* Mirroring                                                               *)

\* A mirror reads what is beyond the export cursor, or finds nothing.
LEMMA ReadsFacts ==
    ASSUME IInv, NEW w \in Worker, NEW exported, NEW next \in {"pending", "complete", "stopped"},
           Reads(w, exported, next)
    PROVE  \E h \in Host :
             /\ host' = [host EXCEPT ![w] = h] /\ h.gen = host[w].gen /\ h.base = host[w].base
             /\ \/ h.at = next
                \/ h.at = "mirror" /\ h.upto = Len(core[w]) /\ h.next = next
<1>1. host \in [Worker -> Host] /\ host[w] \in Host /\ Len(core[w]) \in Nat
  BY WorkerFacts DEF Logs
<1> DEFINE on == host[w].up /\ Len(core[w]) > exported
           a == IF on THEN "mirror" ELSE next
           u == IF on THEN Len(core[w]) ELSE 0
           n == IF on THEN next ELSE "none"
           h == [host[w] EXCEPT !.at = a, !.upto = u, !.next = n]
<1>2. host' = [host EXCEPT ![w] = h]
  BY DEF Reads
<1>3. \/ a = next /\ u = 0 /\ n = "none"
      \/ a = "mirror" /\ u = Len(core[w]) /\ n = next
  OBVIOUS
<1> HIDE DEF a, u, n
<1>4. u \in Nat /\ a \in {"pending", "complete", "stopped", "mirror"} /\ n \in {"pending", "complete", "stopped", "none"}
  BY <1>1, <1>3
<1>5. h \in Host /\ h.gen = host[w].gen /\ h.base = host[w].base /\ h.at = a /\ h.upto = u /\ h.next = n
  BY <1>1, <1>4 DEF Host
<1> HIDE DEF h
<1> QED BY <1>2, <1>3, <1>5

\* A worker that looks for what its Core recorded.
LEMMA ReadsStep ==
    ASSUME IInv, NEW w \in Worker, NEW exported, NEW next \in {"pending", "complete", "stopped"},
           Reads(w, exported, next), UNCHANGED <<store, api, disks>>, faults' \in Nat
    PROVE  IInv'
<1>1. core[w] \in Logs /\ Sound(cloud, core[w], st[w], host[w], w) /\ Len(core[w]) \in Nat
  BY WorkerFacts DEF Logs
<1>2. PICK h \in Host :
             /\ host' = [host EXCEPT ![w] = h] /\ h.gen = host[w].gen /\ h.base = host[w].base
             /\ \/ h.at = next
                \/ h.at = "mirror" /\ h.upto = Len(core[w]) /\ h.next = next
  BY ReadsFacts
<1>3. Sound(cloud, core[w], st[w], h, w)
  <2>1. ~(0 > 0) /\ Len(core[w]) <= Len(core[w])
    BY <1>1
  <2> QED BY <1>1, <1>2, <2>1, SoundHost
<1> QED BY <1>2, <1>3, HostStep

\* A worker that lets the session go.
LEMMA EndsSound ==
    ASSUME IInv, NEW w \in Worker
    PROVE  Sound(cloud, core[w], st[w], Idle, w)
<1>1. Sound(cloud, core[w], st[w], host[w], w)
  BY WorkerFacts
<1>2. ~(0 > 0)
  OBVIOUS
<1> QED BY <1>1, <1>2, IdleFacts, SoundHost

\* One pass of the owner's loop begins.
LEMMA Passed ==
    ASSUME IInv, NEW w \in Worker, pass(w)
    PROVE  IInv'
<1>1. UNCHANGED <<store, api, disks, faults>> /\ faults' \in Nat
  BY WorkerFacts DEF pass
<1>2. CASE Ends(w)
  <2>1. host' = [host EXCEPT ![w] = Idle]
    BY <1>2 DEF Ends
  <2> QED BY <1>1, <2>1, EndsSound, IdleFacts, HostStep
<1>3. CASE Reads(w, st[w].exported, "pending")
  BY <1>1, <1>3, ReadsStep
<1> QED BY <1>2, <1>3 DEF pass

\* Steps of one worker that change the store and leave its disks alone.
LEMMA StoreStep ==
    ASSUME IInv, UNCHANGED <<kind, queue, api, disks>>, faults' \in Nat,
           row' \in [Cmd -> {"none", "PENDING", "ACCEPTED", "REJECTED"}],
           lease' \in Lease, lease'.gen = lease.gen,
           cloud' \in Logs, Chain(cloud'), Grows(cloud, cloud'),
           NEW w \in Worker, NEW h \in Host, host' = [host EXCEPT ![w] = h], h.gen \in {0, host[w].gen},
           Sound(cloud', core[w], st[w], h, w)
    PROVE  IInv'
<1>1. /\ core \in [Worker -> Logs] /\ st \in [Worker -> Cursors] /\ core[w] \in Logs /\ st[w] \in Cursors
      /\ host[w].gen <= lease.gen
  BY WorkerFacts
<1>2. core' = [core EXCEPT ![w] = core[w]] /\ st' = [st EXCEPT ![w] = st[w]]
  BY <1>1 DEF disks
<1>3. lease.gen \in Nat /\ lease.gen <= lease'.gen /\ h.gen <= lease'.gen
  <2>1. lease.gen \in Nat
    BY StoreFacts
  <2> QED BY <1>1, <2>1
<1>4. DisksOK' /\ WorkersOK'
  BY <1>1, <1>2, <1>3, WorkerStep
<1>5. Logs' = Logs
  BY SameKind
<1>6. RestOK'
  BY StoreFacts DEF RestOK
<1>7. lease' \in [worker : Worker \cup {"none"}, gen : Nat, live : BOOLEAN] /\ lease'.gen <= Budget
  BY StoreFacts DEF Lease
<1>8. StoreOK'
  BY <1>5, <1>7, StoreFacts DEF StoreOK, Chain
<1> QED BY <1>4, <1>6, <1>8 DEF IInv

\* What a mirror commits: the events read from the Core are on the cloud log,
\* its chains are whole, and what is new to it is the worker's own.
LEMMA MirrorFacts ==
    ASSUME IInv, NEW w \in Worker, At(w, "mirror"), Fits(cloud, Batch(w)), cloud' = Taken(cloud, Batch(w))
    PROVE  /\ cloud' \in Logs /\ Chain(cloud') /\ Grows(cloud, cloud')
           /\ \A i \in DOMAIN cloud' : i \in DOMAIN cloud \/ cloud'[i].id[1] = w
           /\ There(core[w], cloud', st[w].exported + 1, host[w].upto)
<1> DEFINE b == Batch(w)
           c == core[w]
           x == st[w].exported
           u == host[w].upto
<1>1. /\ c \in Seq(Ev(Creates)) /\ cloud \in Seq(Ev(Creates)) /\ Chain(cloud)
      /\ x \in Nat /\ u \in Nat /\ u <= Len(c) /\ Len(c) \in Nat
      /\ \A i \in DOMAIN c : c[i].id[1] = w \/ c[i].id \in Ids(cloud)
  BY WorkerFacts, StoreFacts DEF Logs, Cursors, Host, Sound, At
<1>2. b = SubSeq(c, x + 1, u)
  BY DEF Batch
<1> HIDE DEF b, c, x, u
<1>3. b \in Seq(Ev(Creates))
  BY <1>1, <1>2
<1>4. \A i \in x + 1 .. u : i - x \in DOMAIN b /\ b[i - x] = c[i]
  <2> SUFFICES ASSUME NEW i \in x + 1 .. u PROVE i - x \in DOMAIN b /\ b[i - x] = c[i]
    OBVIOUS
  <2>1. x < u /\ i \in Nat /\ x + 1 <= i /\ i <= u
    BY <1>1
  <2>2. Len(b) = u - x
    BY <1>1, <1>2, <2>1
  <2>3. i - x \in 1 .. u - x /\ (x + 1) + (i - x) - 1 = i
    BY <1>1, <2>1
  <2>4. \A k \in 1 .. u - x : b[k] = c[(x + 1) + k - 1]
    BY <1>1, <1>2, <2>1
  <2>5. DOMAIN b = 1 .. u - x
    BY <1>3, <2>2
  <2> QED BY <2>3, <2>4, <2>5
<1>5. \A k \in DOMAIN b : \E i \in DOMAIN c : b[k] = c[i]
  <2> SUFFICES ASSUME NEW k \in DOMAIN b PROVE \E i \in DOMAIN c : b[k] = c[i]
    OBVIOUS
  <2>1. x + k \in DOMAIN c /\ b[k] = c[x + k]
    BY <1>1, <1>2
  <2> QED BY <2>1
<1>6. /\ cloud' \in Seq(Ev(Creates)) /\ Grows(cloud, cloud') /\ \A i \in DOMAIN b : b[i].id \in Ids(cloud')
      /\ \A i \in DOMAIN cloud' :
           i \in DOMAIN cloud \/ \E k \in DOMAIN b : b[k].id \notin Ids(cloud) /\ cloud'[i] = b[k]
  <2>1. cloud' = Taken(cloud, b)
    BY DEF b
  <2> QED BY <1>1, <1>3, <2>1, TakenFacts
<1>7. Chain(Taken(cloud, b))
  <2>1. Fits(cloud, b)
    BY DEF b
  <2> QED BY <1>1, <1>3, <2>1, ChainTaken
<1>8. Chain(cloud')
  BY <1>7 DEF b
<1>9. \A i \in DOMAIN cloud' : i \in DOMAIN cloud \/ cloud'[i].id[1] = w
  <2>1. \A k \in DOMAIN b : b[k].id[1] = w \/ b[k].id \in Ids(cloud)
    BY <1>1, <1>5
  <2> QED BY <1>6, <2>1
<1>10. There(c, cloud', x + 1, u)
  BY <1>4, <1>6 DEF There
<1> QED BY <1>6, <1>8, <1>9, <1>10 DEF Logs, c, x, u

\* The pass goes on after a mirror that is over.
LEMMA MirroredFacts ==
    ASSUME IInv, NEW w \in Worker, At(w, "mirror"), Mirrored(w)
    PROVE  \E h \in Host : /\ host' = [host EXCEPT ![w] = h] /\ h.gen = host[w].gen
                           /\ Sound(cloud, core[w], st[w], h, w)
<1> DEFINE h == [host[w] EXCEPT !.at = host[w].next, !.next = "none", !.upto = 0]
<1>1. host \in [Worker -> Host] /\ host[w] \in Host /\ Sound(cloud, core[w], st[w], host[w], w)
  BY WorkerFacts
<1>2. host[w].next \in {"pending", "complete", "stopped"}
  BY <1>1 DEF Sound, At
<1>3. host' = [host EXCEPT ![w] = h]
  BY <1>1 DEF Mirrored
<1>4. h \in Host /\ h.gen = host[w].gen /\ h.at = host[w].next /\ h.base = host[w].base
  BY <1>1, <1>2 DEF Host
<1> HIDE DEF h
<1>5. ~(0 > 0)
  OBVIOUS
<1>6. Sound(cloud, core[w], st[w], h, w)
  BY <1>1, <1>2, <1>4, <1>5, SoundHost
<1> QED BY <1>3, <1>4, <1>6

\* A step that leaves the lease and the rows keeps their types.
LEMMA LeaseSame ==
    ASSUME IInv, UNCHANGED <<lease, row>>
    PROVE  /\ row' \in [Cmd -> {"none", "PENDING", "ACCEPTED", "REJECTED"}]
           /\ lease' \in Lease /\ lease'.gen = lease.gen
BY StoreFacts

\* The batch lands under the live lease, or is refused and the session is lost.
LEMMA MirrorDone ==
    ASSUME IInv, NEW w \in Worker, mirror(w)
    PROVE  IInv'
<1>1. UNCHANGED <<kind, lease, row, queue, api, disks, faults>> /\ faults' \in Nat
  BY StoreFacts DEF mirror
<1>2. At(w, "mirror")
  BY DEF mirror
<1>3. /\ host \in [Worker -> Host] /\ host[w] \in Host /\ core[w] \in Logs /\ st[w] \in Cursors /\ cloud \in Logs
      /\ Sound(cloud, core[w], st[w], host[w], w)
  BY WorkerFacts
<1>4. CASE Fits(cloud, Batch(w)) /\ cloud' = Taken(cloud, Batch(w)) /\ Goes(w, "mirror_save")
  <2> DEFINE h == [host[w] EXCEPT !.at = "mirror_save"]
  <2>1. cloud' \in Logs /\ Chain(cloud') /\ Grows(cloud, cloud') /\ There(core[w], cloud', st[w].exported + 1, host[w].upto)
    BY <1>2, <1>4, MirrorFacts
  <2>2. /\ h \in Host /\ h.gen = host[w].gen /\ h.at = "mirror_save" /\ h.base = host[w].base
        /\ h.upto = host[w].upto /\ h.next = host[w].next
    BY <1>3 DEF Host
  <2>3. host' = [host EXCEPT ![w] = h]
    BY <1>3, <1>4 DEF Goes
  <2> HIDE DEF h
  <2>4. Sound(cloud', core[w], st[w], host[w], w)
    BY <1>3, <2>1, SoundCloud DEF Logs
  <2>5. Sound(cloud', core[w], st[w], h, w)
    BY <1>2, <2>1, <2>2, <2>4 DEF Sound, At
  <2> QED BY <1>1, <2>1, <2>2, <2>3, <2>5, LeaseSame, StoreStep
<1>5. CASE Mirrored(w) /\ UNCHANGED cloud
  <2>1. PICK h \in Host : /\ host' = [host EXCEPT ![w] = h] /\ h.gen = host[w].gen
                          /\ Sound(cloud, core[w], st[w], h, w)
    BY <1>2, <1>5, MirroredFacts
  <2>2. UNCHANGED <<store, api, disks>>
    BY <1>1, <1>5 DEF store
  <2> QED BY <1>1, <2>1, <2>2, HostStep
<1>6. CASE Ends(w) /\ UNCHANGED cloud
  <2>1. host' = [host EXCEPT ![w] = Idle] /\ UNCHANGED <<store, api, disks>>
    BY <1>1, <1>6 DEF Ends, store
  <2> QED BY <1>1, <2>1, EndsSound, IdleFacts, HostStep
<1> QED BY <1>4, <1>5, <1>6 DEF mirror

\* The mirror fails for another reason: the cursor stays where it was.
LEMMA MirrorFailed ==
    ASSUME IInv, NEW w \in Worker, mirror_error(w)
    PROVE  IInv'
<1>1. UNCHANGED <<kind, lease, row, queue, api, disks>> /\ faults' \in Nat
  <2>1. faults \in Nat /\ faults' = faults + 1
    BY StoreFacts DEF mirror_error, Fails
  <2> QED BY <2>1 DEF mirror_error
<1>2. At(w, "mirror") /\ Mirrored(w)
  BY DEF mirror_error
<1>3. core[w] \in Logs /\ st[w] \in Cursors /\ cloud \in Logs
  BY WorkerFacts
<1>4. PICK h \in Host : /\ host' = [host EXCEPT ![w] = h] /\ h.gen = host[w].gen
                        /\ Sound(cloud, core[w], st[w], h, w)
  BY <1>2, MirroredFacts
<1>5. CASE UNCHANGED cloud
  <2>1. UNCHANGED <<store, api, disks>>
    BY <1>1, <1>5 DEF store
  <2> QED BY <1>1, <1>4, <2>1, HostStep
<1>6. CASE Fits(cloud, Batch(w)) /\ cloud' = Taken(cloud, Batch(w))
  <2>1. cloud' \in Logs /\ Chain(cloud') /\ Grows(cloud, cloud')
    BY <1>2, <1>6, MirrorFacts
  <2>2. Sound(cloud', core[w], st[w], h, w)
    BY <1>3, <1>4, <2>1, SoundCloud DEF Logs
  <2> QED BY <1>1, <1>4, <2>1, <2>2, LeaseSame, StoreStep
<1> QED BY <1>5, <1>6 DEF mirror_error

\* The export cursor is saved: what it passes is on the cloud log.
LEMMA MirrorSaved ==
    ASSUME IInv, NEW w \in Worker, mirror_save(w)
    PROVE  IInv'
<1> DEFINE c == core[w]
           u == host[w].upto
           s == [st[w] EXCEPT !.exported = u]
<1>1. /\ core \in [Worker -> Logs] /\ st \in [Worker -> Cursors] /\ c \in Logs /\ st[w] \in Cursors /\ host[w] \in Host
      /\ Sound(cloud, c, st[w], host[w], w) /\ cloud \in Logs /\ faults \in Nat
  BY WorkerFacts
<1>2. UNCHANGED <<store, api, core, faults>> /\ faults' \in Nat /\ core' = [core EXCEPT ![w] = c]
  BY <1>1 DEF mirror_save
<1>3. u \in Nat /\ host[w].base \in Nat /\ st[w].exported \in Nat /\ Len(c) \in Nat
  BY <1>1 DEF Host, Cursors, Logs
<1>4. /\ host[w].next \in {"pending", "complete", "stopped"} /\ u <= Len(c)
      /\ There(c, cloud, st[w].exported + 1, u)
      /\ host[w].base > 0 => There(c, cloud, host[w].base + 1, st[w].exported)
  BY <1>1 DEF mirror_save, At, Sound
<1>5. PICK h \in Host :
             /\ host' = [host EXCEPT ![w] = h] /\ h.gen = host[w].gen /\ h.base = host[w].base
             /\ \/ h.at = host[w].next
                \/ h.at = "mirror" /\ h.upto = Len(core[w]) /\ h.next = host[w].next
  <2>1. Reads(w, u, host[w].next)
    BY DEF mirror_save
  <2> HIDE DEF u
  <2> QED BY <1>4, <2>1, ReadsFacts
<1>6. st' = [st EXCEPT ![w] = s]
  BY <1>1 DEF mirror_save
<1>7. s \in Cursors /\ s.imported = st[w].imported /\ s.exported = u
  BY <1>1, <1>3 DEF Cursors
<1> HIDE DEF s, u
<1>8. host[w].base > 0 => There(c, cloud, host[w].base + 1, u)
  <2> SUFFICES ASSUME host[w].base > 0, NEW i \in host[w].base + 1 .. u PROVE c[i].id \in Ids(cloud)
    BY DEF There
  <2>1. CASE i <= st[w].exported
    <3>1. i \in host[w].base + 1 .. st[w].exported
      BY <1>3, <2>1
    <3> QED BY <1>4, <3>1 DEF There
  <2>2. CASE ~(i <= st[w].exported)
    <3>1. i \in st[w].exported + 1 .. u
      BY <1>3, <2>2
    <3> QED BY <1>4, <3>1 DEF There
  <2> QED BY <2>1, <2>2
<1>9. Sound(cloud, c, s, h, w)
  <2>1. /\ st[w].imported <= Len(cloud) /\ There(cloud, c, 1, st[w].imported)
        /\ \A i \in DOMAIN c : c[i].id[1] = w \/ c[i].id \in Ids(cloud)
    BY <1>1 DEF Sound
  <2>2. h.at \notin {"import", "import_save", "mirror_save"}
    BY <1>4, <1>5
  <2>3. h.at \in {"mirror", "mirror_save"} => h.upto <= Len(c) /\ h.next \in {"pending", "complete", "stopped"}
    <3>1. Len(c) <= Len(c)
      BY <1>3
    <3> QED BY <1>4, <1>5, <3>1
  <2> QED BY <1>4, <1>5, <1>7, <1>8, <2>1, <2>2, <2>3 DEF Sound
<1> QED BY <1>1, <1>2, <1>5, <1>6, <1>7, <1>9, LocalStep

-----------------------------------------------------------------------------
(* Relayed commands, tasks and ends                                        *)

\* The owner asks for the commands that wait.
LEMMA Pended ==
    ASSUME IInv, NEW w \in Worker, pending(w)
    PROVE  IInv'
<1> DEFINE I == {i \in DOMAIN queue : row[queue[i]] = "PENDING"}
           todo == Pick(queue, I)
           a == IF todo = <<>> THEN "start" ELSE "execute"
           h == [host[w] EXCEPT !.at = a, !.todo = todo]
<1>1. UNCHANGED <<store, api, disks, faults>> /\ faults' \in Nat
  BY StoreFacts DEF pending
<1>2. host \in [Worker -> Host] /\ host[w] \in Host /\ Sound(cloud, core[w], st[w], host[w], w)
  BY WorkerFacts
<1>3. todo \in Seq(Cmd)
  <2>1. queue \in Seq(Cmd) /\ I \in SUBSET DOMAIN queue
    BY StoreFacts
  <2> HIDE DEF I
  <2> QED BY <2>1, PickFacts
<1>4. host' = [host EXCEPT ![w] = h]
  BY <1>2 DEF pending
<1>5. a \in {"start", "execute"}
  OBVIOUS
<1> HIDE DEF todo, a
<1>6. h \in Host /\ h.gen = host[w].gen /\ h.at = a /\ h.base = host[w].base
  BY <1>2, <1>3, <1>5 DEF Host
<1> HIDE DEF h
<1>7. ~(0 > 0)
  OBVIOUS
<1>8. Sound(cloud, core[w], st[w], h, w)
  BY <1>2, <1>5, <1>6, <1>7, SoundHost
<1> QED BY <1>1, <1>4, <1>6, <1>8, HostStep

\* The owner gives a command to its Core, which knows the ones it has run.
LEMMA Executed ==
    ASSUME IInv, NEW w \in Worker, execute(w)
    PROVE  IInv'
<1>1. UNCHANGED <<store, api, st, faults>> /\ faults' \in Nat
  BY StoreFacts DEF execute
<1>2. host \in [Worker -> Host] /\ host[w] \in Host /\ Sound(cloud, core[w], st[w], host[w], w)
  BY WorkerFacts
<1>3. CASE host[w].todo = <<>>
  <2>1. Reads(w, st[w].exported, "complete") /\ UNCHANGED <<store, api, disks>>
    BY <1>1, <1>3 DEF execute, disks
  <2> QED BY <1>1, <2>1, ReadsStep
<1>4. CASE host[w].todo # <<>>
  <2> DEFINE c == Head(host[w].todo)
             out == Outcome(w, c)
             o == IF out = "replayed" THEN "ACCEPTED" ELSE out
             rest == Tail(host[w].todo)
             done == Append(host[w].done, <<c, o>>)
             h == [host[w] EXCEPT !.todo = rest, !.done = done]
  <2>1. c \in Cmd /\ rest \in Seq(Cmd)
    <3>1. host[w].todo \in Seq(Cmd)
      BY <1>2 DEF Host
    <3> QED BY <1>4, <3>1
  <2>2. out \in {"REJECTED", "replayed", "ACCEPTED"}
    BY DEF Outcome
  <2>3. host' = [host EXCEPT ![w] = h]
    BY <1>2, <1>4 DEF execute
  <2>4. done \in Seq(Cmd \X {"ACCEPTED", "REJECTED"})
    <3>1. host[w].done \in Seq(Cmd \X {"ACCEPTED", "REJECTED"})
      BY <1>2 DEF Host
    <3>2. <<c, o>> \in Cmd \X {"ACCEPTED", "REJECTED"}
      BY <2>1, <2>2
    <3> HIDE DEF o, c
    <3> QED BY <3>1, <3>2
  <2>5. out = "ACCEPTED" /\ c \in Creates => Of(core[w], c) = {}
    BY DEF Outcome
  <2>6. IF out # "ACCEPTED" THEN UNCHANGED core
        ELSE IF c \in Creates THEN Records(w, c, "created", c) ELSE Records(w, "t", "input", c)
    BY <1>4 DEF execute
  <2> HIDE DEF c, out, rest, done
  <2>7. /\ h \in Host /\ h.gen = host[w].gen /\ h.at = host[w].at /\ h.base = host[w].base
        /\ h.upto = host[w].upto /\ h.next = host[w].next
    BY <1>2, <2>1, <2>4 DEF Host
  <2> HIDE DEF h
  <2>8. host[w].at = "execute" /\ ~(0 > 0)
    BY DEF execute, At
  <2>9. ASSUME NEW d, Sound(cloud, d, st[w], host[w], w) PROVE Sound(cloud, d, st[w], h, w)
    BY <2>7, <2>8, <2>9, SoundHost
  <2>10. CASE UNCHANGED core
    <3>1. UNCHANGED <<store, api, disks>>
      BY <1>1, <2>10 DEF disks
    <3> QED BY <1>1, <1>2, <2>3, <2>7, <2>9, <3>1, HostStep
  <2>11. CASE \/ out = "ACCEPTED" /\ c \in Creates /\ Records(w, c, "created", c)
              \/ c \notin Creates /\ Records(w, "t", "input", c)
    <3>1. PICK d \in Logs : /\ core' = [core EXCEPT ![w] = d] /\ Grows(core[w], d)
                            /\ \A i \in DOMAIN d : i \in DOMAIN core[w] \/ d[i].id[1] = w
      <4>1. c \in Agg /\ "t" \in Agg /\ c \in Cmd \cup {"none"} /\ "input" # "created"
            /\ "created" \in {"created", "input", "run", "stop", "lease"}
            /\ "input" \in {"created", "input", "run", "stop", "lease"}
        BY <2>1 DEF Agg, Task
      <4>2. CASE out = "ACCEPTED" /\ c \in Creates /\ Records(w, c, "created", c)
        BY <2>5, <4>1, <4>2, RecordsFacts
      <4>3. CASE c \notin Creates /\ Records(w, "t", "input", c)
        BY <4>1, <4>3, RecordsFacts
      <4> QED BY <2>11, <4>2, <4>3
    <3> QED BY <1>1, <2>3, <2>7, <2>9, <3>1, CoreStep
  <2> QED BY <2>6, <2>10, <2>11
<1> QED BY <1>3, <1>4

\* The outcome of a command is reported to the cloud.
LEMMA Completed ==
    ASSUME IInv, NEW w \in Worker, complete(w)
    PROVE  IInv'
<1>1. UNCHANGED <<kind, cloud, lease, queue, api, disks>>
  BY DEF complete
<1>2. /\ host \in [Worker -> Host] /\ host[w] \in Host /\ Sound(cloud, core[w], st[w], host[w], w)
      /\ cloud \in Logs /\ faults \in Nat
  BY WorkerFacts
<1>3. host[w].at = "complete" /\ ~(0 > 0)
  BY DEF complete, At
<1>4. CASE host[w].done = <<>>
  <2> DEFINE h == [host[w] EXCEPT !.at = "start"]
  <2>1. h \in Host /\ h.gen = host[w].gen /\ h.at = "start" /\ h.base = host[w].base
    BY <1>2 DEF Host
  <2>2. host' = [host EXCEPT ![w] = h] /\ UNCHANGED <<store, api, disks>> /\ faults' \in Nat
    BY <1>1, <1>2, <1>4 DEF complete, Goes, store
  <2> HIDE DEF h
  <2>3. Sound(cloud, core[w], st[w], h, w)
    BY <1>2, <1>3, <2>1, SoundHost
  <2> QED BY <2>1, <2>2, <2>3, HostStep
<1>5. CASE host[w].done # <<>>
  <2> DEFINE r == Head(host[w].done)
             rest == Tail(host[w].done)
             h == [host[w] EXCEPT !.done = rest]
  <2>1. r \in Cmd \X {"ACCEPTED", "REJECTED"} /\ rest \in Seq(Cmd \X {"ACCEPTED", "REJECTED"})
    <3>1. host[w].done \in Seq(Cmd \X {"ACCEPTED", "REJECTED"})
      BY <1>2 DEF Host
    <3> QED BY <1>5, <3>1
  <2>2. r[1] \in Cmd /\ r[2] \in {"ACCEPTED", "REJECTED"}
    BY <2>1
  <2>3. host' = [host EXCEPT ![w] = h]
    BY <1>2, <1>5 DEF complete
  <2>4. \/ row' = [row EXCEPT ![r[1]] = IF row[r[1]] = "PENDING" THEN r[2] ELSE row[r[1]]] /\ UNCHANGED faults
        \/ Fails /\ UNCHANGED row
    BY <1>5 DEF complete
  <2> HIDE DEF r, rest
  <2>5. /\ h \in Host /\ h.gen = host[w].gen /\ h.at = host[w].at /\ h.base = host[w].base
        /\ h.upto = host[w].upto /\ h.next = host[w].next
    BY <1>2, <2>1 DEF Host
  <2> HIDE DEF h
  <2>6. faults' \in Nat
    BY <1>2, <2>4 DEF Fails
  <2>7. row' \in [Cmd -> {"none", "PENDING", "ACCEPTED", "REJECTED"}]
    <3>1. row \in [Cmd -> {"none", "PENDING", "ACCEPTED", "REJECTED"}]
      BY StoreFacts
    <3> QED BY <2>2, <2>4, <3>1
  <2>8. Sound(cloud', core[w], st[w], h, w)
    <3>1. Sound(cloud, core[w], st[w], h, w)
      BY <1>2, <1>3, <2>5, SoundHost
    <3> QED BY <1>1, <3>1
  <2>9. cloud' \in Logs /\ Chain(cloud') /\ Grows(cloud, cloud') /\ lease' \in Lease /\ lease'.gen = lease.gen
    BY <1>1, StoreFacts
  <2> QED BY <1>1, <2>3, <2>5, <2>6, <2>7, <2>8, <2>9, StoreStep
<1> QED BY <1>4, <1>5

\* The owner starts the tasks of the session.
LEMMA Started ==
    ASSUME IInv, NEW w \in Worker, start(w)
    PROVE  IInv'
<1>1. UNCHANGED <<store, api, st>>
  BY DEF start
<1>2. /\ host \in [Worker -> Host] /\ host[w] \in Host /\ Sound(cloud, core[w], st[w], host[w], w)
      /\ faults \in Nat
  BY WorkerFacts
<1>3. host[w].at = "start" /\ ~(0 > 0)
  BY DEF start, At
<1>4. CASE Goes(w, "pass") /\ UNCHANGED faults /\ UNCHANGED core
  <2> DEFINE h == [host[w] EXCEPT !.at = "pass"]
  <2>1. h \in Host /\ h.gen = host[w].gen /\ h.at = "pass" /\ h.base = host[w].base
    BY <1>2 DEF Host
  <2>2. host' = [host EXCEPT ![w] = h] /\ UNCHANGED <<store, api, disks>> /\ faults' \in Nat
    BY <1>1, <1>2, <1>4 DEF Goes, disks
  <2> HIDE DEF h
  <2>3. Sound(cloud, core[w], st[w], h, w)
    BY <1>2, <1>3, <2>1, SoundHost
  <2> QED BY <2>1, <2>2, <2>3, HostStep
<1>5. CASE Fails /\ Reads(w, st[w].exported, "stopped") /\ UNCHANGED core
  <2>1. faults' \in Nat
    BY <1>2, <1>5 DEF Fails
  <2>2. UNCHANGED <<store, api, disks>>
    BY <1>1, <1>5 DEF disks
  <2> QED BY <1>5, <2>1, <2>2, ReadsStep
<1>6. ASSUME NEW t \in Task, host' = [host EXCEPT ![w].started = @ \cup {t}],
             Records(w, t, "run", "none"), UNCHANGED faults
      PROVE  IInv'
  <2> DEFINE h == [host[w] EXCEPT !.started = host[w].started \cup {t}]
  <2>1. /\ h \in Host /\ h.gen = host[w].gen /\ h.at = host[w].at /\ h.base = host[w].base
        /\ h.upto = host[w].upto /\ h.next = host[w].next
    BY <1>2 DEF Host
  <2>2. host' = [host EXCEPT ![w] = h] /\ faults' \in Nat
    BY <1>2, <1>6
  <2> HIDE DEF h
  <2>3. PICK d \in Logs : /\ core' = [core EXCEPT ![w] = d] /\ Grows(core[w], d)
                          /\ \A i \in DOMAIN d : i \in DOMAIN core[w] \/ d[i].id[1] = w
    <3>1. t \in Agg /\ "none" \in Cmd \cup {"none"} /\ "run" # "created"
          /\ "run" \in {"created", "input", "run", "stop", "lease"}
      BY DEF Agg
    <3> QED BY <1>6, <3>1, RecordsFacts
  <2>4. Sound(cloud, d, st[w], host[w], w) => Sound(cloud, d, st[w], h, w)
    BY <1>3, <2>1, SoundHost
  <2> QED BY <1>1, <2>1, <2>2, <2>3, <2>4, CoreStep
<1> QED BY <1>4, <1>5, <1>6 DEF start

\* The session ends or is lost: the worker is free again.
LEMMA Ended ==
    ASSUME IInv, NEW w \in Worker, ended(w)
    PROVE  IInv'
<1>1. UNCHANGED <<kind, cloud, row, queue, api, disks, faults>> /\ host' = [host EXCEPT ![w] = Idle]
  BY DEF ended, release, Ends
<1>2. lease' \in Lease /\ lease'.gen = lease.gen
  <2>1. lease' = lease \/ lease' = [lease EXCEPT !.live = FALSE]
    BY DEF ended, release
  <2>2. lease \in Lease
    BY StoreFacts
  <2> QED BY <2>1, <2>2 DEF Lease
<1>3. Sound(cloud', core[w], st[w], Idle, w)
  BY <1>1, EndsSound
<1> QED BY <1>1, <1>2, <1>3, StoreFacts, IdleFacts, StoreStep

\* A task of the Core records an event.
LEMMA TaskWorked ==
    ASSUME IInv, NEW w \in Worker, NEW t \in Task, task_works(w, t)
    PROVE  IInv'
<1>1. UNCHANGED <<store, api, st, host, faults>> /\ Records(w, t, "run", "none")
  BY DEF task_works
<1>2. host \in [Worker -> Host] /\ host[w] \in Host /\ faults' \in Nat
  BY <1>1, WorkerFacts
<1>3. host' = [host EXCEPT ![w] = host[w]]
  BY <1>1, <1>2
<1>4. PICK d \in Logs : /\ core' = [core EXCEPT ![w] = d] /\ Grows(core[w], d)
                        /\ \A i \in DOMAIN d : i \in DOMAIN core[w] \/ d[i].id[1] = w
  <2>1. t \in Agg /\ "none" \in Cmd \cup {"none"} /\ "run" # "created"
        /\ "run" \in {"created", "input", "run", "stop", "lease"}
    BY DEF Agg
  <2> QED BY <1>1, <2>1, RecordsFacts
<1> QED BY <1>1, <1>2, <1>3, <1>4, CoreStep

\* The Core dies under its worker and reconciles when it starts again.
LEMMA CoreDied ==
    ASSUME IInv, NEW w \in Worker, core_dies(w)
    PROVE  IInv'
<1> DEFINE h == [host[w] EXCEPT !.up = FALSE]
<1>1. UNCHANGED <<store, api, disks>> /\ faults' \in Nat
  BY StoreFacts DEF core_dies, Fails
<1>2. host \in [Worker -> Host] /\ host[w] \in Host /\ Sound(cloud, core[w], st[w], host[w], w)
  BY WorkerFacts
<1>3. /\ h \in Host /\ h.gen = host[w].gen /\ h.at = host[w].at /\ h.base = host[w].base
      /\ h.upto = host[w].upto /\ h.next = host[w].next
  BY <1>2 DEF Host
<1>4. host' = [host EXCEPT ![w] = h]
  BY <1>2 DEF core_dies
<1> HIDE DEF h
<1>5. Sound(cloud, core[w], st[w], h, w)
  BY <1>2, <1>3 DEF Sound
<1> QED BY <1>1, <1>3, <1>4, <1>5, HostStep

\* The worker dies: its disk stays.
LEMMA WorkerDied ==
    ASSUME IInv, NEW w \in Worker, worker_dies(w)
    PROVE  IInv'
<1>1. UNCHANGED <<store, api, disks>> /\ faults' \in Nat /\ host' = [host EXCEPT ![w] = Idle]
  BY StoreFacts DEF worker_dies, Fails, Ends
<1> QED BY <1>1, EndsSound, IdleFacts, HostStep

-----------------------------------------------------------------------------
(* The theorems                                                            *)

\* Every step preserves the invariant, one lemma for each action.
LEMMA NextHolds == IInv /\ [CNext]_vars => IInv'
<1> SUFFICES ASSUME IInv, [CNext]_vars PROVE IInv'
  OBVIOUS
<1>1. CASE Api
  BY <1>1, Requested, Enqueued, Appended DEF Api
<1>2. CASE expire
  BY <1>2, Expired
<1>3. ASSUME NEW w \in Worker, claim(w) \/ Hosting(w) \/ core_dies(w) \/ worker_dies(w) \/ \E t \in Task : task_works(w, t)
      PROVE  IInv'
  <2>1. CASE Hosting(w)
    BY <2>1, Imported, ImportSaved, Passed, MirrorDone, MirrorFailed, MirrorSaved, Pended, Executed,
       Completed, Started, Ended DEF Hosting
  <2>2. CASE claim(w)
    BY <2>2, Claimed
  <2>3. CASE core_dies(w) \/ worker_dies(w)
    BY <2>3, CoreDied, WorkerDied
  <2>4. CASE \E t \in Task : task_works(w, t)
    BY <2>4, TaskWorked
  <2> QED BY <1>3, <2>1, <2>2, <2>3, <2>4
<1>4. CASE UNCHANGED vars
  <2>1. UNCHANGED <<kind, cloud, lease, row, queue, api, core, st, host, faults>>
    BY <1>4 DEF vars, store, disks
  <2>2. DisksOK' /\ WorkersOK'
    BY <2>1, StoreFacts, SharedStep
  <2>3. StoreOK' /\ RestOK'
    BY <2>1, StoreFacts, SameKind DEF StoreOK, RestOK, Chain, Lease
  <2> QED BY <2>2, <2>3 DEF IInv
<1> QED BY <1>1, <1>2, <1>3, <1>4 DEF CNext

\* The inductive invariant: the store is typed and its log one chain to each
\* aggregate, and every worker's disk and hosting are sound against that log.
THEOREM CloudInvariant == CSpec => []IInv
<1>1. CInit => IInv
  BY InitHolds
<1>2. IInv /\ [CNext]_vars => IInv'
  BY NextHolds
<1> QED BY <1>1, <1>2, PTL DEF CSpec

\* The types hold, no cursor of mirror.json is past the end of the log it counts
\* in, and no worker acts under a generation the lease has not reached.
THEOREM CloudTyped == CSpec => []CloudTypeOK
<1>1. IInv => CloudTypeOK
  <2> SUFFICES ASSUME IInv PROVE CloudTypeOK
    OBVIOUS
  <2>1. lease \in [worker : Worker \cup {"none"}, gen : 0 .. Budget, live : BOOLEAN]
    <3>1. lease \in Lease /\ lease.gen \in Nat /\ lease.gen <= Budget /\ Budget \in Nat
      BY StoreFacts, CloudAssumption
    <3>2. lease.gen \in 0 .. Budget
      BY <3>1
    <3> QED BY <3>1, <3>2 DEF Lease
  <2>2. ASSUME NEW w \in Worker
        PROVE  /\ st[w].imported <= Len(cloud) /\ st[w].exported <= Len(core[w])
               /\ host[w].gen <= lease.gen /\ host[w].started \subseteq Task
    BY WorkerFacts DEF Sound, Host
  <2> QED BY <2>1, <2>2, StoreFacts DEF CloudTypeOK
<1> QED BY <1>1, CloudInvariant, PTL

\* Every aggregate of the cloud log is one unbroken chain: the check of the head
\* under one transaction is enough, whoever mirrors, fails, comes back or takes
\* over in between.
THEOREM ChainsAreWhole == CSpec => []CloudChains
<1>1. IInv => CloudChains
  BY StoreFacts DEF CloudChains, Chain
<1> QED BY <1>1, CloudInvariant, PTL

\* A finite set whose elements are all the same has at most one.
LEMMA AtMostOne ==
    ASSUME NEW T, IsFiniteSet(T), \A x \in T : \A y \in T : x = y
    PROVE  Cardinality(T) <= 1
<1>1. CASE T = {}
  <2>1. Cardinality(T) = 0
    BY <1>1, FS_EmptySet
  <2> QED BY <2>1
<1>2. CASE T # {}
  <2>1. \E x : T = {x}
    BY <1>2
  <2>2. Cardinality(T) = 1
    BY <2>1, FS_Singleton
  <2> QED BY <2>2
<1> QED BY <1>1, <1>2

\* A command creates its task at most once on the cloud log, though the API and
\* any number of owners may take it up.
THEOREM CreatedOnce == CSpec => []TaskCreatedOnce
<1>1. IInv => TaskCreatedOnce
  <2> SUFFICES ASSUME IInv, NEW c \in Creates
               PROVE  Cardinality({i \in DOMAIN cloud : cloud[i].cmd = c /\ cloud[i].type = "created"}) <= 1
    BY DEF TaskCreatedOnce
  <2> DEFINE T == {i \in DOMAIN cloud : cloud[i].cmd = c /\ cloud[i].type = "created"}
  <2>1. cloud \in Seq(Ev(Creates)) /\ Chain(cloud) /\ Creates \in SUBSET Cmd
    BY StoreFacts DEF Logs, Creates
  <2>2. Len(cloud) \in Nat /\ T \in SUBSET (1 .. Len(cloud))
    BY <2>1
  <2>3. ASSUME NEW i \in T, NEW k \in T, i < k PROVE FALSE
    <3>1. /\ i \in DOMAIN cloud /\ k \in DOMAIN cloud /\ cloud[i].cmd = c /\ cloud[i].type = "created"
          /\ cloud[k].cmd = c /\ cloud[k].type = "created"
      OBVIOUS
    <3> QED BY <2>1, <2>3, <3>1, ChainCreatedOnce
  <2> HIDE DEF T
  <2>4. IsFiniteSet(T) /\ \A i \in T : i \in Nat
    BY <2>2, PlacesFinite
  <2>5. ASSUME NEW i \in T, NEW k \in T PROVE i = k
    <3>1. ~(i < k) /\ ~(k < i)
      BY <2>3
    <3> QED BY <2>4, <3>1
  <2>6. Cardinality(T) <= 1
    BY <2>4, <2>5, AtMostOne
  <2> QED BY <2>6 DEF T
<1> QED BY <1>1, CloudInvariant, PTL

\* The cursors of a worker never claim too much, also when it dies between a
\* transfer and the save of its cursor, or comes back after others owned the
\* session.
THEOREM CursorsAreTrue == CSpec => []CursorsTellTheTruth
<1>1. IInv => CursorsTellTheTruth
  <2> SUFFICES ASSUME IInv, NEW w \in Worker PROVE ImportedIsThere(w) /\ ExportedIsThere(w)
    BY DEF CursorsTellTheTruth
  <2>1. Sound(cloud, core[w], st[w], host[w], w)
    BY WorkerFacts
  <2>2. ImportedIsThere(w)
    BY <2>1 DEF Sound, There, ImportedIsThere
  <2>3. ExportedIsThere(w)
    BY <2>1 DEF Sound, There, ExportedIsThere
  <2> QED BY <2>2, <2>3
<1> QED BY <1>1, CloudInvariant, PTL

Added == \A i \in DOMAIN cloud' \ DOMAIN cloud :
           cloud'[i].id[1] \in Worker => lease.live /\ lease.worker = cloud'[i].id[1]

\* Only the holder of the live lease adds a Core's events to the cloud log.
THEOREM OwnersAdd == CSpec => OnlyTheOwnerAdds
<1>1. IInv /\ [CNext]_vars => [Added]_vars
  <2> SUFFICES ASSUME IInv, CNext PROVE Added
    BY DEF Added
  <2>1. CASE cloud' = cloud
    BY <2>1 DEF Added
  <2>2. ASSUME NEW c \in Cmd, append(c) PROVE Added
    <3>1. \A i \in DOMAIN cloud' : i \in DOMAIN cloud \/ cloud'[i].id[1] = "api"
      BY <2>2, AppendFacts
    <3>2. "api" \notin Worker
      BY CloudAssumption
    <3> QED BY <3>1, <3>2 DEF Added
  <2>3. ASSUME NEW w \in Worker, At(w, "mirror"), Holds(w), Fits(cloud, Batch(w)), cloud' = Taken(cloud, Batch(w))
        PROVE  Added
    <3>1. \A i \in DOMAIN cloud' : i \in DOMAIN cloud \/ cloud'[i].id[1] = w
      BY <2>3, MirrorFacts
    <3>2. lease.live /\ lease.worker = w
      BY <2>3 DEF Holds
    <3> QED BY <3>1, <3>2 DEF Added
  <2>4. ASSUME NEW w \in Worker, mirror(w) \/ mirror_error(w) PROVE Added
    BY <2>1, <2>3, <2>4 DEF mirror, mirror_error
  <2>5. CASE Api
    <3>1. PICK c \in Cmd : request(c) \/ enqueue(c) \/ append(c)
      BY <2>5 DEF Api
    <3>2. CASE request(c) \/ enqueue(c)
      BY <2>1, <3>2 DEF request, enqueue, store
    <3> QED BY <2>2, <3>1, <3>2
  <2>6. CASE expire
    BY <2>1, <2>6 DEF expire
  <2>7. ASSUME NEW w \in Worker, Hosting(w) PROVE Added
    <3>1. CASE import(w) \/ import_save(w) \/ pass(w) \/ mirror_save(w)
      BY <2>1, <3>1 DEF import, import_save, pass, mirror_save, store
    <3>2. CASE pending(w) \/ execute(w) \/ complete(w) \/ start(w) \/ ended(w)
      BY <2>1, <3>2 DEF pending, execute, complete, start, ended, release, store
    <3> QED BY <2>4, <2>7, <3>1, <3>2 DEF Hosting
  <2>8. ASSUME NEW w \in Worker, claim(w) \/ core_dies(w) \/ worker_dies(w) \/ \E t \in Task : task_works(w, t)
        PROVE  Added
    BY <2>1, <2>8 DEF claim, core_dies, worker_dies, task_works, store
  <2> QED BY <2>5, <2>6, <2>7, <2>8 DEF CNext
<1>2. [][Added]_vars => OnlyTheOwnerAdds
  BY PTL DEF OnlyTheOwnerAdds, Added
<1> QED BY <1>1, <1>2, CloudInvariant, PTL DEF CSpec
=============================================================================
