--------------------------- MODULE InputQueueProofs ---------------------------
(***************************************************************************)
(* Proofs about InputQueue, for any sets of inputs, texts, handlers and    *)
(* interrupts: the queue is a line, keeps the promise of InputPromise,     *)
(* gives what nobody moved in the order it came, and the model sees what   *)
(* the log says it was given.                                              *)
(***************************************************************************)
EXTENDS InputQueue, TLAPS

-----------------------------------------------------------------------------
(* The inductive invariant: what is on the log                             *)

Item == [state : {"none", "queued", "dispatched", "removed"},
         mode : {"STEER", "COLLECT", "FOLLOW_UP"},
         text : Text \cup {NoText}, sent_now : BOOLEAN]

QueueTypes ==
    /\ item \in [Input -> Item] /\ ahead \in [Input -> SUBSET Input]
    /\ arrived \in Seq(Input) /\ moved \subseteq Input /\ steered \in [Input -> Seq(Text)]
WantTypes == wanted \in [Input -> Text \cup {"never asked", "withdrawn"}]

\* What the commands made of an input, what the item says and what was given.
ItemFits(i) ==
    /\ item[i].state = "none" => wanted[i] = "never asked" /\ steered[i] = <<>>
    /\ Queued(i) => wanted[i] \in Text /\ wanted[i] = item[i].text /\ steered[i] = <<>>
    /\ item[i].state = "removed" => wanted[i] = "withdrawn" /\ steered[i] = <<>>
    /\ item[i].state = "dispatched" => wanted[i] \in Text /\ steered[i] = <<wanted[i]>>
    /\ Queued(i) /\ i \notin moved => item[i].mode = "FOLLOW_UP" /\ ~item[i].sent_now
ItemsInv == \A i \in Input : ItemFits(i)

\* The waiting items form a line: each other one is ahead or behind, not both.
Line ==
    /\ \A y \in Input : ahead[y] \subseteq Waiting /\ (y \notin Waiting => ahead[y] = {})
    /\ \A x, y \in Waiting : x \in ahead[y] <=> x # y /\ y \notin ahead[x]
    /\ \A y \in Waiting : \A x \in ahead[y] : ahead[x] \subseteq ahead[y]

\* Of two that wait and that nobody moved, the one that came first is ahead.
ArrivalInv ==
    /\ \A a \in DOMAIN arrived : item[arrived[a]].state # "none"
    /\ \A a, b \in DOMAIN arrived :
           /\ a < b /\ arrived[a] \notin moved /\ arrived[b] \notin moved
           /\ Queued(arrived[a]) /\ Queued(arrived[b])
           => arrived[a] \in ahead[arrived[b]]

QueueInv == QueueTypes /\ WantTypes /\ ItemsInv /\ Line /\ ArrivalInv /\ UntouchedInOrder

(* ... and what the handlers and the loop hold                             *)
LoopTypes ==
    /\ behavior \in [while_running : WhileRunning, send_now : SendNow]
    /\ intr \in [Key -> {"none", "STOP", "SEND_NOW", "applied"}]
    /\ shown \in [Input -> Seq(Text)]
    /\ gen \in 1..(MaxGen + 1) /\ lgen \in 1..gen
    /\ pc \in {"none", "boundary", "round", "dispatch", "admit", "stream", "call", "tool", "ending"}
    /\ cut \in {"none", "stream", "cancelled", "unknown"}
FlagTypes == {first, round, park, woken} \subseteq BOOLEAN /\ lane \in {"empty", "pending", "broken"}
TodoTypes == todo \in [Handler -> Step]

\* The transcript is the log's, but for what a refused dispatch left in it:
\* that loop is fenced, and looks at its lease before the turn.
ShownInv ==
    /\ pc \in {"boundary", "round", "dispatch", "stream", "call", "tool"} => shown = steered
    /\ pc = "admit" => shown = steered \/ Fenced

IInv == QueueInv /\ LoopTypes /\ FlagTypes /\ TodoTypes /\ ShownInv

\* The invariant has the types.
LEMMA TypesAgree == IInv => QTypeOK
  BY DEF IInv, QueueInv, QueueTypes, WantTypes, LoopTypes, FlagTypes, TodoTypes, QTypeOK, Item

-----------------------------------------------------------------------------
(* The vector                                                              *)

queue == <<item, ahead, steered, wanted, moved, arrived>>

\* A step that leaves the queue leaves what is true of it.
LEMMA QueueStays == ASSUME QueueInv, UNCHANGED queue PROVE QueueInv'
  BY DEF queue, QueueInv, QueueTypes, WantTypes, ItemsInv, ItemFits, Line, ArrivalInv, UntouchedInOrder,
         Queued, Waiting

\* Putting an item behind a front part of the line leaves a line, in which the
\* others stand to each other as they did.
LEMMA PlacedKeepsLine ==
    ASSUME QueueTypes, Line, NEW i \in Input, NEW front \in SUBSET (Waiting \ {i}),
           \A x \in front : ahead[x] \ {i} \subseteq front,
           ahead' = Placed(i, front), Waiting' = Waiting \cup {i}
    PROVE  /\ ahead' \in [Input -> SUBSET Input] /\ Line' /\ ahead'[i] = front
           /\ \A x, y \in Input : x # i /\ y # i => (x \in ahead'[y] <=> x \in ahead[y])
<1>0. Waiting \subseteq Input
  BY DEF Waiting
<1>1. ahead' \in [Input -> SUBSET Input]
  BY <1>0 DEF Placed, QueueTypes
<1>2. ahead'[i] = front
  BY DEF Placed
<1>3. \A y \in Input : y # i =>
          ahead'[y] = IF y \in Waiting \ front THEN ahead[y] \cup {i} ELSE ahead[y] \ {i}
  BY DEF Placed
<1>4. \A x, y \in Input : x # i /\ y # i => (x \in ahead'[y] <=> x \in ahead[y])
  BY <1>3
<1>5. \A y \in Input : y # i => (i \in ahead'[y] <=> y \in Waiting \ front)
  BY <1>3
<1>6. ASSUME NEW y \in Input
      PROVE  ahead'[y] \subseteq Waiting' /\ (y \notin Waiting' => ahead'[y] = {})
  <2>1. CASE y = i
    BY <1>2, <2>1
  <2>2. CASE y # i
    <3>1. ahead[y] \subseteq Waiting /\ (y \notin Waiting => ahead[y] = {})
      BY DEF Line
    <3>2. ahead'[y] \subseteq ahead[y] \cup {i} /\ (y \notin Waiting => ahead'[y] = ahead[y] \ {i})
      BY <1>3, <2>2
    <3> QED BY <2>2, <3>1, <3>2
  <2> QED BY <2>1, <2>2
<1>7. ASSUME NEW x \in Waiting', NEW y \in Waiting'
      PROVE  x \in ahead'[y] <=> x # y /\ y \notin ahead'[x]
  <2>1. CASE x # i /\ y # i
    BY <1>0, <1>4, <2>1 DEF Line
  <2>2. CASE x = i \/ y = i
    BY <1>0, <1>2, <1>5, <2>2
  <2> QED BY <2>1, <2>2
<1>8. ASSUME NEW y \in Waiting', NEW x \in ahead'[y], NEW z \in ahead'[x]
      PROVE  z \in ahead'[y]
  <2>0. x \in Waiting' /\ z \in Waiting' /\ x \in Input /\ y \in Input /\ z \in Input
    BY <1>0, <1>6
  <2>1. CASE y = i
    <3>1. x \in front /\ x # i
      BY <1>2, <2>1
    <3>2. z # i
      BY <1>5, <2>0, <3>1
    <3>3. z \in ahead[x]
      BY <1>4, <2>0, <3>1, <3>2
    <3> QED BY <1>2, <2>1, <3>1, <3>2, <3>3
  <2>2. CASE y # i /\ x = i
    <3>1. z \in front /\ y \in Waiting \ front
      BY <1>2, <1>5, <2>0, <2>2
    <3>2. z # i /\ z # y /\ y \notin ahead[z]
      BY <2>2, <3>1
    <3>3. z \in ahead[y]
      BY <3>1, <3>2 DEF Line
    <3> QED BY <1>4, <2>0, <2>2, <3>2, <3>3
  <2>3. CASE y # i /\ x # i /\ z = i
    <3>1. x \in Waiting \ front /\ x \in ahead[y]
      BY <1>4, <1>5, <2>0, <2>3
    <3>2. y \notin front
      BY <2>3, <3>1
    <3> QED BY <1>5, <2>0, <2>3, <3>2
  <2>4. CASE y # i /\ x # i /\ z # i
    <3>1. x \in ahead[y] /\ z \in ahead[x] /\ y \in Waiting
      BY <1>4, <2>0, <2>4
    <3> QED BY <1>4, <2>0, <2>4, <3>1 DEF Line
  <2> QED BY <2>1, <2>2, <2>3, <2>4
<1>9. Line'
  BY <1>6, <1>7, <1>8 DEF Line
<1> QED BY <1>1, <1>2, <1>4, <1>9

\* And so does taking items out.
LEMMA WithoutKeepsLine ==
    ASSUME QueueTypes, Line, NEW S \in SUBSET Input,
           ahead' = Without(S), Waiting' = Waiting \ S
    PROVE  /\ ahead' \in [Input -> SUBSET Input] /\ Line'
           /\ \A x, y \in Input : x \notin S /\ y \notin S => (x \in ahead'[y] <=> x \in ahead[y])
<1>0. Waiting \subseteq Input
  BY DEF Waiting
<1>1. ahead' \in [Input -> SUBSET Input]
  BY DEF Without, QueueTypes
<1>2. \A y \in Input : ahead'[y] = IF y \in S THEN {} ELSE ahead[y] \ S
  BY DEF Without
<1>3. ASSUME NEW y \in Input
      PROVE  ahead'[y] \subseteq Waiting' /\ (y \notin Waiting' => ahead'[y] = {})
  <2>1. ahead[y] \subseteq Waiting /\ (y \notin Waiting => ahead[y] = {})
    BY DEF Line
  <2>2. CASE y \in S
    BY <1>2, <2>2
  <2>3. CASE y \notin S
    <3>1. ahead'[y] = ahead[y] \ S
      BY <1>2, <2>3
    <3> QED BY <2>1, <2>3, <3>1
  <2> QED BY <2>2, <2>3
<1>4. \A x, y \in Waiting' : x \in Input /\ y \in Input /\ x \in Waiting /\ y \in Waiting
                             /\ x \notin S /\ y \notin S
  BY <1>0
<1>5. \A x, y \in Input : x \notin S /\ y \notin S => (x \in ahead'[y] <=> x \in ahead[y])
  BY <1>2
<1>6. ASSUME NEW x \in Waiting', NEW y \in Waiting'
      PROVE  x \in ahead'[y] <=> x # y /\ y \notin ahead'[x]
  BY <1>4, <1>5 DEF Line
<1>7. ASSUME NEW y \in Waiting', NEW x \in ahead'[y], NEW z \in ahead'[x]
      PROVE  z \in ahead'[y]
  <2>1. y \in Input /\ y \in Waiting /\ y \notin S
    BY <1>4
  <2>2. x \in Waiting'
    BY <1>3, <2>1
  <2>3. x \in Input /\ x \notin S
    BY <1>4, <2>2
  <2>4. z \in Waiting'
    BY <1>3, <2>3
  <2>5. z \in Input /\ z \notin S
    BY <1>4, <2>4
  <2>6. x \in ahead[y] /\ z \in ahead[x]
    BY <1>5, <2>1, <2>3, <2>5
  <2>7. z \in ahead[y]
    BY <2>1, <2>6 DEF Line
  <2> QED BY <1>5, <2>1, <2>5, <2>7
<1>8. Line'
  BY <1>3, <1>6, <1>7 DEF Line
<1> QED BY <1>1, <1>5, <1>8

\* What a step must keep for the order of arrival to hold.
OrderKept ==
    /\ UNCHANGED <<arrived, steered>> /\ moved \subseteq moved'
    /\ \A i \in Input : /\ Queued(i)' => Queued(i)
                        /\ item[i].state # "none" => item'[i].state # "none"
    /\ \A x, y \in Input :
           (x \notin moved' /\ y \notin moved' /\ Queued(x)' /\ Queued(y)' /\ x \in ahead[y])
           => x \in ahead'[y]

\* Where the unmoved keep their order, they still arrive in it.
LEMMA ArrivalKept == ASSUME QueueInv, OrderKept PROVE ArrivalInv' /\ UntouchedInOrder'
<1>1. \A a \in DOMAIN arrived : arrived[a] \in Input
  BY DEF QueueInv, QueueTypes
<1>2. ArrivalInv'
  BY <1>1 DEF QueueInv, ArrivalInv, OrderKept
<1>3. UntouchedInOrder'
  BY <1>1 DEF QueueInv, UntouchedInOrder, OrderKept
<1> QED BY <1>2, <1>3

NewItem(i, m) == [state |-> "queued", mode |-> m, text |-> Typed[i], sent_now |-> FALSE]

\* A new input goes behind every one that waits.
LEMMA QueuedKeeps ==
    ASSUME QueueInv, NEW i \in Input, Typed[i] \in Text, NEW m \in {"STEER", "COLLECT", "FOLLOW_UP"},
           fold_queued(i, m), UNCHANGED steered
    PROVE  QueueInv'
<1>1. CASE item[i].state # "none"
  BY <1>1, QueueStays DEF fold_queued, said, queue
<1>2. CASE item[i].state = "none"
  <2>1. /\ item' = [item EXCEPT ![i] = NewItem(i, m)]
        /\ ahead' = Placed(i, Waiting) /\ wanted' = [wanted EXCEPT ![i] = Typed[i]]
        /\ arrived' = Append(arrived, i)
        /\ moved' = IF m = "FOLLOW_UP" THEN moved ELSE moved \cup {i}
    BY <1>2 DEF fold_queued, NewItem
  <2>2. /\ NewItem(i, m) \in Item /\ NewItem(i, m).state = "queued" /\ NewItem(i, m).mode = m
         /\ NewItem(i, m).text = Typed[i] /\ NewItem(i, m).sent_now = FALSE
    BY DEF Item, NewItem
  <2>3. /\ item' \in [Input -> Item] /\ item'[i] = NewItem(i, m)
        /\ \A j \in Input : j # i => item'[j] = item[j]
    BY <2>1, <2>2 DEF QueueInv, QueueTypes
  <2>4. /\ WantTypes' /\ wanted'[i] = Typed[i]
        /\ \A j \in Input : j # i => wanted'[j] = wanted[j]
    BY <2>1 DEF QueueInv, WantTypes
  <2>5. Waiting' = Waiting \cup {i} /\ i \notin Waiting
    BY <1>2, <2>2, <2>3 DEF Waiting, Queued
  <2>6. /\ ahead' \in [Input -> SUBSET Input] /\ Line' /\ ahead'[i] = Waiting
        /\ \A x, y \in Input : x # i /\ y # i => (x \in ahead'[y] <=> x \in ahead[y])
    <3>1. Waiting \in SUBSET (Waiting \ {i}) /\ \A x \in Waiting : ahead[x] \ {i} \subseteq Waiting
      BY <2>5 DEF QueueInv, Line, Waiting
    <3> QED BY <2>1, <2>5, <3>1, PlacedKeepsLine DEF QueueInv
  <2>7. QueueTypes' /\ WantTypes'
    BY <2>1, <2>3, <2>4, <2>6 DEF QueueInv, QueueTypes
  <2>8. ItemsInv'
    <3> SUFFICES ASSUME NEW j \in Input PROVE ItemFits(j)'
      BY DEF ItemsInv
    <3>1. ItemFits(j)
      BY DEF QueueInv, ItemsInv
    <3>2. CASE j = i
      BY <1>2, <2>1, <2>2, <2>3, <2>4, <3>1, <3>2 DEF ItemFits, Queued
    <3>3. CASE j # i
      BY <2>1, <2>3, <2>4, <3>1, <3>3 DEF ItemFits, Queued
    <3> QED BY <3>2, <3>3
  <2>9. arrived \in Seq(Input) /\ DOMAIN arrived = 1 .. Len(arrived) /\ Len(arrived) \in Nat
    BY DEF QueueInv, QueueTypes
  <2>10. /\ DOMAIN arrived' = 1 .. (Len(arrived) + 1)
         /\ arrived'[Len(arrived) + 1] = i
         /\ \A a \in DOMAIN arrived : arrived'[a] = arrived[a]
    BY <2>1, <2>9
  <2>11. \A a \in DOMAIN arrived' : a \in DOMAIN arrived \/ a = Len(arrived) + 1
    BY <2>9, <2>10
  <2>12. \A a \in DOMAIN arrived : arrived[a] \in Input /\ arrived[a] # i
    BY <1>2, <2>9 DEF QueueInv, ArrivalInv
  <2>13. \A a, b \in DOMAIN arrived' : a < b => a \in DOMAIN arrived
    BY <2>9, <2>10
  <2>14. ArrivalInv'
    <3>1. \A a \in DOMAIN arrived' : item'[arrived'[a]].state # "none"
      BY <2>2, <2>3, <2>10, <2>11, <2>12 DEF QueueInv, ArrivalInv
    <3>2. ASSUME NEW a \in DOMAIN arrived', NEW b \in DOMAIN arrived', a < b,
                 arrived'[a] \notin moved', arrived'[b] \notin moved',
                 Queued(arrived[a])', Queued(arrived[b])'
          PROVE  arrived'[a] \in ahead'[arrived'[b]]
      <4>1. a \in DOMAIN arrived /\ arrived'[a] = arrived[a] /\ arrived[a] # i /\ arrived[a] \in Input
        BY <2>10, <2>12, <2>13, <3>2
      <4>2. Queued(arrived[a]) /\ arrived[a] \notin moved
        BY <2>1, <2>3, <3>2, <4>1 DEF Queued
      <4>3. CASE b \in DOMAIN arrived
        <5>1. arrived'[b] = arrived[b] /\ arrived[b] # i /\ arrived[b] \in Input
          BY <2>10, <2>12, <4>3
        <5>2. Queued(arrived[b]) /\ arrived[b] \notin moved
          BY <2>1, <2>3, <3>2, <5>1 DEF Queued
        <5>3. arrived[a] \in ahead[arrived[b]]
          BY <3>2, <4>1, <4>2, <4>3, <5>2 DEF QueueInv, ArrivalInv
        <5> QED BY <2>6, <4>1, <5>1, <5>3
      <4>4. CASE b = Len(arrived) + 1
        BY <2>6, <2>10, <4>1, <4>2, <4>4 DEF Waiting
      <4> QED BY <2>11, <4>3, <4>4
    <3> QED BY <3>1, <3>2 DEF ArrivalInv
  <2>15. UntouchedInOrder'
    <3> SUFFICES ASSUME NEW a \in DOMAIN arrived', NEW b \in DOMAIN arrived', a < b,
                        arrived'[a] \notin moved', arrived'[b] \notin moved',
                        steered'[arrived'[b]] # <<>>
                 PROVE  ~Queued(arrived[a])'
      BY DEF UntouchedInOrder
    <3>1. a \in DOMAIN arrived /\ arrived'[a] = arrived[a] /\ arrived[a] # i /\ arrived[a] \in Input
      BY <2>10, <2>12, <2>13
    <3>2. b # Len(arrived) + 1
      BY <1>2, <2>10 DEF QueueInv, ItemsInv, ItemFits
    <3>3. b \in DOMAIN arrived /\ arrived'[b] = arrived[b]
      BY <2>10, <2>11, <3>2
    <3>4. ~Queued(arrived[a])
      BY <2>1, <3>1, <3>3 DEF QueueInv, UntouchedInOrder
    <3> QED BY <2>3, <3>1, <3>4 DEF Queued
  <2> QED BY <2>6, <2>7, <2>8, <2>14, <2>15 DEF QueueInv
<1> QED BY <1>1, <1>2

\* An edit of a waiting item: of its mode and text, or of its mode alone.
LEMMA EditKeeps ==
    ASSUME QueueInv, NEW i \in Input, Queued(i), NEW m \in {"STEER", "COLLECT", "FOLLOW_UP"},
           NEW t \in Text, item' = [item EXCEPT ![i].mode = m, ![i].text = t],
           wanted' = [wanted EXCEPT ![i] = t],
           moved' = IF m = "FOLLOW_UP" THEN moved ELSE moved \cup {i},
           UNCHANGED <<ahead, steered, arrived>>
    PROVE  QueueInv'
<1>1. /\ item' \in [Input -> Item] /\ item'[i].mode = m /\ item'[i].text = t
      /\ item'[i].state = item[i].state /\ item'[i].sent_now = item[i].sent_now
      /\ \A j \in Input : j # i => item'[j] = item[j]
  BY DEF QueueInv, QueueTypes, Item
<1>2. /\ WantTypes' /\ wanted'[i] = t
      /\ \A j \in Input : j # i => wanted'[j] = wanted[j]
  BY DEF QueueInv, WantTypes
<1>3. QueueTypes' /\ WantTypes'
  BY <1>1, <1>2 DEF QueueInv, QueueTypes
<1>4. ItemsInv'
  <2> SUFFICES ASSUME NEW j \in Input PROVE ItemFits(j)'
    BY DEF ItemsInv
  <2>1. ItemFits(j)
    BY DEF QueueInv, ItemsInv
  <2>2. CASE j = i
    BY <1>1, <1>2, <2>1, <2>2 DEF ItemFits, Queued
  <2>3. CASE j # i
    BY <1>1, <1>2, <2>1, <2>3 DEF ItemFits, Queued
  <2> QED BY <2>2, <2>3
<1>5. \A j \in Input : Queued(j)' <=> Queued(j)
  BY <1>1 DEF Queued
<1>6. Waiting' = Waiting
  BY <1>5 DEF Waiting
<1>7. Line'
  BY <1>6 DEF QueueInv, Line
<1>8. ArrivalInv' /\ UntouchedInOrder'
  <2>1. OrderKept
    <3>1. \A j \in Input : item[j].state # "none" => item'[j].state # "none"
      BY <1>1
    <3>2. moved \subseteq moved'
      OBVIOUS
    <3> QED BY <1>5, <3>1, <3>2 DEF OrderKept
  <2> QED BY <2>1, ArrivalKept
<1> QED BY <1>3, <1>4, <1>7, <1>8 DEF QueueInv

\* A removed input leaves the line, and the others close up.
LEMMA RemoveKeeps ==
    ASSUME QueueInv, NEW i \in Input, Queued(i), item' = [item EXCEPT ![i] = Settled("removed")],
           ahead' = Without({i}), wanted' = [wanted EXCEPT ![i] = "withdrawn"],
           UNCHANGED <<steered, moved, arrived>>
    PROVE  QueueInv'
<1>1. Settled("removed") \in Item /\ Settled("removed").state = "removed"
  BY DEF Settled, NoItem, Item
<1>2. /\ item' \in [Input -> Item] /\ item'[i].state = "removed"
      /\ \A j \in Input : j # i => item'[j] = item[j]
  BY <1>1 DEF QueueInv, QueueTypes
<1>3. /\ WantTypes' /\ wanted'[i] = "withdrawn"
      /\ \A j \in Input : j # i => wanted'[j] = wanted[j]
  BY DEF QueueInv, WantTypes
<1>4. Waiting' = Waiting \ {i}
  BY <1>2 DEF Waiting, Queued
<1>5. /\ ahead' \in [Input -> SUBSET Input] /\ Line'
      /\ \A x, y \in Input : x # i /\ y # i => (x \in ahead'[y] <=> x \in ahead[y])
  <2>1. {i} \in SUBSET Input
    OBVIOUS
  <2> QED BY <1>4, <2>1, WithoutKeepsLine DEF QueueInv
<1>6. QueueTypes' /\ WantTypes'
  BY <1>2, <1>3, <1>5 DEF QueueInv, QueueTypes
<1>7. ItemsInv'
  <2> SUFFICES ASSUME NEW j \in Input PROVE ItemFits(j)'
    BY DEF ItemsInv
  <2>1. ItemFits(j)
    BY DEF QueueInv, ItemsInv
  <2>2. CASE j = i
    BY <1>2, <1>3, <2>1, <2>2 DEF ItemFits, Queued
  <2>3. CASE j # i
    BY <1>2, <1>3, <2>1, <2>3 DEF ItemFits, Queued
  <2> QED BY <2>2, <2>3
<1>8. \A j \in Input : Queued(j)' <=> Queued(j) /\ j # i
  BY <1>2 DEF Queued
<1>9. ArrivalInv' /\ UntouchedInOrder'
  <2>1. \A j \in Input : item[j].state # "none" => item'[j].state # "none"
    BY <1>2
  <2>2. OrderKept
    BY <1>5, <1>8, <2>1 DEF OrderKept
  <2> QED BY <2>2, ArrivalKept
<1> QED BY <1>5, <1>6, <1>7, <1>9 DEF QueueInv

\* A waiting item takes another place in the line, and may be marked sent now.
LEMMA MoveKeeps ==
    ASSUME QueueInv, NEW i \in Input, Queued(i), NEW front \in SUBSET (Waiting \ {i}),
           \A x \in front : ahead[x] \ {i} \subseteq front,
           ahead' = Placed(i, front), moved' = moved \cup {i},
           item' = item \/ item' = [item EXCEPT ![i].sent_now = TRUE],
           UNCHANGED <<wanted, steered, arrived>>
    PROVE  QueueInv'
<1>1. /\ item' \in [Input -> Item] /\ item'[i].text = item[i].text
      /\ item'[i].state = item[i].state
      /\ \A j \in Input : j # i => item'[j] = item[j]
  <2>1. item \in [Input -> Item] /\ item[i] \in Item
    BY DEF QueueInv, QueueTypes
  <2>2. CASE item' = item
    BY <2>1, <2>2
  <2>3. CASE item' = [item EXCEPT ![i].sent_now = TRUE]
    BY <2>1, <2>3 DEF Item
  <2> QED BY <2>2, <2>3
<1>2. \A j \in Input : Queued(j)' <=> Queued(j)
  BY <1>1 DEF Queued
<1>3. Waiting' = Waiting \cup {i}
  BY <1>2 DEF Waiting
<1>4. /\ ahead' \in [Input -> SUBSET Input] /\ Line'
      /\ \A x, y \in Input : x # i /\ y # i => (x \in ahead'[y] <=> x \in ahead[y])
  BY <1>3, PlacedKeepsLine DEF QueueInv
<1>5. QueueTypes' /\ WantTypes'
  BY <1>1, <1>4 DEF QueueInv, QueueTypes, WantTypes
<1>6. ItemsInv'
  <2> SUFFICES ASSUME NEW j \in Input PROVE ItemFits(j)'
    BY DEF ItemsInv
  <2>1. ItemFits(j)
    BY DEF QueueInv, ItemsInv
  <2>2. CASE j = i
    BY <1>1, <2>1, <2>2 DEF ItemFits, Queued
  <2>3. CASE j # i
    BY <1>1, <2>1, <2>3 DEF ItemFits, Queued
  <2> QED BY <2>2, <2>3
<1>7. ArrivalInv' /\ UntouchedInOrder'
  <2>1. \A j \in Input : item[j].state # "none" => item'[j].state # "none"
    BY <1>1
  <2>2. moved \subseteq moved' /\ i \in moved'
    OBVIOUS
  <2>3. OrderKept
    BY <1>2, <1>4, <2>1, <2>2 DEF OrderKept
  <2> QED BY <2>3, ArrivalKept
<1> QED BY <1>4, <1>5, <1>6, <1>7 DEF QueueInv

\* An input sent now goes before the first that was not.
LEMMA PromoteKeeps ==
    ASSUME QueueInv, NEW i \in Input, Queued(i), ahead' = promote(i), moved' = moved \cup {i},
           item' = [item EXCEPT ![i].sent_now = TRUE], UNCHANGED <<wanted, steered, arrived>>
    PROVE  QueueInv'
<1> DEFINE front == {x \in Waiting \ {i} : \A z \in (ahead[x] \cup {x}) \ {i} : item[z].sent_now}
<1>1. ASSUME NEW x \in front, NEW y \in ahead[x] \ {i} PROVE y \in front
  <2>1. x \in Waiting /\ y \in Waiting /\ y # i /\ ahead[y] \subseteq ahead[x]
    BY DEF QueueInv, Line, Waiting
  <2> QED BY <2>1
<1>2. ahead' = Placed(i, front)
  BY DEF promote
<1>3. front \in SUBSET (Waiting \ {i}) /\ \A x \in front : ahead[x] \ {i} \subseteq front
  BY <1>1
<1> HIDE DEF front
<1> QED BY <1>2, <1>3, MoveKeeps

\* An input is moved before another, or to the end.
LEMMA ReorderKeeps ==
    ASSUME QueueInv, NEW i \in Input, NEW b, Queued(i), b # i, ahead' = move_before(i, b),
           moved' = moved \cup {i}, UNCHANGED <<item, wanted, steered, arrived>>
    PROVE  QueueInv'
<1> DEFINE front == IF b \in Waiting THEN ahead[b] \ {i} ELSE Waiting \ {i}
<1>1. front \in SUBSET (Waiting \ {i})
  BY DEF QueueInv, Line, Waiting
<1>2. ASSUME NEW x \in front, NEW y \in ahead[x] \ {i} PROVE y \in front
  <2>1. CASE b \in Waiting
    <3>1. x \in ahead[b]
      BY <2>1
    <3>2. ahead[x] \subseteq ahead[b]
      BY <2>1, <3>1 DEF QueueInv, Line
    <3> QED BY <2>1, <3>2
  <2>2. CASE b \notin Waiting
    <3>1. x \in Waiting /\ x \in Input
      BY <1>1 DEF Waiting
    <3>2. y \in Waiting
      BY <3>1 DEF QueueInv, Line
    <3> QED BY <2>2, <3>2
  <2> QED BY <2>1, <2>2
<1>3. ahead' = Placed(i, front)
  BY DEF move_before
<1>4. \A x \in front : ahead[x] \ {i} \subseteq front
  BY <1>2
<1> HIDE DEF front
<1> QED BY <1>1, <1>3, <1>4, MoveKeeps

\* A recorded interrupt promotes the input it names, if it still waits.
LEMMA InterruptKeeps ==
    ASSUME QueueInv, NEW k, NEW kind, NEW i \in Input, fold_interrupt(k, kind, i),
           UNCHANGED <<wanted, steered, arrived>>
    PROVE  QueueInv'
<1>1. CASE kind = "SEND_NOW" /\ Queued(i)
  BY <1>1, PromoteKeeps DEF fold_interrupt
<1>2. CASE ~(kind = "SEND_NOW" /\ Queued(i))
  BY <1>2, QueueStays DEF fold_interrupt, queue
<1> QED BY <1>1, <1>2


\* An input that waits becomes one that steers.
LEMMA SteerKeeps ==
    ASSUME QueueInv, NEW i \in Input, Queued(i), item' = [item EXCEPT ![i].mode = "STEER"],
           moved' = moved \cup {i}, UNCHANGED <<ahead, wanted, steered, arrived>>
    PROVE  QueueInv'
<1>1. item \in [Input -> Item] /\ item[i] \in Item
  BY DEF QueueInv, QueueTypes
<1>2. /\ item' \in [Input -> Item] /\ item'[i].text = item[i].text
      /\ item'[i].state = item[i].state /\ item'[i].sent_now = item[i].sent_now
      /\ \A j \in Input : j # i => item'[j] = item[j]
  BY <1>1 DEF Item
<1>3. QueueTypes' /\ WantTypes'
  BY <1>2 DEF QueueInv, QueueTypes, WantTypes
<1>4. ItemsInv'
  <2> SUFFICES ASSUME NEW j \in Input PROVE ItemFits(j)'
    BY DEF ItemsInv
  <2>1. ItemFits(j)
    BY DEF QueueInv, ItemsInv
  <2>2. CASE j = i
    BY <1>2, <2>1, <2>2 DEF ItemFits, Queued
  <2>3. CASE j # i
    BY <1>2, <2>1, <2>3 DEF ItemFits, Queued
  <2> QED BY <2>2, <2>3
<1>5. \A j \in Input : Queued(j)' <=> Queued(j)
  BY <1>2 DEF Queued
<1>6. Waiting' = Waiting
  BY <1>5 DEF Waiting
<1>7. Line'
  BY <1>6 DEF QueueInv, Line
<1>8. ArrivalInv' /\ UntouchedInOrder'
  <2>1. OrderKept
    <3>1. \A j \in Input : item[j].state # "none" => item'[j].state # "none"
      BY <1>2
    <3> QED BY <1>5, <3>1 DEF OrderKept
  <2> QED BY <2>1, ArrivalKept
<1> QED BY <1>3, <1>4, <1>7, <1>8 DEF QueueInv

\* The dispatch settles what it takes, gives its text, and takes it from the line.
LEMMA DispatchKeeps ==
    ASSUME QueueInv,
           item' = [i \in Input |-> IF i \in Taken THEN Settled("dispatched") ELSE item[i]],
           steered' = [i \in Input |-> IF i \in Taken THEN Append(steered[i], item[i].text)
                                       ELSE steered[i]],
           ahead' = Without(Taken), UNCHANGED <<wanted, moved, arrived>>
    PROVE  QueueInv'
<1>1. Taken \in SUBSET Input /\ \A i \in Taken : Queued(i)
  BY DEF Taken, Waiting
<1>2. Settled("dispatched") \in Item /\ Settled("dispatched").state = "dispatched"
  BY DEF Settled, NoItem, Item
<1>3. /\ item' \in [Input -> Item]
      /\ \A i \in Input : i \in Taken => item'[i].state = "dispatched"
      /\ \A i \in Input : i \notin Taken => item'[i] = item[i]
  BY <1>2 DEF QueueInv, QueueTypes
<1>4. \A i \in Input : i \in Taken => /\ wanted[i] \in Text /\ item[i].text = wanted[i]
                                      /\ steered[i] = <<>>
  BY <1>1 DEF QueueInv, ItemsInv, ItemFits
<1>5. \A i \in Input : /\ i \in Taken => steered'[i] = <<wanted[i]>>
                       /\ i \notin Taken => steered'[i] = steered[i]
  <2> SUFFICES ASSUME NEW i \in Input
               PROVE  /\ i \in Taken => steered'[i] = <<wanted[i]>>
                      /\ i \notin Taken => steered'[i] = steered[i]
    OBVIOUS
  <2>1. /\ i \in Taken => steered'[i] = Append(steered[i], item[i].text)
        /\ i \notin Taken => steered'[i] = steered[i]
    OBVIOUS
  <2>2. ASSUME i \in Taken PROVE steered'[i] = Append(<<>>, wanted[i])
    BY <1>4, <2>1, <2>2
  <2>3. Append(<<>>, wanted[i]) = <<wanted[i]>>
    BY ONLY TRUE
  <2> QED BY <2>1, <2>2, <2>3
<1>6. steered' \in [Input -> Seq(Text)]
  <2>1. ASSUME NEW i \in Input PROVE steered'[i] \in Seq(Text)
    <3>1. CASE i \in Taken
      <4>1. wanted[i] \in Text /\ steered'[i] = <<wanted[i]>>
        BY <1>4, <1>5, <3>1
      <4>2. \A w \in Text : <<w>> \in Seq(Text)
        BY ONLY TRUE
      <4> QED BY <4>1, <4>2
    <3>2. CASE i \notin Taken
      <4>1. steered \in [Input -> Seq(Text)]
        BY DEF QueueInv, QueueTypes
      <4> QED BY <1>5, <3>2, <4>1
    <3> QED BY <3>1, <3>2
  <2>2. steered' = [i \in Input |-> steered'[i]]
    OBVIOUS
  <2> QED BY <2>1, <2>2
<1>7. \A i \in Input : Queued(i)' <=> Queued(i) /\ i \notin Taken
  BY <1>3 DEF Queued
<1>8. Waiting' = Waiting \ Taken
  BY <1>7 DEF Waiting
<1>9. /\ ahead' \in [Input -> SUBSET Input] /\ Line'
      /\ \A x, y \in Input : x \notin Taken /\ y \notin Taken => (x \in ahead'[y] <=> x \in ahead[y])
  BY <1>1, <1>8, WithoutKeepsLine DEF QueueInv
<1>10. QueueTypes' /\ WantTypes'
  BY <1>3, <1>6, <1>9 DEF QueueInv, QueueTypes, WantTypes
<1>11. ItemsInv'
  <2> SUFFICES ASSUME NEW j \in Input PROVE ItemFits(j)'
    BY DEF ItemsInv
  <2>1. ItemFits(j)
    BY DEF QueueInv, ItemsInv
  <2>2. CASE j \in Taken
    BY <1>3, <1>4, <1>5, <2>2 DEF ItemFits, Queued
  <2>3. CASE j \notin Taken
    BY <1>3, <1>5, <2>1, <2>3 DEF ItemFits, Queued
  <2> QED BY <2>2, <2>3
<1>12. \A a \in DOMAIN arrived : arrived[a] \in Input
  BY DEF QueueInv, QueueTypes
<1>13. ArrivalInv'
  <2>1. \A j \in Input : item[j].state # "none" => item'[j].state # "none"
    BY <1>3
  <2> QED BY <1>7, <1>9, <1>12, <2>1 DEF QueueInv, ArrivalInv
<1>14. UntouchedInOrder'
  <2> SUFFICES ASSUME NEW a \in DOMAIN arrived, NEW b \in DOMAIN arrived, a < b,
                      arrived[a] \notin moved, arrived[b] \notin moved,
                      steered'[arrived[b]] # <<>>, Queued(arrived[a])'
               PROVE  FALSE
    BY DEF UntouchedInOrder
  <2>1. Queued(arrived[a]) /\ arrived[a] \notin Taken /\ arrived[a] \in Input /\ arrived[b] \in Input
    <3>1. arrived[a] \in Input /\ arrived[b] \in Input
      BY <1>12
    <3> QED BY <1>7, <3>1
  <2>2. CASE arrived[b] \notin Taken
    <3>1. steered[arrived[b]] # <<>>
      BY <1>5, <2>1, <2>2
    <3> QED BY <2>1, <3>1 DEF QueueInv, UntouchedInOrder
  <2>3. CASE arrived[b] \in Taken
    <3>1. Queued(arrived[b])
      BY <1>1, <2>3
    <3>2. arrived[a] \in FollowUps /\ arrived[b] \in FollowUps
      BY <2>1, <3>1 DEF FollowUps, Waiting, QueueInv, ItemsInv, ItemFits
    <3>3. arrived[a] \in ahead[arrived[b]]
      BY <2>1, <3>1 DEF QueueInv, ArrivalInv
    <3> QED BY <2>3, <3>2, <3>3 DEF Taken
  <2> QED BY <2>2, <2>3
<1> QED BY <1>9, <1>10, <1>11, <1>13, <1>14 DEF QueueInv

-----------------------------------------------------------------------------
(* The steps                                                               *)

\* What a handler's next step carries.
LEMMA StepParts ==
    ASSUME NEW s \in Step
    PROVE  /\ s.op = "queue" => /\ s.input \in Input /\ s.mode \in {"STEER", "COLLECT", "FOLLOW_UP"}
                                /\ s.stop \in BOOLEAN
           /\ s.op \in {"running?", "request"} => s.input \in Input
           /\ s.op = "running?" => [s EXCEPT !.op = "request"] \in Step
           /\ s.op = "stop" => s.key \in Interrupt
  BY DEF Step, Idle

\* What a handler may have left to do.
LEMMA StepForms ==
    /\ Idle \in Step /\ [op |-> "park"] \in Step /\ [op |-> "interrupt"] \in Step
    /\ \A k \in Interrupt : [op |-> "stop", key |-> k] \in Step
    /\ \A i \in Input : [op |-> "running?", input |-> i] \in Step
    /\ \A i \in Input, m \in {"STEER", "COLLECT", "FOLLOW_UP"}, b \in BOOLEAN :
           [op |-> "queue", input |-> i, mode |-> m, stop |-> b] \in Step
  BY DEF Step

\* Every behaviour gives an input a mode.
LEMMA DefaultModes == \A w : default_of(w) \in {"STEER", "COLLECT", "FOLLOW_UP"}
  BY DEF default_of

\* A handler that sets what it does next leaves the others.
LEMMA TodoSet ==
    ASSUME TodoTypes, NEW h \in Handler, NEW s \in Step, next(h, s)
    PROVE  TodoTypes'
  BY DEF TodoTypes, next

\* Every step leaves the handlers with steps of the right form.
LEMMA TodoKept ==
    ASSUME TodoTypes, [Next]_vars
    PROVE  TodoTypes'
<1>1. CASE UNCHANGED todo
  BY <1>1 DEF TodoTypes
<1>2. CASE Crash
  BY <1>2, StepForms DEF Crash, TodoTypes
<1>3. ASSUME NEW h \in Handler, Finishes(h) PROVE TodoTypes'
  <2>0. todo[h] \in Step
    BY DEF TodoTypes
  <2>1. CASE QueueDefault(h)
    <3>1. todo[h].input \in Input
      BY <2>0, <2>1, StepParts DEF QueueDefault
    <3>2. (IF todo[h].stop THEN [op |-> "running?", input |-> todo[h].input] ELSE Idle) \in Step
      BY <3>1, StepForms
    <3> QED BY <2>1, <3>2, TodoSet DEF QueueDefault
  <2>2. CASE StopAndSend(h)
    <3>1. (IF Alive THEN [todo[h] EXCEPT !.op = "request"] ELSE Idle) \in Step
      BY <2>0, <2>2, StepParts, StepForms DEF StopAndSend
    <3> QED BY <2>2, <3>1, TodoSet DEF StopAndSend
  <2>3. CASE request_send_now(h)
    <3>1. next(h, Idle) \/ next(h, [op |-> "interrupt"])
      BY <2>3 DEF request_send_now
    <3> QED BY <3>1, StepForms, TodoSet
  <2>4. CASE StopRecorded(h)
    <3>1. next(h, Idle) \/ next(h, [op |-> "park"])
      BY <2>4 DEF StopRecorded
    <3> QED BY <3>1, StepForms, TodoSet
  <2>5. CASE pause(h)
    <3>1. next(h, Idle) \/ next(h, [op |-> "interrupt"])
      BY <2>5 DEF pause
    <3> QED BY <3>1, StepForms, TodoSet
  <2>6. CASE interrupt(h)
    BY <2>6, StepForms, TodoSet DEF interrupt
  <2> QED BY <1>3, <2>1, <2>2, <2>3, <2>4, <2>5, <2>6 DEF Finishes
<1>4. ASSUME NEW h \in Handler, Command(h) PROVE TodoTypes'
  <2>1. CASE UNCHANGED todo
    BY <2>1 DEF TodoTypes
  <2>2. ASSUME NEW i \in Input, resolve_default(h, i) PROVE TodoTypes'
    <3>1. [op |-> "queue", input |-> i, mode |-> default_of(behavior.while_running),
           stop |-> behavior.while_running = "STOP_AND_SEND"] \in Step
      BY StepForms, DefaultModes
    <3> QED BY <2>2, <3>1, TodoSet DEF resolve_default
  <2>3. ASSUME NEW i \in Input, NEW k \in Interrupt, send_now(h, k, i) PROVE TodoTypes'
    <3>1. UNCHANGED todo \/ next(h, [op |-> "interrupt"])
      BY <2>3 DEF send_now
    <3> QED BY <2>1, <3>1, StepForms, TodoSet
  <2>4. ASSUME NEW k \in Interrupt, stop_task(h, k) PROVE TodoTypes'
    <3>1. [op |-> "stop", key |-> k] \in Step
      BY StepForms
    <3> QED BY <2>4, <3>1, TodoSet DEF stop_task
  <2>5. \/ UNCHANGED todo
        \/ \E i \in Input : resolve_default(h, i) \/ \E k \in Interrupt : send_now(h, k, i)
        \/ \E k \in Interrupt : stop_task(h, k)
    BY <1>4 DEF Command, QueueInput, edit_input, remove_input, reorder_input, set_send_behavior
  <2> QED BY <2>1, <2>2, <2>3, <2>4, <2>5
<1>5. \/ UNCHANGED todo \/ Crash
      \/ \E h \in Handler : Finishes(h) \/ Command(h)
  BY DEF Next, vars, Start, LoopStep, record_interrupts, new_round, dispatch, lease_lost, StreamCut,
         flush, stream_over, watch, WatchFires, StartCall, Leave, Delta, StreamEnds, Break, Takeover, CallEnds
<1> QED BY <1>1, <1>2, <1>3, <1>4, <1>5

\* Every step keeps what is on the log.
LEMMA QueueKept ==
    ASSUME QueueInv, TodoTypes, [Next]_vars
    PROVE  QueueInv'
<1> USE QueueAssumption
<1>0. Mode \subseteq {"STEER", "COLLECT", "FOLLOW_UP"} /\ \A i \in Input : Typed[i] \in Text
  OBVIOUS
<1>1. ASSUME NEW h \in Handler, Finishes(h) PROVE QueueInv'
  <2>0. todo[h] \in Step
    BY DEF TodoTypes
  <2>1. CASE QueueDefault(h)
    <3>1. todo[h].input \in Input /\ todo[h].mode \in {"STEER", "COLLECT", "FOLLOW_UP"}
      BY <2>0, <2>1, StepParts DEF QueueDefault
    <3>2. fold_queued(todo[h].input, todo[h].mode) /\ UNCHANGED steered
      BY <2>1 DEF QueueDefault
    <3> QED BY ONLY <1>0, <3>1, <3>2, QueueInv, QueuedKeeps
  <2>2. CASE request_send_now(h)
    <3>1. todo[h].input \in Input
      BY <2>0, <2>2, StepParts DEF request_send_now
    <3>2. CASE intr[todo[h].input] # "none"
      <4>1. UNCHANGED queue
        BY <2>2, <3>2 DEF request_send_now, queue
      <4> QED BY <4>1, QueueStays
    <3>3. CASE intr[todo[h].input] = "none"
      <4>1. /\ fold_interrupt(todo[h].input, "SEND_NOW", todo[h].input)
            /\ UNCHANGED <<wanted, steered, arrived>>
        BY <2>2, <3>3 DEF request_send_now
      <4> QED BY ONLY <3>1, <4>1, QueueInv, InterruptKeeps
    <3> QED BY <3>2, <3>3
  <2>3. CASE StopAndSend(h) \/ StopRecorded(h) \/ pause(h) \/ interrupt(h)
    <3>1. UNCHANGED queue
      BY <2>3 DEF StopAndSend, StopRecorded, pause, interrupt, log, said, queue
    <3> QED BY <3>1, QueueStays
  <2> QED BY <1>1, <2>1, <2>2, <2>3 DEF Finishes
<1>2. ASSUME NEW h \in Handler, Command(h) PROVE QueueInv'
  <2>1. ASSUME NEW i \in Input, NEW m \in Mode, QueueInput(h, i, m) PROVE QueueInv'
    <3>1. fold_queued(i, m) /\ UNCHANGED steered /\ m \in {"STEER", "COLLECT", "FOLLOW_UP"}
      BY <1>0, <2>1 DEF QueueInput
    <3> QED BY ONLY <1>0, <3>1, QueueInv, QueuedKeeps
  <2>2. ASSUME NEW i \in Input, NEW m \in Mode, NEW t \in Text, edit_input(h, i, m, t)
        PROVE  QueueInv'
    <3>1. /\ Queued(i) /\ item' = [item EXCEPT ![i].mode = m, ![i].text = t]
          /\ wanted' = [wanted EXCEPT ![i] = t]
          /\ moved' = IF m = "FOLLOW_UP" THEN moved ELSE moved \cup {i}
          /\ UNCHANGED <<ahead, steered, arrived>>
          /\ m \in {"STEER", "COLLECT", "FOLLOW_UP"}
      BY <1>0, <2>2 DEF edit_input, queued_item
    <3> QED BY ONLY <3>1, QueueInv, EditKeeps
  <2>3. ASSUME NEW i \in Input, remove_input(h, i) PROVE QueueInv'
    BY <2>3, RemoveKeeps DEF remove_input, queued_item
  <2>4. ASSUME NEW i \in Input, NEW b, reorder_input(h, i, b) PROVE QueueInv'
    <3>1. /\ Queued(i) /\ b # i /\ ahead' = move_before(i, b) /\ moved' = moved \cup {i}
          /\ UNCHANGED <<item, wanted, steered, arrived>>
      BY <2>4 DEF reorder_input, queued_item
    <3> QED BY ONLY <3>1, QueueInv, ReorderKeeps
  <2>5. ASSUME NEW i \in Input, NEW k \in Interrupt, send_now(h, k, i) PROVE QueueInv'
    <3>1. CASE behavior.send_now = "STEER"
      BY <2>5, <3>1, SteerKeeps DEF send_now, queued_item
    <3>2. CASE behavior.send_now # "STEER"
      <4>1. fold_interrupt(k, "SEND_NOW", i) /\ UNCHANGED <<wanted, steered, arrived>>
        BY <2>5, <3>2 DEF send_now
      <4> QED BY ONLY <4>1, QueueInv, InterruptKeeps
    <3> QED BY <3>1, <3>2
  <2>6. CASE \/ \E i \in Input : resolve_default(h, i)
             \/ \E k \in Interrupt : stop_task(h, k)
             \/ \E w \in WhileRunning, s \in SendNow : set_send_behavior(h, w, s)
    <3>1. UNCHANGED queue
      BY <2>6 DEF resolve_default, stop_task, set_send_behavior, log, said, queue
    <3> QED BY <3>1, QueueStays
  <2> QED BY <1>2, <2>1, <2>2, <2>3, <2>4, <2>5, <2>6 DEF Command
<1>3. CASE dispatch
  <2>1. CASE Fenced \/ Taken = {}
    <3>1. UNCHANGED queue
      BY <1>3, <2>1 DEF dispatch, said, queue
    <3> QED BY <3>1, QueueStays
  <2>2. CASE ~(Fenced \/ Taken = {})
    BY <1>3, <2>2, DispatchKeeps DEF dispatch, said
  <2> QED BY <2>1, <2>2
<1>4. CASE UNCHANGED queue
  BY <1>4, QueueStays
<1>5. UNCHANGED queue \/ dispatch \/ \E h \in Handler : Finishes(h) \/ Command(h)
  BY DEF Next, vars, queue, log, said, Start, LoopStep, record_interrupts, new_round, lease_lost,
         StreamCut, flush, stream_over, watch, WatchFires, StartCall, Leave, Delta, StreamEnds, Break, Takeover, CallEnds, Crash
<1> QED BY <1>1, <1>2, <1>3, <1>4, <1>5

\* Every step keeps the types of what the loop holds.
LEMMA LoopKept ==
    ASSUME IInv, [Next]_vars
    PROVE  LoopTypes' /\ FlagTypes'
<1> USE QueueAssumption
<1>0. LoopTypes /\ FlagTypes
  BY DEF IInv
<1>1. ASSUME NEW h \in Handler, Finishes(h) PROVE LoopTypes'
  <2>0. todo[h] \in Step
    BY DEF IInv, TodoTypes
  <2>1. /\ behavior' = behavior /\ shown' = shown /\ gen' = gen /\ lgen' = lgen /\ pc' = pc
        /\ cut' = cut
    BY <1>1 DEF Finishes, QueueDefault, StopAndSend, request_send_now, StopRecorded, pause,
                interrupt, log, loop
  <2>2. intr' \in [Key -> {"none", "STOP", "SEND_NOW", "applied"}]
    <3>1. \/ intr' = intr
          \/ todo[h].op = "request" /\ intr' = [intr EXCEPT ![todo[h].input] = "SEND_NOW"]
          \/ todo[h].op = "stop" /\ intr' = [intr EXCEPT ![todo[h].key] = "STOP"]
      BY <1>1 DEF Finishes, QueueDefault, StopAndSend, request_send_now, StopRecorded, pause,
                  interrupt, log, fold_interrupt
    <3>2. intr \in [Key -> {"none", "STOP", "SEND_NOW", "applied"}]
      BY <1>0 DEF LoopTypes
    <3>3. /\ todo[h].op = "request" => todo[h].input \in Key
          /\ todo[h].op = "stop" => todo[h].key \in Key
      BY <2>0, StepParts DEF Key
    <3> QED BY ONLY <3>1, <3>2, <3>3
  <2> QED BY <1>0, <2>1, <2>2 DEF LoopTypes
<1>2. ASSUME NEW h \in Handler, Command(h) PROVE LoopTypes'
  <2>1. shown' = shown /\ gen' = gen /\ lgen' = lgen /\ pc' = pc /\ cut' = cut
    BY <1>2 DEF Command, QueueInput, resolve_default, edit_input, remove_input, reorder_input,
                send_now, stop_task, set_send_behavior, loop
  <2>2. intr' \in [Key -> {"none", "STOP", "SEND_NOW", "applied"}]
    <3>1. \/ intr' = intr
          \/ \E k \in Interrupt : intr' = [intr EXCEPT ![k] = "SEND_NOW"]
      BY <1>2 DEF Command, QueueInput, resolve_default, edit_input, remove_input, reorder_input,
                  send_now, stop_task, set_send_behavior, log, fold_interrupt
    <3>2. intr \in [Key -> {"none", "STOP", "SEND_NOW", "applied"}]
      BY <1>0 DEF LoopTypes
    <3> QED BY ONLY <3>1, <3>2 DEF Key
  <2>3. behavior' \in [while_running : WhileRunning, send_now : SendNow]
    <3>1. \/ behavior' = behavior
          \/ \E w \in WhileRunning, s \in SendNow :
                 behavior' = [while_running |-> w, send_now |-> s]
      BY <1>2 DEF Command, QueueInput, resolve_default, edit_input, remove_input, reorder_input,
                  send_now, stop_task, set_send_behavior, log
    <3>2. behavior \in [while_running : WhileRunning, send_now : SendNow]
      BY <1>0 DEF LoopTypes
    <3>3. ASSUME NEW w \in WhileRunning, NEW s \in SendNow,
                 behavior' = [while_running |-> w, send_now |-> s]
          PROVE  behavior' \in [while_running : WhileRunning, send_now : SendNow]
      BY ONLY <3>3
    <3> QED BY <3>1, <3>2, <3>3
  <2> QED BY <1>0, <2>1, <2>2, <2>3 DEF LoopTypes
<1>3. ASSUME NEW h \in Handler, Finishes(h) \/ Command(h) PROVE FlagTypes'
  <2>1. first' = first /\ (park' = park \/ park' = (park \/ Alive))
        /\ (round' = round \/ round' = (round \/ Alive))
        /\ (woken' = woken \/ woken' = (pc = "stream")) /\ lane' = lane
    BY <1>3 DEF Finishes, QueueDefault, StopAndSend, request_send_now, StopRecorded, pause,
                interrupt, Command, QueueInput, resolve_default, edit_input, remove_input,
                reorder_input, send_now, stop_task, set_send_behavior, loop, wake, watch
  <2>2. first' \in BOOLEAN /\ park' \in BOOLEAN /\ round' \in BOOLEAN /\ woken' \in BOOLEAN
        /\ lane' \in {"empty", "pending", "broken"}
    BY <1>0, <2>1 DEF FlagTypes
  <2> QED BY <2>2 DEF FlagTypes
<1>4. CASE \/ Start \/ LoopStep \/ Delta \/ StreamEnds \/ Break \/ Takeover \/ Crash
           \/ \E how \in {"done", "cancelled", "unknown"} : CallEnds(how)
  <2>1. FlagTypes'
    <3>1. /\ first' = first \/ first' \in BOOLEAN
          /\ park' = park \/ park' \in BOOLEAN
          /\ round' = round \/ round' \in BOOLEAN
          /\ woken' = woken \/ woken' \in BOOLEAN
          /\ lane' = lane \/ lane' \in {"empty", "pending", "broken"}
      BY <1>4 DEF Start, LoopStep, record_interrupts, new_round, dispatch, lease_lost, StreamCut,
                  flush, stream_over, watch, WatchFires, StartCall, Leave, Delta, StreamEnds, Break, Takeover, CallEnds,
                  Crash, loop_gone, loop
    <3>2. first' \in BOOLEAN /\ park' \in BOOLEAN /\ round' \in BOOLEAN /\ woken' \in BOOLEAN
          /\ lane' \in {"empty", "pending", "broken"}
      BY <1>0, <3>1 DEF FlagTypes
    <3> QED BY <3>2 DEF FlagTypes
  <2>2. behavior' = behavior
    BY <1>4 DEF Start, LoopStep, record_interrupts, new_round, dispatch, lease_lost, StreamCut,
                flush, stream_over, watch, WatchFires, StartCall, Leave, Delta, StreamEnds, Break, Takeover, CallEnds,
                Crash, loop_gone, log
  <2>3. pc' \in {"none", "boundary", "round", "dispatch", "admit", "stream", "call", "tool", "ending"}
    <3>1. \/ pc' = pc
          \/ pc' \in {"none", "boundary", "round", "dispatch", "admit", "stream", "call", "tool",
                      "ending"}
      BY <1>4 DEF Start, LoopStep, record_interrupts, new_round, dispatch, lease_lost, StreamCut,
                  flush, stream_over, watch, WatchFires, StartCall, Leave, Delta, StreamEnds, Break, Takeover, CallEnds,
                  Crash, loop_gone
    <3> QED BY <1>0, <3>1 DEF LoopTypes
  <2>4. cut' \in {"none", "stream", "cancelled", "unknown"}
    <3>1. cut' = cut \/ cut' \in {"none", "stream", "cancelled", "unknown"}
      BY <1>4 DEF Start, LoopStep, record_interrupts, new_round, dispatch, lease_lost, StreamCut,
                  flush, stream_over, watch, WatchFires, StartCall, Leave, Delta, StreamEnds, Break, Takeover, CallEnds,
                  Crash, loop_gone, loop
    <3> QED BY <1>0, <3>1 DEF LoopTypes
  <2>5. gen' \in 1..(MaxGen + 1) /\ lgen' \in 1..gen'
    <3>1. \/ gen' = gen /\ (lgen' = lgen \/ lgen' = 1 \/ lgen' = gen)
          \/ gen < MaxGen /\ gen' = gen + 1 /\ lgen' = lgen
      BY <1>4 DEF Start, LoopStep, record_interrupts, new_round, dispatch, lease_lost, StreamCut,
                  flush, stream_over, watch, WatchFires, StartCall, Leave, Delta, StreamEnds, Break, Takeover, CallEnds,
                  Crash, loop_gone, loop
    <3>2. MaxGen \in Nat /\ gen \in 1..(MaxGen + 1) /\ lgen \in 1..gen
      BY <1>0 DEF LoopTypes
    <3> QED BY ONLY <3>1, <3>2
  <2>6. intr' \in [Key -> {"none", "STOP", "SEND_NOW", "applied"}]
    <3>1. \/ intr' = intr
          \/ intr' = [k \in Key |-> IF k \in Unapplied THEN "applied" ELSE intr[k]]
      BY <1>4 DEF Start, LoopStep, record_interrupts, new_round, dispatch, lease_lost, StreamCut,
                  flush, stream_over, watch, WatchFires, StartCall, Leave, Delta, StreamEnds, Break, Takeover, CallEnds,
                  Crash, loop_gone, log
    <3>2. intr \in [Key -> {"none", "STOP", "SEND_NOW", "applied"}]
      BY <1>0 DEF LoopTypes
    <3> QED BY ONLY <3>1, <3>2 DEF Key
  <2>7. shown' \in [Input -> Seq(Text)]
    <3>1. \/ shown' = shown \/ shown' = steered \/ shown' = [i \in Input |-> <<>>]
          \/ shown' = [i \in Input |-> IF i \in Taken THEN Append(shown[i], item[i].text) ELSE shown[i]]
      BY <1>4 DEF Start, LoopStep, record_interrupts, new_round, dispatch, lease_lost, StreamCut,
                  flush, stream_over, watch, WatchFires, StartCall, Leave, Delta, StreamEnds, Break, Takeover, CallEnds,
                  Crash, loop_gone, loop
    <3>2. shown \in [Input -> Seq(Text)] /\ steered \in [Input -> Seq(Text)]
      BY <1>0 DEF LoopTypes, IInv, QueueInv, QueueTypes
    <3>3. \A i \in Input : i \in Taken => item[i].text \in Text
      BY DEF Taken, Waiting, IInv, QueueInv, ItemsInv, ItemFits
    <3>4. CASE shown' = [i \in Input |-> IF i \in Taken THEN Append(shown[i], item[i].text)
                                         ELSE shown[i]]
      <4>1. ASSUME NEW i \in Input
            PROVE  (IF i \in Taken THEN Append(shown[i], item[i].text) ELSE shown[i]) \in Seq(Text)
        <5>1. shown[i] \in Seq(Text) /\ (i \in Taken => item[i].text \in Text)
          BY <3>2, <3>3
        <5> QED BY ONLY <5>1
      <4> QED BY ONLY <3>4, <4>1
    <3>5. [i \in Input |-> <<>>] \in [Input -> Seq(Text)]
      BY ONLY TRUE
    <3> QED BY ONLY <3>1, <3>2, <3>4, <3>5
  <2> QED BY <2>1, <2>2, <2>3, <2>4, <2>5, <2>6, <2>7, <1>0 DEF LoopTypes
<1>5. CASE UNCHANGED vars
  BY <1>0, <1>5 DEF vars, log, loop, watch, LoopTypes, FlagTypes
<1> QED BY <1>1, <1>2, <1>3, <1>4, <1>5 DEF Next

\* The transcript and the log part only for a fenced loop that has not started
\* its turn.
LEMMA ShownKept ==
    ASSUME IInv, [Next]_vars
    PROVE  ShownInv'
<1>0. ShownInv /\ gen \in Nat /\ lgen \in Nat /\ lgen <= gen
  <2>1. MaxGen \in Nat
    BY QueueAssumption
  <2> QED BY <2>1 DEF IInv, LoopTypes
<1>1. CASE UNCHANGED <<pc, shown, steered, gen, lgen>>
  BY <1>0, <1>1 DEF ShownInv, Fenced
<1>2. CASE Start
  BY <1>2 DEF Start, ShownInv, log
<1>3. CASE dispatch
  <2>1. shown = steered /\ pc' = "admit"
    BY <1>0, <1>3 DEF dispatch, ShownInv
  <2>2. CASE Fenced
    <3>1. Fenced'
      BY <1>3, <2>2 DEF dispatch, Fenced
    <3> QED BY <2>1, <3>1 DEF ShownInv
  <2>3. CASE ~Fenced /\ Taken # {}
    <3>1. shown' = steered'
      BY <1>3, <2>1, <2>3 DEF dispatch
    <3> QED BY <2>1, <3>1 DEF ShownInv
  <2>4. CASE ~Fenced /\ Taken = {}
    <3>1. steered' = steered /\ shown' = [i \in Input |-> shown[i]]
      BY <1>3, <2>4 DEF dispatch
    <3>2. shown = [i \in Input |-> shown[i]]
      BY DEF IInv, LoopTypes
    <3> QED BY <2>1, <3>1, <3>2 DEF ShownInv
  <2> QED BY <2>2, <2>3, <2>4
<1>4. CASE lease_lost
  BY <1>0, <1>4 DEF lease_lost, ShownInv, log, loop
<1>5. CASE Takeover
  <2>1. Fenced' /\ UNCHANGED <<pc, shown, steered>>
    BY <1>0, <1>5 DEF Takeover, Fenced, loop, log
  <2> QED BY <1>0, <2>1 DEF ShownInv
<1>6. CASE Leave \/ Crash
  <2>1. pc' = "none"
    BY <1>6 DEF Leave, Crash, loop_gone
  <2> QED BY <2>1 DEF ShownInv
<1>7. CASE \/ record_interrupts \/ new_round \/ flush \/ StreamCut \/ WatchFires \/ StartCall \/ Delta
           \/ StreamEnds \/ Break \/ \E how \in {"done", "cancelled", "unknown"} : CallEnds(how)
  <2>1. /\ pc \in {"boundary", "round", "stream", "call", "tool", "dispatch"} \/ pc' = "ending"
        /\ pc' # "admit" /\ UNCHANGED <<shown, steered>>
    BY <1>7 DEF record_interrupts, new_round, StreamCut, flush, stream_over, watch, WatchFires, StartCall, Delta, StreamEnds,
                Break, CallEnds, log, loop
  <2> QED BY <1>0, <2>1 DEF ShownInv
<1>8. ASSUME NEW h \in Handler, Finishes(h) \/ Command(h)
      PROVE  UNCHANGED <<pc, shown, steered, gen, lgen>>
  BY <1>8 DEF Finishes, QueueDefault, StopAndSend, request_send_now, StopRecorded, pause, interrupt,
              Command, QueueInput, resolve_default, edit_input, remove_input, reorder_input,
              send_now, stop_task, set_send_behavior, log, loop
<1>9. CASE UNCHANGED vars
  BY <1>1, <1>9 DEF vars, log, loop
<1> QED BY <1>1, <1>2, <1>3, <1>4, <1>5, <1>6, <1>7, <1>8, <1>9 DEF Next, LoopStep

-----------------------------------------------------------------------------
(* The theorems                                                            *)

\* The queue is empty and nothing was asked.
LEMMA InitInv == Init => IInv
<1> SUFFICES ASSUME Init PROVE IInv
  OBVIOUS
<1>0. NoItem \in Item /\ NoItem.state = "none"
  BY DEF NoItem, Item
<1>a. item = [i \in Input |-> NoItem] /\ ahead = [i \in Input |-> {}] /\ moved = {}
  BY DEF Init
<1>b. arrived = <<>> /\ steered = [i \in Input |-> <<>>] /\ shown = [i \in Input |-> <<>>]
  BY DEF Init
<1>c. DOMAIN arrived = {} /\ arrived \in Seq(Input) /\ steered \in [Input -> Seq(Text)]
      /\ shown \in [Input -> Seq(Text)]
  BY ONLY <1>b
<1>1. QueueTypes /\ WantTypes
  <2>1. wanted \in [Input -> Text \cup {"never asked", "withdrawn"}]
    BY DEF Init
  <2>2. item \in [Input -> Item] /\ ahead \in [Input -> SUBSET Input] /\ moved \subseteq Input
    BY ONLY <1>0, <1>a
  <2> QED BY ONLY <1>c, <2>1, <2>2 DEF QueueTypes, WantTypes
<1>2. \A i \in Input : item[i].state = "none" /\ wanted[i] = "never asked" /\ steered[i] = <<>>
  BY <1>0 DEF Init
<1>3. ItemsInv
  BY <1>2 DEF ItemsInv, ItemFits, Queued
<1>4. Waiting = {}
  BY <1>2 DEF Waiting, Queued
<1>5. Line
  BY <1>4 DEF Line, Init
<1>7. ArrivalInv /\ UntouchedInOrder
  BY ONLY <1>c DEF ArrivalInv, UntouchedInOrder
<1>8. LoopTypes
  <2>1. MaxGen \in Nat
    BY QueueAssumption
  <2>2. intr = [k \in Key |-> "none"] /\ gen = 1 /\ lgen = 1 /\ pc = "none" /\ cut = "none"
        /\ behavior \in [while_running : WhileRunning, send_now : SendNow]
    BY DEF Init
  <2> QED BY ONLY <1>c, <2>1, <2>2 DEF LoopTypes
<1>9. FlagTypes /\ TodoTypes /\ ShownInv
  BY StepForms DEF Init, FlagTypes, TodoTypes, ShownInv
<1> QED BY <1>1, <1>3, <1>5, <1>7, <1>8, <1>9 DEF IInv, QueueInv

\* Every step preserves the invariant.
LEMMA Inductive == IInv /\ [Next]_vars => IInv'
<1> SUFFICES ASSUME IInv, [Next]_vars PROVE IInv'
  OBVIOUS
<1>1. QueueInv /\ TodoTypes
  BY DEF IInv
<1>2. QueueInv'
  BY <1>1, QueueKept
<1>3. TodoTypes'
  BY <1>1, TodoKept
<1>4. LoopTypes' /\ FlagTypes'
  BY LoopKept
<1>5. ShownInv'
  BY ShownKept
<1> QED BY <1>2, <1>3, <1>4, <1>5 DEF IInv

\* The inductive invariant holds.
THEOREM QueueInvariant == Spec => []IInv
  BY InitInv, Inductive, PTL DEF Spec

\* The queue, the handlers and the loop keep their types.
THEOREM QueueTyped == Spec => []QTypeOK
  BY QueueInvariant, TypesAgree, PTL

\* A turn's transcript holds what the log says was given: the dispatch whose
\* append a takeover refused (runtime.rs) never reaches the model.
THEOREM TranscriptIsTheLog == Spec => []ModelSeesTheLog
<1>1. IInv => ModelSeesTheLog
  BY DEF IInv, ShownInv, ModelSeesTheLog
<1> QED BY <1>1, QueueInvariant, PTL

\* Follow-ups nobody moved are given in the order they were queued, whatever
\* the promotions, reorders, edits and removals of input_queue.rs do around them.
THEOREM FollowUpsInOrder == Spec => []UntouchedInOrder
<1>1. IInv => UntouchedInOrder
  BY DEF IInv, QueueInv
<1> QED BY <1>1, QueueInvariant, PTL

\* The waiting items are one line at any time: of two, exactly one is ahead, and
\* who is ahead of the one ahead is ahead (the Vec of input_queue.rs).
THEOREM QueueIsALine == Spec => []Line
<1>1. IInv => Line
  BY DEF IInv, QueueInv
<1> QED BY <1>1, QueueInvariant, PTL

-----------------------------------------------------------------------------
(* The promise                                                             *)

given == [i \in Input |-> Given(i)]

\* No TaskSteered record: nothing more was given.
LEMMA GivenStays == ASSUME UNCHANGED steered PROVE given' = given
  BY DEF given, Given

\* What an item of each state has been given, and what the person wants of it.
LEMMA ItemPromise ==
    ASSUME ItemsInv, NEW i \in Input
    PROVE  /\ item[i].state = "none" => wanted[i] = "never asked"
           /\ Queued(i) => Promise!Waiting(i)
<1>1. ItemFits(i)
  BY DEF ItemsInv
<1>2. ASSUME Queued(i) PROVE Promise!Waiting(i)
  <2>1. wanted[i] \in Text /\ steered[i] = <<>>
    BY <1>1, <1>2 DEF ItemFits
  <2>2. Given(i) = NoText
    BY <2>1 DEF Given
  <2> QED BY <2>1, <2>2 DEF Promise!Waiting
<1> QED BY <1>1, <1>2 DEF ItemFits

\* An input that is queued is asked for, in the promise too.
LEMMA AskPromised ==
    ASSUME QueueInv, NEW i \in Input, NEW m, Typed[i] \in Text, fold_queued(i, m), UNCHANGED steered
    PROVE  [Promise!Next]_(Promise!promiseVars)
<1>1. given' = given
  BY GivenStays
<1>2. CASE item[i].state # "none"
  BY <1>1, <1>2 DEF fold_queued, said, Promise!promiseVars, given
<1>3. CASE item[i].state = "none"
  <2>1. wanted[i] = "never asked" /\ wanted' = [wanted EXCEPT ![i] = Typed[i]]
    BY <1>3, ItemPromise DEF QueueInv, fold_queued
  <2>2. Promise!Ask(i, Typed[i])
    BY <1>1, <2>1 DEF Promise!Ask, given
  <2> QED BY <2>2 DEF Promise!Next
<1> QED BY <1>2, <1>3

\* Every step of the queue, its handlers and its loop is a step of the promise
\* or none of its business.
LEMMA StepPromised ==
    ASSUME IInv, [Next]_vars
    PROVE  [Promise!Next]_(Promise!promiseVars)
<1>0. QueueInv /\ TodoTypes /\ Mode \subseteq {"STEER", "COLLECT", "FOLLOW_UP"}
      /\ (\A i \in Input : Typed[i] \in Text)
  BY QueueAssumption DEF IInv
<1>1. CASE UNCHANGED <<wanted, steered>>
  BY <1>1, GivenStays DEF Promise!promiseVars, given
<1>2. ASSUME NEW h \in Handler, Finishes(h) PROVE [Promise!Next]_(Promise!promiseVars)
  <2>1. CASE QueueDefault(h)
    <3>1. todo[h].input \in Input
      BY <1>0, <2>1, StepParts DEF QueueDefault, TodoTypes
    <3>2. fold_queued(todo[h].input, todo[h].mode) /\ UNCHANGED steered
      BY <2>1 DEF QueueDefault
    <3> QED BY ONLY <1>0, <3>1, <3>2, AskPromised
  <2>2. CASE ~QueueDefault(h)
    <3>1. UNCHANGED <<wanted, steered>>
      BY <1>2, <2>2 DEF Finishes, StopAndSend, request_send_now, StopRecorded, pause, interrupt,
                        log, said
    <3> QED BY <1>1, <3>1
  <2> QED BY <2>1, <2>2
<1>3. ASSUME NEW h \in Handler, Command(h) PROVE [Promise!Next]_(Promise!promiseVars)
  <2>1. ASSUME NEW i \in Input, NEW m \in Mode, QueueInput(h, i, m)
        PROVE  [Promise!Next]_(Promise!promiseVars)
    <3>1. fold_queued(i, m) /\ UNCHANGED steered
      BY <2>1 DEF QueueInput
    <3> QED BY ONLY <1>0, <3>1, AskPromised
  <2>2. ASSUME NEW i \in Input, NEW m \in Mode, NEW t \in Text, edit_input(h, i, m, t)
        PROVE  [Promise!Next]_(Promise!promiseVars)
    <3>1. Queued(i) /\ wanted' = [wanted EXCEPT ![i] = t] /\ UNCHANGED steered
      BY <2>2 DEF edit_input, queued_item
    <3>2. Promise!Waiting(i) /\ given' = given
      BY <1>0, <3>1, ItemPromise, GivenStays DEF QueueInv
    <3>3. Promise!Change(i, t)
      BY <3>1, <3>2 DEF Promise!Change, given
    <3> QED BY <3>3 DEF Promise!Next
  <2>3. ASSUME NEW i \in Input, remove_input(h, i) PROVE [Promise!Next]_(Promise!promiseVars)
    <3>1. Queued(i) /\ wanted' = [wanted EXCEPT ![i] = "withdrawn"] /\ UNCHANGED steered
      BY <2>3 DEF remove_input, queued_item
    <3>2. Promise!Waiting(i) /\ given' = given
      BY <1>0, <3>1, ItemPromise, GivenStays DEF QueueInv
    <3>3. Promise!Withdraw(i)
      BY <3>1, <3>2 DEF Promise!Withdraw, given
    <3> QED BY <3>3 DEF Promise!Next
  <2>4. CASE \/ \E i \in Input : \/ resolve_default(h, i)
                                 \/ \E b \in Input \cup {NoText} : reorder_input(h, i, b)
                                 \/ \E k \in Interrupt : send_now(h, k, i)
             \/ \E k \in Interrupt : stop_task(h, k)
             \/ \E w \in WhileRunning, s \in SendNow : set_send_behavior(h, w, s)
    <3>1. UNCHANGED <<wanted, steered>>
      BY <2>4 DEF resolve_default, reorder_input, send_now, stop_task, set_send_behavior, log, said
    <3> QED BY <1>1, <3>1
  <2> QED BY <1>3, <2>1, <2>2, <2>3, <2>4 DEF Command
<1>4. CASE dispatch
  <2>1. CASE Fenced \/ Taken = {}
    <3>1. UNCHANGED <<wanted, steered>>
      BY <1>4, <2>1 DEF dispatch, said
    <3> QED BY <1>1, <3>1
  <2>2. CASE ~(Fenced \/ Taken = {})
    <3>1. /\ steered' = [i \in Input |-> IF i \in Taken THEN Append(steered[i], item[i].text)
                                         ELSE steered[i]]
          /\ wanted' = wanted
      BY <1>4, <2>2 DEF dispatch, said
    <3>2. Taken \in SUBSET Input /\ \A i \in Taken : Queued(i)
      BY DEF Taken, Waiting
    <3>3. \A i \in Taken : Promise!Waiting(i)
      BY <1>0, <3>2, ItemPromise DEF QueueInv
    <3>4. ASSUME NEW i \in Input
          PROVE  Given(i)' = IF i \in Taken THEN wanted[i] ELSE Given(i)
      <4>1. CASE i \in Taken
        <5>1. steered[i] = <<>> /\ item[i].text = wanted[i]
          BY <1>0, <3>2, <4>1 DEF QueueInv, ItemsInv, ItemFits
        <5>2. steered'[i] = Append(<<>>, wanted[i])
          BY <3>1, <4>1, <5>1
        <5>3. \A w : Append(<<>>, w) # <<>> /\ Len(Append(<<>>, w)) = 1 /\ Append(<<>>, w)[1] = w
          BY ONLY TRUE
        <5> QED BY <4>1, <5>2, <5>3 DEF Given
      <4>2. CASE i \notin Taken
        BY <3>1, <4>2 DEF Given
      <4> QED BY <4>1, <4>2
    <3>5. given' = [i \in Input |-> IF i \in Taken THEN wanted[i] ELSE given[i]]
      BY <3>4 DEF given
    <3>6. Promise!Give(Taken)
      BY <3>1, <3>3, <3>5 DEF Promise!Give, given
    <3> QED BY <3>2, <3>6 DEF Promise!Next
  <2> QED BY <2>1, <2>2
<1>5. UNCHANGED <<wanted, steered>> \/ dispatch \/ \E h \in Handler : Finishes(h) \/ Command(h)
  BY DEF Next, vars, log, said, Start, LoopStep, record_interrupts, new_round, lease_lost,
         StreamCut, flush, stream_over, watch, WatchFires, StartCall, Leave, Delta, StreamEnds, Break, Takeover, CallEnds, Crash
<1> QED BY <1>1, <1>2, <1>3, <1>4, <1>5

\* The queue, with its handlers, takeovers and kills, implements InputPromise: no
\* input is given twice, withdrawn and given, or given as it no longer reads.
THEOREM QueueKeepsPromise == Spec => PromiseKept
<1>1. Init => Promise!Init
  BY DEF Init, Promise!Init, Given
<1>2. IInv /\ [Next]_vars => [Promise!Next]_(Promise!promiseVars)
  BY StepPromised
<1> QED BY <1>1, <1>2, QueueInvariant, PTL DEF Spec, PromiseKept, Promise!Spec
===============================================================================
