--------------------------- MODULE ToolCallsProofs ----------------------------
(***************************************************************************)
(* Proofs about ToolCalls, for any sets of calls, clients and ids.         *)
(***************************************************************************)
EXTENDS ToolCalls, NaturalFacts

-----------------------------------------------------------------------------
(* The inductive invariant                                                 *)

Invoking == {"enter", "entered", "proposed", "unjournaled", "running", "performed"}
Runs(i) == pc[i] \in {"running", "performed"}
Engaged == pc[Loop] \in Invoking \cup {"wait", "reconcile", "step"}
Begun(c) == state[c] \notin {None, "Proposed", "ApprovalPending"}

\* A call nobody has ended or reconciled, and one the user has confirmed.
Open(c) ==
    /\ state[c] \in {"Proposed", "ApprovalPending", "Dispatched", "UnknownOutcome"}
    /\ verdict[c] = <<>>
Conf(c) ==
    /\ verdict[c] # <<>> /\ Head(verdict[c]) = "USER_CONFIRMED"
    /\ \A n \in DOMAIN verdict[c] : verdict[c][n] # "USER_ABSENT"
Live(c) == Open(c) \/ Conf(c)

\* The types, in three parts: the rows, the invokers, and the rest.
RowTypes ==
    /\ state \in [Call -> CallState] /\ of \in [Call -> Intent \cup {None}]
    /\ appr \in [Call -> {None, "Requested", "Approved", "Denied", "Expired"}]
    /\ receipt \in [Call -> SUBSET {"AUTHORIZED", "RESULT"}]
    /\ verdict \in [Call -> Seq({"CORE", "USER_CONFIRMED", "USER_ABSENT"})]
    /\ ran \in [Call -> Nat]
Row == [state : CallState, stop : BOOLEAN,
        appr : {None, "Requested", "Approved", "Denied", "Expired"}]
InvokerTypes ==
    /\ pc \in [Invoker -> Stations] /\ id \in [Invoker -> Call \cup {None}]
    /\ snap \in [Invoker -> Row] /\ lgen \in [Invoker -> 0 .. MaxGen]
OtherTypes ==
    /\ told \subseteq Ask /\ heard \subseteq Ask /\ doing \in Ask \cup {None}
    /\ run \in {None, "Running", "Suspended", "over"}
    /\ stop \in BOOLEAN /\ cancel \in BOOLEAN /\ gen \in 0 .. MaxGen
    /\ resume \in [on : BOOLEAN, calls : [Call -> CallState]]
    /\ due \subseteq Call /\ crashes \in 0 .. MaxCrash

\* What the columns of one row say of each other.
RowFits(c) ==
    /\ of[c] = None <=> state[c] = None
    /\ c \in Direct => of[c] \in {None, c}
    /\ c \in Fresh => of[c] \in Ask \cup {None}
    /\ state[c] \in {None, "Proposed"} => appr[c] = None
    /\ ~Begun(c) => ran[c] = 0 /\ receipt[c] = {} /\ verdict[c] = <<>>
    /\ \A n \in DOMAIN verdict[c] : verdict[c][n] # "CORE" => state[c] = "UnknownOutcome"
RowsInv == \A c \in Call : RowFits(c)

\* Where an invoker is, and how far the call it is at must have got.
Haunts(i) ==
    CASE i = Starter -> {"idle", "starting"}
      [] i = Loop -> Invoking \cup {"gone", "pick", "wait", "reconcile", "step"}
      [] OTHER -> Invoking \cup {"idle", "stopping", "USER_CONFIRMED", "USER_ABSENT"}
PlacesInv == \A i \in Invoker : pc[i] \in Haunts(i)
IdFits(i) ==
    /\ pc[i] \in Invoking \cup {"wait", "reconcile", "USER_CONFIRMED", "USER_ABSENT"}
       => id[i] \in Call
    /\ pc[i] \in {"proposed", "unjournaled", "wait"} => state[id[i]] # None
    /\ pc[i] = "entered" /\ snap[i].state # None => state[id[i]] # None
    /\ pc[i] \in {"running", "performed", "reconcile"} => Begun(id[i])
    /\ pc[i] \in {"USER_CONFIRMED", "USER_ABSENT"} => state[id[i]] = "UnknownOutcome"
    /\ pc[i] \in Invoking /\ i # Loop /\ id[i] \in Fresh => state[id[i]] # None
IdsInv == \A i \in Invoker : IdFits(i)
LoopInv ==
    /\ Engaged => doing \in Ask \ heard
    /\ pc[Loop] \in Invoking \cup {"wait", "reconcile"} =>
           id[Loop] \in Fresh /\ of[id[Loop]] \in {None, doing}
    /\ Alive => run = "Running"
    /\ run = None => \A c \in Fresh : state[c] = None

\* A row read before is not ahead of the log: approved there is approved here.
SnapFits(i) ==
    /\ pc[i] \notin {"enter", "entered", "proposed", "unjournaled", "wait"}
       => snap[i].appr = None /\ snap[i].state = None
    /\ snap[i].appr = "Approved" => appr[id[i]] = "Approved"
SnapInv == \A i \in Invoker : SnapFits(i)

\* One invoker at most runs a call, and under what the dispatch asked for.
RunnersInv ==
    \A i \in Invoker : Runs(i) =>
        /\ pc[i] = "running" => ran[id[i]] = 0
        /\ of[id[i]] \in Gated => appr[id[i]] = "Approved"
        /\ Protected(of[id[i]]) => "AUTHORIZED" \in receipt[id[i]]
        /\ \A j \in Invoker : Runs(j) /\ id[i] = id[j] => i = j

ResumeInv ==
    \A c \in Call :
        /\ resume.calls[c] # None => state[c] # None
        /\ resume.calls[c] \in {"Dispatched", "UnknownOutcome"} => Begun(c)

\* A call of the model the loop has still to come to.
Skipped(c) == Alive /\ of[c] \in Ask \ heard /\ ~(Engaged /\ doing = of[c])

\* The live call of an intent is its newest; one the loop has still to come to
\* is among the calls it resumed with; and an id is minted only for an intent
\* without a live call, the least that is unused, above every id used.
NewestInv == \A c, d \in Fresh : Live(c) /\ of[c] = of[d] => d <= c
SkippedInv ==
    \A c \in Fresh : state[c] # None /\ Skipped(c) =>
        resume.on /\ (Open(c) => resume.calls[c] # None)
OrderInv == \A c, d \in Fresh : state[c] # None /\ state[d] = None => c < d
MintInv ==
    pc[Loop] \in {"enter", "entered"} /\ state[id[Loop]] = None =>
        \A c \in Fresh : /\ state[c] = None => id[Loop] <= c
                         /\ of[c] = doing => ~Live(c)

Places == PlacesInv /\ IdsInv /\ LoopInv
Types == RowTypes /\ InvokerTypes /\ OtherTypes
Mints == NewestInv /\ SkippedInv /\ OrderInv /\ MintInv
IInv ==
    /\ Types /\ RowsInv /\ Places /\ SnapInv /\ RunnersInv /\ ResumeInv /\ Mints
    /\ ApprovedOnce /\ EffectsOnTheLedger

-----------------------------------------------------------------------------
(* What a step does, invoker by invoker and row by row                     *)

Core == Client \cup {Loop}

\* Invoker i is at p, with call c and the rows s; the others are where they were.
Placed(i, p, c, s) ==
    /\ InvokerTypes' /\ pc'[i] = p /\ id'[i] = c /\ snap'[i] = s
    /\ \A j \in Invoker : j # i => pc'[j] = pc[j] /\ id'[j] = id[j] /\ snap'[j] = snap[j]

\* The row of c is at s, the others are where they were.
Turns(c, s) ==
    /\ state' \in [Call -> CallState] /\ state'[c] = s
    /\ \A d \in Call : d # c => state'[d] = state[d]

\* The type invariant, in the parts the proofs use.
LEMMA TypesAgree == CTypeOK <=> Types
  BY DEF CTypeOK, Types, RowTypes, InvokerTypes, OtherTypes, Row

\* An invoker that is done goes on with the turn, or rests.
LEMMA DoneFacts ==
    ASSUME InvokerTypes, NEW i \in Invoker, Done(i)
    PROVE  Placed(i, IF i = Loop THEN "step" ELSE "idle", None, Blank)
<1> USE CallAssumption DEF Invoker, Loop, Starter
<1>1. Blank \in Row
  BY DEF Blank, Row, CallState
<1>2. pc' \in [Invoker -> Stations]
  BY DEF Done, Moves, InvokerTypes, Stations
<1>3. id' \in [Invoker -> Call \cup {None}]
  BY DEF Done, InvokerTypes
<1>4. snap' \in [Invoker -> Row]
  BY <1>1 DEF Done, InvokerTypes
<1>5. lgen' \in [Invoker -> 0 .. MaxGen]
  BY DEF Done, InvokerTypes
<1> QED BY <1>2, <1>3, <1>4, <1>5 DEF Placed, Done, Moves, InvokerTypes

\* An invoker that moves on keeps its call and what it read of it.
LEMMA AtFacts ==
    ASSUME InvokerTypes, NEW i \in Invoker, NEW p \in Stations, At(i, p)
    PROVE  Placed(i, p, id[i], snap[i])
  BY DEF Placed, At, Moves, InvokerTypes

\* The latest of some calls is one of them.
LEMMA LatestOf ==
    ASSUME NEW S \in SUBSET Fresh, S # {}
    PROVE  Latest(S) \in S /\ \A d \in S : d <= Latest(S)
<1>1. S \subseteq Nat /\ IsFiniteSet(S)
  BY CallAssumption, FS_Subset
<1>2. \E c \in S : \A d \in S : d <= c
  BY <1>1, GreatestNat
<1> QED BY <1>2 DEF Latest


-----------------------------------------------------------------------------
(* What a step may do to the rows, and what follows for the invariant      *)

\* What has happened to a call stays: its intent, its start, its unknown
\* outcome, its approval and its receipts.
Grows ==
    \A c \in Call :
        /\ state[c] # None => state'[c] # None /\ of'[c] = of[c]
        /\ Begun(c) => Begun(c)'
        /\ state[c] = "UnknownOutcome" => state'[c] = "UnknownOutcome"
        /\ appr[c] = "Approved" => appr'[c] = "Approved"
        /\ receipt[c] \subseteq receipt'[c]

\* No call is proposed, and none comes to life again.
Settles ==
    \A c \in Call :
        /\ of'[c] = of[c] /\ (state'[c] = None <=> state[c] = None)
        /\ Open(c)' => Open(c)
        /\ Live(c)' => Live(c)

\* No effect happens, and no success is recorded.
Idles ==
    /\ ran' = ran /\ receipt' = receipt
    /\ \A c \in Call : state'[c] = "Succeeded" => state[c] = "Succeeded"

\* No invoker begins to run a call.
NoneStarts ==
    \A j \in Invoker : Runs(j)' => pc'[j] = pc[j] /\ id'[j] = id[j]

\* The loop keeps its place, or its call.
LoopKeeps ==
    /\ UNCHANGED <<doing, heard, resume, run>>
    /\ \/ pc'[Loop] = pc[Loop] /\ id'[Loop] = id[Loop]
       \/ Engaged /\ pc'[Loop] = "step"
       \/ /\ pc[Loop] \in Invoking \cup {"wait", "reconcile"} /\ Engaged'
          /\ id'[Loop] = id[Loop] /\ state'[id'[Loop]] # None
       \/ pc[Loop] \in {"enter", "entered"} /\ Engaged' /\ id'[Loop] = id[Loop]

\* A step that leaves the rows alone leaves what is true of them.
LEMMA QuietRows ==
    ASSUME UNCHANGED <<state, of, appr, receipt, verdict, ran>>
    PROVE  /\ Grows /\ Settles /\ Idles
           /\ (RowTypes => RowTypes') /\ (RowsInv => RowsInv')
  BY DEF Grows, Settles, Idles, RowTypes, RowsInv, RowFits, Begun, Open, Conf, Live

\* Rows only gain: the calls in hand are still calls.
LEMMA IdsKept ==
    ASSUME InvokerTypes, IdsInv, Grows, NEW i, NEW p, NEW c, NEW s, Placed(i, p, c, s), IdFits(i)'
    PROVE  IdsInv'
<1> SUFFICES ASSUME NEW j \in Invoker, j # i PROVE IdFits(j)'
  BY DEF IdsInv
<1>1. pc'[j] = pc[j] /\ id'[j] = id[j] /\ snap'[j] = snap[j]
  BY DEF Placed
<1>2. IdFits(j)
  BY DEF IdsInv
<1> QED BY <1>1, <1>2 DEF IdFits, Grows, Invoking

\* Rows only gain: what an invoker read stays a past of the row.
LEMMA SnapKept ==
    ASSUME InvokerTypes, IdsInv, SnapInv, Grows, CallAssumption,
           NEW i, NEW p, NEW c, NEW s, Placed(i, p, c, s), SnapFits(i)'
    PROVE  SnapInv'
<1> SUFFICES ASSUME NEW j \in Invoker, j # i PROVE SnapFits(j)'
  BY DEF SnapInv
<1>1. pc'[j] = pc[j] /\ id'[j] = id[j] /\ snap'[j] = snap[j]
  BY DEF Placed
<1>2. IdFits(j) /\ SnapFits(j)
  BY DEF IdsInv, SnapInv
<1> QED BY <1>1, <1>2, CallAssumption DEF IdFits, SnapFits, Grows, Invoking

\* No new invoker of an effect: still at most one for a call.
LEMMA RunnersKept ==
    ASSUME IdsInv, RunnersInv, Grows, UNCHANGED ran, NoneStarts
    PROVE  RunnersInv'
<1> SUFFICES ASSUME NEW i \in Invoker, Runs(i)'
             PROVE  /\ pc'[i] = "running" => ran'[id'[i]] = 0
                    /\ of'[id'[i]] \in Gated => appr'[id'[i]] = "Approved"
                    /\ Protected(of'[id'[i]]) => "AUTHORIZED" \in receipt'[id'[i]]
                    /\ \A j \in Invoker : Runs(j)' /\ id'[i] = id'[j] => i = j
  BY DEF RunnersInv, Protected
<1>1. Runs(i) /\ pc'[i] = pc[i] /\ id'[i] = id[i]
  BY DEF NoneStarts, Runs
<1>2. id[i] \in Call /\ Begun(id[i])
  BY <1>1 DEF IdsInv, IdFits, Runs, Invoking
<1>3. of'[id[i]] = of[id[i]]
  BY <1>2 DEF Grows, Begun
<1>4. \A j \in Invoker : Runs(j)' => Runs(j) /\ id'[j] = id[j]
  BY DEF NoneStarts, Runs
<1> QED BY <1>1, <1>2, <1>3, <1>4 DEF RunnersInv, Grows

\* What a resume read of the calls stays a past of them.
LEMMA ResumeKept ==
    ASSUME ResumeInv, Grows, UNCHANGED resume
    PROVE  ResumeInv'
  BY DEF ResumeInv, Grows

\* Calls only settle: the live call of an ask is still its newest.
LEMMA NewestKept ==
    ASSUME NewestInv, Settles
    PROVE  NewestInv'
<1>1. Fresh \subseteq Call
  BY DEF Call
<1> QED BY <1>1 DEF NewestInv, Settles

\* Calls only settle: used ids stay below the unused ones.
LEMMA OrderKept ==
    ASSUME OrderInv, Settles
    PROVE  OrderInv'
<1>1. Fresh \subseteq Call
  BY DEF Call
<1> QED BY <1>1 DEF OrderInv, Settles

\* No new call is skipped: what is known of the skipped stays.
LEMMA SkippedKept ==
    ASSUME SkippedInv, Settles, UNCHANGED resume, \A c \in Fresh : Skipped(c)' => Skipped(c)
    PROVE  SkippedInv'
<1>1. Fresh \subseteq Call
  BY DEF Call
<1> QED BY <1>1 DEF SkippedInv, Settles

\* A loop that keeps its place keeps its right to the next call.
LEMMA LoopKeepsMints ==
    ASSUME Mints, LoopInv, Settles, LoopKeeps, CallAssumption
    PROVE  Mints'
<1>1. Fresh \subseteq Call
  BY DEF Call
<1>2. \A c \in Fresh : Skipped(c)' => Skipped(c)
  BY <1>1 DEF Settles, LoopKeeps, Skipped, Engaged, Alive, Invoking
<1>3. SkippedInv'
  BY <1>2, SkippedKept DEF Mints, LoopKeeps
<1>4. MintInv'
  <2> SUFFICES ASSUME pc'[Loop] \in {"enter", "entered"}, state'[id'[Loop]] = None
               PROVE  \A c \in Fresh : /\ state'[c] = None => id'[Loop] <= c
                                       /\ of'[c] = doing' => ~Live(c)'
    BY DEF MintInv, Live, Open, Conf
  <2>1. pc[Loop] \in {"enter", "entered"} /\ id'[Loop] = id[Loop] /\ doing' = doing
    BY DEF LoopKeeps
  <2>2. id[Loop] \in Fresh
    BY <2>1 DEF LoopInv, Invoking
  <2>3. state[id[Loop]] = None
    BY <1>1, <2>1, <2>2 DEF Settles
  <2> QED BY <1>1, <2>1, <2>3 DEF Mints, MintInv, Settles
<1> QED BY <1>3, <1>4, NewestKept, OrderKept DEF Mints

\* No new effect: approvals and the ledger still cover the old ones.
LEMMA EffectsKept ==
    ASSUME RowTypes, RowsInv, Grows, Idles, CallAssumption, ApprovedOnce, EffectsOnTheLedger
    PROVE  ApprovedOnce' /\ EffectsOnTheLedger'
<1>1. ASSUME NEW c \in Call, state[c] = None
      PROVE  ran'[c] = 0 /\ receipt'[c] = {} /\ state'[c] # "Succeeded"
  BY <1>1 DEF RowsInv, RowFits, Begun, Idles, Terminal
<1>2. \A c \in Call : state[c] # None => of'[c] = of[c]
  BY DEF Grows
<1>3. ApprovedOnce'
  BY <1>1, <1>2 DEF ApprovedOnce, Idles, Grows
<1>4. EffectsOnTheLedger'
  <2> SUFFICES ASSUME NEW c \in Call, Protected(of'[c]), of'[c] # None
               PROVE  /\ ran'[c] > 0 \/ "RESULT" \in receipt'[c] => "AUTHORIZED" \in receipt'[c]
                      /\ state'[c] = "Succeeded" => "RESULT" \in receipt'[c]
    BY DEF EffectsOnTheLedger, Protected
  <2>1. CASE state[c] = None
    BY <1>1, <2>1
  <2>2. CASE state[c] # None
    BY <1>2, <2>2 DEF EffectsOnTheLedger, Idles
  <2> QED BY <2>1, <2>2
<1> QED BY <1>3, <1>4


\* One invoker moves within its places.
LEMMA PlacesKept ==
    ASSUME PlacesInv, NEW i, NEW p, NEW c, NEW s, Placed(i, p, c, s), p \in Haunts(i)
    PROVE  PlacesInv'
  BY DEF PlacesInv, Placed, Haunts

\* A loop that keeps its place keeps what it can rely on.
LEMMA LoopKept ==
    ASSUME LoopInv, Settles, LoopKeeps, CallAssumption
    PROVE  LoopInv'
<1>1. Fresh \subseteq Call
  BY DEF Call
<1>2. (Engaged' => Engaged) /\ (Alive' => Alive)
  BY DEF LoopKeeps, Engaged, Alive, Invoking
<1>3. pc'[Loop] \in Invoking \cup {"wait", "reconcile"} =>
          /\ id'[Loop] = id[Loop]
          /\ pc[Loop] \in Invoking \cup {"wait", "reconcile"}
  BY DEF LoopKeeps, Invoking, Engaged
<1> QED BY <1>1, <1>2, <1>3 DEF LoopInv, LoopKeeps, Settles

\* A step of one invoker, or of none, that starts no call and no effect.
LEMMA CalmStep ==
    ASSUME IInv, CallAssumption, NEW i \in Invoker, NEW p, NEW c, NEW s, Placed(i, p, c, s),
           RowTypes', OtherTypes', RowsInv', Grows, Settles, Idles,
           p \in Haunts(i), IdFits(i)', SnapFits(i)', NoneStarts, LoopKeeps
    PROVE  IInv'
<1>1. InvokerTypes'
  BY DEF Placed
<1>2. Places'
  BY PlacesKept, IdsKept, LoopKept DEF IInv, Types, Places
<1>3. SnapInv' /\ RunnersInv'
  BY SnapKept, RunnersKept DEF IInv, Types, Places, Idles
<1>4. ResumeInv' /\ Mints'
  BY ResumeKept, LoopKeepsMints DEF IInv, Places, LoopKeeps
<1>5. ApprovedOnce' /\ EffectsOnTheLedger'
  BY EffectsKept DEF IInv, Types
<1> QED BY <1>1, <1>2, <1>3, <1>4, <1>5 DEF IInv, Types

\* The same, when the step ends an invocation.
LEMMA DoneCalm ==
    ASSUME IInv, CallAssumption, NEW i \in Core, Done(i), i = Loop => Engaged,
           RowTypes', OtherTypes', RowsInv', Grows, Settles, Idles,
           UNCHANGED <<doing, heard, resume, run>>
    PROVE  IInv'
<1> DEFINE p == IF i = Loop THEN "step" ELSE "idle"
<1>0. i \in Invoker /\ i # Starter /\ Loop \in Invoker
  BY DEF Core, Invoker, Loop, Starter, CallAssumption
<1>1. Placed(i, p, None, Blank)
  BY <1>0, DoneFacts DEF IInv, Types
<1>2. p \in Haunts(i)
  BY <1>0 DEF Haunts
<1>3. pc'[i] = p /\ id'[i] = None /\ snap'[i] = Blank
  BY <1>1 DEF Placed
<1>4. IdFits(i)'
  BY <1>3 DEF IdFits, Invoking
<1>5. SnapFits(i)'
  BY <1>3, CallAssumption DEF SnapFits, Blank
<1>6. NoneStarts
  BY <1>1, <1>3 DEF NoneStarts, Runs, Placed
<1>7. LoopKeeps
  BY <1>0, <1>1, <1>3 DEF LoopKeeps, Placed
<1> QED BY <1>0, <1>1, <1>2, <1>4, <1>5, <1>6, <1>7, CalmStep

-----------------------------------------------------------------------------
(* The steps of an invocation                                              *)

\* The row is read, or a call that needs nothing more is answered from it.
LEMMA EnterStep == ASSUME IInv, NEW i \in Core, Enter(i) PROVE IInv'
<1> USE CallAssumption
<1>0. i \in Invoker /\ i # Starter /\ Loop \in Invoker
  BY DEF Core, Invoker, Loop, Starter
<1>1. UNCHANGED <<state, of, appr, receipt, verdict, ran, doing, heard, resume, run>>
  BY DEF Enter, log, world
<1>2. Grows /\ Settles /\ Idles /\ RowTypes' /\ RowsInv'
  BY <1>1, QuietRows DEF IInv, Types
<1>3. OtherTypes'
  BY DEF Enter, log, world, IInv, Types, OtherTypes
<1>4. i = Loop => Engaged
  BY DEF Enter, Engaged, Invoking
<1>5. CASE Done(i)
  BY <1>1, <1>2, <1>3, <1>4, <1>5, DoneCalm
<1>6. CASE ~Done(i)
  <2> DEFINE s == [state |-> state[id[i]], appr |-> appr[id[i]],
                   stop |-> IF i = Loop THEN stop ELSE snap[i].stop]
  <2>1. /\ pc' = [pc EXCEPT ![i] = "entered"] /\ UNCHANGED <<id, lgen>>
        /\ snap' = [snap EXCEPT ![i] = s]
    BY <1>6, <1>0 DEF Enter, Moves, IInv, Types, InvokerTypes
  <2>2. id[i] \in Call /\ pc[i] = "enter" /\ IdFits(i)
    BY <1>0 DEF Enter, IInv, Places, IdsInv, IdFits, Invoking
  <2>3. s \in Row
    BY <1>0, <2>2 DEF IInv, Types, RowTypes, InvokerTypes, OtherTypes, Row
  <2>4. Placed(i, "entered", id[i], s)
    BY <1>0, <2>1, <2>3 DEF Placed, IInv, Types, InvokerTypes, Stations
  <2>5. pc'[i] = "entered" /\ id'[i] = id[i] /\ snap'[i] = s
    BY <2>4 DEF Placed
  <2>6. IdFits(i)' /\ SnapFits(i)'
    BY <1>1, <2>2, <2>5 DEF IdFits, SnapFits, Invoking
  <2>7. "entered" \in Haunts(i)
    BY <1>0 DEF Haunts, Invoking
  <2>8. NoneStarts
    BY <2>4 DEF NoneStarts, Runs, Placed
  <2>9. LoopKeeps
    BY <1>0, <1>1, <2>2, <2>4 DEF LoopKeeps, Placed, Engaged, Invoking
  <2> QED BY <1>0, <1>2, <1>3, <2>4, <2>6, <2>7, <2>8, <2>9, CalmStep
<1> QED BY <1>5, <1>6

\* A dispatch that was not journaled ends without an effect.
LEMMA UnjournaledStep == ASSUME IInv, NEW i \in Core, Unjournaled(i) PROVE IInv'
<1> USE CallAssumption
<1>1. UNCHANGED <<state, of, appr, receipt, verdict, ran, doing, heard, resume, run>>
  BY DEF Unjournaled, log, world
<1>2. Grows /\ Settles /\ Idles /\ RowTypes' /\ RowsInv'
  BY <1>1, QuietRows DEF IInv, Types
<1>3. OtherTypes'
  BY DEF Unjournaled, log, world, IInv, Types, OtherTypes
<1>4. i = Loop => Engaged
  BY DEF Unjournaled, Engaged, Invoking
<1> QED BY <1>1, <1>2, <1>3, <1>4, DoneCalm DEF Unjournaled

\* The call an invoker is ready to decide on has a row, of its intent.
LEMMA ReadyFacts ==
    ASSUME IInv, NEW i \in Core, Ready(i)
    PROVE  /\ i \in Invoker /\ i # Starter /\ id[i] \in Call /\ state[id[i]] # None
           /\ of[id[i]] = intent(i) /\ intent(i) \in Intent /\ pc[i] \in {"entered", "proposed"}
           /\ i = Loop => Engaged
<1> USE CallAssumption
<1>0. i \in Invoker /\ i # Starter
  BY DEF Core, Invoker, Loop, Starter
<1>1. pc[i] \in {"entered", "proposed"} /\ (i = Loop => Engaged)
  BY DEF Ready, Engaged, Invoking
<1>2. IdFits(i)
  BY <1>0 DEF IInv, Places, IdsInv
<1>3. id[i] \in Call /\ state[id[i]] # None
  BY <1>1, <1>2 DEF IdFits, Ready, Invoking
<1>4. of[id[i]] # None /\ of[id[i]] \in Intent
  BY <1>3 DEF IInv, RowsInv, RowFits, Types, RowTypes
<1>5. of[id[i]] = intent(i)
  BY <1>1, <1>4 DEF intent, IInv, Places, LoopInv, Invoking
<1> QED BY <1>0, <1>1, <1>3, <1>4, <1>5

\* A row that fails, or whose approval is answered, or both.
LEMMA RowFails ==
    ASSUME IInv, CallAssumption, NEW c \in Call, NEW s, Turns(c, s),
           \/ s = "Failed" /\ state[c] \in {"Proposed", "ApprovalPending", "Dispatched"}
           \/ s = state[c],
           UNCHANGED <<of, receipt, verdict, ran>>,
           appr' \in [Call -> {None, "Requested", "Approved", "Denied", "Expired"}],
           \A d \in Call : d # c => appr'[d] = appr[d],
           appr[c] = "Approved" => appr'[c] = "Approved",
           appr'[c] = appr[c] \/ state[c] \notin {None, "Proposed"}
    PROVE  RowTypes' /\ RowsInv' /\ Grows /\ Settles /\ Idles
<1>1. RowTypes'
  BY DEF IInv, Types, RowTypes, Turns
<1>2. Grows
  BY CallAssumption DEF Grows, Turns, Begun, Terminal
<1>3. Idles
  BY DEF Idles, Turns
<1>4. \A d \in Call : Conf(d)' <=> Conf(d)
  BY DEF Conf
<1>5. \A d \in Call : Open(d)' => Open(d)
  BY DEF Open, Turns
<1>6. Settles
  BY <1>4, <1>5, CallAssumption DEF Settles, Live, Turns, Terminal
<1>7. RowsInv'
  <2> SUFFICES ASSUME NEW d \in Call PROVE RowFits(d)'
    BY DEF RowsInv
  <2>1. CASE d # c
    BY <2>1 DEF IInv, RowsInv, RowFits, Begun, Turns
  <2>2. CASE d = c
    BY <2>2, CallAssumption DEF IInv, RowsInv, RowFits, Begun, Turns, Terminal
  <2> QED BY <2>1, <2>2
<1> QED BY <1>1, <1>2, <1>3, <1>6, <1>7

\* The kernel denies the call.
LEMMA DenyStep == ASSUME IInv, NEW i \in Core, Deny(i) PROVE IInv'
<1> USE CallAssumption
<1>1. id[i] \in Call /\ state[id[i]] # None /\ (i = Loop => Engaged)
  BY ReadyFacts DEF Deny
<1>2. UNCHANGED <<of, appr, receipt, verdict, ran, doing, heard, resume, run>>
  BY DEF Deny, world
<1>3. OtherTypes'
  BY DEF Deny, world, IInv, Types, OtherTypes
<1>4. CASE Applies(i, "Failed")
  <2>1. state' = [state EXCEPT ![id[i]] = "Failed"]
    BY <1>4 DEF Deny, Fails
  <2>2. Turns(id[i], "Failed")
    BY <1>1, <2>1 DEF Turns, IInv, Types, RowTypes, CallState, Terminal
  <2>3. state[id[i]] \in {"Proposed", "ApprovalPending", "Dispatched"}
    BY <1>4 DEF Applies
  <2>4. RowTypes' /\ RowsInv' /\ Grows /\ Settles /\ Idles
    BY <1>1, <1>2, <2>2, <2>3, RowFails DEF IInv, Types, RowTypes
  <2> QED BY <1>1, <1>2, <1>3, <2>4, DoneCalm DEF Deny
<1>5. CASE ~Applies(i, "Failed")
  <2>1. state' = state
    BY <1>5 DEF Deny
  <2>2. RowTypes' /\ RowsInv' /\ Grows /\ Settles /\ Idles
    BY <1>2, <2>1, QuietRows DEF IInv, Types
  <2> QED BY <1>1, <1>2, <1>3, <2>2, DoneCalm DEF Deny
<1> QED BY <1>4, <1>5

\* The kernel asks for an approval, or finds one asked for.
LEMMA AskApprovalStep == ASSUME IInv, NEW i \in Core, AskApproval(i) PROVE IInv'
<1> USE CallAssumption
<1>1. /\ i \in Invoker /\ i # Starter /\ id[i] \in Call /\ state[id[i]] # None
      /\ pc[i] \in {"entered", "proposed"} /\ (i = Loop => Engaged)
  BY ReadyFacts DEF AskApproval
<1>2. UNCHANGED <<of, receipt, verdict, ran, doing, heard, resume, run>>
  BY DEF AskApproval, world
<1>3. OtherTypes'
  BY DEF AskApproval, world, IInv, Types, OtherTypes
<1>4. RowTypes' /\ RowsInv' /\ Grows /\ Settles /\ Idles
  <2>1. CASE UNCHANGED <<state, appr>>
    BY <1>2, <2>1, QuietRows DEF IInv, Types
  <2>2. CASE ~UNCHANGED <<state, appr>>
    <3>1. /\ state[id[i]] = "Proposed"
          /\ state' = [state EXCEPT ![id[i]] = "ApprovalPending"]
          /\ appr' = [appr EXCEPT ![id[i]] = "Requested"]
      BY <2>2 DEF AskApproval, Applies
    <3>2. Turns(id[i], "ApprovalPending")
      BY <1>1, <3>1 DEF Turns, IInv, Types, RowTypes, CallState
    <3>3. RowTypes'
      BY <1>2, <3>1, <3>2 DEF Turns, IInv, Types, RowTypes
    <3>4. appr[id[i]] = None /\ ~Begun(id[i])
      BY <1>1, <3>1 DEF IInv, RowsInv, RowFits, Begun
    <3>5. /\ appr'[id[i]] = "Requested"
          /\ \A d \in Call : d # id[i] => appr'[d] = appr[d]
      BY <1>1, <3>1 DEF IInv, Types, RowTypes
    <3>6. Grows
      BY <1>1, <1>2, <3>1, <3>2, <3>4, <3>5 DEF Grows, Turns, Begun
    <3>7. Idles
      BY <1>2, <3>2 DEF Idles, Turns
    <3>8. \A d \in Call : (Conf(d)' <=> Conf(d)) /\ (Open(d)' => Open(d))
      BY <1>2, <3>1, <3>2 DEF Conf, Open, Turns
    <3>9. Settles
      BY <1>1, <1>2, <3>2, <3>8 DEF Settles, Live, Turns
    <3>10. RowsInv'
      <4> SUFFICES ASSUME NEW d \in Call PROVE RowFits(d)'
    BY DEF RowsInv
      <4>1. CASE d # id[i]
        BY <1>2, <3>2, <3>5, <4>1 DEF IInv, RowsInv, RowFits, Begun, Turns
      <4>2. CASE d = id[i]
        BY <1>2, <3>1, <3>2, <3>4, <3>5, <4>2 DEF IInv, RowsInv, RowFits, Begun, Turns
      <4> QED BY <4>1, <4>2
    <3> QED BY <3>3, <3>6, <3>7, <3>9, <3>10
  <2> QED BY <2>1, <2>2
<1>5. CASE Done(i)
  BY <1>1, <1>2, <1>3, <1>4, <1>5, DoneCalm
<1>6. CASE ~Done(i)
  <2>1. i = Loop /\ At(i, "wait")
    BY <1>6 DEF AskApproval
  <2>2. Placed(i, "wait", id[i], snap[i])
    BY <1>1, <2>1, AtFacts DEF IInv, Types, Stations
  <2>3. pc'[i] = "wait" /\ id'[i] = id[i] /\ snap'[i] = snap[i]
    BY <2>2 DEF Placed
  <2>4. state'[id[i]] # None
    BY <1>1, <1>4 DEF Settles
  <2>5. IdFits(i)'
    BY <1>1, <2>1, <2>3, <2>4 DEF IdFits, Invoking
  <2>6. SnapFits(i)'
    <3>1. SnapFits(i)
      BY <1>1 DEF IInv, SnapInv
    <3> QED BY <1>1, <1>4, <2>3, <3>1 DEF SnapFits, Grows
  <2>7. "wait" \in Haunts(i) /\ NoneStarts
    BY <1>1, <2>1, <2>2 DEF Haunts, NoneStarts, Runs, Placed
  <2>8. LoopKeeps
    BY <1>1, <1>2, <2>1, <2>3, <2>4 DEF LoopKeeps, Engaged, Invoking
  <2> QED BY <1>1, <1>3, <1>4, <2>2, <2>5, <2>6, <2>7, <2>8, CalmStep
<1> QED BY <1>5, <1>6

\* The row of the call is proposed, before anything is decided about it.
LEMMA ProposeStep == ASSUME IInv, NEW i \in Core, Propose(i) PROVE IInv'
<1> USE CallAssumption
<1>0. i \in Invoker /\ i # Starter /\ Loop \in Invoker /\ Fresh \subseteq Call
  BY DEF Core, Invoker, Loop, Starter, Call
<1>1. UNCHANGED <<appr, receipt, verdict, ran, doing, heard, resume, run>>
  BY DEF Propose, world
<1>2. OtherTypes'
  BY DEF Propose, world, IInv, Types, OtherTypes
<1>3. IdFits(i) /\ SnapFits(i) /\ pc[i] = "entered" /\ id[i] \in Call
  BY <1>0 DEF IInv, Places, IdsInv, IdFits, SnapInv, Propose, Invoking
<1>4. CASE ~(lgen[i] = gen /\ state[id[i]] = None)
  <2>1. UNCHANGED <<state, of>> /\ Done(i) /\ (i = Loop => Engaged)
    BY <1>3, <1>4 DEF Propose, Engaged, Invoking
  <2>2. RowTypes' /\ RowsInv' /\ Grows /\ Settles /\ Idles
    BY <1>1, <2>1, QuietRows DEF IInv, Types
  <2> QED BY <1>1, <1>2, <2>1, <2>2, DoneCalm
<1>5. CASE lgen[i] = gen /\ state[id[i]] = None
  <2> DEFINE n == id[i]
  <2>1. /\ state' = [state EXCEPT ![n] = "Proposed"]
        /\ of' = [of EXCEPT ![n] = intent(i)] /\ At(i, "proposed")
    BY <1>5 DEF Propose
  <2>2. of[n] = None
    BY <1>3, <1>5 DEF IInv, RowsInv, RowFits
  <2>3. /\ i = Loop => n \in Fresh /\ intent(i) = doing /\ doing \in Ask /\ Engaged
        /\ i # Loop => n \notin Fresh /\ n \in Direct /\ intent(i) = n
    <3>1. CASE i = Loop
      BY <1>3, <3>1 DEF IInv, Places, LoopInv, Engaged, Invoking, intent
    <3>2. CASE i # Loop
      BY <1>3, <1>5, <2>2, <3>2 DEF IdFits, Invoking, intent, Call
    <3> QED BY <3>1, <3>2
  <2>4. intent(i) \in Intent /\ intent(i) # None
    BY <2>3 DEF Intent
  <2>5. Turns(n, "Proposed")
    BY <1>3, <2>1 DEF Turns, IInv, Types, RowTypes, CallState
  <2>6. /\ of' \in [Call -> Intent \cup {None}] /\ of'[n] = intent(i)
        /\ \A d \in Call : d # n => of'[d] = of[d]
    BY <1>3, <2>1, <2>4 DEF IInv, Types, RowTypes
  <2>7. RowTypes'
    BY <1>1, <2>5, <2>6 DEF IInv, Types, RowTypes, Turns
  <2>8. RowFits(n) /\ ~Begun(n)
    BY <1>3, <1>5 DEF IInv, RowsInv, Begun
  <2>9. RowsInv'
    <3> SUFFICES ASSUME NEW d \in Call PROVE RowFits(d)'
      BY DEF RowsInv
    <3>1. CASE d # n
      BY <1>1, <2>5, <2>6, <3>1 DEF IInv, RowsInv, RowFits, Begun, Turns
    <3>2. CASE d = n
      <4>1. n \in Direct => n \notin Fresh
        OBVIOUS
      <4>2. of'[n] \in {None, n} \/ n \notin Direct
        BY <2>3, <2>6, <4>1
      <4>3. of'[n] \in Ask \cup {None} \/ n \notin Fresh
        BY <2>3, <2>6, <4>1
      <4> QED BY <1>1, <1>5, <2>4, <2>5, <2>6, <2>8, <3>2, <4>2, <4>3 DEF RowFits, Begun, Turns
    <3> QED BY <3>1, <3>2
  <2>10. Grows
    BY <1>1, <1>5, <2>5, <2>6, <2>8 DEF Grows, Begun, Turns, Terminal
  <2>11. Idles
    BY <1>1, <2>5 DEF Idles, Turns
  <2>12. Placed(i, "proposed", n, snap[i])
    BY <1>0, <2>1, AtFacts DEF IInv, Types, Stations
  <2>13. pc'[i] = "proposed" /\ id'[i] = n /\ snap'[i] = snap[i]
    BY <2>12 DEF Placed
  <2>14. IdFits(i)' /\ SnapFits(i)'
    <3>1. state'[n] # None
      BY <2>5 DEF Turns
    <3>2. IdFits(i)'
      BY <1>3, <2>13, <3>1 DEF IdFits, Invoking
    <3>3. SnapFits(i)'
      BY <1>1, <1>3, <2>13 DEF SnapFits
    <3> QED BY <3>2, <3>3
  <2>15. PlacesInv' /\ IdsInv' /\ SnapInv'
    <3>1. "proposed" \in Haunts(i)
      BY <1>0 DEF Haunts, Invoking
    <3> QED BY <2>10, <2>12, <2>14, <3>1, PlacesKept, IdsKept, SnapKept DEF IInv, Types, Places
  <2>16. NoneStarts
    BY <2>12 DEF NoneStarts, Runs, Placed
  <2>17. RunnersInv' /\ ResumeInv'
    BY <1>1, <2>10, <2>16, RunnersKept, ResumeKept DEF IInv, Places
  <2>18. ApprovedOnce' /\ EffectsOnTheLedger'
    BY <2>10, <2>11, EffectsKept DEF IInv, Types
  <2>19. \A d \in Call : d # n => (Live(d)' <=> Live(d)) /\ (Open(d)' <=> Open(d))
    BY <1>1, <2>5 DEF Live, Open, Conf, Turns
  <2>20. CASE i # Loop
    <3>1. \A d \in Fresh : /\ d \in Call /\ d # n /\ state'[d] = state[d] /\ of'[d] = of[d]
                           /\ (Live(d)' <=> Live(d)) /\ (Open(d)' <=> Open(d))
      BY <1>0, <2>3, <2>5, <2>6, <2>19, <2>20 DEF Turns
    <3>2. pc'[Loop] = pc[Loop] /\ id'[Loop] = id[Loop]
      BY <1>0, <2>12, <2>20 DEF Placed
    <3>3. LoopInv'
      BY <1>1, <3>1, <3>2 DEF IInv, Places, LoopInv, Engaged, Alive, Invoking
    <3>4. NewestInv'
      BY <3>1 DEF IInv, Mints, NewestInv
    <3>5. SkippedInv'
      BY <1>1, <3>1, <3>2 DEF IInv, Mints, SkippedInv, Skipped, Engaged, Alive
    <3>6. OrderInv'
      BY <3>1 DEF IInv, Mints, OrderInv
    <3>7. MintInv'
      <4>1. pc[Loop] \in {"enter", "entered"} => id[Loop] \in Fresh
        BY DEF IInv, Places, LoopInv, Invoking
      <4> QED BY <1>1, <3>1, <3>2, <4>1 DEF IInv, Mints, MintInv
    <3> QED BY <1>2, <2>7, <2>9, <2>12, <2>15, <2>17, <2>18, <3>3, <3>4, <3>5, <3>6, <3>7
            DEF IInv, Types, Places, Mints, Placed
  <2>21. CASE i = Loop
    <3>1. /\ n \in Fresh /\ intent(i) = doing /\ of'[n] = doing
          /\ \A d \in Fresh : /\ state[d] = None => n <= d
                              /\ of[d] = doing => ~Live(d)
      BY <1>3, <1>5, <2>3, <2>6, <2>21 DEF IInv, Mints, MintInv
    <3>2. pc'[Loop] = "proposed" /\ id'[Loop] = n /\ Engaged /\ Engaged' /\ Alive
      BY <1>3, <2>3, <2>13, <2>21 DEF Engaged, Invoking, Alive
    <3>3. LoopInv'
      BY <1>1, <3>1, <3>2 DEF IInv, Places, LoopInv, Alive
    <3>4. \A d \in Fresh : of'[d] = doing => d <= n
      <4> SUFFICES ASSUME NEW d \in Fresh, d # n, of'[d] = doing PROVE d <= n
        BY <3>1
      <4>1. state[d] # None
        BY <1>0, <2>3, <2>6, <2>21 DEF IInv, RowsInv, RowFits, Intent
      <4>2. d \in Nat /\ n \in Nat
        BY <3>1
      <4>3. d < n
        BY <1>5, <3>1, <4>1 DEF IInv, Mints, OrderInv
      <4> QED BY <4>2, <4>3
    <3>5. NewestInv'
      <4> SUFFICES ASSUME NEW c \in Fresh, NEW d \in Fresh, Live(c)', of'[c] = of'[d]
                   PROVE  d <= c
        BY DEF NewestInv
      <4>1. CASE c = n
        BY <3>1, <3>4, <4>1
      <4>2. CASE c # n
        <5>1. Live(c) /\ of'[c] = of[c]
          BY <1>0, <2>6, <2>19, <4>2
        <5>2. d # n
          BY <3>1, <5>1
        <5> QED BY <1>0, <2>6, <5>1, <5>2 DEF IInv, Mints, NewestInv
      <4> QED BY <4>1, <4>2
    <3>6. SkippedInv'
      <4> SUFFICES ASSUME NEW c \in Fresh, state'[c] # None, Skipped(c)'
                   PROVE  resume'.on /\ (Open(c)' => resume'.calls[c] # None)
        BY DEF SkippedInv
      <4>1. c # n
        BY <1>1, <3>1, <3>2 DEF Skipped
      <4>2. state[c] # None /\ Skipped(c) /\ (Open(c)' <=> Open(c))
        BY <1>0, <1>1, <2>5, <2>6, <2>19, <3>2, <4>1 DEF Skipped, Turns
      <4> QED BY <1>1, <4>2 DEF IInv, Mints, SkippedInv
    <3>7. OrderInv'
      <4> SUFFICES ASSUME NEW c \in Fresh, NEW d \in Fresh, state'[c] # None, state'[d] = None
                   PROVE  c < d
        BY DEF OrderInv
      <4>1. d # n /\ state[d] = None
        BY <1>0, <2>5 DEF Turns
      <4>2. CASE c = n
        <5>1. c \in Nat /\ d \in Nat /\ c <= d /\ c # d
          BY <3>1, <4>1, <4>2
        <5> QED BY <5>1
      <4>3. CASE c # n
        BY <1>0, <2>5, <4>1, <4>3 DEF IInv, Mints, OrderInv, Turns
      <4> QED BY <4>2, <4>3
    <3>8. MintInv'
      BY <3>2 DEF MintInv
    <3> QED BY <1>2, <2>7, <2>9, <2>12, <2>15, <2>17, <2>18, <3>3, <3>5, <3>6, <3>7, <3>8
            DEF IInv, Types, Places, Mints, Placed
  <2> QED BY <2>20, <2>21
<1> QED BY <1>4, <1>5

\* Dispatch and authorization in one transaction: one invoker wins the row.
LEMMA DispatchStep == ASSUME IInv, NEW i \in Core, Dispatch(i) PROVE IInv'
<1> USE CallAssumption
<1> DEFINE c == id[i]
<1>0. /\ i \in Invoker /\ i # Starter /\ c \in Call /\ state[c] # None
      /\ of[c] = intent(i) /\ pc[i] \in {"entered", "proposed"} /\ (i = Loop => Engaged)
  BY ReadyFacts DEF Dispatch
<1>1. UNCHANGED <<of, appr, verdict, ran, doing, heard, resume, run>>
  BY DEF Dispatch, world
<1>2. OtherTypes'
  BY DEF Dispatch, world, IInv, Types, OtherTypes
<1>3. IdFits(i) /\ SnapFits(i)
  BY <1>0 DEF IInv, Places, IdsInv, SnapInv
<1>4. CASE ~(lgen[i] = gen /\ Applies(i, "Dispatched"))
  <2>1. UNCHANGED <<state, receipt>> /\ At(i, "unjournaled")
    BY <1>4 DEF Dispatch
  <2>2. RowTypes' /\ RowsInv' /\ Grows /\ Settles /\ Idles
    BY <1>1, <2>1, QuietRows DEF IInv, Types
  <2>3. Placed(i, "unjournaled", c, snap[i])
    BY <1>0, <2>1, AtFacts DEF IInv, Types, Stations
  <2>4. pc'[i] = "unjournaled" /\ id'[i] = c /\ snap'[i] = snap[i]
    BY <2>3 DEF Placed
  <2>5. IdFits(i)'
    BY <1>0, <2>1, <2>4 DEF IdFits, Invoking
  <2>6. SnapFits(i)'
    BY <1>1, <1>3, <2>4 DEF SnapFits
  <2>7. "unjournaled" \in Haunts(i) /\ NoneStarts
    BY <1>0, <2>3 DEF Haunts, Invoking, NoneStarts, Runs, Placed
  <2>8. LoopKeeps
    <3>1. CASE i = Loop
      BY <1>0, <1>1, <2>1, <2>4, <3>1 DEF LoopKeeps, Engaged, Invoking
    <3>2. CASE i # Loop
      BY <1>1, <2>3, <3>2 DEF LoopKeeps, Placed, Invoker
    <3> QED BY <3>1, <3>2
  <2> QED BY <1>0, <1>2, <2>2, <2>3, <2>5, <2>6, <2>7, <2>8, CalmStep
<1>5. CASE lgen[i] = gen /\ Applies(i, "Dispatched")
  <2>1. /\ state[c] \in {"Proposed", "ApprovalPending"}
        /\ state' = [state EXCEPT ![c] = "Dispatched"]
        /\ receipt' = [receipt EXCEPT ![c] = @ \cup Receipts(i, "AUTHORIZED")]
    BY <1>5 DEF Dispatch, Applies
  <2>2. Turns(c, "Dispatched")
    BY <1>0, <2>1 DEF Turns, IInv, Types, RowTypes, CallState
  <2>3. RowFits(c) /\ ~Begun(c)
    BY <1>0, <2>1 DEF IInv, RowsInv, Begun
  <2>4. receipt[c] = {} /\ verdict[c] = <<>> /\ ran[c] = 0
    BY <2>3 DEF RowFits
  <2>5. /\ receipt'[c] = Receipts(i, "AUTHORIZED")
        /\ receipt' \in [Call -> SUBSET {"AUTHORIZED", "RESULT"}]
        /\ \A d \in Call : d # c => receipt'[d] = receipt[d]
    BY <1>0, <2>1, <2>4 DEF IInv, Types, RowTypes, Receipts
  <2>6. RowTypes'
    BY <1>1, <2>2, <2>5 DEF IInv, Types, RowTypes, Turns
  <2>7. RowsInv'
    <3> SUFFICES ASSUME NEW d \in Call PROVE RowFits(d)'
      BY DEF RowsInv
    <3>1. CASE d # c
      BY <1>1, <2>2, <2>5, <3>1 DEF IInv, RowsInv, RowFits, Begun, Turns
    <3>2. CASE d = c
      <4>1. of[c] # None
        BY <1>0, <2>3 DEF RowFits
      <4>2. DOMAIN verdict[c] = {}
        BY <2>4
      <4> QED BY <1>1, <2>2, <2>3, <3>2, <4>1, <4>2 DEF RowFits, Begun, Turns
    <3> QED BY <3>1, <3>2
  <2>8. Grows
    BY <1>0, <1>1, <2>1, <2>2, <2>3, <2>4, <2>5 DEF Grows, Begun, Turns
  <2>9. Settles
    <3>1. \A d \in Call : (Conf(d)' <=> Conf(d)) /\ (Open(d)' => Open(d))
      BY <1>1, <2>1, <2>2 DEF Conf, Open, Turns
    <3> QED BY <1>0, <1>1, <2>2, <3>1 DEF Settles, Live, Turns
  <2>10. Blank \in Row
    BY DEF Blank, Row, CallState
  <2>11. Placed(i, "running", c, Blank)
    BY <1>0, <1>5, <2>10 DEF Dispatch, Moves, Placed, IInv, Types, InvokerTypes, Stations
  <2>12. pc'[i] = "running" /\ id'[i] = c /\ snap'[i] = Blank
    BY <2>11 DEF Placed
  <2>13. IdFits(i)'
    BY <1>0, <2>2, <2>12 DEF IdFits, Invoking, Begun, Turns
  <2>14. SnapFits(i)'
    BY <2>12 DEF SnapFits, Blank
  <2>15. PlacesInv' /\ IdsInv' /\ SnapInv'
    <3>1. "running" \in Haunts(i)
      BY <1>0 DEF Haunts, Invoking
    <3> QED BY <2>8, <2>11, <2>13, <2>14, <3>1, PlacesKept, IdsKept, SnapKept
            DEF IInv, Types, Places
  <2>16. of[c] \in Gated => appr[c] = "Approved"
    BY <1>0, <1>3 DEF Dispatch, decide, authorizes, SnapFits
  <2>17. \A j \in Invoker : j # i => pc'[j] = pc[j] /\ id'[j] = id[j]
    BY <2>11 DEF Placed
  <2>18. \A j \in Invoker : Runs(j) => id[j] \in Call /\ Begun(id[j]) /\ id[j] # c
    BY <2>3 DEF IInv, Places, IdsInv, IdFits, Runs, Invoking
  <2>19. RunnersInv'
    <3> SUFFICES ASSUME NEW j \in Invoker, Runs(j)'
                 PROVE  /\ pc'[j] = "running" => ran'[id'[j]] = 0
                        /\ of'[id'[j]] \in Gated => appr'[id'[j]] = "Approved"
                        /\ Protected(of'[id'[j]]) => "AUTHORIZED" \in receipt'[id'[j]]
                        /\ \A k \in Invoker : Runs(k)' /\ id'[j] = id'[k] => j = k
      BY DEF RunnersInv, Protected
    <3>1. \A k \in Invoker : k # i /\ Runs(k)' => Runs(k) /\ id'[k] = id[k]
      BY <2>17 DEF Runs
    <3>2. CASE j = i
      <4>1. Protected(of[c]) => "AUTHORIZED" \in receipt'[c]
        BY <1>0, <2>5 DEF Receipts
      <4> QED BY <1>1, <2>4, <2>12, <2>16, <2>18, <3>1, <3>2, <4>1
    <3>3. CASE j # i
      <4>1. Runs(j) /\ id'[j] = id[j] /\ pc'[j] = pc[j] /\ id[j] # c /\ id[j] \in Call
        BY <2>17, <2>18, <3>1, <3>3
      <4>2. receipt'[id[j]] = receipt[id[j]]
        BY <2>5, <4>1
      <4> QED BY <1>1, <2>12, <3>1, <4>1, <4>2 DEF IInv, RunnersInv
    <3> QED BY <3>2, <3>3
  <2>20. LoopKeeps
    <3>1. CASE i = Loop
      BY <1>0, <1>1, <2>2, <2>12, <3>1 DEF LoopKeeps, Engaged, Invoking, Turns
    <3>2. CASE i # Loop
      BY <1>1, <2>17, <3>2 DEF LoopKeeps, Invoker
    <3> QED BY <3>1, <3>2
  <2>21. LoopInv' /\ Mints' /\ ResumeInv'
    BY <2>8, <2>9, <2>20, LoopKept, LoopKeepsMints, ResumeKept DEF IInv, Places, LoopKeeps
  <2>22. ApprovedOnce'
    BY <1>1 DEF IInv, ApprovedOnce
  <2>23. EffectsOnTheLedger'
    <3> SUFFICES ASSUME NEW d \in Call, Protected(of[d]), of[d] # None
                 PROVE  /\ ran[d] > 0 \/ "RESULT" \in receipt'[d] => "AUTHORIZED" \in receipt'[d]
                        /\ state'[d] = "Succeeded" => "RESULT" \in receipt'[d]
      BY <1>1 DEF EffectsOnTheLedger, Protected
    <3>1. CASE d = c
      BY <1>0, <2>2, <2>5, <3>1 DEF Receipts, Turns
    <3>2. CASE d # c
      BY <2>2, <2>5, <3>2 DEF IInv, EffectsOnTheLedger, Turns
    <3> QED BY <3>1, <3>2
  <2> QED BY <1>2, <2>6, <2>7, <2>11, <2>15, <2>19, <2>21, <2>22, <2>23
          DEF IInv, Types, Places, Placed
<1> QED BY <1>4, <1>5

\* The call an invoker runs is its own, begun and of its intent.
LEMMA RunsFacts ==
    ASSUME IInv, NEW i \in Core, Runs(i)
    PROVE  /\ i \in Invoker /\ i # Starter /\ id[i] \in Call /\ Begun(id[i])
           /\ of[id[i]] = intent(i) /\ of[id[i]] # None
           /\ i = Loop => Engaged
           /\ \A j \in Invoker : Runs(j) /\ j # i => id[j] # id[i]
<1> USE CallAssumption
<1>0. i \in Invoker /\ i # Starter
  BY DEF Core, Invoker, Loop, Starter
<1>1. id[i] \in Call /\ Begun(id[i])
  BY <1>0 DEF IInv, Places, IdsInv, IdFits, Runs, Invoking
<1>2. of[id[i]] # None
  BY <1>1 DEF IInv, RowsInv, RowFits, Begun
<1>3. of[id[i]] = intent(i)
  BY <1>2 DEF intent, IInv, Places, LoopInv, Invoking, Runs
<1>4. i = Loop => Engaged
  BY DEF Runs, Engaged, Invoking
<1>5. \A j \in Invoker : Runs(j) /\ j # i => id[j] # id[i]
  BY <1>0 DEF IInv, RunnersInv
<1> QED BY <1>0, <1>1, <1>2, <1>3, <1>4, <1>5

\* The effect happens.
LEMMA PerformStep == ASSUME IInv, NEW i \in Core, Perform(i) PROVE IInv'
<1> USE CallAssumption
<1> DEFINE c == id[i]
<1>0. /\ i \in Invoker /\ i # Starter /\ c \in Call /\ Begun(c) /\ (i = Loop => Engaged)
      /\ \A j \in Invoker : Runs(j) /\ j # i => id[j] # c
  BY RunsFacts DEF Perform, Runs
<1>1. /\ UNCHANGED <<state, of, appr, receipt, verdict, doing, heard, resume, run>>
      /\ pc[i] = "running"
  BY DEF Perform, log
<1>2. OtherTypes'
  BY DEF Perform, log, IInv, Types, OtherTypes
<1>3. /\ ran[c] = 0 /\ (of[c] \in Gated => appr[c] = "Approved")
      /\ Protected(of[c]) => "AUTHORIZED" \in receipt[c]
  BY <1>0, <1>1 DEF IInv, RunnersInv, Runs
<1>4. /\ ran'[c] = 1 /\ ran' \in [Call -> Nat]
      /\ \A d \in Call : d # c => ran'[d] = ran[d]
  BY <1>0, <1>3 DEF Perform, IInv, Types, RowTypes
<1>5. RowTypes'
  BY <1>1, <1>4 DEF IInv, Types, RowTypes
<1>6. RowsInv'
  BY <1>0, <1>1, <1>4 DEF IInv, RowsInv, RowFits, Begun
<1>7. Grows /\ Settles
  BY <1>1 DEF Grows, Settles, Begun, Open, Conf, Live
<1>8. Placed(i, "performed", c, snap[i])
  BY <1>0, AtFacts DEF Perform, IInv, Types, Stations
<1>9. pc'[i] = "performed" /\ id'[i] = c /\ snap'[i] = snap[i]
  BY <1>8 DEF Placed
<1>10. IdFits(i)' /\ SnapFits(i)'
  <2>1. IdFits(i) /\ SnapFits(i)
    BY <1>0 DEF IInv, Places, IdsInv, SnapInv
  <2> QED BY <1>0, <1>1, <1>9, <2>1 DEF IdFits, SnapFits, Begun, Invoking
<1>11. PlacesInv' /\ IdsInv' /\ SnapInv'
  <2>1. "performed" \in Haunts(i)
    BY <1>0 DEF Haunts, Invoking
  <2> QED BY <1>7, <1>8, <1>10, <2>1, PlacesKept, IdsKept, SnapKept DEF IInv, Types, Places
<1>12. \A j \in Invoker : /\ Runs(j)' <=> Runs(j)
                          /\ id'[j] = id[j]
                          /\ j # i => pc'[j] = pc[j]
  BY <1>1, <1>8, <1>9 DEF Placed, Runs
<1>13. RunnersInv'
  <2> SUFFICES ASSUME NEW j \in Invoker, Runs(j)
               PROVE  /\ pc'[j] = "running" => ran'[id[j]] = 0
                      /\ of[id[j]] \in Gated => appr[id[j]] = "Approved"
                      /\ Protected(of[id[j]]) => "AUTHORIZED" \in receipt[id[j]]
                      /\ \A k \in Invoker : Runs(k) /\ id[j] = id[k] => j = k
    BY <1>1, <1>12 DEF RunnersInv, Protected
  <2>1. j # i => id[j] # c /\ id[j] \in Call
    BY <1>0 DEF IInv, Places, IdsInv, IdFits, Runs, Invoking
  <2> QED BY <1>4, <1>9, <1>12, <2>1 DEF IInv, RunnersInv
<1>14. LoopKeeps
  <2>1. CASE i = Loop
    BY <1>0, <1>1, <1>9, <2>1 DEF LoopKeeps, Engaged, Invoking, Begun
  <2>2. CASE i # Loop
    BY <1>1, <1>12, <2>2 DEF LoopKeeps, Invoker
  <2> QED BY <2>1, <2>2
<1>15. LoopInv' /\ Mints' /\ ResumeInv'
  BY <1>7, <1>14, LoopKept, LoopKeepsMints, ResumeKept DEF IInv, Places, LoopKeeps
<1>16. ApprovedOnce'
  BY <1>0, <1>1, <1>3, <1>4 DEF IInv, ApprovedOnce
<1>17. EffectsOnTheLedger'
  BY <1>0, <1>1, <1>3, <1>4 DEF IInv, EffectsOnTheLedger, Protected
<1> QED BY <1>2, <1>5, <1>6, <1>8, <1>11, <1>13, <1>15, <1>16, <1>17
        DEF IInv, Types, Places, Placed

\* The result goes on the ledger and the row, unless the row moved on.
LEMMA RecordStep == ASSUME IInv, NEW i \in Core, Record(i) PROVE IInv'
<1> USE CallAssumption
<1> DEFINE c == id[i]
<1>0. /\ i \in Invoker /\ i # Starter /\ c \in Call /\ Begun(c) /\ (i = Loop => Engaged)
      /\ Loop \in Invoker /\ of[c] = intent(i) /\ of[c] # None
  BY RunsFacts DEF Record, Runs, Invoker
<1>1. UNCHANGED <<of, appr, verdict, ran, doing, heard, resume, run>> /\ Done(i)
  BY DEF Record, world
<1>2. OtherTypes'
  BY DEF Record, world, IInv, Types, OtherTypes
<1>3. CASE state[c] # "Dispatched"
  <2>1. UNCHANGED <<state, receipt>>
    BY <1>3 DEF Record
  <2>2. RowTypes' /\ RowsInv' /\ Grows /\ Settles /\ Idles
    BY <1>1, <2>1, QuietRows DEF IInv, Types
  <2> QED BY <1>0, <1>1, <1>2, <2>2, DoneCalm
<1>4. CASE state[c] = "Dispatched"
  <2>1. PICK out \in Outcomes(i) :
            /\ state' = [state EXCEPT ![c] = out]
            /\ receipt' = [receipt EXCEPT ![c] = @ \cup ResultReceipts(i, out)]
    BY <1>4 DEF Record
  <2>2. out \in Terminal
    BY <2>1 DEF Outcomes, Terminal
  <2>3. Turns(c, out)
    BY <1>0, <2>1, <2>2 DEF Turns, IInv, Types, RowTypes, CallState
  <2>4. /\ receipt'[c] = receipt[c] \cup ResultReceipts(i, out)
        /\ receipt' \in [Call -> SUBSET {"AUTHORIZED", "RESULT"}]
        /\ \A d \in Call : d # c => receipt'[d] = receipt[d]
    BY <1>0, <2>1 DEF IInv, Types, RowTypes, Receipts, ResultReceipts
  <2>5. RowTypes'
    BY <1>1, <2>3, <2>4 DEF IInv, Types, RowTypes, Turns
  <2>6. RowsInv'
    <3> SUFFICES ASSUME NEW d \in Call PROVE RowFits(d)'
      BY DEF RowsInv
    <3>1. CASE d # c
      BY <1>1, <2>3, <2>4, <3>1 DEF IInv, RowsInv, RowFits, Begun, Turns
    <3>2. CASE d = c
      <4>1. RowFits(c)
        BY <1>0 DEF IInv, RowsInv
      <4> QED BY <1>0, <1>1, <1>4, <2>2, <2>3, <3>2, <4>1 DEF RowFits, Begun, Turns, Terminal
    <3> QED BY <3>1, <3>2
  <2>7. Grows
    BY <1>0, <1>1, <1>4, <2>2, <2>3, <2>4 DEF Grows, Begun, Turns, Terminal
  <2>8. Settles
    <3>1. \A d \in Call : (Conf(d)' <=> Conf(d)) /\ (Open(d)' => Open(d))
      BY <1>1, <1>4, <2>3 DEF Conf, Open, Turns
    <3> QED BY <1>0, <1>1, <1>4, <2>2, <2>3, <3>1 DEF Settles, Live, Turns, Terminal
  <2> DEFINE p == IF i = Loop THEN "step" ELSE "idle"
  <2>9. Placed(i, p, None, Blank)
    BY <1>0, <1>1, DoneFacts DEF IInv, Types
  <2>10. pc'[i] = p /\ id'[i] = None /\ snap'[i] = Blank
    BY <2>9 DEF Placed
  <2>11. IdFits(i)' /\ SnapFits(i)' /\ p \in Haunts(i)
    BY <1>0, <2>10 DEF IdFits, SnapFits, Blank, Invoking, Haunts
  <2>12. PlacesInv' /\ IdsInv' /\ SnapInv'
    BY <2>7, <2>9, <2>11, PlacesKept, IdsKept, SnapKept DEF IInv, Types, Places
  <2>13. NoneStarts
    BY <2>9, <2>10 DEF NoneStarts, Runs, Placed
  <2>14. LoopKeeps
    BY <1>0, <1>1, <2>9, <2>10 DEF LoopKeeps, Placed
  <2>15. RunnersInv' /\ ResumeInv' /\ LoopInv' /\ Mints'
    BY <1>1, <2>7, <2>8, <2>13, <2>14, RunnersKept, ResumeKept, LoopKept, LoopKeepsMints
    DEF IInv, Places
  <2>16. ApprovedOnce'
    BY <1>1 DEF IInv, ApprovedOnce
  <2>17. EffectsOnTheLedger'
    <3> SUFFICES ASSUME NEW d \in Call, Protected(of[d]), of[d] # None
                 PROVE  /\ ran[d] > 0 \/ "RESULT" \in receipt'[d] => "AUTHORIZED" \in receipt'[d]
                        /\ state'[d] = "Succeeded" => "RESULT" \in receipt'[d]
      BY <1>1 DEF EffectsOnTheLedger, Protected
    <3>1. CASE d = c
      <4>1. "AUTHORIZED" \in receipt[c]
        BY <1>0, <3>1 DEF IInv, RunnersInv, Runs, Record
      <4> QED BY <1>0, <2>4, <3>1, <4>1 DEF Receipts, ResultReceipts
    <3>2. CASE d # c
      BY <2>3, <2>4, <3>2 DEF IInv, EffectsOnTheLedger, Turns
    <3> QED BY <3>1, <3>2
  <2> QED BY <1>2, <2>5, <2>6, <2>9, <2>12, <2>15, <2>16, <2>17
          DEF IInv, Types, Places, Placed
<1> QED BY <1>3, <1>4

-----------------------------------------------------------------------------
(* The loop                                                                *)

\* The loop waits for the approval of its call.
LEMMA WaitStep == ASSUME IInv, Wait PROVE IInv'
<1> USE CallAssumption
<1>0. Loop \in Core /\ Loop \in Invoker /\ Loop # Starter
  BY DEF Core, Invoker, Loop, Starter
<1>1. UNCHANGED <<state, of, appr, receipt, verdict, ran, doing, heard, resume, run>>
  BY DEF Wait, log, world
<1>2. Grows /\ Settles /\ Idles /\ RowTypes' /\ RowsInv'
  BY <1>1, QuietRows DEF IInv, Types
<1>3. OtherTypes'
  BY DEF Wait, log, world, IInv, Types, OtherTypes
<1>4. CASE Done(Loop)
  <2>1. Engaged
    BY DEF Wait, Engaged
  <2> QED BY <1>0, <1>1, <1>2, <1>3, <1>4, <2>1, DoneCalm
<1>5. CASE ~Done(Loop)
  <2>1. At(Loop, "enter") /\ pc[Loop] = "wait"
    BY <1>5 DEF Wait
  <2>2. IdFits(Loop) /\ SnapFits(Loop)
    BY <1>0 DEF IInv, Places, IdsInv, SnapInv
  <2>3. Placed(Loop, "enter", id[Loop], snap[Loop])
    BY <1>0, <2>1, AtFacts DEF IInv, Types, Stations
  <2>4. pc'[Loop] = "enter" /\ id'[Loop] = id[Loop] /\ snap'[Loop] = snap[Loop]
    BY <2>3 DEF Placed
  <2>5. state[id[Loop]] # None /\ id[Loop] \in Call
    BY <2>1, <2>2 DEF IdFits
  <2>6. IdFits(Loop)' /\ SnapFits(Loop)'
    BY <1>1, <2>2, <2>4, <2>5 DEF IdFits, SnapFits, Invoking
  <2>7. "enter" \in Haunts(Loop) /\ NoneStarts
    BY <1>0, <2>3, <2>4 DEF Haunts, Invoking, NoneStarts, Runs, Placed
  <2>8. LoopKeeps
    BY <1>1, <2>1, <2>4, <2>5 DEF LoopKeeps, Engaged, Invoking
  <2> QED BY <1>0, <1>2, <1>3, <2>3, <2>6, <2>7, <2>8, CalmStep
<1> QED BY <1>4, <1>5

\* One more record about a begun call.  A user's word needs an unknown outcome.
LEMMA RowReconciled ==
    ASSUME IInv, CallAssumption, NEW c \in Call, Begun(c),
           NEW w \in {"CORE", "USER_CONFIRMED", "USER_ABSENT"},
           w # "CORE" => state[c] = "UnknownOutcome",
           verdict' = [verdict EXCEPT ![c] = Append(@, w)],
           UNCHANGED <<state, of, appr, receipt, ran>>
    PROVE  RowTypes' /\ RowsInv' /\ Grows /\ Settles /\ Idles
<1> DEFINE Words == {"CORE", "USER_CONFIRMED", "USER_ABSENT"}
<1>1. verdict \in [Call -> Seq(Words)] /\ verdict[c] \in Seq(Words)
  BY DEF IInv, Types, RowTypes
<1>2. PICK v \in Seq(Words) : v = verdict[c]
  BY <1>1
<1>3. PICK u : u = Append(v, w)
  OBVIOUS
<1>4. /\ u \in Seq(Words) /\ u # <<>> /\ DOMAIN u = 1 .. (Len(v) + 1)
      /\ u[Len(v) + 1] = w /\ DOMAIN v = 1 .. Len(v)
      /\ \A n \in 1 .. Len(v) : u[n] = v[n]
  BY <1>2, <1>3
<1>5. (v = <<>> => Head(u) = w) /\ (v # <<>> => Head(u) = Head(v))
  BY <1>2, <1>3
<1>6. verdict'[c] = u /\ \A d \in Call : d # c => verdict'[d] = verdict[d]
  BY <1>1, <1>2, <1>3
<1>7. RowTypes'
  BY <1>1, <1>2, <1>3, <1>4 DEF IInv, Types, RowTypes
<1>8. Grows /\ Idles
  BY DEF Grows, Idles, Begun
<1>9. RowsInv'
  <2> SUFFICES ASSUME NEW d \in Call PROVE RowFits(d)'
    BY DEF RowsInv
  <2>1. CASE d # c
    BY <1>6, <2>1 DEF IInv, RowsInv, RowFits, Begun
  <2>2. CASE d = c
    <3>1. RowFits(c)
      BY DEF IInv, RowsInv
    <3>2. \A n \in DOMAIN v : v[n] # "CORE" => state[c] = "UnknownOutcome"
      BY <1>2, <3>1 DEF RowFits
    <3>3. \A n \in DOMAIN u : n \in DOMAIN v \/ n = Len(v) + 1
      BY <1>4
    <3>4. \A n \in DOMAIN u : u[n] # "CORE" => state[c] = "UnknownOutcome"
      BY <1>4, <3>2, <3>3
    <3> QED BY <1>6, <2>2, <3>1, <3>4 DEF RowFits, Begun
  <2> QED BY <2>1, <2>2
<1>10. Settles
  <2> SUFFICES ASSUME NEW d \in Call PROVE (Open(d)' => Open(d)) /\ (Live(d)' => Live(d))
    BY DEF Settles
  <2>1. CASE d # c
    BY <1>6, <2>1 DEF Open, Live, Conf
  <2>2. CASE d = c
    <3>1. ~Open(c)'
      BY <1>4, <1>6 DEF Open
    <3>2. ASSUME Conf(c)' PROVE Live(c)
      <4>1. Head(u) = "USER_CONFIRMED" /\ \A n \in DOMAIN u : u[n] # "USER_ABSENT"
        BY <1>6, <3>2 DEF Conf
      <4>2. CASE v = <<>>
        BY <1>2, <1>5, <4>1, <4>2 DEF Live, Open
      <4>3. CASE v # <<>>
        <5>1. DOMAIN v \subseteq DOMAIN u /\ \A n \in DOMAIN v : u[n] = v[n]
          BY <1>4
        <5> QED BY <1>2, <1>5, <4>1, <4>3, <5>1 DEF Live, Conf
      <4> QED BY <4>2, <4>3
    <3> QED BY <2>2, <3>1, <3>2 DEF Live
  <2> QED BY <2>1, <2>2
<1> QED BY <1>7, <1>8, <1>9, <1>10

\* The loop reconciles a call of unknown outcome.
LEMMA ReconcileUnknownStep == ASSUME IInv, reconcile_unknown PROVE IInv'
<1> USE CallAssumption
<1>0. Loop \in Core /\ Loop \in Invoker
  BY DEF Core, Invoker
<1>1. UNCHANGED <<state, of, appr, receipt, ran, doing, heard, resume, run>> /\ Done(Loop)
  BY DEF reconcile_unknown, world
<1>2. OtherTypes' /\ Engaged
  BY DEF reconcile_unknown, world, IInv, Types, OtherTypes, Engaged
<1>3. id[Loop] \in Call /\ Begun(id[Loop])
  BY <1>0 DEF IInv, Places, IdsInv, IdFits, reconcile_unknown
<1>4. RowTypes' /\ RowsInv' /\ Grows /\ Settles /\ Idles
  <2>1. CASE verdict' = verdict
    BY <1>1, <2>1, QuietRows DEF IInv, Types
  <2>2. CASE verdict' # verdict
    <3>1. verdict' = [verdict EXCEPT ![id[Loop]] = Append(@, "CORE")]
      BY <2>2 DEF reconcile_unknown
    <3> QED BY <1>1, <1>3, <3>1, RowReconciled
  <2> QED BY <2>1, <2>2
<1> QED BY <1>0, <1>1, <1>2, <1>4, DoneCalm

\* A step of the loop that touches no row: what is left to show of it.
LEMMA LoopMoves ==
    ASSUME IInv, CallAssumption, NEW p, NEW c, NEW s, Placed(Loop, p, c, s),
           UNCHANGED <<state, of, appr, receipt, verdict, ran>>,
           OtherTypes', p \in Haunts(Loop), p \notin {"running", "performed"},
           IdFits(Loop)', SnapFits(Loop)', LoopInv', ResumeInv', SkippedInv', MintInv'
    PROVE  IInv'
<1>1. Grows /\ Settles /\ Idles /\ RowTypes' /\ RowsInv'
  BY QuietRows DEF IInv, Types
<1>2. PlacesInv' /\ IdsInv' /\ SnapInv'
  BY <1>1, PlacesKept, IdsKept, SnapKept DEF IInv, Types, Places
<1>3. NoneStarts
  BY DEF NoneStarts, Runs, Placed
<1>4. RunnersInv' /\ NewestInv' /\ OrderInv'
  BY <1>1, <1>3, RunnersKept, NewestKept, OrderKept DEF IInv, Places, Mints
<1>5. ApprovedOnce' /\ EffectsOnTheLedger'
  BY <1>1, EffectsKept DEF IInv, Types
<1> QED BY <1>1, <1>2, <1>4, <1>5 DEF IInv, Types, Places, Mints, Placed

\* The step that carries the result to the model.
LEMMA StepStep == ASSUME IInv, Step PROVE IInv'
<1> USE CallAssumption
<1>0. Loop \in Invoker /\ Loop # Starter
  BY DEF Invoker, Loop, Starter
<1>1. /\ UNCHANGED <<state, of, appr, receipt, verdict, ran, resume, run>> /\ pc[Loop] = "step"
      /\ heard' = heard \cup {doing} /\ At(Loop, "pick")
  BY DEF Step, world
<1>2. Engaged /\ Alive /\ doing \in Ask \ heard
  BY <1>1 DEF IInv, Places, LoopInv, Engaged, Alive
<1>3. OtherTypes'
  BY <1>2 DEF Step, world, IInv, Types, OtherTypes
<1>4. Placed(Loop, "pick", id[Loop], snap[Loop])
  BY <1>0, <1>1, AtFacts DEF IInv, Types, Stations
<1>5. pc'[Loop] = "pick" /\ id'[Loop] = id[Loop] /\ snap'[Loop] = snap[Loop] /\ ~Engaged'
  BY <1>4 DEF Placed, Engaged, Invoking
<1>6. IdFits(Loop)' /\ SnapFits(Loop)' /\ "pick" \in Haunts(Loop)
  <2>1. SnapFits(Loop)
    BY <1>0 DEF IInv, SnapInv
  <2> QED BY <1>0, <1>1, <1>5, <2>1 DEF IdFits, SnapFits, Invoking, Haunts
<1>7. LoopInv'
  BY <1>1, <1>2, <1>5 DEF IInv, Places, LoopInv, Invoking
<1>8. ResumeInv'
  BY <1>1 DEF IInv, ResumeInv, Begun
<1>9. SkippedInv'
  <2>1. \A c \in Fresh : Skipped(c)' => Skipped(c)
    BY <1>1, <1>2, <1>5 DEF Skipped
  <2> QED BY <1>1, <2>1, QuietRows, SkippedKept DEF IInv, Mints
<1>10. MintInv'
  BY <1>5 DEF MintInv
<1> QED BY <1>1, <1>3, <1>4, <1>6, <1>7, <1>8, <1>9, <1>10, LoopMoves

\* No resume has its type.
LEMMA NoResumeTypes == NoResume \in [on : BOOLEAN, calls : [Call -> CallState]]
  BY DEF NoResume, CallState

\* The loop leaves, and its run ends or is suspended.
LEMMA LeaveStep == ASSUME IInv, Leave PROVE IInv'
<1> USE CallAssumption
<1>0. Loop \in Invoker /\ Loop # Starter
  BY DEF Invoker, Loop, Starter
<1>1. /\ UNCHANGED <<state, of, appr, receipt, verdict, ran>> /\ pc[Loop] = "pick"
      /\ resume' = NoResume /\ run' \in {"Suspended", "over"}
  BY DEF Leave, world
<1>2. OtherTypes'
  BY NoResumeTypes DEF Leave, world, IInv, Types, OtherTypes
<1>3. Placed(Loop, "gone", id[Loop], snap[Loop])
  BY <1>0 DEF Placed, Leave, Moves, IInv, Types, InvokerTypes, Stations
<1>4. pc'[Loop] = "gone" /\ id'[Loop] = id[Loop] /\ snap'[Loop] = snap[Loop] /\ ~Alive'
  BY <1>3 DEF Placed, Alive
<1>5. IdFits(Loop)' /\ SnapFits(Loop)' /\ "gone" \in Haunts(Loop)
  <2>1. SnapFits(Loop)
    BY <1>0 DEF IInv, SnapInv
  <2> QED BY <1>0, <1>1, <1>4, <2>1 DEF IdFits, SnapFits, Invoking, Haunts
<1>6. LoopInv'
  BY <1>1, <1>4 DEF LoopInv, Invoking, Engaged
<1>7. ResumeInv'
  <2>1. \A c \in Call : resume'.calls[c] = None
    BY <1>1 DEF NoResume
  <2> QED BY <2>1 DEF ResumeInv, Terminal
<1>8. SkippedInv' /\ MintInv'
  BY <1>4 DEF SkippedInv, Skipped, MintInv
<1> QED BY <1>1, <1>2, <1>3, <1>5, <1>6, <1>7, <1>8, LoopMoves

\* Before the loop picks a call it is at none, and has read no row.
LEMMA PickFacts ==
    ASSUME IInv, NEW a \in Ask, Picks(a)
    PROVE  /\ Loop \in Invoker /\ Loop # Starter /\ pc[Loop] = "pick" /\ Alive /\ ~Engaged
           /\ a \in Ask \ heard /\ snap[Loop].appr = None /\ snap[Loop].state = None
<1> USE CallAssumption
<1>0. Loop \in Invoker /\ Loop # Starter
  BY DEF Invoker, Loop, Starter
<1>1. pc[Loop] = "pick" /\ a \in Ask \ heard
  BY DEF Picks
<1>2. SnapFits(Loop)
  BY <1>0 DEF IInv, SnapInv
<1> QED BY <1>0, <1>1, <1>2 DEF SnapFits, Alive, Engaged, Invoking

\* Picking a call for a: the rows are as they were, and a is no longer skipped.
LEMMA PickMoves ==
    ASSUME IInv, NEW a \in Ask, Picks(a), NEW p \in {"step", "reconcile", "enter"}, NEW c,
           Placed(Loop, p, c, snap[Loop]), doing' = a,
           UNCHANGED <<log, world, heard, resume, cancel>>,
           p # "step" => c \in Fresh /\ of[c] \in {None, a},
           p = "reconcile" => Begun(c), MintInv'
    PROVE  IInv'
<1> USE CallAssumption
<1>1. /\ Loop \in Invoker /\ Loop # Starter /\ pc[Loop] = "pick" /\ Alive /\ ~Engaged
      /\ a \in Ask \ heard /\ snap[Loop].appr = None /\ snap[Loop].state = None
  BY PickFacts
<1>2. UNCHANGED <<state, of, appr, receipt, verdict, ran, heard, resume, run>>
  BY DEF log, world
<1>3. OtherTypes'
  BY DEF log, world, IInv, Types, OtherTypes
<1>4. pc'[Loop] = p /\ id'[Loop] = c /\ snap'[Loop] = snap[Loop]
  BY DEF Placed
<1>5. IdFits(Loop)'
  BY <1>2, <1>4 DEF IdFits, Invoking, Begun, Call
<1>6. SnapFits(Loop)'
  BY <1>1, <1>4 DEF SnapFits
<1>7. p \in Haunts(Loop)
  BY <1>1 DEF Haunts, Invoking
<1>8. LoopInv'
  BY <1>1, <1>2, <1>4 DEF IInv, Places, LoopInv, Engaged, Alive, Invoking
<1>9. ResumeInv'
  BY <1>2 DEF IInv, ResumeInv, Begun
<1>10. SkippedInv'
  <2>1. \A d \in Fresh : Skipped(d)' => Skipped(d)
    BY <1>1, <1>2 DEF Skipped
  <2> QED BY <1>2, <2>1, QuietRows, SkippedKept DEF IInv, Mints
<1> QED BY <1>2, <1>3, <1>5, <1>6, <1>7, <1>8, <1>9, <1>10, LoopMoves

\* A call the user confirmed is answered without another one.
LEMMA PickConfirmedStep == ASSUME IInv, NEW a \in Ask, PickConfirmed(a) PROVE IInv'
<1> USE CallAssumption
<1>1. Picks(a) /\ doing' = a /\ UNCHANGED <<log, world, heard, resume, cancel>>
  BY DEF PickConfirmed
<1>2. Placed(Loop, "step", id[Loop], snap[Loop])
  BY <1>1, PickFacts, AtFacts DEF PickConfirmed, IInv, Types, Stations
<1>3. MintInv'
  BY <1>2 DEF Placed, MintInv
<1> QED BY <1>1, <1>2, <1>3, PickMoves

\* A call of unknown outcome is reconciled before another one.
LEMMA PickUnknownStep == ASSUME IInv, NEW a \in Ask, PickUnknown(a) PROVE IInv'
<1> USE CallAssumption
<1> DEFINE c == Latest(unknown_call(a))
<1>1. Picks(a) /\ doing' = a /\ UNCHANGED <<log, world, heard, resume, cancel>>
  BY DEF PickUnknown
<1>2. unknown_call(a) \in SUBSET Fresh /\ unknown_call(a) # {}
  BY DEF PickUnknown, unknown_call, find_call
<1>3. c \in unknown_call(a)
  BY <1>2, LatestOf
<1> HIDE DEF c
<1>4. c \in Fresh /\ of[c] = a /\ resume.calls[c] \in {"UnknownOutcome", "Dispatched"}
  BY <1>3 DEF unknown_call, find_call
<1>5. Begun(c)
  BY <1>4 DEF IInv, ResumeInv, Call
<1>6. Placed(Loop, "reconcile", c, snap[Loop])
  <2>1. Loop \in Invoker /\ c \in Call
    BY <1>1, <1>4, PickFacts DEF Call
  <2>2. /\ pc' = [pc EXCEPT ![Loop] = "reconcile"] /\ id' = [id EXCEPT ![Loop] = c]
        /\ UNCHANGED <<snap, lgen>>
    BY DEF PickUnknown, Moves, c
  <2> QED BY <2>1, <2>2 DEF Placed, IInv, Types, InvokerTypes, Stations
<1>7. MintInv'
  BY <1>6 DEF Placed, MintInv
<1> QED BY <1>1, <1>4, <1>5, <1>6, <1>7, PickMoves

\* A call of a the user has confirmed is the one the user's verdict is taken of.
LEMMA ConfirmedIsHeard ==
    ASSUME IInv, NEW a \in Ask, NEW c \in Fresh, of[c] = a, Conf(c), resume.on
    PROVE  user_verdict(a) = "USER_CONFIRMED"
<1> USE CallAssumption
<1> DEFINE Words == {"CORE", "USER_CONFIRMED", "USER_ABSENT"}
           lost == {d \in Fresh : of[d] = a /\ state[d] = "UnknownOutcome"}
           said == {n \in DOMAIN verdict[c] : verdict[c][n] # "CORE"}
<1>1. verdict[c] \in Seq(Words) /\ verdict[c] # <<>> /\ c \in Call
  BY DEF IInv, Types, RowTypes, Call, Conf
<1>2. Len(verdict[c]) \in Nat /\ DOMAIN verdict[c] = 1 .. Len(verdict[c]) /\ 1 \in DOMAIN verdict[c]
  BY <1>1
<1>3. verdict[c][1] = "USER_CONFIRMED" /\ 1 \in said
  BY <1>1, <1>2 DEF Conf
<1>4. state[c] = "UnknownOutcome"
  BY <1>1, <1>2, <1>3 DEF IInv, RowsInv, RowFits
<1>5. c \in lost
  BY <1>4
<1>6. Latest(lost) \in lost /\ \A d \in lost : d <= Latest(lost)
  BY <1>5, LatestOf
<1>7. Latest(lost) <= c
  BY <1>5, <1>6 DEF IInv, Mints, NewestInv, Live
<1>8. Latest(lost) = c
  <2>1. PICK m : m = Latest(lost)
    OBVIOUS
  <2>2. m \in Nat /\ c \in Nat /\ m <= c /\ c <= m
    BY <1>5, <1>6, <1>7, <2>1
  <2> QED BY <2>1, <2>2
<1>9. Latest(said) \in said
  <2>1. said \subseteq Nat /\ said # {} /\ \A n \in said : n <= Len(verdict[c])
    BY <1>2, <1>3
  <2>2. \E m \in said : \A k \in said : k <= m
    BY <1>2, <2>1, GreatestBelow
  <2> QED BY <2>2 DEF Latest
<1>10. verdict[c][Latest(said)] = "USER_CONFIRMED"
  <2>1. \A n \in DOMAIN verdict[c] : verdict[c][n] \in Words
    BY <1>1
  <2>2. PICK m : m = Latest(said)
    OBVIOUS
  <2>3. m \in DOMAIN verdict[c] /\ verdict[c][m] # "CORE"
    BY <1>9, <2>2
  <2> QED BY <2>1, <2>2, <2>3 DEF Conf
<1>11. lost # {} /\ said # {}
  BY <1>3, <1>5
<1> QED BY <1>8, <1>10, <1>11 DEF user_verdict

\* A call of the model gets a new row.
LEMMA PickCallStep == ASSUME IInv, NEW a \in Ask, PickCall(a) PROVE IInv'
<1> USE CallAssumption
<1> DEFINE unused == {c \in Fresh : state[c] = None}
<1>1. /\ Picks(a) /\ doing' = a /\ UNCHANGED <<log, world, heard, resume, cancel>>
      /\ user_verdict(a) # "USER_CONFIRMED" /\ unknown_call(a) = {}
  BY DEF PickCall
<1>2. UNCHANGED <<state, of, verdict, heard, resume>> /\ Alive /\ ~Engaged /\ a \in Ask \ heard
  BY <1>1, PickFacts DEF log
<1>3. PICK c : c = id'[Loop]
  OBVIOUS
<1>4. Loop \in Invoker /\ pc' = [pc EXCEPT ![Loop] = "enter"] /\ UNCHANGED <<snap, lgen>>
  BY <1>1, PickFacts DEF PickCall, Moves
<1>5. CASE resumed_call(a) # {}
  <2>1. id' = [id EXCEPT ![Loop] = Latest(resumed_call(a))]
    BY <1>5 DEF PickCall
  <2>2. c = Latest(resumed_call(a))
    BY <1>3, <1>4, <2>1 DEF IInv, Types, InvokerTypes
  <2>3. resumed_call(a) \in SUBSET Fresh
    BY DEF resumed_call, find_call
  <2>4. c \in resumed_call(a)
    BY <1>5, <2>2, <2>3, LatestOf
  <2>5. c \in Fresh /\ c \in Call /\ of[c] = a /\ resume.calls[c] # None
    BY <2>4 DEF resumed_call, find_call, Call
  <2>6. state[c] # None
    BY <2>5 DEF IInv, ResumeInv
  <2>7. id' = [id EXCEPT ![Loop] = c]
    BY <2>1, <2>2
  <2>8. Placed(Loop, "enter", c, snap[Loop])
    BY <1>4, <2>5, <2>7 DEF Placed, IInv, Types, InvokerTypes, Stations
  <2>9. MintInv'
    BY <1>2, <1>3, <2>6 DEF MintInv
  <2> QED BY <1>1, <2>5, <2>8, <2>9, PickMoves
<1>6. CASE resumed_call(a) = {}
  <2>1. /\ unused # {}
        /\ id' = [id EXCEPT ![Loop] = CHOOSE x \in unused : \A d \in unused : x <= d]
    BY <1>6 DEF PickCall
  <2>2. c = CHOOSE x \in unused : \A d \in unused : x <= d
    BY <1>3, <1>4, <2>1 DEF IInv, Types, InvokerTypes
  <2>3. \E x \in unused : \A d \in unused : x <= d
    <3>1. unused \subseteq Nat
      OBVIOUS
    <3> QED BY <2>1, <3>1, LeastNat
  <2>4. c \in unused /\ \A d \in unused : c <= d
    BY <2>2, <2>3
  <2>5. c \in Fresh /\ c \in Call /\ of[c] = None
    BY <2>4 DEF IInv, RowsInv, RowFits, Call
  <2>6. id' = [id EXCEPT ![Loop] = c]
    BY <2>1, <2>2
  <2>7. Placed(Loop, "enter", c, snap[Loop])
    BY <1>4, <2>5, <2>6 DEF Placed, IInv, Types, InvokerTypes, Stations
  <2>8. ASSUME NEW d \in Fresh, of[d] = a PROVE ~Live(d)
    <3>0. d \in Call /\ a # None
      BY DEF Call, Intent
    <3>1. state[d] # None /\ Skipped(d)
      BY <1>2, <2>8, <3>0 DEF IInv, RowsInv, RowFits, Skipped
    <3>2. resume.on /\ (Open(d) => resume.calls[d] # None)
      BY <3>1 DEF IInv, Mints, SkippedInv
    <3>3. ~Open(d)
      BY <1>1, <1>6, <2>8, <3>2 DEF resumed_call, unknown_call, find_call
    <3>4. ~Conf(d)
      BY <1>1, <2>8, <3>2, ConfirmedIsHeard
    <3> QED BY <3>3, <3>4 DEF Live
  <2>9. \A d \in Fresh : Live(d)' <=> Live(d)
    BY <1>2 DEF Live, Open, Conf
  <2>10. MintInv'
    <3> SUFFICES ASSUME NEW d \in Fresh
                 PROVE  /\ state'[d] = None => id'[Loop] <= d
                        /\ of'[d] = doing' => ~Live(d)'
      BY DEF MintInv
    <3> QED BY <1>1, <1>2, <1>3, <2>4, <2>8, <2>9
  <2> QED BY <1>1, <2>5, <2>7, <2>10, PickMoves
<1> QED BY <1>5, <1>6

\* A loop begins and reads the calls an earlier one left.
LEMMA BeginStep == ASSUME IInv, Begin PROVE IInv'
<1> USE CallAssumption
<1>0. Loop \in Invoker /\ Loop # Starter /\ Starter \in Invoker /\ Fresh \subseteq Call
  BY DEF Invoker, Loop, Starter, Call
<1>1. UNCHANGED <<state, of, appr, receipt, verdict, ran, told>>
  BY DEF Begin, world
<1>2. Grows /\ Settles /\ Idles /\ RowTypes' /\ RowsInv'
  BY <1>1, QuietRows DEF IInv, Types
<1>3. SnapFits(Starter) /\ SnapFits(Loop)
  BY <1>0 DEF IInv, SnapInv
<1>4. CASE ~(~Alive /\ run \in {None, "Suspended"})
  <2>1. At(Starter, "idle") /\ UNCHANGED <<run, heard, cancel, resume, doing>>
    BY <1>4 DEF Begin
  <2>2. OtherTypes'
    BY <2>1 DEF Begin, world, IInv, Types, OtherTypes
  <2>3. Placed(Starter, "idle", id[Starter], snap[Starter])
    BY <1>0, <2>1, AtFacts DEF IInv, Types, Stations
  <2>4. pc'[Starter] = "idle" /\ snap'[Starter] = snap[Starter] /\ id'[Starter] = id[Starter]
    BY <2>3 DEF Placed
  <2>5. IdFits(Starter)' /\ SnapFits(Starter)' /\ "idle" \in Haunts(Starter)
    <3>1. pc[Starter] = "starting"
      BY DEF Begin
    <3> QED BY <1>0, <1>1, <1>3, <2>4, <3>1 DEF IdFits, SnapFits, Invoking, Haunts
  <2>6. NoneStarts /\ LoopKeeps
    BY <1>0, <2>1, <2>3, <2>4 DEF NoneStarts, LoopKeeps, Runs, Placed
  <2> QED BY <1>0, <1>2, <2>2, <2>3, <2>5, <2>6, CalmStep
<1>5. CASE ~Alive /\ run \in {None, "Suspended"}
  <2>1. /\ run' = "Running" /\ pc' = [pc EXCEPT ![Starter] = "idle", ![Loop] = "pick"]
        /\ lgen' = [lgen EXCEPT ![Loop] = gen] /\ UNCHANGED <<id, snap>>
        /\ heard' = told /\ pc[Loop] = "gone" /\ pc[Starter] = "starting"
    BY <1>5 DEF Begin, Alive
  <2>2. resume' = IF run = "Suspended" /\ told # Ask
                  THEN [on |-> TRUE, calls |-> outstanding] ELSE NoResume
    BY <1>5 DEF Begin
  <2>3. outstanding \in [Call -> CallState] /\ \A c \in Call : outstanding[c] \in {None, state[c]}
    BY DEF outstanding, CallState, IInv, Types, RowTypes
  <2>4. resume' \in [on : BOOLEAN, calls : [Call -> CallState]]
    BY <2>2, <2>3, NoResumeTypes
  <2>5. OtherTypes'
    BY <1>5, <2>1, <2>4 DEF Begin, world, IInv, Types, OtherTypes
  <2>6. /\ InvokerTypes' /\ pc'[Starter] = "idle" /\ pc'[Loop] = "pick"
        /\ \A j \in Invoker : j \notin {Loop, Starter} => pc'[j] = pc[j]
        /\ \A j \in Invoker : id'[j] = id[j] /\ snap'[j] = snap[j]
    <3>1. pc' \in [Invoker -> Stations]
      BY <1>0, <2>1 DEF IInv, Types, InvokerTypes, Stations
    <3>2. lgen' \in [Invoker -> 0 .. MaxGen]
      BY <1>0, <2>1 DEF IInv, Types, InvokerTypes, OtherTypes
    <3> QED BY <1>0, <2>1, <3>1, <3>2 DEF IInv, Types, InvokerTypes
  <2>7. PlacesInv'
    BY <1>0, <2>6 DEF IInv, Places, PlacesInv, Haunts
  <2>8. IdsInv'
    <3> SUFFICES ASSUME NEW j \in Invoker PROVE IdFits(j)'
      BY DEF IdsInv
    <3>1. CASE j \in {Loop, Starter}
      BY <2>6, <3>1 DEF IdFits, Invoking
    <3>2. CASE j \notin {Loop, Starter}
      BY <1>1, <2>6, <3>2 DEF IInv, Places, IdsInv, IdFits, Begun
    <3> QED BY <3>1, <3>2
  <2>9. SnapInv'
    <3> SUFFICES ASSUME NEW j \in Invoker PROVE SnapFits(j)'
      BY DEF SnapInv
    <3>1. CASE j \in {Loop, Starter}
      BY <1>0, <1>1, <1>3, <2>1, <2>6, <3>1 DEF SnapFits
    <3>2. CASE j \notin {Loop, Starter}
      BY <1>1, <2>6, <3>2 DEF IInv, SnapInv, SnapFits
    <3> QED BY <3>1, <3>2
  <2>10. NoneStarts
    BY <2>6 DEF NoneStarts, Runs
  <2>11. RunnersInv' /\ NewestInv' /\ OrderInv'
    BY <1>1, <1>2, <2>10, RunnersKept, NewestKept, OrderKept DEF IInv, Places, Mints
  <2>12. LoopInv' /\ MintInv'
    BY <2>1, <2>6 DEF LoopInv, MintInv, Engaged, Invoking
  <2>13. \A c \in Call : resume'.calls[c] \in {None, state[c]}
    <3>1. CASE run = "Suspended" /\ told # Ask
      BY <2>2, <2>3, <3>1
    <3>2. CASE ~(run = "Suspended" /\ told # Ask)
      BY <2>2, <3>2 DEF NoResume
    <3> QED BY <3>1, <3>2
  <2>14. ResumeInv'
    <3> SUFFICES ASSUME NEW c \in Call
                 PROVE  /\ resume'.calls[c] # None => state[c] # None
                        /\ resume'.calls[c] \in {"Dispatched", "UnknownOutcome"} => Begun(c)
      BY <1>1 DEF ResumeInv, Begun
    <3> QED BY <2>13 DEF Begun, Terminal
  <2>15. SkippedInv'
    <3> SUFFICES ASSUME NEW c \in Fresh, state[c] # None, Skipped(c)'
                 PROVE  resume'.on /\ (Open(c) => resume'.calls[c] # None)
      BY <1>1 DEF SkippedInv, Open
    <3>1. c \in Call /\ of[c] \in Ask \ told
      BY <1>0, <1>1, <2>1 DEF Skipped
    <3>2. run = "Suspended" /\ told # Ask
      BY <1>5, <3>1 DEF IInv, Places, LoopInv
    <3>3. resume'.on /\ resume'.calls = outstanding
      BY <2>2, <3>2
    <3>4. Open(c) => outstanding[c] # None
      BY <3>1 DEF Open, outstanding
    <3> QED BY <3>3, <3>4
  <2>16. ApprovedOnce' /\ EffectsOnTheLedger'
    BY <1>2, EffectsKept DEF IInv, Types
  <2> QED BY <1>2, <2>5, <2>6, <2>7, <2>8, <2>9, <2>11, <2>12, <2>14, <2>15, <2>16
          DEF IInv, Types, Places, Mints
<1> QED BY <1>4, <1>5

-----------------------------------------------------------------------------
(* The commands, the clock and the kill                                    *)

\* A step of a handler that touches no row and leaves the loop where it is.
LEMMA HandlerMoves ==
    ASSUME IInv, CallAssumption, NEW i \in Invoker, i # Loop, NEW p, NEW c, NEW s,
           Placed(i, p, c, s), UNCHANGED <<state, of, appr, receipt, verdict, ran>>,
           UNCHANGED <<doing, heard, resume, run>>, OtherTypes',
           p \in Haunts(i), p \notin {"running", "performed"}, IdFits(i)', SnapFits(i)'
    PROVE  IInv'
<1>1. Grows /\ Settles /\ Idles /\ RowTypes' /\ RowsInv'
  BY QuietRows DEF IInv, Types
<1>2. NoneStarts /\ LoopKeeps
  BY DEF NoneStarts, LoopKeeps, Runs, Placed, Invoker
<1> QED BY <1>1, <1>2, CalmStep

\* StartTask, first or again.
LEMMA StartTaskStep == ASSUME IInv, StartTask PROVE IInv'
<1> USE CallAssumption
<1>0. Loop # Starter /\ Starter \in Invoker
  BY DEF Invoker, Loop, Starter
<1>1. /\ UNCHANGED <<state, of, appr, receipt, verdict, ran, doing, heard, resume, run>>
      /\ pc[Starter] = "idle"
  BY DEF StartTask, log, world
<1>2. OtherTypes'
  BY DEF StartTask, log, world, IInv, Types, OtherTypes
<1>3. Placed(Starter, "starting", id[Starter], snap[Starter])
  BY <1>0, AtFacts DEF StartTask, IInv, Types, Stations
<1>4. SnapFits(Starter)
  BY <1>0 DEF IInv, SnapInv
<1>5. IdFits(Starter)' /\ SnapFits(Starter)' /\ "starting" \in Haunts(Starter)
  BY <1>0, <1>1, <1>3, <1>4 DEF Placed, IdFits, SnapFits, Haunts, Invoking
<1> QED BY <1>0, <1>1, <1>2, <1>3, <1>5, HandlerMoves

\* A client enters a call itself.
LEMMA InvokeToolStep == ASSUME IInv, NEW p \in Client, NEW c \in Call, InvokeTool(p, c) PROVE IInv'
<1> USE CallAssumption
<1>0. p # Loop /\ p # Starter /\ p \in Invoker
  BY DEF Invoker, Loop, Starter
<1>1. /\ UNCHANGED <<state, of, appr, receipt, verdict, ran, doing, heard, resume, run>>
      /\ pc[p] = "idle" /\ (c \in Fresh => state[c] # None)
  BY DEF InvokeTool, log, world
<1>2. OtherTypes'
  BY DEF InvokeTool, log, world, IInv, Types, OtherTypes
<1> DEFINE s == [snap[p] EXCEPT !.stop = stop]
<1>3. SnapFits(p) /\ snap[p] \in Row
  BY <1>0 DEF IInv, SnapInv, Types, InvokerTypes
<1>4. s \in Row /\ s.appr = None /\ s.state = None
  BY <1>1, <1>3 DEF SnapFits, Row, IInv, Types, OtherTypes
<1>5. Placed(p, "enter", c, s)
  <2>1. pc' \in [Invoker -> Stations] /\ id' \in [Invoker -> Call \cup {None}]
    BY <1>0 DEF InvokeTool, Moves, IInv, Types, InvokerTypes, Stations
  <2>2. snap' = [snap EXCEPT ![p] = s]
    BY <1>0 DEF InvokeTool, IInv, Types, InvokerTypes
  <2>3. snap' \in [Invoker -> Row]
    BY <1>0, <1>4, <2>2 DEF IInv, Types, InvokerTypes
  <2>4. lgen' \in [Invoker -> 0 .. MaxGen]
    BY <1>0 DEF InvokeTool, IInv, Types, InvokerTypes, OtherTypes
  <2> QED BY <1>0, <2>1, <2>2, <2>3, <2>4 DEF Placed, InvokeTool, Moves, IInv, Types, InvokerTypes
<1> HIDE DEF s
<1>6. IdFits(p)' /\ SnapFits(p)' /\ "enter" \in Haunts(p)
  BY <1>0, <1>1, <1>4, <1>5 DEF Placed, IdFits, SnapFits, Haunts, Invoking
<1> QED BY <1>0, <1>1, <1>2, <1>5, <1>6, HandlerMoves

\* The user says whether an effect is there.
LEMMA ReconcileStep ==
    ASSUME IInv, NEW p \in Client, NEW c \in Call, NEW w \in {"USER_CONFIRMED", "USER_ABSENT"},
           Reconcile(p, c, w)
    PROVE  IInv'
<1> USE CallAssumption
<1>0. p # Loop /\ p # Starter /\ p \in Invoker
  BY DEF Invoker, Loop, Starter
<1>1. /\ UNCHANGED <<state, of, appr, receipt, verdict, ran, doing, heard, resume, run>>
      /\ pc[p] = "idle" /\ state[c] = "UnknownOutcome"
  BY DEF Reconcile, log, world
<1>2. OtherTypes'
  BY DEF Reconcile, log, world, IInv, Types, OtherTypes
<1>3. SnapFits(p)
  BY <1>0 DEF IInv, SnapInv
<1>4. Placed(p, w, c, snap[p])
  BY <1>0 DEF Placed, Reconcile, Moves, IInv, Types, InvokerTypes, Stations
<1>5. IdFits(p)' /\ SnapFits(p)' /\ w \in Haunts(p)
  BY <1>0, <1>1, <1>3, <1>4 DEF Placed, IdFits, SnapFits, Haunts, Invoking
<1> QED BY <1>0, <1>1, <1>2, <1>4, <1>5, HandlerMoves

\* A client sends the word of the user.
LEMMA ReconcileToolCallStep == ASSUME IInv, NEW p \in Client, ReconcileToolCall(p) PROVE IInv'
<1> USE CallAssumption
<1>0. p # Loop /\ p # Starter /\ p \in Invoker /\ p \in Core
  BY DEF Invoker, Loop, Starter, Core
<1>1. /\ UNCHANGED <<state, of, appr, receipt, ran, doing, heard, resume, run>> /\ Done(p)
      /\ verdict' = [verdict EXCEPT ![id[p]] = Append(@, pc[p])]
      /\ pc[p] \in {"USER_CONFIRMED", "USER_ABSENT"}
  BY DEF ReconcileToolCall, world
<1>2. OtherTypes'
  BY DEF ReconcileToolCall, world, IInv, Types, OtherTypes
<1>3. id[p] \in Call /\ state[id[p]] = "UnknownOutcome"
  BY <1>0, <1>1 DEF IInv, Places, IdsInv, IdFits
<1>4. Begun(id[p])
  BY <1>3 DEF Begun, Terminal
<1>5. RowTypes' /\ RowsInv' /\ Grows /\ Settles /\ Idles
  BY <1>1, <1>3, <1>4, RowReconciled
<1> QED BY <1>0, <1>1, <1>2, <1>5, DoneCalm

\* EmergencyStop goes on the log.
LEMMA EmergencyStopStep == ASSUME IInv, NEW p \in Client, EmergencyStop(p) PROVE IInv'
<1> USE CallAssumption
<1>0. p # Loop /\ p # Starter /\ p \in Invoker
  BY DEF Invoker, Loop, Starter
<1>1. /\ UNCHANGED <<state, of, appr, receipt, verdict, ran, doing, heard, resume, run>>
      /\ pc[p] = "idle"
  BY DEF EmergencyStop, world
<1>2. OtherTypes'
  BY DEF EmergencyStop, world, IInv, Types, OtherTypes
<1>3. SnapFits(p)
  BY <1>0 DEF IInv, SnapInv
<1>4. Placed(p, "stopping", id[p], snap[p])
  BY <1>0, AtFacts DEF EmergencyStop, IInv, Types, Stations
<1>5. IdFits(p)' /\ SnapFits(p)' /\ "stopping" \in Haunts(p)
  BY <1>0, <1>1, <1>3, <1>4 DEF Placed, IdFits, SnapFits, Haunts, Invoking
<1> QED BY <1>0, <1>1, <1>2, <1>4, <1>5, HandlerMoves

\* The live loop is cancelled after an emergency stop.
LEMMA CancelLiveStep == ASSUME IInv, NEW p \in Client, CancelLive(p) PROVE IInv'
<1> USE CallAssumption
<1>0. p # Loop /\ p # Starter /\ p \in Invoker
  BY DEF Invoker, Loop, Starter
<1>1. /\ UNCHANGED <<state, of, appr, receipt, verdict, ran, doing, heard, resume, run>>
      /\ pc[p] = "stopping"
  BY DEF CancelLive, log, world
<1>2. OtherTypes'
  BY DEF CancelLive, log, world, IInv, Types, OtherTypes, Alive
<1>3. SnapFits(p)
  BY <1>0 DEF IInv, SnapInv
<1>4. Placed(p, "idle", id[p], snap[p])
  BY <1>0, AtFacts DEF CancelLive, IInv, Types, Stations
<1>5. IdFits(p)' /\ SnapFits(p)' /\ "idle" \in Haunts(p)
  BY <1>0, <1>1, <1>3, <1>4 DEF Placed, IdFits, SnapFits, Haunts, Invoking
<1> QED BY <1>0, <1>1, <1>2, <1>4, <1>5, HandlerMoves

\* A step that leaves every invoker where it is.
LEMMA MemoryStays ==
    ASSUME IInv, CallAssumption, UNCHANGED mem, UNCHANGED run, OtherTypes',
           RowTypes', RowsInv', Grows, Settles, Idles
    PROVE  IInv'
<1>1. Loop \in Invoker
  BY DEF Invoker
<1>2. UNCHANGED <<pc, id, snap, lgen, doing, heard, resume>>
  BY DEF mem
<1>3. Placed(Loop, pc[Loop], id[Loop], snap[Loop])
  BY <1>2 DEF Placed, IInv, Types, InvokerTypes
<1>4. pc[Loop] \in Haunts(Loop) /\ IdFits(Loop) /\ SnapFits(Loop)
  BY <1>1 DEF IInv, Places, PlacesInv, IdsInv, SnapInv
<1>5. IdFits(Loop)'
  BY <1>2, <1>4 DEF IdFits, Grows, Invoking
<1>6. SnapFits(Loop)'
  <2>1. snap[Loop].appr = "Approved" => id[Loop] \in Call
    BY <1>4, CallAssumption DEF SnapFits, IdFits, Invoking
  <2> QED BY <1>2, <1>4, <2>1 DEF SnapFits, Grows
<1>7. NoneStarts /\ LoopKeeps
  BY <1>2 DEF NoneStarts, LoopKeeps
<1> QED BY <1>1, <1>3, <1>4, <1>5, <1>6, <1>7, CalmStep

\* A requested approval is answered, for yes, no or too late.
LEMMA AnswerStep ==
    ASSUME IInv, NEW c \in Call, NEW a \in {"Approved", "Denied", "Expired"},
           appr[c] = "Requested", appr' = [appr EXCEPT ![c] = a],
           \/ state[c] = "ApprovalPending" /\ Fails(c)
           \/ UNCHANGED state,
           UNCHANGED <<of, receipt, verdict, told, run, stop, gen, mem, world>>
    PROVE  IInv'
<1> USE CallAssumption
<1>1. UNCHANGED <<of, receipt, verdict, ran>>
  BY DEF world
<1>2. OtherTypes'
  BY DEF mem, world, IInv, Types, OtherTypes
<1>3. /\ appr' \in [Call -> {None, "Requested", "Approved", "Denied", "Expired"}]
      /\ \A d \in Call : d # c => appr'[d] = appr[d]
  BY DEF IInv, Types, RowTypes
<1>4. state[c] \notin {None, "Proposed"}
  BY DEF IInv, RowsInv, RowFits
<1>5. state' \in [Call -> CallState] /\ \A d \in Call : d # c => state'[d] = state[d]
  BY DEF Fails, IInv, Types, RowTypes, CallState, Terminal
<1>6. \/ state'[c] = "Failed" /\ state[c] \in {"Proposed", "ApprovalPending", "Dispatched"}
      \/ state'[c] = state[c]
  BY DEF Fails, IInv, Types, RowTypes
<1>7. Turns(c, state'[c])
  BY <1>5 DEF Turns
<1>8. RowTypes' /\ RowsInv' /\ Grows /\ Settles /\ Idles
  BY <1>1, <1>3, <1>4, <1>6, <1>7, RowFails
<1> QED BY <1>2, <1>8, MemoryStays

\* A person answers an approval.
LEMMA ResolveApprovalStep ==
    ASSUME IInv, NEW c \in Call, NEW ok \in BOOLEAN, ResolveApproval(c, ok) PROVE IInv'
<1>1. \/ state[c] = "ApprovalPending" /\ Fails(c)
      \/ UNCHANGED state
  BY DEF ResolveApproval
<1> QED BY <1>1, AnswerStep DEF ResolveApproval

\* An approval expires.
LEMMA ExpireStep == ASSUME IInv, NEW c \in Call, expire(c) PROVE IInv'
<1>1. \/ state[c] = "ApprovalPending" /\ Fails(c)
      \/ UNCHANGED state
  BY DEF expire
<1> QED BY <1>1, AnswerStep DEF expire, is_due

\* The deadline of an approval comes.
LEMMA TickStep == ASSUME IInv, NEW c \in Call, Tick(c) PROVE IInv'
<1> USE CallAssumption
<1>1. UNCHANGED <<state, of, appr, receipt, verdict, ran, run>>
  BY DEF Tick, log
<1>2. OtherTypes'
  BY DEF Tick, log, mem, IInv, Types, OtherTypes
<1>3. Grows /\ Settles /\ Idles /\ RowTypes' /\ RowsInv'
  BY <1>1, QuietRows DEF IInv, Types
<1> QED BY <1>1, <1>2, <1>3, MemoryStays DEF Tick

\* Another client takes the lease.
LEMMA TakeoverStep == ASSUME IInv, Takeover PROVE IInv'
<1> USE CallAssumption
<1>1. UNCHANGED <<state, of, appr, receipt, verdict, ran, run>>
  BY DEF Takeover, world
<1>2. OtherTypes'
  BY DEF Takeover, world, mem, IInv, Types, OtherTypes
<1>3. Grows /\ Settles /\ Idles /\ RowTypes' /\ RowsInv'
  BY <1>1, QuietRows DEF IInv, Types
<1> QED BY <1>1, <1>2, <1>3, MemoryStays DEF Takeover

\* The Core dies: what was dispatched has an unknown outcome.
LEMMA CrashStep == ASSUME IInv, Crash PROVE IInv'
<1> USE CallAssumption
<1>0. Loop \in Invoker /\ Loop # Starter /\ Starter \in Invoker /\ Fresh \subseteq Call
  BY DEF Invoker, Loop, Starter, Call
<1>1. /\ UNCHANGED <<of, receipt, verdict, told>> /\ resume' = NoResume
      /\ run' = IF run = "Running" THEN "Suspended" ELSE run
  BY DEF Crash
<1>2. OtherTypes'
  <2>1. /\ crashes < MaxCrash /\ crashes' = crashes + 1
        /\ doing' = None /\ heard' = {} /\ cancel' = FALSE /\ UNCHANGED <<stop, gen, due>>
    BY DEF Crash
  <2>2. crashes' \in 0 .. MaxCrash
    BY <2>1 DEF IInv, Types, OtherTypes
  <2>3. resume' \in [on : BOOLEAN, calls : [Call -> CallState]]
    BY <1>1, NoResumeTypes
  <2> QED BY <1>1, <2>1, <2>2, <2>3 DEF IInv, Types, OtherTypes
<1>3. /\ pc' = [i \in Invoker |-> IF i = Loop THEN "gone" ELSE "idle"]
      /\ id' = [i \in Invoker |-> None] /\ snap' = [i \in Invoker |-> Blank]
      /\ lgen' = [i \in Invoker |-> 0]
  BY DEF Crash
<1>4. /\ pc'[Loop] = "gone" /\ \A i \in Invoker : i # Loop => pc'[i] = "idle"
      /\ \A i \in Invoker : id'[i] = None /\ snap'[i] = Blank
  BY <1>0, <1>3
<1>5. InvokerTypes'
  <2>1. Blank \in Row
    BY DEF Blank, Row, CallState
  <2> QED BY <1>3, <2>1 DEF InvokerTypes, Stations
<1>6. PlacesInv' /\ IdsInv' /\ SnapInv' /\ RunnersInv'
  <2>1. PlacesInv'
    BY <1>0, <1>4 DEF PlacesInv, Haunts
  <2>2. IdsInv'
    BY <1>4 DEF IdsInv, IdFits, Invoking
  <2>3. SnapInv'
    BY <1>4 DEF SnapInv, SnapFits, Blank
  <2>4. RunnersInv'
    BY <1>4 DEF RunnersInv, Runs
  <2> QED BY <2>1, <2>2, <2>3, <2>4
<1>7. \A c \in Call :
          /\ state'[c] = orphaned(c)
          /\ \/ state'[c] = state[c]
             \/ state[c] = "Dispatched" /\ state'[c] \in {"Cancelled", "UnknownOutcome"}
  BY DEF Crash, orphaned
<1>8. state' \in [Call -> CallState]
  BY <1>7 DEF Crash, orphaned, CallState, Terminal, IInv, Types, RowTypes
<1>9. PICK cut \in {{}} \cup {{c} : c \in {d \in Call : appr[d] = "Requested"}} :
          appr' = [c \in Call |-> IF c \in cut THEN "Denied" ELSE appr[c]]
  BY DEF Crash
<1>10. /\ appr' \in [Call -> {None, "Requested", "Approved", "Denied", "Expired"}]
       /\ \A c \in Call : appr'[c] = appr[c] \/ (appr[c] = "Requested" /\ appr'[c] = "Denied")
  BY <1>9 DEF IInv, Types, RowTypes
<1>11. PICK hit \in SUBSET {i \in Invoker : pc[i] = "running"} :
           ran' = [c \in Call |-> ran[c] + Cardinality({i \in hit : id[i] = c})]
  BY DEF Crash
<1>12. \A c \in Call :
           \/ ran'[c] = ran[c]
           \/ \E i \in Invoker : pc[i] = "running" /\ id[i] = c /\ ran'[c] = 1
  <2> SUFFICES ASSUME NEW c \in Call
               PROVE  \/ ran'[c] = ran[c]
                      \/ \E i \in Invoker : pc[i] = "running" /\ id[i] = c /\ ran'[c] = 1
    OBVIOUS
  <2> DEFINE H == {i \in hit : id[i] = c}
  <2>1. ran'[c] = ran[c] + Cardinality(H) /\ ran[c] \in Nat
    BY <1>11 DEF IInv, Types, RowTypes
  <2>2. CASE H = {}
    <3>1. Cardinality(H) = 0
      BY <2>2, FS_EmptySet
    <3> QED BY <2>1, <3>1
  <2>3. CASE H # {}
    <3>1. PICK i \in H : TRUE
      BY <2>3
    <3>2. i \in Invoker /\ pc[i] = "running" /\ id[i] = c
      BY <1>11, <3>1
    <3>3. ran[c] = 0 /\ \A j \in Invoker : Runs(j) /\ id[j] = c => i = j
      BY <3>2 DEF IInv, RunnersInv, Runs
    <3>4. H = {i}
      BY <1>11, <3>1, <3>3 DEF Runs
    <3>5. Cardinality(H) = 1
      BY <3>4, FS_Singleton
    <3>6. ran'[c] = 1
      BY ONLY <2>1, <3>3, <3>5
    <3> QED BY ONLY <3>2, <3>6
  <2> QED BY <2>2, <2>3
<1>13. ran' \in [Call -> Nat]
  <2>1. \A c \in Call : ran'[c] \in Nat
    BY <1>12 DEF IInv, Types, RowTypes
  <2> QED BY <1>11, <2>1
<1>14. RowTypes'
  BY <1>1, <1>8, <1>10, <1>13 DEF IInv, Types, RowTypes
<1>15. \A i \in Invoker : pc[i] = "running" =>
           /\ id[i] \in Call /\ Begun(id[i])
           /\ of[id[i]] \in Gated => appr[id[i]] = "Approved"
           /\ Protected(of[id[i]]) => "AUTHORIZED" \in receipt[id[i]]
  BY DEF IInv, Places, IdsInv, IdFits, RunnersInv, Runs, Invoking
<1>16. \A c \in Call : ~Begun(c) => ran'[c] = ran[c]
  BY <1>12, <1>15
<1>17. RowsInv'
  <2> SUFFICES ASSUME NEW c \in Call PROVE RowFits(c)'
    BY DEF RowsInv
  <2>1. RowFits(c)
    BY DEF IInv, RowsInv
  <2>2. ~Begun(c)' => ~Begun(c)
    BY <1>7 DEF Begun, Terminal
  <2> QED BY <1>1, <1>7, <1>10, <1>16, <2>1, <2>2 DEF RowFits, Terminal
<1>18. Grows
  BY <1>1, <1>7, <1>10 DEF Grows, Begun, Terminal
<1>19. Settles
  <2>1. \A d \in Call : (Conf(d)' <=> Conf(d)) /\ (Open(d)' => Open(d))
    BY <1>1, <1>7 DEF Conf, Open
  <2> QED BY <1>1, <1>7, <2>1 DEF Settles, Live, Terminal
<1>20. NewestInv' /\ OrderInv'
  BY <1>19, NewestKept, OrderKept DEF IInv, Mints
<1>21. SkippedInv' /\ MintInv'
  BY <1>4 DEF SkippedInv, Skipped, MintInv, Alive
<1>22. LoopInv'
  BY <1>0, <1>1, <1>4, <1>19 DEF IInv, Places, LoopInv, Engaged, Alive, Invoking, Settles
<1>23. ResumeInv'
  <2>1. \A c \in Call : resume'.calls[c] = None
    BY <1>1 DEF NoResume
  <2> QED BY <2>1 DEF ResumeInv, Terminal
<1>24. ApprovedOnce'
  <2> SUFFICES ASSUME NEW c \in Call, ran'[c] > 0
               PROVE  ran'[c] = 1 /\ (of[c] \in Gated => appr'[c] = "Approved")
    BY <1>1 DEF ApprovedOnce
  <2>1. ran'[c] = 1 /\ (of[c] \in Gated => appr[c] = "Approved")
    BY <1>12, <1>15 DEF IInv, ApprovedOnce
  <2> QED BY <1>10, <2>1
<1>25. EffectsOnTheLedger'
  <2> SUFFICES ASSUME NEW c \in Call, Protected(of[c]), of[c] # None
               PROVE  /\ ran'[c] > 0 \/ "RESULT" \in receipt[c] => "AUTHORIZED" \in receipt[c]
                      /\ state'[c] = "Succeeded" => "RESULT" \in receipt[c]
    BY <1>1 DEF EffectsOnTheLedger, Protected
  <2> QED BY <1>7, <1>12, <1>15 DEF IInv, EffectsOnTheLedger
<1> QED BY <1>2, <1>5, <1>6, <1>14, <1>17, <1>20, <1>21, <1>22, <1>23, <1>24, <1>25
        DEF IInv, Types, Places, Mints

-----------------------------------------------------------------------------
(* The theorems                                                            *)

\* No call was made.
LEMMA Starts == ASSUME CInit PROVE IInv
<1> USE CallAssumption
<1>0. Loop \in Invoker /\ Loop # Starter /\ Fresh \subseteq Call
  BY DEF Invoker, Loop, Starter, Call
<1>1. RowTypes
  BY DEF CInit, RowTypes, CallState
<1>2. OtherTypes
  <2>1. /\ told = {} /\ run = None /\ stop = FALSE /\ gen = 0 /\ doing = None /\ heard = {}
        /\ cancel = FALSE /\ due = {} /\ crashes = 0 /\ resume = NoResume
    BY DEF CInit
  <2>2. gen \in 0 .. MaxGen /\ crashes \in 0 .. MaxCrash
    BY <2>1
  <2>3. resume \in [on : BOOLEAN, calls : [Call -> CallState]]
    BY <2>1, NoResumeTypes
  <2> QED BY <2>1, <2>2, <2>3 DEF OtherTypes
<1>3. InvokerTypes
  <2>1. Blank \in Row
    BY DEF Blank, Row, CallState
  <2> QED BY <2>1 DEF CInit, InvokerTypes, Stations
<1>4. RowsInv
  BY DEF CInit, RowsInv, RowFits
<1>5. /\ pc[Loop] = "gone" /\ \A i \in Invoker : i # Loop => pc[i] = "idle"
      /\ \A i \in Invoker : id[i] = None /\ snap[i] = Blank
      /\ \A c \in Call : state[c] = None /\ ran[c] = 0 /\ of[c] = None /\ verdict[c] = <<>>
      /\ \A c \in Call : resume.calls[c] = None
  BY <1>0 DEF CInit, NoResume
<1>6. PlacesInv
  BY <1>0, <1>5 DEF PlacesInv, Haunts
<1>7. IdsInv
  BY <1>5 DEF IdsInv, IdFits, Invoking
<1>8. LoopInv
  BY <1>0, <1>5 DEF LoopInv, Engaged, Alive, Invoking
<1>9. SnapInv
  BY <1>5 DEF SnapInv, SnapFits, Blank
<1>10. RunnersInv
  BY <1>5 DEF RunnersInv, Runs
<1>11. ResumeInv
  BY <1>5 DEF ResumeInv, Terminal
<1>12. Mints
  <2>1. \A c \in Fresh : ~Live(c)
    BY <1>0, <1>5 DEF Live, Open, Conf, Terminal
  <2> QED BY <1>0, <1>5, <2>1 DEF Mints, NewestInv, SkippedInv, OrderInv, MintInv, Skipped, Alive
<1>13. ApprovedOnce /\ EffectsOnTheLedger
  BY <1>5 DEF ApprovedOnce, EffectsOnTheLedger
<1> QED BY <1>1, <1>2, <1>3, <1>4, <1>6, <1>7, <1>8, <1>9, <1>10, <1>11, <1>12, <1>13
        DEF IInv, Types, Places

\* Every step of execute_tool_call.
LEMMA InvokeSteps == ASSUME IInv, NEW i \in Core, Invoke(i) PROVE IInv'
  BY EnterStep, ProposeStep, DispatchStep, UnjournaledStep, DenyStep, AskApprovalStep,
     PerformStep, RecordStep DEF Invoke

\* A step that changes nothing.
LEMMA StutterStep == ASSUME IInv, UNCHANGED vars PROVE IInv'
<1> USE CallAssumption
<1>1. UNCHANGED <<state, of, appr, receipt, verdict, ran, run, mem>>
  BY DEF vars, log, world
<1>2. OtherTypes'
  BY DEF vars, log, world, mem, IInv, Types, OtherTypes
<1>3. Grows /\ Settles /\ Idles /\ RowTypes' /\ RowsInv'
  BY <1>1, QuietRows DEF IInv, Types
<1> QED BY <1>1, <1>2, <1>3, MemoryStays

\* Every step preserves the invariant, one lemma for each action.
LEMMA Inductive == ASSUME IInv, [CNext]_vars PROVE IInv'
<1>1. CASE Invoke(Loop)
  BY <1>1, InvokeSteps DEF Core
<1>2. CASE LoopStep
  BY <1>2, WaitStep, ReconcileUnknownStep, StepStep, LeaveStep, PickConfirmedStep,
     PickUnknownStep, PickCallStep DEF LoopStep
<1>3. CASE StartTask \/ Begin
  BY <1>3, StartTaskStep, BeginStep
<1>4. ASSUME NEW p \in Client, Finishes(p) PROVE IInv'
  BY <1>4, InvokeSteps, ReconcileToolCallStep, CancelLiveStep DEF Finishes, Core
<1>5. ASSUME NEW p \in Client, Command(p) PROVE IInv'
  BY <1>5, InvokeToolStep, ReconcileStep, EmergencyStopStep DEF Command
<1>6. ASSUME NEW c \in Call, expire(c) \/ Tick(c) \/ \E ok \in BOOLEAN : ResolveApproval(c, ok)
      PROVE  IInv'
  BY <1>6, ExpireStep, TickStep, ResolveApprovalStep
<1>7. CASE Takeover \/ Crash
  BY <1>7, TakeoverStep, CrashStep
<1>8. CASE UNCHANGED vars
  BY <1>8, StutterStep
<1> QED BY <1>1, <1>2, <1>3, <1>4, <1>5, <1>6, <1>7, <1>8 DEF CNext

\* The inductive invariant holds of every run of the calls.
THEOREM CallInvariant == CSpec => []IInv
<1>1. CInit => IInv
  BY Starts
<1>2. IInv /\ [CNext]_vars => IInv'
  BY Inductive
<1> QED BY <1>1, <1>2, PTL DEF CSpec

\* The rows, the invokers' memory and the counters keep their types.
THEOREM CallTypes == CSpec => []CTypeOK
<1>1. IInv => CTypeOK
  BY TypesAgree DEF IInv
<1> QED BY <1>1, CallInvariant, PTL

\* A gated effect happens only under an approval, and at most once for it,
\* whatever the clients, the clock, takeovers and kills do in between.
THEOREM EffectsAreApproved == CSpec => []ApprovedOnce
<1>1. IInv => ApprovedOnce
  BY DEF IInv
<1> QED BY <1>1, CallInvariant, PTL

\* An effect beyond the workspace is authorized in the ledger before it happens,
\* and a recorded success has its receipt.
THEOREM LedgerLeads == CSpec => []EffectsOnTheLedger
<1>1. IInv => EffectsOnTheLedger
  BY DEF IInv
<1> QED BY <1>1, CallInvariant, PTL

\* Only Dispatch dispatches a call, and one that was waiting for it.
LEMMA OnlyDispatchDispatches ==
    ASSUME IInv, [CNext]_vars, NEW d \in Fresh, state[d] # "Dispatched", state'[d] = "Dispatched"
    PROVE  state[d] \in {"Proposed", "ApprovalPending"}
<1> USE CallAssumption
<1>0. d \in Call /\ state \in [Call -> CallState] /\ None # "Dispatched"
  BY DEF Call, IInv, Types, RowTypes
<1>1. ASSUME NEW i \in Core, Invoke(i) PROVE state[d] \in {"Proposed", "ApprovalPending"}
  <2>1. CASE Dispatch(i)
    BY <1>0, <2>1 DEF Dispatch, Applies
  <2>2. CASE Record(i)
    <3>1. "Dispatched" \notin Outcomes(i)
      BY DEF Outcomes
    <3> QED BY <1>0, <2>2, <3>1 DEF Record
  <2>3. CASE Propose(i)
    BY <1>0, <2>3 DEF Propose
  <2>4. CASE Deny(i)
    BY <1>0, <2>4 DEF Deny, Fails
  <2>5. CASE AskApproval(i)
    BY <1>0, <2>5 DEF AskApproval
  <2>6. CASE Enter(i) \/ Unjournaled(i) \/ Perform(i)
    BY <2>6 DEF Enter, Unjournaled, Perform, log
  <2> QED BY <1>1, <2>1, <2>2, <2>3, <2>4, <2>5, <2>6 DEF Invoke
<1>2. CASE LoopStep
  BY <1>2 DEF LoopStep, Wait, reconcile_unknown, Step, Leave, PickConfirmed, PickUnknown,
              PickCall, log
<1>3. CASE StartTask \/ Begin \/ Takeover
  BY <1>3 DEF StartTask, Begin, Takeover, log
<1>4. ASSUME NEW p \in Client, ReconcileToolCall(p) \/ CancelLive(p) \/ Command(p)
      PROVE  FALSE
  BY <1>4 DEF ReconcileToolCall, CancelLive, Command, InvokeTool, Reconcile, EmergencyStop, log
<1>5. ASSUME NEW c \in Call, expire(c) \/ Tick(c) \/ \E ok \in BOOLEAN : ResolveApproval(c, ok)
      PROVE  FALSE
  BY <1>0, <1>5 DEF expire, Tick, ResolveApproval, Fails, log
<1>6. CASE Crash
  BY <1>0, <1>6 DEF Crash, orphaned
<1>7. CASE UNCHANGED vars
  BY <1>7 DEF vars, log
<1> QED BY <1>1, <1>2, <1>3, <1>4, <1>5, <1>6, <1>7 DEF CNext, Finishes, Core

\* A dispatch is of a call that is live, hence the only live one of its intent.
LEMMA DispatchIsOfTheLiveCall ==
    ASSUME IInv, [CNext]_vars, NEW a \in Ask, Dispatches(a),
           NEW c \in Fresh, of[c] = a, Live(c)
    PROVE  state[c] \in {"Proposed", "ApprovalPending"} /\ verdict[c] = <<>>
<1> USE CallAssumption
<1>1. PICK d \in Fresh : of[d] = a /\ state[d] # "Dispatched" /\ state'[d] = "Dispatched"
  BY DEF Dispatches
<1>2. state[d] \in {"Proposed", "ApprovalPending"}
  BY <1>1, OnlyDispatchDispatches
<1>3. verdict[d] = <<>>
  BY <1>2 DEF IInv, RowsInv, RowFits, Begun, Call
<1>4. Live(d)
  BY <1>2, <1>3 DEF Live, Open
<1>5. c <= d /\ d <= c /\ c \in Nat /\ d \in Nat
  BY <1>1, <1>4 DEF IInv, Mints, NewestInv
<1>6. c = d
  BY <1>5
<1> QED BY <1>2, <1>3, <1>6

\* While a call of the model is in flight or of unknown outcome, and nobody has
\* reconciled it, no other call is dispatched in its place.
THEOREM NoSecondDispatch == CSpec => OutstandingHolds
<1>1. ASSUME IInv, [CNext]_vars, NEW a \in Ask, NEW c \in Fresh, of[c] = a, verdict[c] = <<>>,
             state[c] \in {"Dispatched", "UnknownOutcome"}
      PROVE  ~Dispatches(a)
  <2>1. Live(c)
    BY <1>1 DEF Live, Open
  <2> QED BY <1>1, <2>1, DispatchIsOfTheLiveCall
<1>2. IInv /\ [CNext]_vars =>
          [\A a \in Ask :
              (\E c \in Fresh : /\ of[c] = a /\ verdict[c] = <<>>
                                /\ state[c] \in {"Dispatched", "UnknownOutcome"})
              => ~Dispatches(a)]_vars
  BY <1>1
<1> QED BY <1>2, CallInvariant, PTL DEF CSpec, OutstandingHolds

\* An effect the user confirmed is never dispatched again.
THEOREM ConfirmedIsNotRepeated == CSpec => ConfirmedStays
<1>1. ASSUME IInv, [CNext]_vars, NEW a \in Ask, Confirmed(a)
      PROVE  ~Dispatches(a)
  <2>1. PICK c \in Fresh : of[c] = a /\ Conf(c)
    BY <1>1 DEF Confirmed, Conf
  <2>2. Live(c) /\ verdict[c] # <<>>
    BY <2>1 DEF Live, Conf
  <2> QED BY <1>1, <2>1, <2>2, DispatchIsOfTheLiveCall
<1>2. IInv /\ [CNext]_vars => [\A a \in Ask : Confirmed(a) => ~Dispatches(a)]_vars
  BY <1>1
<1> QED BY <1>2, CallInvariant, PTL DEF CSpec, ConfirmedStays
=============================================================================
