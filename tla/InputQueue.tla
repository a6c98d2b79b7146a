------------------------------ MODULE InputQueue ------------------------------
(***************************************************************************)
(* The input queue of one task and the run loop that drains it:            *)
(* crates/core-runtime/src/input_queue.rs (the fold of the task's log),    *)
(* services/modbit-core/src/run_control.rs and the QueueInput handler of   *)
(* server.rs (the commands), and the boundary, the dispatch, the stream    *)
(* and the tool call of services/modbit-core/src/runtime.rs (the loop).    *)
(*                                                                         *)
(* A command handler is several steps: it appends under one hold of the    *)
(* store and tells the live loop afterwards.  The loop is several steps    *)
(* too, and the Core may be killed between any two: the handlers and the   *)
(* loop are gone then, the log is not.                                     *)
(*                                                                         *)
(* Left out: what a record says beyond what the queue folds (reasons,      *)
(* models, provenance); the order of the messages inside one boundary's    *)
(* batch; what a settled item was, on which nothing is decided; the        *)
(* refusal of commands on a task that is over and the replay of a command  *)
(* id (nothing changes); the tail of a delta the redactor holds back until *)
(* more text has come.                                                     *)
(***************************************************************************)
EXTENDS Integers, Sequences

CONSTANTS
    Input,       \* input ids the clients choose
    Untrusted,   \* the inputs a producer queues on someone else's behalf
    Text,        \* what an input may say
    Typed,       \* Typed[i]: the text input id i was first sent with
    NoText,
    Interrupt,   \* interrupt ids the clients choose
    Handler,     \* command handlers at work at the same time
    Mode,        \* the input modes offered
    WhileRunning,  \* the values of the first send-behaviour setting
    SendNow,       \* the values of the second
    MaxGen       \* bound on lease takeovers

ASSUME QueueAssumption ==
    /\ Untrusted \subseteq Input /\ Typed \in [Input -> Text]
    /\ NoText \notin Text
    /\ "never asked" \notin Text /\ "withdrawn" \notin Text /\ "twice" \notin Text
    /\ Mode \subseteq {"STEER", "COLLECT", "FOLLOW_UP"}
    /\ WhileRunning \subseteq {"QUEUE", "COLLECT", "STEER", "STOP_AND_SEND"}
    /\ SendNow \subseteq {"INTERRUPT", "STEER"}
    /\ MaxGen \in Nat

VARIABLES
    \* the log, as the queue folds it
    item,      \* item[i]: state, mode, text, sent_now of the queue item
    ahead,     \* ahead[i]: the waiting items before i in the vector that holds them
    behavior,  \* the task's send behaviour
    intr,      \* intr[k]: the kind asked for and not yet applied, or else
               \* "none" or "applied"
    steered,   \* steered[i]: the texts of the TaskSteered records that name i
    gen,       \* the session's lease generation
    \* the handlers
    todo,      \* todo[h]: what handler h does next
    \* the loop
    pc,        \* where it is; "none" when no loop is registered
    lgen,      \* the generation it runs under
    first,     \* first_boundary
    cut,       \* RoundCut: what the person's interrupt stopped
    round,     \* the round's token has been cancelled
    park,      \* the park token has been cancelled
    woken,     \* the log has grown since the watch of the open stream last looked
    lane,      \* the open stream's sink: nothing to publish, text "pending", or
               \* "broken" by a refused append
    shown,     \* shown[i]: the lines of i in the loop's transcript
    \* what was said, kept for the properties
    wanted,    \* wanted[i]: what the last accepted command made of i
    moved,     \* inputs reordered, sent now, or not (always) a follow-up
    arrived    \* the inputs in the order they were first queued

log == <<item, ahead, behavior, intr, steered>>
loop == <<lgen, first, cut, round, park, shown>>
said == <<wanted, moved, arrived>>
watch == <<woken, lane>>
vars == <<log, gen, todo, pc, loop, watch, said>>

Key == Interrupt \cup Input    \* an input names its own stop-and-send
Alive == pc # "none"

Idle == [op |-> "idle"]
NoItem == [state |-> "none", mode |-> "FOLLOW_UP", text |-> NoText, sent_now |-> FALSE]
Settled(state) == [NoItem EXCEPT !.state = state]

Init ==
    /\ item = [i \in Input |-> NoItem] /\ ahead = [i \in Input |-> {}]
    /\ behavior \in [while_running : WhileRunning, send_now : SendNow]
    /\ intr = [k \in Key |-> "none"]
    /\ steered = [i \in Input |-> <<>>]
    /\ gen = 1
    /\ todo = [h \in Handler |-> Idle]
    /\ pc = "none" /\ lgen = 1 /\ first = TRUE /\ cut = "none"
    /\ round = FALSE /\ park = FALSE /\ woken = FALSE /\ lane = "empty"
    /\ shown = [i \in Input |-> <<>>]
    /\ wanted = [i \in Input |-> "never asked"] /\ moved = {} /\ arrived = <<>>

\* The watch and the sink of a stream that is over are dropped.
stream_over == woken' = FALSE /\ lane' = "empty"

\* What the loop kept in memory is gone.
loop_gone == /\ pc' = "none" /\ lgen' = 1 /\ first' = TRUE /\ cut' = "none"
             /\ round' = FALSE /\ park' = FALSE /\ stream_over
             /\ shown' = [i \in Input |-> <<>>]

-----------------------------------------------------------------------------
(* The fold: what one record does to the queue.                            *)

Queued(i) == item[i].state = "queued"

Waiting == {i \in Input : Queued(i)}

\* Item i is put, or put again, right behind the waiting items of front.
Placed(i, front) ==
    [y \in Input |-> IF y = i THEN front
                    ELSE IF y \in Waiting \ front THEN ahead[y] \cup {i} ELSE ahead[y] \ {i}]

\* The items of S leave the vector.
Without(S) == [y \in Input |-> IF y \in S THEN {} ELSE ahead[y] \ S]

\* Before b, or at the end.
move_before(i, b) == Placed(i, IF b \in Waiting THEN ahead[b] \ {i} ELSE Waiting \ {i})

\* A sent-now input goes before the first waiting one that is not.
promote(i) ==
    Placed(i, {x \in Waiting \ {i} : \A z \in (ahead[x] \cup {x}) \ {i} : item[z].sent_now})

\* Mutant: a new input goes to the front of the vector.
fold_queued_front(i, m) ==
    /\ item[i].state = "none"
    /\ item' = [item EXCEPT ![i] = [state |-> "queued", mode |-> m, text |-> Typed[i],
                                     sent_now |-> FALSE]]
    /\ ahead' = Placed(i, {})
    /\ wanted' = [wanted EXCEPT ![i] = Typed[i]]
    /\ arrived' = Append(arrived, i)
    /\ moved' = IF m = "FOLLOW_UP" THEN moved ELSE moved \cup {i}

\* TaskInputQueued: a retry that names an input already held is the same input.
fold_queued(i, m) ==
    IF item[i].state # "none"
    THEN UNCHANGED <<item, ahead, said>>
    ELSE /\ item' = [item EXCEPT ![i] = [state |-> "queued", mode |-> m, text |-> Typed[i],
                                          sent_now |-> FALSE]]
         /\ ahead' = Placed(i, Waiting)
         /\ wanted' = [wanted EXCEPT ![i] = Typed[i]]
         /\ arrived' = Append(arrived, i)
         /\ moved' = IF m = "FOLLOW_UP" THEN moved ELSE moved \cup {i}

\* TaskInterruptRequested: once per interrupt id; a sent-now input is promoted.
fold_interrupt(k, kind, i) ==
    /\ intr' = [intr EXCEPT ![k] = kind]
    /\ IF kind = "SEND_NOW" /\ Queued(i)
       THEN /\ ahead' = promote(i)
            /\ item' = [item EXCEPT ![i].sent_now = TRUE]
            /\ moved' = moved \cup {i}
       ELSE UNCHANGED <<ahead, item, moved>>

-----------------------------------------------------------------------------
(* The commands.  Each one that appends wakes whoever watches the log.     *)

next(h, step) == todo' = [todo EXCEPT ![h] = step]
wake == woken' = (pc = "stream") /\ UNCHANGED lane

\* QueueInput with a mode of its own, and the producers that queue content.
QueueInput(h, i, m) ==
    /\ todo[h] = Idle
    /\ fold_queued(i, m)
    /\ wake
    /\ UNCHANGED <<behavior, intr, steered, gen, todo, pc, loop>>

\* resolve_default: the setting is read before the append, under another hold.
default_of(w) == CASE w = "COLLECT" -> "COLLECT" [] w = "STEER" -> "STEER"
                   [] OTHER -> "FOLLOW_UP"

resolve_default(h, i) ==
    /\ todo[h] = Idle
    /\ next(h, [op |-> "queue", input |-> i,
                mode |-> default_of(behavior.while_running),
                stop |-> behavior.while_running = "STOP_AND_SEND"])
    /\ UNCHANGED <<log, gen, pc, loop, watch, said>>

QueueDefault(h) ==
    /\ todo[h].op = "queue"
    /\ fold_queued(todo[h].input, todo[h].mode)
    /\ wake
    /\ next(h, IF todo[h].stop THEN [op |-> "running?", input |-> todo[h].input] ELSE Idle)
    /\ UNCHANGED <<behavior, intr, steered, gen, pc, loop>>

\* The stop-and-send of an input just queued, if a loop is alive.
StopAndSend(h) ==
    /\ todo[h].op = "running?"
    /\ next(h, IF Alive THEN [todo[h] EXCEPT !.op = "request"] ELSE Idle)
    /\ UNCHANGED <<log, gen, pc, loop, watch, said>>

request_send_now(h) ==
    LET i == todo[h].input
    IN /\ todo[h].op = "request"
       /\ IF intr[i] # "none"
          THEN /\ next(h, Idle)
               /\ UNCHANGED <<item, ahead, intr, moved, watch>>
          ELSE /\ fold_interrupt(i, "SEND_NOW", i)
               /\ next(h, [op |-> "interrupt"])
               /\ wake
       /\ UNCHANGED <<behavior, steered, gen, pc, loop, wanted, arrived>>

\* Mutant: a settled input is taken for one that can be changed.
queued_item_known(i) == item[i].state # "none"

\* queued_item: only a queued input can be changed.
queued_item(i) == Queued(i)

edit_input(h, i, m, t) ==
    /\ todo[h] = Idle
    /\ queued_item(i) /\ i \notin Untrusted
    /\ IF Queued(i)
       THEN item' = [item EXCEPT ![i].mode = m, ![i].text = t]
       ELSE UNCHANGED item
    /\ wanted' = [wanted EXCEPT ![i] = t]
    /\ moved' = IF m = "FOLLOW_UP" THEN moved ELSE moved \cup {i}
    /\ wake
    /\ UNCHANGED <<ahead, behavior, intr, steered, gen, todo, pc, loop, arrived>>

remove_input(h, i) ==
    /\ todo[h] = Idle
    /\ queued_item(i)
    /\ IF Queued(i)
       THEN item' = [item EXCEPT ![i] = Settled("removed")] /\ ahead' = Without({i})
       ELSE UNCHANGED <<item, ahead>>
    /\ wanted' = [wanted EXCEPT ![i] = "withdrawn"]
    /\ wake
    /\ UNCHANGED <<behavior, intr, steered, gen, todo, pc, loop, moved, arrived>>

reorder_input(h, i, b) ==
    /\ todo[h] = Idle
    /\ queued_item(i) /\ b # i
    /\ b # NoText => queued_item(b)
    /\ ahead' = move_before(i, b)
    /\ moved' = moved \cup {i}
    /\ wake
    /\ UNCHANGED <<item, behavior, intr, steered, gen, todo, pc, loop, wanted, arrived>>

\* Mutant: the request is recorded and the loop is not told.
send_now_untold(h, k, i) ==
    /\ todo[h] = Idle
    /\ intr[k] = "none" /\ queued_item(i)
    /\ fold_interrupt(k, "SEND_NOW", i)
    /\ wake
    /\ UNCHANGED <<behavior, steered, gen, todo, pc, loop, wanted, arrived>>

\* Send now: the task's setting says whether it interrupts or steers.
send_now(h, k, i) ==
    /\ todo[h] = Idle
    /\ intr[k] = "none"
    /\ queued_item(i)
    /\ IF behavior.send_now = "STEER"
       THEN /\ item' = [item EXCEPT ![i].mode = "STEER"]
            /\ moved' = moved \cup {i}
            /\ UNCHANGED <<ahead, intr, todo>>
       ELSE /\ fold_interrupt(k, "SEND_NOW", i)
            /\ next(h, [op |-> "interrupt"])
    /\ wake
    /\ UNCHANGED <<behavior, steered, gen, pc, loop, wanted, arrived>>

\* Stop: refused unless a loop is alive; the request, then the park, then the
\* interrupt, each after the other's lock is dropped.
stop_task(h, k) ==
    /\ todo[h] = Idle
    /\ Alive
    /\ next(h, [op |-> "stop", key |-> k])
    /\ UNCHANGED <<log, gen, pc, loop, watch, said>>

StopRecorded(h) ==
    LET k == todo[h].key
    IN /\ todo[h].op = "stop"
       /\ IF intr[k] # "none"
          THEN next(h, Idle) /\ UNCHANGED <<intr, watch>>
          ELSE /\ intr' = [intr EXCEPT ![k] = "STOP"]
               /\ next(h, [op |-> "park"])
               /\ wake
       /\ UNCHANGED <<item, ahead, behavior, steered, gen, pc, loop, said>>

\* Mutant: the park is raised and the round goes on.
pause_only(h) ==
    /\ todo[h].op = "park"
    /\ park' = (park \/ Alive)
    /\ next(h, Idle)
    /\ UNCHANGED <<log, gen, pc, lgen, first, cut, round, shown, watch, said>>

pause(h) ==
    /\ todo[h].op = "park"
    /\ park' = (park \/ Alive)
    /\ next(h, IF Alive THEN [op |-> "interrupt"] ELSE Idle)
    /\ UNCHANGED <<log, gen, pc, lgen, first, cut, round, shown, watch, said>>

\* Runtime::interrupt: cancel the round the loop has installed.
interrupt(h) ==
    /\ todo[h].op = "interrupt"
    /\ round' = (round \/ Alive)
    /\ next(h, Idle)
    /\ UNCHANGED <<log, gen, pc, lgen, first, cut, park, shown, watch, said>>

set_send_behavior(h, w, s) ==
    /\ todo[h] = Idle
    /\ behavior' = [while_running |-> w, send_now |-> s]
    /\ wake
    /\ UNCHANGED <<item, ahead, intr, steered, gen, todo, pc, loop, said>>

-----------------------------------------------------------------------------
(* The loop.                                                               *)

\* Mutant: the loop runs under the generation after the session's.
Start_next ==
    /\ pc = "none"
    /\ pc' = "boundary" /\ lgen' = gen + 1 /\ shown' = steered
    /\ UNCHANGED <<log, gen, todo, first, cut, round, park, watch, said>>

\* StartTask: the transcript is rebuilt from the log.
Start ==
    /\ pc = "none"
    /\ pc' = "boundary" /\ lgen' = gen /\ shown' = steered
    /\ UNCHANGED <<log, gen, todo, first, cut, round, park, watch, said>>

Fenced == lgen # gen

Unapplied == {k \in Key : intr[k] \in {"STOP", "SEND_NOW"}}

\* record_interrupts: what the interrupts stopped, and whether the run holds.
record_interrupts ==
    LET held == ~first /\ cut = "unknown"
    IN /\ pc = "boundary"
       /\ IF Unapplied = {} \/ Fenced
          THEN UNCHANGED intr
          ELSE intr' = [k \in Key |-> IF k \in Unapplied THEN "applied" ELSE intr[k]]
       /\ pc' = IF Unapplied # {} /\ held THEN "ending" ELSE "round"
       /\ first' = FALSE /\ cut' = "none"
       /\ UNCHANGED <<item, ahead, behavior, steered, gen, todo, lgen, round, park, shown, watch, said>>

\* A fresh token where an interrupt will find it, then the park is read.
new_round ==
    /\ pc = "round"
    /\ round' = FALSE
    /\ pc' = IF park THEN "ending" ELSE "dispatch"
    /\ UNCHANGED <<log, gen, todo, lgen, first, cut, park, shown, watch, said>>

\* What the boundary takes: everything sent now; every steer and collect; and
\* one follow-up, unless something sent now starts this turn.
FollowUps == {i \in Waiting : ~item[i].sent_now /\ item[i].mode = "FOLLOW_UP"}
SentNow == {i \in Waiting : item[i].sent_now}
Taken ==
    {i \in Waiting : \/ i \notin FollowUps
                     \/ SentNow = {} /\ ahead[i] \cap FollowUps = {}}

\* The queue is read and the dispatch recorded under one hold of the store.  A
\* refused append is not looked at: the lines are in the transcript all the same.
dispatch ==
    /\ pc = "dispatch"
    /\ pc' = "admit"
    /\ shown' = [i \in Input |-> IF i \in Taken THEN Append(shown[i], item[i].text) ELSE shown[i]]
    /\ IF Fenced \/ Taken = {}
       THEN UNCHANGED <<item, ahead, steered>>
       ELSE /\ item' = [i \in Input |-> IF i \in Taken
                                        THEN Settled("dispatched") ELSE item[i]]
            /\ steered' = [i \in Input |-> IF i \in Taken
                                           THEN Append(steered[i], item[i].text) ELSE steered[i]]
            /\ ahead' = Without(Taken)
    /\ UNCHANGED <<behavior, intr, gen, todo, lgen, first, cut, round, park,
                   watch, said>>

\* Mutant: the turn starts without another look at the lease.
lease_unread ==
    /\ pc = "admit"
    /\ pc' = "stream"
    /\ UNCHANGED <<log, gen, todo, loop, watch, said>>

\* The lease is read once more before the turn starts; the watch is fresh.
lease_lost ==
    /\ pc = "admit"
    /\ pc' = IF Fenced THEN "ending" ELSE "stream"
    /\ UNCHANGED <<log, gen, todo, loop, watch, said>>

\* The stream brings text, which the sink keeps; a broken lane keeps none.
Delta == /\ pc = "stream" /\ lane = "empty"
         /\ lane' = "pending"
         /\ UNCHANGED <<log, gen, todo, pc, loop, woken, said>>

\* The delta is due: the sink appends it under the loop's lease, and the log
\* grows; a refused append breaks the lane.
flush == /\ pc = "stream" /\ lane = "pending"
         /\ IF Fenced THEN lane' = "broken" /\ UNCHANGED woken
                      ELSE lane' = "empty" /\ woken' = TRUE
         /\ UNCHANGED <<log, gen, todo, pc, loop, said>>

\* The response is whole: it asks for a call, or the turn is over.
StreamEnds == /\ pc = "stream"
              /\ pc' \in {"call", "boundary"}
              /\ stream_over
              /\ UNCHANGED <<log, gen, todo, loop, said>>

\* The person's interrupt cuts the stream.
StreamCut == /\ pc = "stream" /\ round
             /\ pc' = "boundary" /\ cut' = "stream" /\ stream_over
             /\ UNCHANGED <<log, gen, todo, lgen, first, round, park, shown, said>>

\* Mutant: only a steer that was sent now replaces the response.
SteerWaits_sent == \E i \in Input : Queued(i) /\ item[i].mode = "STEER" /\ item[i].sent_now

\* The watch fires: a steer that waits replaces the response.
SteerWaits == \E i \in Input : Queued(i) /\ item[i].mode = "STEER" /\ ~item[i].sent_now
WatchFires == /\ pc = "stream" /\ woken
              /\ woken' = FALSE
              /\ IF SteerWaits THEN pc' = "boundary" /\ lane' = "empty"
                               ELSE UNCHANGED <<pc, lane>>
              /\ UNCHANGED <<log, gen, todo, loop, said>>

\* A call does not start in a round the person interrupted, or once fenced.
StartCall ==
    /\ pc = "call"
    /\ pc' = IF Fenced THEN "ending" ELSE IF round THEN "boundary" ELSE "tool"
    /\ UNCHANGED <<log, gen, todo, loop, watch, said>>

\* The call ends.  If the round was cut by then, how it ended is noted.
CallEnds(how) ==
    /\ pc = "tool"
    /\ how = "cancelled" => round
    /\ pc' = "boundary"
    /\ cut' = IF round /\ how # "done" THEN how ELSE cut
    /\ UNCHANGED <<log, gen, todo, lgen, first, round, park, shown, watch, said>>

\* Everything else that ends a loop: completion, a cancel, a budget, a hook,
\* a provider.
Break == /\ pc \in {"dispatch", "admit", "stream", "call", "tool"}
         /\ pc' = "ending" /\ stream_over
         /\ UNCHANGED <<log, gen, todo, loop, said>>

\* The loop leaves the table of live loops.
Leave == /\ pc = "ending"
         /\ loop_gone
         /\ UNCHANGED <<log, gen, todo, said>>

\* Another client acquires the session's lease.
Takeover == /\ gen < MaxGen
            /\ gen' = gen + 1
            /\ UNCHANGED <<log, todo, pc, loop, watch, said>>

\* The Core is killed: handlers and loop are gone, the log is not.
Crash == /\ loop_gone
         /\ todo' = [h \in Handler |-> Idle]
         /\ UNCHANGED <<log, gen, said>>

-----------------------------------------------------------------------------

Finishes(h) == \/ QueueDefault(h) \/ StopAndSend(h) \/ request_send_now(h)
               \/ StopRecorded(h) \/ pause(h) \/ interrupt(h)

Command(h) ==
    \/ \E i \in Input : \/ \E m \in Mode : \/ QueueInput(h, i, m)
                                           \/ \E t \in Text : edit_input(h, i, m, t)
                        \/ resolve_default(h, i)
                        \/ remove_input(h, i)
                        \/ \E b \in Input \cup {NoText} : reorder_input(h, i, b)
                        \/ \E k \in Interrupt : send_now(h, k, i)
    \/ \E k \in Interrupt : stop_task(h, k)
    \/ \E w \in WhileRunning, s \in SendNow : set_send_behavior(h, w, s)

LoopStep == \/ record_interrupts \/ new_round \/ dispatch \/ lease_lost
            \/ flush \/ StreamCut \/ WatchFires \/ StartCall \/ Leave

Next == \/ \E h \in Handler : Finishes(h) \/ Command(h)
        \/ Start \/ LoopStep \/ Delta \/ StreamEnds \/ Break \/ Takeover \/ Crash
        \/ \E how \in {"done", "cancelled", "unknown"} : CallEnds(how)

\* A handler that has begun finishes; the loop runs, and the timer of its sink; a
\* response either goes on bringing text to publish or ends (the gateway's
\* deadline; the stream bound, which counts what a broken lane drops too); a
\* call ends (its timeout).  A cut round is noticed however long the response
\* goes on.
Fairness == /\ \A h \in Handler : WF_vars(Finishes(h))
            /\ WF_vars(record_interrupts) /\ WF_vars(new_round) /\ WF_vars(dispatch)
            /\ WF_vars(lease_lost) /\ WF_vars(StartCall) /\ WF_vars(Leave)
            /\ WF_vars(StreamCut) /\ WF_vars(WatchFires) /\ WF_vars(flush)
            /\ WF_vars(Delta \/ StreamEnds)
            /\ WF_vars(\E how \in {"done", "cancelled", "unknown"} : CallEnds(how))

Spec == Init /\ [][Next]_vars /\ Fairness

-----------------------------------------------------------------------------
(* Properties.                                                             *)

\* The queue, the handlers and the loop have their types.
Step == {Idle} \cup [op : {"park", "interrupt"}] \cup [op : {"stop"}, key : Interrupt]
        \cup [op : {"running?", "request"}, input : Input]
        \cup [op : {"queue"}, input : Input, mode : {"STEER", "COLLECT", "FOLLOW_UP"},
              stop : BOOLEAN]
QTypeOK ==
    /\ item \in [Input -> [state : {"none", "queued", "dispatched", "removed"},
                           mode : {"STEER", "COLLECT", "FOLLOW_UP"},
                           text : Text \cup {NoText}, sent_now : BOOLEAN]]
    /\ ahead \in [Input -> SUBSET Input] /\ arrived \in Seq(Input) /\ moved \subseteq Input
    /\ behavior \in [while_running : WhileRunning, send_now : SendNow]
    /\ intr \in [Key -> {"none", "STOP", "SEND_NOW", "applied"}]
    /\ steered \in [Input -> Seq(Text)] /\ shown \in [Input -> Seq(Text)]
    /\ gen \in 1..(MaxGen + 1) /\ lgen \in 1..gen
    /\ todo \in [Handler -> Step]
    /\ pc \in {"none", "boundary", "round", "dispatch", "admit", "stream", "call", "tool", "ending"}
    /\ cut \in {"none", "stream", "cancelled", "unknown"}
    /\ {first, round, park, woken} \subseteq BOOLEAN /\ lane \in {"empty", "pending", "broken"}
    /\ wanted \in [Input -> Text \cup {"never asked", "withdrawn"}]

\* The queue keeps the promise of InputPromise, with what the commands were
\* acknowledged with as what the person wants and the TaskSteered records as
\* what the model was given: across handlers, takeovers and kills no input is
\* given twice, withdrawn and given, or given as it no longer reads.
Given(i) == IF steered[i] = <<>> THEN NoText
            ELSE IF Len(steered[i]) = 1 THEN steered[i][1] ELSE "twice"
Promise == INSTANCE InputPromise WITH given <- [i \in Input |-> Given(i)]
PromiseKept == Promise!Spec

\* While a turn runs, its transcript holds the inputs the log says were given
\* and no others: a loop that lost its lease between the boundary and the
\* dispatch sends the model nothing (the refused append is not looked at).
ModelSeesTheLog == pc \in {"stream", "call", "tool"} => shown = steered

\* Follow-ups nobody moved are given in the order they were queued, whatever is
\* promoted, reordered, edited or removed around them and however often the
\* Core is killed.
UntouchedInOrder ==
    \A a, b \in DOMAIN arrived :
        LET i == arrived[a]
            j == arrived[b]
        IN (/\ a < b /\ i \notin moved /\ j \notin moved
            /\ steered[j] # <<>>) => ~Queued(i)

Over == pc \in {"none", "ending"}

\* "Send now is a typed interrupt-and-replace" (docs/65 AFW-E06): an input sent
\* now reaches the model though the response would never end by itself, unless
\* it is removed or the loop ends.
SendNowLands ==
    \A i \in Input : (Queued(i) /\ item[i].sent_now /\ ~Over) ~> (~Queued(i) \/ Over)

\* An accepted stop ends the loop it found, though the response would never end.
StopLands == \A h \in Handler : (todo[h].op = "park" /\ ~Over) ~> Over

\* A steer replaces the response it finds, wherever between two looks at the
\* queue it was appended.
Steering(i) == Queued(i) /\ item[i].mode = "STEER" /\ ~item[i].sent_now
SteerLands == \A i \in Input : (Steering(i) /\ ~Over) ~> (~Steering(i) \/ Over)
===============================================================================
