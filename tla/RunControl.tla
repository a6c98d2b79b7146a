------------------------------ MODULE RunControl ------------------------------
(***************************************************************************)
(* Runs under capacity: StartTask, PauseTask, ResumeTask, CancelTask and   *)
(* the agent loop they control (services/modbit-core runtime.rs, pause.rs, *)
(* server.rs), the capacity tickets a run takes, renews, keeps through a   *)
(* pause and gives back (modbit-core capacity.rs over core-runtime         *)
(* capacity.rs), the reaper of a pause's hold, takeover of the session     *)
(* lease, and a Core restart.                                              *)
(*                                                                         *)
(* The granularity is the code's: what happens under one hold of the store *)
(* lock, of Runtime::tasks or of the capacity mutexes is one step; every   *)
(* await between them is a point where other steps come in.                *)
(*                                                                         *)
(* Time is kept as what is left of a ticket, of a sleep and of a pause, so *)
(* that there are finitely many states; a ticket id is given out again     *)
(* only when nothing refers to it any more, which no definition can tell   *)
(* from the ever new "t-N" of the code.  A turn of the loop is one step,   *)
(* whatever it calls or streams, unless it waits for a person's approval.  *)
(***************************************************************************)
EXTENDS Integers, Sequences, FiniteSets

CONSTANTS Task, Ticket, Reaper,
          Dim,         \* dimensions of the resource vector
          Limits,      \* the pool: a vector
          Needs,       \* ResourceVector::one_run
          Ttl,         \* life of a ticket that is not renewed, in ticks
          RenewEvery,  \* how often a reaper renews
          IdleBound,   \* how long a pause keeps its ticket
          Asks,        \* whether the policy wants some tool call approved
          Disallows,   \* whether the model policy may exclude the run's model
          MaxGen,      \* bound: lease generations
          MaxCrash,    \* bound: restarts
          MaxRuns,     \* bound: runs of one task
          MaxStarts    \* bound: StartTask handlers in flight

ASSUME RunAssumption ==
    /\ Limits \in [Dim -> Nat] /\ Needs \in [Dim -> Nat]
    /\ Ttl \in Nat \ {0} /\ RenewEvery \in Nat \ {0} /\ IdleBound \in Nat \ {0}
    /\ Asks \in BOOLEAN /\ Disallows \in BOOLEAN
    /\ MaxGen \in Nat /\ MaxCrash \in Nat /\ MaxRuns \in Nat /\ MaxStarts \in Nat
    /\ 0 \notin Ticket /\ IsFiniteSet(Ticket) /\ IsFiniteSet(Reaper) /\ IsFiniteSet(Task)

VARIABLES
    task,       \* task[t]: the task's durable state
    runs,       \* runs[t]: its runs, oldest first: [state, gen]
    lease,      \* the session's lease generation
    loop,       \* Runtime::tasks and the loop it names
    pool,       \* CapacityPool::tickets
    hold,       \* Capacity::holds
    reaper,     \* the spawned hold reapers
    starting,   \* StartTask handlers between their reads and Runtime::start
    cancelling, \* CancelTask handlers that found no loop
    crashes

durable == <<task, runs, lease>>
memory == <<loop, pool, hold, reaper, starting, cancelling>>
vars == <<task, runs, lease, loop, pool, hold, reaper, starting, cancelling, crashes>>

-----------------------------------------------------------------------------
(* State.                                                                  *)

NoTicket == [left |-> -1, gen |-> -1]
NoHold == [ticket |-> 0, gen |-> 0, age |-> 0]
NoLoop == [pc |-> "none", gen |-> 0, ticket |-> 0, end |-> "none", cancel |-> FALSE, park |-> FALSE,
           run |-> 0]
NoReaper == [pc |-> "off"]

TaskState == {"Queued", "Running", "Waiting", "Paused", "ReadyForReview", "Cancelled"}
Waits == {"Waiting", "Paused"}     \* Waiting(reason); Paused is Waiting(Paused)
RunState == {"Running", "Suspended", "Completed", "Failed", "Cancelled"}
\* Suspended stands for every end that waits (attention, input, budget, progress,
\* provider, capacity), Failed for the one that is over: MODEL_NOT_ALLOWED.
LoopEnd == {"Fenced", "ReadyForReview", "Cancelled", "Suspended", "Failed", "Parked"}

LoopState == [pc : {"none", "top", "turn", "waiting", "ending", "checked", "ended"}, gen : Nat,
              ticket : Ticket \cup {0}, end : LoopEnd \cup {"none"}, cancel : BOOLEAN,
              park : BOOLEAN, run : Nat]

StartRequest == [task : Task, seen : TaskState, gen : Nat]

can_transition(from, to) ==
    \/ from \in {"Queued", "ReadyForReview"} \cup Waits /\ to = "Running"
    \/ from = "Running" /\ to \in Waits \cup {"ReadyForReview"}
    \/ from # "Cancelled" /\ to = "Cancelled"

Live(t) == loop[t].pc # "none"
Top(t) == Len(runs[t])

-----------------------------------------------------------------------------
(* CapacityPool.                                                           *)

live(p) == {k \in Ticket : p[k] # NoTicket}

expire(p) == [k \in Ticket |-> IF p[k].left = 0 THEN NoTicket ELSE p[k]]

held(p) == [d \in Dim |-> Needs[d] * Cardinality(live(p))]

\* Mutant of fits: asks whether the pool is within its limits already.
fits_before(p) == \A d \in Dim : held(p)[d] <= Limits[d]

fits(p) == \A d \in Dim : Needs[d] <= Limits[d] - held(p)[d]

release(p, k) == [p EXCEPT ![k] = NoTicket]

renew_ok(p, k, g) == p[k] # NoTicket /\ g >= p[k].gen

renew(p, k) == [p EXCEPT ![k].left = Ttl]

\* A ticket id nothing refers to.
Referred == live(pool) \cup {hold[t].ticket : t \in Task}
            \cup {loop[t].ticket : t \in Task}
            \cup {reaper[r].ticket : r \in {q \in Reaper : reaper[q].pc # "off"}}

NextTicket == CHOOSE k \in Ticket : k \notin Referred

CanIssue == Ticket \ Referred # {}

\* Capacity::acquire: lapse what expired, then allocate or refuse.
acquired(p, k, g) == [expire(p) EXCEPT ![k] = [left |-> Ttl, gen |-> g]]

\* Capacity::view lapses what expired before it answers.
GetCapacity ==
    /\ pool' = expire(pool)
    /\ UNCHANGED <<durable, loop, hold, reaper, starting, cancelling, crashes>>

-----------------------------------------------------------------------------
(* Session lease.                                                          *)

AcquireSessionLease ==
    /\ lease < MaxGen
    /\ lease' = lease + 1
    /\ UNCHANGED <<task, runs, memory, crashes>>

-----------------------------------------------------------------------------
(* StartTask and ResumeTask.                                               *)

\* The handler reads the task and checks the presented generation; much is
\* awaited before Runtime::start uses what it read.
StartTask(t) ==
    /\ Cardinality(starting) < MaxStarts
    /\ task[t] \in {"Queued"} \cup Waits
    /\ starting' = starting \cup {[task |-> t, seen |-> task[t], gen |-> lease]}
    /\ UNCHANGED <<durable, loop, pool, hold, reaper, cancelling, crashes>>

\* ResumeTask is refused (NOT_PAUSED) unless the task is paused and has no loop;
\* "the re-entry is the ordinary one".
ResumeTask(t) == task[t] = "Paused" /\ ~Live(t) /\ StartTask(t)

newest_suspended(t, i) ==
    /\ runs[t][i].state = "Suspended"
    /\ \A j \in i + 1 .. Top(t) : runs[t][j].state # "Suspended"

\* The suspended run a resume continues: the newest one, 0 for none.
suspended(t) ==
    IF \E i \in 1 .. Top(t) : newest_suspended(t, i)
    THEN CHOOSE i \in 1 .. Top(t) : newest_suspended(t, i) ELSE 0

\* The run of a start that read state `seen`: a queued task gets a new run.
continued(q) == IF q.seen = "Queued" THEN 0 ELSE suspended(q.task)

\* The ticket a start uses: the pause's own while it can be renewed.
reuses(q) ==
    /\ q.seen \in Waits /\ hold[q.task] # NoHold
    /\ renew_ok(expire(pool), hold[q.task].ticket, q.gen)

\* The pool after reuse_hold gave nothing: swept, and rid of a ticket that
\* could not be renewed.
refused_hold(q) ==
    IF q.seen \in Waits /\ hold[q.task] # NoHold
    THEN release(expire(pool), hold[q.task].ticket) ELSE expire(pool)

\* TaskStarted or TaskResumed is legal on the task as it is now.
start_legal(q) ==
    IF q.seen = "Queued" THEN can_transition(task[q.task], "Running")
                         ELSE task[q.task] \in Waits

started_runs(q) ==
    LET t == q.task  i == continued(q)
        r == [state |-> "Running", gen |-> q.gen]
    IN IF i = 0 THEN [runs EXCEPT ![t] = Append(@, r)] ELSE [runs EXCEPT ![t][i] = r]

\* Mutant of running: a fresh attempt is not numbered.
running_unnumbered(q, k) ==
    [pc |-> "top", gen |-> q.gen, ticket |-> k, end |-> "none", cancel |-> FALSE, park |-> FALSE,
     run |-> continued(q)]

running(q, k) ==
    [pc |-> "top", gen |-> q.gen, ticket |-> k, end |-> "none", cancel |-> FALSE, park |-> FALSE,
     run |-> IF continued(q) = 0 THEN Top(q.task) + 1 ELSE continued(q)]

\* The appends and the loop, once there is a ticket k.  A refused append
\* returns STORE and leaves the ticket to its expiry.
launch(q, k) ==
    IF start_legal(q)
    THEN /\ task' = [task EXCEPT ![q.task] = "Running"]
         /\ runs' = started_runs(q)
         /\ loop' = [loop EXCEPT ![q.task] = running(q, k)]
    ELSE UNCHANGED <<task, runs, loop>>

\* Runtime::start, under Runtime::tasks and the store lock.
start(q) ==
    LET t == q.task
        stale == continued(q) # 0 /\ q.gen < runs[t][continued(q)].gen
    IN /\ q \in starting
       /\ starting' = starting \ {q}
       /\ \/ /\ Live(t) \/ stale                \* TASK_ALREADY_RUNNING, STALE_LEASE
             /\ UNCHANGED <<task, runs, loop, pool, hold>>
          \/ /\ ~Live(t) /\ ~stale /\ (continued(q) = 0 => Top(t) < MaxRuns)
             /\ hold' = IF q.seen \in Waits THEN [hold EXCEPT ![t] = NoHold] ELSE hold
             /\ \/ /\ reuses(q)
                   /\ pool' = renew(expire(pool), hold[t].ticket)
                   /\ launch(q, hold[t].ticket)
                \/ /\ ~reuses(q) /\ fits(refused_hold(q)) /\ CanIssue
                   /\ pool' = acquired(refused_hold(q), NextTicket, q.gen)
                   /\ launch(q, NextTicket)
                \/ /\ ~reuses(q) /\ ~fits(refused_hold(q))   \* CAPACITY_EXHAUSTED
                   /\ pool' = refused_hold(q)
                   /\ UNCHANGED <<task, runs, loop>>
          \/ /\ ~Live(t) /\ ~stale /\ continued(q) = 0 /\ Top(t) >= MaxRuns   \* bound
             /\ UNCHANGED <<task, runs, loop, pool, hold>>
       /\ UNCHANGED <<lease, reaper, cancelling, crashes>>

-----------------------------------------------------------------------------
(* The loop.                                                               *)

ends(t, how) == loop' = [loop EXCEPT ![t] = [@ EXCEPT !.pc = "ending", !.end = how]]

lease_lost(t) == loop[t].gen # lease

\* Mutant of parks: only the end of a turn looks at the park.
parks_late(l) == l.park /\ l.pc = "turn"

parks(l) == l.park

\* The top of a turn: cancel, then park, then the ticket, then the lease.  Before
\* them an interrupt whose effects are unknown, and after the cancel a hook or
\* the environment, may end the run for attention.
boundary(t) ==
    LET l == loop[t]
    IN /\ l.pc = "top"
       /\ \/ ends(t, "Suspended") /\ UNCHANGED pool          \* NeedsAttention
          \/ l.cancel /\ ends(t, "Cancelled") /\ UNCHANGED pool
          \/ ~l.cancel /\ parks(l) /\ ends(t, "Parked") /\ UNCHANGED pool
          \/ /\ Disallows /\ ~l.cancel /\ ~parks(l)          \* MODEL_NOT_ALLOWED
             /\ ends(t, "Failed") /\ UNCHANGED pool
          \/ /\ ~l.cancel /\ ~parks(l) /\ renew_ok(pool, l.ticket, l.gen)
             /\ pool' = renew(pool, l.ticket)
             /\ IF lease_lost(t) THEN ends(t, "Fenced") ELSE loop' = [loop EXCEPT ![t].pc = "turn"]
          \/ /\ ~l.cancel /\ ~parks(l) /\ ~renew_ok(pool, l.ticket, l.gen)
             /\ IF fits(expire(pool))
                THEN /\ CanIssue
                     /\ pool' = acquired(pool, NextTicket, l.gen)
                     /\ loop' = [loop EXCEPT ![t] =
                           IF lease_lost(t)
                           THEN [@ EXCEPT !.pc = "ending", !.end = "Fenced", !.ticket = NextTicket]
                           ELSE [@ EXCEPT !.pc = "turn", !.ticket = NextTicket]]
                ELSE pool' = expire(pool) /\ ends(t, "Suspended")     \* CapacityLost
       /\ UNCHANGED <<durable, hold, reaper, starting, cancelling, crashes>>

\* One turn: it goes round, proposes completion, needs attention or runs out of
\* a budget, sees the cancel, or meets a refused append.
turn(t) ==
    /\ loop[t].pc = "turn"
    /\ \/ loop' = [loop EXCEPT ![t].pc = "top"]
       \/ ends(t, "ReadyForReview")
       \/ ends(t, "Suspended")
       \/ loop[t].cancel /\ ends(t, "Cancelled")
       \/ lease_lost(t) /\ ends(t, "Fenced")
    /\ UNCHANGED <<durable, pool, hold, reaper, starting, cancelling, crashes>>

\* execute_tool_call meets a call that needs approval: TaskWaiting(Approval) is
\* appended under the run's generation, and a refusal of it is ignored.
await_approval(t) ==
    /\ Asks /\ loop[t].pc = "turn"
    /\ loop' = [loop EXCEPT ![t].pc = "waiting"]
    /\ task' = IF ~lease_lost(t) /\ can_transition(task[t], "Waiting")
               THEN [task EXCEPT ![t] = "Waiting"] ELSE task
    /\ UNCHANGED <<runs, lease, pool, hold, reaper, starting, cancelling, crashes>>

\* The approval was answered or expired: TaskResumed, its refusal ignored too.
approval_resolved(t) ==
    /\ loop[t].pc = "waiting" /\ ~loop[t].cancel
    /\ loop' = [loop EXCEPT ![t].pc = "turn"]
    /\ task' = IF ~lease_lost(t) /\ task[t] \in Waits THEN [task EXCEPT ![t] = "Running"] ELSE task
    /\ UNCHANGED <<runs, lease, pool, hold, reaper, starting, cancelling, crashes>>

\* A cancelled wait returns CANCELLED and appends nothing.
cancelled_wait(t) ==
    /\ loop[t].pc = "waiting" /\ loop[t].cancel
    /\ ends(t, "Cancelled")
    /\ UNCHANGED <<durable, pool, hold, reaper, starting, cancelling, crashes>>

fenced_end(t) == IF lease_lost(t) THEN "Fenced" ELSE loop[t].end

\* "a lease lost at the very end turns the outcome into a fence".
check_lease(t) ==
    /\ loop[t].pc = "ending"
    /\ loop' = [loop EXCEPT ![t] = [@ EXCEPT !.pc = "checked", !.end = fenced_end(t)]]
    /\ UNCHANGED <<durable, pool, hold, reaper, starting, cancelling, crashes>>

OutcomeTask(end) == CASE end = "ReadyForReview" -> "ReadyForReview"
                      [] end = "Cancelled"      -> "Cancelled"
                      [] end = "Parked"         -> "Paused"
                      [] OTHER                  -> "Waiting"

OutcomeRun(end) == CASE end = "ReadyForReview" -> "Completed"
                     [] end = "Cancelled"      -> "Cancelled"
                     [] end = "Failed"         -> "Failed"
                     [] OTHER                  -> "Suspended"

\* append_batch: the run's end and the task's transition, in one transaction
\* fenced by the run's generation (a Fenced end is audit, unfenced).
outcome_lands(t) ==
    /\ loop[t].end = "Fenced" \/ ~lease_lost(t)
    /\ can_transition(task[t], OutcomeTask(loop[t].end))
    /\ runs[t][loop[t].run].state = "Running"

free_reaper == CHOOSE r \in Reaper : reaper[r].pc = "off"

\* All that is left of a loop that only has to be forgotten.
over(l) == [NoLoop EXCEPT !.pc = "ended", !.cancel = l.cancel]

\* The end of run_loop, under the store lock: a refused outcome is dropped;
\* then a paused run keeps its ticket and spawns a reaper, any other returns it.
persist(t) ==
    /\ loop[t].pc = "checked"
    /\ loop' = [loop EXCEPT ![t] = over(@)]
    /\ IF outcome_lands(t)
       THEN /\ task' = [task EXCEPT ![t] = OutcomeTask(loop[t].end)]
            /\ runs' = [runs EXCEPT ![t][loop[t].run] = [@ EXCEPT !.state = OutcomeRun(loop[t].end)]]
       ELSE UNCHANGED <<task, runs>>
    /\ IF loop[t].end = "Parked"
       THEN /\ hold' = [hold EXCEPT ![t] = [ticket |-> loop[t].ticket, gen |-> loop[t].gen, age |-> 0]]
            /\ reaper' = [reaper EXCEPT ![free_reaper] =
                             [pc |-> "check", task |-> t, ticket |-> loop[t].ticket,
                              gen |-> loop[t].gen, sleep |-> 0]]
            /\ UNCHANGED pool
       ELSE /\ pool' = release(pool, loop[t].ticket)
            /\ UNCHANGED <<hold, reaper>>
    /\ UNCHANGED <<lease, starting, cancelling, crashes>>

\* The spawned future removes the task from Runtime::tasks.
forget(t) ==
    /\ loop[t].pc = "ended"
    /\ loop' = [loop EXCEPT ![t] = NoLoop]
    /\ UNCHANGED <<durable, pool, hold, reaper, starting, cancelling, crashes>>

-----------------------------------------------------------------------------
(* PauseTask and CancelTask.                                               *)

\* Bound: a pause is asked for only while a reaper id is left for its hold.
reapers_left ==
    Cardinality({r \in Reaper : reaper[r].pc = "off"}) > Cardinality({t \in Task : Live(t) /\ loop[t].park})

\* A pause of a loop that only has to be forgotten changes nothing.
PauseTask(t) ==
    /\ Live(t) /\ loop[t].pc # "ended" /\ ~loop[t].park /\ reapers_left
    /\ loop' = [loop EXCEPT ![t].park = TRUE]
    /\ UNCHANGED <<durable, pool, hold, reaper, starting, cancelling, crashes>>

\* Runtime::interrupt fires the token of the round: a call that waits for its
\* approval returns CANCELLED, with no TaskResumed, and the loop goes round.
interrupted(l) == IF l.pc = "waiting" THEN [l EXCEPT !.pc = "top"] ELSE l

\* SendQueuedInputNow, and the stop-and-send of an input just queued.  Only a
\* call that waits is cut short; the rest of a turn just ends sooner.
send_now(t) ==
    /\ loop[t].pc = "waiting"
    /\ loop' = [loop EXCEPT ![t] = interrupted(@)]
    /\ UNCHANGED <<durable, pool, hold, reaper, starting, cancelling, crashes>>

\* InterruptTask: a pause, then an interrupt that brings the loop to it.
stop_task(t) ==
    /\ Live(t) /\ loop[t].pc # "ended" /\ ~loop[t].park /\ reapers_left
    /\ loop' = [loop EXCEPT ![t] = [interrupted(@) EXCEPT !.park = TRUE]]
    /\ UNCHANGED <<durable, pool, hold, reaper, starting, cancelling, crashes>>

\* Runtime::cancel raises the token of a live loop; without one, a task that
\* was not terminal when it was read is cancelled in a later step.
CancelTask(t) ==
    /\ \/ /\ Live(t) /\ ~loop[t].cancel
          /\ loop' = [loop EXCEPT ![t].cancel = TRUE]
          /\ UNCHANGED cancelling
       \/ /\ ~Live(t) /\ task[t] # "Cancelled"
          /\ cancelling' = cancelling \cup {t}
          /\ UNCHANGED loop
    /\ UNCHANGED <<durable, pool, hold, reaper, starting, crashes>>

cancelled_runs(t) ==
    [runs EXCEPT ![t] = [i \in 1 .. Top(t) |->
        IF runs[t][i].state \in {"Running", "Suspended"}
        THEN [runs[t][i] EXCEPT !.state = "Cancelled"] ELSE runs[t][i]]]

\* cancel_without_loop, then drop_hold, under the store lock.
cancel_without_loop(t) ==
    /\ t \in cancelling
    /\ cancelling' = cancelling \ {t}
    /\ runs' = cancelled_runs(t)
    /\ IF can_transition(task[t], "Cancelled")
       THEN /\ task' = [task EXCEPT ![t] = "Cancelled"]
            /\ hold' = [hold EXCEPT ![t] = NoHold]
            /\ pool' = IF hold[t] # NoHold THEN release(pool, hold[t].ticket) ELSE pool
       ELSE UNCHANGED <<task, hold, pool>>
    /\ UNCHANGED <<lease, loop, reaper, starting, crashes>>

-----------------------------------------------------------------------------
(* The hold reaper.                                                        *)

holds(r) == hold[reaper[r].task].ticket = reaper[r].ticket

end_hold(r) == hold' = IF holds(r) THEN [hold EXCEPT ![reaper[r].task] = NoHold] ELSE hold

\* Mutant of reaper_check: it never notices that its hold is gone.
reaper_check_blind(r) ==
    /\ reaper[r].pc = "check"
    /\ reaper' = [reaper EXCEPT ![r] =
          IF holds(r) /\ hold[reaper[r].task].age >= IdleBound THEN [@ EXCEPT !.pc = "bound"]
          ELSE [@ EXCEPT !.pc = "asleep", !.gen = lease, !.sleep = RenewEvery]]
    /\ UNCHANGED <<durable, loop, pool, hold, starting, cancelling, crashes>>

reaper_check(r) ==
    LET h == hold[reaper[r].task]
    IN /\ reaper[r].pc = "check"
       /\ reaper' = [reaper EXCEPT ![r] =
             IF ~holds(r) THEN NoReaper
             ELSE IF h.age >= IdleBound THEN [@ EXCEPT !.pc = "bound"]
             ELSE [@ EXCEPT !.pc = "asleep", !.gen = h.gen,
                            !.sleep = IF IdleBound - h.age < RenewEvery
                                      THEN IdleBound - h.age ELSE RenewEvery]]
       /\ UNCHANGED <<durable, loop, pool, hold, starting, cancelling, crashes>>

\* Mutant of reaper_end_hold: the answer of end_hold is ignored.
reaper_end_hold_ignored(r) ==
    /\ reaper[r].pc = "bound"
    /\ end_hold(r)
    /\ reaper' = [reaper EXCEPT ![r].pc = "release"]
    /\ UNCHANGED <<durable, loop, pool, starting, cancelling, crashes>>

reaper_end_hold(r) ==
    /\ reaper[r].pc = "bound"
    /\ end_hold(r)
    /\ reaper' = [reaper EXCEPT ![r] = IF holds(r) THEN [@ EXCEPT !.pc = "release"] ELSE NoReaper]
    /\ UNCHANGED <<durable, loop, pool, starting, cancelling, crashes>>

reaper_release(r) ==
    /\ reaper[r].pc = "release"
    /\ pool' = release(pool, reaper[r].ticket)
    /\ reaper' = [reaper EXCEPT ![r] = NoReaper]
    /\ UNCHANGED <<durable, loop, hold, starting, cancelling, crashes>>

\* Mutant of reaper_wake: it stops renewing and leaves the hold where it is.
reaper_wake_leaves(r) ==
    /\ reaper[r].pc = "asleep" /\ reaper[r].sleep = 0
    /\ IF renew_ok(pool, reaper[r].ticket, reaper[r].gen)
       THEN /\ pool' = renew(pool, reaper[r].ticket)
            /\ reaper' = [reaper EXCEPT ![r].pc = "check"]
       ELSE /\ reaper' = [reaper EXCEPT ![r] = NoReaper]
            /\ UNCHANGED pool
    /\ UNCHANGED <<durable, loop, hold, starting, cancelling, crashes>>

\* After its sleep: renew, or go and give the hold up.
reaper_wake(r) ==
    /\ reaper[r].pc = "asleep" /\ reaper[r].sleep = 0
    /\ IF renew_ok(pool, reaper[r].ticket, reaper[r].gen)
       THEN /\ pool' = renew(pool, reaper[r].ticket)
            /\ reaper' = [reaper EXCEPT ![r].pc = "check"]
       ELSE /\ reaper' = [reaper EXCEPT ![r].pc = "lapsed"]
            /\ UNCHANGED pool
    /\ UNCHANGED <<durable, loop, hold, starting, cancelling, crashes>>

\* The ticket could not be renewed: there is nothing left to hold.
reaper_give_up(r) ==
    /\ reaper[r].pc = "lapsed"
    /\ end_hold(r)
    /\ reaper' = [reaper EXCEPT ![r] = NoReaper]
    /\ UNCHANGED <<durable, loop, pool, starting, cancelling, crashes>>

-----------------------------------------------------------------------------
(* Time and restart.                                                       *)

less(n) == IF n > 0 THEN n - 1 ELSE n

Tick ==
    /\ pool' = [k \in Ticket |-> [pool[k] EXCEPT !.left = less(@)]]
    /\ hold' = [t \in Task |-> IF hold[t] # NoHold /\ hold[t].age < IdleBound
                               THEN [hold[t] EXCEPT !.age = @ + 1] ELSE hold[t]]
    /\ reaper' = [r \in Reaper |-> IF reaper[r].pc = "asleep"
                                   THEN [reaper[r] EXCEPT !.sleep = less(@)] ELSE reaper[r]]
    /\ <<pool', hold', reaper'>> # <<pool, hold, reaper>>
    /\ UNCHANGED <<durable, loop, starting, cancelling, crashes>>

\* Mutant of suspended_runs: the task is reconciled, its run is not.
suspended_runs_skipped(t) == runs[t]

\* The runs the dead Core still owned, for a task that runs or waits.
suspended_runs(t) ==
    [i \in 1 .. Top(t) |->
        IF runs[t][i].state = "Running" /\ task[t] \in {"Running"} \cup Waits
        THEN [runs[t][i] EXCEPT !.state = "Suspended"] ELSE runs[t][i]]

\* The Core dies and starts again: reconcile_after_restart suspends what ran.
restart ==
    /\ crashes < MaxCrash
    /\ crashes' = crashes + 1
    /\ runs' = [t \in Task |-> suspended_runs(t)]
    /\ task' = [t \in Task |-> IF task[t] = "Running" THEN "Waiting" ELSE task[t]]
    /\ loop' = [t \in Task |-> NoLoop]
    /\ pool' = [k \in Ticket |-> NoTicket]
    /\ hold' = [t \in Task |-> NoHold]
    /\ reaper' = [r \in Reaper |-> NoReaper]
    /\ starting' = {} /\ cancelling' = {}
    /\ UNCHANGED lease

-----------------------------------------------------------------------------

Init ==
    /\ task = [t \in Task |-> "Queued"]
    /\ runs = [t \in Task |-> << >>]
    /\ lease = 1
    /\ loop = [t \in Task |-> NoLoop]
    /\ pool = [k \in Ticket |-> NoTicket]
    /\ hold = [t \in Task |-> NoHold]
    /\ reaper = [r \in Reaper |-> NoReaper]
    /\ starting = {} /\ cancelling = {} /\ crashes = 0

run_loop(t) == boundary(t) \/ turn(t) \/ await_approval(t) \/ approval_resolved(t)
               \/ cancelled_wait(t) \/ check_lease(t) \/ persist(t) \/ forget(t)

hold_reaper(r) == reaper_check(r) \/ reaper_end_hold(r) \/ reaper_release(r)
                  \/ reaper_wake(r) \/ reaper_give_up(r)

Next ==
    \/ AcquireSessionLease \/ GetCapacity \/ Tick \/ restart
    \/ \E t \in Task : StartTask(t) \/ ResumeTask(t) \/ PauseTask(t) \/ send_now(t) \/ stop_task(t)
                       \/ CancelTask(t)
                       \/ cancel_without_loop(t) \/ run_loop(t)
    \/ \E q \in starting : start(q)
    \/ \E r \in Reaper : hold_reaper(r)

\* A spawned loop or reaper is polled until it ends, a model or tool call ends
\* (it carries a deadline, an approval expires), a turn makes finitely many of
\* them (so it ends, however often it asks) and the clock advances.  Nothing is
\* assumed of the handlers: a client may go away, a start is never retried.
Fairness ==
    /\ WF_vars(Tick)
    /\ \A t \in Task : WF_vars(run_loop(t)) /\ SF_vars(turn(t))
    /\ \A r \in Reaper : WF_vars(hold_reaper(r))

Spec == Init /\ [][Next]_vars /\ Fairness

-----------------------------------------------------------------------------
(* Properties.                                                             *)

\* Every variable has its type, and a live loop has a ticket and a run.
RunTypeOK ==
    /\ task \in [Task -> TaskState]
    /\ \A t \in Task : runs[t] \in Seq([state : RunState, gen : Nat])
    /\ lease \in Nat /\ crashes \in Nat
    /\ starting \subseteq StartRequest /\ cancelling \subseteq Task
    /\ \A t \in Task : Live(t) =>
          /\ loop[t] \in LoopState /\ loop[t].gen <= lease
          /\ loop[t].pc # "ended" => loop[t].ticket \in Ticket /\ loop[t].run \in 1 .. Top(t)
          /\ loop[t].pc \in {"ending", "checked"} <=> loop[t].end \in LoopEnd
    /\ pool \in [Ticket -> [left : 0 .. Ttl, gen : Nat] \cup {NoTicket}]
    /\ \A t \in Task : hold[t] # NoHold => hold[t].ticket \in Ticket /\ hold[t].age <= IdleBound
    /\ \A r \in Reaper : reaper[r].pc # "off" => reaper[r].ticket \in Ticket /\ reaper[r].task \in Task

\* docs/14 "Capacity tickets": what the live tickets hold never exceeds the
\* pool, through lapses, re-acquisitions, reused holds and leaked tickets.
WithinLimits == \A d \in Dim : held(pool)[d] <= Limits[d]

\* docs/33 "the new owner resumes the run under its generation", pause.rs "the
\* park is durable the moment it lands: the run is `Suspended`": two StartTask
\* handlers that read the task before either started it, a stranded run, a
\* takeover, a stop, a restart or a cancel race never leave two running runs.
OneRunningRun == \A t \in Task : Cardinality({i \in 1 .. Top(t) : runs[t][i].state = "Running"}) <= 1

\* capacity.rs end_hold "exactly one of resume, cancel and the reaper gives the
\* ticket back": a ticket a loop is using leaves the pool only because it
\* lapsed, because the loop itself ended, or with the process.
RunnerNeverRobbed ==
    [][\A t \in Task :
          (Live(t) /\ loop[t].pc # "ended" /\ pool[loop[t].ticket].left > 0
             /\ pool'[loop[t].ticket] = NoTicket)
          => loop'[t].pc \in {"ended", "none"}]_vars

\* A pause lands: the loop it was asked of ends, however often it goes round.
PauseLands == \A t \in Task : (Live(t) /\ loop[t].park) ~> ~Live(t)

\* Every hold has a live reaper behind it: no pause keeps its ticket for good.
HoldsEnd == \A t \in Task : (hold[t] # NoHold) ~> (hold[t] = NoHold)

\* capacity.rs spawn_hold_reaper "ends quietly when the hold is resumed, cancelled
\* or gone first": no reaper outlives its hold for ever, renewing behind a resumed
\* loop or for nobody; so a leaked ticket, and a wedged loop's, do lapse.
ReapersEnd == \A r \in Reaper : []<>(reaper[r].pc = "off" \/ holds(r))

=============================================================================
