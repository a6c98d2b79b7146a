------------------------------ MODULE Automation ------------------------------
(***************************************************************************)
(* The automation host: services/modbit-core/src/automation.rs and the     *)
(* registry of crates/automation/src/registry.rs.  One definition, its     *)
(* versions and its runs; command handlers that fire and kill; the tick    *)
(* that settles, watches, promotes and dispatches runs; and the tasks the  *)
(* runs are made of, a main one and, where the definition has it, a gate.  *)
(*                                                                         *)
(* A step is what happens under one hold of the registry's guard, or one   *)
(* command to the Core; between two of them anything else may happen, and  *)
(* what a process read before is what it still works with.                 *)
(*                                                                         *)
(* Left out: when schedules fire (a slot is a key like any other), inputs, *)
(* filters and payloads, test runs, costs, what a person does to the task  *)
(* of a run other than answer its approval and cancel it, and a store that *)
(* refuses an append.  A loop's end is one step (module RunControl takes   *)
(* it apart).                                                              *)
(***************************************************************************)
EXTENDS Naturals, FiniteSets

CONSTANTS
    Key,        \* the firings: a version and an event id make a dispatch key
    VersionOf,  \* VersionOf[k]: the version k is a firing of
    Gated,      \* the versions whose definition has a gate
    Policy,     \* the concurrency policies a definition may have
    QueueMax,   \* concurrency.queue_max
    MaxFails,   \* failures in a row that disable the definition (5)
    StallTicks, \* ticks without a loop that make a stall (3)
    Handler,    \* command handlers at work at the same time
    MaxFault    \* bound on deaths of the Core, pauses, kills and disables

Version == {VersionOf[k] : k \in Key}
Last == CHOOSE v \in Version : \A w \in Version : w <= v
Stage == Key \X {"main", "gate"}
Tick == "tick"
Process == Handler \cup {Tick}

ASSUME AutomationAssumption ==
    /\ IsFiniteSet(Key) /\ Key # {} /\ VersionOf \in [Key -> Nat \ {0}]
    /\ Version = 1 .. Last /\ Gated \subseteq Version
    /\ Policy # {} /\ Policy \subseteq {"Skip", "Queue", "Replace"}
    /\ Tick \notin Handler /\ "none" \notin Key
    /\ {QueueMax, MaxFault, Last} \subseteq Nat
    /\ {MaxFails, StallTicks} \subseteq Nat \ {0}

VARIABLES
    \* the ledger, as the registry folds it
    policy,    \* the definition's concurrency policy
    version,   \* the newest version of the definition
    enabled,   \* the version the approval in force names, or 0
    paused,    \* a pause switch is set
    fails,     \* failed runs in a row
    run,       \* the run of each key
    \* the tasks of the runs
    task,      \* the state of each stage's task
    stopped,   \* the stages whose session is under an emergency stop
    starts,    \* how often a loop was started for each stage
    \* the memory of the Core
    alive,     \* the stages with a loop in Runtime::tasks
    token,     \* the stages whose loop was told to cancel
    inflight,  \* the keys being dispatched
    stall,     \* the ticks a run's task had no loop
    proc,      \* what each process is doing
    faults,    \* how often the Core died, or a switch was used
    \* kept for the properties
    lifted     \* the kills during whose work somebody lifted the pause

ledger == <<policy, version, enabled, paused, fails, run>>
tasks == <<task, stopped, starts, alive, token>>
vars == <<ledger, tasks, inflight, stall, proc, faults, lifted>>

Over == {"Succeeded", "Failed", "Skipped", "Cancelled"}
Ended == {"Completed", "Failed", "Cancelled"}
NoRun == [status |-> "none", reason |-> "", main |-> FALSE, gateTask |-> FALSE,
          gate |-> "none", seq |-> 0]
Idle == [at |-> "idle", job |-> "none", key |-> "none", todo |-> {},
         cur |-> [key |-> "none", run |-> NoRun], out |-> <<"", "">>]

AInit ==
    /\ policy \in Policy /\ version = 1 /\ enabled = 0 /\ paused = FALSE /\ fails = 0
    /\ run = [k \in Key |-> NoRun]
    /\ task = [s \in Stage |-> "none"] /\ stopped = {}
    /\ starts = [s \in Stage |-> 0] /\ alive = {} /\ token = {}
    /\ inflight = {} /\ stall = [k \in Key |-> 0]
    /\ proc = [p \in Process |-> IF p = Tick THEN [Idle EXCEPT !.at = "boot"] ELSE Idle]
    /\ faults = 0 /\ lifted = {}

-----------------------------------------------------------------------------
(* The registry                                                            *)

active_runs == {k \in Key : run[k].status \in {"Pending", "Running"}}
queued_runs == {k \in Key : run[k].status = "Queued"}
Records(S) == {[key |-> k, run |-> run[k]] : k \in S}
Fired == {k \in Key : run[k].status # "none"}

\* insert_run, of AutomationFired and AutomationRunSkipped.
Insert(k, status) ==
    run' = [run EXCEPT ![k] = [NoRun EXCEPT !.status = status, !.seq = Cardinality(Fired) + 1]]

\* finish: once, counting failures, and disabling the definition at the last.
finish(k, status, reason) ==
    IF run[k].status \in Over
      THEN UNCHANGED ledger
      ELSE /\ run' = [run EXCEPT ![k].status = status, ![k].reason = reason]
           /\ fails' = CASE status = "Failed" -> IF fails < MaxFails THEN fails + 1 ELSE fails
                         [] status = "Succeeded" -> 0
                         [] OTHER -> fails
           /\ enabled' = IF status = "Failed" /\ fails + 1 >= MaxFails THEN 0 ELSE enabled
           /\ UNCHANGED <<policy, version, paused>>

\* live_task_of: the gate until it has answered, then the main task.
InGate(r) == r.run.gate = "none" /\ r.run.gateTask
live_task_of(r) ==
    IF InGate(r) THEN {<<r.key, "gate">>}
    ELSE IF r.run.main THEN {<<r.key, "main">>} ELSE {}

\* Mutant of Cancels: a loop that is gone is told to stop all the same.
Cancels_gone(S) ==
    /\ token' = token \cup S
    /\ task' = [s \in Stage |-> IF s \in S \ alive /\ task[s] \notin Ended \cup {"none"}
                                THEN "Cancelled" ELSE task[s]]
    /\ UNCHANGED <<starts, alive>>

\* CancelTask: a live loop is told, a task without one is cancelled.
Cancels(S) ==
    /\ token' = token \cup (S \cap alive)
    /\ task' = [s \in Stage |-> IF s \in S \ alive /\ task[s] \notin Ended \cup {"none"}
                                THEN "Cancelled" ELSE task[s]]
    /\ UNCHANGED <<starts, alive>>
cancel_task(S) == Cancels(S) /\ UNCHANGED stopped

\* stop_stage: EmergencyStop of the session, and CancelTask.
stop_stage(S) == Cancels(S) /\ stopped' = stopped \cup S

-----------------------------------------------------------------------------
(* Processes: `at` is the step a process is about to take.  A dispatch      *)
(* comes back to where it was called from.                                  *)

At(p, a) == proc[p].at = a
Goes(p, a) == proc' = [proc EXCEPT ![p].at = a]
Back(p) ==
    proc' = [proc EXCEPT ![p] = IF p = Tick THEN [Idle EXCEPT !.at = proc[p].job, !.job = proc[p].job,
                                                             !.todo = proc[p].todo]
                                ELSE Idle]
Refused(p, status) ==
    proc' = [proc EXCEPT ![p].at = "refused", ![p].out = <<status, "DISPATCH">>]
Releases(p) == inflight' = inflight \ {proc[p].key}
KeyOf(p) == proc[p].key

\* The stage a dispatch is launching.
StageOf(p) ==
    LET k == KeyOf(p)
    IN  <<k, IF VersionOf[k] \in Gated /\ run[k].gate = "none" THEN "gate" ELSE "main">>

-----------------------------------------------------------------------------
(* Commands on the definition                                              *)

UpdateAutomation ==
    /\ version < Last
    /\ version' = version + 1 /\ enabled' = 0
    /\ UNCHANGED <<policy, paused, fails, run, tasks, inflight, stall, proc, faults, lifted>>

EnableAutomation ==
    /\ enabled' = version /\ fails' = 0
    /\ UNCHANGED <<policy, version, paused, run, tasks, inflight, stall, proc, faults, lifted>>

DisableAutomation ==
    /\ enabled # 0 /\ faults < MaxFault
    /\ enabled' = 0 /\ faults' = faults + 1
    /\ UNCHANGED <<policy, version, paused, fails, run, tasks, inflight, stall, proc, lifted>>

PauseAutomation ==
    /\ paused \/ faults < MaxFault
    /\ paused' = ~paused
    /\ faults' = IF paused THEN faults ELSE faults + 1
    /\ lifted' = IF paused THEN lifted \cup {p \in Handler : proc[p].job = "kill"} ELSE lifted
    /\ UNCHANGED <<policy, version, enabled, fails, run, tasks, inflight, stall, proc>>

-----------------------------------------------------------------------------
(* fire: the decision and the record, then what it replaces, then dispatch *)

\* What the concurrency policy makes of a firing.
Initial ==
    IF active_runs = {} \/ policy = "Replace" THEN "Pending"
    ELSE IF policy = "Queue" /\ Cardinality(queued_runs) < QueueMax THEN "Queued"
    ELSE "Skipped"

\* A firing of a key that has a run is a duplicate and creates nothing.
Firing(p, k) ==
    /\ At(p, "idle") /\ p \in Handler
    /\ enabled = version /\ version = VersionOf[k] /\ run[k].status = "none"

fire(p, k) ==
    /\ Firing(p, k) /\ ~paused
    /\ Insert(k, Initial)
    /\ proc' = IF Initial # "Pending" THEN proc
               ELSE [proc EXCEPT ![p] = [Idle EXCEPT !.at = "replace", !.job = "fire",
                                                     !.key = k, !.todo = Records(active_runs)]]
    /\ UNCHANGED <<policy, version, enabled, paused, fails, tasks, inflight, stall, faults, lifted>>

\* PAUSED, or BUDGET: a rate limit or the daily budget is used up.
fire_skipped(p, k) ==
    /\ Firing(p, k)
    /\ Insert(k, "Skipped")
    /\ UNCHANGED <<policy, version, enabled, paused, fails, tasks, inflight, stall, proc, faults, lifted>>

\* SOURCE_CHANGED: the approved bytes are not the bytes of the file.
fire_changed(p, k) ==
    /\ Firing(p, k)
    /\ Insert(k, "Skipped") /\ enabled' = 0
    /\ UNCHANGED <<policy, version, paused, fails, tasks, inflight, stall, proc, faults, lifted>>

\* The runs the firing replaces, as it read them, are ended one by one ...
replace(p) ==
    /\ At(p, "replace")
    /\ IF proc[p].todo = {} THEN Goes(p, "dispatch") /\ UNCHANGED ledger
       ELSE \E r \in proc[p].todo :
              /\ finish(r.key, "Cancelled", "REPLACED")
              /\ proc' = [proc EXCEPT ![p].at = "replaced", ![p].cur = r, ![p].todo = @ \ {r}]
    /\ UNCHANGED <<tasks, inflight, stall, faults, lifted>>

\* ... and the task that was on record for each is cancelled.
replaced(p) ==
    /\ At(p, "replaced")
    /\ LET r == proc[p].cur
       IN  cancel_task(IF r.run.main THEN {<<r.key, "main">>}
                       ELSE IF r.run.gateTask THEN {<<r.key, "gate">>} ELSE {})
    /\ proc' = [proc EXCEPT ![p].at = "replace", ![p].cur = Idle.cur]
    /\ UNCHANGED <<ledger, inflight, stall, faults, lifted>>

-----------------------------------------------------------------------------
(* dispatch                                                                *)

\* One dispatch of a key at a time ...
dispatch(p) ==
    /\ At(p, "dispatch") /\ KeyOf(p) \notin inflight
    /\ inflight' = inflight \cup {KeyOf(p)} /\ Goes(p, "inner")
    /\ UNCHANGED <<ledger, tasks, stall, faults, lifted>>

\* ... another one waits for it to decide the run, or gives up.
dispatch_waited(p) ==
    /\ At(p, "dispatch") /\ KeyOf(p) \in inflight
    /\ Back(p)
    /\ UNCHANGED <<ledger, tasks, inflight, stall, faults, lifted>>

\* Mutant of Settled: the gate's answer is not looked at.
Settled_ungated(r, gated) ==
    \/ r.status \in Over
    \/ r.status = "Running" /\ r.main
    \/ gated /\ r.gate = "none" /\ r.gateTask

\* Nothing is left to launch for this run.
Settled(r, gated) ==
    \/ r.status \in Over
    \/ r.status = "Running" /\ r.main
    \/ gated /\ (IF r.gate = "none" THEN r.gateTask ELSE r.gate # "RUN")

Held(k) == paused \/ enabled # VersionOf[k]

\* dispatch_inner, up to the launch of a stage.
dispatch_inner(p) ==
    LET k == KeyOf(p)
        r == run[k]
    IN  /\ At(p, "inner")
        /\ \/ /\ r.status \in Over \/ (r.status = "Running" /\ r.main)
              /\ Back(p) /\ Releases(p)
           \/ /\ ~(r.status \in Over \/ (r.status = "Running" /\ r.main))
              /\ \/ Held(k) /\ Refused(p, "Cancelled") /\ Releases(p)
                 \/ ~Held(k) /\ Settled(r, VersionOf[k] \in Gated) /\ Back(p) /\ Releases(p)
                 \/ ~Held(k) /\ ~Settled(r, VersionOf[k] \in Gated) /\ Goes(p, "create")
                    /\ UNCHANGED inflight
        /\ UNCHANGED <<ledger, tasks, stall, faults, lifted>>

\* REPOSITORY_UNTRUSTED, or SOURCE_CHANGED, which also disables.
dispatch_untrusted(p) ==
    LET k == KeyOf(p)
        r == run[k]
    IN  /\ At(p, "inner") /\ ~Held(k)
        /\ r.status \notin Over /\ ~(r.status = "Running" /\ r.main)
        /\ Refused(p, "Failed") /\ Releases(p)
        /\ enabled' \in {0, enabled}
        /\ UNCHANGED <<policy, version, paused, fails, run, tasks, stall, faults, lifted>>

\* launch_stage: the session and the task, unless a dead Core made them ...
launch_create(p) ==
    /\ At(p, "create")
    /\ task' = [task EXCEPT ![StageOf(p)] = IF @ = "none" THEN "Created" ELSE @]
    /\ Goes(p, "start")
    /\ UNCHANGED <<ledger, stopped, starts, alive, token, inflight, stall, faults, lifted>>

\* Mutant of startable: a task that waits is started too.
startable_waiting(s) == task[s] \in {"Created", "Waiting"}

startable(s) == task[s] = "Created"

\* ... and StartTask, if the task was never started.
launch_start(p) ==
    LET s == StageOf(p)
    IN  /\ At(p, "start")
        /\ startable(s) => s \notin stopped
        /\ IF startable(s)
             THEN /\ task' = [task EXCEPT ![s] = "Running"] /\ alive' = alive \cup {s}
                  /\ starts' = [starts EXCEPT ![s] = @ + 1]
             ELSE UNCHANGED <<task, alive, starts>>
        /\ Goes(p, "check")
        /\ UNCHANGED <<ledger, stopped, token, inflight, stall, faults, lifted>>

\* TRANSIENT_CAPACITY: the run stays as it is, and the tick asks again.
launch_capacity(p) ==
    /\ At(p, "start") /\ startable(StageOf(p)) /\ StageOf(p) \notin stopped
    /\ Back(p) /\ Releases(p)
    /\ UNCHANGED <<ledger, tasks, stall, faults, lifted>>

\* START_REFUSED: an emergency stop, or something wrong with the configuration.
launch_refused(p) ==
    /\ At(p, "start") /\ startable(StageOf(p))
    /\ Refused(p, "Failed") /\ Releases(p)
    /\ UNCHANGED <<ledger, tasks, stall, faults, lifted>>

killed_meanwhile(k) == run[k].status = "Cancelled" /\ run[k].reason = "KILLED"

\* A stage whose run was killed while it was launched is stopped ...
launched(p) ==
    /\ At(p, "check")
    /\ Goes(p, IF killed_meanwhile(KeyOf(p)) THEN "stop" ELSE "record")
    /\ UNCHANGED <<ledger, tasks, inflight, stall, faults, lifted>>

stop_launched(p) ==
    /\ At(p, "stop")
    /\ stop_stage({StageOf(p)}) /\ Back(p) /\ Releases(p)
    /\ UNCHANGED <<ledger, stall, faults, lifted>>

\* ... and any other goes on record: AutomationDispatched, AutomationGateStarted.
Recorded(r, tag) ==
    IF r.status \in Over THEN r
    ELSE IF tag = "gate" THEN [r EXCEPT !.status = "Running", !.gateTask = TRUE]
    ELSE IF r.main THEN r ELSE [r EXCEPT !.status = "Running", !.main = TRUE]

record(p) ==
    /\ At(p, "record")
    /\ run' = [run EXCEPT ![KeyOf(p)] = Recorded(@, StageOf(p)[2])]
    /\ Back(p) /\ Releases(p)
    /\ UNCHANGED <<policy, version, enabled, paused, fails, tasks, stall, faults, lifted>>

\* What a dispatch, a gate or a stall made of the run.
refused(p) ==
    /\ At(p, "refused")
    /\ finish(KeyOf(p), proc[p].out[1], proc[p].out[2])
    /\ Back(p)
    /\ UNCHANGED <<tasks, inflight, stall, faults, lifted>>

-----------------------------------------------------------------------------
(* The tick                                                                *)

Running == {k \in Key : run[k].status = "Running"}

\* A list is read under the guard, and worked off without it.
Lists(a, S) ==
    proc' = [proc EXCEPT ![Tick] = [Idle EXCEPT !.at = a, !.job = a, !.todo = Records(S)]]
Drops(r) == proc' = [proc EXCEPT ![Tick].todo = @ \ {r}]
Turns(r, a, out) ==
    proc' = [proc EXCEPT ![Tick] = [@ EXCEPT !.at = a, !.key = r.key, !.cur = r, !.out = out,
                                             !.todo = proc[Tick].todo \ {r}]]

\* The start of the Core, and of each tick.
tick_begins ==
    /\ \/ At(Tick, "boot") /\ Lists("settle", Running)
       \/ At(Tick, "settle") /\ proc[Tick].todo = {} /\ Lists("monitor", Running)
       \/ At(Tick, "waiting") /\ proc[Tick].todo = {} /\ Lists("monitor", Running)
    /\ UNCHANGED <<ledger, tasks, inflight, stall, faults, lifted>>

\* settle_after_restart: a run whose loop died with the last Core is ended ...
settle(r) ==
    /\ At(Tick, "settle") /\ r \in proc[Tick].todo
    /\ IF \E s \in live_task_of(r) : task[s] \notin Ended /\ s \notin alive
         THEN finish(r.key, "Cancelled", "WATCHED") /\ Turns(r, "cancel", Idle.out)
         ELSE UNCHANGED ledger /\ Drops(r)
    /\ UNCHANGED <<tasks, inflight, stall, faults, lifted>>

\* ... and its task cancelled.
cancel_after ==
    /\ At(Tick, "cancel")
    /\ cancel_task(live_task_of(proc[Tick].cur)) /\ Back(Tick)
    /\ UNCHANGED <<ledger, inflight, stall, faults, lifted>>

\* monitor_runs: what became of the task a running run waits on.
Watched(r, s) == At(Tick, "monitor") /\ r \in proc[Tick].todo /\ s \in live_task_of(r)

monitor_none(r) ==
    /\ At(Tick, "monitor") /\ r \in proc[Tick].todo
    /\ live_task_of(r) \subseteq alive
    /\ stall' = IF \E s \in live_task_of(r) : task[s] = "Running"
                THEN [stall EXCEPT ![r.key] = 0] ELSE stall
    /\ Drops(r)
    /\ UNCHANGED <<ledger, tasks, inflight, faults, lifted>>

monitor_ended(r, s) ==
    /\ Watched(r, s) /\ s \notin alive
    /\ \/ task[s] = "Completed" /\ ~InGate(r) /\ finish(r.key, "Succeeded", "WATCHED")
       \/ task[s] = "Failed" /\ finish(r.key, "Failed", "WATCHED")
       \/ task[s] = "Cancelled" /\ finish(r.key, "Cancelled", "WATCHED")
    /\ Drops(r)
    /\ UNCHANGED <<tasks, inflight, stall, faults, lifted>>

\* settle_gate: the answer goes on record; RUN dispatches, all else skips.
settle_gate(r, s, answer) ==
    /\ Watched(r, s) /\ s \notin alive /\ task[s] = "Completed" /\ InGate(r)
    /\ run' = [run EXCEPT ![r.key].gate = IF @ = "none" THEN answer ELSE @]
    /\ IF answer = "RUN" THEN Turns(r, "dispatch", Idle.out) ELSE Turns(r, "refused", <<"Skipped", "WATCHED">>)
    /\ UNCHANGED <<policy, version, enabled, paused, fails, tasks, inflight, stall, faults, lifted>>

\* A task that waits for nobody: after StallTicks ticks it is cancelled, and
\* the run fails.
monitor_stalled(r, s) ==
    /\ Watched(r, s) /\ s \notin alive /\ task[s] \notin Ended
    /\ stall' = [stall EXCEPT ![r.key] = IF @ < StallTicks THEN @ + 1 ELSE @]
    /\ IF stall'[r.key] < StallTicks
         THEN Drops(r) /\ UNCHANGED tasks
         ELSE cancel_task({s}) /\ Turns(r, "refused", <<"Failed", "WATCHED">>)
    /\ UNCHANGED <<ledger, inflight, faults, lifted>>

\* expire_approval: the run is ended first ...
expire_approval(r, s) ==
    /\ Watched(r, s) /\ task[s] = "Asking"
    /\ finish(r.key, "Cancelled", "WATCHED") /\ Turns(r, "expired", Idle.out)
    /\ UNCHANGED <<tasks, inflight, stall, faults, lifted>>

\* ... then the approval is closed, if nobody answered it meanwhile, and the
\* task cancelled; and the run is looked at like any other.
Expires(S) ==
    /\ token' = token \cup (S \cap alive)
    /\ task' = [s \in Stage |-> IF s \in S /\ task[s] = "Asking" THEN "Waiting"
                                ELSE IF s \in S \ alive /\ task[s] \notin Ended THEN "Cancelled"
                                ELSE task[s]]
    /\ UNCHANGED <<starts, alive, stopped>>
Resumes == proc' = [proc EXCEPT ![Tick] = [Idle EXCEPT !.at = "monitor", !.job = "monitor",
                                                       !.todo = proc[Tick].todo \cup {proc[Tick].cur}]]

\* Mutant of approval_expired: the gate's task is cancelled, whatever runs.
approval_expired_gate ==
    /\ At(Tick, "expired")
    /\ cancel_task({<<proc[Tick].cur.key, "gate">>}) /\ Resumes
    /\ UNCHANGED <<ledger, inflight, stall, faults, lifted>>

approval_expired ==
    /\ At(Tick, "expired")
    /\ Expires(live_task_of(proc[Tick].cur)) /\ Resumes
    /\ UNCHANGED <<ledger, inflight, stall, faults, lifted>>

\* A queued run starts when no run of the definition is active.
Oldest == CHOOSE k \in queued_runs : \A q \in queued_runs : run[k].seq <= run[q].seq

promote ==
    /\ At(Tick, "monitor") /\ proc[Tick].todo = {}
    /\ IF ~paused /\ active_runs = {} /\ queued_runs # {}
         THEN proc' = [proc EXCEPT ![Tick] = [Idle EXCEPT !.at = "dispatch", !.job = "waitlist",
                                                          !.key = Oldest]]
         ELSE Goes(Tick, "waitlist")
    /\ UNCHANGED <<ledger, tasks, inflight, stall, faults, lifted>>

\* dispatch_waiting: what a dead Core or a transient refusal left behind.
Waiting ==
    {k \in Key : \/ run[k].status = "Pending"
                 \/ run[k].status = "Running" /\ ~run[k].main /\ run[k].gate = "RUN"}

dispatch_waiting ==
    /\ \/ At(Tick, "waitlist") /\ Lists("waiting", Waiting)
       \/ \E r \in proc[Tick].todo : At(Tick, "waiting") /\ Turns(r, "dispatch", Idle.out)
    /\ UNCHANGED <<ledger, tasks, inflight, stall, faults, lifted>>

-----------------------------------------------------------------------------
(* The kill switch                                                         *)

\* Mutant of KillAutomation: a queued run is not on the list.
KillAutomation_active(p) ==
    /\ p \in Handler /\ At(p, "idle") /\ faults < MaxFault
    /\ paused' = TRUE /\ faults' = faults + 1
    /\ proc' = [proc EXCEPT ![p] = [Idle EXCEPT !.at = "kill", !.job = "kill",
                                    !.todo = Records(active_runs)]]
    /\ UNCHANGED <<policy, version, enabled, fails, run, tasks, inflight, stall, lifted>>

KillAutomation(p) ==
    /\ p \in Handler /\ At(p, "idle") /\ faults < MaxFault
    /\ paused' = TRUE /\ faults' = faults + 1
    /\ proc' = [proc EXCEPT ![p] = [Idle EXCEPT !.at = "kill", !.job = "kill",
                                    !.todo = Records({k \in Fired : run[k].status \notin Over})]]
    /\ UNCHANGED <<policy, version, enabled, fails, run, tasks, inflight, stall, lifted>>

\* What has not started is dropped first; a running run is also stopped.
kill(p) ==
    /\ At(p, "kill")
    /\ IF proc[p].todo = {}
       THEN proc' = [proc EXCEPT ![p] = Idle] /\ lifted' = lifted \ {p} /\ UNCHANGED ledger
       ELSE \E r \in proc[p].todo :
              /\ r.run.status = "Running" => \A q \in proc[p].todo : q.run.status = "Running"
              /\ finish(r.key, "Cancelled", "KILLED")
              /\ proc' = [proc EXCEPT ![p].at = IF r.run.status = "Running" THEN "killed" ELSE @,
                                      ![p].cur = IF r.run.status = "Running" THEN r ELSE @,
                                      ![p].todo = @ \ {r}]
              /\ UNCHANGED lifted
    /\ UNCHANGED <<tasks, inflight, stall, faults>>

\* launched_stage: the main task's, or else the gate's, if it exists.
launched_stage(k) ==
    LET made == {s \in {<<k, "main">>, <<k, "gate">>} : task[s] # "none"}
    IN  IF <<k, "main">> \in made THEN {<<k, "main">>} ELSE made

killed(p) ==
    /\ At(p, "killed")
    /\ LET r == proc[p].cur
       IN  stop_stage(IF r.run.main THEN {<<r.key, "main">>}
                      ELSE IF r.run.gateTask THEN {<<r.key, "gate">>}
                      ELSE launched_stage(r.key))
    /\ proc' = [proc EXCEPT ![p].at = "kill", ![p].cur = Idle.cur]
    /\ UNCHANGED <<ledger, inflight, stall, faults, lifted>>

-----------------------------------------------------------------------------
(* The tasks of the runs, and the end of the Core                          *)

\* The loop of a stage ends by itself, its work done or not.
loop_ends(s) ==
    /\ s \in alive /\ task[s] = "Running" /\ s \notin token
    /\ \E end \in {"Completed", "Failed", "Waiting"} : task' = [task EXCEPT ![s] = end]
    /\ alive' = alive \ {s}
    /\ UNCHANGED <<ledger, stopped, starts, token, inflight, stall, proc, faults, lifted>>

\* It sees that it was cancelled.
loop_cancelled(s) ==
    /\ s \in alive \cap token
    /\ task' = [task EXCEPT ![s] = "Cancelled"]
    /\ alive' = alive \ {s} /\ token' = token \ {s}
    /\ UNCHANGED <<ledger, stopped, starts, inflight, stall, proc, faults, lifted>>

\* It asks for an approval, and a person answers.
approval(s) ==
    /\ s \in alive /\ task[s] \in {"Running", "Asking"}
    /\ task' = [task EXCEPT ![s] = IF @ = "Running" THEN "Asking" ELSE "Running"]
    /\ UNCHANGED <<ledger, stopped, starts, alive, token, inflight, stall, proc, faults, lifted>>

\* A person cancels the task of a run.
CancelTask(s) ==
    /\ s \in alive \ token
    /\ cancel_task({s})
    /\ UNCHANGED <<ledger, inflight, stall, proc, faults, lifted>>

\* The Core dies and starts again: reconcile_after_restart suspends what ran,
\* and the registry is folded from the log.
restart ==
    /\ faults < MaxFault /\ faults' = faults + 1
    /\ task' = [s \in Stage |-> IF task[s] \in {"Running", "Asking"} THEN "Waiting" ELSE task[s]]
    /\ alive' = {} /\ token' = {} /\ inflight' = {} /\ stall' = [k \in Key |-> 0]
    /\ proc' = [p \in Process |-> IF p = Tick THEN [Idle EXCEPT !.at = "boot"] ELSE Idle]
    /\ lifted' = {}
    /\ UNCHANGED <<ledger, stopped, starts>>

-----------------------------------------------------------------------------
Dispatching(p) ==
    \/ dispatch(p) \/ dispatch_waited(p) \/ dispatch_inner(p) \/ dispatch_untrusted(p)
    \/ launch_create(p) \/ launch_start(p) \/ launch_capacity(p) \/ launch_refused(p)
    \/ launched(p) \/ stop_launched(p) \/ record(p) \/ refused(p)

Handling(p) == replace(p) \/ replaced(p) \/ kill(p) \/ killed(p)

Watching ==
    \/ tick_begins \/ cancel_after \/ approval_expired \/ promote \/ dispatch_waiting
    \/ \E r \in proc[Tick].todo :
         \/ settle(r) \/ monitor_none(r)
         \/ \E s \in live_task_of(r) :
              \/ monitor_ended(r, s) \/ monitor_stalled(r, s)
              \/ \E answer \in {"RUN", "SKIP"} : settle_gate(r, s, answer)

Expiring == \E r \in proc[Tick].todo : \E s \in live_task_of(r) : expire_approval(r, s)

Command ==
    \/ UpdateAutomation \/ EnableAutomation \/ DisableAutomation \/ PauseAutomation
    \/ \E p \in Handler : KillAutomation(p)
    \/ \E p \in Handler, k \in Key : fire(p, k) \/ fire_skipped(p, k) \/ fire_changed(p, k)

Tasks(s) == loop_ends(s) \/ loop_cancelled(s)

ANext ==
    \/ Command \/ Watching \/ Expiring \/ restart
    \/ \E p \in Process : Dispatching(p)
    \/ \E p \in Handler : Handling(p)
    \/ \E s \in Stage : Tasks(s) \/ approval(s) \/ CancelTask(s)

ASpec == AInit /\ [][ANext]_vars

-----------------------------------------------------------------------------
(* Properties                                                              *)

\* Types: and only a loop that lives carries a request to cancel.
AutomationTypeOK ==
    /\ version \in Version /\ enabled \in Version \cup {0} /\ paused \in BOOLEAN
    /\ fails \in 0 .. MaxFails
    /\ \A k \in Key :
         /\ run[k].status \in {"none", "Pending", "Queued", "Running"} \cup Over
         /\ run[k].gate \in {"none", "RUN", "SKIP"}
    /\ task \in [Stage -> {"none", "Created", "Running", "Asking", "Waiting"} \cup Ended]
    /\ stopped \subseteq Stage /\ alive \subseteq Stage /\ token \subseteq alive
    /\ inflight \subseteq Key /\ stall \in [Key -> 0 .. StallTicks]

\* A stage of a firing is started once (AUT-B05): neither two dispatches, nor
\* a retry after a refusal, nor the recovery of a run whose loop died with the
\* Core start its task again.
StartedOnce == \A s \in Stage : starts[s] <= 1

\* The main task of a gated definition is made only after its gate ran to its
\* end and said RUN (AUT-C02), also when the Core died in between.
GateBeforeMain ==
    \A k \in Key : VersionOf[k] \in Gated /\ task[<<k, "main">>] # "none" =>
        task[<<k, "gate">>] = "Completed" /\ run[k].gate = "RUN"

\* Nobody is about to stop the task of k.
AtRest(k) ==
    \A p \in Process : proc[p].at \in {"cancel", "expired", "replaced", "killed", "stop"} => proc[p].cur.key # k

\* A run the tick ended (its approval expired, its task ended or stalled, or
\* its loop died with the Core) leaves no loop behind that was not told to
\* stop, whatever dispatches, kills and firings did meanwhile.
WatchedRunIsStopped ==
    \A s \in alive \ token :
        run[s[1]].reason = "WATCHED" => ~AtRest(s[1])

\* When the kill switch has worked off its list and nobody has lifted the
\* pause meanwhile, no run is left that waits, runs or could still start.
KillEndsEveryRun ==
    \A p \in Handler : At(p, "kill") /\ proc[p].todo = {} /\ p \notin lifted =>
        \A k \in Fired : run[k].status \in Over

=============================================================================
