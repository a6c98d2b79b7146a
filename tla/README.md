# modbit: a TLA+ model of the Core

modbit runs coding agents. A long-lived **Core** (`services/modbit-core`) owns
the sessions, tasks and runs of a user, keeps them in one event store, and drives
the agent loop; a desktop application, a CLI and cloud workers are its clients.
This directory models the parts whose correctness depends on the order of
things: the event store and the session lease that fences its writers, the
control of runs under limited capacity, the queue of a person's inputs, tool
calls and their approvals, the automation host, and the hosting of a session by
cloud workers.

    EventStore ───── MCEventStore     EventStoreProofs
    SessionLease ─── MCSessionLease   SessionLeaseProofs (extends EventStoreProofs)
      (extends EventStore)
    RunControl ───── MCRunControl     RunControlProofs
    InputQueue ───── MCInputQueue     InputQueueProofs
      (implements InputPromise)
    ToolCalls ────── MCToolCalls      ToolCallsProofs
    Automation ───── MCAutomation     AutomationProofs
    CloudWorker ──── MCCloudWorker    CloudWorkerProofs

A proof module extends the module it is about; NaturalFacts holds what several of
them need of natural numbers. An MC module gives its specification the functions
and sequences that a `.cfg` cannot write, and nothing else. An operator whose
comment begins "Mutant of" is a plausible mistake in the operator after it; no
specification uses it.

## Inventory

| Part | State it keeps | Operations | What is hard about it |
|---|---|---|---|
| Event store (`crates/event-store/src/store.rs`) | log with a hash chain per aggregate, projections, command ledger, boot generation | append (full, relaxed, fenced, batched, sealed), execute command, import, recover | crash and power loss between any two writes, retries, a connection that stays relaxed |
| Session lease (`domain/session.rs`, `server.rs`) | a generation per session; what each client holds | acquire, take over, retry, fenced write | two owners, a lost reply, a generation minted twice |
| Capacity pool (`core-runtime/capacity.rs`, `modbit-core/capacity.rs`) | tickets, holds of paused tasks, reapers | acquire, renew, lapse, release, hold, reuse, reap | expiry racing renewal, a reaper racing a resume, leaked tickets |
| Runs (`runtime.rs`, `pause.rs`, `server.rs`, `run_control.rs`) | task and run states, `Runtime::tasks`, the loop's position, cancel and park tokens | StartTask, ResumeTask, PauseTask, InterruptTask, SendQueuedInputNow, CancelTask, the loop, restart | everything read before an await and used after it |
| Input queue (`core-runtime/input_queue.rs`, `run_control.rs`) | queued inputs, their order and mode, interrupts asked for, the send behaviour | queue, edit, remove, reorder, send now, stop, pause, interrupt, boundary, stream, tool call | a handler appends, then tells a loop that may have moved on; a kill in between |
| Tool calls and approvals (`tools.rs`, `crates/tools`, `protocol-state`, `approval_expiry.rs`) | a state machine per call, its approval, receipts, what is outstanding on resume | propose, decide, journal, run, record, approve, deny, expire, stop, resume, reconcile | two invokers of one call, unknown effects after a crash |
| Budgets, admission (`core-runtime/budget.rs`, `admission.rs`) | reservations | reserve, settle | overspend by concurrent children |
| Subagents (`spawn.rs`, `subagent.rs`) | parent and child tasks | spawn, park, collect, cancel | a parent parked on a child that ended |
| Cloud store and workers (`event-store/src/cloud`, `apps/cloud-worker`, `apps/cloud-api`) | the session's log, lease and command ledger in PostgreSQL; a Core and two cursors per worker | claim, renew, import, mirror, run a relayed command, complete, stop; API: replay, relay or apply | two workers for one session, a worker that comes back, a cursor saved too early or too late |
| Automations (`automation.rs`, `crates/automation`) | definitions and versions, approval, switches, runs; in memory what is being dispatched | fire, dispatch, gate, settle, monitor, expire, promote, kill, edit, recover | the registry's guard is dropped around every command to the Core |
| Execution daemon, guest, sandbox gateway | processes, output segments | spawn, read, kill | I/O |
| Merge, apply-back, checkpoints | git state, journals | prepare, apply, roll back | crash in the middle |
| Policy, secrets, providers, context, retrieval, memory, skills, verification, browser, computer, desktop, CLI | their own | | text, rules, devices and user interface |

The parts meet in few places. Every durable change is an append to the event
store, under the Core's store lock. What a loop or a tool appends to advance a
task is fenced by the generation of its session's lease, inside the append; a
command handler checks the generation first and writes, without a fence, when it
has the lock again. A loop lives in `Runtime::tasks`, needs a ticket of the pool,
and is told to stop by tokens it looks at when it chooses to. `PROJECT.json` lists every part, also those not modelled, and under
`hazards` the places where a test would hardly reach.

## EventStore

One SQLite database in WAL mode behind one mutex. A public write of `store.rs`
is one IMMEDIATE transaction and therefore one action: `append_full`,
`append_relaxed`, `append_all` (and its sealed form for receipts),
`command_applied`, `command_replayed`, `import_envelopes`. `kill`, `power_loss`
and `recover_on_start` are the failures and the restart.

* `db` is what a reader sees: log, projections, command ledger, boot generation.
* `survivable` is the set of databases a power loss may leave. A full commit
  makes it the singleton of the new database, because syncing the WAL syncs all
  of it; a relaxed commit, or any commit while the connection is stuck at
  `synchronous=NORMAL`, only adds to it. This is SQLite's contract, and external
  to the repository. A process kill loses nothing that was committed.
* `acked` and `replies` are history variables: what callers may have been told.

Hashes are collision free: an event's hash is its id, and `prev` what it was
computed over. Projections are reduced to what other definitions read (sessions
created, lease generations, receipts, the cursor); `rebuild` is the fold that
recovery uses, written as a recursive function; appends and the rebuild share
`apply`, as they do in the code, so `ProjectionsAreTheFold` is about what is
applied and when, not about `apply` itself. A request carries one event, a
batch two requests of one session. The payload filter and the object store are
left out.

An import brings events another Core recorded (`Envelopes`), receipts among them.
A peer's receipt links to the tail of the peer's ledger, which is none, a receipt
that is here too, or one of a session that was never brought here (`PeerTails`);
`insert_receipt` takes it as it stands. `peer` and the command id `Peer` mark what
was imported, so that `OwnReceiptsLink` can speak of what was recorded here. Of
the whole ledger nothing is claimed: see the divergences.

## SessionLease

Extends EventStore with clients. A client holds the generation of the last reply
it received (`held`), and remembers in `via` whether the reply was of a first
execution or of a replay; any reply may be lost. `AcquireSessionLease` mints the
next generation as a command; `AcquireReplayed` is its retry.

There are two kinds of writers. A handler first passes `require_lease`, which
reads the generation and lets the store go, and is then in `checked`; `QueueInput`
(any command of its shape) and `StartTask` write later, without a fence. A loop
that `StartTask` began is in `loops` with the generation the command presented, in
force or not, and presents it inside the append: `FencedAppend` at full durability,
`FencedDelta` at relaxed. The store's failures go on underneath (`crash`,
`restart`); handlers and loops die with the Core, while clients keep what they
hold. *Left out.* That a resumed run refuses a generation
below its own (RunControl has it).

## RunControl

Tasks of one session, the runs of each, at most one loop per task, the pool, the
holds of paused tasks and the reapers that give them back.

*Granularity.* What the code does under one hold of the store lock, of
`Runtime::tasks` or of the capacity mutexes is one step, and every await between
them a point where anything else may happen. So `StartTask` is two steps: the
handler's reads, and `start` (`Runtime::start`), which works with what was read.
`CancelTask` without a loop is two steps, the loop's end three (`check_lease`,
`persist`, `forget`), and the reaper five.

*The loop.* `boundary` is the top of a turn: cancel, park, model policy, ticket,
lease, in this order; before and between them an attention condition may end the
run. `turn` is the rest: it goes round or ends in any of the ways the code
has. A turn that calls a tool whose policy wants an approval goes through
`await_approval` and then `approval_resolved` or `cancelled_wait`, or is cut
short by `send_now` or `stop_task`. The loop's ends are folded by what they do to
task and run: `Suspended` stands for every end that suspends the run and leaves
the task waiting (attention, input, budget, progress, provider, capacity),
`Failed` for MODEL_NOT_ALLOWED, the one that is over.

*Time* is what is left of a ticket, of a reaper's sleep and of a pause, so that
there are finitely many states. A ticket id is given out again only when nothing
refers to it.

*Left out.* A parent parked by its children and the cascade of a cancel to them;
the return from review (`TaskReturnedToWork`) and completion, which follow
`ReadyForReview`; the QUESTION_PENDING guard of a start; tool calls prefetched in
parallel; the record a pause keeps (who, why, which checkpoint). The ledger of
capacity events is not kept: the pool is in memory and restarts empty.

## InputQueue and InputPromise

One task, its queue as the fold of the task's log, the handlers that change it
and the loop that drains it. A handler is several steps: it appends under one
hold of the store and tells the live loop afterwards (`todo[h]` is what it still
has to do), so that the loop may reach its boundary, end, or be followed by
another in between; a `Crash` forgets handlers and loop, and keeps the log. The
vector of waiting inputs is kept as its order, `ahead[i]` being the set of those
before `i`: where an input is put (`Placed`) and what taking some out leaves
(`Without`) are then sets, about which one can reason. The loop's
positions are the boundary (`record_interrupts`, `new_round`, `Taken` and
`dispatch`), the admission, the open stream and the tool call. While a response
streams, the loop looks at the queue only when its watch says the log has grown
(`woken`): a command's append does that, and so does a delta, not when it arrives
(`Delta`) but when the sink publishes it (`flush`); a fenced sink's append is
refused, and its lane is `broken` from then on. `lease_lost` is the refused append of
a loop that lost the lease.

`InputPromise` is what the queue means to the person: an input is asked for, may
be changed or withdrawn while it waits, and is given to the model at most once,
as it was last agreed. `PromiseKept` says InputQueue implements it, with `wanted`
as the commands were acknowledged and `given` as the TaskSteered records on the
log. A record written twice would map to a text no promise gives.

*Left out.* What a record says beyond what the queue folds; the order of messages
inside one boundary's batch; commands on a task that is over; replays of a command
id, which change nothing; the tail of a delta that the redactor holds back until
more text has come. The append of a dispatch is refused only by the fence here,
where the code ignores any error of it (`runtime.rs:3753`): `ModelSeesTheLog` does
not cover a store that fails for another reason.

## ToolCalls

One run at one message of the model, whose calls are `Ask`. The loop and the
clients (InvokeTool, and ResolveApproval's continuation) go through the same
`invoke`: `Enter`, `Propose`, `decide` (denied, an approval asked for, or
allowed), `Dispatch` (the journal, and the authorization in the receipts ledger),
`Perform` (the effect), `Record`. Each takes the store's lock anew and works with
the rows read at the start (`snap`). A call of the model is executed under an id
the Core mints, so one `a \in Ask` may have several; `of` names it. Beside the
invokers: answers to approvals, the sweep that expires them, EmergencyStop,
takeovers, and a kill of the Core, after which orphaned calls are of unknown outcome, a
StartTask finds what is outstanding (`resume`), and the loop or a user reconciles
it. `ran` counts the effects that really happened. A receipt is left by an effect
of a protected class, and, when its outcome is unknown, by any input of a browser
or computer tool (`Browser`).

*Left out.* Arguments, schemas, hooks and the projection of tools; the parallel
prefetch of read-only calls; interrupts (InputQueue); a kill inside the recovery.

## Automation

One definition and its versions, its runs, and the tasks of each: a main one and,
where the version has it, a gate. A step is one hold of the registry's guard or
one command to the Core; every process keeps the rows it read
(`proc[p]`) while others change them. Handlers `fire`, `replace`, `dispatch` and
`kill`; the one tick settles runs left by a dead Core, watches running ones
(`monitor_*`, `settle_gate`, `expire_approval`), promotes a queued run and
dispatches what waits. The tasks are coarse: a loop's end is one step, because
RunControl takes it apart. `restart` forgets what is in memory. The history
variable `lifted` holds the kills during whose work somebody lifted the pause they
had set: what comes of such a kill is not its doing.

*Left out.* When schedules fire (a slot is a key like any other), inputs, filters
and payloads, test runs, costs, and what a person does to the task of a run other
than answer its approval and cancel it.

## CloudWorker

One session: its log, lease row and command ledger in the cloud store; workers,
each with a Core and a data directory that outlive it; the API, which looks up
the lease and then relays a command to the owner or applies it itself. A
transaction of the cloud store is one step, and so is a command to a Core. A
worker claims, imports what came after its cursor, acquires the lease on its own
Core, and then loops: mirror, take commands, run them, mirror, complete, start
tasks. Anything may fail in between: the lease expires, another worker claims, the
store errs, the Core or the worker dies. An event names its predecessor in its
aggregate, which is what its integrity hash fixes. What the API or a mirror leaves
of a list of events is the sublist at some of its places (`Of`, `Pick`).

*Left out.* Other sessions and tenants, payload objects, capabilities, handoffs,
the policy bundle, trust and budgets of a start, forge ingestion; batches are not
cut at 500 events.

## Runs

Sizes are of the complete state space.

| Run | Expect | Checks | Bounds |
|---|---|---|---|
| Store | pass | `TypeOK`, `ChainsVerify`, `OwnReceiptsLink`, `CommandsAppliedOnce`, `ProjectionsAreTheFold`, `AckedSurvive`, `RepliesAgree`, `LeaseNeverRollsBack` | 3 events, 2 commands, 2 generations, 2 starts; the connection does not stick; 35 thousand states |
| SessionLease | pass | `OneMinterPerGeneration`, `FencedWritesInForce` | 2 clients, 4 commands, 6 events, 3 generations, 2 starts; 280 thousand states |
| SessionLeaseReplay | violation | `SingleMutationOwner` | 2 clients, 3 commands |
| RunPauses | pass | `RunTypeOK`, `RunnerNeverRobbed`, `HoldsEnd`, `ReapersEnd`, `PauseLands` | 1 task that may wait for approvals, 2 reapers, no takeover, unbounded pauses and resumes; 150 thousand states |
| RunRestarts | pass | `OneRunningRun`, `WithinLimits` | 1 task, 2 starters, a takeover, a restart, 2 runs; 930 thousand states |
| RunForked | violation | `OneRunningRun` | approvals, a takeover, 2 runs |
| InputQueue | pass | `QTypeOK`, `ModelSeesTheLog`, `UntouchedInOrder`, `PromiseKept` | 2 inputs, one of them a producer's (not to be edited), 2 texts, 1 handler, a takeover, unbounded kills; 1.2 million states |
| InputLands | pass | `SendNowLands`, `StopLands`, `SteerLands` | 1 input, 1 interrupt, 2 handlers, a takeover, unbounded kills; send now interrupts; 220 thousand states |
| ToolCalls | pass | `CTypeOK`, `ApprovedOnce`, `EffectsOnTheLedger`, `OutstandingHolds`, `ConfirmedStays`, `LoopEnds` | 1 gated, protected call, 3 minted ids, 1 client, a takeover, a kill; 540 thousand states |
| ToolTwice | violation | `EffectOnce` | 1 call, a kill |
| Automation | pass | `AutomationTypeOK`, `StartedOnce`, `GateBeforeMain`, `WatchedRunIsStopped`, `KillEndsEveryRun` | 2 firings, of a version without and one with a gate; Queue (1 place) or Replace; 1 handler beside the tick; 1 kill, pause, disable or death; 3.5 million states |
| CloudWorker | pass | `CloudTypeOK`, `CloudChains`, `TaskCreatedOnce`, `CursorsTellTheTruth`, `OnlyTheOwnerAdds` | 2 symmetric workers, 1 command (either kind), 1 event of work, 3 claims and faults together; 1.5 million states |

*Why these bounds.* A chain, a fence or a receipt link is wrong between two
neighbouring events; three events give a neighbour written before a crash, one
after it, and one more. Two boots put a crash between any two of them. Two
clients and three generations let a client be superseded, come back, and be
superseded again. For runs, two is where the interesting things happen: two
starters with the same reads, two reapers of one task (the one a resume left
behind, and the next pause's), two runs of one task. Times are one or two ticks: a
lapse, a renewal just in time and a renewal too late all happen, and in RunPauses
the idle bound is two ticks so that a reaper renews before it gives up. RunPauses
has no takeover: with one its liveness check takes too long, so `PauseLands`,
`HoldsEnd` and `ReapersEnd` are checked of loops that keep their lease, and a loop
that loses it ends by itself; RunRestarts, and the proof of `RunnerNeverRobbed`,
have takeovers. In Automation one handler works beside the tick, so no two
handlers overlap in TLC: a firing during a kill rests on `KillIsComplete`, which is
for any number. The
number of tickets is the smallest for which the pool never lacks a free id
(`CanIssue`): a lack would silently disable starts. Two inputs are needed for
an order, two handlers for a command that overtakes another between its append
and its signal. One call of the model has several ids, so one is enough for a
second execution of it. Two firings let one replace, queue behind, or outlive
the other, and the edit between them lets a run be judged by the wrong version.
Two workers and three claims let a worker lose the session and come back to
events on its own disk.

`CHECK_DEADLOCK FALSE` where a history really ends: a cancelled task with an
empty pool (RunControl), a finished message (ToolCalls), the bound on claims
(CloudWorker). The other runs check deadlock.

*Fairness.* It is given to what the Core itself drives and never to a person or
a client.

* RunControl: each loop and each reaper, which are spawned tasks polled until
  they end and whose calls carry deadlines (an approval expires, after 24 hours
  by default); strong fairness of `turn`, since a turn makes finitely many tool
  calls and cannot wait for approvals for ever; the clock.
* InputQueue: a handler that has begun finishes, the loop's steps happen, and so
  does the timer of its sink; a response goes on or ends (the gateway's deadline,
  and the stream bound, which also counts text that a broken sink drops), a call
  ends (its timeout). A response is *not* assumed to end while its text can be
  published: the three properties hold against one that streams for ever.
* ToolCalls: the loop, handlers that have begun, a start that was accepted, and
  the sweep of expired approvals, which runs twice a second.
* EventStore, SessionLease, Automation and CloudWorker: none, safety only.

### What the violations show

* **SessionLeaseReplay.** A comment says a replayed acquisition returns the
  generation it minted; the code returns the one in force. A client that lost
  its reply, was superseded and retries is handed its successor's generation.
* **RunForked.** While a call waits for an approval, the task is already Waiting and the
  run Running. A stop, an interrupt with a pause behind it, or a takeover ends
  the wait without TaskResumed; the loop's last batch is then Waiting to Waiting,
  which is illegal, and is dropped. The run stays Running, and the next start,
  finding no suspended run, makes a second one.
* **ToolTwice.** A call's outcome and the step that carries it to the model are
  two appends. A kill between them leaves a call that is terminal, hence not
  outstanding, and without a step; the resumed run asks again and executes it
  under a new id.

### Other divergences met while modelling

No run is about these; several are why a property is stated as narrowly as it is.

*Store.* After a failed return to full durability "every further append is
refused", but only `append` and `append_fenced` look at the flag (`store.rs:334`,
`584`); batches, commands and imports commit at the weaker level. A fenced
`append_all` checks the lease of the first request's session only (no caller mixes
sessions). A comment says a receipt links to the tail "or it does not land —
whatever path appended it" (`store.rs:2178`), and GetEffectReceipts
(`server.rs:5186`) and the doctor (`doctor.rs:207`) verify one chain over all
sessions; an import does not pass by that check (`store.rs:646`), so a peer's
receipt whose predecessor is not the tail here is taken, and the chain no longer
verifies though nobody tampered with it. In the model the invariant that all
receipts link is refuted within four steps; `OwnReceiptsLink` says what
remains true.

*Lease.* The docs say a stale owner cannot advance state (docs/33:37) and that only
the current lease can append mutation events (docs/40:66). A handler's check of
the generation and its write are two holds of the store (`server.rs:2922`, then
`2947`), and the write has no fence, nor have the appends of `Runtime::start`
(`runtime.rs:290`). Another client may acquire the session in between: the
superseded owner's input, or start, lands behind the acquisition. In the model
that takes five steps (create, acquire, `require_lease`, the other's acquire,
`QueueInput`). `FencedWritesInForce` is therefore about fenced writes only; a loop
that such a start begins is refused at its first append.

*Runs.* The loop's last lease check and its fenced outcome are two steps
(`runtime.rs:6679`); a takeover between them leaves task and run Running without
a loop until the Core restarts. A cancel of a live loop is a token in memory
(docs/14 speaks of a durable one) that a restart forgets. A stop is on the log
before the park is raised (`run_control.rs:17`), so a kill in between forgets it.

*Tool calls.* A failed journal records ToolCallFailed twice (`tools.rs:1958`). An
emergency stop that lands after `decide` does not stop the dispatch (docs/23:97).
ReconcileToolCall checks and then appends, so two verdicts may both be recorded.
A call the Core reconciled is executed anew if a kill precedes its step. The
sweep skips the tasks of automations, whose host expires their approvals itself.

*Automations.* A kill of a Pending run between `killed_meanwhile` and
AutomationDispatched leaves a task nobody owns (`automation.rs:3270`). Replacing
a run in the middle of its launch orphans its task, and a kill that read the run
in its gate stops the gate only; `KillEndsEveryRun` is therefore about
runs, and `WatchedRunIsStopped` about what the tick ended. A crash between the
gate's SKIP and the run's end leaves the run Running and its slot taken
(docs/68:62). A kill pauses the definition and then works off the runs it read; a
person who lifts the pause meanwhile may fire a run the kill does not know, and
pausing again does not end it. `KillEndsEveryRun` once only asked that the definition
be paused; the proof found that case, which needs two handlers and which the run,
with one, could not reach. `promote` reads that nothing is active and drops the guard, so two
runs may be active under Queue (docs/68:55).

*Cloud.* A mirror error other than StaleLease is logged, and the commands are
completed all the same (`session.rs:352`, docs/24:21). The API's lookup of the
lease and its append are two transactions, so it may write to a held session's
log (`routes.rs:443`); the owner's next mirror is then refused, for good. An
import moves the export cursor past local events that were never mirrored, and a
worker that returns with events of its own has its import refused for good:
`CursorsTellTheTruth` speaks of what an owner recorded since it took
the session. Events recorded between the last mirror and the Core's stop are not
on the cloud log (`session.rs:459`). A successor that re-runs a mirrored CreateTask
reports it REJECTED though it took effect. That owners' events lie on the
cloud log in the order of their generations was tried and is false.

## Proofs

TLAPS checks these for every value of the constants that satisfies the assumptions
of the modules: `StoreAssumption`, `LeaseAssumption`, `RunAssumption`,
`QueueAssumption`, `CallAssumption`, `AutomationAssumption` and
`CloudAssumption`. They give types, say which sets are disjoint, and which are
finite. Every safety invariant, action property and refinement that a passing run
checks is proved. Two further assumptions appear in theorems, each needed:
`~CanStick` (the connection always returns to full durability; a stuck one commits
and acknowledges batches, commands and imports unsynced) and `~Asks` (no call
waits for an approval; RunForked is the counterexample otherwise).

**EventStoreProofs.** A power loss may bring back any survivable database, so
nothing about `db` alone is inductive. `StoreInv` says of *every* survivable
database that it is `Good`: its log's aggregates are numbered and linked
(`ChainsIn`), its fenced events lie between acquisitions (`FencesIn`), the
receipts recorded here are linked (`ReceiptsIn`: imported ones come in between,
and link to anything), its command rows name exactly the commands'
events (`CommandsIn`), and the leases of the projections are the log's
(`LeasesIn`). The argument: a step either keeps a survivable database or writes one
from `db` (`StepShape`), and writing keeps `Good` (`WrittenGood`, one lemma per
conjunct). From it `Typing`, `Chains`, `Fencing`, `ReceiptChain` and `CommandsOnce`.

* `ProjectionsFold`: that the projections are the fold of the log is about a
  recursive function. Two replays of one log agree because there is no least
  place where they differ, and a replay is extended by `apply` at its end; so every
  survivable database stays folded, and recovery's rebuild changes nothing.
* `Durability` and `LeaseMonotone`, for `~CanStick`, add that all survivable
  databases hold what was acknowledged and agree on the leases (`DurableInv`):
  between two syncs only deltas are written. `RepliesNeverDiffer`, for the same
  case, adds that every reply is what the command row of every survivable database
  says.

**SessionLeaseProofs.** `LeaseImplementsStore` is a refinement: each lease command
is a command, append or delta of the store with certain requests, and what
clients do with replies, and a handler's check, are stutters. `LeaseBounds` is
needed because the store knows fences only up to `MaxGen`. The store's theorems
then hold under leases; `LeaseFencing` says so for the fence: the appends of loops
land only under the generation in force, whatever unfenced handlers write around
them. It says nothing of what those handlers write. `OneMinter` (`~CanStick`) rests on `MinterInv`: no client
holds a generation the store has not reached, so the next one is new to all of
them. It is about applied acquisitions; SessionLeaseReplay shows that a replayed
one breaks it.

**RunControlProofs.** `NeverOverdrawn`: no operation on the pool adds a live
ticket except an acquisition that fits; cardinality does the rest. `ControlInv` is
the types, that a loop names one of its task's runs, and `Exclusive`: a ticket has at
most one of loops in use, holds and releasing reapers. Without it nothing keeps a
reaper from giving back what a resumed loop works with; with it follow `RunTyped`
and `NeverRobbed`, where approvals wait or not. `SingleRunningRun` adds, for
`~Asks`, that a running run implies a running task (`RunsInv`), so a start, which
needs a task that is not running, finds none.

**InputQueueProofs.** The invariant says for each input what the commands, its item
and the log's TaskSteered records agree on (`ItemFits`), that `ahead` is a strict
total order of the waiting inputs (`Line`), that of two that nobody moved the
earlier is ahead (`ArrivalInv`), and that the transcript is the log's but for a
fenced loop on its way out (`ShownInv`). From it `QueueTyped`, `QueueIsALine`,
`FollowUpsInOrder` and `TranscriptIsTheLog`. `QueueKeepsPromise` is the refinement
of InputPromise: every step is one of the promise's or a stutter, a reorder and
everything of the loop but the dispatch being stutters.

**ToolCallsProofs.** Per row, how state, approval, receipts and reconciliations fit
(`RowsInv`); per invoker, how far its call must have got for it to be where it is
(`Places`), and that what it read is a past of the row (`SnapInv`); that at most one
invoker runs a call, authorized and approved (`RunnersInv`); what a resume read
(`ResumeInv`). This gives `EffectsAreApproved` and `LedgerLeads`. `NoSecondDispatch`
and `ConfirmedIsNotRepeated` are about the several ids one call of the model may
have: they need that the live id of a call is its newest, that a call the
loop has still to come to is among what it resumed with, and that an id is minted
only where none is live (`Mints`).

**AutomationProofs.** Runs and their tasks (`RunsInv`, `TasksInv`); the records a process
read, of which the run has still everything (`HeldInv`); one dispatcher per key in
flight, and what the stage it launches may rely on (`DispatchInv`); what is left of a
kill (`HandlersInv`) and of the tick's list (`TickFits`), which only the tick's
being alone keeps current; and that the loops of a run the tick ended were told, or
are about to be (`ToldInv`). Most steps are calm for most processes, and
`StepKeeps`, `CalmStep` and `QuietStep` say so once. From it `StagesStartOnce`,
`GateComesFirst`, `WatchedAreStopped` and `KillIsComplete`.

**CloudWorkerProofs.** The cloud log is a chain (`StoreOK`), and each worker is
`Sound`: `CursorsTellTheTruth`, what it takes while a transfer is made and its
cursor not yet saved, and that every event of a Core is its own or came from the
cloud log. Logs only grow, and growing keeps the others sound (`SoundCloud`). From
it `ChainsAreWhole`, `CreatedOnce`, `CursorsAreTrue` and `OwnersAdd`.

*Only model-checked.* Liveness under fairness is outside the prover: `PauseLands`,
`HoldsEnd`, `ReapersEnd`, `SendNowLands`, `StopLands`, `SteerLands`, `LoopEnds`. The
three properties of the violations are refuted; `OneRunningRun` is proved where no call
waits for an approval, `OneMinterPerGeneration` for applied acquisitions,
`OwnReceiptsLink` for what is recorded here and the fence for who presents it. The
library's induction theorems take operators the provers cannot instantiate;
where induction was needed, a least counterexample (`LeastNat`) takes its place.

## Plan

Done: EventStore, SessionLease, RunControl, InputQueue with the abstract
InputPromise, ToolCalls, Automation and CloudWorker, with the proofs of what is
checked of their safety. Next, in this order:

1. An abstract lease (one owner at a time) implemented by SessionLease without
   replays, and by the cloud lease.
2. Proof: the safety facts liveness rests on (what a loop told to stop can still
   do; that a hold that is not reused has a reaper).
3. Budgets and admission: reservations never exceed the parent's; the admission
   decision against a reference definition.
4. Subagents: a parent parked on children, and the cascade of a cancel, on top of
   RunControl.

## Not modelled

Budgets, admission and subagents are planned above. Projections other than those
the definitions read are straight SQL. The execution daemon, guest agent, sandbox
gateway, browser and computer control are I/O with little order of their own;
merge, apply-back and checkpoints are journalled git and file operations whose
interesting state is outside the process. Policy and epochs appear by their
verdicts only. Context, prompts, compaction, providers, secrets, retrieval,
memory, skills and verification are text, rules and network. Desktop and CLI are
clients. Together they are most of the repository's lines.
