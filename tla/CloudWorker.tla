----------------------------- MODULE CloudWorker -----------------------------
(***************************************************************************)
(* One session in the cloud: its log and its lease in the cloud store      *)
(* (crates/event-store/src/cloud/mod.rs), the workers that host it, each   *)
(* with a Core and a data directory of its own                             *)
(* (apps/cloud-worker/src/session.rs), and the API that applies a command  *)
(* itself or relays it to the owner (apps/cloud-api/src/routes.rs).        *)
(*                                                                         *)
(* A transaction of the cloud store and a command to a Core are steps of   *)
(* their own; between two of them leases expire, other workers claim, and  *)
(* workers and Cores die.  What a Core recorded and the two cursors beside *)
(* it outlive the worker.                                                  *)
(*                                                                         *)
(* Left out: other sessions and tenants, payload objects, requirements and *)
(* capabilities, handoffs, the policy bundle, trust and budgets of a start *)
(* and forge ingestion; batches are not cut at 500 events.                 *)
(***************************************************************************)
EXTENDS Naturals, Sequences, FiniteSets, SequencesExt

CONSTANTS
    Worker,   \* the workers, each with its data directory
    Cmd,      \* the commands clients send
    MaxWork,  \* bound on what the loops of the tasks record
    Budget    \* bound on claims, deaths, store errors and orders to stop, together

ASSUME CloudAssumption ==
    /\ IsFiniteSet(Worker) /\ IsFiniteSet(Cmd)
    /\ {MaxWork, Budget} \subseteq Nat
    /\ "api" \notin Worker /\ {"session", "t", "none"} \cap Cmd = {}

VARIABLES
    kind,   \* CreateTask makes the task c, Task:steer speaks to the task "t"
    cloud,  \* the session's events in the cloud store
    lease,  \* the row of session_leases
    row,    \* the status of each command in the ledger
    queue,  \* the relayed commands, oldest first
    api,    \* the requests the API has looked up the lease for
    core,   \* the session's events in each worker's Core
    st,     \* mirror.json: how far each worker imported and exported
    host,   \* what each worker is doing with the session
    work,   \* how much the loops of the tasks recorded
    faults  \* how many faults there were

store == <<kind, cloud, lease, row, queue>>
disks == <<core, st>>
vars == <<store, api, disks, host, work, faults>>

Task == {"t"} \cup Cmd
Creates == {c \in Cmd : kind[c] = "CreateTask"}
Idle == [at |-> "idle", gen |-> 0, up |-> FALSE, base |-> 0, upto |-> 0, next |-> "none",
         todo |-> <<>>, done |-> <<>>, started |-> {}]

-----------------------------------------------------------------------------
(* Logs.  An envelope names its predecessor in its aggregate: that is what *)
(* its integrity hash fixes.                                               *)

Of(log, a) == {i \in DOMAIN log : log[i].agg = a}
NoId == <<"none", 0>>
HeadId(log, a) == IF Of(log, a) = {} THEN NoId ELSE log[Max(Of(log, a))].id
Ids(log) == {log[i].id : i \in DOMAIN log}

\* The elements of s at the places I, in their order.
Rank(I, i) == Cardinality({k \in I : k <= i})
Pick(s, I) == [j \in 1 .. Cardinality(I) |-> s[CHOOSE i \in I : Rank(I, i) = j]]

Event(log, by, a, type, cmd) ==
    [id |-> <<by, Len(log) + 1>>, agg |-> a, type |-> type, cmd |-> cmd, prev |-> HeadId(log, a)]

\* Mutant of Continues: an event is taken wherever its aggregate stands.
Continues_any(log, e) == TRUE

\* aggregate_head: the chained hash, and with it the sequence, is the next one.
Continues(log, e) == e.prev = HeadId(log, e.agg)

\* mirror and import_envelopes: what is present is skipped, the rest must
\* continue its chains, or nothing of the batch is taken.
Fresh(log, batch) == Pick(batch, {i \in DOMAIN batch : batch[i].id \notin Ids(log)})
Fits(log, batch) ==
    LET new == Fresh(log, batch)
    IN  \A i \in DOMAIN new : Continues(log \o SubSeq(new, 1, i - 1), new[i])
Taken(log, batch) == log \o Fresh(log, batch)

\* The state of a task, as a log tells it.
State(log, t) ==
    LET steps == {i \in Of(log, t) : log[i].type # "input"}
    IN  IF steps = {} THEN "none"
        ELSE CASE log[Max(steps)].type = "created" -> "Queued"
               [] log[Max(steps)].type = "run" -> "Running"
               [] OTHER -> "Waiting"

CInit ==
    /\ kind \in [Cmd -> {"CreateTask", "Task:steer"}]
    /\ LET born == <<Event(<<>>, "api", "session", "created", "none")>>
       IN  cloud = IF Creates = Cmd THEN born ELSE Append(born, Event(born, "api", "t", "created", "none"))
    /\ lease = [worker |-> "none", gen |-> 0, live |-> FALSE]
    /\ row = [c \in Cmd |-> "none"] /\ queue = <<>> /\ api = {}
    /\ core = [w \in Worker |-> <<>>] /\ st = [w \in Worker |-> [imported |-> 0, exported |-> 0]]
    /\ host = [w \in Worker |-> Idle]
    /\ work = 0 /\ faults = 0

-----------------------------------------------------------------------------
(* The API                                                                 *)

\* A client sends c, or sends it again; a recorded command is replayed.  What
\* relay_if_held finds decides: relay, or apply here.
request(c) ==
    /\ row[c] = "none"
    /\ api' = api \cup {<<c, IF lease.live THEN "relay" ELSE "append">>}
    /\ UNCHANGED <<store, disks, host, work, faults>>

\* enqueue_command: on the ledger once.
enqueue(c) ==
    /\ <<c, "relay">> \in api /\ api' = api \ {<<c, "relay">>}
    /\ IF row[c] = "none"
         THEN row' = [row EXCEPT ![c] = "PENDING"] /\ queue' = Append(queue, c)
         ELSE UNCHANGED <<row, queue>>
    /\ UNCHANGED <<kind, cloud, lease, disks, host, work, faults>>

\* append, of create_task and task_action: the events and the ledger's row in
\* one transaction, which a row that is there already undoes.
append(c) ==
    LET a == IF c \in Creates THEN c ELSE "t"
    IN  /\ <<c, "append">> \in api /\ api' = api \ {<<c, "append">>}
        /\ IF row[c] = "none" /\ (c \in Creates => Of(cloud, a) = {})
             THEN /\ cloud' = Append(cloud, Event(cloud, "api", a,
                                       IF c \in Creates THEN "created" ELSE "input", c))
                  /\ row' = [row EXCEPT ![c] = "ACCEPTED"]
             ELSE UNCHANGED <<cloud, row>>
        /\ UNCHANGED <<kind, lease, queue, disks, host, work, faults>>

-----------------------------------------------------------------------------
(* The lease                                                               *)

\* Mutant of Holds: any live lease will do.
Holds_any(w) == lease.live

Holds(w) == lease.live /\ lease.worker = w /\ lease.gen = host[w].gen

\* The owner renews too late, or the store does not answer it.
expire ==
    /\ lease.live /\ lease' = [lease EXCEPT !.live = FALSE]
    /\ UNCHANGED <<kind, cloud, row, queue, api, disks, host, work, faults>>

\* release_lease, of the worker and generation that hold it.
release(w) ==
    /\ lease' = IF lease.worker = w /\ lease.gen = host[w].gen
                THEN [lease EXCEPT !.live = FALSE] ELSE lease
    /\ UNCHANGED <<kind, cloud, row, queue>>

-----------------------------------------------------------------------------
(* host_inner                                                              *)

At(w, a) == host[w].at = a
Goes(w, a) == host' = [host EXCEPT ![w].at = a]
Ends(w) == host' = [host EXCEPT ![w] = Idle]
Fails == lease.gen + faults < Budget /\ faults' = faults + 1

\* What a Core records: its own events, numbered by its own log.
Records(w, a, type, cmd) ==
    core' = [core EXCEPT ![w] = Append(@, Event(@, w, a, type, cmd))]

\* reconcile_after_restart: a Core that starts suspends what ran when it died,
\* each task in its own aggregate.
Reconciled(w) ==
    LET ran == SetToSeq({t \in Task : State(core[w], t) = "Running"})
    IN  core[w] \o [i \in DOMAIN ran |->
                      [Event(core[w], w, ran[i], "stop", "none") EXCEPT !.id = <<w, Len(core[w]) + i>>]]

\* claim_ready_session, of an expired lease, by a worker that is not still
\* hosting the session; then its Core is started.  A session stays ready from
\* its first task on.
claim(w) ==
    /\ At(w, "idle") /\ ~lease.live /\ lease.gen + faults < Budget
    /\ lease' = [worker |-> w, gen |-> lease.gen + 1, live |-> TRUE]
    /\ core' = [core EXCEPT ![w] = Reconciled(w)]
    /\ host' = [host EXCEPT ![w] = [Idle EXCEPT !.at = "import", !.gen = lease.gen + 1, !.up = TRUE]]
    /\ UNCHANGED <<kind, cloud, row, queue, api, st, work, faults>>

\* import_cloud_events: what came after the cursor, until nothing does; then
\* AcquireSessionLease on the Core, and into the loop.
import(w) ==
    LET batch == SubSeq(cloud, st[w].imported + 1, Len(cloud))
    IN  /\ At(w, "import")
        /\ \/ /\ host[w].up /\ batch = <<>>
              /\ Records(w, "session", "lease", "none")
              /\ host' = [host EXCEPT ![w].at = "pass", ![w].base = Len(core[w])]
           \/ /\ host[w].up /\ batch # <<>> /\ Fits(core[w], batch)
              /\ core' = [core EXCEPT ![w] = Taken(@, batch)]
              /\ host' = [host EXCEPT ![w].at = "import_save", ![w].upto = Len(cloud),
                            ![w].next = IF Fresh(core[w], batch) = <<>> THEN "present" ELSE "imported"]
           \/ /\ host[w].up => ~Fits(core[w], batch)
              /\ Goes(w, "failed") /\ UNCHANGED core
        /\ UNCHANGED <<store, api, st, work, faults>>

\* The cursors move; the export cursor to the end of the Core's log, if
\* anything was new to it.
import_save(w) ==
    /\ At(w, "import_save")
    /\ st' = [st EXCEPT ![w] = [imported |-> host[w].upto,
                                exported |-> IF host[w].next = "imported" THEN Len(core[w]) ELSE @.exported]]
    /\ host' = [host EXCEPT ![w].at = "import", ![w].upto = 0, ![w].next = "none"]
    /\ UNCHANGED <<store, api, core, work, faults>>

\* mirror_local_events: read from the Core what is past the cursor ...
Reads(w, exported, next) ==
    host' = [host EXCEPT ![w] = [@ EXCEPT
        !.at = IF host[w].up /\ Len(core[w]) > exported THEN "mirror" ELSE next,
        !.upto = IF host[w].up /\ Len(core[w]) > exported THEN Len(core[w]) ELSE 0,
        !.next = IF host[w].up /\ Len(core[w]) > exported THEN next ELSE "none"]]

\* Each pass begins with a look at the fence, and with a mirror.  The heartbeat
\* fences an owner whose renewal was refused; a lease once lost stays lost, so
\* whether it did so by now is a choice.
pass(w) ==
    /\ At(w, "pass")
    /\ \/ ~Holds(w) /\ Ends(w)
       \/ Reads(w, st[w].exported, "pending")
    /\ UNCHANGED <<store, api, disks, work, faults>>

\* ... send it, under the lease; a stale one fences the worker, any other
\* refusal is logged and the pass goes on; a worker that stops goes on anyway.
Mirrored(w) == host' = [host EXCEPT ![w].at = host[w].next, ![w].next = "none", ![w].upto = 0]
Batch(w) == SubSeq(core[w], st[w].exported + 1, host[w].upto)

mirror(w) ==
    /\ At(w, "mirror")
    /\ \/ /\ Holds(w) /\ Fits(cloud, Batch(w))
          /\ cloud' = Taken(cloud, Batch(w)) /\ Goes(w, "mirror_save")
       \/ /\ Holds(w) /\ ~Fits(cloud, Batch(w))
          /\ Mirrored(w) /\ UNCHANGED cloud
       \/ /\ ~Holds(w) /\ UNCHANGED cloud
          /\ IF host[w].next = "stopped" THEN Mirrored(w) ELSE Ends(w)
    /\ UNCHANGED <<kind, lease, row, queue, api, disks, work, faults>>

\* The store fails: before the batch is committed, or after.
mirror_error(w) ==
    /\ At(w, "mirror") /\ Fails /\ Mirrored(w)
    /\ \/ UNCHANGED cloud
       \/ Holds(w) /\ Fits(cloud, Batch(w)) /\ cloud' = Taken(cloud, Batch(w))
    /\ UNCHANGED <<kind, lease, row, queue, api, disks, work>>

\* Mutant of mirror_save: the cursor moves to the end of the Core's log.
mirror_save_end(w) ==
    /\ At(w, "mirror_save")
    /\ st' = [st EXCEPT ![w].exported = Len(core[w])]
    /\ Reads(w, Len(core[w]), host[w].next)
    /\ UNCHANGED <<store, api, core, work, faults>>

\* Mutant of mirror_save: one too many.
mirror_save_next(w) ==
    /\ At(w, "mirror_save")
    /\ st' = [st EXCEPT ![w].exported = host[w].upto + 1]
    /\ Reads(w, host[w].upto, host[w].next)
    /\ UNCHANGED <<store, api, core, work, faults>>

\* ... move the cursor to the last event sent, and look again.
mirror_save(w) ==
    /\ At(w, "mirror_save")
    /\ st' = [st EXCEPT ![w].exported = host[w].upto]
    /\ Reads(w, host[w].upto, host[w].next)
    /\ UNCHANGED <<store, api, core, work, faults>>

\* pending_commands, oldest first.
pending(w) ==
    /\ At(w, "pending")
    /\ LET todo == Pick(queue, {i \in DOMAIN queue : row[queue[i]] = "PENDING"})
       IN  host' = [host EXCEPT ![w].at = IF todo = <<>> THEN "start" ELSE "execute", ![w].todo = todo]
    /\ UNCHANGED <<store, api, disks, work, faults>>

\* execute_relayed: CreateTask under the command's own id, which this Core
\* answers again if it ran it, and refuses if the task came with the log; a
\* steer under a fresh id, always recorded.  A dead Core refuses everything.
Ran(w, c) == \E i \in DOMAIN core[w] : core[w][i].cmd = c /\ core[w][i].id[1] = w

\* Mutant of Outcome: a create takes no expected sequence.
Outcome_unchecked(w, c) ==
    IF ~host[w].up THEN "REJECTED"
    ELSE IF c \notin Creates \/ ~Ran(w, c) THEN "ACCEPTED" ELSE "replayed"

Outcome(w, c) ==
    IF ~host[w].up \/ (c \in Creates /\ ~Ran(w, c) /\ Of(core[w], c) # {}) THEN "REJECTED"
    ELSE IF c \in Creates /\ Ran(w, c) THEN "replayed" ELSE "ACCEPTED"

execute(w) ==
    /\ At(w, "execute")
    /\ IF host[w].todo = <<>> THEN Reads(w, st[w].exported, "complete") /\ UNCHANGED core
       ELSE LET c == Head(host[w].todo)
                out == Outcome(w, c)
            IN  /\ host' = [host EXCEPT ![w].todo = Tail(@),
                              ![w].done = Append(@, <<c, IF out = "replayed" THEN "ACCEPTED" ELSE out>>)]
                /\ IF out # "ACCEPTED" THEN UNCHANGED core
                   ELSE IF c \in Creates THEN Records(w, c, "created", c) ELSE Records(w, "t", "input", c)
    /\ UNCHANGED <<store, api, st, work, faults>>

\* complete_command: once, whoever holds the lease; an error is logged.
complete(w) ==
    /\ At(w, "complete")
    /\ IF host[w].done = <<>> THEN Goes(w, "start") /\ UNCHANGED <<row, faults>>
       ELSE LET d == Head(host[w].done)
            IN  /\ host' = [host EXCEPT ![w].done = Tail(@)]
                /\ \/ row' = [row EXCEPT ![d[1]] = IF @ = "PENDING" THEN d[2] ELSE @] /\ UNCHANGED faults
                   \/ Fails /\ UNCHANGED row
    /\ UNCHANGED <<kind, cloud, lease, queue, api, disks, work>>

\* start_queued: a queued task is started, unless StartTask refuses it.
\* Then the next pass, or an order to stop: a last mirror, and an end.
start(w) ==
    LET todo == {t \in Task : State(core[w], t) = "Queued"} \ host[w].started
    IN  /\ At(w, "start")
        /\ \/ /\ \/ Goes(w, "pass") /\ UNCHANGED faults
                 \/ Fails /\ Reads(w, st[w].exported, "stopped")
              /\ UNCHANGED core
           \/ \E t \in todo :
                /\ host[w].up /\ host' = [host EXCEPT ![w].started = @ \cup {t}]
                /\ Records(w, t, "run", "none") /\ UNCHANGED faults
        /\ UNCHANGED <<store, api, st, work>>

\* End::Stopped, and End::Failed.
ended(w) ==
    /\ At(w, "stopped") \/ At(w, "failed")
    /\ release(w) /\ Ends(w)
    /\ UNCHANGED <<api, disks, work, faults>>

-----------------------------------------------------------------------------
(* The Cores, and the end of workers and Cores                             *)

\* The loop of a task records what it does.
task_works(w, t) ==
    /\ host[w].up /\ t \in host[w].started /\ State(core[w], t) = "Running" /\ work < MaxWork
    /\ Records(w, t, "run", "none") /\ work' = work + 1
    /\ UNCHANGED <<store, api, st, host, faults>>

core_dies(w) ==
    /\ host[w].up /\ Fails
    /\ host' = [host EXCEPT ![w].up = FALSE]
    /\ UNCHANGED <<store, api, disks, work>>

\* The Core goes with its worker: it is tethered to it.
worker_dies(w) ==
    /\ host[w].at # "idle" /\ Fails
    /\ Ends(w)
    /\ UNCHANGED <<store, api, disks, work>>

-----------------------------------------------------------------------------
Hosting(w) ==
    \/ import(w) \/ import_save(w) \/ pass(w)
    \/ mirror(w) \/ mirror_error(w) \/ mirror_save(w)
    \/ pending(w) \/ execute(w) \/ complete(w) \/ start(w) \/ ended(w)

Api == \E c \in Cmd : request(c) \/ enqueue(c) \/ append(c)

CNext ==
    \/ Api \/ expire
    \/ \E w \in Worker :
         \/ claim(w) \/ Hosting(w) \/ core_dies(w) \/ worker_dies(w)
         \/ \E t \in Task : task_works(w, t)

CSpec == CInit /\ [][CNext]_vars

-----------------------------------------------------------------------------
(* Properties                                                              *)

\* Types: and no cursor is past the end of the log it counts in.
CloudTypeOK ==
    /\ lease \in [worker : Worker \cup {"none"}, gen : 0 .. Budget, live : BOOLEAN]
    /\ row \in [Cmd -> {"none", "PENDING", "ACCEPTED", "REJECTED"}]
    /\ api \subseteq Cmd \X {"relay", "append"}
    /\ \A w \in Worker :
         /\ st[w].imported <= Len(cloud) /\ st[w].exported <= Len(core[w])
         /\ host[w].gen <= lease.gen /\ host[w].started \subseteq Task

\* Every aggregate of the cloud log is one unbroken chain, whoever wrote its
\* events: the API, an owner, its successor, or an owner that came back with
\* events of its own on its disk.
CloudChains ==
    \A i \in DOMAIN cloud : cloud[i].prev = HeadId(SubSeq(cloud, 1, i - 1), cloud[i].agg)

\* Only the owner adds to the cloud log what a Core recorded: one that lost the
\* lease, in whatever step it is, adds nothing.
OnlyTheOwnerAdds ==
    [][\A i \in DOMAIN cloud' \ DOMAIN cloud :
         cloud'[i].id[1] \in Worker => lease.live /\ lease.worker = cloud'[i].id[1]]_vars

\* A command that creates a task creates it once on the cloud log, though
\* clients retry it, the API and an owner may both take it up, and a successor
\* runs again what its predecessor did not complete.
TaskCreatedOnce ==
    \A c \in Creates :
        Cardinality({i \in DOMAIN cloud : cloud[i].cmd = c /\ cloud[i].type = "created"}) <= 1

ImportedIsThere(w) == \A i \in 1 .. st[w].imported : cloud[i].id \in Ids(core[w])
ExportedIsThere(w) ==
    host[w].base > 0 =>
        \A i \in host[w].base + 1 .. st[w].exported : core[w][i].id \in Ids(cloud)

\* The cursors of mirror.json never claim too much: what the import cursor has
\* passed is in the Core, and what an owner recorded since it took the session
\* and the export cursor has passed is on the cloud log, whichever mirror failed
\* and also when the worker died between a transfer and the save of its cursor.
CursorsTellTheTruth == \A w \in Worker : ImportedIsThere(w) /\ ExportedIsThere(w)

=============================================================================
