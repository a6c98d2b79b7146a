----------------------------- MODULE SessionLease -----------------------------
(***************************************************************************)
(* The session kernel lease as clients see it: the AcquireSessionLease     *)
(* handler of services/modbit-core/src/server.rs over the Event Store, the *)
(* handlers that check a generation and then write, the run loops that     *)
(* present it inside the append, a client that retries a command whose     *)
(* reply it never saw, and the Core's crashes underneath.  Clients are     *)
(* separate processes: what they hold survives the Core.                   *)
(*                                                                         *)
(* require_lease reads the generation under the store lock and lets the    *)
(* lock go; the handler takes it again for a write that names no           *)
(* generation.  The two are two steps here.  A run loop (and a tool it     *)
(* calls) appends with append_fenced, which is one.                        *)
(***************************************************************************)
EXTENDS EventStore

CONSTANTS Client,      \* the desktop, the CLI, a cloud worker
          Issuer,      \* the client that chose a command id
          OwnerHash    \* the request hash of a client's acquisition

ASSUME LeaseAssumption ==
    Issuer \in [Command -> Client] /\ OwnerHash \in [Client -> Hash]

VARIABLES
    held,     \* held[c][s]: the generation client c presents for s, 0 for none
    via,      \* via[c][s]: the reply that gave it, "applied" or "replayed"
    checked,  \* <<c, s, g>>: handlers of c's commands on s that passed require_lease
              \* with g and have yet to write; a client may have any number of them
    loops     \* <<s, g>>: run loops of s that execute under generation g

clients == <<held, via>>
core == <<checked, loops>>
leaseVars == <<up, db, survivable, stuck, nextId, acked, replies, held, via, checked, loops>>

LeaseRequest(s, g) == [agg |-> s, kind |-> "SessionLeaseAcquired", arg |-> g, expected |-> None]

LInit == /\ Init
         /\ held = [c \in Client |-> [s \in Session |-> 0]]
         /\ via = [c \in Client |-> [s \in Session |-> "none"]]
         /\ checked = {} /\ loops = {}

\* The client stores what a reply said, when the reply arrives.
receive(c, s, g, how) ==
    \/ UNCHANGED <<held, via>>
    \/ /\ held' = [held EXCEPT ![c][s] = g]
       /\ via' = [via EXCEPT ![c][s] = how]

\* CreateSession: any client, a new session.
CreateSession(m, s) ==
    /\ command_applied(m, OwnerHash[Issuer[m]],
                       <<[agg |-> s, kind |-> "SessionCreated", arg |-> 0, expected |-> 0]>>)
    /\ UNCHANGED <<clients, core>>

\* AcquireSessionLease, first execution: mint generation + 1 under the store lock.
AcquireSessionLease(m, s) ==
    LET g == db.proj.lease[s] + 1
    IN /\ s \in db.proj.created /\ g <= MaxGen
       /\ command_applied(m, OwnerHash[Issuer[m]], <<LeaseRequest(s, g)>>)
       /\ receive(Issuer[m], s, g, "applied")
       /\ UNCHANGED core

\* What a replayed acquisition reports.
replayed_generation(s, m) == db.proj.lease[s]

\* AcquireSessionLease, a retry: nothing is appended, a generation is reported.
AcquireReplayed(m, s) ==
    /\ command_replayed(m, OwnerHash[Issuer[m]])
    /\ \E i \in DOMAIN db.log : IsLease(db.log[i], s) /\ db.log[i].cmd = m
    /\ receive(Issuer[m], s, replayed_generation(s, m), "replayed")
    /\ UNCHANGED core

StateRequest(a) == [agg |-> a, kind |-> "state", arg |-> 0, expected |-> None]
DeltaRequest(a) == [agg |-> a, kind |-> "AssistantTextDelta", arg |-> 0, expected |-> None]

\* require_lease: the generation a command presents is the session's, now.
require_lease(c, s) ==
    /\ up /\ s \in db.proj.created
    /\ held[c][s] = db.proj.lease[s] /\ held[c][s] > 0
    /\ checked' = checked \cup {<<c, s, held[c][s]>>}
    /\ UNCHANGED <<vars, clients, loops>>

\* QueueInput, and every handler of its shape: after the check, one command
\* without a fence.  (The request hash of another command than an acquisition.)
QueueInput(m, s, g) ==
    /\ <<Issuer[m], s, g>> \in checked
    /\ \E h \in Hash \ {OwnerHash[Issuer[m]]} :
          command_applied(m, h, <<StateRequest(s)>>) \/ command_replayed(m, h)
    /\ UNCHANGED <<clients, core>>

\* StartTask of a queued task: after the check, a plain append starts it; the
\* loop executes under the generation the command presented.
StartTask(c, s, g) ==
    /\ <<c, s, g>> \in checked
    /\ append_full(StateRequest(s), None)
    /\ loops' = loops \cup {<<s, g>>}
    /\ UNCHANGED <<clients, checked>>

\* A state-advancing append of a loop or a tool: append_fenced at its generation.
FencedAppend(s, g, r) ==
    /\ <<s, g>> \in loops /\ OwnerOf(r.agg) = s
    /\ append_full(r, g)
    /\ UNCHANGED <<clients, core>>

\* A streamed delta, fenced and relaxed, opens the window a power loss can take.
FencedDelta(s, g, r) ==
    /\ <<s, g>> \in loops /\ OwnerOf(r.agg) = s
    /\ append_relaxed(r, g)
    /\ UNCHANGED <<clients, core>>

\* The Core dies with its handlers and its loops.
crash == /\ kill \/ power_loss
         /\ checked' = {} /\ loops' = {}
         /\ UNCHANGED clients

restart == recover_on_start /\ UNCHANGED <<clients, core>>

LNext ==
    \/ \E m \in Command, s \in Session :
          CreateSession(m, s) \/ AcquireSessionLease(m, s) \/ AcquireReplayed(m, s)
    \/ \E c \in Client, s \in Session : require_lease(c, s)
    \/ \E s \in Session, g \in 1 .. MaxGen :
          \/ \E m \in Command : QueueInput(m, s, g)
          \/ \E c \in Client : StartTask(c, s, g)
          \/ \E a \in Call : FencedAppend(s, g, StateRequest(a))
          \/ \E a \in Stream : FencedDelta(s, g, DeltaRequest(a))
    \/ crash \/ restart

LSpec == LInit /\ [][LNext]_leaseVars

-----------------------------------------------------------------------------

\* REQ-EV-0054 "single mutation owner", for first executions: two acquisitions
\* that were both applied never gave two clients the same generation, power
\* loss and restart between them included.
OneMinterPerGeneration ==
    \A a, b \in Client, s \in Session :
        (a # b /\ held[a][s] # 0 /\ held[a][s] = held[b][s]) =>
            "replayed" \in {via[a][s], via[b][s]}

\* session.rs: a lease holder is "the single mutation owner": two clients never
\* hold the same generation of a session.
SingleMutationOwner ==
    \A a, b \in Client, s \in Session :
        (a # b /\ held[a][s] # 0) => held[a][s] # held[b][s]
=============================================================================
