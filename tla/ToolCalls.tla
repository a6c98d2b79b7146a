------------------------------ MODULE ToolCalls -------------------------------
(***************************************************************************)
(* Tool calls, their approvals and what becomes of them when the Core dies *)
(* or loses its lease: `invoke` of services/modbit-core/src/tools.rs and   *)
(* crates/tools/src/pipeline.rs (propose, decide, journal, run, record),   *)
(* execute_tool_call and the resume of services/modbit-core/src/runtime.rs,*)
(* protocol.rs and crates/protocol-state (what is outstanding, how it is   *)
(* reconciled), approval_expiry.rs, and the InvokeTool, ResolveApproval,   *)
(* ReconcileToolCall and EmergencyStop handlers of server.rs.              *)
(*                                                                         *)
(* One run stands at one message of the model, whose calls are Ask.  A     *)
(* call of the model is executed under a ToolCallId the Core mints; a      *)
(* client's direct call has the id the client chose.  The loop and the     *)
(* clients run the same `invoke`, each step of which takes the store's     *)
(* lock anew.                                                              *)
(*                                                                         *)
(* Left out: arguments, schemas, hooks and the projection (a call they     *)
(* refuse ends before it is decided); what a tool does beyond whether its  *)
(* effect happened; the parallel prefetch of read-only calls; interrupts   *)
(* (module InputQueue); a kill inside the recovery at the start.           *)
(***************************************************************************)
EXTENDS Naturals, Sequences, FiniteSets

CONSTANTS
    Ask,       \* the model's calls in the message the run stands at
    Direct,    \* the calls clients make themselves, by the ids they chose
    Fresh,     \* the ids the Core mints, in the order it mints them
    Class,     \* Class[a]: the effect class of call a
    Gated,     \* the calls the kernel wants an approval for
    Browser,   \* the calls of a browser or computer tool
    Client,    \* command handlers at work at the same time
    None,      \* no call, no state, no approval
    MaxGen,    \* bound on lease takeovers
    MaxCrash   \* bound on kills of the Core

Intent == Ask \cup Direct
Call == Fresh \cup Direct
Loop == "loop"
Terminal == {"Succeeded", "Failed", "Cancelled", "UnknownOutcome"}
Starter == "starter"     \* the StartTask handler
Invoker == Client \cup {Loop, Starter}

ASSUME CallAssumption ==
    /\ Fresh \subseteq Nat /\ IsFiniteSet(Fresh)
    /\ Ask \cap Direct = {} /\ Fresh \cap Direct = {} /\ {Loop, Starter} \cap Client = {}
    /\ None \notin Intent /\ None \notin Call
    /\ None \notin {"Proposed", "ApprovalPending", "Dispatched"} \cup Terminal
    /\ None \notin {"Requested", "Approved", "Denied", "Expired"}
    /\ None \notin {"Running", "Suspended", "over"}
    /\ None \notin {"CORE", "USER_CONFIRMED", "USER_ABSENT"}
    /\ Class \in [Intent -> {"ReadOnly", "ReversibleWrite", "ProtectedWrite", "Destructive"}]
    /\ Gated \subseteq Intent /\ Browser \subseteq Intent
    /\ MaxGen \in Nat /\ MaxCrash \in Nat

VARIABLES
    \* the log, as its projections show it
    state,     \* the state of each tool call
    of,        \* which call of the model, or of a client, it executes
    appr,      \* the state of the approval bound to it
    receipt,   \* its receipts in the effect ledger
    verdict,   \* its ToolCallReconciled records, in order
    told,      \* the model's calls with a step, hence a result, on the log
    run,       \* the state of the run
    stop,      \* EmergencyStopActivated is on the log
    gen,       \* the generation of the session lease
    \* the memory of the Core
    pc, id,    \* where each invoker is, and at which tool call
    snap,      \* the rows it decides by: [state, appr, stop]
    lgen,      \* the lease generation it presents
    doing,     \* the model's call the loop is at
    heard,     \* the model's calls that have a result in its transcript
    resume,    \* resume_state: whether there is one, and its outstanding calls
    cancel,    \* the run's cancellation token
    \* the world
    due,       \* the approvals whose expiry has passed
    ran,       \* how often the effect of each tool call happened
    crashes

log == <<state, of, appr, receipt, verdict, told, run, stop, gen>>
mem == <<pc, id, snap, lgen, doing, heard, resume, cancel>>
world == <<due, ran, crashes>>
vars == <<log, mem, world>>

CallState == {None, "Proposed", "ApprovalPending", "Dispatched"} \cup Terminal
Alive == pc[Loop] # "gone"
Blank == [state |-> None, appr |-> None, stop |-> FALSE]
NoResume == [on |-> FALSE, calls |-> [c \in Call |-> None]]

CInit ==
    /\ state = [c \in Call |-> None] /\ of = [c \in Call |-> None]
    /\ appr = [c \in Call |-> None]
    /\ receipt = [c \in Call |-> {}] /\ verdict = [c \in Call |-> <<>>]
    /\ told = {} /\ run = None /\ stop = FALSE /\ gen = 0
    /\ pc = [i \in Invoker |-> IF i = Loop THEN "gone" ELSE "idle"]
    /\ id = [i \in Invoker |-> None] /\ snap = [i \in Invoker |-> Blank]
    /\ lgen = [i \in Invoker |-> 0]
    /\ doing = None /\ heard = {} /\ resume = NoResume /\ cancel = FALSE
    /\ due = {} /\ ran = [c \in Call |-> 0] /\ crashes = 0

-----------------------------------------------------------------------------
(* What is outstanding, and the result of a call the run left without one  *)

Latest(S) == CHOOSE c \in S : \A d \in S : d <= c

\* Mutant of outstanding: a call of unknown outcome counts as finished.
outstanding_open ==
    [c \in Call |-> IF state[c] \in Terminal \/ verdict[c] # <<>> THEN None ELSE state[c]]

\* ProtocolState::reconstruct: the calls that are not finished, those of
\* unknown outcome included, without the reconciled ones.
outstanding ==
    [c \in Call |-> IF state[c] \in {"Succeeded", "Failed", "Cancelled"} \/ verdict[c] # <<>>
                    THEN None ELSE state[c]]

\* find_call, over the state the run resumed with.
find_call(a) == {c \in Fresh : of[c] = a /\ resume.calls[c] # None}

unknown_call(a) ==
    {c \in find_call(a) : resume.calls[c] \in {"UnknownOutcome", "Dispatched"}}

resumed_call(a) == find_call(a) \ unknown_call(a)

\* Mutant of user_verdict: only the last record is looked at, whoever made it.
user_verdict_last(a) ==
    LET lost == {c \in Fresh : of[c] = a /\ state[c] = "UnknownOutcome"}
        words == IF lost = {} THEN <<>> ELSE verdict[Latest(lost)]
    IN  IF resume.on /\ words # <<>> THEN words[Len(words)] ELSE None

\* user_verdict: the last word of the user on the last call of unknown outcome.
user_verdict(a) ==
    LET lost == {c \in Fresh : of[c] = a /\ state[c] = "UnknownOutcome"}
        words == IF lost = {} THEN <<>> ELSE verdict[Latest(lost)]
        said == {n \in DOMAIN words : words[n] # "CORE"}
    IN  IF resume.on /\ said # {} THEN words[Latest(said)] ELSE None

-----------------------------------------------------------------------------
(* invoke                                                                  *)

intent(i) == IF i = Loop THEN doing ELSE IF of[id[i]] = None THEN id[i] ELSE of[id[i]]
Protected(a) == Class[a] \in {"ProtectedWrite", "Destructive"}

\* Mutant of Receipts: a protected write leaves no receipt.
Receipts_above(i, kind) == IF Class[intent(i)] = "Destructive" THEN {kind} ELSE {}

\* An effect that reaches beyond the workspace leaves a receipt of each kind.
Receipts(i, kind) == IF Protected(intent(i)) THEN {kind} ELSE {}

\* A browser input of unknown outcome leaves a result receipt whatever its class.
ResultReceipts(i, out) ==
    IF out = "UnknownOutcome" /\ intent(i) \in Browser THEN {"RESULT"} ELSE Receipts(i, "RESULT")

Moves(i, p) == pc' = [pc EXCEPT ![i] = p]
At(i, p) == Moves(i, p) /\ UNCHANGED <<id, snap, lgen>>

\* The invocation is over: the loop has an entry to record, a client its reply.
Done(i) ==
    /\ Moves(i, IF i = Loop THEN "step" ELSE "idle")
    /\ id' = [id EXCEPT ![i] = None] /\ snap' = [snap EXCEPT ![i] = Blank]
    /\ lgen' = [lgen EXCEPT ![i] = IF i = Loop THEN @ ELSE 0]

\* The rows an invocation decides by.  The loop reads them anew for every entry
\* and replays a finished call; a client that asks for one, or for a call that
\* is under way, is answered without a step.
Enter(i) ==
    /\ pc[i] = "enter"
    /\ IF \/ i = Loop /\ state[id[i]] \in Terminal
          \/ i # Loop /\ state[id[i]] \notin {None, "ApprovalPending"}
       THEN Done(i)
       ELSE /\ Moves(i, "entered") /\ UNCHANGED <<id, lgen>>
            /\ snap' = [snap EXCEPT ![i] = [state |-> state[id[i]], appr |-> appr[id[i]],
                                            stop |-> IF i = Loop THEN stop ELSE @.stop]]
    /\ UNCHANGED <<log, world, doing, heard, resume, cancel>>

\* The InvokeTool handler reads the session, and with it the stop, first.  A
\* call that is finished is answered from its record.
InvokeTool(p, c) ==
    /\ pc[p] = "idle" /\ (c \in Direct \/ state[c] # None) /\ state[c] \notin Terminal
    /\ Moves(p, "enter") /\ id' = [id EXCEPT ![p] = c]
    /\ snap' = [snap EXCEPT ![p].stop = stop] /\ lgen' = [lgen EXCEPT ![p] = gen]
    /\ UNCHANGED <<log, world, doing, heard, resume, cancel>>

\* ToolCallProposed, write-ahead, fenced and expected to be the first event.
Propose(i) ==
    /\ pc[i] = "entered" /\ snap[i].state = None
    /\ IF lgen[i] = gen /\ state[id[i]] = None
       THEN /\ state' = [state EXCEPT ![id[i]] = "Proposed"]
            /\ of' = [of EXCEPT ![id[i]] = intent(i)]
            /\ At(i, "proposed")
       ELSE Done(i) /\ UNCHANGED <<state, of>>
    /\ UNCHANGED <<appr, receipt, verdict, told, run, stop, gen, world,
                   doing, heard, resume, cancel>>

Ready(i) == pc[i] = "proposed" \/ (pc[i] = "entered" /\ snap[i].state # None)

\* An approval is spent by the dispatch of its call.
consumed(i) == snap[i].state = "Dispatched"

\* Approval::authorizes; `same` says the intent is still the one approved.
authorizes(i, same) ==
    snap[i].appr = "Approved" /\ ~consumed(i) /\ same /\ id[i] \notin due

\* CapabilityKernel::decide, on the rows read at the entry.
decide(i, same) ==
    IF snap[i].stop /\ Class[intent(i)] # "ReadOnly" THEN "Deny"
    ELSE IF intent(i) \notin Gated \/ authorizes(i, same) THEN "Allow"
    ELSE IF snap[i].appr = "Denied" \/ (snap[i].appr = "Approved" /\ ~consumed(i)) THEN "Deny"
    ELSE "Ask"

\* Mutant of Applies: the dispatch is journaled on the row read at the entry.
Applies_read(i, to) == TRUE

\* The events of a decision apply to the row as it is by now: from a pending
\* approval, or through Validated from a proposal and from nothing else.
Applies(i, to) ==
    IF snap[i].state = "ApprovalPending"
    THEN state[id[i]] = "ApprovalPending" \/ (to = "Failed" /\ state[id[i]] = "Dispatched")
    ELSE state[id[i]] = "Proposed"

\* DispatchLog::dispatching: the decision, the dispatch and, for an effect that
\* reaches beyond the workspace, its authorization, in one fenced transaction.
Dispatch(i) ==
    /\ Ready(i) /\ \E same \in BOOLEAN : decide(i, same) = "Allow"
    /\ IF lgen[i] = gen /\ Applies(i, "Dispatched")
       THEN /\ state' = [state EXCEPT ![id[i]] = "Dispatched"]
            /\ receipt' = [receipt EXCEPT ![id[i]] = @ \cup Receipts(i, "AUTHORIZED")]
            /\ Moves(i, "running") /\ UNCHANGED <<id, lgen>>
            /\ snap' = [snap EXCEPT ![i] = Blank]
       ELSE At(i, "unjournaled") /\ UNCHANGED <<state, receipt>>
    /\ UNCHANGED <<of, appr, verdict, told, run, stop, gen, world,
                   doing, heard, resume, cancel>>

\* A dispatch that was not journaled is an InfraFailure with the code
\* JOURNAL_FAILED, for which invoke adds ToolCallFailed to the batch twice: no
\* call fails from Failed, so the whole batch is refused.
Unjournaled(i) ==
    /\ pc[i] = "unjournaled" /\ Done(i)
    /\ UNCHANGED <<log, world, doing, heard, resume, cancel>>

Fails(c) == state' = [state EXCEPT ![c] = "Failed"]

Deny(i) ==
    /\ Ready(i) /\ \E same \in BOOLEAN : decide(i, same) = "Deny"
    /\ IF Applies(i, "Failed") THEN Fails(id[i]) ELSE UNCHANGED state
    /\ Done(i)
    /\ UNCHANGED <<of, appr, receipt, verdict, told, run, stop, gen, world,
                   doing, heard, resume, cancel>>

\* The approval and the call's wait are opened in one transaction; a call that
\* waited already reports the approval it has.
AskApproval(i) ==
    /\ Ready(i) /\ \E same \in BOOLEAN : decide(i, same) = "Ask"
    /\ LET waits == snap[i].state = "ApprovalPending"
           opens == ~waits /\ Applies(i, "ApprovalPending")
       IN  /\ state' = IF opens THEN [state EXCEPT ![id[i]] = "ApprovalPending"] ELSE state
           /\ appr' = IF opens THEN [appr EXCEPT ![id[i]] = "Requested"] ELSE appr
           /\ IF i = Loop /\ (waits \/ opens) THEN At(i, "wait") ELSE Done(i)
    /\ UNCHANGED <<of, receipt, verdict, told, run, stop, gen, world,
                   doing, heard, resume, cancel>>

\* Mutant of Wait: only an answer ends the wait, not an expiry.
Wait_answered ==
    /\ pc[Loop] = "wait"
    /\ \/ cancel /\ Done(Loop)
       \/ appr[id[Loop]] \in {"Approved", "Denied"}
          /\ IF state[id[Loop]] = "Failed" THEN Done(Loop) ELSE At(Loop, "enter")
    /\ UNCHANGED <<log, world, doing, heard, resume, cancel>>

\* The loop looks at the approval until it is resolved; the call re-enters.
Wait ==
    /\ pc[Loop] = "wait"
    /\ \/ cancel /\ Done(Loop)
       \/ appr[id[Loop]] # "Requested"
          /\ IF state[id[Loop]] = "Failed" THEN Done(Loop) ELSE At(Loop, "enter")
    /\ UNCHANGED <<log, world, doing, heard, resume, cancel>>

Perform(i) ==
    /\ pc[i] = "running" /\ At(i, "performed")
    /\ ran' = [ran EXCEPT ![id[i]] = @ + 1]
    /\ UNCHANGED <<log, due, crashes, doing, heard, resume, cancel>>

\* Mutant of Outcomes: a call that ran into its time limit has a state of its own.
Outcomes_timeout(i) == {"Failed", "Succeeded", "TimedOut"}

\* What a tool may report: after the effect or without it.
Outcomes(i) ==
    {"Failed"} \cup (IF pc[i] = "performed" THEN {"Succeeded"} ELSE {})
               \cup (IF Class[intent(i)] # "ReadOnly" THEN {"UnknownOutcome"} ELSE {})
               \cup (IF cancel /\ i = Loop THEN {"Cancelled"} ELSE {})

\* The outcome and the result receipt, in one transaction that is not fenced.
Record(i) ==
    /\ pc[i] \in {"running", "performed"}
    /\ \E out \in Outcomes(i) :
           IF state[id[i]] = "Dispatched"
           THEN /\ state' = [state EXCEPT ![id[i]] = out]
                /\ receipt' = [receipt EXCEPT ![id[i]] = @ \cup ResultReceipts(i, out)]
           ELSE UNCHANGED <<state, receipt>>
    /\ Done(i)
    /\ UNCHANGED <<of, appr, verdict, told, run, stop, gen, world,
                   doing, heard, resume, cancel>>

-----------------------------------------------------------------------------
(* The loop                                                                *)

\* The StartTask handler looks for a stop; the loop begins many awaits later.
StartTask ==
    /\ pc[Starter] = "idle" /\ ~stop /\ At(Starter, "starting")
    /\ UNCHANGED <<log, world, doing, heard, resume, cancel>>

\* A resumed run re-enters the calls of the last message that have no result.
Begin ==
    /\ pc[Starter] = "starting"
    /\ IF ~Alive /\ run \in {None, "Suspended"}
       THEN /\ run' = "Running" /\ pc' = [pc EXCEPT ![Starter] = "idle", ![Loop] = "pick"]
            /\ lgen' = [lgen EXCEPT ![Loop] = gen] /\ UNCHANGED <<id, snap>>
            /\ heard' = told /\ cancel' = FALSE
            /\ resume' = IF run = "Suspended" /\ told # Ask
                         THEN [on |-> TRUE, calls |-> outstanding] ELSE NoResume
       ELSE At(Starter, "idle") /\ UNCHANGED <<run, heard, cancel, resume>>
    /\ UNCHANGED <<state, of, appr, receipt, verdict, told, stop, gen, world, doing>>

\* The next call: confirmed by the user, of unknown outcome, or to execute
\* under the id it has or a fresh one.
Picks(a) == pc[Loop] = "pick" /\ ~cancel /\ lgen[Loop] = gen /\ a \in Ask \ heard

PickConfirmed(a) ==
    /\ Picks(a) /\ user_verdict(a) = "USER_CONFIRMED"
    /\ doing' = a /\ At(Loop, "step")
    /\ UNCHANGED <<log, world, heard, resume, cancel>>

PickUnknown(a) ==
    /\ Picks(a) /\ user_verdict(a) # "USER_CONFIRMED" /\ unknown_call(a) # {}
    /\ doing' = a /\ Moves(Loop, "reconcile")
    /\ id' = [id EXCEPT ![Loop] = Latest(unknown_call(a))]
    /\ UNCHANGED <<log, world, snap, lgen, heard, resume, cancel>>

PickCall(a) ==
    /\ Picks(a) /\ user_verdict(a) # "USER_CONFIRMED" /\ unknown_call(a) = {}
    /\ LET unused == {c \in Fresh : state[c] = None}
       IN  /\ resumed_call(a) # {} \/ unused # {}
           /\ id' = [id EXCEPT ![Loop] =
                        IF resumed_call(a) # {} THEN Latest(resumed_call(a))
                        ELSE CHOOSE c \in unused : \A d \in unused : c <= d]
    /\ doing' = a /\ Moves(Loop, "enter")
    /\ UNCHANGED <<log, world, snap, lgen, heard, resume, cancel>>

\* reconcile_unknown: what the ledger and the target say is recorded, and told
\* to the model as the call's result.
reconcile_unknown ==
    /\ pc[Loop] = "reconcile"
    /\ verdict' = IF lgen[Loop] = gen
                  THEN [verdict EXCEPT ![id[Loop]] = Append(@, "CORE")] ELSE verdict
    /\ Done(Loop)
    /\ UNCHANGED <<state, of, appr, receipt, told, run, stop, gen, world,
                   doing, heard, resume, cancel>>

\* The step that carries the call's result, in a transaction of its own.
Step ==
    /\ pc[Loop] = "step"
    /\ told' = IF lgen[Loop] = gen THEN told \cup {doing} ELSE told
    /\ heard' = heard \cup {doing} /\ doing' = None /\ At(Loop, "pick")
    /\ UNCHANGED <<state, of, appr, receipt, verdict, run, stop, gen, world, resume, cancel>>

\* A fenced run is suspended; one cancelled, or at the end of its calls, is over.
Leave ==
    /\ pc[Loop] = "pick" /\ (cancel \/ lgen[Loop] # gen \/ heard = Ask)
    /\ run' = IF lgen[Loop] # gen THEN "Suspended" ELSE "over"
    /\ Moves(Loop, "gone") /\ lgen' = [lgen EXCEPT ![Loop] = 0]
    /\ heard' = {} /\ resume' = NoResume /\ cancel' = FALSE
    /\ UNCHANGED <<state, of, appr, receipt, verdict, told, stop, gen, world, id, snap, doing>>

-----------------------------------------------------------------------------
(* The commands, the clock and the kill                                    *)

\* ResolveApproval looks at the clock, and writes under the generation it read.
ResolveApproval(c, approve) ==
    /\ appr[c] = "Requested"
    /\ appr' = [appr EXCEPT ![c] = IF approve THEN "Approved" ELSE "Denied"]
    /\ IF ~approve /\ state[c] = "ApprovalPending"
       THEN Fails(c) ELSE UNCHANGED state
    /\ UNCHANGED <<of, receipt, verdict, told, run, stop, gen, mem, world>>

is_due(c) == appr[c] = "Requested" /\ c \in due

\* The sweep, and the look every listing and resolution takes first.
expire(c) ==
    /\ is_due(c)
    /\ appr' = [appr EXCEPT ![c] = "Expired"]
    /\ IF state[c] = "ApprovalPending"
       THEN Fails(c) ELSE UNCHANGED state
    /\ UNCHANGED <<of, receipt, verdict, told, run, stop, gen, mem, world>>

\* An expiry passes; it matters until the approval is answered and spent.
Tick(c) ==
    /\ c \notin due
    /\ appr[c] = "Requested" \/ (appr[c] = "Approved" /\ state[c] = "ApprovalPending")
    /\ due' = due \cup {c}
    /\ UNCHANGED <<log, mem, ran, crashes>>

\* ReconcileToolCall: the checks; then the record, under another hold.
Reconcile(p, c, word) ==
    /\ pc[p] = "idle" /\ state[c] = "UnknownOutcome" /\ ~Alive /\ verdict[c] = <<>>
    /\ Moves(p, word) /\ id' = [id EXCEPT ![p] = c]
    /\ UNCHANGED <<log, world, snap, lgen, doing, heard, resume, cancel>>

ReconcileToolCall(p) ==
    /\ pc[p] \in {"USER_CONFIRMED", "USER_ABSENT"}
    /\ verdict' = [verdict EXCEPT ![id[p]] = Append(@, pc[p])]
    /\ Done(p)
    /\ UNCHANGED <<state, of, appr, receipt, told, run, stop, gen, world,
                   doing, heard, resume, cancel>>

\* EmergencyStop: on the log first; then the live loops are cancelled.
EmergencyStop(p) ==
    /\ pc[p] = "idle" /\ ~stop
    /\ stop' = TRUE /\ At(p, "stopping")
    /\ UNCHANGED <<state, of, appr, receipt, verdict, told, run, gen, world,
                   doing, heard, resume, cancel>>

CancelLive(p) ==
    /\ pc[p] = "stopping" /\ At(p, "idle")
    /\ cancel' = Alive
    /\ UNCHANGED <<log, world, doing, heard, resume>>

Takeover ==
    /\ gen < MaxGen /\ gen' = gen + 1
    /\ UNCHANGED <<state, of, appr, receipt, verdict, told, run, stop, mem, world>>

\* mark_orphaned_calls: what the dead Core had dispatched.
orphaned(c) ==
    IF state[c] # "Dispatched" \/ run # "Running" THEN state[c]
    ELSE IF Class[of[c]] = "ReadOnly" THEN "Cancelled" ELSE "UnknownOutcome"

\* A kill and the start that follows it (reconcile_after_restart).  An effect
\* under way happened or did not; a denial may have got to the approval only.
Crash ==
    /\ crashes < MaxCrash /\ crashes' = crashes + 1
    /\ \E hit \in SUBSET {i \in Invoker : pc[i] = "running"} :
           ran' = [c \in Call |-> ran[c] + Cardinality({i \in hit : id[i] = c})]
    /\ \E cut \in {{}} \cup {{c} : c \in {d \in Call : appr[d] = "Requested"}} :
           appr' = [c \in Call |-> IF c \in cut THEN "Denied" ELSE appr[c]]
    /\ state' = [c \in Call |-> orphaned(c)]
    /\ run' = IF run = "Running" THEN "Suspended" ELSE run
    /\ pc' = [i \in Invoker |-> IF i = Loop THEN "gone" ELSE "idle"]
    /\ id' = [i \in Invoker |-> None] /\ snap' = [i \in Invoker |-> Blank]
    /\ lgen' = [i \in Invoker |-> 0]
    /\ doing' = None /\ heard' = {} /\ resume' = NoResume /\ cancel' = FALSE
    /\ UNCHANGED <<of, receipt, verdict, told, stop, gen, due>>

-----------------------------------------------------------------------------
Invoke(i) ==
    \/ Enter(i) \/ Propose(i) \/ Dispatch(i) \/ Unjournaled(i) \/ Deny(i) \/ AskApproval(i)
    \/ Perform(i) \/ Record(i)

LoopStep ==
    \/ Wait \/ reconcile_unknown \/ Step \/ Leave
    \/ \E a \in Ask : PickConfirmed(a) \/ PickUnknown(a) \/ PickCall(a)

Finishes(p) == Invoke(p) \/ ReconcileToolCall(p) \/ CancelLive(p)

Command(p) ==
    \/ \E c \in Call : InvokeTool(p, c)
    \/ \E c \in Call, w \in {"USER_CONFIRMED", "USER_ABSENT"} : Reconcile(p, c, w)
    \/ EmergencyStop(p)

CNext ==
    \/ Invoke(Loop) \/ LoopStep \/ StartTask \/ Begin
    \/ \E p \in Client : Finishes(p) \/ Command(p)
    \/ \E c \in Call : expire(c) \/ Tick(c) \/ \E ok \in BOOLEAN : ResolveApproval(c, ok)
    \/ Takeover \/ Crash

\* The loop and the handlers are tasks of the Core's runtime; the sweep runs
\* twice a second, and an expiry passes.
CFairness ==
    /\ WF_vars(Invoke(Loop) \/ LoopStep)
    /\ WF_vars(Begin) /\ \A p \in Client : WF_vars(Finishes(p))
    /\ WF_vars(\E c \in Call : expire(c) \/ Tick(c))

CSpec == CInit /\ [][CNext]_vars /\ CFairness

-----------------------------------------------------------------------------
(* What the approvals, the ledger and the resume promise                   *)

Stations ==
    {"idle", "gone", "pick", "enter", "entered", "proposed", "unjournaled", "running",
     "performed", "wait", "reconcile", "step", "starting", "stopping",
     "USER_CONFIRMED", "USER_ABSENT"}

\* The rows, the memory of the invokers and the counters have their types.
CTypeOK ==
    /\ state \in [Call -> CallState] /\ of \in [Call -> Intent \cup {None}]
    /\ appr \in [Call -> {None, "Requested", "Approved", "Denied", "Expired"}]
    /\ receipt \in [Call -> SUBSET {"AUTHORIZED", "RESULT"}]
    /\ verdict \in [Call -> Seq({"CORE", "USER_CONFIRMED", "USER_ABSENT"})]
    /\ told \subseteq Ask /\ heard \subseteq Ask /\ doing \in Ask \cup {None}
    /\ run \in {None, "Running", "Suspended", "over"}
    /\ stop \in BOOLEAN /\ cancel \in BOOLEAN
    /\ pc \in [Invoker -> Stations] /\ id \in [Invoker -> Call \cup {None}]
    /\ snap \in [Invoker -> [state : CallState, stop : BOOLEAN,
                             appr : {None, "Requested", "Approved", "Denied", "Expired"}]]
    /\ gen \in 0 .. MaxGen /\ lgen \in [Invoker -> 0 .. MaxGen]
    /\ resume \in [on : BOOLEAN, calls : [Call -> CallState]]
    /\ due \subseteq Call /\ ran \in [Call -> Nat] /\ crashes \in 0 .. MaxCrash

\* An effect that needs an approval happens only under one a person gave, and at
\* most once for it, however many invokers enter the call and whatever expires,
\* is denied or dies in between (kernel.rs decide, DispatchLog::dispatching).
ApprovedOnce ==
    \A c \in Call : ran[c] > 0 =>
        ran[c] = 1 /\ (of[c] \in Gated => appr[c] = "Approved")

\* An effect that reaches beyond the workspace is authorized in the ledger before
\* it can happen, and a result in the ledger has an authorization before it
\* (tools.rs FIX-08); a call recorded as succeeded has both.
EffectsOnTheLedger ==
    \A c \in Call : of[c] # None /\ Protected(of[c]) =>
        /\ ran[c] > 0 \/ "RESULT" \in receipt[c] => "AUTHORIZED" \in receipt[c]
        /\ state[c] = "Succeeded" => "RESULT" \in receipt[c]

Dispatches(a) ==
    \E c \in Fresh : of[c] = a /\ state[c] # "Dispatched" /\ state'[c] = "Dispatched"

\* While a call of the model is in flight or of unknown outcome, and nobody has
\* reconciled it, no other call is dispatched in its place, over any number of
\* kills, takeovers and resumes (protocol.rs unknown_call, reconcile_unknown).
OutstandingHolds ==
    [][\A a \in Ask :
          (\E c \in Fresh : /\ of[c] = a /\ verdict[c] = <<>>
                            /\ state[c] \in {"Dispatched", "UnknownOutcome"})
          => ~Dispatches(a)]_vars

\* The user was first to reconcile a call of a, and said the effect is there.
Confirmed(a) ==
    \E c \in Fresh : /\ of[c] = a /\ verdict[c] # <<>> /\ Head(verdict[c]) = "USER_CONFIRMED"
                     /\ \A n \in DOMAIN verdict[c] : verdict[c][n] # "USER_ABSENT"

\* An effect the user confirmed is never repeated (runtime.rs docs/51 E2E-005),
\* also when the run had resumed before the word was on the log, or dies again.
ConfirmedStays == [][\A a \in Ask : Confirmed(a) => ~Dispatches(a)]_vars

\* tools.rs M4.6 "Exactly once": the effect of one call of the model happens at
\* most once, unless the user said it had not happened.
EffectOnce ==
    \A a \in Ask :
        LET calls == {c \in Fresh : of[c] = a}
        IN  (\A c \in calls : \A n \in DOMAIN verdict[c] : verdict[c][n] # "USER_ABSENT")
            => Cardinality({c \in calls : ran[c] > 0}) <= 1

\* A loop ends: no approval nobody answers, no lost lease and no stop keeps it.
LoopEnds == Alive ~> ~Alive
=============================================================================
