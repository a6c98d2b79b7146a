--------------------------- MODULE AutomationProofs ---------------------------
(***************************************************************************)
(* Proofs about Automation, for any firings, versions, gates, policies,    *)
(* bounds and handlers: a stage is started once, a main task is made only  *)
(* after its gate said RUN, a run the tick ended leaves no loop behind     *)
(* that was not told to stop, and a kill whose pause was not lifted leaves *)
(* no run that could still start.                                          *)
(***************************************************************************)
EXTENDS Automation, NaturalFacts, FiniteSetTheorems, TLAPS

-----------------------------------------------------------------------------
(* Types                                                                   *)

Status == {"none", "Pending", "Queued", "Running"} \cup Over
Run == [status : Status, reason : {"", "REPLACED", "KILLED", "DISPATCH", "WATCHED"},
        main : BOOLEAN, gateTask : BOOLEAN, gate : {"none", "RUN", "SKIP"}, seq : Nat]
Rec == [key : Key, run : Run]
NoRec == Idle.cur
Dispatches == {"inner", "create", "start", "check", "stop", "record"}
Launching == {"create", "start", "check", "stop", "record"}
Turned == {"cancel", "expired"}
Places == {"idle", "boot", "settle", "monitor", "waitlist", "waiting", "cancel", "expired",
           "replace", "replaced", "kill", "killed", "dispatch", "refused"} \cup Dispatches
Proc == [at : Places, job : {"none", "fire", "kill", "settle", "monitor", "waitlist", "waiting"},
         key : Key \cup {"none"}, todo : SUBSET Rec, cur : Rec \cup {NoRec},
         out : (Over \cup {""}) \X {"", "DISPATCH", "WATCHED"}]

Plain == /\ version \in Version /\ enabled \in Version \cup {0} /\ paused \in BOOLEAN
         /\ fails \in 0 .. MaxFails
TaskTypes == /\ task \in [Stage -> {"none", "Created", "Running", "Asking", "Waiting"} \cup Ended]
             /\ starts \in [Stage -> Nat]
             /\ stopped \subseteq Stage /\ alive \subseteq Stage /\ token \subseteq alive
MemTypes == inflight \subseteq Key /\ stall \in [Key -> 0 .. StallTicks]
RunTypes == run \in [Key -> Run]
ProcTypes == proc \in [Process -> Proc]
Types == Plain /\ TaskTypes /\ MemTypes /\ RunTypes /\ ProcTypes

(* The inductive invariant                                                 *)

\* A run, its tasks, and what it says of them.
RunFits(k) ==
    /\ run[k].status = "none" =>
           /\ ~run[k].main /\ ~run[k].gateTask
           /\ run[k].gate = "none" /\ run[k].reason = ""
    /\ run[k].reason = "WATCHED" => run[k].status \in Over
    /\ run[k].main => /\ run[k].status \in Over \cup {"Running"}
                      /\ task[<<k, "main">>] # "none"
    /\ run[k].gateTask => VersionOf[k] \in Gated /\ task[<<k, "gate">>] # "none"
    /\ run[k].gate # "none" => task[<<k, "gate">>] = "Completed"
    /\ VersionOf[k] \notin Gated => task[<<k, "gate">>] = "none"
    /\ VersionOf[k] \in Gated /\ task[<<k, "main">>] # "none" => run[k].gate = "RUN"

\* A task is started from Created, and a loop lives only while it is open.
TaskFits(s) ==
    /\ starts[s] <= 1
    /\ task[s] \in {"none", "Created"} => starts[s] = 0
    /\ s \in alive => task[s] \in {"Running", "Asking", "Waiting"}

\* A record somebody read: the run has it still, and may have more.
RecFits(r) ==
    /\ run[r.key].status # "none"
    /\ r.run.main => run[r.key].main
    /\ r.run.gateTask => run[r.key].gateTask
Held1(p) ==
    /\ \A r \in proc[p].todo : RecFits(r)
    /\ proc[p].cur \in Rec => RecFits(proc[p].cur)
    /\ proc[p].at \in {"replaced", "killed"} \cup Turned => proc[p].cur \in Rec

\* Who dispatches a key, and what the stage being launched can rely on.
Fresh(k) ==
    /\ ~run[k].main
    /\ VersionOf[k] \in Gated => (run[k].gate = "none" /\ ~run[k].gateTask) \/ run[k].gate = "RUN"
Dispatched(p) ==
    /\ proc[p].at \in {"dispatch", "refused", "replace", "replaced"} \cup Dispatches =>
           proc[p].key \in Key /\ run[proc[p].key].status # "none"
    /\ proc[p].at \in Dispatches =>
           /\ proc[p].key \in inflight
           /\ \A q \in Process : q # p /\ proc[q].at \in Dispatches => proc[q].key # proc[p].key
    /\ proc[p].at \in Launching => Fresh(proc[p].key)
    /\ proc[p].at \in Launching \ {"create"} => task[StageOf(p)] # "none"
    /\ proc[p].at \in {"create", "start"} => run[proc[p].key].reason # "WATCHED"
    /\ proc[p].at = "refused" => proc[p].out[1] \in Over
HandlerFits(p) ==
    /\ proc[p].out[2] # "WATCHED"
    /\ proc[p].at \in {"kill", "killed"} => proc[p].job = "kill"
    /\ proc[p].at \in {"kill", "killed"} /\ p \notin lifted =>
           /\ paused
           /\ \A k \in Fired : run[k].status \in Over \/ \E r \in proc[p].todo : r.key = k

\* What the tick works off: it is the only one that answers gates.
Current(r) == r.run.gate = run[r.key].gate
NoneAlive(k) == \A s \in alive : s[1] # k
TickJobs == {"settle", "monitor", "waitlist", "waiting"}
TickFits ==
    /\ proc[Tick].at # "boot" => proc[Tick].job \in TickJobs
    /\ \A r \in proc[Tick].todo : Current(r) /\ \A q \in proc[Tick].todo : q.key = r.key => q = r
    /\ proc[Tick].at \in Turned =>
           /\ Current(proc[Tick].cur) /\ live_task_of(proc[Tick].cur) # {}
           /\ \A r \in proc[Tick].todo : r.key # proc[Tick].cur.key
    /\ proc[Tick].at = "refused" /\ proc[Tick].out[2] = "WATCHED" =>
           /\ proc[Tick].cur \in Rec /\ proc[Tick].cur.key = proc[Tick].key
           /\ live_task_of(proc[Tick].cur) # {} /\ NoneAlive(proc[Tick].key)
           /\ run[proc[Tick].key].gate \in {proc[Tick].cur.run.gate, "SKIP"}
    /\ proc[Tick].at \notin {"idle", "kill", "killed", "replace", "replaced"}

\* A run the tick ended: its loops were told, or are about to be.
Told(k) ==
    run[k].reason = "WATCHED" =>
        \A s \in alive : s[1] = k => \/ s \in token
                                     \/ proc[Tick].at \in Turned /\ proc[Tick].cur.key = k

RunsInv == \A k \in Key : RunFits(k)
TasksInv == \A s \in Stage : TaskFits(s)
HeldInv == \A p \in Process : Held1(p)
DispatchInv == \A p \in Process : Dispatched(p)
HandlersInv == \A p \in Handler : HandlerFits(p)
ToldInv == \A k \in Key : Told(k)

IInv == /\ Types /\ RunsInv /\ TasksInv /\ HeldInv /\ DispatchInv /\ HandlersInv /\ TickFits
        /\ ToldInv

-----------------------------------------------------------------------------
(* Stages, runs and processes                                              *)

\* A stage is a key and which of its two tasks; the two differ.
LEMMA StageFacts ==
    /\ \A k \in Key : <<k, "main">> \in Stage /\ <<k, "gate">> \in Stage
    /\ \A s \in Stage : s[1] \in Key /\ (s = <<s[1], "main">> \/ s = <<s[1], "gate">>)
    /\ \A k, j : /\ <<k, "main">> # <<j, "gate">>
                 /\ <<k, "main">>[1] = k /\ <<k, "gate">>[1] = k
                 /\ <<k, "main">>[2] = "main" /\ <<k, "gate">>[2] = "gate"
                 /\ <<k, "main">> = <<j, "main">> => k = j
                 /\ <<k, "gate">> = <<j, "gate">> => k = j
  BY DEF Stage

\* A process that rests has no record in hand.
LEMMA NoRecFacts ==
    /\ NoRec = [key |-> "none", run |-> NoRun] /\ NoRec \notin Rec
    /\ Idle \in Proc /\ Idle.at = "idle" /\ Idle.job = "none" /\ Idle.key = "none"
    /\ Idle.todo = {} /\ Idle.cur = NoRec /\ Idle.out = <<"", "">>
<1>1. "none" \notin Key
  BY AutomationAssumption
<1> QED BY <1>1 DEF NoRec, Idle, Rec, Proc, Places

\* A process that rests has no outcome of the tick in hand.
LEMMA IdleOut == Idle.out \in (Over \cup {""}) \X {"", "DISPATCH", "WATCHED"} /\ Idle.out[2] # "WATCHED"
<1>1. <<"", "">> \in (Over \cup {""}) \X {"", "DISPATCH", "WATCHED"} /\ <<"", "">>[2] # "WATCHED"
  OBVIOUS
<1> QED BY <1>1, NoRecFacts

\* The tick is a process and no handler.
LEMMA TickProcess == Tick \in Process /\ Tick \notin Handler /\ \A p \in Handler : p \in Process /\ p # Tick
  BY AutomationAssumption DEF Process

\* One process moves, the others stay where they are.
Elsewhere(p) == ProcTypes' /\ \A q \in Process : q # p => proc'[q] = proc[q]

\* The fields of a process have their types.
LEMMA Fields ==
    ASSUME NEW x \in Proc
    PROVE  /\ x.at \in Places
           /\ x.job \in {"none", "fire", "kill", "settle", "monitor", "waitlist", "waiting"}
           /\ x.key \in Key \cup {"none"} /\ x.todo \in SUBSET Rec /\ x.cur \in Rec \cup {NoRec}
           /\ x.out \in (Over \cup {""}) \X {"", "DISPATCH", "WATCHED"}
  BY DEF Proc

\* A process that goes on to a place keeps what it has in hand.
LEMMA GoesFacts ==
    ASSUME ProcTypes, NEW p \in Process, NEW a \in Places, Goes(p, a)
    PROVE  /\ Elsewhere(p) /\ proc'[p].at = a /\ proc'[p].job = proc[p].job
           /\ proc'[p].key = proc[p].key /\ proc'[p].todo = proc[p].todo
           /\ proc'[p].cur = proc[p].cur /\ proc'[p].out = proc[p].out
<1>1. proc[p] \in Proc
  BY DEF ProcTypes
<1>2. [proc[p] EXCEPT !.at = a] \in Proc
  BY <1>1 DEF Proc
<1>3. proc' = [proc EXCEPT ![p] = [proc[p] EXCEPT !.at = a]]
  BY DEF Goes
<1>4. proc'[p] = [proc[p] EXCEPT !.at = a]
  BY <1>3 DEF ProcTypes
<1>5. Elsewhere(p)
  BY <1>2, <1>3 DEF Elsewhere, ProcTypes
<1> QED BY <1>1, <1>4, <1>5 DEF Proc

\* Setting a process to a whole new record.
LEMMA SetFacts ==
    ASSUME ProcTypes, NEW p \in Process, NEW x \in Proc, proc' = [proc EXCEPT ![p] = x]
    PROVE  Elsewhere(p) /\ proc'[p] = x
  BY DEF ProcTypes, Elsewhere

\* A process that is done with a dispatch goes back to its list, or rests.
LEMMA BackFacts ==
    ASSUME ProcTypes, NEW p \in Process, p = Tick => proc[p].job \in TickJobs, Back(p)
    PROVE  /\ Elsewhere(p) /\ proc'[p].key = "none" /\ proc'[p].cur = NoRec
           /\ proc'[p].out = <<"", "">>
           /\ p = Tick => /\ proc'[p].at = proc[p].job /\ proc'[p].job = proc[p].job
                          /\ proc'[p].todo = proc[p].todo
           /\ p # Tick => proc'[p].at = "idle" /\ proc'[p].job = "none" /\ proc'[p].todo = {}
<1>1. proc[p] \in Proc
  BY DEF ProcTypes
<1>2. CASE p # Tick
  <2>1. proc' = [proc EXCEPT ![p] = Idle]
    BY <1>2 DEF Back
  <2> QED BY <1>2, <2>1, NoRecFacts, SetFacts
<1>3. CASE p = Tick
  <2> DEFINE x == [Idle EXCEPT !.at = proc[p].job, !.job = proc[p].job, !.todo = proc[p].todo]
  <2>1. proc' = [proc EXCEPT ![p] = x]
    BY <1>3 DEF Back
  <2>2. proc[p].job \in TickJobs /\ proc[p].todo \in SUBSET Rec
    BY <1>1, <1>3, Fields
  <2>3. /\ x \in Proc /\ x.at = proc[p].job /\ x.job = proc[p].job /\ x.todo = proc[p].todo
        /\ x.key = "none" /\ x.cur = NoRec /\ x.out = <<"", "">>
    BY <2>2, NoRecFacts DEF Proc, Places, TickJobs
  <2> HIDE DEF x
  <2> QED BY <1>3, <2>1, <2>3, SetFacts
<1> QED BY <1>2, <1>3

\* A refused dispatch has its outcome in hand.
LEMMA RefusedFacts ==
    ASSUME ProcTypes, NEW p \in Process, NEW status \in Over, Refused(p, status)
    PROVE  /\ Elsewhere(p) /\ proc'[p].at = "refused" /\ proc'[p].job = proc[p].job
           /\ proc'[p].key = proc[p].key /\ proc'[p].todo = proc[p].todo
           /\ proc'[p].cur = proc[p].cur /\ proc'[p].out = <<status, "DISPATCH">>
<1> DEFINE x == [proc[p] EXCEPT !.at = "refused", !.out = <<status, "DISPATCH">>]
<1>1. proc[p] \in Proc
  BY DEF ProcTypes
<1>2. <<status, "DISPATCH">> \in (Over \cup {""}) \X {"", "DISPATCH", "WATCHED"}
  OBVIOUS
<1>3. /\ x \in Proc /\ x.at = "refused" /\ x.out = <<status, "DISPATCH">> /\ x.job = proc[p].job
      /\ x.key = proc[p].key /\ x.todo = proc[p].todo /\ x.cur = proc[p].cur
  BY <1>1, <1>2 DEF Proc, Places
<1>4. proc' = [proc EXCEPT ![p] = x]
  BY DEF Refused, ProcTypes
<1> HIDE DEF x
<1> QED BY <1>3, <1>4, SetFacts

\* The tick takes a record off its list and turns to it.
LEMMA TurnsFacts ==
    ASSUME ProcTypes, NEW r \in Rec, NEW a \in Places,
           NEW out \in (Over \cup {""}) \X {"", "DISPATCH", "WATCHED"}, Turns(r, a, out)
    PROVE  /\ Elsewhere(Tick) /\ proc'[Tick].at = a /\ proc'[Tick].job = proc[Tick].job
           /\ proc'[Tick].key = r.key /\ proc'[Tick].todo = proc[Tick].todo \ {r}
           /\ proc'[Tick].cur = r /\ proc'[Tick].out = out
<1> DEFINE x == [proc[Tick] EXCEPT !.at = a, !.key = r.key, !.cur = r, !.out = out,
                                   !.todo = proc[Tick].todo \ {r}]
<1>1. proc[Tick] \in Proc
  BY TickProcess DEF ProcTypes
<1>2. r.key \in Key
  BY DEF Rec
<1>3. /\ x \in Proc /\ x.at = a /\ x.job = proc[Tick].job /\ x.key = r.key /\ x.cur = r
      /\ x.todo = proc[Tick].todo \ {r} /\ x.out = out
  BY <1>1, <1>2 DEF Proc
<1>4. proc' = [proc EXCEPT ![Tick] = x]
  BY DEF Turns
<1> HIDE DEF x
<1> QED BY <1>3, <1>4, SetFacts, TickProcess

\* The tick drops a record from its list and stays where it is.
LEMMA DropsFacts ==
    ASSUME ProcTypes, NEW r, Drops(r)
    PROVE  /\ Elsewhere(Tick) /\ proc'[Tick].at = proc[Tick].at /\ proc'[Tick].job = proc[Tick].job
           /\ proc'[Tick].key = proc[Tick].key /\ proc'[Tick].todo = proc[Tick].todo \ {r}
           /\ proc'[Tick].cur = proc[Tick].cur /\ proc'[Tick].out = proc[Tick].out
<1> DEFINE x == [proc[Tick] EXCEPT !.todo = proc[Tick].todo \ {r}]
<1>1. proc[Tick] \in Proc
  BY TickProcess DEF ProcTypes
<1>2. /\ x \in Proc /\ x.at = proc[Tick].at /\ x.job = proc[Tick].job /\ x.key = proc[Tick].key
      /\ x.cur = proc[Tick].cur /\ x.todo = proc[Tick].todo \ {r} /\ x.out = proc[Tick].out
  BY <1>1 DEF Proc
<1>3. proc' = [proc EXCEPT ![Tick] = x]
  BY TickProcess DEF Drops, ProcTypes
<1> HIDE DEF x
<1> QED BY <1>2, <1>3, SetFacts, TickProcess

\* Records(S) are the runs of S as they are now, one for each.
LEMMA RecordsFacts ==
    ASSUME RunTypes, NEW S \in SUBSET Key
    PROVE  /\ Records(S) \in SUBSET Rec
           /\ \A r \in Records(S) : r.key \in S /\ r.run = run[r.key]
           /\ \A k \in S : \E r \in Records(S) : r.key = k
           /\ \A r, q \in Records(S) : r.key = q.key => r = q
<1>1. \A k \in S : [key |-> k, run |-> run[k]] \in Rec
  BY DEF Rec, RunTypes
<1>2. \A r \in Records(S) : \E k \in S : r = [key |-> k, run |-> run[k]]
  BY DEF Records
<1>3. \A k \in S : [key |-> k, run |-> run[k]] \in Records(S)
  BY DEF Records
<1>4. \A k \in S : /\ [key |-> k, run |-> run[k]].key = k
                   /\ [key |-> k, run |-> run[k]].run = run[k]
  OBVIOUS
<1>5. \A r \in Records(S) : r \in Rec /\ r.key \in S /\ r.run = run[r.key]
                            /\ r = [key |-> r.key, run |-> run[r.key]]
  BY <1>1, <1>2, <1>4
<1>6. \A k \in S : \E r \in Records(S) : r.key = k
  BY <1>3, <1>4
<1>7. \A r, q \in Records(S) : r.key = q.key => r = q
  BY <1>5
<1> QED BY <1>5, <1>6, <1>7

\* The tick starts on a new list.
LEMMA ListsFacts ==
    ASSUME ProcTypes, RunTypes, NEW a \in {"settle", "monitor", "waiting"}, NEW S \in SUBSET Key,
           Lists(a, S)
    PROVE  /\ Elsewhere(Tick) /\ proc'[Tick].at = a /\ proc'[Tick].job = a
           /\ proc'[Tick].key = "none" /\ proc'[Tick].todo = Records(S)
           /\ proc'[Tick].cur = NoRec /\ proc'[Tick].out = <<"", "">>
<1> DEFINE x == [Idle EXCEPT !.at = a, !.job = a, !.todo = Records(S)]
<1>1. Records(S) \in SUBSET Rec
  BY RecordsFacts
<1>2. /\ x \in Proc /\ x.at = a /\ x.job = a /\ x.key = "none" /\ x.cur = NoRec
      /\ x.todo = Records(S) /\ x.out = <<"", "">>
  BY <1>1, NoRecFacts DEF Proc, Places
<1>3. proc' = [proc EXCEPT ![Tick] = x]
  BY DEF Lists
<1> HIDE DEF x
<1> QED BY <1>2, <1>3, SetFacts, TickProcess

-----------------------------------------------------------------------------
(* The registry                                                            *)

\* Main task, gate task and the gate's answer are what they were.
Same(k) == /\ run'[k].main = run[k].main /\ run'[k].gateTask = run[k].gateTask
           /\ run'[k].gate = run[k].gate

\* The run of k is over after the step, and no other run is touched.
Finished(k, reason) ==
    /\ RunTypes' /\ Plain'
    /\ \A j \in Key : Same(j) /\ (j # k => run'[j] = run[j])
    /\ run'[k].status \in Over
    /\ run[k].status \in Over => run' = run
    /\ run[k].status \notin Over => run'[k].reason = reason
    /\ paused' = paused

\* The failure count is reset, kept, or raised below its bound.
LEMMA FailCount ==
    ASSUME NEW m \in Nat, NEW f \in 0 .. m, NEW g, g = 0 \/ g = f \/ (f < m /\ g = f + 1)
    PROVE  g \in 0 .. m
  OBVIOUS

\* What finish does to a run and to the failure count.
LEMMA FinishFacts ==
    ASSUME RunTypes, Plain, NEW k \in Key, NEW status \in Over,
           NEW reason \in {"", "REPLACED", "KILLED", "DISPATCH", "WATCHED"}, finish(k, status, reason)
    PROVE  Finished(k, reason)
<1>0. {MaxFails, StallTicks} \subseteq Nat \ {0}
  BY AutomationAssumption
<1>1. run[k] \in Run
  BY DEF RunTypes
<1>2. CASE run[k].status \in Over
  BY <1>2 DEF finish, ledger, Finished, Same, Plain, RunTypes
<1>3. CASE run[k].status \notin Over
  <2>1. run' = [run EXCEPT ![k].status = status, ![k].reason = reason] /\ version' = version /\ paused' = paused
        /\ fails' \in {0, fails} \cup (IF fails < MaxFails THEN {fails + 1} ELSE {})
        /\ enabled' \in {0, enabled}
    BY <1>3 DEF finish
  <2>2. Plain'
    <3>0. MaxFails \in Nat
      BY <1>0
    <3>1. fails \in 0 .. MaxFails /\ version \in Version
          /\ enabled \in Version \cup {0} /\ paused \in BOOLEAN
      BY DEF Plain
    <3>2. fails' = 0 \/ fails' = fails \/ (fails < MaxFails /\ fails' = fails + 1)
      BY <2>1
    <3>3. fails' \in 0 .. MaxFails
      BY <3>0, <3>1, <3>2, FailCount
    <3> QED BY <2>1, <3>1, <3>3 DEF Plain
  <2> DEFINE x == [run[k] EXCEPT !.status = status, !.reason = reason]
  <2>3. /\ x \in Run /\ x.status = status /\ x.reason = reason /\ x.main = run[k].main
        /\ x.gateTask = run[k].gateTask /\ x.gate = run[k].gate
    BY <1>1 DEF Run, Status
  <2>4. run' = [run EXCEPT ![k] = x]
    BY <2>1 DEF RunTypes
  <2> HIDE DEF x
  <2>5. RunTypes' /\ run'[k] = x /\ \A j \in Key : j # k => run'[j] = run[j]
    BY <2>3, <2>4 DEF RunTypes
  <2> QED BY <1>3, <2>1, <2>2, <2>3, <2>5 DEF Finished, Same
<1> QED BY <1>2, <1>3

-----------------------------------------------------------------------------
(* What a step must leave to the processes that do not move                *)

Grows == \A k \in Key : /\ run[k].status # "none" => run'[k].status # "none"
                        /\ run[k].main => run'[k].main
                        /\ run[k].gateTask => run'[k].gateTask
TasksGrow == \A s \in Stage : task[s] # "none" => task'[s] # "none"

\* No run that was over, or was not there, is open afterwards.
NoneOpens == \A k \in Key : run'[k].status \notin Over \cup {"none"} =>
                            run[k].status \notin Over \cup {"none"}

\* For a process q outside of M.
StaysFor(q, M) ==
    /\ proc'[q] = proc[q]
    /\ proc[q].at \in Launching => Same(proc[q].key)
    /\ proc[q].at \in {"create", "start"} => run'[proc[q].key].reason # "WATCHED"
    /\ proc[q].at \in Dispatches =>
           /\ proc[q].key \in inflight'
           /\ \A p \in M : proc'[p].at \in Dispatches => proc'[p].key # proc[q].key
    /\ q \in Handler /\ q \notin lifted' => q \notin lifted
    /\ q \in Handler /\ q \notin lifted' /\ proc[q].at \in {"kill", "killed"} =>
           paused' /\ NoneOpens
Stays(M) == Grows /\ TasksGrow /\ \A q \in Process \ M : StaysFor(q, M)

TickStays ==
    /\ \A k \in Key : run[k].status # "none" => run'[k].gate = run[k].gate
    /\ proc[Tick].at = "refused" /\ proc[Tick].out[2] = "WATCHED" => NoneAlive(proc[Tick].key)'

\* What a record says of a run that only gains stays true.
LEMMA RecKept ==
    ASSUME Grows, NEW r \in Rec, RecFits(r) PROVE RecFits(r)'
  BY DEF Grows, Rec, RecFits

\* A process that does not move keeps records that fit.
LEMMA HeldKept ==
    ASSUME Types, NEW q \in Process, Held1(q), Grows, proc'[q] = proc[q]
    PROVE  Held1(q)'
<1>1. proc[q].todo \in SUBSET Rec
  BY Fields DEF Types, ProcTypes
<1>2. \A r \in proc[q].todo : r \in Rec
  BY <1>1
<1>3. \A r \in proc[q].todo : RecFits(r)'
  BY <1>2, RecKept DEF Held1
<1>4. proc[q].cur \in Rec => RecFits(proc[q].cur)'
  BY RecKept DEF Held1
<1>5. \A r \in proc'[q].todo : RecFits(r)'
  BY <1>3
<1>6. proc'[q].cur \in Rec => RecFits(proc[q].cur)'
  BY <1>4
<1> QED BY <1>5, <1>6 DEF Held1, RecFits

\* A process that does not move keeps its hold on the key it dispatches.
LEMMA DispatchedKept ==
    ASSUME Types, NEW M \in SUBSET Process, NEW q \in Process \ M, DispatchInv, Stays(M)
    PROVE  Dispatched(q)'
<1>0. Dispatched(q) /\ StaysFor(q, M) /\ Grows /\ TasksGrow /\ proc'[q] = proc[q]
  BY DEF DispatchInv, Stays, StaysFor
<1>1. proc[q].at \in {"dispatch", "refused", "replace", "replaced"} \cup Dispatches =>
          proc[q].key \in Key /\ run'[proc[q].key].status # "none"
  BY <1>0 DEF Dispatched, Grows
<1>2. ASSUME proc[q].at \in Dispatches
      PROVE  /\ proc[q].key \in inflight'
             /\ \A p \in Process : p # q /\ proc'[p].at \in Dispatches => proc'[p].key # proc[q].key
  <2>1. proc[q].key \in inflight'
    BY <1>0, <1>2 DEF StaysFor
  <2>2. ASSUME NEW p \in Process, p # q, proc'[p].at \in Dispatches
        PROVE  proc'[p].key # proc[q].key
    <3>1. CASE p \in M
      BY <1>0, <1>2, <2>2, <3>1 DEF StaysFor
    <3>2. CASE p \notin M
      <4>1. proc'[p] = proc[p]
        BY <3>2 DEF Stays, StaysFor
      <4> QED BY <1>0, <1>2, <2>2, <4>1 DEF Dispatched
    <3> QED BY <3>1, <3>2
  <2> QED BY <2>1, <2>2
<1>3. ASSUME proc[q].at \in Launching
      PROVE  /\ Fresh(proc[q].key)' /\ proc[q].key \in Key
             /\ proc[q].at # "create" => task'[StageOf(q)'] # "none"
  <2>1. proc[q].key \in Key /\ Same(proc[q].key) /\ Fresh(proc[q].key)
        /\ (proc[q].at # "create" => task[StageOf(q)] # "none")
    BY <1>0, <1>3 DEF Dispatched, StaysFor, Launching, Dispatches
  <2>2. Fresh(proc[q].key)'
    BY <1>0, <2>1 DEF Fresh, Same
  <2>3. StageOf(q)' = StageOf(q) /\ StageOf(q) \in Stage
    BY <1>0, <2>1, StageFacts DEF StageOf, KeyOf, Same
  <2> QED BY <1>0, <2>1, <2>2, <2>3 DEF TasksGrow
<1>4. proc[q].at \in {"create", "start"} => run'[proc[q].key].reason # "WATCHED"
  BY <1>0 DEF StaysFor
<1>5. proc[q].at = "refused" => proc[q].out[1] \in Over
  BY <1>0 DEF Dispatched
<1> QED BY <1>0, <1>1, <1>2, <1>3, <1>4, <1>5 DEF Dispatched, Fresh

\* A handler that does not move keeps what it can rely on.
LEMMA HandlerKept ==
    ASSUME Types, NEW M, NEW q \in Handler, q \notin M, q \in Process, HandlerFits(q), Stays(M)
    PROVE  HandlerFits(q)'
<1>0. proc'[q] = proc[q] /\ StaysFor(q, M)
  BY DEF Stays, StaysFor
<1>1. ASSUME proc[q].at \in {"kill", "killed"}, q \notin lifted'
      PROVE  /\ paused'
             /\ \A k \in Fired' : run'[k].status \in Over \/ \E r \in proc[q].todo : r.key = k
  <2>1. q \notin lifted /\ paused' /\ NoneOpens
    BY <1>0, <1>1 DEF StaysFor
  <2>2. \A k \in Fired : run[k].status \in Over \/ \E r \in proc[q].todo : r.key = k
    BY <1>1, <2>1 DEF HandlerFits
  <2> QED BY <2>1, <2>2 DEF NoneOpens, Fired
<1> QED BY <1>0, <1>1 DEF HandlerFits

\* The tick, when it does not move, keeps what it can rely on.
LEMMA TickKept ==
    ASSUME Types, HeldInv, DispatchInv, TickFits, TickStays, proc'[Tick] = proc[Tick]
    PROVE  TickFits'
<1>0. Tick \in Process /\ Held1(Tick) /\ Dispatched(Tick) /\ proc[Tick].todo \in SUBSET Rec
  BY TickProcess, Fields DEF HeldInv, DispatchInv, Types, ProcTypes
<1>1. \A r \in Rec : RecFits(r) /\ Current(r) => Current(r)'
  BY DEF Rec, RecFits, Current, TickStays
<1>2. \A r \in proc[Tick].todo : Current(r)'
  BY <1>0, <1>1 DEF Held1, TickFits
<1>3. proc[Tick].at \in Turned => Current(proc[Tick].cur)'
  BY <1>0, <1>1 DEF Held1, TickFits
<1>4. ASSUME proc[Tick].at = "refused", proc[Tick].out[2] = "WATCHED"
      PROVE  NoneAlive(proc[Tick].key)' /\ run'[proc[Tick].key].gate = run[proc[Tick].key].gate
  BY <1>0, <1>4 DEF Dispatched, TickStays
<1>5. live_task_of(proc[Tick].cur)' = live_task_of(proc[Tick].cur)
  BY DEF live_task_of, InGate
<1>6. proc[Tick].at \in Turned => (live_task_of(proc[Tick].cur) # {})'
  BY <1>5 DEF TickFits
<1>7. \A r \in proc'[Tick].todo : Current(r)'
  BY <1>2
<1> QED BY <1>3, <1>4, <1>5, <1>6, <1>7 DEF TickFits, Current, NoneAlive

\* The frame of every step: M are the processes that move.
LEMMA StepKeeps ==
    ASSUME IInv, NEW M \in SUBSET Process, Types', RunsInv', TasksInv', ToldInv', Stays(M),
           \A p \in M : Held1(p)' /\ Dispatched(p)' /\ (p \in Handler => HandlerFits(p)'),
           Tick \notin M => TickStays, Tick \in M => TickFits'
    PROVE  IInv'
<1>1. \A q \in Process \ M : proc'[q] = proc[q]
  BY DEF Stays, StaysFor
<1>2. HeldInv'
  BY <1>1, HeldKept DEF IInv, HeldInv, Stays
<1>3. DispatchInv'
  <2>1. \A q \in Process \ M : Dispatched(q)'
    BY DispatchedKept DEF IInv
  <2> QED BY <2>1 DEF DispatchInv
<1>4. HandlersInv'
  <2>1. \A q \in Handler : q \notin M => HandlerFits(q)'
    BY HandlerKept, TickProcess DEF IInv, HandlersInv
  <2> QED BY <2>1 DEF HandlersInv
<1>5. TickFits'
  BY <1>1, TickProcess, TickKept DEF IInv
<1> QED BY <1>2, <1>3, <1>4, <1>5 DEF IInv

-----------------------------------------------------------------------------
(* Calm steps: no run is made, recorded or answered, and no task is made   *)

RunCalm == \A k \in Key : /\ Same(k)
                          /\ \/ run'[k] = run[k]
                             \/ run[k].status # "none" /\ run'[k].status \in Over
TaskCalm == \A s \in Stage : /\ task'[s] = "none" <=> task[s] = "none"
                             /\ task[s] = "Completed" => task'[s] = "Completed"

\* A calm step opens no run and takes nothing from one.
LEMMA CalmRuns == ASSUME RunCalm PROVE Grows /\ NoneOpens
  BY DEF RunCalm, Same, Grows, NoneOpens, Over

\* A step calm for runs and tasks keeps the runs in step with their tasks.
LEMMA RunsKept == ASSUME RunsInv, RunCalm, TaskCalm PROVE RunsInv'
<1> SUFFICES ASSUME NEW k \in Key PROVE RunFits(k)'
  BY DEF RunsInv
<1>1. RunFits(k) /\ Same(k) /\ (run'[k] = run[k] \/ (run[k].status # "none" /\ run'[k].status \in Over))
  BY DEF RunsInv, RunCalm
<1>2. /\ task'[<<k, "main">>] = "none" <=> task[<<k, "main">>] = "none"
      /\ task'[<<k, "gate">>] = "none" <=> task[<<k, "gate">>] = "none"
      /\ task[<<k, "gate">>] = "Completed" => task'[<<k, "gate">>] = "Completed"
  BY StageFacts DEF TaskCalm
<1>3. run'[k].status = "none" => run'[k] = run[k]
  BY <1>1 DEF Over
<1> QED BY <1>1, <1>2, <1>3 DEF RunFits, Same

\* The other processes are not in the way of p.
Alone(p) ==
    \A q \in Process : q # p /\ proc[q].at \in Dispatches =>
        /\ proc[q].key \in inflight'
        /\ proc'[p].at \in Dispatches => proc'[p].key # proc[q].key

\* The kills of the others are not lifted, or are on record as lifted.
Switches(p) == \A q \in Handler : q # p /\ q \notin lifted' => q \notin lifted /\ (paused => paused')

\* A step of one process that is calm for everybody else, and may move the
\* pause, preserves the invariant once its own parts hold.
LEMMA CalmSwitch ==
    ASSUME IInv, NEW p \in Process, Types', Elsewhere(p), Alone(p), RunCalm, TaskCalm, TasksInv',
           ToldInv', Switches(p),
           \A q \in Process : q # p /\ proc[q].at \in {"create", "start"} =>
               run'[proc[q].key].reason # "WATCHED",
           Held1(p)', Dispatched(p)', p \in Handler => HandlerFits(p)', p = Tick => TickFits',
           p # Tick /\ proc[Tick].at = "refused" /\ proc[Tick].out[2] = "WATCHED" =>
               NoneAlive(proc[Tick].key)'
    PROVE  IInv'
<1> DEFINE M == {p}
<1>1. RunsInv'
  BY RunsKept DEF IInv
<1>2. Grows /\ NoneOpens /\ TasksGrow
  BY CalmRuns DEF TaskCalm, TasksGrow
<1>3. ASSUME NEW q \in Process \ M PROVE StaysFor(q, M)
  <2>1. q # p /\ proc'[q] = proc[q]
    BY DEF Elsewhere
  <2>2. proc[q].at \in Launching => Same(proc[q].key)
    <3>1. proc[q].at \in Launching => proc[q].key \in Key
      BY DEF IInv, DispatchInv, Dispatched, Launching, Dispatches
    <3> QED BY <3>1 DEF RunCalm
  <2>3. q \in Handler /\ q \notin lifted' =>
            q \notin lifted /\ (proc[q].at \in {"kill", "killed"} => paused')
    BY <2>1 DEF IInv, HandlersInv, HandlerFits, Switches
  <2> QED BY <1>2, <2>1, <2>2, <2>3 DEF StaysFor, Alone
<1>4. Stays(M)
  BY <1>2, <1>3 DEF Stays
<1>5. Tick \notin M => TickStays
  BY DEF TickStays, RunCalm, Same
<1>6. M \in SUBSET Process
  OBVIOUS
<1>7. /\ \A x \in M : Held1(x)' /\ Dispatched(x)' /\ (x \in Handler => HandlerFits(x)')
      /\ Tick \in M => TickFits'
  OBVIOUS
<1> HIDE DEF M
<1> QED BY <1>1, <1>4, <1>5, <1>6, <1>7, StepKeeps

\* The same for a step that leaves the pause alone.
LEMMA CalmStep ==
    ASSUME IInv, NEW p \in Process, Types', Elsewhere(p), Alone(p), RunCalm, TaskCalm, TasksInv',
           ToldInv', UNCHANGED <<paused, lifted>>,
           \A q \in Process : q # p /\ proc[q].at \in {"create", "start"} =>
               run'[proc[q].key].reason # "WATCHED",
           Held1(p)', Dispatched(p)', p \in Handler => HandlerFits(p)', p = Tick => TickFits',
           p # Tick /\ proc[Tick].at = "refused" /\ proc[Tick].out[2] = "WATCHED" =>
               NoneAlive(proc[Tick].key)'
    PROVE  IInv'
<1>1. Switches(p)
  BY DEF Switches
<1> QED BY <1>1, CalmSwitch

\* A calm step that no process makes.
LEMMA CalmTasks ==
    ASSUME IInv, Types', proc' = proc, inflight' = inflight, RunCalm, TaskCalm, TasksInv', ToldInv',
           UNCHANGED <<paused, lifted>>,
           \A k \in Key : run'[k].reason = run[k].reason,
           alive' \subseteq alive
    PROVE  IInv'
<1>1. RunsInv'
  BY RunsKept DEF IInv
<1>2. Grows /\ NoneOpens /\ TasksGrow
  BY CalmRuns DEF TaskCalm, TasksGrow
<1>3. ASSUME NEW q \in Process PROVE StaysFor(q, {})
  <2>1. proc[q].at \in Dispatches => proc[q].key \in Key /\ proc[q].key \in inflight
    BY DEF IInv, DispatchInv, Dispatched
  <2>2. /\ proc[q].at \in Launching => Same(proc[q].key)
        /\ proc[q].at \in {"create", "start"} => run'[proc[q].key].reason # "WATCHED"
    BY <2>1 DEF IInv, DispatchInv, Dispatched, RunCalm, Launching, Dispatches
  <2>3. q \in Handler /\ q \notin lifted' /\ proc[q].at \in {"kill", "killed"} => paused'
    BY DEF IInv, HandlersInv, HandlerFits
  <2> QED BY <1>2, <2>1, <2>2, <2>3 DEF StaysFor
<1>4. Stays({})
  BY <1>2, <1>3 DEF Stays
<1>5. TickStays
  BY DEF TickStays, RunCalm, Same, IInv, TickFits, NoneAlive
<1>6. {} \in SUBSET Process
  OBVIOUS
<1> QED BY <1>1, <1>4, <1>5, <1>6, StepKeeps

\* No new run is ended by the tick, no new loop appears under one, and nobody
\* forgets a stop: then every ended run is still told.
LEMMA ToldKept ==
    ASSUME ToldInv, \A k \in Key : run'[k].reason = "WATCHED" => run[k].reason = "WATCHED",
           \A s \in alive' : s \in alive \/ run'[s[1]].reason # "WATCHED",
           \A s \in alive' : s \in token => s \in token',
           proc[Tick].at \in Turned => proc'[Tick].at \in Turned /\ proc'[Tick].cur = proc[Tick].cur
    PROVE  ToldInv'
  BY DEF ToldInv, Told

\* One process per key in flight: whoever enters none, keeps its own or
\* releases it leaves the others alone.
LEMMA AloneFacts ==
    ASSUME IInv, NEW p \in Process, Elsewhere(p)
    PROVE  /\ inflight' = inflight /\ proc'[p].at \notin Dispatches => Alone(p)
           /\ (inflight' = inflight /\ proc[p].at \in Dispatches /\ proc'[p].key = proc[p].key)
              => Alone(p)
           /\ Releases(p) /\ proc[p].at \in Dispatches /\ proc'[p].at \notin Dispatches => Alone(p)
<1>1. \A q \in Process : proc[q].at \in Dispatches =>
          /\ proc[q].key \in inflight
          /\ q # p /\ proc[p].at \in Dispatches => proc[q].key # proc[p].key
  BY DEF IInv, DispatchInv, Dispatched
<1> QED BY <1>1 DEF Alone, Releases

\* A process that goes on, or comes back, with no more than it held.
Onward(p) ==
    /\ proc'[p].todo \subseteq proc[p].todo /\ (proc'[p].cur = proc[p].cur \/ proc'[p].cur = NoRec)
    /\ proc'[p].at \notin {"replaced", "kill", "killed", "cancel", "expired", "boot"}
    /\ p # Tick \/ proc'[p].at = "refused" => proc'[p].out[2] # "WATCHED"
    /\ p = Tick => /\ proc'[p].job = proc[p].job /\ proc[p].job \in TickJobs
                   /\ proc'[p].at \notin {"idle", "replace"}

\* A process that goes onward with what it had keeps what it can rely on.
LEMMA MoverFits ==
    ASSUME IInv, NEW p \in Process, Elsewhere(p), Grows,
           \A k \in Key : run[k].status # "none" => run'[k].gate = run[k].gate,
           Onward(p)
    PROVE  Held1(p)' /\ (p \in Handler => HandlerFits(p)') /\ (p = Tick => TickFits')
<1> USE DEF Onward
<1>1. Held1(p) /\ proc[p].todo \in SUBSET Rec
  BY Fields DEF IInv, HeldInv, Types, ProcTypes
<1>2. \A r \in proc'[p].todo : r \in Rec /\ r \in proc[p].todo /\ RecFits(r) /\ RecFits(r)'
  BY <1>1, RecKept DEF Held1
<1>3. proc'[p].cur \in Rec => RecFits(proc[p].cur)'
  BY <1>1, RecKept, NoRecFacts DEF Held1
<1>4. Held1(p)'
  BY <1>2, <1>3 DEF Held1, Turned, RecFits
<1>5. p \in Handler => HandlerFits(p)'
  BY TickProcess DEF HandlerFits
<1>6. ASSUME p = Tick PROVE TickFits'
  <2>1. \A r \in proc'[Tick].todo : Current(r)'
    <3>1. \A r \in proc'[Tick].todo : r.key \in Key /\ run[r.key].status # "none" /\ Current(r)
      BY <1>2, <1>6 DEF RecFits, Rec, IInv, TickFits
    <3> QED BY <3>1 DEF Current
  <2>2. \A r, q \in proc'[Tick].todo : q.key = r.key => q = r
    BY <1>2, <1>6 DEF IInv, TickFits
  <2> QED BY <1>6, <2>1, <2>2 DEF TickFits, Turned, Current
<1> QED BY <1>4, <1>5, <1>6

-----------------------------------------------------------------------------
(* The steps of a dispatch                                                 *)

Untouched == run' = run /\ UNCHANGED <<tasks, stall, paused, lifted>> /\ Plain'

\* A step that touches no run, task or pause preserves the invariant once the
\* moving process fits.
LEMMA QuietStep ==
    ASSUME IInv, NEW p \in Process, Untouched, Elsewhere(p), inflight' \subseteq Key, Alone(p),
           p = Tick => proc[p].at \notin Turned,
           Held1(p)', Dispatched(p)', p \in Handler => HandlerFits(p)', p = Tick => TickFits'
    PROVE  IInv'
<1>1. Types'
  BY DEF IInv, Types, Untouched, tasks, Elsewhere, TaskTypes, MemTypes, RunTypes
<1>2. RunCalm /\ TaskCalm /\ TasksInv' /\ UNCHANGED <<paused, lifted>>
  BY DEF Untouched, tasks, RunCalm, TaskCalm, Same, IInv, TasksInv, TaskFits
<1>3. ToldInv'
  <2>1. proc[Tick].at \in Turned => proc'[Tick] = proc[Tick]
    BY TickProcess DEF Elsewhere
  <2>2. run' = run /\ alive' = alive /\ token' = token
    BY DEF Untouched, tasks
  <2> QED BY <2>1, <2>2, ToldKept DEF IInv
<1>4. /\ \A q \in Process : q # p /\ proc[q].at \in {"create", "start"} =>
             run'[proc[q].key].reason # "WATCHED"
      /\ p # Tick /\ proc[Tick].at = "refused" /\ proc[Tick].out[2] = "WATCHED" =>
             NoneAlive(proc[Tick].key)'
  <2>1. p # Tick => proc'[Tick] = proc[Tick]
    BY TickProcess DEF Elsewhere
  <2>2. run' = run /\ alive' = alive
    BY DEF Untouched, tasks
  <2>3. \A q \in Process : q # p /\ proc[q].at \in {"create", "start"} =>
            run[proc[q].key].reason # "WATCHED"
    BY DEF IInv, DispatchInv, Dispatched
  <2>4. p # Tick /\ proc[Tick].at = "refused" /\ proc[Tick].out[2] = "WATCHED" =>
            NoneAlive(proc[Tick].key)'
    BY <2>1, <2>2 DEF IInv, TickFits, NoneAlive
  <2> QED BY <2>2, <2>3, <2>4
<1> QED BY <1>1, <1>2, <1>3, <1>4, CalmStep

\* The same for a process that only goes onward.
LEMMA QuietOnward ==
    ASSUME IInv, NEW p \in Process, Untouched, Elsewhere(p), inflight' \subseteq Key, Alone(p),
           p = Tick => proc[p].at \notin Turned, Onward(p), Dispatched(p)'
    PROVE  IInv'
<1>1. Grows /\ \A k \in Key : run[k].status # "none" => run'[k].gate = run[k].gate
  BY DEF Untouched, Grows
<1> QED BY <1>1, MoverFits, QuietStep

\* Where a process that dispatches may be, and what is known of it.
LEMMA Dispatcher ==
    ASSUME IInv, NEW p \in Process, proc[p].at \in {"dispatch", "refused"} \cup Dispatches
    PROVE  /\ proc[p].key \in Key /\ run[proc[p].key].status # "none" /\ RunFits(proc[p].key)
           /\ p = Tick => proc[p].job \in TickJobs
           /\ p # Tick => proc[p].out[2] # "WATCHED"
           /\ proc[p].at \notin Turned
           /\ ProcTypes /\ Dispatched(p)
           /\ run[proc[p].key] \in Run /\ inflight \subseteq Key
  BY TickProcess DEF IInv, DispatchInv, Dispatched, RunsInv, HandlersInv, HandlerFits, TickFits,
         Turned, Dispatches, Types, RunTypes, MemTypes, Process

\* Going back from a dispatch is going onward.
LEMMA BackOnward ==
    ASSUME IInv, NEW p \in Process, proc[p].at \in {"dispatch", "refused"} \cup Dispatches, Back(p)
    PROVE  /\ Elsewhere(p) /\ Onward(p) /\ proc'[p].at \in TickJobs \cup {"idle"}
           /\ Dispatched(p)'
<1>1. ProcTypes /\ (p = Tick => proc[p].job \in TickJobs)
  BY Dispatcher
<1>2. /\ Elsewhere(p) /\ proc'[p].key = "none" /\ proc'[p].cur = NoRec
      /\ proc'[p].out = <<"", "">>
      /\ p = Tick => /\ proc'[p].at = proc[p].job /\ proc'[p].job = proc[p].job
                     /\ proc'[p].todo = proc[p].todo
      /\ p # Tick => proc'[p].at = "idle" /\ proc'[p].job = "none" /\ proc'[p].todo = {}
  BY <1>1, BackFacts
<1>3. proc'[p].at \in TickJobs \cup {"idle"} /\ proc'[p].out[2] # "WATCHED"
  <2>1. <<"", "">>[2] # "WATCHED"
    OBVIOUS
  <2> QED BY <1>1, <1>2, <2>1
<1>4. Onward(p)
  BY <1>1, <1>2, <1>3 DEF Onward, TickJobs
<1>5. Dispatched(p)'
  BY <1>3 DEF Dispatched, TickJobs, Dispatches, Launching
<1> QED BY <1>2, <1>3, <1>4, <1>5

\* A dispatch that leaves its key and comes back.
LEMMA BackKeeps ==
    ASSUME IInv, NEW p \in Process, Untouched, Back(p),
           \/ proc[p].at = "dispatch" /\ inflight' = inflight
           \/ proc[p].at \in Dispatches /\ Releases(p)
    PROVE  IInv'
<1>1. /\ Elsewhere(p) /\ Onward(p) /\ proc'[p].at \in TickJobs \cup {"idle"} /\ Dispatched(p)'
  BY BackOnward
<1>2. proc'[p].at \notin Dispatches
  BY <1>1 DEF TickJobs, Dispatches
<1>3. Alone(p)
  BY <1>1, <1>2, AloneFacts
<1>4. inflight' \subseteq Key /\ proc[p].at \notin Turned
  BY Dispatcher DEF Releases
<1> QED BY <1>1, <1>3, <1>4, QuietOnward

\* A dispatch that is refused releases its key and goes to record that.
LEMMA RefusedKeeps ==
    ASSUME IInv, NEW p \in Process, Untouched, NEW status \in Over, Refused(p, status),
           proc[p].at \in Dispatches, Releases(p)
    PROVE  IInv'
<1>1. ProcTypes /\ inflight' \subseteq Key /\ proc[p].at \notin Turned /\ proc[p].key \in Key
      /\ run[proc[p].key].status # "none" /\ (p = Tick => proc[p].job \in TickJobs)
  BY Dispatcher DEF Releases
<1>2. /\ Elsewhere(p) /\ proc'[p].at = "refused" /\ proc'[p].job = proc[p].job
      /\ proc'[p].key = proc[p].key /\ proc'[p].todo = proc[p].todo
      /\ proc'[p].cur = proc[p].cur /\ proc'[p].out = <<status, "DISPATCH">>
  BY <1>1, RefusedFacts
<1>3. Onward(p)
  BY <1>1, <1>2 DEF Onward
<1>4. Dispatched(p)'
  BY <1>1, <1>2 DEF Dispatched, Untouched, Dispatches, Launching
<1>5. Alone(p)
  BY <1>2, AloneFacts DEF Dispatches
<1> QED BY <1>1, <1>2, <1>3, <1>4, <1>5, QuietOnward

\* A dispatch that takes its next step with the same key.
LEMMA GoesOnward ==
    ASSUME IInv, NEW p \in Process, NEW a \in Dispatches, Goes(p, a), run' = run,
           proc[p].at \in Dispatches /\ inflight' = inflight,
           a \in Launching => Fresh(proc[p].key),
           a \in Launching \ {"create"} => task'[StageOf(p)] # "none",
           a \in {"create", "start"} => run[proc[p].key].reason # "WATCHED"
    PROVE  /\ Elsewhere(p) /\ Onward(p) /\ Alone(p) /\ Dispatched(p)'
           /\ inflight' \subseteq Key /\ proc[p].at \notin Turned
<1>1. ProcTypes /\ inflight' \subseteq Key /\ proc[p].at \notin Turned /\ proc[p].key \in Key
      /\ run[proc[p].key].status # "none" /\ (p = Tick => proc[p].job \in TickJobs)
      /\ (p # Tick => proc[p].out[2] # "WATCHED") /\ Dispatched(p)
  BY Dispatcher DEF Releases
<1>2. /\ Elsewhere(p) /\ proc'[p].at = a /\ proc'[p].job = proc[p].job
      /\ proc'[p].key = proc[p].key /\ proc'[p].todo = proc[p].todo
      /\ proc'[p].cur = proc[p].cur /\ proc'[p].out = proc[p].out
  BY <1>1, GoesFacts DEF Places
<1>3. Onward(p)
  BY <1>1, <1>2 DEF Onward, Dispatches
<1>4. Alone(p)
  BY <1>2, AloneFacts
<1>5. Dispatched(p)'
  <2>2. StageOf(p)' = StageOf(p)
    BY <1>2 DEF StageOf, KeyOf
  <2>3. \A q \in Process : q # p /\ proc'[q].at \in Dispatches => proc'[q].key # proc'[p].key
    BY <1>1, <1>2 DEF Dispatched, Elsewhere
  <2>4. proc[p].key \in inflight'
    BY <1>1 DEF Dispatched
  <2>5. a \in Launching => Fresh(proc[p].key)'
    BY <1>2 DEF Fresh
  <2>6. a \in Launching \ {"create"} => task'[StageOf(p)'] # "none"
    BY <2>2
  <2>7. a # "refused" /\ Launching \subseteq Dispatches
    BY DEF Dispatches, Launching
  <2> QED BY <1>1, <1>2, <2>3, <2>4, <2>5, <2>6, <2>7 DEF Dispatched, Fresh
<1> QED BY <1>1, <1>2, <1>3, <1>4, <1>5

\* From place to place inside a dispatch.
LEMMA GoesKeeps ==
    ASSUME IInv, NEW p \in Process, Untouched, NEW a \in Dispatches, Goes(p, a),
           proc[p].at \in Dispatches /\ inflight' = inflight,
           a \in Launching => Fresh(proc[p].key),
           a \in Launching \ {"create"} => task[StageOf(p)] # "none",
           a \in {"create", "start"} => run[proc[p].key].reason # "WATCHED"
    PROVE  IInv'
<1>1. run' = run /\ task' = task
  BY DEF Untouched, tasks
<1>2. /\ Elsewhere(p) /\ Onward(p) /\ Alone(p) /\ Dispatched(p)'
      /\ inflight' \subseteq Key /\ proc[p].at \notin Turned
  BY <1>1, GoesOnward
<1> QED BY <1>2, QuietOnward

\* dispatch takes the key in flight, or finds it taken and goes back.
LEMMA DispatchKeeps == ASSUME IInv, NEW p \in Process, dispatch(p) PROVE IInv'
<1>0. Untouched /\ proc[p].at = "dispatch" /\ proc[p].key \notin inflight
      /\ inflight' = inflight \cup {proc[p].key} /\ Goes(p, "inner")
  BY DEF dispatch, ledger, Untouched, At, KeyOf, IInv, Types, Plain
<1>1. ProcTypes /\ inflight' \subseteq Key /\ proc[p].at \notin Turned /\ proc[p].key \in Key
      /\ run[proc[p].key].status # "none" /\ (p = Tick => proc[p].job \in TickJobs)
      /\ (p # Tick => proc[p].out[2] # "WATCHED")
  BY <1>0, Dispatcher
<1>2. /\ Elsewhere(p) /\ proc'[p].at = "inner" /\ proc'[p].job = proc[p].job
      /\ proc'[p].key = proc[p].key /\ proc'[p].todo = proc[p].todo
      /\ proc'[p].cur = proc[p].cur /\ proc'[p].out = proc[p].out
  BY <1>0, <1>1, GoesFacts DEF Places, Dispatches
<1>3. Onward(p)
  BY <1>1, <1>2 DEF Onward
<1>4. \A q \in Process : proc[q].at \in Dispatches => proc[q].key \in inflight
  BY DEF IInv, DispatchInv, Dispatched
<1>5. Alone(p)
  BY <1>0, <1>2, <1>4 DEF Alone
<1>6. Dispatched(p)'
  <2>1. run' = run
    BY <1>0 DEF Untouched
  <2>2. \A q \in Process : q # p /\ proc'[q].at \in Dispatches => proc'[q].key # proc'[p].key
    BY <1>0, <1>2, <1>4 DEF Elsewhere
  <2> QED BY <1>0, <1>1, <1>2, <2>1, <2>2 DEF Dispatched, Launching
<1> QED BY <1>0, <1>1, <1>2, <1>3, <1>5, <1>6, QuietOnward

\* A dispatch that finds its key in flight goes back.
LEMMA WaitedKeeps == ASSUME IInv, NEW p \in Process, dispatch_waited(p) PROVE IInv'
<1>1. Untouched /\ proc[p].at = "dispatch" /\ inflight' = inflight /\ Back(p)
  BY DEF dispatch_waited, ledger, Untouched, At, IInv, Types, Plain
<1> QED BY <1>1, BackKeeps

\* dispatch_inner: the stage to launch is still to be launched.
LEMMA InnerKeeps == ASSUME IInv, NEW p \in Process, dispatch_inner(p) PROVE IInv'
<1> DEFINE k == proc[p].key
           r == run[k]
<1>1. Untouched /\ proc[p].at = "inner"
  BY DEF dispatch_inner, ledger, Untouched, At, IInv, Types, Plain
<1>2. proc[p].at \in Dispatches
  BY <1>1 DEF Dispatches
<1>3. CASE Back(p) /\ Releases(p)
  BY <1>1, <1>2, <1>3, BackKeeps
<1>4. CASE Refused(p, "Cancelled") /\ Releases(p)
  <2>1. "Cancelled" \in Over
    BY DEF Over
  <2> QED BY <1>1, <1>2, <1>4, <2>1, RefusedKeeps
<1>5. CASE /\ r.status \notin Over /\ ~(r.status = "Running" /\ r.main)
           /\ ~Settled(r, VersionOf[k] \in Gated) /\ Goes(p, "create") /\ inflight' = inflight
  <2>1. k \in Key /\ RunFits(k) /\ r \in Run
    BY <1>2, Dispatcher
  <2>2. r.reason # "WATCHED" /\ ~r.main
    BY <1>5, <2>1 DEF RunFits
  <2>3. VersionOf[k] \in Gated => (r.gate = "none" /\ ~r.gateTask) \/ r.gate = "RUN"
    BY <1>5 DEF Settled
  <2>4. Fresh(k)
    BY <2>2, <2>3 DEF Fresh
  <2>5. "create" \in Dispatches
    BY DEF Dispatches
  <2> QED BY <1>1, <1>2, <1>5, <2>2, <2>4, <2>5, GoesKeeps
<1> QED BY <1>3, <1>4, <1>5 DEF dispatch_inner, KeyOf

\* A dispatch refused because the workspace is not trusted or its source changed.
LEMMA UntrustedKeeps == ASSUME IInv, NEW p \in Process, dispatch_untrusted(p) PROVE IInv'
<1>1. Untouched /\ proc[p].at = "inner" /\ Refused(p, "Failed") /\ Releases(p)
  BY DEF dispatch_untrusted, Untouched, At, IInv, Types, Plain
<1>2. proc[p].at \in Dispatches /\ "Failed" \in Over
  BY <1>1 DEF Dispatches, Over
<1> QED BY <1>1, <1>2, RefusedKeeps

\* A start without capacity leaves the run for a later tick.
LEMMA CapacityKeeps == ASSUME IInv, NEW p \in Process, launch_capacity(p) PROVE IInv'
<1>1. Untouched /\ proc[p].at = "start" /\ Back(p) /\ Releases(p)
  BY DEF launch_capacity, ledger, Untouched, At, IInv, Types, Plain
<1> QED BY <1>1, BackKeeps DEF Dispatches

\* A start that is refused ends the run.
LEMMA StartRefusedKeeps == ASSUME IInv, NEW p \in Process, launch_refused(p) PROVE IInv'
<1>1. Untouched /\ proc[p].at = "start" /\ Refused(p, "Failed") /\ Releases(p)
  BY DEF launch_refused, ledger, Untouched, At, IInv, Types, Plain
<1>2. proc[p].at \in Dispatches /\ "Failed" \in Over
  BY <1>1 DEF Dispatches, Over
<1> QED BY <1>1, <1>2, RefusedKeeps

\* After the start, the look at whether the run was killed meanwhile.
LEMMA LaunchedKeeps == ASSUME IInv, NEW p \in Process, launched(p) PROVE IInv'
<1>1. Untouched /\ proc[p].at = "check" /\ inflight' = inflight
      /\ \E a \in {"stop", "record"} : Goes(p, a)
  BY DEF launched, ledger, Untouched, At, IInv, Types, Plain
<1>2. proc[p].at \in Dispatches
  BY <1>1 DEF Dispatches
<1>3. Fresh(proc[p].key) /\ task[StageOf(p)] # "none"
  BY <1>1 DEF IInv, DispatchInv, Dispatched, Launching
<1> QED BY <1>1, <1>2, <1>3, GoesKeeps DEF Dispatches

\* What the record of a running stage says of the loops of its key.
LEMMA LiveStage ==
    ASSUME IInv, NEW r \in Rec, RecFits(r), Current(r), NEW s \in live_task_of(r)
    PROVE  /\ live_task_of(r) = {s} /\ s \in Stage /\ s[1] = r.key /\ task[s] # "none"
           /\ \A x \in alive : x[1] = r.key => x = s
<1>0. r.key \in Key /\ RunFits(r.key) /\ alive \subseteq Stage
      /\ r.run.main \in BOOLEAN /\ r.run.gateTask \in BOOLEAN
  BY DEF Rec, Run, IInv, RunsInv, Types, TaskTypes
<1>1. \A x \in alive : task[x] \in {"Running", "Asking", "Waiting"}
  BY <1>0 DEF IInv, TasksInv, TaskFits
<1>2. \A x \in alive : x[1] = r.key => x \in {<<r.key, "main">>, <<r.key, "gate">>}
  BY <1>0, StageFacts
<1>3. CASE InGate(r)
  <2>1. live_task_of(r) = {<<r.key, "gate">>} /\ s = <<r.key, "gate">>
    BY <1>3 DEF live_task_of
  <2>2. run[r.key].gate = "none" /\ run[r.key].gateTask
    BY <1>3 DEF InGate, Current, RecFits
  <2>3. <<r.key, "main">> \notin alive /\ task[<<r.key, "gate">>] # "none"
    BY <1>0, <1>1, <2>2 DEF RunFits
  <2> QED BY <1>0, <1>2, <2>1, <2>3, StageFacts
<1>4. CASE ~InGate(r)
  <2>1. live_task_of(r) = {<<r.key, "main">>} /\ s = <<r.key, "main">> /\ r.run.main
    BY <1>4 DEF live_task_of
  <2>2. task[<<r.key, "main">>] # "none"
    BY <1>0, <2>1 DEF RecFits, RunFits
  <2>3. <<r.key, "gate">> \notin alive
    BY <1>0, <1>1, <2>2 DEF RunFits
  <2> QED BY <1>0, <1>2, <2>1, <2>2, <2>3, StageFacts
<1> QED BY <1>3, <1>4

\* A key with a running stage is not being launched.
LEMMA NoLaunch ==
    ASSUME IInv, NEW r \in Rec, RecFits(r), live_task_of(r) # {},
           run[r.key].gate \in {r.run.gate, "SKIP"},
           NEW p \in Process, proc[p].at \in Launching
    PROVE  proc[p].key # r.key
<1>1. Fresh(proc[p].key)
  BY DEF IInv, DispatchInv, Dispatched
<1>2. r.key \in Key /\ RunFits(r.key)
  BY DEF Rec, IInv, RunsInv
<1>3. InGate(r) \/ r.run.main
  BY DEF live_task_of
<1> QED BY <1>1, <1>2, <1>3 DEF Fresh, InGate, RecFits, RunFits

\* Cancelling tasks tells their loops and starts none.
LEMMA CancelFacts ==
    ASSUME TaskTypes, TasksInv, NEW S \in SUBSET Stage, Cancels(S), stopped' \subseteq Stage
    PROVE  /\ TaskTypes' /\ TaskCalm /\ TasksInv' /\ alive' = alive
           /\ token' = token \cup (S \cap alive)
<1>1. /\ token' = token \cup (S \cap alive) /\ alive' = alive /\ starts' = starts
      /\ \A s \in Stage : \/ task'[s] = task[s]
                          \/ /\ task'[s] = "Cancelled" /\ task[s] \notin Ended \cup {"none"}
                             /\ s \notin alive
  BY DEF Cancels
<1>2. task' \in [Stage -> {"none", "Created", "Running", "Asking", "Waiting"} \cup Ended]
  BY DEF Cancels, TaskTypes, Ended
<1>3. TaskTypes'
  BY <1>1, <1>2 DEF TaskTypes
<1>4. TaskCalm
  BY <1>1 DEF TaskCalm, Ended
<1>5. TasksInv'
  BY <1>1 DEF TasksInv, TaskFits, TaskTypes
<1> QED BY <1>1, <1>3, <1>4, <1>5

\* The stage a dispatch launches.
LEMMA StageOfFacts ==
    ASSUME IInv, NEW p \in Process, proc[p].at \in Launching
    PROVE  /\ StageOf(p) \in Stage /\ StageOf(p)[1] = proc[p].key
           /\ StageOf(p) = <<proc[p].key, "gate">> =>
                  VersionOf[proc[p].key] \in Gated /\ run[proc[p].key].gate = "none"
           /\ StageOf(p) = <<proc[p].key, "main">> \/ StageOf(p) = <<proc[p].key, "gate">>
           /\ StageOf(p) = <<proc[p].key, "main">> /\ VersionOf[proc[p].key] \in Gated =>
                  run[proc[p].key].gate = "RUN"
<1>1. proc[p].key \in Key /\ Fresh(proc[p].key)
  BY DEF IInv, DispatchInv, Dispatched, Launching, Dispatches
<1> QED BY <1>1, StageFacts DEF StageOf, KeyOf, Fresh

\* launch creates the task of the stage: a main task only after its gate.
LEMMA CreateKeeps == ASSUME IInv, NEW p \in Process, launch_create(p) PROVE IInv'
<1> DEFINE k == proc[p].key
           s == StageOf(p)
           M == {p}
<1>0. /\ proc[p].at = "create" /\ Goes(p, "start") /\ run' = run /\ inflight' = inflight
      /\ task' = [task EXCEPT ![s] = IF @ = "none" THEN "Created" ELSE @]
      /\ UNCHANGED <<version, enabled, paused, fails, stopped, starts, alive, token, stall, lifted>>
  BY DEF launch_create, At, ledger
<1>1. /\ k \in Key /\ RunFits(k) /\ Fresh(k) /\ run[k].reason # "WATCHED"
      /\ proc[p].at \in Dispatches /\ proc[p].at \in Launching
  BY <1>0, Dispatcher DEF IInv, DispatchInv, Dispatched, Launching, Dispatches
<1>2. /\ s \in Stage /\ s[1] = k
      /\ s = <<k, "gate">> => VersionOf[k] \in Gated /\ run[k].gate = "none"
      /\ s = <<k, "main">> \/ s = <<k, "gate">>
      /\ s = <<k, "main">> /\ VersionOf[k] \in Gated => run[k].gate = "RUN"
  BY <1>1, StageOfFacts
<1> HIDE DEF s
<1>3. /\ task'[s] # "none" /\ \A x \in Stage : x # s => task'[x] = task[x]
      /\ task'[s] = task[s] \/ (task[s] = "none" /\ task'[s] = "Created")
      /\ TaskTypes'
  BY <1>0, <1>2 DEF IInv, Types, TaskTypes
<1>4. /\ Elsewhere(p) /\ Onward(p) /\ Alone(p) /\ Dispatched(p)'
      /\ inflight' \subseteq Key /\ proc[p].at \notin Turned
  BY <1>0, <1>1, <1>3, GoesOnward DEF Dispatches, s
<1>5. Types'
  BY <1>0, <1>3, <1>4 DEF IInv, Types, Plain, MemTypes, RunTypes, Elsewhere
<1>6. RunsInv'
  <2> SUFFICES ASSUME NEW j \in Key PROVE RunFits(j)'
    BY DEF RunsInv
  <2>1. RunFits(j) /\ run'[j] = run[j]
    BY <1>0 DEF IInv, RunsInv
  <2>2. CASE j # k
    <3>1. task'[<<j, "main">>] = task[<<j, "main">>] /\ task'[<<j, "gate">>] = task[<<j, "gate">>]
      BY <1>2, <1>3, <2>2, StageFacts
    <3> QED BY <2>1, <3>1 DEF RunFits
  <2>3. CASE j = k /\ s = <<k, "gate">>
    <3>1. task'[<<k, "main">>] = task[<<k, "main">>] /\ run[k].gate = "none" /\ VersionOf[k] \in Gated
      BY <1>2, <1>3, <2>3, StageFacts
    <3> QED BY <2>1, <2>3, <3>1, <1>3 DEF RunFits
  <2>4. CASE j = k /\ s = <<k, "main">>
    <3>1. task'[<<k, "gate">>] = task[<<k, "gate">>] /\ (VersionOf[k] \in Gated => run[k].gate = "RUN")
      BY <1>2, <1>3, <2>4, StageFacts
    <3> QED BY <2>1, <2>4, <3>1, <1>3 DEF RunFits
  <2> QED BY <1>2, <2>2, <2>3, <2>4
<1>7. TasksInv'
  BY <1>0, <1>2, <1>3 DEF IInv, TasksInv, TaskFits
<1>8. ToldInv'
  <2>1. proc[Tick].at \in Turned => proc'[Tick] = proc[Tick]
    BY <1>4, TickProcess DEF Elsewhere
  <2> QED BY <1>0, <2>1, ToldKept DEF IInv
<1>9. Grows /\ NoneOpens /\ TasksGrow /\ (\A j \in Key : run[j].status # "none" => run'[j].gate = run[j].gate)
  BY <1>0, <1>3 DEF Grows, NoneOpens, TasksGrow
<1>10. Held1(p)' /\ (p \in Handler => HandlerFits(p)') /\ (p = Tick => TickFits')
  BY <1>4, <1>9, MoverFits
<1>11. Stays(M)
  <2> SUFFICES ASSUME NEW q \in Process \ M PROVE StaysFor(q, M)
    BY <1>9 DEF Stays
  <2>1. q # p /\ proc'[q] = proc[q]
    BY <1>4 DEF Elsewhere
  <2>2. Dispatched(q) /\ (q \in Handler => HandlerFits(q))
    BY DEF IInv, DispatchInv, HandlersInv
  <2> QED BY <1>0, <1>4, <1>9, <2>1, <2>2 DEF StaysFor, Alone, Dispatched, HandlerFits, Same
<1>12. Tick \notin M => TickStays
  <2>1. alive' = alive /\ (p # Tick => proc'[Tick] = proc[Tick])
    BY <1>0, <1>4, TickProcess DEF Elsewhere
  <2> QED BY <1>9, <2>1 DEF TickStays, NoneAlive, IInv, TickFits
<1>13. /\ \A x \in M : Held1(x)' /\ Dispatched(x)' /\ (x \in Handler => HandlerFits(x)')
       /\ Tick \in M => TickFits'
       /\ M \in SUBSET Process
  BY <1>4, <1>10
<1> HIDE DEF M, k
<1> QED BY <1>5, <1>6, <1>7, <1>8, <1>11, <1>12, <1>13, StepKeeps

\* launch starts the task: from Created, so for the first time.
LEMMA StartKeeps == ASSUME IInv, NEW p \in Process, launch_start(p) PROVE IInv'
<1> DEFINE k == proc[p].key
           s == StageOf(p)
<1>0. /\ proc[p].at = "start" /\ Goes(p, "check") /\ run' = run /\ inflight' = inflight
      /\ \/ /\ task[s] = "Created" /\ task' = [task EXCEPT ![s] = "Running"]
            /\ alive' = alive \cup {s} /\ starts' = [starts EXCEPT ![s] = @ + 1]
         \/ UNCHANGED <<task, alive, starts>>
      /\ UNCHANGED <<version, enabled, paused, fails, stopped, token, stall, lifted>>
  BY DEF launch_start, At, ledger, startable
<1>1. /\ k \in Key /\ Fresh(k) /\ run[k].reason # "WATCHED" /\ task[s] # "none"
      /\ proc[p].at \in Dispatches /\ proc[p].at \in Launching
  BY <1>0, Dispatcher DEF IInv, DispatchInv, Dispatched, Launching, Dispatches
<1>2. s \in Stage /\ s[1] = k
  BY <1>1, StageOfFacts
<1> HIDE DEF s
<1>3. /\ TaskTypes' /\ TaskCalm /\ TasksInv' /\ alive \subseteq alive' /\ alive' \subseteq alive \cup {s}
  <2>1. CASE UNCHANGED <<task, alive, starts>>
    BY <1>0, <2>1 DEF IInv, Types, TaskTypes, TaskCalm, TasksInv, TaskFits
  <2>2. CASE /\ task[s] = "Created" /\ task' = [task EXCEPT ![s] = "Running"]
             /\ alive' = alive \cup {s} /\ starts' = [starts EXCEPT ![s] = @ + 1]
    <3>1. starts[s] = 0 /\ starts[s] \in Nat
      BY <1>2, <2>2 DEF IInv, TasksInv, TaskFits, Types, TaskTypes
    <3>2. TaskTypes'
      BY <1>0, <1>2, <2>2, <3>1 DEF IInv, Types, TaskTypes
    <3>3. /\ task'[s] = "Running" /\ starts'[s] = 1
          /\ \A x \in Stage : x # s => task'[x] = task[x] /\ starts'[x] = starts[x]
      BY <1>2, <2>2, <3>1 DEF IInv, Types, TaskTypes
    <3>4. TasksInv'
      BY <2>2, <3>3 DEF IInv, TasksInv, TaskFits
    <3>5. TaskCalm
      BY <2>2, <3>3 DEF TaskCalm
    <3> QED BY <2>2, <3>2, <3>4, <3>5
  <2> QED BY <1>0, <2>1, <2>2
<1>4. task'[s] # "none"
  BY <1>1, <1>2, <1>3 DEF TaskCalm
<1>5. /\ Elsewhere(p) /\ Onward(p) /\ Alone(p) /\ Dispatched(p)'
      /\ inflight' \subseteq Key /\ proc[p].at \notin Turned
  BY <1>0, <1>1, <1>4, GoesOnward DEF Dispatches, s
<1>6. Types' /\ RunCalm
  BY <1>0, <1>3, <1>5 DEF IInv, Types, Plain, MemTypes, RunTypes, Elsewhere, RunCalm, Same
<1>7. Grows /\ \A j \in Key : run[j].status # "none" => run'[j].gate = run[j].gate
  BY <1>0 DEF Grows
<1>8. Held1(p)' /\ (p \in Handler => HandlerFits(p)') /\ (p = Tick => TickFits')
  BY <1>5, <1>7, MoverFits
<1>9. ToldInv'
  <2>1. proc[Tick].at \in Turned => proc'[Tick] = proc[Tick]
    BY <1>5, TickProcess DEF Elsewhere
  <2>2. \A x \in alive' : x \in alive \/ run'[x[1]].reason # "WATCHED"
    BY <1>0, <1>1, <1>2, <1>3
  <2> QED BY <1>0, <2>1, <2>2, ToldKept DEF IInv
<1>10. \A q \in Process : q # p /\ proc[q].at \in {"create", "start"} =>
           run'[proc[q].key].reason # "WATCHED"
  BY <1>0 DEF IInv, DispatchInv, Dispatched
<1>11. ASSUME p # Tick, proc[Tick].at = "refused", proc[Tick].out[2] = "WATCHED"
       PROVE  NoneAlive(proc[Tick].key)'
  <2>1. proc'[Tick] = proc[Tick]
    BY <1>5, <1>11, TickProcess DEF Elsewhere
  <2>2. /\ NoneAlive(proc[Tick].key) /\ proc[Tick].cur \in Rec /\ RecFits(proc[Tick].cur)
        /\ proc[Tick].cur.key = proc[Tick].key /\ live_task_of(proc[Tick].cur) # {}
        /\ run[proc[Tick].key].gate \in {proc[Tick].cur.run.gate, "SKIP"}
    BY <1>11, TickProcess DEF IInv, TickFits, HeldInv, Held1
  <2>3. proc[Tick].key # k
    BY <1>1, <2>2, NoLaunch
  <2> QED BY <1>2, <1>3, <2>1, <2>2, <2>3 DEF NoneAlive
<1> QED BY <1>0, <1>3, <1>5, <1>6, <1>8, <1>9, <1>10, <1>11, CalmStep

\* A task launched for a run that was killed meanwhile is stopped.
LEMMA StopKeeps == ASSUME IInv, NEW p \in Process, stop_launched(p) PROVE IInv'
<1>0. /\ proc[p].at = "stop" /\ Back(p) /\ Releases(p) /\ run' = run
      /\ Cancels({StageOf(p)}) /\ stopped' = stopped \cup {StageOf(p)}
      /\ UNCHANGED <<version, enabled, paused, fails, stall, lifted>>
  BY DEF stop_launched, stop_stage, At, ledger
<1>1. proc[p].at \in Dispatches /\ proc[p].at \in Launching
  BY <1>0 DEF Launching, Dispatches
<1>2. StageOf(p) \in Stage
  BY <1>1, StageOfFacts
<1>3. /\ TaskTypes' /\ TaskCalm /\ TasksInv' /\ alive' = alive /\ token \subseteq token'
  BY <1>0, <1>2, CancelFacts DEF IInv, Types, TaskTypes
<1>4. /\ Elsewhere(p) /\ Onward(p) /\ proc'[p].at \in TickJobs \cup {"idle"} /\ Dispatched(p)'
  BY <1>0, <1>1, BackOnward
<1>5. proc'[p].at \notin Dispatches
  BY <1>4 DEF TickJobs, Dispatches
<1>6. Alone(p) /\ inflight' \subseteq Key /\ proc[p].at \notin Turned
  BY <1>0, <1>1, <1>4, <1>5, AloneFacts, Dispatcher DEF Releases
<1>7. Types' /\ RunCalm
  BY <1>0, <1>3, <1>4, <1>6 DEF IInv, Types, Plain, MemTypes, RunTypes, Elsewhere, RunCalm, Same
<1>8. Grows /\ \A j \in Key : run[j].status # "none" => run'[j].gate = run[j].gate
  BY <1>0 DEF Grows
<1>9. Held1(p)' /\ (p \in Handler => HandlerFits(p)') /\ (p = Tick => TickFits')
  BY <1>4, <1>8, MoverFits
<1>10. ToldInv'
  <2>1. proc[Tick].at \in Turned => proc'[Tick] = proc[Tick]
    BY <1>4, <1>6, TickProcess DEF Elsewhere
  <2> QED BY <1>0, <1>3, <2>1, ToldKept DEF IInv
<1>11. \A q \in Process : q # p /\ proc[q].at \in {"create", "start"} =>
           run'[proc[q].key].reason # "WATCHED"
  BY <1>0 DEF IInv, DispatchInv, Dispatched
<1>12. p # Tick /\ proc[Tick].at = "refused" /\ proc[Tick].out[2] = "WATCHED" =>
           NoneAlive(proc[Tick].key)'
  <2>1. p # Tick => proc'[Tick] = proc[Tick]
    BY <1>4, TickProcess DEF Elsewhere
  <2> QED BY <1>3, <2>1 DEF IInv, TickFits, NoneAlive
<1> QED BY <1>0, <1>3, <1>4, <1>6, <1>7, <1>9, <1>10, <1>11, <1>12, CalmStep

\* AutomationDispatched or AutomationGateStarted, on the run of p's key.
LEMMA RecordedFacts ==
    ASSUME IInv, NEW p \in Process, record(p)
    PROVE  /\ RunTypes' /\ \A j \in Key : j # proc[p].key => run'[j] = run[j]
           /\ Grows /\ NoneOpens
           /\ \A j \in Key : run'[j].gate = run[j].gate /\ run'[j].reason = run[j].reason
           /\ RunsInv'
<1> DEFINE k == proc[p].key
           x == Recorded(run[k], StageOf(p)[2])
<1>0. /\ proc[p].at = "record" /\ run' = [run EXCEPT ![k] = x] /\ task' = task
  BY DEF record, At, KeyOf, tasks
<1>1. /\ k \in Key /\ RunFits(k) /\ run[k] \in Run /\ run[k].status # "none"
      /\ task[StageOf(p)] # "none" /\ proc[p].at \in Launching /\ run \in [Key -> Run]
  BY <1>0, Dispatcher DEF IInv, DispatchInv, Dispatched, Launching, Dispatches, Types, RunTypes
<1>2. /\ StageOf(p) = <<k, "gate">> => VersionOf[k] \in Gated /\ run[k].gate = "none"
      /\ StageOf(p) = <<k, "main">> \/ StageOf(p) = <<k, "gate">>
      /\ StageOf(p) = <<k, "main">> /\ VersionOf[k] \in Gated => run[k].gate = "RUN"
  BY <1>1, StageOfFacts
<1>3. /\ x \in Run /\ x.gate = run[k].gate /\ x.reason = run[k].reason
      /\ run[k].main => x.main
      /\ run[k].gateTask => x.gateTask
      /\ run[k].status \in Over => x = run[k]
      /\ run[k].status \notin Over => x.status \in {run[k].status, "Running"}
      /\ x.main => run[k].main \/ (StageOf(p) = <<k, "main">> /\ x.status = "Running")
      /\ x.gateTask => run[k].gateTask \/ StageOf(p) = <<k, "gate">>
      /\ x.status # "none"
  <2>1. CASE run[k].status \in Over
    BY <1>1, <2>1 DEF Recorded
  <2>2. CASE run[k].status \notin Over /\ StageOf(p) = <<k, "gate">>
    <3>1. x = [run[k] EXCEPT !.status = "Running", !.gateTask = TRUE]
      BY <2>2 DEF Recorded
    <3> HIDE DEF x
    <3> QED BY <1>1, <2>2, <3>1 DEF Run, Status
  <2>3. CASE run[k].status \notin Over /\ StageOf(p) = <<k, "main">> /\ run[k].main
    BY <1>1, <2>3 DEF Recorded
  <2>4. CASE run[k].status \notin Over /\ StageOf(p) = <<k, "main">> /\ ~run[k].main
    <3>1. x = [run[k] EXCEPT !.status = "Running", !.main = TRUE]
      BY <2>4 DEF Recorded
    <3> HIDE DEF x
    <3> QED BY <1>1, <2>4, <3>1 DEF Run, Status
  <2> QED BY <1>2, <2>1, <2>2, <2>3, <2>4
<1> HIDE DEF x
<1>4. /\ run'[k] = x /\ \A j \in Key : j # k => run'[j] = run[j]
      /\ RunTypes'
  BY <1>0, <1>1, <1>3 DEF RunTypes
<1>5. Grows /\ NoneOpens /\ \A j \in Key : run'[j].gate = run[j].gate /\ run'[j].reason = run[j].reason
  BY <1>1, <1>3, <1>4 DEF Grows, NoneOpens
<1>6. ASSUME NEW j, j = k PROVE RunFits(j)'
  <2>1. x.main => x.status \in Over \cup {"Running"} /\ task[<<k, "main">>] # "none"
    BY <1>1, <1>3 DEF RunFits
  <2>2. x.gateTask => VersionOf[k] \in Gated /\ task[<<k, "gate">>] # "none"
    BY <1>1, <1>2, <1>3 DEF RunFits
  <2>3. x.reason = "WATCHED" => x.status \in Over
    BY <1>1, <1>3 DEF RunFits
  <2> QED BY <1>0, <1>1, <1>3, <1>4, <1>6, <2>1, <2>2, <2>3 DEF RunFits
<1>7. ASSUME NEW j \in Key, j # k PROVE RunFits(j)'
  BY <1>0, <1>4, <1>7 DEF RunFits, IInv, RunsInv
<1> QED BY <1>4, <1>5, <1>6, <1>7 DEF RunsInv

\* The stage is recorded in its run, and the key is released.
LEMMA RecordKeeps == ASSUME IInv, NEW p \in Process, record(p) PROVE IInv'
<1> DEFINE k == proc[p].key
           M == {p}
<1>0. /\ proc[p].at = "record" /\ Back(p) /\ Releases(p) /\ UNCHANGED tasks
      /\ UNCHANGED <<version, enabled, paused, fails, stall, lifted>>
  BY DEF record, At
<1>1. /\ RunTypes' /\ \A j \in Key : j # k => run'[j] = run[j]
      /\ Grows /\ NoneOpens /\ RunsInv'
      /\ \A j \in Key : run'[j].gate = run[j].gate /\ run'[j].reason = run[j].reason
  BY RecordedFacts
<1>2. proc[p].at \in Dispatches /\ proc[p].at \in Launching
  BY <1>0 DEF Launching, Dispatches
<1>3. /\ Elsewhere(p) /\ Onward(p) /\ proc'[p].at \in TickJobs \cup {"idle"} /\ Dispatched(p)'
  BY <1>0, <1>2, BackOnward
<1>4. proc'[p].at \notin Dispatches
  BY <1>3 DEF TickJobs, Dispatches
<1>5. Alone(p) /\ inflight' \subseteq Key /\ proc[p].at \notin Turned
  BY <1>0, <1>2, <1>3, <1>4, AloneFacts, Dispatcher DEF Releases
<1>6. Types' /\ TasksInv' /\ TasksGrow /\ alive' = alive /\ token' = token
  BY <1>0, <1>1, <1>3, <1>5 DEF IInv, Types, Plain, TaskTypes, MemTypes, Elsewhere, tasks, TasksInv, TaskFits,
       TasksGrow
<1>7. Held1(p)' /\ (p \in Handler => HandlerFits(p)') /\ (p = Tick => TickFits')
  BY <1>1, <1>3, MoverFits
<1>8. ToldInv'
  <2>1. proc[Tick].at \in Turned => proc'[Tick] = proc[Tick]
    BY <1>3, <1>5, TickProcess DEF Elsewhere
  <2> QED BY <1>1, <1>6, <2>1, ToldKept DEF IInv
<1>9. Stays(M)
  <2> SUFFICES ASSUME NEW q \in Process \ M PROVE StaysFor(q, M)
    BY <1>1, <1>6 DEF Stays
  <2>1. q # p /\ proc'[q] = proc[q]
    BY <1>3 DEF Elsewhere
  <2>2. Dispatched(q) /\ Dispatched(p) /\ (q \in Handler => HandlerFits(q))
    BY DEF IInv, DispatchInv, HandlersInv
  <2>3. proc[q].at \in Dispatches => proc[q].key # k /\ proc[q].key \in Key
    BY <1>2, <2>1, <2>2 DEF Dispatched
  <2>4. proc[q].at \in Launching => proc[q].at \in Dispatches
    BY DEF Launching, Dispatches
  <2>5. proc[q].at \in {"create", "start"} => proc[q].at \in Launching
    BY DEF Launching
  <2>6. proc[q].at \in Launching => Same(proc[q].key)
    BY <1>1, <2>3, <2>4 DEF Same
  <2>7. proc[q].at \in {"create", "start"} => run'[proc[q].key].reason # "WATCHED"
    BY <1>1, <2>2, <2>3, <2>4, <2>5 DEF Dispatched
  <2>8. q \in Handler /\ q \notin lifted' /\ proc[q].at \in {"kill", "killed"} => paused'
    BY <1>0, <2>2 DEF HandlerFits
  <2> QED BY <1>0, <1>1, <1>4, <1>5, <2>1, <2>6, <2>7, <2>8 DEF StaysFor, Alone
<1>10. Tick \notin M => TickStays
  <2>1. p # Tick => proc'[Tick] = proc[Tick]
    BY <1>3, TickProcess DEF Elsewhere
  <2> QED BY <1>1, <1>6, <2>1 DEF TickStays, NoneAlive, IInv, TickFits
<1>11. /\ \A x \in M : Held1(x)' /\ Dispatched(x)' /\ (x \in Handler => HandlerFits(x)')
       /\ Tick \in M => TickFits'
       /\ M \in SUBSET Process
  BY <1>3, <1>7
<1> HIDE DEF M, k
<1> QED BY <1>1, <1>6, <1>8, <1>9, <1>10, <1>11, StepKeeps

\* A step that ends the run of k, and touches no task.  If the tick ends it,
\* nobody is launching it, and its loops were told or are about to be.
LEMMA FinishedStep ==
    ASSUME IInv, NEW p \in Process, Elsewhere(p), Alone(p), NEW k \in Key, NEW reason,
           Finished(k, reason), run[k].status # "none", UNCHANGED <<tasks, lifted>>, MemTypes',
           reason = "WATCHED" =>
               \A q \in Process : q # p /\ proc[q].at \in {"create", "start"} => proc[q].key # k,
           p = Tick => proc[p].at \notin Turned,
           reason = "WATCHED" /\ run[k].status \notin Over => Told(k)',
           Held1(p)', Dispatched(p)', p \in Handler => HandlerFits(p)', p = Tick => TickFits'
    PROVE  IInv'
<1>0. /\ RunTypes' /\ Plain' /\ paused' = paused /\ run'[k].status \in Over
      /\ \A j \in Key : Same(j) /\ (j # k => run'[j] = run[j])
      /\ run'[k] = run[k] \/ (run[k].status \notin Over /\ run'[k].reason = reason)
  BY DEF Finished
<1>1. Types' /\ RunCalm /\ TaskCalm /\ TasksInv' /\ alive' = alive /\ token' = token
  BY <1>0 DEF IInv, Types, Elsewhere, RunCalm, TaskCalm, TaskTypes, TasksInv, TaskFits, tasks
<1>2. \A q \in Process : q # p /\ proc[q].at \in {"create", "start"} =>
          run'[proc[q].key].reason # "WATCHED"
  BY <1>0 DEF IInv, DispatchInv, Dispatched, Dispatches
<1>3. p # Tick => proc'[Tick] = proc[Tick]
  BY TickProcess DEF Elsewhere
<1>4. ToldInv'
  <2> SUFFICES ASSUME NEW j \in Key PROVE Told(j)'
    BY DEF ToldInv
  <2>1. CASE j = k /\ reason = "WATCHED" /\ run[k].status \notin Over
    BY <2>1
  <2>2. CASE ~(j = k /\ reason = "WATCHED" /\ run[k].status \notin Over)
    <3>1. run'[j].reason = "WATCHED" => run[j].reason = "WATCHED"
      BY <1>0, <2>2
    <3>2. Told(j)
      BY DEF IInv, ToldInv
    <3> QED BY <1>1, <1>3, <3>1, <3>2 DEF Told
  <2> QED BY <2>1, <2>2
<1>5. p # Tick /\ proc[Tick].at = "refused" /\ proc[Tick].out[2] = "WATCHED" =>
          NoneAlive(proc[Tick].key)'
  BY <1>1, <1>3 DEF IInv, TickFits, NoneAlive
<1>6. UNCHANGED <<paused, lifted>>
  BY <1>0
<1> QED BY <1>1, <1>2, <1>4, <1>5, <1>6, CalmStep

\* The outcome of a refusal, or of the tick, is written to the run.
LEMMA RefusedRunKeeps == ASSUME IInv, NEW p \in Process, refused(p) PROVE IInv'
<1> DEFINE k == proc[p].key
           reason == proc[p].out[2]
<1>0. /\ proc[p].at = "refused" /\ finish(k, proc[p].out[1], reason) /\ Back(p)
      /\ UNCHANGED <<tasks, inflight, stall, lifted>>
  BY DEF refused, At, KeyOf
<1>1. /\ k \in Key /\ run[k].status # "none" /\ proc[p].out[1] \in Over
      /\ proc[p].at \notin Turned /\ (p # Tick => reason # "WATCHED")
  BY <1>0, Dispatcher DEF Dispatched
<1>2. reason \in {"", "DISPATCH", "WATCHED"}
  BY Fields DEF IInv, Types, ProcTypes
<1>3. Finished(k, reason)
  BY <1>0, <1>1, <1>2, FinishFacts DEF IInv, Types
<1>4. /\ Elsewhere(p) /\ Onward(p) /\ proc'[p].at \in TickJobs \cup {"idle"} /\ Dispatched(p)'
  BY <1>0, BackOnward
<1>5. proc'[p].at \notin Dispatches /\ MemTypes'
  BY <1>0, <1>4 DEF TickJobs, Dispatches, IInv, Types, MemTypes
<1>6. Alone(p)
  BY <1>0, <1>4, <1>5, AloneFacts
<1>7. Grows /\ \A j \in Key : run[j].status # "none" => run'[j].gate = run[j].gate
  BY <1>1, <1>3 DEF Grows, Finished, Same, Over
<1>8. Held1(p)' /\ (p \in Handler => HandlerFits(p)') /\ (p = Tick => TickFits')
  BY <1>4, <1>7, MoverFits
<1>9. ASSUME reason = "WATCHED"
      PROVE  /\ NoneAlive(k)
             /\ \A q \in Process : q # p /\ proc[q].at \in {"create", "start"} => proc[q].key # k
  <2>1. p = Tick
    BY <1>1, <1>9
  <2>2. /\ NoneAlive(k) /\ proc[Tick].cur \in Rec /\ RecFits(proc[Tick].cur)
        /\ proc[Tick].cur.key = k /\ live_task_of(proc[Tick].cur) # {}
        /\ run[k].gate \in {proc[Tick].cur.run.gate, "SKIP"}
    BY <1>0, <1>9, <2>1, TickProcess DEF IInv, TickFits, HeldInv, Held1
  <2> QED BY <2>2, NoLaunch DEF Launching
<1>10. ASSUME reason = "WATCHED", NEW j, j = k PROVE Told(j)'
  <2>1. alive' = alive
    BY <1>0 DEF tasks
  <2> QED BY <1>9, <1>10, <2>1 DEF Told, NoneAlive
<1> HIDE DEF k, reason
<1> QED BY <1>0, <1>1, <1>3, <1>4, <1>5, <1>6, <1>8, <1>9, <1>10, FinishedStep

-----------------------------------------------------------------------------
(* Command handlers: what a firing replaces, and the kill switch           *)

\* What the invariant says of one handler.
LEMMA Handles ==
    ASSUME IInv, NEW p \in Handler
    PROVE  /\ p \in Process /\ p # Tick /\ proc[p] \in Proc /\ Held1(p) /\ Dispatched(p) /\ HandlerFits(p)
           /\ proc[p].todo \in SUBSET Rec /\ proc[p].cur \in Rec \cup {NoRec}
  BY TickProcess, Fields DEF IInv, Types, ProcTypes, HeldInv, DispatchInv, HandlersInv

\* A handler that replaces runs, and goes on.
LEMMA ReplacerFits ==
    ASSUME IInv, NEW p \in Handler, Grows, proc[p].at \in {"replace", "replaced"},
           proc'[p].at \in {"replace", "replaced", "dispatch"},
           proc'[p].key = proc[p].key, proc'[p].out = proc[p].out,
           proc'[p].todo \subseteq proc[p].todo,
           proc'[p].cur \in proc[p].todo \cup {proc[p].cur, NoRec},
           proc'[p].at = "replaced" => proc'[p].cur \in Rec
    PROVE  Held1(p)' /\ Dispatched(p)' /\ HandlerFits(p)'
<1>1. /\ Held1(p) /\ Dispatched(p) /\ HandlerFits(p) /\ proc[p].todo \in SUBSET Rec
  BY Handles
<1>2. \A r \in proc[p].todo : RecFits(r)'
  BY <1>1, RecKept DEF Held1
<1>3. proc[p].cur \in Rec => RecFits(proc[p].cur) /\ \A r \in Rec : r = proc[p].cur => RecFits(r)'
  BY <1>1, RecKept DEF Held1
<1>4. ASSUME NEW r, r = proc'[p].cur, r \in Rec PROVE RecFits(r)'
  BY <1>2, <1>3, <1>4, NoRecFacts
<1>5. Held1(p)'
  <2>1. \A r \in proc'[p].todo : RecFits(r)'
    BY <1>2
  <2> QED BY <2>1, <1>4 DEF Held1, Turned, RecFits
<1>6. Dispatched(p)'
  BY <1>1 DEF Dispatched, Grows, Dispatches, Launching
<1>7. HandlerFits(p)'
  BY <1>1 DEF HandlerFits
<1> QED BY <1>5, <1>6, <1>7

\* A firing that replaces ends the older runs one after the other.
LEMMA ReplaceKeeps == ASSUME IInv, NEW p \in Handler, replace(p) PROVE IInv'
<1>0. /\ proc[p].at = "replace" /\ UNCHANGED <<tasks, inflight, stall, lifted>>
      /\ p \in Process /\ p # Tick /\ proc[p] \in Proc /\ proc[p].todo \in SUBSET Rec /\ Held1(p)
      /\ ProcTypes /\ proc[p].key \in Key /\ run[proc[p].key].status # "none"
      /\ HandlerFits(p) /\ MemTypes'
  BY Handles DEF replace, At, IInv, Types, Dispatched, MemTypes
<1>1. CASE proc[p].todo = {} /\ Goes(p, "dispatch") /\ UNCHANGED ledger
  <2>1. /\ Elsewhere(p) /\ proc'[p].at = "dispatch" /\ proc'[p].job = proc[p].job
        /\ proc'[p].key = proc[p].key /\ proc'[p].todo = proc[p].todo
        /\ proc'[p].cur = proc[p].cur /\ proc'[p].out = proc[p].out
    BY <1>0, <1>1, GoesFacts DEF Places
  <2>2. Untouched /\ Grows
    BY <1>0, <1>1 DEF Untouched, ledger, IInv, Types, Plain, Grows
  <2>3. Alone(p)
    BY <1>0, <2>1, AloneFacts DEF Dispatches
  <2>4. Held1(p)' /\ Dispatched(p)' /\ HandlerFits(p)'
    BY <1>0, <2>1, <2>2, ReplacerFits
  <2>5. inflight' \subseteq Key
    BY <1>0 DEF MemTypes
  <2> QED BY <1>0, <2>1, <2>2, <2>3, <2>4, <2>5, QuietStep
<1>2. ASSUME NEW r \in proc[p].todo, finish(r.key, "Cancelled", "REPLACED"),
             proc' = [proc EXCEPT ![p].at = "replaced", ![p].cur = r, ![p].todo = @ \ {r}]
      PROVE  IInv'
  <2>1. r \in Rec /\ r.key \in Key /\ RecFits(r) /\ run[r.key].status # "none"
    BY <1>0 DEF Rec, Held1, RecFits
  <2> DEFINE x == [proc[p] EXCEPT !.at = "replaced", !.cur = r, !.todo = @ \ {r}]
  <2>2. /\ x \in Proc /\ x.at = "replaced" /\ x.cur = r /\ x.todo = proc[p].todo \ {r}
        /\ x.key = proc[p].key /\ x.out = proc[p].out
    BY <1>0, <2>1 DEF Proc, Places
  <2>3. proc' = [proc EXCEPT ![p] = x]
    BY <1>0, <1>2 DEF ProcTypes
  <2> HIDE DEF x
  <2>4. Elsewhere(p) /\ proc'[p] = x
    BY <1>0, <2>2, <2>3, SetFacts
  <2>5. Finished(r.key, "REPLACED")
    BY <1>2, <2>1, FinishFacts DEF IInv, Types, Over
  <2>6. Grows
    BY <2>1, <2>5 DEF Grows, Finished, Same, Over
  <2>7. Held1(p)' /\ Dispatched(p)' /\ HandlerFits(p)'
    BY <1>0, <2>1, <2>2, <2>4, <2>6, ReplacerFits
  <2>8. Alone(p)
    BY <1>0, <2>2, <2>4, AloneFacts DEF Dispatches
  <2> QED BY <1>0, <2>1, <2>4, <2>5, <2>7, <2>8, FinishedStep
<1> QED BY <1>1, <1>2 DEF replace

\* A step that cancels the tasks of S, of a process whose key is not launched.
LEMMA CancelStep ==
    ASSUME IInv, NEW p \in Process, NEW S \in SUBSET Stage, Cancels(S), stopped' \subseteq Stage,
           UNCHANGED <<ledger, inflight, lifted>>, MemTypes', Elsewhere(p),
           proc[p].at \notin Dispatches, proc'[p].at \notin Dispatches,
           p = Tick /\ proc[p].at \in Turned => \A s \in alive : s[1] = proc[p].cur.key => s \in S,
           Held1(p)', Dispatched(p)', p \in Handler => HandlerFits(p)', p = Tick => TickFits'
    PROVE  IInv'
<1>1. /\ TaskTypes' /\ TaskCalm /\ TasksInv' /\ alive' = alive
      /\ token' = token \cup (S \cap alive)
  BY CancelFacts DEF IInv, Types
<1>2. Types' /\ RunCalm /\ run' = run /\ UNCHANGED <<paused, lifted>>
  BY <1>1 DEF IInv, Types, Plain, RunTypes, Elsewhere, RunCalm, Same, ledger
<1>3. Alone(p)
  BY AloneFacts
<1>4. p # Tick => proc'[Tick] = proc[Tick]
  BY TickProcess DEF Elsewhere
<1>5. ToldInv'
  <2> SUFFICES ASSUME NEW k \in Key PROVE Told(k)'
    BY DEF ToldInv
  <2>1. Told(k)
    BY DEF IInv, ToldInv
  <2> QED BY <1>1, <1>2, <1>4, <2>1 DEF Told
<1>6. /\ \A q \in Process : q # p /\ proc[q].at \in {"create", "start"} =>
             run'[proc[q].key].reason # "WATCHED"
      /\ p # Tick /\ proc[Tick].at = "refused" /\ proc[Tick].out[2] = "WATCHED" =>
             NoneAlive(proc[Tick].key)'
  BY <1>1, <1>2, <1>4 DEF IInv, DispatchInv, Dispatched, TickFits, NoneAlive
<1> QED BY <1>1, <1>2, <1>3, <1>5, <1>6, CalmStep

\* The task of a replaced run is cancelled.
LEMMA ReplacedKeeps == ASSUME IInv, NEW p \in Handler, replaced(p) PROVE IInv'
<1> DEFINE r == proc[p].cur
           S == IF r.run.main THEN {<<r.key, "main">>}
                ELSE IF r.run.gateTask THEN {<<r.key, "gate">>} ELSE {}
<1>0. /\ proc[p].at = "replaced" /\ UNCHANGED <<ledger, inflight, stall, lifted>> /\ Cancels(S)
      /\ stopped' = stopped
      /\ proc' = [proc EXCEPT ![p].at = "replace", ![p].cur = NoRec]
  BY DEF replaced, At, cancel_task, NoRec
<1>1. /\ p \in Process /\ p # Tick /\ proc[p] \in Proc /\ proc[p].todo \in SUBSET Rec /\ Held1(p)
      /\ ProcTypes /\ HandlerFits(p) /\ MemTypes' /\ r \in Rec
  BY <1>0, Handles DEF IInv, Types, Held1, MemTypes
<1>2. S \in SUBSET Stage
  BY <1>1, StageFacts DEF Rec
<1> HIDE DEF S
<1> DEFINE x == [proc[p] EXCEPT !.at = "replace", !.cur = NoRec]
<1>3. /\ x \in Proc /\ x.at = "replace" /\ x.cur = NoRec /\ x.todo = proc[p].todo
      /\ x.key = proc[p].key /\ x.out = proc[p].out
  BY <1>1 DEF Proc, Places
<1>4. proc' = [proc EXCEPT ![p] = x]
  BY <1>0, <1>1 DEF ProcTypes
<1> HIDE DEF x
<1>5. Elsewhere(p) /\ proc'[p] = x
  BY <1>1, <1>3, <1>4, SetFacts
<1>6. Grows
  BY <1>0 DEF Grows, ledger
<1>7. Held1(p)' /\ Dispatched(p)' /\ HandlerFits(p)'
  BY <1>0, <1>1, <1>3, <1>5, <1>6, ReplacerFits
<1>8. proc[p].at \notin Dispatches /\ proc'[p].at \notin Dispatches /\ stopped' \subseteq Stage
  BY <1>0, <1>3, <1>5 DEF Dispatches, IInv, Types, TaskTypes
<1> QED BY <1>0, <1>1, <1>2, <1>5, <1>7, <1>8, CancelStep

\* A handler at work on a kill.
LEMMA KillerFits ==
    ASSUME IInv, NEW p \in Handler, Grows, proc[p].at \in {"kill", "killed"},
           proc'[p].at \in {"kill", "killed"}, proc'[p].job = proc[p].job, proc'[p].out = proc[p].out,
           proc'[p].todo \subseteq proc[p].todo,
           proc'[p].cur \in proc[p].todo \cup {proc[p].cur, NoRec},
           proc'[p].at = "killed" => proc'[p].cur \in Rec,
           paused' = paused, lifted' = lifted, NoneOpens,
           \A r \in proc[p].todo : r \in proc'[p].todo \/ run'[r.key].status \in Over
    PROVE  Held1(p)' /\ Dispatched(p)' /\ HandlerFits(p)'
<1>1. /\ Held1(p) /\ HandlerFits(p) /\ proc[p].todo \in SUBSET Rec
  BY Handles
<1>2. \A r \in proc[p].todo : RecFits(r)'
  BY <1>1, RecKept DEF Held1
<1>3. proc[p].cur \in Rec => RecFits(proc[p].cur) /\ \A r \in Rec : r = proc[p].cur => RecFits(r)'
  BY <1>1, RecKept DEF Held1
<1>4. ASSUME NEW r, r = proc'[p].cur, r \in Rec PROVE RecFits(r)'
  BY <1>2, <1>3, <1>4, NoRecFacts
<1>5. Held1(p)'
  <2>1. \A r \in proc'[p].todo : RecFits(r)'
    BY <1>2
  <2> QED BY <2>1, <1>4 DEF Held1, Turned, RecFits
<1>6. Dispatched(p)'
  BY DEF Dispatched, Dispatches, Launching
<1>7. ASSUME p \notin lifted'
      PROVE  /\ paused'
             /\ \A k \in Fired' : run'[k].status \in Over \/ \E r \in proc'[p].todo : r.key = k
  <2>1. /\ paused
        /\ \A k \in Fired : run[k].status \in Over \/ \E r \in proc[p].todo : r.key = k
    BY <1>1, <1>7 DEF HandlerFits
  <2>2. \A k \in Fired' : run'[k].status \in Over \/ (k \in Fired /\ run[k].status \notin Over)
    BY DEF Fired, NoneOpens
  <2> QED BY <2>1, <2>2
<1>8. HandlerFits(p)'
  BY <1>1, <1>7 DEF HandlerFits
<1> QED BY <1>5, <1>6, <1>8

\* The kill switch ends one run of its list.
LEMMA KillKeeps == ASSUME IInv, NEW p \in Handler, kill(p) PROVE IInv'
<1>0. /\ proc[p].at = "kill" /\ UNCHANGED <<tasks, inflight, stall>>
      /\ p \in Process /\ p # Tick /\ proc[p] \in Proc /\ proc[p].todo \in SUBSET Rec /\ Held1(p)
      /\ ProcTypes /\ HandlerFits(p) /\ MemTypes'
  BY Handles DEF kill, At, IInv, Types, MemTypes
<1>1. CASE proc' = [proc EXCEPT ![p] = Idle] /\ lifted' = lifted \ {p} /\ UNCHANGED ledger
  <2>1. Elsewhere(p) /\ proc'[p] = Idle
    BY <1>0, <1>1, NoRecFacts, SetFacts
  <2>2. Types' /\ RunCalm /\ TaskCalm /\ TasksInv' /\ alive' = alive /\ run' = run /\ token' = token
    BY <1>0, <1>1, <2>1 DEF IInv, Types, Plain, TaskTypes, RunTypes, Elsewhere, RunCalm, TaskCalm, Same,
         TasksInv, TaskFits, ledger, tasks
  <2>3. Held1(p)' /\ Dispatched(p)' /\ HandlerFits(p)'
    BY <2>1, IdleOut, NoRecFacts DEF Held1, Dispatched, HandlerFits, Dispatches, Launching, Turned
  <2>4. Alone(p)
    BY <1>0, <2>1, AloneFacts, NoRecFacts DEF Dispatches
  <2>5. Switches(p) /\ proc'[Tick] = proc[Tick]
    BY <1>0, <1>1, <2>1, TickProcess DEF Switches, ledger, Elsewhere
  <2>6. ToldInv'
    BY <2>2, <2>5, ToldKept DEF IInv
  <2>7. /\ \A q \in Process : q # p /\ proc[q].at \in {"create", "start"} =>
               run'[proc[q].key].reason # "WATCHED"
        /\ p # Tick /\ proc[Tick].at = "refused" /\ proc[Tick].out[2] = "WATCHED" =>
               NoneAlive(proc[Tick].key)'
    BY <2>2, <2>5 DEF IInv, DispatchInv, Dispatched, TickFits, NoneAlive
  <2> QED BY <1>0, <2>1, <2>2, <2>3, <2>4, <2>5, <2>6, <2>7, CalmSwitch
<1>2. ASSUME NEW r \in proc[p].todo, finish(r.key, "Cancelled", "KILLED"), lifted' = lifted,
             proc' = [proc EXCEPT ![p].at = IF r.run.status = "Running" THEN "killed" ELSE @,
                                  ![p].cur = IF r.run.status = "Running" THEN r ELSE @,
                                  ![p].todo = @ \ {r}]
      PROVE  IInv'
  <2>1. r \in Rec /\ r.key \in Key /\ RecFits(r) /\ run[r.key].status # "none"
    BY <1>0 DEF Rec, Held1, RecFits
  <2> DEFINE x == [proc[p] EXCEPT !.at = IF r.run.status = "Running" THEN "killed" ELSE @,
                                  !.cur = IF r.run.status = "Running" THEN r ELSE @,
                                  !.todo = @ \ {r}]
  <2>2. /\ x \in Proc /\ x.at \in {"kill", "killed"} /\ x.cur \in {r, proc[p].cur}
        /\ x.at = "killed" => x.cur = r
        /\ x.todo = proc[p].todo \ {r}
        /\ x.job = proc[p].job /\ x.out = proc[p].out
    BY <1>0, <2>1 DEF Proc, Places
  <2>3. proc' = [proc EXCEPT ![p] = x]
    BY <1>0, <1>2 DEF ProcTypes
  <2> HIDE DEF x
  <2>4. Elsewhere(p) /\ proc'[p] = x
    BY <1>0, <2>2, <2>3, SetFacts
  <2>5. Finished(r.key, "KILLED")
    BY <1>2, <2>1, FinishFacts DEF IInv, Types, Over
  <2>6. Grows /\ NoneOpens /\ paused' = paused /\ run'[r.key].status \in Over
    BY <2>1, <2>5 DEF Grows, Finished, Same, Over, NoneOpens
  <2>7. Held1(p)' /\ Dispatched(p)' /\ HandlerFits(p)'
    <3>1. \A q \in proc[p].todo : q \in proc'[p].todo \/ run'[q.key].status \in Over
      BY <2>2, <2>4, <2>6
    <3> QED BY <1>0, <1>2, <2>1, <2>2, <2>4, <2>6, <3>1, KillerFits
  <2>8. Alone(p)
    BY <1>0, <2>2, <2>4, AloneFacts DEF Dispatches
  <2> QED BY <1>0, <1>2, <2>1, <2>4, <2>5, <2>7, <2>8, FinishedStep
<1> QED BY <1>1, <1>2 DEF kill

\* The task of a killed run is cancelled.
LEMMA KilledKeeps == ASSUME IInv, NEW p \in Handler, killed(p) PROVE IInv'
<1> DEFINE r == proc[p].cur
           S == IF r.run.main THEN {<<r.key, "main">>}
                ELSE IF r.run.gateTask THEN {<<r.key, "gate">>}
                ELSE launched_stage(r.key)
<1>0. /\ proc[p].at = "killed" /\ UNCHANGED <<ledger, inflight, stall, lifted>> /\ Cancels(S)
      /\ stopped' = stopped \cup S
      /\ proc' = [proc EXCEPT ![p].at = "kill", ![p].cur = NoRec]
  BY DEF killed, At, stop_stage, NoRec
<1>1. /\ p \in Process /\ p # Tick /\ proc[p] \in Proc /\ proc[p].todo \in SUBSET Rec /\ Held1(p)
      /\ ProcTypes /\ MemTypes' /\ r \in Rec
  BY <1>0, Handles DEF IInv, Types, Held1, MemTypes
<1>2. S \in SUBSET Stage
  BY <1>1, StageFacts DEF Rec, launched_stage
<1> HIDE DEF S
<1> DEFINE x == [proc[p] EXCEPT !.at = "kill", !.cur = NoRec]
<1>3. /\ x \in Proc /\ x.at = "kill" /\ x.cur = NoRec /\ x.todo = proc[p].todo
      /\ x.job = proc[p].job /\ x.out = proc[p].out
  BY <1>1 DEF Proc, Places
<1>4. proc' = [proc EXCEPT ![p] = x]
  BY <1>0, <1>1 DEF ProcTypes
<1> HIDE DEF x
<1>5. Elsewhere(p) /\ proc'[p] = x
  BY <1>1, <1>3, <1>4, SetFacts
<1>6. Grows /\ NoneOpens /\ paused' = paused
  BY <1>0 DEF Grows, NoneOpens, ledger
<1>7. Held1(p)' /\ Dispatched(p)' /\ HandlerFits(p)'
  BY <1>0, <1>1, <1>3, <1>5, <1>6, KillerFits
<1>8. proc[p].at \notin Dispatches /\ proc'[p].at \notin Dispatches /\ stopped' \subseteq Stage
  BY <1>0, <1>2, <1>3, <1>5 DEF Dispatches, IInv, Types, TaskTypes
<1> QED BY <1>0, <1>1, <1>2, <1>5, <1>7, <1>8, CancelStep

\* The kill switch pauses and lists every run that is not over.
LEMMA KillAutomationKeeps == ASSUME IInv, NEW p \in Handler, KillAutomation(p) PROVE IInv'
<1> DEFINE S == {k \in Fired : run[k].status \notin Over}
           x == [Idle EXCEPT !.at = "kill", !.job = "kill", !.todo = Records(S)]
<1>0. /\ proc[p].at = "idle" /\ paused' = TRUE /\ proc' = [proc EXCEPT ![p] = x]
      /\ UNCHANGED <<policy, version, enabled, fails, run, tasks, inflight, stall, lifted>>
  BY DEF KillAutomation, At
<1>1. p \in Process /\ p # Tick /\ ProcTypes /\ RunTypes /\ S \in SUBSET Key
  BY Handles DEF IInv, Types, Fired
<1>2. /\ Records(S) \in SUBSET Rec
      /\ \A r \in Records(S) : r.key \in S /\ r.run = run[r.key]
      /\ \A k \in S : \E r \in Records(S) : r.key = k
  BY <1>1, RecordsFacts
<1>3. /\ x \in Proc /\ x.at = "kill" /\ x.job = "kill" /\ x.todo = Records(S) /\ x.cur = NoRec
      /\ x.out = <<"", "">>
  BY <1>2, NoRecFacts DEF Proc, Places
<1> HIDE DEF x
<1>4. Elsewhere(p) /\ proc'[p] = x
  BY <1>0, <1>1, <1>3, SetFacts
<1>5. /\ Types' /\ RunCalm /\ TaskCalm /\ TasksInv' /\ alive' = alive /\ run' = run /\ token' = token
      /\ Switches(p)
  BY <1>0, <1>4 DEF IInv, Types, Plain, TaskTypes, MemTypes, RunTypes, Elsewhere, RunCalm, TaskCalm, Same,
       TasksInv, TaskFits, tasks, Switches
<1>6. Held1(p)'
  <2>1. \A r \in Records(S) : RecFits(r)
    BY <1>2 DEF RecFits, Fired
  <2> HIDE DEF S
  <2>2. ASSUME NEW r \in proc'[p].todo PROVE RecFits(r)'
    <3>1. r \in Records(S)
      BY <1>3, <1>4
    <3>2. RecFits(r)
      BY <2>1, <3>1
    <3> QED BY <1>5, <3>2 DEF RecFits
  <2> QED BY <1>3, <1>4, <2>2, NoRecFacts DEF Held1, Turned, RecFits
<1>7. HandlerFits(p)'
  <2>0. <<"", "">>[2] # "WATCHED"
    OBVIOUS
  <2>1. x.out[2] # "WATCHED"
    BY <1>3, <2>0
  <2>2. \A k \in Fired' : run'[k].status \in Over \/ \E r \in proc'[p].todo : r.key = k
    BY <1>2, <1>3, <1>4, <1>5 DEF Fired
  <2> QED BY <1>0, <1>3, <1>4, <2>1, <2>2 DEF HandlerFits
<1>8. Dispatched(p)'
  BY <1>3, <1>4 DEF Dispatched, Dispatches, Launching
<1>9. Alone(p) /\ proc'[Tick] = proc[Tick]
  BY <1>0, <1>1, <1>3, <1>4, AloneFacts, TickProcess DEF Dispatches, Elsewhere
<1>10. ToldInv'
  BY <1>5, <1>9, ToldKept DEF IInv
<1>11. /\ \A q \in Process : q # p /\ proc[q].at \in {"create", "start"} =>
              run'[proc[q].key].reason # "WATCHED"
       /\ p # Tick /\ proc[Tick].at = "refused" /\ proc[Tick].out[2] = "WATCHED" =>
              NoneAlive(proc[Tick].key)'
  BY <1>5, <1>9 DEF IInv, DispatchInv, Dispatched, TickFits, NoneAlive
<1> QED BY <1>1, <1>4, <1>5, <1>6, <1>7, <1>8, <1>9, <1>10, <1>11, CalmSwitch

-----------------------------------------------------------------------------
(* The tick                                                                *)

\* What the invariant says of the tick.
LEMMA TickKnows ==
    ASSUME IInv
    PROVE  /\ Tick \in Process /\ Tick \notin Handler /\ proc[Tick] \in Proc /\ ProcTypes /\ RunTypes
           /\ proc[Tick].todo \in SUBSET Rec /\ proc[Tick].cur \in Rec \cup {NoRec}
           /\ Held1(Tick) /\ TickFits /\ MemTypes /\ Plain
           /\ \A r \in proc[Tick].todo : /\ r \in Rec /\ r.key \in Key /\ RecFits(r) /\ Current(r)
                                         /\ run[r.key].status # "none"
  BY TickProcess, Fields DEF IInv, Types, ProcTypes, HeldInv, Held1, TickFits, Rec, RecFits

\* The tick holds what it held, or less, and no answer to a gate was changed.
LEMMA WorksOff ==
    ASSUME IInv, Grows, \A k \in Key : run[k].status # "none" => run'[k].gate = run[k].gate,
           proc'[Tick].todo \subseteq proc[Tick].todo
    PROVE  /\ \A r \in proc'[Tick].todo : r \in Rec /\ RecFits(r)' /\ Current(r)'
           /\ \A r, q \in proc'[Tick].todo : q.key = r.key => q = r
<1>1. \A r \in proc'[Tick].todo : r \in Rec /\ RecFits(r) /\ Current(r) /\ r.key \in Key
  BY TickKnows
<1>2. \A r \in proc'[Tick].todo : RecFits(r)'
  BY <1>1, RecKept
<1>3. \A r \in proc'[Tick].todo : Current(r)'
  BY <1>1 DEF Current, RecFits
<1>4. \A r, q \in proc'[Tick].todo : q.key = r.key => q = r
  BY TickKnows DEF TickFits
<1> QED BY <1>1, <1>2, <1>3, <1>4

\* The tick goes on to a place where it waits on nothing.
LEMMA TickOnward ==
    ASSUME IInv, Grows, \A k \in Key : run[k].status # "none" => run'[k].gate = run[k].gate,
           proc'[Tick].todo \subseteq proc[Tick].todo, proc'[Tick].cur \in Rec => RecFits(proc[Tick].cur)
               /\ proc'[Tick].cur = proc[Tick].cur,
           proc'[Tick].at \in TickJobs, proc'[Tick].job \in TickJobs
    PROVE  Held1(Tick)' /\ Dispatched(Tick)' /\ TickFits'
<1>1. /\ \A r \in proc'[Tick].todo : RecFits(r)' /\ Current(r)'
      /\ \A r, q \in proc'[Tick].todo : q.key = r.key => q = r
  BY WorksOff
<1>2. ASSUME NEW r, r = proc'[Tick].cur, r \in Rec PROVE RecFits(r)'
  BY <1>2, RecKept
<1>3. Held1(Tick)'
  BY <1>1, <1>2 DEF Held1, RecFits, Turned, TickJobs
<1>4. Dispatched(Tick)'
  BY DEF Dispatched, Dispatches, Launching, TickJobs
<1>5. TickFits'
  BY <1>1 DEF TickFits, Turned, TickJobs, Current
<1> QED BY <1>3, <1>4, <1>5

\* The tick lists some fired runs as they are.
LEMMA ListKeeps ==
    ASSUME IInv, NEW a \in {"settle", "monitor", "waiting"}, NEW S \in SUBSET Fired, Lists(a, S),
           Untouched, inflight' = inflight, proc[Tick].at \notin Turned
    PROVE  IInv'
<1>0. S \in SUBSET Key
  BY DEF Fired
<1>1. /\ Elsewhere(Tick) /\ proc'[Tick].at = a /\ proc'[Tick].job = a
      /\ proc'[Tick].key = "none" /\ proc'[Tick].todo = Records(S)
      /\ proc'[Tick].cur = NoRec /\ proc'[Tick].out = <<"", "">>
  BY <1>0, ListsFacts, TickKnows
<1>2. /\ \A r \in Records(S) : r.key \in S /\ r.run = run[r.key]
      /\ \A r, q \in Records(S) : r.key = q.key => r = q
  BY <1>0, RecordsFacts, TickKnows
<1>3. \A r \in Records(S) : RecFits(r) /\ Current(r)
  BY <1>2 DEF RecFits, Current, Fired
<1>4. ASSUME NEW r \in proc'[Tick].todo PROVE RecFits(r)' /\ Current(r)'
  <2>1. RecFits(r) /\ Current(r)
    BY <1>1, <1>3
  <2> QED BY <2>1 DEF RecFits, Current, Untouched
<1>5. Held1(Tick)'
  BY <1>1, <1>4, NoRecFacts DEF Held1, Turned, RecFits
<1>6. Dispatched(Tick)'
  BY <1>1 DEF Dispatched, Dispatches, Launching
<1>7. TickFits'
  <2>1. \A r, q \in proc'[Tick].todo : q.key = r.key => q = r
    BY <1>1, <1>2
  <2>2. \A r \in proc'[Tick].todo : Current(r)'
    BY <1>4
  <2>3. a \in TickJobs /\ a \notin Turned /\ a # "refused"
        /\ a \notin {"idle", "kill", "killed", "replace", "replaced"}
    BY DEF TickJobs, Turned
  <2> QED BY <1>1, <2>1, <2>2, <2>3 DEF TickFits, Current
<1>8. Alone(Tick) /\ inflight' \subseteq Key
  BY <1>1, AloneFacts, TickKnows DEF Dispatches, MemTypes
<1> QED BY <1>1, <1>5, <1>6, <1>7, <1>8, QuietStep, TickKnows

\* The tick begins.
LEMMA BeginsKeeps == ASSUME IInv, tick_begins PROVE IInv'
<1>1. Untouched /\ inflight' = inflight /\ Running \in SUBSET Fired
      /\ proc[Tick].at \notin Turned
      /\ \E a \in {"settle", "monitor", "waiting"} : Lists(a, Running)
  BY DEF tick_begins, Untouched, ledger, IInv, Types, Plain, Running, Fired, At, Turned
<1> QED BY <1>1, ListKeeps

\* What the tick turns to: the record of a stage it watches.
LEMMA TurnFits ==
    ASSUME IInv, NEW r \in proc[Tick].todo, Grows,
           \A k \in Key : k # r.key /\ run[k].status # "none" => run'[k].gate = run[k].gate,
           proc'[Tick].todo = proc[Tick].todo \ {r}, proc'[Tick].cur = r, proc'[Tick].key = r.key,
           proc'[Tick].job = proc[Tick].job, proc[Tick].at # "boot"
    PROVE  /\ \A q \in proc'[Tick].todo : RecFits(q)' /\ Current(q)' /\ q.key # r.key
           /\ \A q, u \in proc'[Tick].todo : u.key = q.key => u = q
           /\ RecFits(r)' /\ r \in Rec /\ proc'[Tick].job \in TickJobs
           /\ (proc'[Tick].at \notin {"boot"} => proc'[Tick].job \in TickJobs)
           /\ Held1(Tick)'
<1>1. /\ \A q \in proc[Tick].todo : /\ q \in Rec /\ RecFits(q) /\ Current(q) /\ q.key \in Key
                                    /\ run[q.key].status # "none"
      /\ \A q, u \in proc[Tick].todo : u.key = q.key => u = q
      /\ proc[Tick].job \in TickJobs
  BY TickKnows DEF TickFits
<1>2. \A q \in proc[Tick].todo : RecFits(q)'
  BY <1>1, RecKept
<1>3. \A q \in proc'[Tick].todo : q \in proc[Tick].todo /\ q.key # r.key
  BY <1>1
<1>4. \A q \in proc'[Tick].todo : Current(q)'
  BY <1>1, <1>3 DEF Current
<1>5. Held1(Tick)'
  BY <1>1, <1>2, <1>3 DEF Held1, RecFits
<1> QED BY <1>1, <1>2, <1>3, <1>4, <1>5

\* The stage of what the tick turned to is told.
LEMMA TurnedStage ==
    ASSUME IInv, proc[Tick].at \in Turned
    PROVE  /\ proc[Tick].cur \in Rec /\ RecFits(proc[Tick].cur) /\ Current(proc[Tick].cur)
           /\ live_task_of(proc[Tick].cur) \in SUBSET Stage
           /\ \A s \in alive : s[1] = proc[Tick].cur.key => s \in live_task_of(proc[Tick].cur)
           /\ \A s \in live_task_of(proc[Tick].cur) : task[s] # "none"
           /\ proc[Tick].job \in TickJobs
<1>1. /\ proc[Tick].cur \in Rec /\ RecFits(proc[Tick].cur) /\ Current(proc[Tick].cur)
      /\ live_task_of(proc[Tick].cur) # {} /\ proc[Tick].job \in TickJobs
  BY TickKnows DEF Held1, TickFits, Turned
<1>2. PICK s \in live_task_of(proc[Tick].cur) : TRUE
  BY <1>1
<1>3. /\ live_task_of(proc[Tick].cur) = {s} /\ s \in Stage /\ task[s] # "none"
      /\ \A x \in alive : x[1] = proc[Tick].cur.key => x = s
  BY <1>1, <1>2, LiveStage
<1> QED BY <1>1, <1>3

\* The task of a run the tick ended is cancelled: its loop is told.
LEMMA CancelAfterKeeps == ASSUME IInv, cancel_after PROVE IInv'
<1> DEFINE S == live_task_of(proc[Tick].cur)
<1>0. /\ proc[Tick].at = "cancel" /\ Cancels(S) /\ stopped' = stopped /\ Back(Tick)
      /\ UNCHANGED <<ledger, inflight, stall, lifted>>
  BY DEF cancel_after, At, cancel_task
<1>1. /\ proc[Tick].job \in TickJobs /\ S \in SUBSET Stage
      /\ \A s \in alive : s[1] = proc[Tick].cur.key => s \in S
  BY <1>0, TurnedStage DEF Turned
<1> HIDE DEF S
<1>2. /\ Elsewhere(Tick) /\ proc'[Tick].cur = NoRec
      /\ proc'[Tick].at = proc[Tick].job /\ proc'[Tick].job = proc[Tick].job
      /\ proc'[Tick].todo = proc[Tick].todo
  BY <1>0, <1>1, TickKnows, BackFacts
<1>3. Grows /\ MemTypes' /\ stopped' \subseteq Stage /\ run' = run
  BY <1>0 DEF Grows, ledger, MemTypes, IInv, Types, TaskTypes
<1>4. Held1(Tick)' /\ Dispatched(Tick)' /\ TickFits'
  BY <1>1, <1>2, <1>3, TickOnward, NoRecFacts
<1>5. proc[Tick].at \notin Dispatches /\ proc'[Tick].at \notin Dispatches
  BY <1>0, <1>1, <1>2 DEF Dispatches, TickJobs
<1> QED BY <1>0, <1>1, <1>2, <1>3, <1>4, <1>5, CancelStep, TickKnows

\* Expiring approvals tells the loops of the tasks and starts none.
LEMMA ExpiresFacts ==
    ASSUME TaskTypes, TasksInv, NEW S \in SUBSET Stage, Expires(S), \A s \in S : task[s] # "none"
    PROVE  /\ TaskTypes' /\ TaskCalm /\ TasksInv' /\ alive' = alive
           /\ token' = token \cup (S \cap alive)
<1>1. /\ token' = token \cup (S \cap alive) /\ alive' = alive /\ starts' = starts /\ stopped' = stopped
      /\ \A s \in Stage : \/ task'[s] = task[s]
                          \/ task'[s] = "Waiting" /\ task[s] = "Asking"
                          \/ /\ task'[s] = "Cancelled" /\ task[s] \notin Ended \cup {"none"}
                             /\ s \notin alive
  BY DEF Expires
<1>2. task' \in [Stage -> {"none", "Created", "Running", "Asking", "Waiting"} \cup Ended]
  BY DEF Expires, TaskTypes, Ended
<1>3. TaskTypes'
  BY <1>1, <1>2 DEF TaskTypes
<1>4. TaskCalm
  BY <1>1 DEF TaskCalm, Ended
<1>5. TasksInv'
  BY <1>1 DEF TasksInv, TaskFits, TaskTypes
<1> QED BY <1>1, <1>3, <1>4, <1>5

\* A run whose approval expired: its task is told before the run ends.
LEMMA ExpiredKeeps == ASSUME IInv, approval_expired PROVE IInv'
<1> DEFINE c == proc[Tick].cur
           S == live_task_of(c)
           x == [Idle EXCEPT !.at = "monitor", !.job = "monitor", !.todo = proc[Tick].todo \cup {c}]
<1>0. /\ proc[Tick].at = "expired" /\ Expires(S) /\ proc' = [proc EXCEPT ![Tick] = x]
      /\ UNCHANGED <<ledger, inflight, stall, lifted>>
  BY DEF approval_expired, At, Resumes
<1>1. /\ S \in SUBSET Stage /\ c \in Rec /\ RecFits(c) /\ Current(c)
      /\ \A s \in alive : s[1] = c.key => s \in S
      /\ \A s \in S : task[s] # "none"
      /\ \A r \in proc[Tick].todo : r.key # c.key
  BY <1>0, TurnedStage, TickKnows DEF Turned, TickFits
<1> HIDE DEF S
<1>2. /\ x \in Proc /\ x.at = "monitor" /\ x.job = "monitor" /\ x.todo = proc[Tick].todo \cup {c}
      /\ x.cur = NoRec
  BY <1>1, TickKnows, NoRecFacts DEF Proc, Places
<1> HIDE DEF x
<1>3. Elsewhere(Tick) /\ proc'[Tick] = x
  BY <1>0, <1>2, TickKnows, SetFacts
<1>4. /\ TaskTypes' /\ TaskCalm /\ TasksInv' /\ alive' = alive
      /\ token' = token \cup (S \cap alive)
  BY <1>0, <1>1, ExpiresFacts DEF IInv, Types
<1>5. Types' /\ RunCalm /\ run' = run /\ UNCHANGED <<paused, lifted>>
  BY <1>0, <1>3, <1>4 DEF IInv, Types, Plain, MemTypes, RunTypes, Elsewhere, RunCalm, Same, ledger
<1>6. ASSUME NEW r \in proc'[Tick].todo PROVE RecFits(r)' /\ Current(r)'
  <2>1. r \in proc[Tick].todo \/ r = c
    BY <1>2, <1>3
  <2>2. RecFits(r) /\ Current(r)
    BY <1>1, <2>1, TickKnows
  <2> QED BY <1>5, <2>2 DEF RecFits, Current
<1>7. \A r, q \in proc'[Tick].todo : q.key = r.key => q = r
  BY <1>1, <1>2, <1>3, TickKnows DEF TickFits
<1>8. Held1(Tick)' /\ Dispatched(Tick)'
  BY <1>2, <1>3, <1>6, NoRecFacts DEF Held1, RecFits, Turned, Dispatched, Dispatches, Launching
<1>9. TickFits'
  <2>1. \A r \in proc'[Tick].todo : Current(r)'
    BY <1>6
  <2> QED BY <1>2, <1>3, <1>7, <2>1 DEF TickFits, Turned, TickJobs, Current
<1>10. Alone(Tick)
  BY <1>0, <1>2, <1>3, AloneFacts, TickKnows DEF Dispatches
<1>11. ToldInv'
  <2> SUFFICES ASSUME NEW k \in Key PROVE Told(k)'
    BY DEF ToldInv
  <2>1. Told(k)
    BY DEF IInv, ToldInv
  <2> QED BY <1>0, <1>1, <1>4, <1>5, <2>1 DEF Told
<1>12. \A q \in Process : q # Tick /\ proc[q].at \in {"create", "start"} =>
           run'[proc[q].key].reason # "WATCHED"
  BY <1>5 DEF IInv, DispatchInv, Dispatched
<1> QED BY <1>3, <1>4, <1>5, <1>8, <1>9, <1>10, <1>11, <1>12, CalmStep, TickKnows

\* The tick dispatches a run it holds or has chosen.
LEMMA TickDispatches ==
    ASSUME IInv, Untouched, inflight' = inflight, proc[Tick].at \notin Turned, Elsewhere(Tick),
           proc'[Tick].at = "dispatch", proc'[Tick].key \in Fired,
           proc'[Tick].job \in TickJobs, proc'[Tick].todo \subseteq proc[Tick].todo,
           proc'[Tick].cur \in proc[Tick].todo \cup {NoRec}
    PROVE  IInv'
<1>1. Grows /\ run' = run /\ \A k \in Key : run[k].status # "none" => run'[k].gate = run[k].gate
  BY DEF Untouched, Grows
<1>2. /\ \A r \in proc'[Tick].todo : RecFits(r)' /\ Current(r)'
      /\ \A r, q \in proc'[Tick].todo : q.key = r.key => q = r
  BY <1>1, WorksOff
<1>3. \A r \in proc[Tick].todo : RecFits(r)'
  BY <1>1, TickKnows, RecKept
<1>4. Held1(Tick)'
  BY <1>2, <1>3, NoRecFacts DEF Held1, RecFits, Turned
<1>5. Dispatched(Tick)'
  BY <1>1 DEF Dispatched, Fired, Dispatches, Launching
<1>6. TickFits'
  BY <1>2 DEF TickFits, Turned, Current
<1>7. Alone(Tick) /\ inflight' \subseteq Key
  BY AloneFacts, TickKnows DEF Dispatches, MemTypes
<1> QED BY <1>4, <1>5, <1>6, <1>7, QuietStep, TickKnows

\* The tick promotes the oldest queued run.
LEMMA PromoteKeeps == ASSUME IInv, promote PROVE IInv'
<1>0. Untouched /\ inflight' = inflight /\ proc[Tick].at = "monitor" /\ proc[Tick].todo = {}
      /\ proc[Tick].at \notin Turned
  BY DEF promote, Untouched, ledger, IInv, Types, Plain, At, Turned
<1>1. CASE Goes(Tick, "waitlist")
  <2>1. /\ Elsewhere(Tick) /\ proc'[Tick].at = "waitlist" /\ proc'[Tick].job = proc[Tick].job
        /\ proc'[Tick].todo = proc[Tick].todo /\ proc'[Tick].cur = proc[Tick].cur
    BY <1>1, GoesFacts, TickKnows DEF Places
  <2>2. proc[Tick].job \in TickJobs /\ (proc[Tick].cur \in Rec => RecFits(proc[Tick].cur))
    BY <1>0, TickKnows DEF TickFits, Held1
  <2>3. Grows /\ \A k \in Key : run[k].status # "none" => run'[k].gate = run[k].gate
    BY <1>0 DEF Untouched, Grows
  <2>4. Held1(Tick)' /\ Dispatched(Tick)' /\ TickFits'
    BY <2>1, <2>2, <2>3, TickOnward DEF TickJobs
  <2>5. Alone(Tick) /\ inflight' \subseteq Key
    BY <1>0, <2>1, AloneFacts, TickKnows DEF Dispatches, MemTypes
  <2> QED BY <1>0, <2>1, <2>4, <2>5, QuietStep, TickKnows
<1>2. CASE /\ queued_runs # {}
           /\ proc' = [proc EXCEPT ![Tick] = [Idle EXCEPT !.at = "dispatch", !.job = "waitlist",
                                                          !.key = Oldest]]
  <2> DEFINE T == {run[k].seq : k \in queued_runs}
  <2>1. T \subseteq Nat /\ T # {} /\ queued_runs \subseteq Fired /\ queued_runs \subseteq Key
    <3>1. queued_runs \subseteq Fired /\ queued_runs \subseteq Key
      BY DEF queued_runs, Fired
    <3>2. \A k \in queued_runs : run[k] \in Run
      BY <3>1, TickKnows DEF RunTypes
    <3>3. \A k \in queued_runs : run[k].seq \in Nat
      BY <3>2 DEF Run
    <3> QED BY <1>2, <3>1, <3>3
  <2>2. PICK m \in T : \A n \in T : m <= n
    BY <2>1, LeastNat
  <2>3. \E k \in queued_runs : \A q \in queued_runs : run[k].seq <= run[q].seq
    <3>1. PICK k \in queued_runs : m = run[k].seq
      BY <2>2
    <3>2. \A q \in queued_runs : run[q].seq \in T
      OBVIOUS
    <3>3. \A q \in queued_runs : m <= run[q].seq
      BY <2>2, <3>2
    <3> QED BY <3>1, <3>3
  <2>4. Oldest \in queued_runs
    BY <2>3 DEF Oldest
  <2> DEFINE x == [Idle EXCEPT !.at = "dispatch", !.job = "waitlist", !.key = Oldest]
  <2>5. /\ x \in Proc /\ x.at = "dispatch" /\ x.job = "waitlist" /\ x.key = Oldest
        /\ x.todo = {} /\ x.cur = NoRec
    BY <2>1, <2>4, NoRecFacts DEF Proc, Places
  <2> HIDE DEF x
  <2>6. Elsewhere(Tick) /\ proc'[Tick] = x
    BY <1>2, <2>5, SetFacts, TickKnows DEF x
  <2> QED BY <1>0, <2>1, <2>4, <2>5, <2>6, TickDispatches DEF TickJobs
<1> QED BY <1>1, <1>2 DEF promote

\* The tick dispatches a run that waits.
LEMMA WaitingKeeps == ASSUME IInv, dispatch_waiting PROVE IInv'
<1>0. Untouched /\ inflight' = inflight
  BY DEF dispatch_waiting, Untouched, ledger, IInv, Types, Plain
<1>1. CASE At(Tick, "waitlist") /\ Lists("waiting", Waiting)
  BY <1>0, <1>1, ListKeeps DEF At, Turned, Waiting, Fired
<1>2. ASSUME NEW r \in proc[Tick].todo, At(Tick, "waiting"), Turns(r, "dispatch", Idle.out)
      PROVE  IInv'
  <2>1. r \in Rec /\ r.key \in Fired /\ proc[Tick].job \in TickJobs
    BY <1>2, TickKnows DEF Fired, At, TickFits
  <2>2. /\ Elsewhere(Tick) /\ proc'[Tick].at = "dispatch" /\ proc'[Tick].job = proc[Tick].job
        /\ proc'[Tick].key = r.key /\ proc'[Tick].todo = proc[Tick].todo \ {r}
        /\ proc'[Tick].cur = r
    BY <1>2, <2>1, IdleOut, TurnsFacts, TickKnows DEF Places
  <2> QED BY <1>0, <1>2, <2>1, <2>2, TickDispatches DEF At, Turned
<1> QED BY <1>1, <1>2 DEF dispatch_waiting

\* The tick ends a run and turns to stopping its task.
LEMMA WatchEnds ==
    ASSUME IInv, proc[Tick].at \in {"settle", "monitor"}, NEW r \in proc[Tick].todo,
           live_task_of(r) # {}, finish(r.key, "Cancelled", "WATCHED"),
           NEW a \in Turned, Turns(r, a, Idle.out), UNCHANGED <<tasks, inflight, stall, lifted>>
    PROVE  IInv'
<1>1. /\ r \in Rec /\ r.key \in Key /\ RecFits(r) /\ Current(r) /\ run[r.key].status # "none"
  BY TickKnows
<1>2. /\ Elsewhere(Tick) /\ proc'[Tick].at = a /\ proc'[Tick].job = proc[Tick].job
      /\ proc'[Tick].key = r.key /\ proc'[Tick].todo = proc[Tick].todo \ {r}
      /\ proc'[Tick].cur = r
  <2>1. a \in Places
    BY DEF Turned, Places
  <2> QED BY <1>1, <2>1, IdleOut, TurnsFacts, TickKnows
<1>3. Finished(r.key, "WATCHED")
  BY <1>1, FinishFacts, TickKnows DEF Over
<1>4. Grows /\ \A k \in Key : run'[k].gate = run[k].gate
  BY <1>1, <1>3 DEF Grows, Finished, Same, Over
<1>5. /\ \A q \in proc'[Tick].todo : RecFits(q)' /\ Current(q)' /\ q.key # r.key
      /\ \A q, u \in proc'[Tick].todo : u.key = q.key => u = q
      /\ RecFits(r)' /\ r \in Rec /\ proc'[Tick].job \in TickJobs
      /\ Held1(Tick)'
  BY <1>2, <1>4, TurnFits
<1>6. TickFits'
  <2>1. Current(proc[Tick].cur)'
    BY <1>1, <1>2, <1>4 DEF Current
  <2>2. live_task_of(proc[Tick].cur)' # {}
    BY <1>2 DEF live_task_of, InGate
  <2>3. a # "refused" /\ a \notin {"idle", "kill", "killed", "replace", "replaced"}
    BY DEF Turned
  <2> QED BY <1>2, <1>5, <2>1, <2>2, <2>3 DEF TickFits, Current
<1>7. Dispatched(Tick)' /\ proc'[Tick].at \notin Dispatches /\ proc[Tick].at \notin Turned
  BY <1>2 DEF Dispatched, Dispatches, Launching, Turned
<1>8. Alone(Tick) /\ MemTypes'
  BY <1>2, <1>7, AloneFacts, TickKnows DEF MemTypes
<1>9. \A q \in Process : q # Tick /\ proc[q].at \in {"create", "start"} => proc[q].key # r.key
  BY <1>1, NoLaunch DEF Current, Launching
<1>10. ASSUME NEW k, k = r.key PROVE Told(k)'
  BY <1>2, <1>10 DEF Told
<1> QED BY <1>1, <1>2, <1>3, <1>5, <1>6, <1>7, <1>8, <1>9, <1>10, FinishedStep, TickKnows

\* The tick is done with a record, and goes on.
LEMMA DropFits ==
    ASSUME IInv, proc[Tick].at \in {"settle", "monitor"}, NEW r, Drops(r), Grows,
           \A k \in Key : run[k].status # "none" => run'[k].gate = run[k].gate,
           inflight' = inflight
    PROVE  /\ Elsewhere(Tick) /\ Held1(Tick)' /\ Dispatched(Tick)' /\ TickFits' /\ Alone(Tick)
           /\ proc[Tick].at \notin Turned
<1>1. /\ Elsewhere(Tick) /\ proc'[Tick].at = proc[Tick].at /\ proc'[Tick].job = proc[Tick].job
      /\ proc'[Tick].todo = proc[Tick].todo \ {r} /\ proc'[Tick].cur = proc[Tick].cur
  BY DropsFacts, TickKnows
<1>2. proc[Tick].job \in TickJobs /\ (proc[Tick].cur \in Rec => RecFits(proc[Tick].cur))
  BY TickKnows DEF TickFits, Held1
<1>3. Held1(Tick)' /\ Dispatched(Tick)' /\ TickFits'
  BY <1>1, <1>2, TickOnward DEF TickJobs
<1> QED BY <1>1, <1>3, AloneFacts, TickKnows DEF Dispatches, Turned

\* The tick leaves a record as it is.
LEMMA DropKeeps ==
    ASSUME IInv, proc[Tick].at \in {"settle", "monitor"}, NEW r, Drops(r),
           UNCHANGED <<ledger, tasks, inflight, lifted>>, MemTypes'
    PROVE  IInv'
<1>1. /\ run' = run /\ alive' = alive /\ token' = token /\ inflight' = inflight /\ Grows
      /\ UNCHANGED <<paused, lifted>>
  BY DEF ledger, tasks, Grows
<1>2. /\ Elsewhere(Tick) /\ Held1(Tick)' /\ Dispatched(Tick)' /\ TickFits' /\ Alone(Tick)
      /\ proc[Tick].at \notin Turned
  BY <1>1, DropFits
<1>3. Types' /\ RunCalm /\ TaskCalm /\ TasksInv'
  BY <1>2 DEF IInv, Types, Plain, TaskTypes, RunTypes, Elsewhere, RunCalm, TaskCalm, Same,
       TasksInv, TaskFits, ledger, tasks
<1>4. ToldInv'
  BY <1>1, <1>2, ToldKept DEF IInv
<1>5. \A q \in Process : q # Tick /\ proc[q].at \in {"create", "start"} =>
          run'[proc[q].key].reason # "WATCHED"
  BY <1>1 DEF IInv, DispatchInv, Dispatched
<1> QED BY <1>1, <1>2, <1>3, <1>4, <1>5, CalmStep, TickKnows

\* The tick ends a run whose loop died with the last Core.
LEMMA SettleKeeps == ASSUME IInv, NEW r \in proc[Tick].todo, settle(r) PROVE IInv'
<1>0. proc[Tick].at = "settle" /\ UNCHANGED <<tasks, inflight, stall, lifted>>
  BY DEF settle, At
<1>1. CASE /\ \E s \in live_task_of(r) : task[s] \notin Ended /\ s \notin alive
           /\ finish(r.key, "Cancelled", "WATCHED") /\ Turns(r, "cancel", Idle.out)
  BY <1>0, <1>1, WatchEnds DEF Turned
<1>2. CASE UNCHANGED ledger /\ Drops(r)
  <2>1. MemTypes'
    BY <1>0, TickKnows DEF MemTypes
  <2> QED BY <1>0, <1>2, <2>1, DropKeeps
<1> QED BY <1>1, <1>2 DEF settle

\* The tick finds an approval nobody answered.
LEMMA ExpireKeeps ==
    ASSUME IInv, NEW r \in proc[Tick].todo, NEW s \in live_task_of(r), expire_approval(r, s)
    PROVE  IInv'
<1>1. /\ proc[Tick].at = "monitor" /\ UNCHANGED <<tasks, inflight, stall, lifted>>
      /\ finish(r.key, "Cancelled", "WATCHED") /\ Turns(r, "expired", Idle.out)
  BY DEF expire_approval, At, Watched
<1> QED BY <1>1, WatchEnds DEF Turned

\* The tick finds the task of a run, if it has one, alive and drops the run from its list.
LEMMA NoneKeeps == ASSUME IInv, NEW r \in proc[Tick].todo, monitor_none(r) PROVE IInv'
<1>0. /\ proc[Tick].at = "monitor" /\ UNCHANGED <<ledger, tasks, inflight, lifted>> /\ Drops(r)
      /\ stall' = [stall EXCEPT ![r.key] = 0] \/ stall' = stall
  BY DEF monitor_none, At
<1>1. StallTicks \in Nat
  BY AutomationAssumption
<1>2. MemTypes'
  BY <1>0, <1>1, TickKnows DEF MemTypes
<1> QED BY <1>0, <1>2, DropKeeps

\* The tick finds the main task ended.
LEMMA EndedKeeps ==
    ASSUME IInv, NEW r \in proc[Tick].todo, NEW s \in live_task_of(r), monitor_ended(r, s)
    PROVE  IInv'
<1>0. /\ proc[Tick].at = "monitor" /\ UNCHANGED <<tasks, inflight, stall, lifted>> /\ Drops(r)
      /\ s \notin alive /\ \E status \in Over : finish(r.key, status, "WATCHED")
  BY DEF monitor_ended, At, Watched, Over
<1>1. /\ r \in Rec /\ r.key \in Key /\ RecFits(r) /\ Current(r) /\ run[r.key].status # "none"
  BY TickKnows
<1>2. Finished(r.key, "WATCHED")
  BY <1>0, <1>1, FinishFacts, TickKnows
<1>3. Grows /\ \A k \in Key : run'[k].gate = run[k].gate
  BY <1>1, <1>2 DEF Grows, Finished, Same, Over
<1>4. /\ Elsewhere(Tick) /\ Held1(Tick)' /\ Dispatched(Tick)' /\ TickFits' /\ Alone(Tick)
      /\ proc[Tick].at \notin Turned
  BY <1>0, <1>3, DropFits
<1>5. \A q \in Process : q # Tick /\ proc[q].at \in {"create", "start"} => proc[q].key # r.key
  BY <1>1, NoLaunch DEF Current, Launching
<1>6. ASSUME NEW k, k = r.key PROVE Told(k)'
  <2>1. \A x \in alive : x[1] # r.key
    BY <1>0, <1>1, LiveStage
  <2>2. alive' = alive
    BY <1>0 DEF tasks
  <2> QED BY <1>6, <2>1, <2>2 DEF Told
<1>7. MemTypes'
  BY <1>0, TickKnows DEF MemTypes
<1> QED BY <1>0, <1>1, <1>2, <1>4, <1>5, <1>6, <1>7, FinishedStep, TickKnows

\* The tick finds the task stalled, or counts another tick of it.
LEMMA StalledKeeps ==
    ASSUME IInv, NEW r \in proc[Tick].todo, NEW s \in live_task_of(r), monitor_stalled(r, s)
    PROVE  IInv'
<1>0. /\ proc[Tick].at = "monitor" /\ UNCHANGED <<ledger, inflight, lifted>> /\ s \notin alive
      /\ stall' = [stall EXCEPT ![r.key] = IF @ < StallTicks THEN @ + 1 ELSE @]
      /\ \/ Drops(r) /\ UNCHANGED tasks
         \/ /\ Cancels({s}) /\ stopped' = stopped
            /\ Turns(r, "refused", <<"Failed", "WATCHED">>)
  BY DEF monitor_stalled, At, Watched, cancel_task
<1>1. /\ r \in Rec /\ r.key \in Key /\ RecFits(r) /\ Current(r) /\ run[r.key].status # "none"
  BY TickKnows
<1>2. StallTicks \in Nat
  BY AutomationAssumption
<1>3. MemTypes'
  BY <1>0, <1>1, <1>2, TickKnows DEF MemTypes
<1>4. CASE Drops(r) /\ UNCHANGED tasks
  BY <1>0, <1>3, <1>4, DropKeeps
<1>5. CASE Cancels({s}) /\ stopped' = stopped /\ Turns(r, "refused", <<"Failed", "WATCHED">>)
  <2>1. /\ s \in Stage /\ \A x \in alive : x[1] # r.key
    BY <1>0, <1>1, LiveStage
  <2>2. <<"Failed", "WATCHED">> \in (Over \cup {""}) \X {"", "DISPATCH", "WATCHED"}
        /\ "refused" \in Places
    BY DEF Over, Places
  <2>3. /\ Elsewhere(Tick) /\ proc'[Tick].at = "refused" /\ proc'[Tick].job = proc[Tick].job
        /\ proc'[Tick].key = r.key /\ proc'[Tick].todo = proc[Tick].todo \ {r}
        /\ proc'[Tick].cur = r /\ proc'[Tick].out = <<"Failed", "WATCHED">>
    BY <1>1, <1>5, <2>2, TurnsFacts, TickKnows
  <2>4. Grows /\ run' = run /\ alive' = alive
    BY <1>0, <1>5 DEF Grows, ledger, Cancels
  <2>5. /\ \A q \in proc'[Tick].todo : RecFits(q)' /\ Current(q)' /\ q.key # r.key
        /\ \A q, u \in proc'[Tick].todo : u.key = q.key => u = q
        /\ proc'[Tick].job \in TickJobs /\ Held1(Tick)'
    BY <1>0, <2>3, <2>4, TurnFits
  <2>6. TickFits'
    <3>1. live_task_of(proc[Tick].cur)' # {}
      BY <2>3 DEF live_task_of, InGate
    <3>2. NoneAlive(proc[Tick].key)'
      BY <2>1, <2>3, <2>4 DEF NoneAlive
    <3>3. run'[r.key].gate = r.run.gate
      BY <1>1, <2>4 DEF Current
    <3> QED BY <1>1, <2>3, <2>5, <3>1, <3>2, <3>3 DEF TickFits, Current, Turned
  <2>7. Dispatched(Tick)'
    <3>1. proc'[Tick].out[1] \in Over
      BY <2>3 DEF Over
    <3> QED BY <1>1, <2>3, <2>4, <3>1 DEF Dispatched, Dispatches, Launching
  <2>8. /\ proc[Tick].at \notin Dispatches /\ proc'[Tick].at \notin Dispatches
        /\ proc[Tick].at \notin Turned /\ stopped' \subseteq Stage
    BY <1>0, <1>5, <2>3 DEF Dispatches, Turned, IInv, Types, TaskTypes
  <2>9. {s} \in SUBSET Stage
    BY <2>1
  <2> QED BY <1>0, <1>3, <1>5, <2>3, <2>5, <2>6, <2>7, <2>8, <2>9, CancelStep, TickKnows
<1> QED BY <1>0, <1>4, <1>5

\* The tick finds the gate ended and records its answer.
LEMMA GateKeeps ==
    ASSUME IInv, NEW r \in proc[Tick].todo, NEW s \in live_task_of(r), NEW answer \in {"RUN", "SKIP"},
           settle_gate(r, s, answer)
    PROVE  IInv'
<1> DEFINE k == r.key
           M == {Tick}
<1>0. /\ proc[Tick].at = "monitor" /\ s \notin alive /\ task[s] = "Completed" /\ InGate(r)
      /\ run' = [run EXCEPT ![k].gate = IF @ = "none" THEN answer ELSE @]
      /\ \/ answer = "RUN" /\ Turns(r, "dispatch", Idle.out)
         \/ answer = "SKIP" /\ Turns(r, "refused", <<"Skipped", "WATCHED">>)
      /\ UNCHANGED <<version, enabled, paused, fails, tasks, inflight, stall, lifted>>
  BY DEF settle_gate, At, Watched
<1>1. /\ r \in Rec /\ k \in Key /\ RecFits(r) /\ Current(r) /\ run[k].status # "none"
      /\ RunFits(k) /\ run[k] \in Run
  BY TickKnows DEF IInv, RunsInv, RunTypes
<1>2. /\ s = <<k, "gate">> /\ s \in Stage /\ \A x \in alive : x[1] # k
  BY <1>0, <1>1, LiveStage DEF live_task_of
<1>3. run[k].gate = "none" /\ run[k].gateTask /\ VersionOf[k] \in Gated /\ task[<<k, "main">>] = "none"
  BY <1>0, <1>1 DEF InGate, Current, RecFits, RunFits
<1> DEFINE x == [run[k] EXCEPT !.gate = answer]
<1>4. /\ x \in Run /\ x.gate = answer /\ x.status = run[k].status /\ x.reason = run[k].reason
      /\ x.main = run[k].main /\ x.gateTask = run[k].gateTask
  BY <1>1 DEF Run
<1>5. run' = [run EXCEPT ![k] = x]
  BY <1>0, <1>1, <1>3, TickKnows DEF RunTypes
<1> HIDE DEF x
<1>6. run'[k] = x /\ (\A j \in Key : j # k => run'[j] = run[j]) /\ RunTypes'
  BY <1>1, <1>4, <1>5, TickKnows DEF RunTypes
<1>7. Grows /\ NoneOpens /\ (\A j \in Key : run'[j].reason = run[j].reason)
  BY <1>4, <1>6 DEF Grows, NoneOpens
<1>8. /\ Elsewhere(Tick) /\ proc'[Tick].job = proc[Tick].job
      /\ proc'[Tick].key = k /\ proc'[Tick].todo = proc[Tick].todo \ {r} /\ proc'[Tick].cur = r
      /\ \/ answer = "RUN" /\ proc'[Tick].at = "dispatch"
         \/ /\ answer = "SKIP" /\ proc'[Tick].at = "refused"
            /\ proc'[Tick].out = <<"Skipped", "WATCHED">>
  <2>1. /\ <<"Skipped", "WATCHED">> \in (Over \cup {""}) \X {"", "DISPATCH", "WATCHED"}
        /\ "refused" \in Places /\ "dispatch" \in Places
    BY DEF Over, Places
  <2> QED BY <1>0, <1>1, <2>1, IdleOut, TurnsFacts, TickKnows
<1>9. /\ \A q \in proc'[Tick].todo : RecFits(q)' /\ Current(q)' /\ q.key # k
      /\ \A q, u \in proc'[Tick].todo : u.key = q.key => u = q
      /\ proc'[Tick].job \in TickJobs /\ Held1(Tick)'
  BY <1>0, <1>6, <1>7, <1>8, TurnFits
<1>10. Types' /\ TasksInv' /\ TasksGrow /\ alive' = alive /\ token' = token /\ task' = task
  BY <1>0, <1>6, <1>8 DEF IInv, Types, Plain, TaskTypes, MemTypes, Elsewhere, tasks, TasksInv, TaskFits,
       TasksGrow
<1>11. RunsInv'
  <2> SUFFICES ASSUME NEW j \in Key PROVE RunFits(j)'
    BY DEF RunsInv
  <2>1. CASE j # k
    BY <1>6, <1>10, <2>1 DEF RunFits, IInv, RunsInv
  <2>2. CASE j = k
    BY <1>0, <1>1, <1>2, <1>3, <1>4, <1>6, <1>10, <2>2 DEF RunFits
  <2> QED BY <2>1, <2>2
<1>12. ToldInv'
  BY <1>0, <1>7, <1>10, ToldKept DEF IInv, Turned
<1>13. TickFits'
  <2>1. live_task_of(proc[Tick].cur)' # {}
    BY <1>8 DEF live_task_of, InGate
  <2>2. NoneAlive(proc[Tick].key)'
    BY <1>2, <1>8, <1>10 DEF NoneAlive
  <2>3. answer = "SKIP" => run'[k].gate = "SKIP"
    BY <1>4, <1>6
  <2> QED BY <1>1, <1>8, <1>9, <2>1, <2>2, <2>3 DEF TickFits, Current, Turned
<1>14. Dispatched(Tick)'
  <2>1. proc'[Tick].at = "refused" => proc'[Tick].out[1] \in Over
    BY <1>8 DEF Over
  <2> QED BY <1>1, <1>4, <1>6, <1>8, <2>1 DEF Dispatched, Dispatches, Launching
<1>15. Stays(M)
  <2> SUFFICES ASSUME NEW q \in Process \ M PROVE StaysFor(q, M)
    BY <1>7, <1>10 DEF Stays
  <2>1. q # Tick /\ proc'[q] = proc[q] /\ Dispatched(q) /\ (q \in Handler => HandlerFits(q))
    BY <1>8 DEF Elsewhere, IInv, DispatchInv, HandlersInv
  <2>2. proc[q].at \in Launching => proc[q].key # k
    BY <1>1, <2>1, NoLaunch DEF Current
  <2>3. proc[q].at \in Launching => proc[q].key \in Key
    BY <2>1 DEF Dispatched, Launching, Dispatches
  <2>4. proc[q].at \in Launching => Same(proc[q].key)
    BY <1>6, <2>2, <2>3 DEF Same
  <2>5. proc[q].at \in {"create", "start"} => run'[proc[q].key].reason # "WATCHED"
    BY <1>7, <2>1, <2>3 DEF Dispatched, Launching
  <2>6. proc[q].at \in Dispatches => proc[q].key \in inflight'
    BY <1>0, <2>1 DEF Dispatched
  <2>7. proc'[Tick].at \notin Dispatches
    BY <1>8 DEF Dispatches
  <2>8. q \in Handler /\ q \notin lifted' /\ proc[q].at \in {"kill", "killed"} => paused'
    BY <1>0, <2>1 DEF HandlerFits
  <2> QED BY <1>0, <1>7, <2>1, <2>4, <2>5, <2>6, <2>7, <2>8 DEF StaysFor
<1>16. /\ \A z \in M : Held1(z)' /\ Dispatched(z)' /\ (z \in Handler => HandlerFits(z)')
       /\ Tick \in M /\ M \in SUBSET Process
  BY <1>9, <1>14, TickKnows
<1> HIDE DEF M
<1> QED BY <1>10, <1>11, <1>12, <1>13, <1>15, <1>16, StepKeeps

-----------------------------------------------------------------------------
(* Commands on the definition, and firings                                 *)

\* Editing, enabling and disabling touch no run.
LEMMA DefinitionKeeps ==
    ASSUME IInv, UpdateAutomation \/ EnableAutomation \/ DisableAutomation PROVE IInv'
<1>0. Last \in Nat /\ Version = 1 .. Last /\ MaxFails \in Nat
  BY AutomationAssumption
<1>1. /\ version' \in {version, version + 1} /\ enabled' \in {0, enabled, version}
      /\ fails' \in {0, fails} /\ (version' = version \/ version < Last)
      /\ UNCHANGED <<paused, run, tasks, inflight, stall, proc, lifted>>
  BY DEF UpdateAutomation, EnableAutomation, DisableAutomation
<1>2. Plain'
  BY <1>0, <1>1 DEF IInv, Types, Plain
<1>3. /\ Types' /\ RunCalm /\ TaskCalm /\ TasksInv' /\ alive' = alive /\ token' = token
  BY <1>1, <1>2 DEF IInv, Types, TaskTypes, MemTypes, RunTypes, ProcTypes, RunCalm, TaskCalm, Same,
       TasksInv, TaskFits, tasks
<1>4. ToldInv'
  BY <1>1, <1>3, ToldKept DEF IInv
<1> QED BY <1>1, <1>3, <1>4, CalmTasks

\* Pausing, or lifting the pause: a kill in progress no longer answers for it.
LEMMA PauseKeeps == ASSUME IInv, PauseAutomation PROVE IInv'
<1>0. /\ paused' = ~paused
      /\ lifted' = IF paused THEN lifted \cup {p \in Handler : proc[p].job = "kill"} ELSE lifted
      /\ UNCHANGED <<version, enabled, fails, run, tasks, inflight, stall, proc>>
  BY DEF PauseAutomation
<1>1. /\ Types' /\ RunCalm /\ TaskCalm /\ TasksInv' /\ alive' = alive /\ token' = token
  BY <1>0 DEF IInv, Types, Plain, TaskTypes, MemTypes, RunTypes, ProcTypes, RunCalm, TaskCalm, Same,
       TasksInv, TaskFits, tasks
<1>2. RunsInv' /\ ToldInv'
  BY <1>0, <1>1, RunsKept, ToldKept DEF IInv
<1>3. Grows /\ NoneOpens /\ TasksGrow
  BY <1>1, CalmRuns DEF TaskCalm, TasksGrow
<1>4. ASSUME NEW q \in Process PROVE StaysFor(q, {})
  <2>1. Dispatched(q) /\ (q \in Handler => HandlerFits(q))
    BY DEF IInv, DispatchInv, HandlersInv
  <2>2. q \in Handler /\ q \notin lifted' =>
            q \notin lifted /\ (proc[q].at \in {"kill", "killed"} => paused')
    BY <1>0, <2>1 DEF HandlerFits
  <2> QED BY <1>0, <1>3, <2>1, <2>2 DEF StaysFor, Dispatched, Same
<1>5. Stays({})
  BY <1>3, <1>4 DEF Stays
<1>6. TickStays
  BY <1>0, <1>1 DEF TickStays, IInv, TickFits, NoneAlive
<1>7. {} \in SUBSET Process
  OBVIOUS
<1> QED BY <1>1, <1>2, <1>5, <1>6, <1>7, StepKeeps

\* A firing inserts a new run and leaves the others.
LEMMA InsertFacts ==
    ASSUME IInv, NEW k \in Key, NEW status \in {"Pending", "Queued", "Skipped"}, Insert(k, status),
           run[k].status = "none", UNCHANGED tasks
    PROVE  /\ RunTypes' /\ Grows /\ RunsInv' /\ run'[k].status = status /\ run'[k].reason = ""
           /\ \A j \in Key : j # k => run'[j] = run[j]
<1>1. RunTypes /\ RunFits(k) /\ IsFiniteSet(Key)
  BY AutomationAssumption DEF IInv, Types, RunsInv
<1>2. Cardinality(Fired) \in Nat
  <2>1. Fired \in SUBSET Key
    BY DEF Fired
  <2>2. IsFiniteSet(Fired)
    BY <1>1, <2>1, FS_Subset
  <2> QED BY <2>2, FS_CardinalityType
<1>a. PICK n \in Nat : n = Cardinality(Fired) + 1
  BY <1>2
<1> DEFINE x == [NoRun EXCEPT !.status = status, !.seq = n]
<1>3. /\ x \in Run /\ x.status = status /\ x.reason = "" /\ x.main = FALSE /\ x.gateTask = FALSE
      /\ x.gate = "none"
  BY DEF NoRun, Run, Status, Over
<1>4. run' = [run EXCEPT ![k] = x]
  BY <1>a DEF Insert
<1> HIDE DEF x
<1>5. run'[k] = x /\ (\A j \in Key : j # k => run'[j] = run[j]) /\ RunTypes'
  BY <1>1, <1>3, <1>4 DEF RunTypes
<1>6. Grows
  BY <1>1, <1>5 DEF Grows, RunFits
<1>7. RunsInv'
  <2> SUFFICES ASSUME NEW j \in Key PROVE RunFits(j)'
    BY DEF RunsInv
  <2>1. task' = task
    BY DEF tasks
  <2>2. CASE j # k
    BY <1>5, <2>1, <2>2 DEF RunFits, IInv, RunsInv
  <2>3. CASE j = k
    BY <1>1, <1>3, <1>5, <2>1, <2>3 DEF RunFits
  <2> QED BY <2>2, <2>3
<1> QED BY <1>3, <1>5, <1>6, <1>7

\* A firing: M is the handler that goes on with it, or nobody.
LEMMA InsertKeeps ==
    ASSUME IInv, NEW k \in Key, NEW status \in {"Pending", "Queued", "Skipped"}, Insert(k, status),
           run[k].status = "none", status = "Skipped" \/ ~paused,
           enabled' \in {0, enabled},
           UNCHANGED <<version, paused, fails, tasks, inflight, stall, lifted>>, ProcTypes',
           NEW M \in SUBSET Handler, \A q \in Process \ M : proc'[q] = proc[q],
           \A p \in M : /\ proc'[p].at \notin Dispatches
                        /\ Held1(p)' /\ Dispatched(p)' /\ HandlerFits(p)'
    PROVE  IInv'
<1>1. /\ RunTypes' /\ Grows /\ RunsInv' /\ run'[k].status = status /\ run'[k].reason = ""
      /\ \A j \in Key : j # k => run'[j] = run[j]
  BY InsertFacts
<1>2. /\ Types' /\ TasksInv' /\ TasksGrow /\ alive' = alive /\ token' = token
  BY <1>1 DEF IInv, Types, Plain, TaskTypes, MemTypes, TasksInv, TaskFits, TasksGrow, tasks
<1>3. Tick \in Process /\ Tick \notin M /\ proc'[Tick] = proc[Tick] /\ M \in SUBSET Process
  BY TickProcess
<1>4. ToldInv'
  <2>1. \A j \in Key : run'[j].reason = "WATCHED" => run[j].reason = "WATCHED"
    BY <1>1
  <2> QED BY <1>2, <1>3, <2>1, ToldKept DEF IInv
<1>5. ASSUME NEW q \in Process \ M PROVE StaysFor(q, M)
  <2>1. proc'[q] = proc[q] /\ Dispatched(q) /\ (q \in Handler => HandlerFits(q))
    BY DEF IInv, DispatchInv, HandlersInv
  <2>2. proc[q].at \in Dispatches => /\ proc[q].key \in Key /\ proc[q].key # k
                                     /\ proc[q].key \in inflight
    BY <2>1 DEF Dispatched
  <2>3. /\ proc[q].at \in Launching => proc[q].at \in Dispatches
        /\ proc[q].at \in {"create", "start"} => proc[q].at \in Launching
    BY DEF Launching, Dispatches
  <2>4. proc[q].at \in Launching => Same(proc[q].key)
    BY <1>1, <2>2, <2>3 DEF Same
  <2>5. proc[q].at \in {"create", "start"} => run'[proc[q].key].reason # "WATCHED"
    BY <1>1, <2>1, <2>2, <2>3 DEF Dispatched
  <2>6. q \in Handler /\ q \notin lifted' /\ proc[q].at \in {"kill", "killed"} => paused' /\ NoneOpens
    <3>1. q \in Handler /\ q \notin lifted' /\ proc[q].at \in {"kill", "killed"} => paused
      BY <2>1 DEF HandlerFits
    <3>2. paused => NoneOpens
      BY <1>1 DEF NoneOpens, Over
    <3> QED BY <3>1, <3>2
  <2> QED BY <2>1, <2>2, <2>4, <2>5, <2>6 DEF StaysFor
<1>6. Stays(M)
  BY <1>1, <1>2, <1>5 DEF Stays
<1>7. TickStays
  BY <1>1, <1>2, <1>3 DEF TickStays, IInv, TickFits, NoneAlive
<1> QED BY <1>1, <1>2, <1>3, <1>4, <1>6, <1>7, StepKeeps

\* A firing of a key for the first time.
LEMMA FireKeeps == ASSUME IInv, NEW p \in Handler, NEW k \in Key, fire(p, k) PROVE IInv'
<1>0. /\ proc[p].at = "idle" /\ run[k].status = "none" /\ ~paused /\ Insert(k, Initial)
      /\ UNCHANGED <<version, enabled, paused, fails, tasks, inflight, stall, lifted>>
      /\ Initial \in {"Pending", "Queued", "Skipped"} /\ ProcTypes /\ RunTypes
  BY DEF fire, Firing, At, Initial, IInv, Types
<1>1. CASE proc' = proc
  <2>1. ProcTypes' /\ {} \in SUBSET Handler
    BY <1>0, <1>1 DEF ProcTypes
  <2> QED BY <1>0, <1>1, <2>1, InsertKeeps
<1>2. CASE proc' = [proc EXCEPT ![p] = [Idle EXCEPT !.at = "replace", !.job = "fire",
                                                    !.key = k, !.todo = Records(active_runs)]]
  <2> DEFINE x == [Idle EXCEPT !.at = "replace", !.job = "fire", !.key = k, !.todo = Records(active_runs)]
             M == {p}
  <2>1. active_runs \in SUBSET Key /\ active_runs \subseteq Fired /\ p \in Process
    BY TickProcess DEF active_runs, Fired
  <2>2. /\ Records(active_runs) \in SUBSET Rec
        /\ \A r \in Records(active_runs) : r.key \in active_runs /\ r.run = run[r.key]
    BY <1>0, <2>1, RecordsFacts
  <2>3. /\ x \in Proc /\ x.at = "replace" /\ x.key = k /\ x.todo = Records(active_runs)
        /\ x.cur = NoRec /\ x.out = Idle.out
    BY <2>2, NoRecFacts DEF Proc, Places
  <2> HIDE DEF x
  <2>4. Elsewhere(p) /\ proc'[p] = x
    BY <1>0, <1>2, <2>1, <2>3, SetFacts DEF x
  <2>5. Grows /\ run'[k].status # "none"
    BY <1>0, InsertFacts
  <2>6. \A r \in Records(active_runs) : r \in Rec /\ RecFits(r)
    BY <2>1, <2>2 DEF RecFits, Fired
  <2>7. ASSUME NEW r \in proc'[p].todo PROVE RecFits(r)'
    BY <2>3, <2>4, <2>5, <2>6, RecKept
  <2>8. Held1(p)'
    BY <2>3, <2>4, <2>7, NoRecFacts DEF Held1, RecFits, Turned
  <2>9. Dispatched(p)' /\ proc'[p].at \notin Dispatches
    BY <2>3, <2>4, <2>5 DEF Dispatched, Dispatches, Launching
  <2>10. HandlerFits(p)'
    BY <2>3, <2>4, IdleOut DEF HandlerFits
  <2>11. M \in SUBSET Handler /\ (\A q \in Process \ M : proc'[q] = proc[q]) /\ ProcTypes'
    BY <2>4 DEF Elsewhere
  <2>12. \A z \in M : proc'[z].at \notin Dispatches /\ Held1(z)' /\ Dispatched(z)' /\ HandlerFits(z)'
    BY <2>8, <2>9, <2>10
  <2> HIDE DEF M
  <2> QED BY <1>0, <2>11, <2>12, InsertKeeps
<1> QED BY <1>1, <1>2 DEF fire

\* A firing that is skipped or finds the definition changed.
LEMMA FireSkippedKeeps ==
    ASSUME IInv, NEW p \in Handler, NEW k \in Key, fire_skipped(p, k) \/ fire_changed(p, k) PROVE IInv'
<1>0. /\ run[k].status = "none" /\ Insert(k, "Skipped") /\ enabled' \in {0, enabled} /\ proc' = proc
      /\ UNCHANGED <<version, paused, fails, tasks, inflight, stall, lifted>>
  BY DEF fire_skipped, fire_changed, Firing
<1>1. ProcTypes' /\ {} \in SUBSET Handler
  BY <1>0 DEF ProcTypes, IInv, Types
<1> QED BY <1>0, <1>1, InsertKeeps

-----------------------------------------------------------------------------
(* The tasks of the runs, and the end of the Core                          *)

\* The loops, the approvals and a CancelTask of somebody else.
LEMMA LoopKeeps ==
    ASSUME IInv, NEW s \in Stage,
           loop_ends(s) \/ loop_cancelled(s) \/ approval(s) \/ CancelTask(s)
    PROVE  IInv'
<1>0. UNCHANGED <<ledger, inflight, stall, proc, lifted>>
  BY DEF loop_ends, loop_cancelled, approval, CancelTask
<1>1. TaskTypes /\ TasksInv
  BY DEF IInv, Types
<1>2. /\ TaskTypes' /\ TaskCalm /\ TasksInv' /\ alive' \subseteq alive
      /\ \A x \in alive' : x \in token => x \in token'
  <2>1. CASE CancelTask(s)
    <3>1. Cancels({s}) /\ stopped' \subseteq Stage /\ {s} \in SUBSET Stage
      BY <1>1, <2>1 DEF CancelTask, cancel_task, TaskTypes
    <3> QED BY <1>1, <3>1, CancelFacts
  <2>2. CASE loop_ends(s) \/ loop_cancelled(s)
    <3>1. /\ task[s] # "none" /\ task[s] # "Completed" /\ s \in alive /\ alive' = alive \ {s}
          /\ task[s] \in {"Running", "Asking", "Waiting"}
          /\ \E end \in {"Completed", "Failed", "Waiting", "Cancelled"} : task' = [task EXCEPT ![s] = end]
          /\ UNCHANGED <<stopped, starts>> /\ token' \subseteq token /\ token \ {s} \subseteq token'
          /\ s \notin token'
      BY <1>1, <2>2 DEF loop_ends, loop_cancelled, TasksInv, TaskFits
    <3>2. /\ task'[s] \in {"Completed", "Failed", "Waiting", "Cancelled"}
          /\ \A x \in Stage : x # s => task'[x] = task[x]
      BY <1>1, <3>1 DEF TaskTypes
    <3>3. TaskTypes'
      BY <1>1, <3>1 DEF TaskTypes, Ended
    <3>4. TasksInv' /\ TaskCalm
      BY <1>1, <3>1, <3>2 DEF TasksInv, TaskFits, TaskCalm
    <3> QED BY <3>1, <3>3, <3>4
  <2>3. CASE approval(s)
    <3>1. /\ task[s] \in {"Running", "Asking"} /\ s \in alive
          /\ \E x \in {"Running", "Asking"} : task' = [task EXCEPT ![s] = x]
          /\ UNCHANGED <<stopped, starts, alive, token>>
      BY <2>3 DEF approval
    <3>2. /\ task'[s] \in {"Running", "Asking"}
          /\ \A x \in Stage : x # s => task'[x] = task[x]
      BY <1>1, <3>1 DEF TaskTypes
    <3>3. TaskTypes'
      BY <1>1, <3>1 DEF TaskTypes
    <3>4. TasksInv' /\ TaskCalm
      BY <1>1, <3>1, <3>2 DEF TasksInv, TaskFits, TaskCalm
    <3> QED BY <3>1, <3>3, <3>4
  <2> QED BY <2>1, <2>2, <2>3
<1>3. /\ run' = run /\ UNCHANGED <<paused, lifted>> /\ proc' = proc /\ inflight' = inflight
  BY <1>0 DEF ledger
<1>4. Types' /\ RunCalm
  BY <1>0, <1>2 DEF IInv, Types, Plain, MemTypes, RunTypes, ProcTypes, RunCalm, Same, ledger
<1>5. ToldInv'
  BY <1>2, <1>3, ToldKept DEF IInv
<1> QED BY <1>2, <1>3, <1>4, <1>5, CalmTasks

\* Where every process is after a start of the Core.
AtBoot(p) == IF p = Tick THEN [Idle EXCEPT !.at = "boot"] ELSE Idle
\* After a restart every process rests and the tick boots.
LEMMA BootFacts ==
    ASSUME NEW p \in Process, proc' = [q \in Process |-> AtBoot(q)]
    PROVE  /\ ProcTypes' /\ Held1(p)' /\ Dispatched(p)' /\ (p \in Handler => HandlerFits(p)')
           /\ proc'[p].at \notin Dispatches
           /\ (p = Tick => TickFits')
<1>1. \A q \in Process : AtBoot(q) \in Proc
  BY NoRecFacts DEF AtBoot, Proc, Places
<1>2. ProcTypes'
  BY <1>1 DEF ProcTypes
<1>3. /\ AtBoot(p).at = IF p = Tick THEN "boot" ELSE "idle"
      /\ AtBoot(p).todo = {} /\ AtBoot(p).cur = NoRec /\ AtBoot(p).out = Idle.out
  BY NoRecFacts DEF AtBoot, Proc
<1>4. proc'[p] = AtBoot(p)
  OBVIOUS
<1>5. Held1(p)' /\ Dispatched(p)' /\ proc'[p].at \notin Dispatches
  BY <1>3, <1>4, NoRecFacts DEF Held1, Turned, Dispatched, Dispatches, Launching
<1>6. p \in Handler => HandlerFits(p)'
  BY <1>3, <1>4, IdleOut, TickProcess DEF HandlerFits
<1>7. p = Tick => TickFits'
  BY <1>3, <1>4 DEF TickFits, Turned
<1> QED BY <1>2, <1>5, <1>6, <1>7

\* The Core dies: no loop and no key in flight is left.
LEMMA RestartKeeps == ASSUME IInv, restart PROVE IInv'
<1>0. /\ alive' = {} /\ token' = {} /\ inflight' = {} /\ stall' = [k \in Key |-> 0]
      /\ task' = [s \in Stage |-> IF task[s] \in {"Running", "Asking"} THEN "Waiting" ELSE task[s]]
      /\ proc' = [p \in Process |-> AtBoot(p)] /\ UNCHANGED <<ledger, stopped, starts>>
  BY DEF restart, AtBoot
<1>1. run' = run /\ Plain' /\ RunTypes'
  BY <1>0 DEF ledger, IInv, Types, Plain, RunTypes
<1>2. StallTicks \in Nat
  BY AutomationAssumption
<1>3. TaskTypes' /\ MemTypes'
  BY <1>0, <1>2 DEF IInv, Types, TaskTypes, MemTypes
<1>4. TaskCalm /\ RunCalm
  BY <1>0, <1>1 DEF TaskCalm, RunCalm, Same
<1>5. TasksInv' /\ ToldInv'
  BY <1>0 DEF IInv, TasksInv, TaskFits, ToldInv, Told
<1>6. \A p \in Process : /\ ProcTypes' /\ Held1(p)' /\ Dispatched(p)' /\ (p \in Handler => HandlerFits(p)')
                         /\ (p = Tick => TickFits')
  BY <1>0, BootFacts
<1>7. RunsInv'
  BY <1>4, RunsKept DEF IInv
<1>8. Types' /\ TickFits'
  BY <1>1, <1>3, <1>6, TickProcess DEF Types
<1> QED BY <1>5, <1>6, <1>7, <1>8, TickProcess DEF IInv, HeldInv, DispatchInv, HandlersInv

-----------------------------------------------------------------------------
\* Nothing has been fired.
LEMMA InitInv == AInit => IInv
<1> SUFFICES ASSUME AInit PROVE IInv
  OBVIOUS
<1>0. Last \in Nat /\ Version = 1 .. Last /\ MaxFails \in Nat /\ StallTicks \in Nat
      /\ Key # {} /\ VersionOf \in [Key -> Nat \ {0}]
  BY AutomationAssumption
<1>1. proc = [p \in Process |-> AtBoot(p)] /\ run = [k \in Key |-> NoRun]
  BY DEF AInit, AtBoot
<1>2. Plain
  <2>1. PICK k \in Key : TRUE
    BY <1>0
  <2>2. VersionOf[k] \in 1 .. Last /\ VersionOf[k] >= 1
    BY <1>0, <2>1 DEF Version
  <2>3. 1 \in Version
    BY <1>0, <2>2
  <2>4. version = 1 /\ enabled = 0 /\ paused = FALSE /\ fails = 0
    BY DEF AInit
  <2>5. fails \in 0 .. MaxFails /\ enabled \in Version \cup {0}
    BY <1>0, <2>4
  <2> QED BY <2>3, <2>4, <2>5 DEF Plain
<1>3. RunTypes /\ RunsInv
  <2>1. /\ NoRun \in Run /\ NoRun.status = "none" /\ NoRun.main = FALSE /\ NoRun.gateTask = FALSE
        /\ NoRun.gate = "none" /\ NoRun.reason = ""
    BY DEF NoRun, Run, Status
  <2>2. \A k \in Key : task[<<k, "main">>] = "none" /\ task[<<k, "gate">>] = "none"
    BY StageFacts DEF AInit
  <2>3. RunTypes
    BY <1>1, <2>1 DEF RunTypes
  <2>4. RunsInv
    BY <1>1, <2>1, <2>2 DEF RunsInv, RunFits
  <2> QED BY <2>3, <2>4
<1>4. TaskTypes /\ MemTypes
  BY <1>0 DEF AInit, TaskTypes, MemTypes
<1>a. TasksInv /\ ToldInv
  BY DEF AInit, TasksInv, TaskFits, ToldInv, Told
<1>5. \A p \in Process : /\ proc[p] = AtBoot(p) /\ AtBoot(p) \in Proc
                         /\ AtBoot(p).at = IF p = Tick THEN "boot" ELSE "idle"
                         /\ AtBoot(p).todo = {} /\ AtBoot(p).cur = NoRec /\ AtBoot(p).out = Idle.out
  BY <1>1, NoRecFacts DEF AtBoot, Proc, Places
<1>6. ProcTypes
  BY <1>1, <1>5 DEF ProcTypes
<1>7. \A p \in Process : Held1(p) /\ Dispatched(p) /\ (p \in Handler => HandlerFits(p))
  BY <1>5, NoRecFacts, IdleOut, TickProcess DEF Held1, Turned, Dispatched, Dispatches, Launching, HandlerFits
<1>8. TickFits
  BY <1>5, TickProcess DEF TickFits, Turned
<1> QED BY <1>2, <1>3, <1>4, <1>a, <1>6, <1>7, <1>8, TickProcess DEF IInv, Types, HeldInv, DispatchInv, HandlersInv

\* Every step preserves the invariant, one lemma for each action.
LEMMA Inductive == IInv /\ [ANext]_vars => IInv'
<1> SUFFICES ASSUME IInv, [ANext]_vars PROVE IInv'
  OBVIOUS
<1>1. CASE Command
  BY <1>1, DefinitionKeeps, PauseKeeps, KillAutomationKeeps, FireKeeps, FireSkippedKeeps DEF Command
<1>2. CASE Watching
  BY <1>2, BeginsKeeps, CancelAfterKeeps, ExpiredKeeps, PromoteKeeps, WaitingKeeps, SettleKeeps,
     NoneKeeps, EndedKeeps, StalledKeeps, GateKeeps DEF Watching
<1>3. CASE Expiring
  BY <1>3, ExpireKeeps DEF Expiring
<1>4. CASE restart
  BY <1>4, RestartKeeps
<1>5. ASSUME NEW p \in Process, Dispatching(p) PROVE IInv'
  BY <1>5, DispatchKeeps, WaitedKeeps, InnerKeeps, UntrustedKeeps, CreateKeeps, StartKeeps, CapacityKeeps,
     StartRefusedKeeps, LaunchedKeeps, StopKeeps, RecordKeeps, RefusedRunKeeps DEF Dispatching
<1>6. ASSUME NEW p \in Handler, Handling(p) PROVE IInv'
  BY <1>6, ReplaceKeeps, ReplacedKeeps, KillKeeps, KilledKeeps DEF Handling
<1>7. ASSUME NEW s \in Stage, Tasks(s) \/ approval(s) \/ CancelTask(s) PROVE IInv'
  BY <1>7, LoopKeeps DEF Tasks
<1>8. CASE UNCHANGED vars
  <2>1. /\ Types' /\ TaskCalm /\ RunCalm /\ TasksInv' /\ run' = run /\ proc' = proc /\ alive' = alive
        /\ token' = token /\ inflight' = inflight /\ UNCHANGED <<paused, lifted>>
    BY <1>8 DEF vars, ledger, tasks, IInv, Types, Plain, TaskTypes, MemTypes, RunTypes, ProcTypes,
         TaskCalm, RunCalm, Same, TasksInv, TaskFits
  <2>2. ToldInv'
    BY <2>1, ToldKept DEF IInv
  <2> QED BY <2>1, <2>2, CalmTasks
<1> QED BY <1>1, <1>2, <1>3, <1>4, <1>5, <1>6, <1>7, <1>8 DEF ANext

\* The invariant the others follow from: what a run says of its tasks, what
\* every process may still rely on, who dispatches which key.
THEOREM AutomationInvariant == ASpec => []IInv
<1>1. AInit => IInv
  BY InitInv
<1>2. IInv /\ [ANext]_vars => IInv'
  BY Inductive
<1> QED BY <1>1, <1>2, PTL DEF ASpec

\* Types, and only a loop that lives carries a request to cancel.
THEOREM AutomationTyped == ASpec => []AutomationTypeOK
<1>1. IInv => AutomationTypeOK
  BY DEF IInv, Types, Plain, TaskTypes, MemTypes, RunTypes, Run, Status, AutomationTypeOK
<1> QED BY <1>1, AutomationInvariant, PTL

\* StartTask happens once for each stage of a firing, whatever is retried,
\* refused, killed or lost with the Core: launch_start starts a Created task
\* only, and no step makes a task Created twice.
THEOREM StagesStartOnce == ASpec => []StartedOnce
<1>1. IInv => StartedOnce
  BY DEF IInv, TasksInv, TaskFits, StartedOnce
<1> QED BY <1>1, AutomationInvariant, PTL

\* The main task of a gated definition is made after its gate said RUN.
THEOREM GateComesFirst == ASpec => []GateBeforeMain
<1>1. IInv => GateBeforeMain
  BY DEF IInv, RunsInv, RunFits, GateBeforeMain
<1> QED BY <1>1, AutomationInvariant, PTL

\* A run the tick ended leaves no loop behind that nobody told to stop.
THEOREM WatchedAreStopped == ASpec => []WatchedRunIsStopped
<1>1. IInv => WatchedRunIsStopped
  BY StageFacts, TickProcess DEF IInv, ToldInv, Told, Types, TaskTypes, WatchedRunIsStopped, AtRest, Turned
<1> QED BY <1>1, AutomationInvariant, PTL

\* KillAutomation leaves no run that waits, runs or could still start, unless
\* somebody lifted the pause while it worked.
THEOREM KillIsComplete == ASpec => []KillEndsEveryRun
<1>1. IInv => KillEndsEveryRun
  BY DEF IInv, HandlersInv, HandlerFits, KillEndsEveryRun, At
<1> QED BY <1>1, AutomationInvariant, PTL

=============================================================================
