--------------------------- MODULE RunControlProofs ---------------------------
(***************************************************************************)
(* Proofs about RunControl, for every set of tasks, pool and bound.        *)
(***************************************************************************)
EXTENDS RunControl, FiniteSetTheorems, TLAPS

-----------------------------------------------------------------------------
(* The pool: it is a function on Ticket, and every step either shrinks the *)
(* set of live tickets or adds one that fits.                              *)

IsPool(p) == p = [k \in Ticket |-> p[k]]

Within(p) == \A d \in Dim : held(p)[d] <= Limits[d]

PoolInv == IsPool(pool) /\ WithinLimits

\* Multiplication by a natural number is monotone.
LEMMA TimesMonotone ==
    ASSUME NEW n \in Nat, NEW a \in Nat, NEW b \in Nat, a <= b
    PROVE  n * a <= n * b
  BY SMT

\* Multiplication distributes over one more.
LEMMA TimesNext ==
    ASSUME NEW a \in Nat, NEW b \in Nat
    PROVE  a * (b + 1) = a * b + a
  BY SMT

\* The live tickets are finitely many.
LEMMA LiveFinite ==
    ASSUME NEW p
    PROVE  IsFiniteSet(live(p)) /\ Cardinality(live(p)) \in Nat
  <1>1. live(p) \subseteq Ticket
    BY DEF live
  <1> QED
    BY <1>1, RunAssumption, FS_Subset, FS_CardinalityType

\* Fewer live tickets hold less.
LEMMA Shrinks ==
    ASSUME NEW p, NEW q, Within(p), live(q) \subseteq live(p)
    PROVE  Within(q)
  <1>1. Cardinality(live(q)) <= Cardinality(live(p))
    BY LiveFinite, FS_Subset
  <1> SUFFICES ASSUME NEW d \in Dim PROVE held(q)[d] <= Limits[d]
    BY DEF Within
  <1>2. Needs[d] \in Nat /\ Limits[d] \in Nat
    BY RunAssumption
  <1>3. Needs[d] * Cardinality(live(q)) <= Needs[d] * Cardinality(live(p))
    BY <1>1, <1>2, LiveFinite, TimesMonotone
  <1>4. Needs[d] * Cardinality(live(p)) <= Limits[d]
    BY DEF Within, held
  <1>5. /\ Needs[d] * Cardinality(live(q)) \in Nat
        /\ Needs[d] * Cardinality(live(p)) \in Nat
    BY <1>2, LiveFinite
  <1>6. Needs[d] * Cardinality(live(q)) <= Limits[d]
    BY <1>2, <1>3, <1>4, <1>5
  <1> QED
    BY <1>6 DEF held

\* One more ticket than a pool in which another one fits.
LEMMA Grows ==
    ASSUME NEW p, NEW q, NEW k, fits(p), live(q) \subseteq live(p) \cup {k}
    PROVE  Within(q)
  <1> DEFINE n == Cardinality(live(p))  m == Cardinality(live(q))
  <1>1. n \in Nat /\ m \in Nat /\ IsFiniteSet(live(p)) /\ IsFiniteSet(live(q))
    BY LiveFinite
  <1>2. /\ IsFiniteSet(live(p) \cup {k})
        /\ Cardinality(live(p) \cup {k}) \in {n, n + 1}
    <2>1. CASE k \in live(p)
      <3>1. live(p) \cup {k} = live(p)
        BY <2>1
      <3> QED
        BY <3>1, <1>1
    <2>2. CASE k \notin live(p)
      BY <2>2, <1>1, FS_AddElement
    <2> QED
      BY <2>1, <2>2
  <1>3. m <= Cardinality(live(p) \cup {k})
    BY <1>2, FS_Subset
  <1>4. m <= n + 1
    BY <1>1, <1>2, <1>3
  <1> SUFFICES ASSUME NEW d \in Dim PROVE held(q)[d] <= Limits[d]
    BY DEF Within
  <1>5. Needs[d] \in Nat /\ Limits[d] \in Nat
    BY RunAssumption
  <1>6. Needs[d] <= Limits[d] - Needs[d] * n
    BY DEF fits, held
  <1> HIDE DEF n, m
  <1>7. Needs[d] * m <= Needs[d] * (n + 1)
    BY <1>1, <1>4, <1>5, TimesMonotone
  <1>8. Needs[d] * (n + 1) = Needs[d] * n + Needs[d]
    BY <1>1, <1>5, TimesNext
  <1>9. Needs[d] * m \in Nat /\ Needs[d] * n \in Nat
    BY <1>1, <1>5
  <1>10. Needs[d] * m <= Limits[d]
    BY <1>5, <1>6, <1>7, <1>8, <1>9
  <1> QED
    BY <1>10 DEF held, m

\* What each operation of the pool does to the live tickets.
LEMMA PoolOps ==
    ASSUME NEW p, IsPool(p), NEW k, NEW g
    PROVE  /\ IsPool(expire(p)) /\ live(expire(p)) \subseteq live(p)
           /\ IsPool(release(p, k)) /\ live(release(p, k)) \subseteq live(p)
           /\ IsPool(renew(p, k))
           /\ renew_ok(p, k, g) => live(renew(p, k)) \subseteq live(p)
           /\ IsPool(acquired(p, k, g))
           /\ live(acquired(p, k, g)) \subseteq live(expire(p)) \cup {k}
  <1>1. IsPool(expire(p)) /\ live(expire(p)) \subseteq live(p)
    BY DEF IsPool, expire, live
  <1>2. IsPool(release(p, k)) /\ live(release(p, k)) \subseteq live(p)
    BY DEF IsPool, release, live
  <1>3. /\ IsPool(renew(p, k))
        /\ renew_ok(p, k, g) => live(renew(p, k)) \subseteq live(p)
    BY DEF IsPool, renew, renew_ok, live
  <1>4. /\ IsPool(acquired(p, k, g))
        /\ live(acquired(p, k, g)) \subseteq live(expire(p)) \cup {k}
    BY <1>1 DEF IsPool, acquired, live
  <1> QED
    BY <1>1, <1>2, <1>3, <1>4

\* The pools a step can leave: the live tickets shrink, or one is added to a
\* pool in which it fits.
Shrunk(q) == IsPool(q) /\ live(q) \subseteq live(pool)
Grown(q) == IsPool(q) /\ \E p, k : fits(p) /\ live(q) \subseteq live(p) \cup {k}

\* The pool after a hold could not be renewed is a swept part of the pool.
LEMMA RefusedHold ==
    ASSUME IsPool(pool), NEW q
    PROVE  Shrunk(refused_hold(q))
  <1>1. IsPool(expire(pool)) /\ live(expire(pool)) \subseteq live(pool)
    BY PoolOps
  <1>2. /\ IsPool(release(expire(pool), hold[q.task].ticket))
        /\ live(release(expire(pool), hold[q.task].ticket)) \subseteq live(expire(pool))
    BY <1>1, PoolOps
  <1> QED
    BY <1>1, <1>2 DEF Shrunk, refused_hold

\* Runtime::start.
LEMMA StartPool ==
    ASSUME IsPool(pool), NEW q, start(q)
    PROVE  Shrunk(pool') \/ Grown(pool')
  <1>1. CASE pool' = pool
    BY <1>1 DEF Shrunk
  <1>2. CASE reuses(q) /\ pool' = renew(expire(pool), hold[q.task].ticket)
    <2>1. IsPool(expire(pool)) /\ live(expire(pool)) \subseteq live(pool)
      BY PoolOps
    <2>2. renew_ok(expire(pool), hold[q.task].ticket, q.gen)
      BY <1>2 DEF reuses
    <2>3. IsPool(pool') /\ live(pool') \subseteq live(expire(pool))
      BY <1>2, <2>1, <2>2, PoolOps
    <2> QED
      BY <2>1, <2>3 DEF Shrunk
  <1>3. CASE fits(refused_hold(q)) /\ pool' = acquired(refused_hold(q), NextTicket, q.gen)
    <2>1. IsPool(refused_hold(q))
      BY RefusedHold DEF Shrunk
    <2>2. live(expire(refused_hold(q))) \subseteq live(refused_hold(q))
      BY <2>1, PoolOps
    <2>3. IsPool(pool') /\ live(pool') \subseteq live(expire(refused_hold(q))) \cup {NextTicket}
      BY <1>3, <2>1, PoolOps
    <2> QED
      BY <1>3, <2>2, <2>3 DEF Grown
  <1>4. CASE pool' = refused_hold(q)
    BY <1>4, RefusedHold
  <1> QED
    BY <1>1, <1>2, <1>3, <1>4 DEF start

\* The turn boundary.
LEMMA BoundaryPool ==
    ASSUME IsPool(pool), NEW t \in Task, boundary(t)
    PROVE  Shrunk(pool') \/ Grown(pool')
  <1>1. CASE pool' = pool
    BY <1>1 DEF Shrunk
  <1>2. CASE renew_ok(pool, loop[t].ticket, loop[t].gen) /\ pool' = renew(pool, loop[t].ticket)
    BY <1>2, PoolOps DEF Shrunk
  <1>3. CASE fits(expire(pool)) /\ pool' = acquired(pool, NextTicket, loop[t].gen)
    BY <1>3, PoolOps DEF Grown
  <1>4. CASE pool' = expire(pool)
    BY <1>4, PoolOps DEF Shrunk
  <1> QED
    BY <1>1, <1>2, <1>3, <1>4 DEF boundary

\* Every step leaves a pool that shrank or grew by a ticket that fits.
LEMMA StepPool ==
    ASSUME IsPool(pool), [Next]_vars
    PROVE  Shrunk(pool') \/ Grown(pool')
  <1>1. CASE pool' = pool
    BY <1>1 DEF Shrunk
  <1>2. CASE \E q \in starting : start(q)
    BY <1>2, StartPool
  <1>3. ASSUME NEW t \in Task, boundary(t) PROVE Shrunk(pool') \/ Grown(pool')
    BY <1>3, BoundaryPool
  <1>4. ASSUME NEW t \in Task, persist(t) PROVE Shrunk(pool')
    <2>1. pool' = pool \/ pool' = release(pool, loop[t].ticket)
      BY <1>4 DEF persist
    <2> QED
      BY <2>1, PoolOps DEF Shrunk
  <1>5. ASSUME NEW t \in Task, cancel_without_loop(t) PROVE Shrunk(pool')
    <2>1. pool' = pool \/ pool' = release(pool, hold[t].ticket)
      BY <1>5 DEF cancel_without_loop
    <2> QED
      BY <2>1, PoolOps DEF Shrunk
  <1>6. ASSUME NEW r \in Reaper, reaper_release(r) PROVE Shrunk(pool')
    BY <1>6, PoolOps DEF Shrunk, reaper_release
  <1>7. ASSUME NEW r \in Reaper, reaper_wake(r) PROVE Shrunk(pool')
    <2>1. \/ pool' = pool
          \/ /\ renew_ok(pool, reaper[r].ticket, reaper[r].gen)
             /\ pool' = renew(pool, reaper[r].ticket)
      BY <1>7 DEF reaper_wake
    <2> QED
      BY <2>1, PoolOps DEF Shrunk
  <1>8. CASE Tick
    <2>1. \A k \in Ticket : pool[k] = NoTicket => pool'[k] = NoTicket
      BY <1>8 DEF Tick, less, NoTicket
    <2> QED
      BY <1>8, <2>1 DEF Tick, Shrunk, IsPool, live
  <1>9. CASE restart
    BY <1>9 DEF restart, Shrunk, IsPool, live
  <1>10. CASE GetCapacity
    BY <1>10, PoolOps DEF Shrunk, GetCapacity
  <1> QED
    BY <1>1, <1>2, <1>3, <1>4, <1>5, <1>6, <1>7, <1>8, <1>9, <1>10
    DEF Next, vars, durable, memory, AcquireSessionLease, StartTask, ResumeTask, PauseTask, CancelTask,
        send_now, stop_task, run_loop, turn, await_approval, approval_resolved, cancelled_wait,
        check_lease, forget, hold_reaper, reaper_check, reaper_end_hold,
        reaper_give_up

\* docs/14 "Capacity tickets": the pool is never overdrawn, whatever its
\* vector, the number of tasks, and the order of starts, lapses, pauses,
\* resumes, cancels, takeovers and restarts.
THEOREM NeverOverdrawn == Spec => []WithinLimits
  <1>1. Init => PoolInv
    <2> SUFFICES ASSUME Init PROVE PoolInv
      OBVIOUS
    <2>1. IsPool(pool) /\ live(pool) = {}
      BY DEF Init, IsPool, live
    <2>2. \A d \in Dim : held(pool)[d] = 0
      BY <2>1, FS_EmptySet, RunAssumption DEF held
    <2> QED
      BY <2>1, <2>2, RunAssumption DEF PoolInv, WithinLimits
  <1>2. PoolInv /\ [Next]_vars => PoolInv'
    <2> SUFFICES ASSUME PoolInv, [Next]_vars PROVE PoolInv'
      OBVIOUS
    <2>1. Shrunk(pool') \/ Grown(pool')
      BY StepPool DEF PoolInv
    <2>2. IsPool(pool')
      BY <2>1 DEF Shrunk, Grown
    <2>3. Within(pool)
      BY DEF PoolInv, WithinLimits, Within
    <2>4. Within(pool')
      BY <2>1, <2>3, Shrinks, Grows DEF Shrunk, Grown
    <2> QED
      BY <2>2, <2>4 DEF PoolInv, IsPool, WithinLimits, Within, held, live
  <1>3. PoolInv => WithinLimits
    BY DEF PoolInv
  <1> QED
    BY <1>1, <1>2, <1>3, PTL DEF Spec

-----------------------------------------------------------------------------
(* The types, and who has which ticket.  A loop in use has a ticket and a  *)
(* run.  No two loops, no two holds, no loop and hold share a ticket, and  *)
(* a reaper on its way to release one shares it with neither: a ticket is  *)
(* handed over (parked, reused, ended) or is new, and never copied.  The   *)
(* reaper of an earlier pause may watch a ticket again in use: it is       *)
(* excluded only from the moment it ended the hold itself.                 *)

Run == [state : RunState, gen : Nat]
Slot == [left : 0 .. Ttl, gen : Nat]
Hold == [ticket : Ticket, gen : Nat, age : 0 .. IdleBound]
Watch == [pc : {"check", "asleep", "bound", "release", "lapsed"}, task : Task, ticket : Ticket,
          gen : Nat, sleep : Nat]

DurableTypes == /\ task \in [Task -> TaskState] /\ runs \in [Task -> Seq(Run)] /\ lease \in Nat
MemoryTypes == /\ loop \in [Task -> LoopState] /\ hold \in [Task -> Hold \cup {NoHold}]
               /\ starting \subseteq StartRequest /\ cancelling \subseteq Task /\ crashes \in Nat
               /\ reaper \in [Reaper -> Watch \cup {NoReaper}]
PoolType(p) == p \in [Ticket -> Slot \cup {NoTicket}]

Used(l) == l.pc \notin {"none", "ended"}
EndMatches(l) == l.pc \in {"ending", "checked"} <=> l.end \in LoopEnd
LoopOK(l, n) == /\ l.gen <= lease /\ EndMatches(l)
                /\ Used(l) => l.ticket \in Ticket /\ l.run \in 1 .. n

Exclusive(lp, hd, rp) ==
    /\ \A t, u \in Task : t # u /\ Used(lp[t]) /\ Used(lp[u]) => lp[t].ticket # lp[u].ticket
    /\ \A t, u \in Task : hd[t] # NoHold /\ Used(lp[u]) => hd[t].ticket # lp[u].ticket
    /\ \A t, u \in Task : t # u /\ hd[t] # NoHold /\ hd[u] # NoHold => hd[t].ticket # hd[u].ticket
    /\ \A r \in Reaper, u \in Task : rp[r].pc = "release" =>
          /\ hd[u] # NoHold => hd[u].ticket # rp[r].ticket
          /\ Used(lp[u]) => lp[u].ticket # rp[r].ticket

ControlInv == /\ DurableTypes /\ MemoryTypes /\ PoolType(pool)
              /\ \A t \in Task : LoopOK(loop[t], Len(runs[t]))
              /\ \A q \in starting : q.gen <= lease
              /\ Exclusive(loop, hold, reaper)

\* What the operations of the pool make of a pool is one.
LEMMA PoolOpTypes ==
    ASSUME NEW p, PoolType(p), NEW k, NEW g \in Nat
    PROVE  /\ PoolType(expire(p)) /\ PoolType(release(p, k)) /\ PoolType(acquired(p, k, g))
           /\ p[k] # NoTicket => PoolType(renew(p, k))
  <1> USE RunAssumption
  <1>1. PoolType(expire(p))
    BY DEF PoolType, expire
  <1>2. PoolType(release(p, k))
    BY DEF PoolType, release
  <1>3. [left |-> Ttl, gen |-> g] \in Slot
    BY DEF Slot
  <1>4. PoolType(acquired(p, k, g))
    BY <1>1, <1>3 DEF PoolType, acquired
  <1>5. ASSUME p[k] # NoTicket PROVE PoolType(renew(p, k))
    <2>1. CASE k \in Ticket
      <3>1. p[k] \in Slot
        BY <1>5, <2>1 DEF PoolType
      <3>2. [p[k] EXCEPT !.left = Ttl] \in Slot
        BY <3>1 DEF Slot
      <3>3. renew(p, k) = [p EXCEPT ![k] = [p[k] EXCEPT !.left = Ttl]]
        BY DEF renew
      <3> QED
        BY <3>2, <3>3 DEF PoolType
    <2>2. CASE k \notin Ticket
      BY <2>2 DEF PoolType, renew
    <2> QED
      BY <2>1, <2>2
  <1> QED
    BY <1>1, <1>2, <1>4, <1>5

\* Every step leaves a pool.
LEMMA PoolTyped ==
    ASSUME ControlInv, [Next]_vars
    PROVE  PoolType(pool')
  <1> USE RunAssumption
  <1>0. /\ PoolType(pool) /\ \A t \in Task : loop[t].gen \in Nat
        /\ \A q \in starting : q.gen \in Nat
    BY DEF ControlInv, MemoryTypes, LoopState, StartRequest
  <1>1. CASE pool' = pool
    BY <1>0, <1>1
  <1>2. ASSUME NEW q \in starting, start(q) PROVE PoolType(pool')
    <2>0. q.gen \in Nat
      BY <1>0
    <2>1. PoolType(expire(pool)) /\ PoolType(release(expire(pool), hold[q.task].ticket))
      BY <1>0, <2>0, PoolOpTypes
    <2>2. PoolType(refused_hold(q))
      BY <2>1 DEF refused_hold
    <2>3. reuses(q) => PoolType(renew(expire(pool), hold[q.task].ticket))
      BY <2>0, <2>1, PoolOpTypes DEF reuses, renew_ok
    <2>4. PoolType(acquired(refused_hold(q), NextTicket, q.gen))
      BY <2>0, <2>2, PoolOpTypes
    <2>5. \/ pool' = pool
          \/ reuses(q) /\ pool' = renew(expire(pool), hold[q.task].ticket)
          \/ pool' = acquired(refused_hold(q), NextTicket, q.gen)
          \/ pool' = refused_hold(q)
      BY <1>2 DEF start
    <2> QED
      BY <1>0, <2>2, <2>3, <2>4, <2>5
  <1>3. ASSUME NEW t \in Task, boundary(t) PROVE PoolType(pool')
    <2>1. \/ pool' = pool
          \/ renew_ok(pool, loop[t].ticket, loop[t].gen) /\ pool' = renew(pool, loop[t].ticket)
          \/ pool' = acquired(pool, NextTicket, loop[t].gen)
          \/ pool' = expire(pool)
      BY <1>3 DEF boundary
    <2>2. loop[t].gen \in Nat
      BY <1>0
    <2>3. /\ PoolType(expire(pool)) /\ PoolType(acquired(pool, NextTicket, loop[t].gen))
          /\ pool[loop[t].ticket] # NoTicket => PoolType(renew(pool, loop[t].ticket))
      BY <1>0, <2>2, PoolOpTypes
    <2> QED
      BY <1>0, <2>1, <2>3 DEF renew_ok
  <1>4. ASSUME NEW t \in Task, persist(t) \/ cancel_without_loop(t) PROVE PoolType(pool')
    <2>1. pool' = pool \/ \E k : pool' = release(pool, k)
      BY <1>4 DEF persist, cancel_without_loop
    <2> QED
      BY <1>0, <2>1, PoolOpTypes
  <1>5. ASSUME NEW r \in Reaper, reaper_release(r) \/ reaper_wake(r) PROVE PoolType(pool')
    <2>1. \/ pool' = pool \/ pool' = release(pool, reaper[r].ticket)
          \/ pool[reaper[r].ticket] # NoTicket /\ pool' = renew(pool, reaper[r].ticket)
      BY <1>5 DEF reaper_release, reaper_wake, renew_ok
    <2>2. /\ PoolType(release(pool, reaper[r].ticket))
          /\ pool[reaper[r].ticket] # NoTicket => PoolType(renew(pool, reaper[r].ticket))
      BY <1>0, PoolOpTypes
    <2> QED
      BY <1>0, <2>1, <2>2
  <1>6. CASE Tick
    <2>1. ASSUME NEW k \in Ticket
          PROVE  [pool[k] EXCEPT !.left = less(@)] \in Slot \cup {NoTicket}
      <3>1. CASE pool[k] \in Slot
        BY <3>1 DEF Slot, less
      <3>2. CASE pool[k] = NoTicket
        BY <3>2 DEF NoTicket, less
      <3> QED
        BY <1>0, <3>1, <3>2 DEF PoolType
    <2> QED
      BY <1>6, <2>1 DEF Tick, PoolType
  <1>7. CASE restart
    BY <1>7 DEF restart, PoolType
  <1>8. CASE GetCapacity
    BY <1>0, <1>8, PoolOpTypes DEF GetCapacity
  <1> QED
    BY <1>1, <1>2, <1>3, <1>4, <1>5, <1>6, <1>7, <1>8
    DEF Next, vars, durable, memory, AcquireSessionLease, StartTask, ResumeTask, PauseTask, CancelTask,
        send_now, stop_task, run_loop, turn, await_approval, approval_resolved, cancelled_wait,
        check_lease, forget, hold_reaper, reaper_check, reaper_end_hold, reaper_give_up

\* The run a start continues is one of the task's; 0 stands for a new one.
LEMMA Continued ==
    ASSUME DurableTypes, NEW q \in StartRequest
    PROVE  continued(q) \in 0 .. Top(q.task)
  <1>1. q.task \in Task /\ Top(q.task) \in Nat
    BY DEF StartRequest, DurableTypes, Top
  <1>2. suspended(q.task) \in 0 .. Top(q.task)
    BY <1>1 DEF suspended
  <1> QED
    BY <1>1, <1>2 DEF continued

\* A sequence of runs with some states replaced is a sequence of runs.
LEMMA RunState_Seq ==
    ASSUME NEW s \in Seq(Run), NEW B, NEW x \in RunState
    PROVE  [i \in 1 .. Len(s) |-> IF i \in B THEN [s[i] EXCEPT !.state = x] ELSE s[i]] \in Seq(Run)
  <1> DEFINE f == [i \in 1 .. Len(s) |-> IF i \in B THEN [s[i] EXCEPT !.state = x] ELSE s[i]]
  <1>1. \A i \in 1 .. Len(s) : f[i] \in Run
    <2> SUFFICES ASSUME NEW i \in 1 .. Len(s) PROVE f[i] \in Run
      OBVIOUS
    <2>1. s[i] \in Run
      OBVIOUS
    <2> QED
      BY <2>1 DEF Run
  <1>2. f \in [1 .. Len(s) -> Run]
    BY <1>1
  <1> HIDE DEF f
  <1>3. Len(s) \in Nat
    OBVIOUS
  <1>4. f \in Seq(Run)
    BY <1>2, <1>3
  <1> QED
    BY <1>4 DEF f

\* reconcile_after_restart keeps the runs well formed.
LEMMA SuspendedRuns ==
    ASSUME DurableTypes, NEW t \in Task
    PROVE  suspended_runs(t) \in Seq(Run)
  <1> DEFINE B == {i \in 1 .. Len(runs[t]) : runs[t][i].state = "Running" /\ task[t] \in {"Running"} \cup Waits}
  <1>1. runs[t] \in Seq(Run) /\ "Suspended" \in RunState
    BY DEF DurableTypes, RunState
  <1>2. suspended_runs(t) = [i \in 1 .. Len(runs[t]) |->
            IF i \in B THEN [runs[t][i] EXCEPT !.state = "Suspended"] ELSE runs[t][i]]
    BY DEF suspended_runs, Top
  <1> QED
    BY <1>1, <1>2, RunState_Seq

\* cancel_without_loop keeps the runs well formed.
LEMMA CancelledRuns ==
    ASSUME DurableTypes, NEW t \in Task
    PROVE  cancelled_runs(t) \in [Task -> Seq(Run)]
  <1> DEFINE B == {i \in 1 .. Len(runs[t]) : runs[t][i].state \in {"Running", "Suspended"}}
             c == [i \in 1 .. Len(runs[t]) |->
                      IF i \in B THEN [runs[t][i] EXCEPT !.state = "Cancelled"] ELSE runs[t][i]]
  <1>1. runs[t] \in Seq(Run) /\ "Cancelled" \in RunState
    BY DEF DurableTypes, RunState
  <1>2. c \in Seq(Run)
    BY <1>1, RunState_Seq
  <1>3. cancelled_runs(t) = [runs EXCEPT ![t] = c]
    BY DEF cancelled_runs, Top
  <1> QED
    BY <1>2, <1>3 DEF DurableTypes

\* A run that changes state is a run.
LEMMA RunEnds ==
    ASSUME NEW r \in Run, NEW x \in RunState
    PROVE  [r EXCEPT !.state = x] \in Run
  BY DEF Run

\* One task's runs replaced by as many or more, and tasks by tasks.
LEMMA RunsGrow ==
    ASSUME DurableTypes, NEW t \in Task, NEW w \in Seq(Run), Len(runs[t]) <= Len(w),
           runs' = runs \/ runs' = [runs EXCEPT ![t] = w],
           lease' = lease, task' \in [Task -> TaskState]
    PROVE  /\ DurableTypes' /\ lease <= lease'
           /\ \A u \in Task : Len(runs[u]) <= Len(runs'[u])
  <1>1. runs \in [Task -> Seq(Run)] /\ lease \in Nat
    BY DEF DurableTypes
  <1>2. runs' \in [Task -> Seq(Run)]
    BY <1>1
  <1>3. \A u \in Task : runs'[u] = runs[u] \/ (u = t /\ runs'[u] = w)
    BY <1>1
  <1>4. \A u \in Task : Len(runs[u]) \in Nat
    BY <1>1
  <1>5. ASSUME NEW u \in Task PROVE Len(runs[u]) <= Len(runs'[u])
    <2>1. CASE runs'[u] = runs[u]
      BY <1>4, <2>1
    <2>2. CASE u = t /\ runs'[u] = w
      BY <2>2, Zenon
    <2> QED
      BY <1>3, <2>1, <2>2
  <1> QED
    BY <1>1, <1>2, <1>5 DEF DurableTypes

\* Every step keeps the durable state well formed; runs are only ever added, and
\* a lease generation is never taken back.
LEMMA DurableTyped ==
    ASSUME ControlInv, [Next]_vars
    PROVE  /\ DurableTypes' /\ lease <= lease'
           /\ \A t \in Task : Len(runs[t]) <= Len(runs'[t])
  <1>0. DurableTypes /\ MemoryTypes /\ \A t \in Task : Len(runs[t]) \in Nat
    BY DEF ControlInv, DurableTypes
  <1>1. CASE UNCHANGED durable
    BY <1>0, <1>1 DEF durable, DurableTypes
  <1>2. CASE AcquireSessionLease
    BY <1>0, <1>2 DEF AcquireSessionLease, DurableTypes
  <1>3. CASE restart
    <2>1. \A t \in Task : suspended_runs(t) \in Seq(Run) /\ Len(suspended_runs(t)) = Len(runs[t])
      BY <1>0, SuspendedRuns DEF suspended_runs, Top
    <2>2. task' \in [Task -> TaskState]
      BY <1>0, <1>3 DEF restart, DurableTypes, TaskState
    <2> QED
      BY <1>0, <1>3, <2>1, <2>2 DEF restart, DurableTypes
  <1>4. ASSUME NEW t \in Task, cancel_without_loop(t)
        PROVE  /\ DurableTypes' /\ lease <= lease'
               /\ \A u \in Task : Len(runs[u]) <= Len(runs'[u])
    <2>1. cancelled_runs(t) \in [Task -> Seq(Run)]
      BY <1>0, CancelledRuns
    <2>2. runs' = cancelled_runs(t) /\ lease' = lease /\ task' \in [Task -> TaskState]
      BY <1>0, <1>4 DEF cancel_without_loop, DurableTypes, TaskState
    <2> DEFINE w == [i \in 1 .. Top(t) |->
                       IF runs[t][i].state \in {"Running", "Suspended"}
                       THEN [runs[t][i] EXCEPT !.state = "Cancelled"] ELSE runs[t][i]]
    <2>3. cancelled_runs(t) = [runs EXCEPT ![t] = w]
      BY DEF cancelled_runs
    <2>4. Len(runs[t]) \in Nat /\ runs \in [Task -> Seq(Run)]
      BY <1>0 DEF DurableTypes
    <2>5. Len(w) = Len(runs[t])
      BY <2>4 DEF Top
    <2> HIDE DEF w
    <2>6. w = cancelled_runs(t)[t]
      BY <2>3, <2>4
    <2>7. w \in Seq(Run) /\ Len(runs[t]) <= Len(w)
      BY <2>1, <2>4, <2>5, <2>6
    <2> QED
      BY <1>0, <2>2, <2>3, <2>7, RunsGrow
  <1>5. ASSUME NEW t \in Task, await_approval(t) \/ approval_resolved(t)
        PROVE  /\ DurableTypes' /\ lease <= lease'
               /\ \A u \in Task : Len(runs[u]) <= Len(runs'[u])
    <2>1. task \in [Task -> TaskState] /\ runs[t] \in Seq(Run) /\ Len(runs[t]) \in Nat
      BY <1>0 DEF DurableTypes
    <2>2. runs' = runs /\ lease' = lease /\ task' \in [Task -> TaskState]
      BY <1>5, <2>1 DEF await_approval, approval_resolved, TaskState
    <2> QED
      BY <1>0, <2>1, <2>2, RunsGrow
  <1>6. ASSUME NEW t \in Task, persist(t)
        PROVE  /\ DurableTypes' /\ lease <= lease'
               /\ \A u \in Task : Len(runs[u]) <= Len(runs'[u])
    <2>1. task' \in [Task -> TaskState] /\ lease' = lease
      BY <1>0, <1>6 DEF persist, OutcomeTask, TaskState, DurableTypes
    <2>2. runs[t] \in Seq(Run) /\ OutcomeRun(loop[t].end) \in RunState
      BY <1>0 DEF OutcomeRun, RunState, DurableTypes
    <2>3. loop[t].run \in 1 .. Len(runs[t])
      BY <1>6 DEF ControlInv, LoopOK, Used, persist
    <2> DEFINE r == [runs[t][loop[t].run] EXCEPT !.state = OutcomeRun(loop[t].end)]
               w == [runs[t] EXCEPT ![loop[t].run] = r]
    <2>4. r \in Run
      <3>1. runs[t][loop[t].run] \in Run
        BY <2>2, <2>3
      <3> QED
        BY <2>2, <3>1, RunEnds
    <2>5. runs' = runs \/ runs' = [runs EXCEPT ![t] = w]
      BY <1>6 DEF persist
    <2> HIDE DEF r
    <2>6. w \in Seq(Run) /\ Len(w) = Len(runs[t])
      BY <2>2, <2>3, <2>4
    <2> HIDE DEF w
    <2>7. Len(runs[t]) <= Len(w)
      BY <1>0, <2>6
    <2> QED
      BY <1>0, <2>1, <2>5, <2>6, <2>7, RunsGrow
  <1>7. ASSUME NEW q \in starting, start(q)
        PROVE  /\ DurableTypes' /\ lease <= lease'
               /\ \A u \in Task : Len(runs[u]) <= Len(runs'[u])
    <2>1. q \in StartRequest /\ q.task \in Task /\ q.gen \in Nat
      BY <1>0 DEF MemoryTypes, StartRequest
    <2>2. continued(q) \in 0 .. Top(q.task) /\ Top(q.task) \in Nat
      BY <1>0, <2>1, Continued DEF Top
    <2> DEFINE r == [state |-> "Running", gen |-> q.gen]
               s == runs[q.task]
               w == IF continued(q) = 0 THEN Append(s, r) ELSE [s EXCEPT ![continued(q)] = r]
    <2>3. r \in Run /\ s \in Seq(Run)
      BY <1>0, <2>1 DEF Run, RunState, DurableTypes
    <2>4. started_runs(q) = [runs EXCEPT ![q.task] = w]
      BY DEF started_runs
    <2> HIDE DEF r
    <2>5. w \in Seq(Run) /\ Len(s) <= Len(w)
      <3> HIDE DEF s
      <3>1. Len(s) \in Nat /\ Len(Append(s, r)) = Len(s) + 1 /\ Append(s, r) \in Seq(Run)
        BY <2>3
      <3>2. continued(q) # 0 => continued(q) \in 1 .. Len(s)
        BY <2>2 DEF Top, s
      <3>3. \A i \in 1 .. Len(s) : [s EXCEPT ![i] = r] \in Seq(Run) /\ Len([s EXCEPT ![i] = r]) = Len(s)
        BY <2>3
      <3> QED
        BY <3>1, <3>2, <3>3
    <2>6. \/ task' = task /\ runs' = runs
          \/ task' = [task EXCEPT ![q.task] = "Running"] /\ runs' = started_runs(q)
      BY <1>7 DEF start, launch
    <2> HIDE DEF w
    <2>7. lease' = lease /\ task' \in [Task -> TaskState]
      BY <1>0, <1>7, <2>6 DEF start, DurableTypes, TaskState
    <2> QED
      BY <1>0, <2>1, <2>4, <2>5, <2>6, <2>7, RunsGrow
  <1> QED
    BY <1>1, <1>2, <1>3, <1>4, <1>5, <1>6, <1>7, Zenon
    DEF Next, vars, durable, GetCapacity, Tick, StartTask, ResumeTask, PauseTask, CancelTask,
        send_now, stop_task, run_loop, boundary, turn, cancelled_wait,
        check_lease, forget, hold_reaper, reaper_check, reaper_end_hold, reaper_release, reaper_wake,
        reaper_give_up

-----------------------------------------------------------------------------
(* What a step does to a loop.                                             *)

\* It moves on, with its generation, its run and its ticket.
Steady(l, m) ==
    /\ m \in LoopState /\ Used(l) /\ Used(m) /\ EndMatches(m)
    /\ m.gen = l.gen /\ m.run = l.run /\ m.ticket = l.ticket

\* It moves on with a ticket just issued.
Reticketed(l, m) ==
    /\ m \in LoopState /\ Used(l) /\ Used(m) /\ EndMatches(m)
    /\ m.gen = l.gen /\ m.run = l.run /\ CanIssue /\ m.ticket = NextTicket

\* It is over.
Gone(l, m) == m \in LoopState /\ ~Used(m) /\ EndMatches(m) /\ m.gen \in {0, l.gen}

\* The ways a loop in use moves on.
LEMMA LoopMoves ==
    ASSUME NEW l \in LoopState, Used(l), NEW e \in LoopEnd
    PROVE  /\ Steady(l, [l EXCEPT !.pc = "ending", !.end = e])
           /\ Steady(l, [l EXCEPT !.pc = "checked", !.end = e])
           /\ CanIssue => Reticketed(l, [l EXCEPT !.pc = "ending", !.end = e, !.ticket = NextTicket])
  <1>1. CanIssue => NextTicket \in Ticket
    BY DEF CanIssue, NextTicket
  <1> QED
    BY <1>1 DEF LoopState, LoopEnd, Steady, Reticketed, Used, EndMatches

\* A loop between its turns, in one, or in a wait keeps its run and generation.
LEMMA LoopGoesRound ==
    ASSUME NEW l \in LoopState, l.pc \in {"top", "turn", "waiting"}, EndMatches(l)
    PROVE  /\ Steady(l, [l EXCEPT !.pc = "top"])
           /\ Steady(l, [l EXCEPT !.pc = "turn"])
           /\ Steady(l, [l EXCEPT !.pc = "waiting"])
           /\ CanIssue => Reticketed(l, [l EXCEPT !.pc = "turn", !.ticket = NextTicket])
  <1>1. CanIssue => NextTicket \in Ticket
    BY DEF CanIssue, NextTicket
  <1> QED
    BY <1>1 DEF LoopState, LoopEnd, Steady, Reticketed, Used, EndMatches

\* The requests of PauseTask, InterruptTask and CancelTask.
LEMMA LoopAsked ==
    ASSUME NEW l \in LoopState, EndMatches(l)
    PROVE  /\ Used(l) => /\ Steady(l, [l EXCEPT !.park = TRUE])
                         /\ Steady(l, [l EXCEPT !.cancel = TRUE])
                         /\ Steady(l, interrupted(l))
                         /\ Steady(l, [interrupted(l) EXCEPT !.park = TRUE])
           /\ ~Used(l) => Gone(l, [l EXCEPT !.cancel = TRUE])
  <1>1. /\ Used(l) => Steady(l, [l EXCEPT !.park = TRUE]) /\ Steady(l, [l EXCEPT !.cancel = TRUE])
        /\ ~Used(l) => Gone(l, [l EXCEPT !.cancel = TRUE])
    BY DEF LoopState, LoopEnd, Steady, Gone, Used, EndMatches
  <1>2. interrupted(l) = l \/ (l.pc = "waiting" /\ interrupted(l) = [l EXCEPT !.pc = "top"])
    BY DEF interrupted
  <1>3. CASE interrupted(l) = l
    <2>1. Used(l) => Steady(l, l)
      BY DEF Steady
    <2> QED
      BY <1>1, <1>3, <2>1
  <1>4. CASE l.pc = "waiting" /\ interrupted(l) = [l EXCEPT !.pc = "top"]
    <2>1. /\ Steady(l, [l EXCEPT !.pc = "top"])
          /\ Steady(l, [[l EXCEPT !.pc = "top"] EXCEPT !.park = TRUE])
      BY <1>4 DEF LoopState, LoopEnd, Steady, Used, EndMatches
    <2> QED
      BY <1>1, <1>4, <2>1
  <1> QED
    BY <1>2, <1>3, <1>4

\* No loop, and one that only has to be forgotten.
LEMMA LoopOver ==
    ASSUME NEW l \in LoopState
    PROVE  Gone(l, NoLoop) /\ Gone(l, over(l))
  <1>1. NoLoop \in LoopState /\ l.cancel \in BOOLEAN
    BY DEF NoLoop, LoopState
  <1>2. over(l).pc = "ended" /\ over(l).gen = 0 /\ over(l).end = "none"
    BY DEF over, NoLoop
  <1>3. over(l) \in LoopState
    BY <1>1 DEF over, LoopState
  <1>4. Gone(l, NoLoop)
    BY <1>1 DEF Gone, Used, EndMatches, LoopEnd, NoLoop
  <1>5. Gone(l, over(l))
    BY <1>2, <1>3 DEF Gone, Used, EndMatches, LoopEnd
  <1> QED
    BY <1>4, <1>5

\* A step that is no start and no restart changes one loop, in one of these ways.
LEMMA LoopStep ==
    ASSUME ControlInv, NEW t \in Task,
           run_loop(t) \/ PauseTask(t) \/ send_now(t) \/ stop_task(t) \/ CancelTask(t)
    PROVE  \/ loop' = loop
           \/ \E m : /\ loop' = [loop EXCEPT ![t] = m]
                     /\ Steady(loop[t], m) \/ Gone(loop[t], m)
                        \/ (boundary(t) /\ Reticketed(loop[t], m))
  <1> DEFINE l == loop[t]
             Ok(m) == Steady(l, m) \/ Gone(l, m) \/ (boundary(t) /\ Reticketed(l, m))
             Moved == \E m : loop' = [loop EXCEPT ![t] = m] /\ Ok(m)
  <1>0. l \in LoopState /\ EndMatches(l)
    BY DEF ControlInv, MemoryTypes, LoopOK
  <1>1. ASSUME NEW e \in LoopEnd, Used(l), ends(t, e) PROVE Moved
    <2>1. Steady(l, [l EXCEPT !.pc = "ending", !.end = e])
      BY <1>0, <1>1, LoopMoves
    <2>2. loop' = [loop EXCEPT ![t] = [l EXCEPT !.pc = "ending", !.end = e]]
      BY <1>1 DEF ends
    <2> QED
      BY <2>1, <2>2, ZenonT(30)
  <1>2. CASE boundary(t)
    <2>0. l.pc = "top" /\ Used(l)
      BY <1>2 DEF boundary, Used
    <2>1. \/ \E e \in {"Cancelled", "Parked", "Fenced", "Suspended", "Failed"} : ends(t, e)
          \/ loop' = [loop EXCEPT ![t] = [l EXCEPT !.pc = "turn"]]
          \/ /\ CanIssue
             /\ \/ loop' = [loop EXCEPT ![t] =
                             [l EXCEPT !.pc = "ending", !.end = "Fenced", !.ticket = NextTicket]]
                \/ loop' = [loop EXCEPT ![t] = [l EXCEPT !.pc = "turn", !.ticket = NextTicket]]
      <3>1. CASE ~l.cancel /\ ~parks(l) /\ ~renew_ok(pool, l.ticket, l.gen)
        BY <1>2, <3>1 DEF boundary
      <3>2. CASE ~(~l.cancel /\ ~parks(l) /\ ~renew_ok(pool, l.ticket, l.gen))
        BY <1>2, <3>2 DEF boundary
      <3> QED
        BY <3>1, <3>2
    <2>2. CASE \E e \in {"Cancelled", "Parked", "Fenced", "Suspended", "Failed"} : ends(t, e)
      BY <1>1, <2>0, <2>2 DEF LoopEnd
    <2>3. CASE loop' = [loop EXCEPT ![t] = [l EXCEPT !.pc = "turn"]]
      <3>1. Steady(l, [l EXCEPT !.pc = "turn"])
        BY <1>0, <2>0, LoopGoesRound
      <3> QED
        BY <2>3, <3>1, Zenon
    <2>4. CASE CanIssue /\ loop' = [loop EXCEPT ![t] =
                             [l EXCEPT !.pc = "ending", !.end = "Fenced", !.ticket = NextTicket]]
      <3> DEFINE m == [l EXCEPT !.pc = "ending", !.end = "Fenced", !.ticket = NextTicket]
      <3>1. Reticketed(l, m)
        <4>1. \A e \in LoopEnd :
                Reticketed(l, [l EXCEPT !.pc = "ending", !.end = e, !.ticket = NextTicket])
          BY <1>0, <2>0, <2>4, LoopMoves
        <4>2. "Fenced" \in LoopEnd
          BY DEF LoopEnd
        <4> QED
          BY <4>1, <4>2, Zenon
      <3>2. loop' = [loop EXCEPT ![t] = m]
        BY <2>4
      <3> HIDE DEF m
      <3> QED
        BY <1>2, <3>1, <3>2, Zenon
    <2>5. CASE CanIssue /\ loop' = [loop EXCEPT ![t] = [l EXCEPT !.pc = "turn", !.ticket = NextTicket]]
      <3>1. Reticketed(l, [l EXCEPT !.pc = "turn", !.ticket = NextTicket])
        BY <1>0, <2>0, <2>5, LoopGoesRound
      <3> QED
        BY <1>2, <2>5, <3>1, Zenon
    <2> QED
      BY <2>1, <2>2, <2>3, <2>4, <2>5
  <1>3. CASE turn(t)
    <2>1. l.pc = "turn" /\ Used(l)
      BY <1>3 DEF turn, Used
    <2>2. \/ loop' = [loop EXCEPT ![t] = [l EXCEPT !.pc = "top"]]
          \/ \E e \in LoopEnd : ends(t, e)
      BY <1>3 DEF turn, LoopEnd
    <2>3. Steady(l, [l EXCEPT !.pc = "top"])
      BY <1>0, <2>1, LoopGoesRound
    <2>4. CASE loop' = [loop EXCEPT ![t] = [l EXCEPT !.pc = "top"]]
      BY <2>3, <2>4, Zenon
    <2> QED
      BY <1>1, <2>1, <2>2, <2>4
  <1>4. CASE await_approval(t)
    <2>1. Steady(l, [l EXCEPT !.pc = "waiting"])
      BY <1>0, <1>4, LoopGoesRound DEF await_approval
    <2>2. loop' = [loop EXCEPT ![t] = [l EXCEPT !.pc = "waiting"]]
      BY <1>4 DEF await_approval
    <2> QED
      BY <2>1, <2>2, Zenon
  <1>5. CASE approval_resolved(t)
    <2>1. Steady(l, [l EXCEPT !.pc = "turn"])
      BY <1>0, <1>5, LoopGoesRound DEF approval_resolved
    <2>2. loop' = [loop EXCEPT ![t] = [l EXCEPT !.pc = "turn"]]
      BY <1>5 DEF approval_resolved
    <2> QED
      BY <2>1, <2>2, Zenon
  <1>6. CASE cancelled_wait(t)
    <2>1. Used(l) /\ ends(t, "Cancelled") /\ "Cancelled" \in LoopEnd
      BY <1>6 DEF cancelled_wait, Used, LoopEnd
    <2> QED
      BY <1>1, <2>1
  <1>7. CASE check_lease(t)
    <2>1. Used(l) /\ fenced_end(t) \in LoopEnd
      BY <1>0, <1>7, SMTT(30) DEF check_lease, fenced_end, EndMatches, Used, LoopEnd
    <2>2. Steady(l, [l EXCEPT !.pc = "checked", !.end = fenced_end(t)])
      BY <1>0, <2>1, LoopMoves
    <2>3. loop' = [loop EXCEPT ![t] = [l EXCEPT !.pc = "checked", !.end = fenced_end(t)]]
      BY <1>7 DEF check_lease
    <2> QED
      BY <2>2, <2>3, Zenon
  <1>8. CASE persist(t)
    <2>1. loop' = [loop EXCEPT ![t] = over(l)]
      BY <1>8 DEF persist
    <2> QED
      BY <1>0, <2>1, LoopOver
  <1>9. CASE forget(t)
    <2>1. loop' = [loop EXCEPT ![t] = NoLoop]
      BY <1>9 DEF forget
    <2> QED
      BY <1>0, <2>1, LoopOver
  <1>10. CASE PauseTask(t)
    <2>1. loop' = [loop EXCEPT ![t] = [l EXCEPT !.park = TRUE]] /\ Used(l)
      BY <1>10 DEF PauseTask, Used, Live
    <2>2. Steady(l, [l EXCEPT !.park = TRUE])
      BY <1>0, <2>1, LoopAsked
    <2> QED
      BY <2>1, <2>2, Zenon
  <1>11. CASE send_now(t)
    <2>1. loop' = [loop EXCEPT ![t] = interrupted(l)] /\ Used(l)
      BY <1>11 DEF send_now, Used
    <2> QED
      BY <1>0, <2>1, LoopAsked
  <1>12. CASE stop_task(t)
    <2>1. loop' = [loop EXCEPT ![t] = [interrupted(l) EXCEPT !.park = TRUE]] /\ Used(l)
      BY <1>12 DEF stop_task, Used, Live
    <2>2. Steady(l, [interrupted(l) EXCEPT !.park = TRUE])
      BY <1>0, <2>1, LoopAsked
    <2> QED
      BY <2>1, <2>2, Zenon
  <1>13. CASE CancelTask(t)
    <2>1. loop' = loop \/ loop' = [loop EXCEPT ![t] = [l EXCEPT !.cancel = TRUE]]
      BY <1>13 DEF CancelTask
    <2>2. Steady(l, [l EXCEPT !.cancel = TRUE]) \/ Gone(l, [l EXCEPT !.cancel = TRUE])
      BY <1>0, LoopAsked
    <2> QED
      BY <2>1, <2>2, Zenon
  <1> QED
    BY <1>2, <1>3, <1>4, <1>5, <1>6, <1>7, <1>8, <1>9, <1>10, <1>11, <1>12, <1>13 DEF run_loop

\* Runtime::start leaves the loops alone, or gives one to a task that had none.
LEMMA StartLoop ==
    ASSUME ControlInv, NEW q \in starting, start(q)
    PROVE  \/ loop' = loop
           \/ \E k \in Ticket, m \in LoopState :
                 /\ loop' = [loop EXCEPT ![q.task] = m]
                 /\ m.ticket = k /\ m.gen = q.gen /\ Used(m) /\ EndMatches(m)
                 /\ m.run \in 1 .. Len(runs'[q.task])
                 /\ \/ /\ CanIssue /\ k = NextTicket
                    \/ /\ hold[q.task] # NoHold /\ k = hold[q.task].ticket
                       /\ hold' = [hold EXCEPT ![q.task] = NoHold]
  <1>0. DurableTypes /\ MemoryTypes
    BY DEF ControlInv
  <1>1. q \in StartRequest /\ q.task \in Task /\ q.gen \in Nat
    BY <1>0 DEF MemoryTypes, StartRequest
  <1>2. continued(q) \in 0 .. Top(q.task) /\ Top(q.task) \in Nat /\ runs[q.task] \in Seq(Run)
    BY <1>0, <1>1, Continued DEF Top, DurableTypes
  <1>3. ASSUME NEW k \in Ticket, launch(q, k), loop' # loop
        PROVE  \E m \in LoopState :
                 /\ loop' = [loop EXCEPT ![q.task] = m]
                 /\ m.ticket = k /\ m.gen = q.gen /\ Used(m) /\ EndMatches(m)
                 /\ m.run \in 1 .. Len(runs'[q.task])
    <2> DEFINE m == running(q, k)
               n == IF continued(q) = 0 THEN Top(q.task) + 1 ELSE continued(q)
    <2>1. loop' = [loop EXCEPT ![q.task] = m] /\ runs' = started_runs(q)
      BY <1>3 DEF launch
    <2>2. n \in Nat
      BY <1>2
    <2>3. m \in LoopState /\ m.ticket = k /\ m.gen = q.gen /\ m.run = n /\ Used(m) /\ EndMatches(m)
      BY <1>1, <2>2 DEF running, LoopState, LoopEnd, Used, EndMatches
    <2>4. n \in 1 .. Len(runs'[q.task])
      <3> DEFINE r == [state |-> "Running", gen |-> q.gen]
                 s == runs[q.task]
      <3>1. CASE continued(q) = 0
        <4>1. runs'[q.task] = Append(s, r)
          BY <1>0, <1>1, <2>1, <3>1 DEF started_runs, DurableTypes
        <4>2. Len(Append(s, r)) = Len(s) + 1
          BY <1>2
        <4> QED
          BY <1>2, <3>1, <4>1, <4>2 DEF Top
      <3>2. CASE continued(q) # 0
        <4>1. runs'[q.task] = [s EXCEPT ![continued(q)] = r]
          BY <1>0, <1>1, <2>1, <3>2 DEF started_runs, DurableTypes
        <4>2. Len([s EXCEPT ![continued(q)] = r]) = Len(s)
          BY <1>2
        <4> QED
          BY <1>2, <3>2, <4>1, <4>2 DEF Top
      <3> QED
        BY <3>1, <3>2
    <2> HIDE DEF m, n
    <2> QED
      BY <2>1, <2>3, <2>4
  <1>4. CanIssue => NextTicket \in Ticket
    BY DEF CanIssue, NextTicket
  <1>5. hold[q.task] # NoHold => hold[q.task].ticket \in Ticket
    BY <1>0, <1>1 DEF MemoryTypes, Hold
  <1>6. \/ loop' = loop
        \/ /\ q.seen \in Waits /\ hold[q.task] # NoHold /\ hold' = [hold EXCEPT ![q.task] = NoHold]
           /\ launch(q, hold[q.task].ticket)
        \/ CanIssue /\ launch(q, NextTicket)
    BY DEF start, reuses
  <1>7. CASE loop' = loop
    BY <1>7
  <1>8. CASE /\ hold[q.task] # NoHold /\ hold' = [hold EXCEPT ![q.task] = NoHold]
             /\ launch(q, hold[q.task].ticket) /\ loop' # loop
    BY <1>3, <1>5, <1>8
  <1>9. CASE CanIssue /\ launch(q, NextTicket) /\ loop' # loop
    BY <1>3, <1>4, <1>9
  <1> QED
    BY <1>6, <1>7, <1>8, <1>9

\* A loop that is well formed stays so while runs and generations only grow.
LEMMA LoopKept ==
    ASSUME DurableTypes, DurableTypes', lease <= lease', NEW l \in LoopState, NEW m \in LoopState,
           NEW t \in Task, LoopOK(l, Len(runs[t])), Len(runs[t]) <= Len(runs'[t]),
           m = l \/ Steady(l, m) \/ Gone(l, m) \/ Reticketed(l, m)
    PROVE  m.gen <= lease' /\ EndMatches(m)
           /\ (Used(m) => m.ticket \in Ticket /\ m.run \in 1 .. Len(runs'[t]))
  <1>0. lease \in Nat /\ lease' \in Nat /\ Len(runs[t]) \in Nat /\ Len(runs'[t]) \in Nat
        /\ l.gen \in Nat /\ l.gen <= lease /\ 0 <= lease' /\ l.run \in Nat
    BY DEF DurableTypes, LoopState, LoopOK
  <1>1. l.gen <= lease'
    BY <1>0
  <1>2. m.gen <= lease'
    BY <1>0, <1>1 DEF Steady, Gone, Reticketed
  <1>3. EndMatches(m)
    BY DEF Steady, Gone, Reticketed, LoopOK
  <1>4. ASSUME Used(m) PROVE m.ticket \in Ticket /\ m.run \in 1 .. Len(runs'[t])
    <2>1. Used(l) /\ m.run = l.run /\ (m.ticket = l.ticket \/ (CanIssue /\ m.ticket = NextTicket))
      BY <1>4 DEF Steady, Gone, Reticketed
    <2>2. CanIssue => NextTicket \in Ticket
      BY DEF CanIssue, NextTicket
    <2>3. l.ticket \in Ticket /\ l.run \in 1 .. Len(runs[t])
      BY <2>1 DEF LoopOK
    <2>4. m.run \in 1 .. Len(runs'[t])
      BY <1>0, <2>1, <2>3
    <2> QED
      BY <2>1, <2>2, <2>3, <2>4
  <1> QED
    BY <1>2, <1>3, <1>4

\* Every step keeps the loops well formed.
LoopsOK == loop \in [Task -> LoopState] /\ \A t \in Task : LoopOK(loop[t], Len(runs[t]))

\* Every loop has its type, and one in use its ticket and run, after every step.
LEMMA LoopsTyped ==
    ASSUME ControlInv, [Next]_vars
    PROVE  LoopsOK'
  <1>0. /\ DurableTypes /\ DurableTypes' /\ lease <= lease' /\ loop \in [Task -> LoopState]
        /\ \A t \in Task : Len(runs[t]) <= Len(runs'[t])
        /\ \A t \in Task : LoopOK(loop[t], Len(runs[t]))
    BY DurableTyped DEF ControlInv, MemoryTypes
  <1>1. ASSUME NEW t \in Task, NEW m \in LoopState, loop' = [loop EXCEPT ![t] = m],
               /\ m.gen <= lease' /\ EndMatches(m)
               /\ Used(m) => m.ticket \in Ticket /\ m.run \in 1 .. Len(runs'[t])
        PROVE  LoopsOK'
    <2>1. loop' \in [Task -> LoopState]
      BY <1>0, <1>1
    <2>2. ASSUME NEW u \in Task PROVE LoopOK(loop[u], Len(runs[u]))'
      <3>1. CASE u = t
        <4>1. loop'[u] = m
          BY <1>0, <1>1, <3>1
        <4> QED
          BY <1>1, <3>1, <4>1 DEF LoopOK, Used, EndMatches
      <3>2. CASE u # t
        <4>1. loop'[u] = loop[u] /\ loop[u] \in LoopState
          BY <1>0, <1>1, <3>2
        <4>2. /\ loop[u].gen <= lease' /\ EndMatches(loop[u])
              /\ Used(loop[u]) => loop[u].ticket \in Ticket /\ loop[u].run \in 1 .. Len(runs'[u])
          BY <1>0, <4>1, LoopKept
        <4> QED
          BY <4>1, <4>2 DEF LoopOK, Used, EndMatches
      <3> QED
        BY <3>1, <3>2
    <2> QED
      BY <2>1, <2>2 DEF LoopsOK
  <1>2. CASE loop' = loop
    <2>1. ASSUME NEW u \in Task PROVE LoopOK(loop[u], Len(runs[u]))'
      <3>1. loop[u] \in LoopState
        BY <1>0
      <3>2. /\ loop[u].gen <= lease' /\ EndMatches(loop[u])
            /\ Used(loop[u]) => loop[u].ticket \in Ticket /\ loop[u].run \in 1 .. Len(runs'[u])
        BY <1>0, <3>1, LoopKept
      <3> QED
        BY <1>2, <3>2 DEF LoopOK, Used, EndMatches
    <2> QED
      BY <1>0, <1>2, <2>1 DEF LoopsOK
  <1>3. ASSUME NEW t \in Task,
               run_loop(t) \/ PauseTask(t) \/ send_now(t) \/ stop_task(t) \/ CancelTask(t)
        PROVE  LoopsOK'
    <2>1. CASE loop' = loop
      BY <1>2, <2>1
    <2>2. ASSUME NEW m, loop' = [loop EXCEPT ![t] = m],
                 Steady(loop[t], m) \/ Gone(loop[t], m) \/ Reticketed(loop[t], m)
          PROVE  LoopsOK'
      <3>1. m \in LoopState /\ loop[t] \in LoopState
        BY <1>0, <2>2 DEF Steady, Gone, Reticketed
      <3>2. /\ m.gen <= lease' /\ EndMatches(m)
            /\ Used(m) => m.ticket \in Ticket /\ m.run \in 1 .. Len(runs'[t])
        BY <1>0, <2>2, <3>1, LoopKept
      <3> QED
        BY <1>1, <2>2, <3>1, <3>2
    <2> QED
      BY <1>3, <2>1, <2>2, LoopStep
  <1>4. ASSUME NEW q \in starting, start(q) PROVE LoopsOK'
    <2>1. q.task \in Task /\ q.gen \in Nat /\ q.gen <= lease /\ lease \in Nat /\ lease' \in Nat
      BY <1>0 DEF ControlInv, MemoryTypes, StartRequest, DurableTypes
    <2>2. q.gen <= lease'
      BY <1>0, <2>1
    <2>3. CASE loop' = loop
      BY <1>2, <2>3
    <2>4. ASSUME NEW k \in Ticket, NEW m \in LoopState, loop' = [loop EXCEPT ![q.task] = m],
                 m.ticket = k, m.gen = q.gen, Used(m), EndMatches(m),
                 m.run \in 1 .. Len(runs'[q.task])
          PROVE  LoopsOK'
      BY <1>1, <2>1, <2>2, <2>4
    <2> QED
      BY <1>4, <2>3, <2>4, StartLoop
  <1>5. CASE restart
    <2>1. NoLoop \in LoopState /\ NoLoop.gen = 0 /\ EndMatches(NoLoop) /\ ~Used(NoLoop)
      BY DEF NoLoop, LoopState, LoopEnd, EndMatches, Used
    <2>2. \A t \in Task : loop'[t] = NoLoop
      BY <1>5 DEF restart
    <2>3. loop' \in [Task -> LoopState] /\ 0 <= lease'
      BY <1>0, <1>5, <2>1 DEF restart, DurableTypes
    <2>4. ASSUME NEW u \in Task PROVE LoopOK(loop[u], Len(runs[u]))'
      BY <2>1, <2>2, <2>3 DEF LoopOK, Used, EndMatches
    <2> QED
      BY <2>3, <2>4 DEF LoopsOK
  <1> QED
    BY <1>2, <1>3, <1>4, <1>5, Zenon
    DEF Next, vars, durable, memory, AcquireSessionLease, GetCapacity, Tick, StartTask, ResumeTask,
        cancel_without_loop, hold_reaper, reaper_check, reaper_end_hold, reaper_release, reaper_wake,
        reaper_give_up


-----------------------------------------------------------------------------
(* What a step does to the tickets somebody has.                           *)

LoopKeeps(u) == Used(loop'[u]) => Used(loop[u]) /\ loop'[u].ticket = loop[u].ticket
HoldKeeps(u) == hold'[u] # NoHold => hold[u] # NoHold /\ hold'[u].ticket = hold[u].ticket
ReaperKeeps(r) == reaper'[r].pc = "release" =>
                    reaper[r].pc = "release" /\ reaper'[r].ticket = reaper[r].ticket

\* A hold is new, on the ticket of the loop that ends with it, only when a
\* parked run's end is persisted; otherwise it stays or is dropped.
LEMMA HoldStep ==
    ASSUME ControlInv, [Next]_vars
    PROVE  /\ hold' \in [Task -> Hold \cup {NoHold}]
           /\ \A u \in Task : HoldKeeps(u)
                 \/ (persist(u) /\ loop[u].end = "Parked" /\ hold'[u].ticket = loop[u].ticket)
  <1> USE RunAssumption
  <1>0. MemoryTypes /\ hold \in [Task -> Hold \cup {NoHold}]
    BY DEF ControlInv, MemoryTypes
  <1> DEFINE Goal == /\ hold' \in [Task -> Hold \cup {NoHold}]
                     /\ \A u \in Task : HoldKeeps(u)
                           \/ (persist(u) /\ loop[u].end = "Parked" /\ hold'[u].ticket = loop[u].ticket)
  <1> SUFFICES Goal
    OBVIOUS
  <1>1. CASE hold' = hold
    BY <1>0, <1>1 DEF HoldKeeps
  <1>2. ASSUME NEW t \in Task, hold' = [hold EXCEPT ![t] = NoHold] PROVE Goal
    BY <1>0, <1>2 DEF HoldKeeps
  <1>3. ASSUME NEW t \in Task, persist(t) PROVE Goal
    <2>1. CASE loop[t].end = "Parked"
      <3> DEFINE h == [ticket |-> loop[t].ticket, gen |-> loop[t].gen, age |-> 0]
      <3>1. hold' = [hold EXCEPT ![t] = h]
        BY <1>3, <2>1 DEF persist
      <3>2. loop[t].ticket \in Ticket /\ loop[t].gen \in Nat
        BY <1>3 DEF ControlInv, MemoryTypes, LoopOK, LoopState, Used, persist
      <3>3. h \in Hold /\ h.ticket = loop[t].ticket
        BY <3>2 DEF Hold
      <3> HIDE DEF h
      <3>4. \A u \in Task : (u = t /\ hold'[u] = h) \/ hold'[u] = hold[u]
        BY <1>0, <3>1
      <3>5. hold' \in [Task -> Hold \cup {NoHold}]
        BY <1>0, <3>1, <3>3
      <3> QED
        BY <1>3, <2>1, <3>3, <3>4, <3>5 DEF HoldKeeps
    <2>2. CASE loop[t].end # "Parked"
      BY <1>1, <1>3, <2>2 DEF persist
    <2> QED
      BY <2>1, <2>2
  <1>4. CASE Tick
    <2>1. ASSUME NEW u \in Task
          PROVE  hold'[u] \in Hold \cup {NoHold} /\ HoldKeeps(u)
      <3>1. CASE hold[u] # NoHold /\ hold[u].age < IdleBound
        <4>1. hold'[u] = [hold[u] EXCEPT !.age = hold[u].age + 1]
          BY <1>4, <3>1 DEF Tick
        <4>2. hold[u] \in Hold
          BY <1>0, <3>1
        <4>3. hold'[u] \in Hold /\ hold'[u].ticket = hold[u].ticket
          BY <3>1, <4>1, <4>2 DEF Hold
        <4> QED
          BY <3>1, <4>3 DEF HoldKeeps
      <3>2. CASE ~(hold[u] # NoHold /\ hold[u].age < IdleBound)
        <4>1. hold'[u] = hold[u]
          BY <1>4, <3>2 DEF Tick
        <4> QED
          BY <1>0, <4>1 DEF HoldKeeps
      <3> QED
        BY <3>1, <3>2
    <2>2. hold' \in [Task -> Hold \cup {NoHold}]
      BY <1>4, <2>1 DEF Tick
    <2> QED
      BY <2>1, <2>2
  <1>5. CASE restart
    BY <1>5 DEF restart, HoldKeeps
  <1>6. ASSUME NEW q \in starting, start(q) PROVE Goal
    <2>1. q.task \in Task
      BY <1>0 DEF MemoryTypes, StartRequest
    <2>2. hold' = hold \/ hold' = [hold EXCEPT ![q.task] = NoHold]
      BY <1>6 DEF start
    <2> HIDE DEF Goal
    <2> QED
      BY <1>1, <1>2, <2>1, <2>2
  <1>7. ASSUME NEW t \in Task, cancel_without_loop(t) PROVE Goal
    <2>1. hold' = hold \/ hold' = [hold EXCEPT ![t] = NoHold]
      BY <1>7 DEF cancel_without_loop
    <2> HIDE DEF Goal
    <2> QED
      BY <1>1, <1>2, <2>1
  <1>8. ASSUME NEW r \in Reaper, reaper_end_hold(r) \/ reaper_give_up(r) PROVE Goal
    <2>1. reaper[r].task \in Task
      <3>1. reaper[r].pc # "off" /\ reaper[r] \in Watch \cup {NoReaper}
        BY <1>0, <1>8 DEF MemoryTypes, reaper_end_hold, reaper_give_up
      <3> QED
        BY <3>1 DEF Watch, NoReaper
    <2>2. hold' = hold \/ hold' = [hold EXCEPT ![reaper[r].task] = NoHold]
      BY <1>8 DEF reaper_end_hold, reaper_give_up, end_hold
    <2> HIDE DEF Goal
    <2> QED
      BY <1>1, <1>2, <2>1, <2>2
  <1> HIDE DEF Goal
  <1> QED
    BY <1>1, <1>3, <1>4, <1>5, <1>6, <1>7, <1>8, Zenon
    DEF Next, vars, durable, memory, AcquireSessionLease, GetCapacity, StartTask, ResumeTask, PauseTask,
        CancelTask, send_now, stop_task, run_loop, boundary, turn, await_approval, approval_resolved,
        cancelled_wait, check_lease, forget, hold_reaper, reaper_check, reaper_release, reaper_wake

\* A reaper is on its way to release a ticket only once it has ended the hold.
LEMMA ReaperStep ==
    ASSUME ControlInv, [Next]_vars
    PROVE  /\ reaper' \in [Reaper -> Watch \cup {NoReaper}]
           /\ \A r \in Reaper : ReaperKeeps(r)
                 \/ (reaper_end_hold(r) /\ holds(r) /\ reaper'[r].ticket = reaper[r].ticket)
  <1> USE RunAssumption
  <1>0. MemoryTypes /\ reaper \in [Reaper -> Watch \cup {NoReaper}]
    BY DEF ControlInv, MemoryTypes
  <1> DEFINE Goal == /\ reaper' \in [Reaper -> Watch \cup {NoReaper}]
                     /\ \A r \in Reaper : ReaperKeeps(r)
                           \/ (reaper_end_hold(r) /\ holds(r) /\ reaper'[r].ticket = reaper[r].ticket)
  <1> SUFFICES Goal
    OBVIOUS
  <1>1. CASE reaper' = reaper
    BY <1>0, <1>1 DEF ReaperKeeps
  <1>2. ASSUME NEW r, NEW w \in Watch \cup {NoReaper}, w.pc # "release",
               reaper' = [reaper EXCEPT ![r] = w]
        PROVE  Goal
    <2>1. reaper' \in [Reaper -> Watch \cup {NoReaper}]
      BY <1>0, <1>2
    <2>2. \A s \in Reaper : reaper'[s] = w \/ reaper'[s] = reaper[s]
      BY <1>0, <1>2
    <2>3. \A s \in Reaper : ReaperKeeps(s)
      BY <1>2, <2>2 DEF ReaperKeeps
    <2> QED
      BY <2>1, <2>3
  <1>3. NoReaper \in Watch \cup {NoReaper} /\ NoReaper.pc # "release"
    BY DEF NoReaper
  <1>4. ASSUME NEW t \in Task, persist(t) PROVE Goal
    <2>1. CASE loop[t].end = "Parked"
      <3> DEFINE w == [pc |-> "check", task |-> t, ticket |-> loop[t].ticket,
                       gen |-> loop[t].gen, sleep |-> 0]
      <3>1. reaper' = [reaper EXCEPT ![free_reaper] = w]
        BY <1>4, <2>1 DEF persist
      <3>2. loop[t].ticket \in Ticket /\ loop[t].gen \in Nat
        BY <1>4 DEF ControlInv, MemoryTypes, LoopOK, LoopState, Used, persist
      <3>3. w \in Watch /\ w.pc # "release"
        BY <3>2 DEF Watch
      <3> HIDE DEF w, Goal
      <3> QED
        BY <1>2, <3>1, <3>3
    <2>2. CASE loop[t].end # "Parked"
      BY <1>1, <1>4, <2>2 DEF persist
    <2> QED
      BY <2>1, <2>2
  <1>5. ASSUME NEW r \in Reaper, hold_reaper(r) PROVE Goal
    <2> DEFINE w == reaper[r]
               h == hold[w.task]
    <2>0. w \in Watch
      <3>1. w.pc # "off" /\ w \in Watch \cup {NoReaper}
        BY <1>0, <1>5 DEF hold_reaper, reaper_check, reaper_end_hold, reaper_release, reaper_wake,
                          reaper_give_up
      <3> QED
        BY <3>1 DEF NoReaper
    <2>1. CASE reaper_check(r)
      <3>1. CASE ~holds(r)
        <4>1. reaper' = [reaper EXCEPT ![r] = NoReaper]
          BY <2>1, <3>1 DEF reaper_check
        <4> HIDE DEF Goal
        <4> QED
          BY <1>2, <1>3, <4>1
      <3>2. CASE holds(r) /\ h.age >= IdleBound
        <4>1. reaper' = [reaper EXCEPT ![r] = [w EXCEPT !.pc = "bound"]]
          BY <2>1, <3>2 DEF reaper_check
        <4>2. [w EXCEPT !.pc = "bound"] \in Watch /\ [w EXCEPT !.pc = "bound"].pc # "release"
          BY <2>0 DEF Watch
        <4> HIDE DEF w, Goal
        <4> QED
          BY <1>2, <4>1, <4>2
      <3>3. CASE holds(r) /\ ~(h.age >= IdleBound)
        <4> DEFINE n == IF IdleBound - h.age < RenewEvery THEN IdleBound - h.age ELSE RenewEvery
                   v == [w EXCEPT !.pc = "asleep", !.gen = h.gen, !.sleep = n]
        <4>1. reaper' = [reaper EXCEPT ![r] = v]
          BY <2>1, <3>3 DEF reaper_check
        <4>2. h \in Hold
          <5>1. w.ticket \in Ticket /\ w.task \in Task /\ h.ticket = w.ticket
            BY <2>0, <3>3 DEF Watch, holds
          <5>2. h \in Hold \cup {NoHold}
            BY <1>0, <5>1 DEF MemoryTypes
          <5> QED
            BY <5>1, <5>2 DEF NoHold
        <4>3. n \in Nat /\ h.gen \in Nat
          BY <4>2 DEF Hold
        <4> HIDE DEF n, h
        <4>4. v \in Watch /\ v.pc # "release"
          BY <2>0, <4>3 DEF Watch
        <4> HIDE DEF v, Goal
        <4> QED
          BY <1>2, <4>1, <4>4
      <3> QED
        BY <3>1, <3>2, <3>3
    <2>2. CASE reaper_end_hold(r)
      <3>1. CASE holds(r)
        <4> DEFINE v == [w EXCEPT !.pc = "release"]
        <4>1. reaper' = [reaper EXCEPT ![r] = v]
          BY <2>2, <3>1 DEF reaper_end_hold
        <4>2. v \in Watch /\ v.ticket = w.ticket
          BY <2>0 DEF Watch
        <4> HIDE DEF v
        <4>3. reaper' \in [Reaper -> Watch \cup {NoReaper}]
          BY <1>0, <4>1, <4>2
        <4>4. reaper'[r].ticket = reaper[r].ticket
          BY <1>0, <4>1, <4>2
        <4>5. \A s \in Reaper : s # r => ReaperKeeps(s)
          BY <1>0, <4>1 DEF ReaperKeeps
        <4> QED
          BY <2>2, <3>1, <4>3, <4>4, <4>5
      <3>2. CASE ~holds(r)
        <4>1. reaper' = [reaper EXCEPT ![r] = NoReaper]
          BY <2>2, <3>2 DEF reaper_end_hold
        <4> HIDE DEF Goal
        <4> QED
          BY <1>2, <1>3, <4>1
      <3> QED
        BY <3>1, <3>2
    <2>3. CASE reaper_release(r) \/ reaper_give_up(r)
      <3>1. reaper' = [reaper EXCEPT ![r] = NoReaper]
        BY <2>3 DEF reaper_release, reaper_give_up
      <3> HIDE DEF Goal
      <3> QED
        BY <1>2, <1>3, <3>1
    <2>4. CASE reaper_wake(r)
      <3>1. \/ reaper' = [reaper EXCEPT ![r] = [w EXCEPT !.pc = "check"]]
            \/ reaper' = [reaper EXCEPT ![r] = [w EXCEPT !.pc = "lapsed"]]
        BY <2>4 DEF reaper_wake
      <3>2. /\ [w EXCEPT !.pc = "check"] \in Watch /\ [w EXCEPT !.pc = "check"].pc # "release"
            /\ [w EXCEPT !.pc = "lapsed"] \in Watch /\ [w EXCEPT !.pc = "lapsed"].pc # "release"
        BY <2>0 DEF Watch
      <3> HIDE DEF w, Goal
      <3> QED
        BY <1>2, <3>1, <3>2
    <2> QED
      BY <1>5, <2>1, <2>2, <2>3, <2>4 DEF hold_reaper
  <1>6. CASE Tick
    <2>1. ASSUME NEW r \in Reaper
          PROVE  reaper'[r] \in Watch \cup {NoReaper} /\ ReaperKeeps(r)
      <3>1. CASE reaper[r].pc = "asleep"
        <4>1. reaper'[r] = [reaper[r] EXCEPT !.sleep = less(reaper[r].sleep)]
          BY <1>6, <3>1 DEF Tick
        <4>2. reaper[r] \in Watch
          BY <1>0, <3>1 DEF NoReaper
        <4>3. reaper'[r] \in Watch /\ reaper'[r].pc = "asleep"
          BY <3>1, <4>1, <4>2 DEF Watch, less
        <4> QED
          BY <4>3 DEF ReaperKeeps
      <3>2. CASE reaper[r].pc # "asleep"
        <4>1. reaper'[r] = reaper[r]
          BY <1>6, <3>2 DEF Tick
        <4> QED
          BY <1>0, <4>1 DEF ReaperKeeps
      <3> QED
        BY <3>1, <3>2
    <2>2. reaper' \in [Reaper -> Watch \cup {NoReaper}]
      BY <1>6, <2>1 DEF Tick
    <2> QED
      BY <2>1, <2>2
  <1>7. CASE restart
    BY <1>7 DEF restart, ReaperKeeps, NoReaper
  <1> HIDE DEF Goal
  <1> QED
    BY <1>1, <1>4, <1>5, <1>6, <1>7, Zenon
    DEF Next, vars, durable, memory, AcquireSessionLease, GetCapacity, StartTask, ResumeTask, PauseTask,
        CancelTask, send_now, stop_task, run_loop, boundary, turn, await_approval, approval_resolved,
        cancelled_wait, check_lease, forget, start, cancel_without_loop

\* The rest of the memory, and the generations the starts in flight read.
LEMMA RequestsTyped ==
    ASSUME ControlInv, [Next]_vars
    PROVE  /\ starting' \subseteq StartRequest /\ cancelling' \subseteq Task /\ crashes' \in Nat
           /\ \A q \in starting' : q.gen <= lease'
  <1>0. /\ starting \subseteq StartRequest /\ cancelling \subseteq Task /\ crashes \in Nat
        /\ \A q \in starting : q.gen \in Nat /\ q.gen <= lease
        /\ lease \in Nat /\ lease' \in Nat /\ lease <= lease'
    BY DurableTyped DEF ControlInv, MemoryTypes, DurableTypes, StartRequest
  <1>1. \A q \in starting : q.gen <= lease'
    BY <1>0
  <1>2. CASE UNCHANGED <<starting, cancelling, crashes>>
    BY <1>0, <1>1, <1>2
  <1>3. ASSUME NEW t \in Task, StartTask(t)
        PROVE  /\ starting' \subseteq StartRequest /\ cancelling' \subseteq Task /\ crashes' \in Nat
               /\ \A q \in starting' : q.gen <= lease'
    <2> DEFINE s == [task |-> t, seen |-> task[t], gen |-> lease]
    <2>1. s \in StartRequest /\ s.gen = lease
      BY <1>0 DEF ControlInv, DurableTypes, StartRequest
    <2>2. starting' = starting \cup {s} /\ cancelling' = cancelling /\ crashes' = crashes
      BY <1>3 DEF StartTask
    <2> HIDE DEF s
    <2> QED
      BY <1>0, <1>1, <2>1, <2>2
  <1>4. ASSUME NEW t \in Task, CancelTask(t) \/ cancel_without_loop(t)
        PROVE  /\ starting' = starting /\ cancelling' \subseteq Task /\ crashes' = crashes
    BY <1>0, <1>4 DEF CancelTask, cancel_without_loop
  <1>5. ASSUME NEW q \in starting, start(q)
        PROVE  starting' \subseteq starting /\ cancelling' = cancelling /\ crashes' = crashes
    BY <1>5 DEF start
  <1>6. CASE restart
    BY <1>0, <1>6 DEF restart
  <1> DEFINE Goal == /\ starting' \subseteq StartRequest /\ cancelling' \subseteq Task /\ crashes' \in Nat
                     /\ \A q \in starting' : q.gen <= lease'
  <1>7. ASSUME NEW t \in Task, CancelTask(t) \/ cancel_without_loop(t) PROVE Goal
    BY <1>0, <1>1, <1>4, <1>7
  <1>8. ASSUME NEW q \in starting, start(q) PROVE Goal
    BY <1>0, <1>1, <1>5, <1>8
  <1> QED
    BY <1>2, <1>3, <1>6, <1>7, <1>8, Zenon
    DEF Next, vars, durable, memory, AcquireSessionLease, GetCapacity, Tick, ResumeTask, PauseTask,
        send_now, stop_task, run_loop, boundary, turn, await_approval, approval_resolved,
        cancelled_wait, check_lease, persist, forget, hold_reaper, reaper_check, reaper_end_hold,
        reaper_release, reaper_wake, reaper_give_up

\* A ticket just issued is nobody's.
LEMMA IssuedIsNew ==
    ASSUME CanIssue, ControlInv
    PROVE  /\ \A t \in Task : NextTicket # loop[t].ticket /\ NextTicket # hold[t].ticket
           /\ \A r \in Reaper : reaper[r].pc = "release" => NextTicket # reaper[r].ticket
           /\ NextTicket \in Ticket /\ pool[NextTicket] = NoTicket
  <1>1. NextTicket \in Ticket /\ NextTicket \notin Referred
    BY DEF CanIssue, NextTicket
  <1> QED
    BY <1>1 DEF Referred, live

\* Runtime::start and the top of a turn issue or take over the one ticket of one
\* loop, and leave every other ticket, hold and releasing reaper.
LEMMA TicketsMove ==
    ASSUME ControlInv, [Next]_vars
    PROVE  \/ \A u \in Task : LoopKeeps(u)
           \/ \E t \in Task :
                 /\ \A u \in Task : u # t => LoopKeeps(u)
                 /\ \A u \in Task : HoldKeeps(u)
                 /\ \A r \in Reaper : ReaperKeeps(r)
                 /\ \/ CanIssue /\ loop'[t].ticket = NextTicket
                    \/ hold[t] # NoHold /\ hold'[t] = NoHold /\ loop'[t].ticket = hold[t].ticket
  <1>0. /\ loop \in [Task -> LoopState] /\ hold \in [Task -> Hold \cup {NoHold}]
        /\ reaper \in [Reaper -> Watch \cup {NoReaper}]
    BY DEF ControlInv, MemoryTypes
  <1>1. CASE loop' = loop
    BY <1>1 DEF LoopKeeps
  <1>2. CASE restart
    <2>1. \A u \in Task : loop'[u] = NoLoop
      BY <1>2 DEF restart
    <2> QED
      BY <2>1 DEF LoopKeeps, Used, NoLoop
  <1>3. ASSUME NEW t \in Task,
               run_loop(t) \/ PauseTask(t) \/ send_now(t) \/ stop_task(t) \/ CancelTask(t)
        PROVE  \/ \A u \in Task : LoopKeeps(u)
               \/ /\ \A u \in Task : u # t => LoopKeeps(u)
                  /\ \A u \in Task : HoldKeeps(u)
                  /\ \A r \in Reaper : ReaperKeeps(r)
                  /\ CanIssue /\ loop'[t].ticket = NextTicket
    <2>1. CASE loop' = loop
      BY <2>1 DEF LoopKeeps
    <2>2. ASSUME NEW m, loop' = [loop EXCEPT ![t] = m], Steady(loop[t], m) \/ Gone(loop[t], m)
          PROVE  \A u \in Task : LoopKeeps(u)
      <3>1. \A u \in Task : (u = t /\ loop'[u] = m) \/ loop'[u] = loop[u]
        BY <1>0, <2>2
      <3>2. Used(m) => Used(loop[t]) /\ m.ticket = loop[t].ticket
        BY <2>2 DEF Steady, Gone
      <3> QED
        BY <3>1, <3>2 DEF LoopKeeps
    <2>3. ASSUME NEW m, loop' = [loop EXCEPT ![t] = m], boundary(t), Reticketed(loop[t], m)
          PROVE  /\ \A u \in Task : u # t => LoopKeeps(u)
                 /\ \A u \in Task : HoldKeeps(u)
                 /\ \A r \in Reaper : ReaperKeeps(r)
                 /\ CanIssue /\ loop'[t].ticket = NextTicket
      <3>1. loop'[t] = m /\ \A u \in Task : u # t => loop'[u] = loop[u]
        BY <1>0, <2>3
      <3>2. hold' = hold /\ reaper' = reaper
        BY <2>3 DEF boundary
      <3> QED
        BY <2>3, <3>1, <3>2 DEF LoopKeeps, HoldKeeps, ReaperKeeps, Reticketed
    <2> QED
      BY <1>3, <2>1, <2>2, <2>3, LoopStep
  <1>4. ASSUME NEW q \in starting, start(q)
        PROVE  \/ \A u \in Task : LoopKeeps(u)
               \/ \E t \in Task :
                     /\ \A u \in Task : u # t => LoopKeeps(u)
                     /\ \A u \in Task : HoldKeeps(u)
                     /\ \A r \in Reaper : ReaperKeeps(r)
                     /\ \/ CanIssue /\ loop'[t].ticket = NextTicket
                        \/ hold[t] # NoHold /\ hold'[t] = NoHold /\ loop'[t].ticket = hold[t].ticket
    <2>1. q.task \in Task
      BY DEF ControlInv, MemoryTypes, StartRequest
    <2>2. CASE loop' = loop
      BY <2>2 DEF LoopKeeps
    <2>3. ASSUME NEW k \in Ticket, NEW m \in LoopState, loop' = [loop EXCEPT ![q.task] = m],
                 m.ticket = k,
                 \/ CanIssue /\ k = NextTicket
                 \/ /\ hold[q.task] # NoHold /\ k = hold[q.task].ticket
                    /\ hold' = [hold EXCEPT ![q.task] = NoHold]
          PROVE  /\ \A u \in Task : u # q.task => LoopKeeps(u)
                 /\ \A u \in Task : HoldKeeps(u)
                 /\ \A r \in Reaper : ReaperKeeps(r)
                 /\ \/ CanIssue /\ loop'[q.task].ticket = NextTicket
                    \/ /\ hold[q.task] # NoHold /\ hold'[q.task] = NoHold
                       /\ loop'[q.task].ticket = hold[q.task].ticket
      <3>1. loop'[q.task] = m /\ \A u \in Task : u # q.task => loop'[u] = loop[u]
        BY <1>0, <2>1, <2>3
      <3>2. reaper' = reaper /\ (hold' = hold \/ hold' = [hold EXCEPT ![q.task] = NoHold])
        BY <1>4 DEF start
      <3>3. \A u \in Task : hold'[u] = hold[u] \/ hold'[u] = NoHold
        BY <1>0, <3>2
      <3>4. hold' = [hold EXCEPT ![q.task] = NoHold] => hold'[q.task] = NoHold
        BY <1>0, <2>1
      <3> QED
        BY <2>3, <3>1, <3>2, <3>3, <3>4 DEF LoopKeeps, HoldKeeps, ReaperKeeps
    <2> QED
      BY <1>4, <2>1, <2>2, <2>3, StartLoop
  <1>5. ASSUME NEW t \in Task,
               run_loop(t) \/ PauseTask(t) \/ send_now(t) \/ stop_task(t) \/ CancelTask(t)
        PROVE  \/ \A u \in Task : LoopKeeps(u)
               \/ \E s \in Task :
                     /\ \A u \in Task : u # s => LoopKeeps(u)
                     /\ \A u \in Task : HoldKeeps(u)
                     /\ \A r \in Reaper : ReaperKeeps(r)
                     /\ \/ CanIssue /\ loop'[s].ticket = NextTicket
                        \/ hold[s] # NoHold /\ hold'[s] = NoHold /\ loop'[s].ticket = hold[s].ticket
    BY <1>3, <1>5, Zenon
  <1> QED
    BY <1>1, <1>2, <1>4, <1>5, Zenon
    DEF Next, vars, durable, memory, AcquireSessionLease, GetCapacity, Tick, StartTask, ResumeTask,
        cancel_without_loop, hold_reaper, reaper_check, reaper_end_hold, reaper_release, reaper_wake,
        reaper_give_up

\* Nobody takes a ticket that another one has.
LEMMA StaysExclusive ==
    ASSUME ControlInv, [Next]_vars
    PROVE  Exclusive(loop, hold, reaper)'
  <1>0. Exclusive(loop, hold, reaper)
    BY DEF ControlInv
  <1>1. CASE /\ \A u \in Task : LoopKeeps(u)
             /\ \A u \in Task : HoldKeeps(u)
             /\ \A r \in Reaper : ReaperKeeps(r)
    BY <1>0, <1>1 DEF Exclusive, LoopKeeps, HoldKeeps, ReaperKeeps
  <1>2. ASSUME NEW t \in Task,
               /\ \A u \in Task : u # t => LoopKeeps(u)
               /\ \A u \in Task : HoldKeeps(u)
               /\ \A r \in Reaper : ReaperKeeps(r),
               CanIssue, loop'[t].ticket = NextTicket
        PROVE  Exclusive(loop, hold, reaper)'
    <2>1. /\ \A u \in Task : NextTicket # loop[u].ticket /\ NextTicket # hold[u].ticket
          /\ \A r \in Reaper : reaper[r].pc = "release" => NextTicket # reaper[r].ticket
      BY <1>2, IssuedIsNew
    <2>2. \A u \in Task : u # t /\ Used(loop'[u]) => loop'[u].ticket # NextTicket
      BY <1>2, <2>1 DEF LoopKeeps
    <2>3. \A u \in Task : hold'[u] # NoHold => hold'[u].ticket # NextTicket
      BY <1>2, <2>1 DEF HoldKeeps
    <2>4. \A r \in Reaper : reaper'[r].pc = "release" => reaper'[r].ticket # NextTicket
      BY <1>2, <2>1 DEF ReaperKeeps
    <2> QED
      BY <1>0, <1>2, <2>2, <2>3, <2>4 DEF Exclusive, LoopKeeps, HoldKeeps, ReaperKeeps
  <1>3. ASSUME NEW t \in Task,
               /\ \A u \in Task : u # t => LoopKeeps(u)
               /\ \A u \in Task : HoldKeeps(u)
               /\ \A r \in Reaper : ReaperKeeps(r),
               hold[t] # NoHold, hold'[t] = NoHold, loop'[t].ticket = hold[t].ticket
        PROVE  Exclusive(loop, hold, reaper)'
    <2>2. \A u \in Task : u # t /\ Used(loop'[u]) => loop'[u].ticket # hold[t].ticket
      BY <1>0, <1>3 DEF LoopKeeps, Exclusive
    <2>3. \A u \in Task : hold'[u] # NoHold => hold'[u].ticket # hold[t].ticket
      BY <1>0, <1>3 DEF HoldKeeps, Exclusive
    <2>4. \A r \in Reaper : reaper'[r].pc = "release" => reaper'[r].ticket # hold[t].ticket
      BY <1>0, <1>3 DEF ReaperKeeps, Exclusive
    <2> QED
      BY <1>0, <1>3, <2>2, <2>3, <2>4 DEF Exclusive, LoopKeeps, HoldKeeps, ReaperKeeps
  <1>4. ASSUME NEW t \in Task, persist(t), loop[t].end = "Parked", hold'[t].ticket = loop[t].ticket
        PROVE  Exclusive(loop, hold, reaper)'
    <2>1. /\ loop \in [Task -> LoopState] /\ hold \in [Task -> Hold \cup {NoHold}]
          /\ reaper \in [Reaper -> Watch \cup {NoReaper}]
      BY DEF ControlInv, MemoryTypes
    <2>2. Used(loop[t]) /\ loop' = [loop EXCEPT ![t] = over(loop[t])]
      BY <1>4 DEF persist, Used
    <2>3. ~Used(loop'[t]) /\ \A u \in Task : u # t => loop'[u] = loop[u]
      <3>1. loop'[t] = over(loop[t]) /\ \A u \in Task : u # t => loop'[u] = loop[u]
        BY <2>1, <2>2
      <3> QED
        BY <3>1 DEF Used, over, NoLoop
    <2>4. \A u \in Task : u # t => hold'[u] = hold[u]
      BY <1>4, <2>1 DEF persist
    <2>5. \A r \in Reaper : ReaperKeeps(r)
      <3>1. \A r \in Reaper : ~reaper_end_hold(r)
        BY <2>2, <2>3 DEF reaper_end_hold
      <3> QED
        BY <3>1, ReaperStep
    <2> QED
      BY <1>0, <1>4, <2>2, <2>3, <2>4, <2>5 DEF Exclusive, ReaperKeeps
  <1>5. ASSUME NEW r \in Reaper, reaper_end_hold(r), holds(r), reaper'[r].ticket = reaper[r].ticket
        PROVE  Exclusive(loop, hold, reaper)'
    <2> DEFINE t == reaper[r].task
    <2>1. /\ hold \in [Task -> Hold \cup {NoHold}] /\ reaper \in [Reaper -> Watch \cup {NoReaper}]
      BY DEF ControlInv, MemoryTypes
    <2>2. reaper[r].ticket \in Ticket /\ t \in Task
      <3>1. reaper[r].pc # "off" /\ reaper[r] \in Watch \cup {NoReaper}
        BY <1>5, <2>1 DEF reaper_end_hold
      <3> QED
        BY <3>1 DEF Watch, NoReaper
    <2>3. hold[t] # NoHold /\ hold[t].ticket = reaper[r].ticket
      BY <1>5, <2>2, RunAssumption DEF holds, NoHold
    <2>4. loop' = loop /\ hold'[t] = NoHold /\ \A u \in Task : u # t => hold'[u] = hold[u]
      BY <1>5, <2>1, <2>2 DEF reaper_end_hold, end_hold
    <2>5. \A s \in Reaper : s # r => reaper'[s] = reaper[s]
      BY <1>5, <2>1 DEF reaper_end_hold
    <2> HIDE DEF t
    <2> QED
      BY <1>0, <1>5, <2>2, <2>3, <2>4, <2>5 DEF Exclusive
  <1>6. \/ \A u \in Task : HoldKeeps(u)
        \/ \E t \in Task : persist(t) /\ loop[t].end = "Parked" /\ hold'[t].ticket = loop[t].ticket
    BY HoldStep
  <1>7. \/ \A r \in Reaper : ReaperKeeps(r)
        \/ \E r \in Reaper : reaper_end_hold(r) /\ holds(r) /\ reaper'[r].ticket = reaper[r].ticket
    BY ReaperStep
  <1> HIDE DEF Exclusive
  <1> QED
    BY <1>1, <1>2, <1>3, <1>4, <1>5, <1>6, <1>7, TicketsMove

-----------------------------------------------------------------------------
(* The invariant of the controls, and what it says.                        *)

\* Every step preserves the invariant.
LEMMA ControlNext ==
    ASSUME ControlInv, [Next]_vars
    PROVE  ControlInv'
  <1>1. DurableTypes' /\ PoolType(pool') /\ LoopsOK'
    BY DurableTyped, PoolTyped, LoopsTyped
  <1>2. hold' \in [Task -> Hold \cup {NoHold}] /\ reaper' \in [Reaper -> Watch \cup {NoReaper}]
    BY HoldStep, ReaperStep
  <1>3. /\ starting' \subseteq StartRequest /\ cancelling' \subseteq Task /\ crashes' \in Nat
        /\ \A q \in starting' : q.gen <= lease'
    BY RequestsTyped
  <1>4. MemoryTypes'
    BY <1>1, <1>2, <1>3 DEF MemoryTypes, LoopsOK
  <1> QED
    BY <1>1, <1>3, <1>4, StaysExclusive DEF ControlInv, LoopsOK, PoolType

\* Nothing runs and nobody has a ticket.
LEMMA ControlInit ==
    ASSUME Init
    PROVE  ControlInv
  <1>1. DurableTypes
    BY DEF Init, DurableTypes, TaskState
  <1>2. NoLoop \in LoopState /\ ~Used(NoLoop) /\ EndMatches(NoLoop) /\ NoLoop.gen = 0
    BY DEF NoLoop, LoopState, LoopEnd, Used, EndMatches
  <1>3. MemoryTypes
    BY <1>2 DEF Init, MemoryTypes
  <1>4. PoolType(pool)
    BY DEF Init, PoolType
  <1>5. \A t \in Task : loop[t] = NoLoop /\ hold[t] = NoHold
    BY DEF Init
  <1>6. \A t \in Task : LoopOK(loop[t], Len(runs[t]))
    BY <1>2, <1>5 DEF Init, LoopOK
  <1>7. \A r \in Reaper : reaper[r].pc # "release"
    BY DEF Init, NoReaper
  <1>8. Exclusive(loop, hold, reaper)
    BY <1>2, <1>5, <1>7 DEF Exclusive
  <1> QED
    BY <1>1, <1>3, <1>4, <1>6, <1>8 DEF ControlInv, Init

\* server.rs and runtime.rs: in every reachable state the controls have their
\* types and no ticket is in two hands.
THEOREM ControlInvariant == Spec => []ControlInv
  <1>1. Init => ControlInv
    BY ControlInit
  <1>2. ControlInv /\ [Next]_vars => ControlInv'
    BY ControlNext
  <1> QED
    BY <1>1, <1>2, PTL DEF Spec

\* Every variable of runs, loops, tickets, holds and reapers has its type, and a
\* loop in use has a ticket and one of its task's runs, in every state a Core
\* reaches through starts, pauses, cancels, lapses, takeovers and restarts.
THEOREM RunTyped == Spec => []RunTypeOK
  <1>1. ASSUME ControlInv PROVE RunTypeOK
    <2>1. /\ task \in [Task -> TaskState] /\ lease \in Nat /\ crashes \in Nat
          /\ starting \subseteq StartRequest /\ cancelling \subseteq Task
      BY <1>1 DEF ControlInv, DurableTypes, MemoryTypes
    <2>2. \A t \in Task : runs[t] \in Seq([state : RunState, gen : Nat])
      BY <1>1 DEF ControlInv, DurableTypes, Run
    <2>3. ASSUME NEW t \in Task, Live(t)
          PROVE  /\ loop[t] \in LoopState /\ loop[t].gen <= lease
                 /\ loop[t].pc # "ended" => loop[t].ticket \in Ticket /\ loop[t].run \in 1 .. Top(t)
                 /\ loop[t].pc \in {"ending", "checked"} <=> loop[t].end \in LoopEnd
      <3>1. loop[t] \in LoopState /\ LoopOK(loop[t], Len(runs[t]))
        BY <1>1 DEF ControlInv, MemoryTypes
      <3> QED
        BY <2>3, <3>1 DEF LoopOK, EndMatches, Used, Live, Top
    <2>4. pool \in [Ticket -> [left : 0 .. Ttl, gen : Nat] \cup {NoTicket}]
      BY <1>1 DEF ControlInv, PoolType, Slot
    <2>5. ASSUME NEW t \in Task, hold[t] # NoHold
          PROVE  hold[t].ticket \in Ticket /\ hold[t].age <= IdleBound
      <3>1. hold[t] \in Hold
        BY <1>1, <2>5 DEF ControlInv, MemoryTypes
      <3> QED
        BY <3>1, RunAssumption DEF Hold
    <2>6. ASSUME NEW r \in Reaper, reaper[r].pc # "off"
          PROVE  reaper[r].ticket \in Ticket /\ reaper[r].task \in Task
      <3>1. reaper[r] \in Watch
        BY <1>1, <2>6 DEF ControlInv, MemoryTypes, NoReaper
      <3> QED
        BY <3>1 DEF Watch
    <2> QED
      BY <2>1, <2>2, <2>3, <2>4, <2>5, <2>6 DEF RunTypeOK
  <1> QED
    BY <1>1, ControlInvariant, PTL

\* capacity.rs end_hold "exactly one of resume, cancel and the reaper gives the
\* ticket back": no start, cancel, reaper or other loop gives a loop's ticket back
\* while it has time left, however their steps are interleaved.
THEOREM NeverRobbed == Spec => RunnerNeverRobbed
  <1> USE RunAssumption
  <1>1. ASSUME ControlInv, [Next]_vars, NEW t \in Task, Used(loop[t]),
               pool[loop[t].ticket].left > 0, pool'[loop[t].ticket] = NoTicket
        PROVE  loop'[t].pc \in {"ended", "none"}
    <2> DEFINE k == loop[t].ticket
    <2>0. /\ PoolType(pool) /\ k \in Ticket /\ pool[k] \in Slot /\ pool[k] # NoTicket
          /\ pool[k].left \in Nat \ {0}
      <3>1. PoolType(pool) /\ k \in Ticket
        BY <1>1 DEF ControlInv, LoopOK
      <3>2. pool[k] \in Slot \cup {NoTicket}
        BY <3>1 DEF PoolType
      <3>3. pool[k] # NoTicket
        BY <1>1 DEF NoTicket
      <3> QED
        BY <1>1, <3>1, <3>2, <3>3 DEF Slot
    <2> HIDE DEF k
    <2>1. pool' # pool /\ pool' # expire(pool)
      BY <1>1, <2>0 DEF k, expire
    <2>2. ASSUME NEW j \in Ticket, j # k
          PROVE  pool' # release(pool, j) /\ pool' # release(expire(pool), j)
      BY <1>1, <2>0, <2>2 DEF k, expire, release, PoolType
    <2>3. ASSUME NEW j, NEW p, p = pool \/ p = expire(pool)
          PROVE  pool' # renew(p, j)
      <3>1. p[k] = pool[k] /\ p \in [Ticket -> Slot \cup {NoTicket}]
        BY <2>0, <2>3, PoolOpTypes DEF expire, PoolType
      <3>2. renew(p, j)[k].left \in Nat
        BY <2>0, <3>1 DEF renew
      <3> QED
        BY <1>1, <3>2 DEF k, NoTicket
    <2>4. ASSUME NEW j, NEW g, NEW i \in Ticket, i # k
          PROVE  /\ pool' # acquired(pool, j, g) /\ pool' # acquired(expire(pool), j, g)
                 /\ pool' # acquired(release(expire(pool), i), j, g)
      <3> DEFINE v == [left |-> Ttl, gen |-> g]
      <3>1. v # NoTicket
        BY DEF NoTicket
      <3>2. ASSUME NEW p, p \in [Ticket -> Slot \cup {NoTicket}], p[k] = pool[k]
            PROVE  acquired(p, j, g)[k] # NoTicket
        BY <2>0, <3>1, <3>2 DEF acquired, expire
      <3>3. /\ expire(pool) \in [Ticket -> Slot \cup {NoTicket}] /\ expire(pool)[k] = pool[k]
            /\ pool \in [Ticket -> Slot \cup {NoTicket}]
        BY <2>0 DEF expire, PoolType
      <3>4. /\ release(expire(pool), i) \in [Ticket -> Slot \cup {NoTicket}]
            /\ release(expire(pool), i)[k] = pool[k]
        BY <2>4, <3>3 DEF release
      <3> QED
        BY <1>1, <3>2, <3>3, <3>4 DEF k
    <2>5. \A u \in Task : hold[u] # NoHold => hold[u].ticket \in Ticket /\ hold[u].ticket # k
      BY <1>1 DEF k, ControlInv, MemoryTypes, Hold, Exclusive
    <2>6. ASSUME NEW q \in starting, start(q) PROVE FALSE
      <3>1. q.task \in Task
        BY <1>1 DEF ControlInv, MemoryTypes, StartRequest
      <3>2. \/ pool' = pool
            \/ \E j : pool' = renew(expire(pool), j)
            \/ \E j : pool' = acquired(refused_hold(q), j, q.gen)
            \/ pool' = refused_hold(q)
        BY <2>6 DEF start
      <3>3. CASE hold[q.task] # NoHold /\ refused_hold(q) = release(expire(pool), hold[q.task].ticket)
        BY <2>1, <2>2, <2>3, <2>4, <2>5, <3>1, <3>2, <3>3
      <3>4. CASE refused_hold(q) = expire(pool)
        <4>1. \A j, g : pool' # acquired(expire(pool), j, g)
          <5> TAKE j, g
          <5> DEFINE v == [left |-> Ttl, gen |-> g]
          <5>1. v # NoTicket
            BY DEF NoTicket
          <5>2. acquired(expire(pool), j, g)[k] # NoTicket
            BY <2>0, <5>1 DEF acquired, expire, PoolType
          <5> QED
            BY <1>1, <5>2 DEF k
        <4> QED
          BY <2>1, <2>3, <3>2, <3>4, <4>1
      <3> QED
        BY <3>3, <3>4 DEF refused_hold
    <2>7. ASSUME NEW u \in Task, persist(u) PROVE loop'[t].pc = "ended"
      <3>1. Used(loop[u]) /\ loop[u].ticket \in Ticket
        BY <1>1, <2>7 DEF persist, Used, ControlInv, LoopOK
      <3>2. pool' = release(pool, loop[u].ticket)
        BY <2>1, <2>7 DEF persist
      <3>3. loop[u].ticket = k
        BY <2>2, <3>1, <3>2
      <3>4. u = t
        BY <1>1, <3>1, <3>3 DEF k, ControlInv, Exclusive
      <3>5. loop' = [loop EXCEPT ![t] = over(loop[t])] /\ loop \in [Task -> LoopState]
        BY <1>1, <2>7, <3>4 DEF persist, ControlInv, MemoryTypes
      <3>6. loop'[t] = over(loop[t])
        BY <3>5
      <3> QED
        BY <3>6 DEF over, NoLoop
    <2>8. ASSUME NEW u \in Task, cancel_without_loop(u) PROVE FALSE
      <3>1. pool' = pool \/ (hold[u] # NoHold /\ pool' = release(pool, hold[u].ticket))
        BY <2>8 DEF cancel_without_loop
      <3> QED
        BY <2>1, <2>2, <2>5, <3>1
    <2>9. ASSUME NEW u \in Task, boundary(u) PROVE FALSE
      <3>1. \/ pool' = pool \/ pool' = expire(pool) \/ \E j : pool' = renew(pool, j)
            \/ \E j, g : pool' = acquired(pool, j, g)
        BY <2>9 DEF boundary
      <3>2. \A j, g : pool' # acquired(pool, j, g)
        <4> TAKE j, g
        <4> DEFINE v == [left |-> Ttl, gen |-> g]
        <4>1. v # NoTicket
          BY DEF NoTicket
        <4>2. acquired(pool, j, g)[k] # NoTicket
          BY <2>0, <4>1 DEF acquired, expire, PoolType
        <4> QED
          BY <1>1, <4>2 DEF k
      <3> QED
        BY <2>1, <2>3, <3>1, <3>2
    <2>10. ASSUME NEW r \in Reaper, reaper_release(r) \/ reaper_wake(r) PROVE FALSE
      <3>1. reaper[r] \in Watch
        BY <1>1, <2>10 DEF ControlInv, MemoryTypes, NoReaper, reaper_release, reaper_wake
      <3>2. \/ pool' = pool \/ \E j : pool' = renew(pool, j)
            \/ reaper[r].pc = "release" /\ pool' = release(pool, reaper[r].ticket)
        BY <2>10 DEF reaper_release, reaper_wake
      <3>3. reaper[r].pc = "release" => reaper[r].ticket # k
        BY <1>1 DEF k, ControlInv, Exclusive
      <3>4. reaper[r].ticket \in Ticket
        BY <3>1 DEF Watch
      <3> QED
        BY <2>1, <2>2, <2>3, <3>2, <3>3, <3>4
    <2>11. CASE Tick
      <3>1. pool'[k] = [pool[k] EXCEPT !.left = less(pool[k].left)]
        BY <2>0, <2>11 DEF Tick
      <3>2. pool'[k].left \in Nat
        BY <2>0, <3>1 DEF Slot, less
      <3> QED
        BY <1>1, <3>2 DEF k, NoTicket
    <2>12. CASE restart
      <3>1. loop'[t] = NoLoop
        BY <2>12 DEF restart
      <3> QED
        BY <3>1 DEF NoLoop
    <2> QED
      BY <1>1, <2>1, <2>6, <2>7, <2>8, <2>9, <2>10, <2>11, <2>12, Zenon
      DEF Next, vars, durable, memory, AcquireSessionLease, GetCapacity, StartTask, ResumeTask, PauseTask,
          CancelTask, send_now, stop_task, run_loop, turn, await_approval, approval_resolved,
          cancelled_wait, check_lease, forget, hold_reaper, reaper_check, reaper_end_hold, reaper_give_up
  <1>2. ControlInv /\ [Next]_vars =>
          [\A t \in Task :
              (Live(t) /\ loop[t].pc # "ended" /\ pool[loop[t].ticket].left > 0
                 /\ pool'[loop[t].ticket] = NoTicket)
              => loop'[t].pc \in {"ended", "none"}]_vars
    BY <1>1 DEF Live, Used
  <1> QED
    BY <1>2, ControlInvariant, PTL DEF Spec, RunnerNeverRobbed

-----------------------------------------------------------------------------
(* Runs: a task has a running run only while it is Running itself, and at  *)
(* most one.  The second half alone is not inductive: a start appends a    *)
(* run, and only the first half says that there was none.  A wait for an   *)
(* approval breaks the first half (and RunForked shows what follows), so   *)
(* all this is for a policy that asks for none.                            *)

RunningRun(t, i) == i \in 1 .. Top(t) /\ runs[t][i].state = "Running"

Runs(t) ==
    /\ \A i, j : RunningRun(t, i) /\ RunningRun(t, j) => i = j
    /\ \A i : RunningRun(t, i) => task[t] = "Running"
    /\ loop[t].pc \in {"top", "turn", "ending", "checked"} => loop[t].run \in 1 .. Top(t)
    /\ loop[t].pc # "waiting"

RunsInv == ~Asks /\ DurableTypes /\ MemoryTypes /\ \A t \in Task : Runs(t)

\* No loop waits for an approval.
LEMMA NoneWaits ==
    ASSUME RunsInv
    PROVE  \A t \in Task : loop[t].pc # "waiting"
  BY DEF RunsInv, Runs

\* Where nothing asks, nothing waits, and a stop is a pause.
LEMMA Unasked ==
    ASSUME RunsInv, NEW t \in Task
    PROVE  /\ ~await_approval(t) /\ ~approval_resolved(t) /\ ~cancelled_wait(t) /\ ~send_now(t)
           /\ stop_task(t) => PauseTask(t)
  <1>1. loop[t].pc # "waiting" /\ interrupted(loop[t]) = loop[t]
    BY DEF RunsInv, Runs, interrupted
  <1>2. ~await_approval(t) /\ ~approval_resolved(t) /\ ~cancelled_wait(t) /\ ~send_now(t)
    BY <1>1 DEF RunsInv, await_approval, approval_resolved, cancelled_wait, send_now
  <1>3. stop_task(t) => PauseTask(t)
    BY <1>1 DEF stop_task, PauseTask
  <1> QED
    BY <1>2, <1>3

\* A step that leaves tasks and runs alone keeps Runs when each loop keeps its
\* run or has none.
LEMMA LoopOnly ==
    ASSUME RunsInv, UNCHANGED <<task, runs>>,
           \A t \in Task : loop'[t].pc \in {"top", "turn", "ending", "checked"} =>
                              /\ loop'[t].run = loop[t].run
                              /\ loop[t].pc \in {"top", "turn", "ending", "checked"},
           \A t \in Task : loop'[t].pc # "waiting"
    PROVE  \A t \in Task : Runs(t)'
  BY DEF RunsInv, Runs, RunningRun, Top

\* A start that is legal finds no running run, so it leaves exactly its own.
LEMMA StartRuns ==
    ASSUME RunsInv, NEW q \in starting, start(q)
    PROVE  \A t \in Task : Runs(t)'
  <1> DEFINE u == q.task  i == continued(q)
  <1>1. q \in StartRequest /\ u \in Task /\ q.gen \in Nat /\ q.seen \in TaskState
    BY DEF RunsInv, MemoryTypes, StartRequest
  <1>2. i \in 0 .. Top(u) /\ Top(u) \in Nat /\ runs[u] \in Seq(Run)
    BY <1>1, Continued DEF RunsInv, DurableTypes, Top
  <1>3. CASE UNCHANGED <<task, runs, loop>>
    BY <1>3, LoopOnly, NoneWaits
  <1>4. ASSUME NEW k, start_legal(q), task' = [task EXCEPT ![u] = "Running"],
               runs' = started_runs(q), loop' = [loop EXCEPT ![u] = running(q, k)]
        PROVE  \A t \in Task : Runs(t)'
    <2> DEFINE r == [state |-> "Running", gen |-> q.gen]
               n == IF i = 0 THEN Top(u) + 1 ELSE i
    <2>1. task[u] # "Running"
      BY <1>1, <1>4 DEF start_legal, can_transition, Waits
    <2>2. \A j : ~RunningRun(u, j)
      BY <2>1, <1>1 DEF RunsInv, Runs
    <2>3. /\ Len(runs'[u]) = IF i = 0 THEN Top(u) + 1 ELSE Top(u)
          /\ runs'[u][n] = r
          /\ \A j \in 1 .. Top(u) : j # n => runs'[u][j] = runs[u][j]
      <3>1. CASE i = 0
        <4>1. runs'[u] = Append(runs[u], r)
          BY <1>1, <1>4, <3>1 DEF started_runs, RunsInv, DurableTypes
        <4> QED
          BY <4>1, <1>2, <3>1 DEF Top
      <3>2. CASE i # 0
        <4>1. runs'[u] = [runs[u] EXCEPT ![i] = r]
          BY <1>1, <1>4, <3>2 DEF started_runs, RunsInv, DurableTypes
        <4> QED
          BY <4>1, <1>2, <3>2 DEF Top
      <3> QED
        BY <3>1, <3>2
    <2>4. \A j : RunningRun(u, j)' => j = n
      BY <2>2, <2>3, <1>2 DEF RunningRun, Top
    <2>5. task'[u] = "Running" /\ loop'[u].run = n /\ loop'[u].pc = "top"
      BY <1>1, <1>4 DEF running, RunsInv, DurableTypes, MemoryTypes
    <2>6. n \in 1 .. Len(runs'[u])
      BY <2>3, <1>2
    <2>7. Runs(u)'
      BY <2>4, <2>5, <2>6 DEF Runs, Top
    <2>8. \A t \in Task \ {u} : task'[t] = task[t] /\ runs'[t] = runs[t] /\ loop'[t] = loop[t]
      BY <1>4 DEF started_runs, RunsInv, DurableTypes, MemoryTypes
    <2>9. \A t \in Task \ {u} : Runs(t)'
      BY <2>8 DEF RunsInv, Runs, RunningRun, Top
    <2> QED
      BY <2>7, <2>9
  <1>5. \/ UNCHANGED <<task, runs, loop>>
        \/ \E k : launch(q, k)
    BY DEF start
  <1> QED
    BY <1>3, <1>4, <1>5 DEF launch

\* The end of the loop: the outcome that lands ends the one running run and
\* takes the task out of Running in the same transaction.
LEMMA PersistRuns ==
    ASSUME RunsInv, NEW u \in Task, persist(u)
    PROVE  \A t \in Task : Runs(t)'
  <1>0. DurableTypes /\ MemoryTypes
    BY DEF RunsInv
  <1>1. \A t \in Task \ {u} : loop'[t] = loop[t]
    BY <1>0 DEF persist, MemoryTypes
  <1>2. loop'[u].pc = "ended"
    BY <1>0 DEF persist, MemoryTypes, over, NoLoop
  <1>3. CASE UNCHANGED <<task, runs>>
    BY <1>1, <1>2, <1>3, LoopOnly, NoneWaits
  <1>4. CASE /\ outcome_lands(u)
             /\ task' = [task EXCEPT ![u] = OutcomeTask(loop[u].end)]
             /\ runs' = [runs EXCEPT ![u][loop[u].run] = [@ EXCEPT !.state = OutcomeRun(loop[u].end)]]
    <2> DEFINE n == loop[u].run
               r == [runs[u][n] EXCEPT !.state = OutcomeRun(loop[u].end)]
    <2>1. n \in 1 .. Top(u) /\ runs[u] \in Seq(Run) /\ RunningRun(u, n)
      BY <1>0, <1>4 DEF RunsInv, Runs, persist, outcome_lands, RunningRun, DurableTypes
    <2>2. runs'[u] = [runs[u] EXCEPT ![n] = r]
      BY <1>0, <1>4 DEF DurableTypes
    <2>3. r.state # "Running"
      <3>1. runs[u][n] \in Run
        BY <2>1 DEF Top
      <3>2. r.state = OutcomeRun(loop[u].end)
        BY <3>1 DEF Run
      <3> QED
        BY <3>2 DEF OutcomeRun
    <2> HIDE DEF r
    <2>4. Len(runs'[u]) = Top(u) /\ runs'[u][n] = r /\ \A i \in 1 .. Top(u) : i # n => runs'[u][i] = runs[u][i]
      BY <2>1, <2>2 DEF Top
    <2>5. \A i : RunningRun(u, i) => i = n
      BY <2>1 DEF RunsInv, Runs
    <2>6. \A i : ~RunningRun(u, i)'
      BY <2>3, <2>4, <2>5 DEF RunningRun, Top
    <2>7. Runs(u)'
      BY <1>2, <2>6 DEF Runs
    <2>8. \A t \in Task \ {u} : task'[t] = task[t] /\ runs'[t] = runs[t]
      BY <1>0, <1>4 DEF DurableTypes
    <2>9. \A t \in Task \ {u} : Runs(t)'
      BY <1>1, <2>8 DEF RunsInv, Runs, RunningRun, Top
    <2> QED
      BY <2>7, <2>9
  <1> QED
    BY <1>3, <1>4 DEF persist

\* cancel_without_loop leaves the task no running run.
LEMMA CancelRuns ==
    ASSUME RunsInv, NEW u \in Task, cancel_without_loop(u)
    PROVE  \A t \in Task : Runs(t)'
  <1>0. DurableTypes /\ MemoryTypes
    BY DEF RunsInv
  <1>1. loop' = loop /\ runs' = cancelled_runs(u) /\ \A t \in Task \ {u} : task'[t] = task[t]
    BY <1>0 DEF cancel_without_loop, DurableTypes
  <1>2. runs[u] \in Seq(Run) /\ Top(u) \in Nat
    BY <1>0 DEF DurableTypes, Top
  <1>3. runs'[u] = [i \in 1 .. Top(u) |-> IF runs[u][i].state \in {"Running", "Suspended"}
                      THEN [runs[u][i] EXCEPT !.state = "Cancelled"] ELSE runs[u][i]]
    BY <1>0, <1>1 DEF cancelled_runs, DurableTypes
  <1>4. Len(runs'[u]) = Top(u)
    BY <1>2, <1>3
  <1>5. \A i \in 1 .. Top(u) : runs'[u][i].state # "Running"
    <2> SUFFICES ASSUME NEW i \in 1 .. Top(u) PROVE runs'[u][i].state # "Running"
      OBVIOUS
    <2>1. runs[u][i] \in Run
      BY <1>2 DEF Top
    <2>2. [runs[u][i] EXCEPT !.state = "Cancelled"].state = "Cancelled"
      BY <2>1 DEF Run
    <2> QED
      BY <1>3, <2>2
  <1>6. Runs(u)'
    BY <1>1, <1>4, <1>5 DEF RunsInv, Runs, RunningRun, Top
  <1>7. \A t \in Task \ {u} : runs'[t] = runs[t]
    BY <1>0, <1>1 DEF cancelled_runs, DurableTypes
  <1>8. \A t \in Task \ {u} : Runs(t)'
    BY <1>1, <1>7 DEF RunsInv, Runs, RunningRun, Top
  <1> QED
    BY <1>6, <1>8

\* A restart suspends every running run: only a Running task had one.
LEMMA RestartRuns ==
    ASSUME RunsInv, restart
    PROVE  \A t \in Task : Runs(t)'
  <1> SUFFICES ASSUME NEW t \in Task PROVE Runs(t)'
    OBVIOUS
  <1>1. loop'[t].pc = "none"
    BY DEF restart, NoLoop
  <1>2. runs[t] \in Seq(Run) /\ Top(t) \in Nat
    BY DEF RunsInv, DurableTypes, Top
  <1>3. runs'[t] = suspended_runs(t)
    BY DEF restart
  <1>4. Len(runs'[t]) = Top(t)
    BY <1>2, <1>3 DEF suspended_runs
  <1>5. \A i \in 1 .. Top(t) : runs'[t][i].state # "Running"
    <2> SUFFICES ASSUME NEW i \in 1 .. Top(t) PROVE runs'[t][i].state # "Running"
      OBVIOUS
    <2>1. runs[t][i] \in Run
      BY <1>2 DEF Top
    <2>2. [runs[t][i] EXCEPT !.state = "Suspended"].state = "Suspended"
      BY <2>1 DEF Run
    <2>3. runs[t][i].state = "Running" => task[t] = "Running"
      BY DEF RunsInv, Runs, RunningRun
    <2> QED
      BY <1>3, <2>2, <2>3 DEF suspended_runs
  <1> QED
    BY <1>1, <1>4, <1>5 DEF Runs, RunningRun, Top

\* A loop that stays on its run, and ends it or works on it.
GoesOn(l, m) == m.run = l.run /\ m.pc \in {"ending", "turn"}

\* The turn boundary keeps the loop on its run.
LEMMA BoundaryLoop ==
    ASSUME NEW u \in Task, loop[u] \in LoopState, boundary(u)
    PROVE  \E l : loop' = [loop EXCEPT ![u] = l] /\ GoesOn(loop[u], l)
  <1>1. \A e, k : /\ GoesOn(loop[u], [loop[u] EXCEPT !.pc = "ending", !.end = e])
                  /\ GoesOn(loop[u], [loop[u] EXCEPT !.pc = "ending", !.end = e, !.ticket = k])
                  /\ GoesOn(loop[u], [loop[u] EXCEPT !.pc = "turn", !.ticket = k])
                  /\ GoesOn(loop[u], [loop[u] EXCEPT !.pc = "turn"])
    BY DEF LoopState, GoesOn
  <1>2. \/ \E e : loop' = [loop EXCEPT ![u] = [loop[u] EXCEPT !.pc = "ending", !.end = e]]
        \/ loop' = [loop EXCEPT ![u] = [loop[u] EXCEPT !.pc = "turn"]]
        \/ \E k : loop' = [loop EXCEPT ![u] =
                            [loop[u] EXCEPT !.pc = "ending", !.end = "Fenced", !.ticket = k]]
        \/ \E k : loop' = [loop EXCEPT ![u] = [loop[u] EXCEPT !.pc = "turn", !.ticket = k]]
    <2>1. CASE ~loop[u].cancel /\ ~parks(loop[u]) /\ ~renew_ok(pool, loop[u].ticket, loop[u].gen)
      BY <2>1 DEF boundary, ends
    <2>2. CASE ~(~loop[u].cancel /\ ~parks(loop[u]) /\ ~renew_ok(pool, loop[u].ticket, loop[u].gen))
      BY <2>2 DEF boundary, ends
    <2> QED
      BY <2>1, <2>2
  <1>3. ASSUME NEW e, loop' = [loop EXCEPT ![u] = [loop[u] EXCEPT !.pc = "ending", !.end = e]]
        PROVE  \E l : loop' = [loop EXCEPT ![u] = l] /\ GoesOn(loop[u], l)
    BY <1>1, <1>3, Zenon
  <1>4. ASSUME loop' = [loop EXCEPT ![u] = [loop[u] EXCEPT !.pc = "turn"]]
        PROVE  \E l : loop' = [loop EXCEPT ![u] = l] /\ GoesOn(loop[u], l)
    BY <1>1, <1>4, Zenon
  <1>5. ASSUME NEW k, loop' = [loop EXCEPT ![u] =
                          [loop[u] EXCEPT !.pc = "ending", !.end = "Fenced", !.ticket = k]]
        PROVE  \E l : loop' = [loop EXCEPT ![u] = l] /\ GoesOn(loop[u], l)
    <2> DEFINE f == [loop[u] EXCEPT !.pc = "ending", !.end = "Fenced", !.ticket = k]
    <2>1. GoesOn(loop[u], f)
      BY <1>1, Zenon
    <2>2. loop' = [loop EXCEPT ![u] = f]
      BY <1>5
    <2> HIDE DEF f
    <2> QED
      BY <2>1, <2>2, Zenon
  <1>6. ASSUME NEW k, loop' = [loop EXCEPT ![u] = [loop[u] EXCEPT !.pc = "turn", !.ticket = k]]
        PROVE  \E l : loop' = [loop EXCEPT ![u] = l] /\ GoesOn(loop[u], l)
    BY <1>1, <1>6, ZenonT(30)
  <1> QED
    BY <1>2, <1>3, <1>4, <1>5, <1>6, Zenon

\* Every step preserves RunsInv.
LEMMA RunsNext ==
    ASSUME RunsInv, ControlInv, [Next]_vars
    PROVE  RunsInv'
  <1>1. DurableTypes' /\ MemoryTypes'
    BY ControlNext DEF ControlInv
  <1> SUFFICES \A t \in Task : Runs(t)'
    BY <1>1 DEF RunsInv
  <1>2. loop \in [Task -> LoopState]
    BY DEF RunsInv, MemoryTypes
  <1>3. CASE UNCHANGED <<task, runs, loop>>
    BY <1>3, LoopOnly, NoneWaits
  <1>4. ASSUME NEW u \in Task, boundary(u) \/ turn(u) \/ check_lease(u) \/ forget(u) \/ PauseTask(u) \/ CancelTask(u)
        PROVE  \A t \in Task : Runs(t)'
    <2>1. UNCHANGED <<task, runs>>
      BY <1>4 DEF boundary, turn, check_lease, forget, PauseTask, CancelTask, durable
    <2>2. \A t \in Task \ {u} : loop'[t] = loop[t]
      BY <1>2, <1>4 DEF boundary, turn, check_lease, forget, PauseTask, CancelTask, ends
    <2>3. \/ loop'[u].pc \in {"none", "ended"}
          \/ /\ loop'[u].run = loop[u].run
             /\ loop[u].pc \in {"top", "turn", "ending", "checked"} \/ loop'[u].pc = loop[u].pc
      <3>1. loop[u] \in LoopState
        BY <1>2
      <3>2. CASE boundary(u)
        BY <3>1, <3>2, <1>2, BoundaryLoop, Zenon DEF boundary, GoesOn
      <3>3. CASE turn(u)
        <4>1. /\ \A e : [loop[u] EXCEPT !.pc = "ending", !.end = e].run = loop[u].run
              /\ [loop[u] EXCEPT !.pc = "top"].run = loop[u].run
          BY <3>1 DEF LoopState
        <4>2. loop[u].pc = "turn"
          BY <3>3 DEF turn
        <4>3. \/ loop' = [loop EXCEPT ![u] = [loop[u] EXCEPT !.pc = "top"]]
              \/ \E e : loop' = [loop EXCEPT ![u] = [loop[u] EXCEPT !.pc = "ending", !.end = e]]
          BY <3>3 DEF turn, ends
        <4>4. \E l : loop' = [loop EXCEPT ![u] = l] /\ l.run = loop[u].run
          BY <4>1, <4>3, Zenon
        <4> QED
          BY <4>2, <4>4, <1>2
      <3>4. CASE check_lease(u)
        BY <3>1, <3>4, <1>2 DEF check_lease, LoopState
      <3>5. CASE forget(u)
        BY <3>5, <1>2 DEF forget, NoLoop
      <3>6. CASE PauseTask(u)
        BY <3>1, <3>6, <1>2 DEF PauseTask, LoopState
      <3>7. CASE CancelTask(u)
        BY <3>1, <3>7, <1>2 DEF CancelTask, LoopState
      <3> QED
        BY <1>4, <3>2, <3>3, <3>4, <3>5, <3>6, <3>7
    <2>4. \A t \in Task : loop'[t].pc \in {"top", "turn", "ending", "checked"} =>
                              /\ loop'[t].run = loop[t].run
                              /\ loop[t].pc \in {"top", "turn", "ending", "checked"}
      BY <2>2, <2>3
    <2>5. \A t \in Task : loop'[t].pc # "waiting"
      <3>1. loop'[u].pc # "waiting"
        <4>1. loop[u] \in LoopState /\ loop[u].pc # "waiting"
          BY <1>2, NoneWaits
        <4>2. CASE boundary(u)
          BY <4>1, <4>2, <1>2, BoundaryLoop DEF GoesOn
        <4>3. CASE turn(u)
          <5>1. \/ loop' = [loop EXCEPT ![u] = [loop[u] EXCEPT !.pc = "top"]]
                \/ \E e : loop' = [loop EXCEPT ![u] = [loop[u] EXCEPT !.pc = "ending", !.end = e]]
            BY <4>3 DEF turn, ends
          <5>2. [loop[u] EXCEPT !.pc = "top"].pc # "waiting"
            BY <4>1 DEF LoopState
          <5>3. \A e : [loop[u] EXCEPT !.pc = "ending", !.end = e].pc # "waiting"
            BY <4>1 DEF LoopState
          <5> QED
            BY <5>1, <5>2, <5>3, <1>2
        <4>4. CASE check_lease(u)
          BY <4>1, <4>4, <1>2 DEF check_lease, LoopState
        <4>5. CASE forget(u)
          BY <4>5, <1>2 DEF forget, NoLoop
        <4>6. CASE PauseTask(u)
          BY <4>1, <4>6, <1>2 DEF PauseTask, LoopState
        <4>7. CASE CancelTask(u)
          BY <4>1, <4>7, <1>2 DEF CancelTask, LoopState
        <4> QED
          BY <1>4, <4>2, <4>3, <4>4, <4>5, <4>6, <4>7
      <3> QED
        BY <2>2, <3>1, NoneWaits
    <2> QED
      BY <2>1, <2>4, <2>5, LoopOnly
  <1>5. ASSUME NEW u \in Task, persist(u) PROVE \A t \in Task : Runs(t)'
    BY <1>5, PersistRuns
  <1>6. ASSUME NEW u \in Task, cancel_without_loop(u) PROVE \A t \in Task : Runs(t)'
    BY <1>6, CancelRuns
  <1>7. CASE restart
    BY <1>7, RestartRuns
  <1>8. ASSUME NEW q \in starting, start(q) PROVE \A t \in Task : Runs(t)'
    BY <1>8, StartRuns
  <1> QED
    BY <1>3, <1>4, <1>5, <1>6, <1>7, <1>8, Unasked, Zenon
    DEF Next, vars, durable, memory, AcquireSessionLease, GetCapacity, StartTask, ResumeTask, Tick, run_loop,
        hold_reaper, reaper_check, reaper_end_hold, reaper_release, reaper_wake, reaper_give_up

\* Initially no task has a run.
LEMMA RunsInit == ASSUME ~Asks PROVE Init => RunsInv
  <1> SUFFICES ASSUME Init PROVE RunsInv
    OBVIOUS
  <1>1. DurableTypes /\ MemoryTypes
    BY ControlInit DEF ControlInv
  <1>2. \A t \in Task : Runs(t)
    BY DEF Init, Runs, RunningRun, Top, NoLoop
  <1> QED
    BY <1>1, <1>2 DEF RunsInv

\* The invariant is more than OneRunningRun.
LEMMA AtMostOne ==
    ASSUME RunsInv
    PROVE  OneRunningRun
  <1> SUFFICES ASSUME NEW t \in Task
               PROVE  Cardinality({i \in 1 .. Top(t) : runs[t][i].state = "Running"}) <= 1
    BY DEF OneRunningRun
  <1> DEFINE S == {i \in 1 .. Top(t) : runs[t][i].state = "Running"}
  <1>1. \A i, j \in S : i = j
    BY DEF RunsInv, Runs, RunningRun
  <1>2. CASE S = {}
    BY <1>2, FS_EmptySet
  <1>3. CASE S # {}
    <2>1. PICK i : i \in S
      BY <1>3
    <2>2. S = {i}
      BY <1>1, <2>1
    <2>3. Cardinality({i}) = 1
      BY FS_Singleton
    <2> QED
      BY <2>2, <2>3
  <1> QED
    BY <1>2, <1>3

\* Runtime::start: however many handlers read the task before one started it,
\* whatever was stranded, cancelled in a race or reconciled after a restart, a
\* task never has two running runs, as long as no call waits for an approval.
THEOREM SingleRunningRun == ASSUME ~Asks PROVE Spec => []OneRunningRun
  <1>1. RunsInv /\ ControlInv /\ [Next]_vars => RunsInv'
    BY RunsNext
  <1>2. RunsInv => OneRunningRun
    BY AtMostOne
  <1> QED
    BY <1>1, <1>2, RunsInit, ControlInvariant, PTL DEF Spec
===============================================================================
