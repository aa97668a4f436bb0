---------------------------- MODULE Prober_proofs ----------------------------
(***************************************************************************)
(* Proofs about Prober, for any tasks, exits, limits and waiters: the      *)
(* queue and the slots are counted right, an exit that stays is probed by  *)
(* one task at a time, a lock always has a probe, and nobody waits behind  *)
(* another exit's lock.                                                    *)
(***************************************************************************)
EXTENDS Prober, ExitPoolOps_proofs, FiniteSetTheorems, SequenceTheorems

USE ProberAssumption

(***************************************************************************)
(* The inductive invariant: a part for the scheduler, stated of the values *)
(* that a pump reads and writes, and one for those who wait.               *)
(***************************************************************************)
Items(q) == {q[i] : i \in DOMAIN q}

\* No task is queued twice.
Listed(q) ==
  /\ q \in Seq(Tasks)
  /\ \A i, j \in DOMAIN q : q[i] = q[j] => i = j

\* Running tasks and locks belong together: every lock has a running task, and
\* a running task of a steady exit has the lock, for itself.
Holding(p, run) ==
  /\ \A e \in Locked(p) : \E t \in run : ExitOf[t] = e
  /\ \A t \in run : ExitOf[t] \in Steady => ExitOf[t] \in Locked(p)
  /\ \A a, b \in run : (a # b /\ ExitOf[a] = ExitOf[b]) => ExitOf[a] \notin Steady

SchedOK(p, q, run) ==
  /\ PoolInv(p, 0) /\ Steady \subseteq DOMAIN p.nodes
  /\ Listed(q)
  /\ run \subseteq Tasks /\ IsFiniteSet(run)
  /\ Items(q) \cap run = {}
  /\ Holding(p, run)

\* A queued task of a steady exit that nobody holds waits for a slot.
Served(p, q, run, limit) ==
  \A t \in Items(q) :
    (ExitOf[t] \in Steady /\ ExitOf[t] \notin Locked(p)) => Cardinality(run) >= limit

WaitersOK ==
  /\ drained \in Waiters \cup {NoWaiter}
  /\ waiting \in [Waiters -> {"none", "blocked", "woken", "resolved"}]

IInv ==
  /\ SchedOK(pool, queue, running)
  /\ Served(pool, queue, running, maxConcurrent)
  /\ maxConcurrent \in Nat \ {0}
  /\ settled \subseteq Tasks /\ settled \cap (Items(queue) \cup running) = {}
  /\ WaitersOK

(***************************************************************************)
(* The pump.                                                               *)
(***************************************************************************)

\* What stays in the queue stays once, and nothing else does.
LEMMA LeavesKeeps ==
  ASSUME NEW q, Listed(q), NEW rest \in SUBSET DOMAIN q, Leaves(q, rest)
  PROVE  Listed(queue') /\ Items(queue') = {q[i] : i \in rest}
<1> DEFINE n == Cardinality(rest)
<1>1. /\ Len(q) \in Nat /\ DOMAIN q = 1 .. Len(q)
      /\ \A i \in DOMAIN q : q[i] \in Tasks
  BY DEF Listed
<1>2. IsFiniteSet(DOMAIN q)
  BY <1>1, FS_Interval
<1>3. n \in Nat
  BY <1>2, FS_Subset, FS_CardinalityType
<1> HIDE DEF n
<1>4. PICK place \in [1 .. n -> rest] :
        /\ \A a, b \in DOMAIN place : a < b => place[a] < place[b]
        /\ {place[a] : a \in DOMAIN place} = rest
        /\ queue' = [a \in DOMAIN place |-> q[place[a]]]
  BY DEF Leaves, n
<1>5. DOMAIN place = 1 .. n /\ \A a \in 1 .. n : place[a] \in DOMAIN q
  OBVIOUS
<1>6. queue' \in [1 .. n -> Tasks]
  BY <1>1, <1>4, <1>5
<1>7. queue' \in Seq(Tasks)
  <2>1. Seq(Tasks) = UNION {[1 .. l -> Tasks] : l \in Nat}
    BY SeqDef
  <2> QED
    BY <1>3, <1>6, <2>1
<1>8. ASSUME NEW i \in DOMAIN queue', NEW j \in DOMAIN queue', queue'[i] = queue'[j]
      PROVE  i = j
  <2>1. /\ i \in 1 .. n /\ j \in 1 .. n /\ q[place[i]] = q[place[j]]
        /\ place[i] \in DOMAIN q /\ place[j] \in DOMAIN q
    BY <1>4, <1>5, <1>8
  <2>2. place[i] = place[j] /\ place[i] \in Int
    BY <1>1, <2>1 DEF Listed
  <2>3. ~(i < j) /\ ~(j < i)
    BY <1>4, <1>5, <2>1, <2>2
  <2> QED
    BY <1>3, <2>1, <2>3
<1>9. Items(queue') = {q[i] : i \in rest}
  BY <1>4, <1>5 DEF Items
<1> QED
  BY <1>7, <1>8, <1>9 DEF Listed

LEMMA TakeLocksKeeps ==
  ASSUME NEW p, PoolInv(p, 0), NEW exits
  PROVE  LET r == TakeLocks(p, exits)
         IN  /\ PoolInv(r, 0) /\ r.nodes = p.nodes
             /\ Locked(r) = Locked(p) \cup (exits \cap DOMAIN p.nodes)
<1> DEFINE g(e) == [p.health[e] EXCEPT !.inflight = TRUE]
           h == [e \in DOMAIN p.health |-> IF e \in exits THEN g(e) ELSE p.health[e]]
           r == TakeLocks(p, exits)
<1>1. \A e \in DOMAIN p.health : p.health[e] \in Health /\ CoolingOK(p.health[e], 0)
  BY DEF PoolInv, TableOK, IsPool, IsMap, SignalsOK
<1>2. \A e \in DOMAIN p.health : g(e) \in Health /\ CoolingOK(g(e), 0) /\ g(e).inflight
  BY <1>1 DEF Health, CoolingOK
<1> HIDE DEF g
<1>3. /\ DOMAIN h = DOMAIN p.health
      /\ \A e \in DOMAIN h : h[e] \in Health /\ CoolingOK(h[e], 0)
      /\ \A e \in DOMAIN h : h[e].inflight <=> (p.health[e].inflight \/ e \in exits)
  BY <1>1, <1>2
<1>4. r = [p EXCEPT !.health = h]
  BY DEF TakeLocks, g
<1>5. h \in [DOMAIN p.health -> Health]
  BY <1>3
<1> HIDE DEF h
<1>6. /\ r.nodes = p.nodes /\ r.health = h /\ r.bans = p.bans /\ r.sticky = p.sticky
      /\ r.passive = p.passive /\ r.pinned = p.pinned /\ r.target = p.target
      /\ r = [nodes |-> r.nodes, health |-> r.health, bans |-> r.bans, sticky |-> r.sticky,
              passive |-> r.passive, pinned |-> r.pinned, target |-> r.target]
  BY <1>4 DEF PoolInv, TableOK, IsPool
<1> HIDE DEF r
<1>7. IsPool(r)
  BY <1>3, <1>5, <1>6 DEF PoolInv, TableOK, IsPool, IsMap
<1>8. TableOK(r)
  BY <1>3, <1>6, <1>7 DEF PoolInv, TableOK
<1>9. SignalsOK(r, 0)
  BY <1>3, <1>6 DEF PoolInv, SignalsOK
<1>10. Locked(r) = Locked(p) \cup (exits \cap DOMAIN p.nodes)
  BY <1>3, <1>6 DEF Locked, PoolInv, TableOK
<1> QED
  BY <1>6, <1>8, <1>9, <1>10 DEF PoolInv, r

\* An exit of the pool is busy when its lock is taken.
LEMMA BusyIsLocked ==
  ASSUME NEW p, PoolInv(p, 0), NEW e \in DOMAIN p.nodes
  PROVE  IsExitBusy(p, e) <=> e \in Locked(p)
  BY DEF IsExitBusy, LockFree, Locked, PoolInv, TableOK

\* The tasks at different places are different, so as many start as are chosen.
LEMMA StartedCount ==
  ASSUME NEW q, Listed(q), NEW chosen \in SUBSET DOMAIN q
  PROVE  LET started == {q[i] : i \in chosen}
         IN  /\ IsFiniteSet(chosen) /\ IsFiniteSet(started)
             /\ Cardinality(chosen) \in Nat
             /\ Cardinality(started) = Cardinality(chosen)
<1> DEFINE started == {q[i] : i \in chosen}
           f == [i \in chosen |-> q[i]]
<1>1. IsFiniteSet(chosen)
  <2>1. IsFiniteSet(DOMAIN q)
    BY FS_Interval DEF Listed
  <2> QED
    BY <2>1, FS_Subset
<1>2. f \in [chosen -> started] /\ \A x \in started : \E i \in chosen : f[i] = x
  OBVIOUS
<1>3. \A i, j \in chosen : f[i] = f[j] => i = j
  BY DEF Listed
<1>4. f \in Bijection(chosen, started)
  BY <1>2, <1>3 DEF Bijection, Injection, Surjection, IsInjective
<1>5. ExistsBijection(chosen, started)
  BY <1>4 DEF ExistsBijection
<1> QED
  BY <1>1, <1>5, FS_Bijection, FS_CardinalityType

\* A pump keeps locks and running tasks together, loses no task, and leaves
\* behind only those that wait for a slot or for their own exit.
LEMMA PumpKeeps ==
  ASSUME NEW p, NEW q, NEW run, NEW limit \in Nat, SchedOK(p, q, run),
         Pump(p, q, run, limit)
  PROVE  /\ SchedOK(pool', queue', running')
         /\ Served(pool', queue', running', limit)
         /\ Items(queue') \cup running' = Items(q) \cup run
<1>1. PICK chosen \in SUBSET DOMAIN q :
        /\ \A i \in DOMAIN q :
             i \in chosen <=> Starts(p, q, run, limit, {j \in chosen : j < i}, i)
        /\ Leaves(q, DOMAIN q \ chosen)
        /\ running' = run \cup {q[i] : i \in chosen}
        /\ pool' = TakeLocks(p, {ExitOf[t] : t \in {q[i] : i \in chosen}})
  BY DEF Pump
<1> DEFINE started == {q[i] : i \in chosen}
           exits == {ExitOf[t] : t \in started}
<1>2. /\ Listed(queue')
      /\ Items(queue') = {q[i] : i \in DOMAIN q \ chosen}
  BY <1>1, LeavesKeeps DEF SchedOK
<1>3. /\ PoolInv(pool', 0) /\ pool'.nodes = p.nodes
      /\ Locked(pool') = Locked(p) \cup (exits \cap DOMAIN p.nodes)
  <2>1. pool' = TakeLocks(p, exits)
    BY <1>1
  <2> HIDE DEF exits
  <2> QED
    BY <2>1, TakeLocksKeeps DEF SchedOK
<1>4. /\ IsFiniteSet(started) /\ Cardinality(chosen) \in Nat /\ IsFiniteSet(chosen)
      /\ Cardinality(started) = Cardinality(chosen)
  BY StartedCount DEF SchedOK
<1>5. /\ started \subseteq Items(q) /\ Items(q) \subseteq Tasks
      /\ Items(queue') = Items(q) \ started
  <2>1. \A i, j \in DOMAIN q : q[i] = q[j] => i = j
    BY DEF SchedOK, Listed
  <2>2. Items(queue') = Items(q) \ started
    BY <1>2, <2>1 DEF Items
  <2>3. Items(q) \subseteq Tasks
    BY DEF SchedOK, Listed, Items
  <2> QED
    BY <2>2, <2>3 DEF Items
<1>6. /\ running' \subseteq Tasks /\ Items(queue') \cap running' = {}
      /\ Items(queue') \cup running' = Items(q) \cup run
  BY <1>1, <1>5 DEF SchedOK
<1>7. /\ IsFiniteSet(running')
      /\ Cardinality(running') = Cardinality(run) + Cardinality(chosen)
      /\ Cardinality(run) \in Nat
  <2>1. run \cap started = {} /\ IsFiniteSet(run)
    BY <1>5 DEF SchedOK
  <2>2. running' = run \cup started
    BY <1>1
  <2> HIDE DEF started
  <2>3. /\ IsFiniteSet(run \cup started)
        /\ Cardinality(run \cup started)
             = Cardinality(run) + Cardinality(started) - Cardinality(run \cap started)
    BY <1>4, <2>1, FS_Union
  <2>4. Cardinality(run \cap started) = 0
    BY <2>1, FS_EmptySet
  <2>5. Cardinality(run) \in Nat
    BY <2>1, FS_CardinalityType
  <2> QED
    BY <1>4, <2>2, <2>3, <2>4, <2>5
\* What a start requires of the pool it read.
<1>8. ASSUME NEW i \in chosen, ExitOf[q[i]] \in Steady
      PROVE  /\ ExitOf[q[i]] \notin Locked(p)
             /\ \A j \in chosen : j < i => ExitOf[q[j]] # ExitOf[q[i]]
  <2>1. Starts(p, q, run, limit, {j \in chosen : j < i}, i)
    BY <1>1
  <2>2. ExitOf[q[i]] \in DOMAIN p.nodes
    BY <1>8 DEF SchedOK
  <2> QED
    BY <2>1, <2>2, BusyIsLocked DEF Starts, SchedOK
<1>9. Holding(pool', running')
  <2>1. \A e \in Locked(pool') : \E t \in running' : ExitOf[t] = e
    BY <1>1, <1>3 DEF SchedOK, Holding
  <2>2. \A t \in running' : ExitOf[t] \in Steady => ExitOf[t] \in Locked(pool')
    BY <1>1, <1>3 DEF SchedOK, Holding
  <2>3. ASSUME NEW a \in running', NEW b \in running', a # b, ExitOf[a] = ExitOf[b],
               ExitOf[a] \in Steady
        PROVE  FALSE
    <3>1. ASSUME NEW x \in run, NEW i \in chosen, ExitOf[x] \in Steady
          PROVE  ExitOf[x] # ExitOf[q[i]]
      BY <1>8, <3>1 DEF SchedOK, Holding
    <3>2. CASE a \in run /\ b \in run
      BY <2>3, <3>2 DEF SchedOK, Holding
    <3>3. CASE a \in run /\ b \notin run
      BY <1>1, <2>3, <3>1, <3>3
    <3>4. CASE a \notin run /\ b \in run
      BY <1>1, <2>3, <3>1, <3>4
    <3>5. CASE a \notin run /\ b \notin run
      <4>1. PICK i \in chosen, j \in chosen : a = q[i] /\ b = q[j]
        BY <1>1, <3>5
      <4>2. i \in Nat /\ j \in Nat /\ i # j
        BY <2>3, <4>1 DEF SchedOK, Listed
      <4>3. i < j \/ j < i
        BY <4>2
      <4> QED
        BY <1>8, <2>3, <4>1, <4>3
    <3> QED
      BY <3>2, <3>3, <3>4, <3>5
  <2> QED
    BY <2>1, <2>2, <2>3 DEF Holding
<1>10. Served(pool', queue', running', limit)
  <2> SUFFICES ASSUME NEW t \in Items(queue'), ExitOf[t] \in Steady,
                      ExitOf[t] \notin Locked(pool')
               PROVE  Cardinality(running') >= limit
    BY DEF Served
  <2>1. PICK i \in DOMAIN q \ chosen : t = q[i]
    BY <1>2
  <2> DEFINE earlier == {j \in chosen : j < i}
  <2>2. ~Starts(p, q, run, limit, earlier, i)
    BY <1>1, <2>1
  <2>3. ExitOf[t] \in DOMAIN p.nodes
    BY DEF SchedOK
  <2>4. ~IsExitBusy(p, ExitOf[t])
    BY <1>3, <2>3, BusyIsLocked DEF SchedOK
  <2>5. \A j \in earlier : ExitOf[q[j]] # ExitOf[t]
    BY <1>3, <2>3
  <2>6. ~(Cardinality(run) + Cardinality(earlier) < limit)
    BY <2>1, <2>2, <2>4, <2>5 DEF Starts
  <2>7. Cardinality(earlier) \in Nat /\ Cardinality(earlier) <= Cardinality(chosen)
    BY <1>4, FS_Subset, FS_CardinalityType
  <2> HIDE DEF earlier
  <2> QED
    BY <1>4, <1>7, <2>6, <2>7
<1>11. SchedOK(pool', queue', running')
  BY <1>2, <1>3, <1>6, <1>7, <1>9 DEF SchedOK
<1> QED
  BY <1>6, <1>10, <1>11

(***************************************************************************)
(* The steps.                                                              *)
(***************************************************************************)
LEMMA InitIInv == Init => IInv
<1> SUFFICES ASSUME Init PROVE IInv
  OBVIOUS
<1> DEFINE ok == [FreshHealth EXCEPT !.state = "ok"]
<1>1. /\ pool = [nodes |-> [e \in Steady |-> FreeNode], health |-> [e \in Steady |-> ok],
                 bans |-> << >>, sticky |-> << >>, passive |-> {}, pinned |-> NoExit,
                 target |-> 1]
      /\ queue = << >> /\ running = {} /\ settled = {} /\ maxConcurrent = InitialLimit
  BY DEF Init, EmptyPool
<1>2. ok \in Health /\ CoolingOK(ok, 0) /\ ~ok.inflight
  <2>1. /\ FreshHealth \in Health /\ FreshHealth.consecutiveLimited = 0
        /\ FreshHealth.cooldownUntil = 0 /\ ~FreshHealth.inflight
    BY DEF FreshHealth, Health, ExitStates
  <2>2. ok \in Health /\ ok.consecutiveLimited = 0 /\ ok.cooldownUntil = 0 /\ ~ok.inflight
    BY <2>1 DEF Health, ExitStates
  <2> HIDE DEF ok
  <2>3. 0 <= 0 + CooldownMax
    BY ConstantsAssumption
  <2> QED
    BY <2>2, <2>3 DEF CoolingOK
<1> HIDE DEF ok
<1>3. FreeNode \in Node /\ FreeNode.exitIP = NoIP
  BY DEF FreeNode, Node, Sources
<1>4. IsPool(pool)
  <2>1. IsMap(pool.nodes, Exits, Node)
    BY <1>1, <1>3 DEF IsMap
  <2>2. IsMap(pool.health, Exits, Health)
    BY <1>1, <1>2 DEF IsMap
  <2>3. IsMap(pool.bans, Exits \X Models, Ban) /\ IsMap(pool.sticky, Sessions, Exits)
    BY <1>1 DEF IsMap
  <2> QED
    BY <1>1, <2>1, <2>2, <2>3 DEF IsPool
<1>5. TableOK(pool)
  BY <1>1, <1>3, <1>4 DEF TableOK
<1>6. PoolInv(pool, 0)
  BY <1>1, <1>2, <1>5 DEF PoolInv, SignalsOK
<1>7. Locked(pool) = {}
  BY <1>1, <1>2 DEF Locked
<1>8. Listed(queue) /\ Items(queue) = {}
  BY <1>1 DEF Listed, Items
<1>9. SchedOK(pool, queue, running)
  BY <1>1, <1>6, <1>7, <1>8, FS_EmptySet DEF SchedOK, Holding
<1> QED
  BY <1>1, <1>8, <1>9 DEF IInv, Served, WaitersOK, Init

LEMMA WakeKeeps == ASSUME WaitersOK, WakeIfIdle PROVE WaitersOK'
  BY DEF WaitersOK, WakeIfIdle

\* One more task at the end of the queue.
LEMMA AppendListed ==
  ASSUME NEW q, Listed(q), NEW t \in Tasks, t \notin Items(q)
  PROVE  Listed(Append(q, t)) /\ Items(Append(q, t)) = Items(q) \cup {t}
<1> DEFINE s == Append(q, t)
<1>1. /\ s \in Seq(Tasks) /\ Len(q) \in Nat
      /\ DOMAIN s = 1 .. (Len(q) + 1) /\ DOMAIN q = 1 .. Len(q)
      /\ s[Len(q) + 1] = t /\ \A i \in 1 .. Len(q) : s[i] = q[i]
  BY LenProperties DEF Listed
<1> HIDE DEF s
<1>2. Items(s) = Items(q) \cup {t}
  <2>1. Items(s) \subseteq Items(q) \cup {t}
    <3> SUFFICES ASSUME NEW i \in 1 .. (Len(q) + 1) PROVE s[i] \in Items(q) \cup {t}
      BY <1>1 DEF Items
    <3>1. i = Len(q) + 1 \/ i \in 1 .. Len(q)
      BY <1>1
    <3> QED
      BY <1>1, <3>1 DEF Items
  <2>2. t \in Items(s)
    <3>1. Len(q) + 1 \in DOMAIN s
      BY <1>1
    <3> QED
      BY <1>1, <3>1 DEF Items
  <2>3. \A i \in DOMAIN q : i \in DOMAIN s /\ q[i] = s[i]
    BY <1>1
  <2>4. Items(q) \subseteq Items(s)
    BY <2>3 DEF Items
  <2> QED
    BY <2>1, <2>2, <2>4
<1>3. \A i \in 1 .. Len(q) : s[i] # t
  BY <1>1 DEF Items
<1>4. ASSUME NEW i \in DOMAIN s, NEW j \in DOMAIN s, s[i] = s[j] PROVE i = j
  <2>1. (i = Len(q) + 1 \/ i \in 1 .. Len(q)) /\ (j = Len(q) + 1 \/ j \in 1 .. Len(q))
    BY <1>1
  <2> QED
    BY <1>1, <1>3, <1>4, <2>1 DEF Listed
<1> QED
  BY <1>1, <1>2, <1>4 DEF Listed, s

LEMMA EnqueueKeeps == ASSUME IInv, NEW t \in Tasks, Enqueue(t) PROVE IInv'
<1> DEFINE q == Append(queue, t)
<1>1. t \notin Items(queue) /\ t \notin running /\ t \notin settled
  BY DEF Enqueue, Queued, Items
<1>2. Listed(q) /\ Items(q) = Items(queue) \cup {t}
  BY <1>1, AppendListed DEF IInv, SchedOK
<1> HIDE DEF q
<1>3. SchedOK(pool, q, running)
  BY <1>1, <1>2 DEF IInv, SchedOK
<1>4. Pump(pool, q, running, maxConcurrent) /\ WakeIfIdle /\ maxConcurrent' = maxConcurrent
      /\ settled' = settled
  BY DEF Enqueue, q
<1>5. /\ SchedOK(pool', queue', running')
      /\ Served(pool', queue', running', maxConcurrent)
      /\ Items(queue') \cup running' = Items(q) \cup running
  <2>1. maxConcurrent \in Nat
    BY DEF IInv
  <2> QED
    BY <1>3, <1>4, <2>1, PumpKeeps
<1>6. settled' \cap (Items(queue') \cup running') = {}
  BY <1>1, <1>2, <1>4, <1>5 DEF IInv
<1> QED
  BY <1>4, <1>5, <1>6, WakeKeeps DEF IInv

\* A task that is no longer running gives its exit's lock back.
LEMMA ReleaseKeeps ==
  ASSUME NEW p, NEW q, NEW run, SchedOK(p, q, run), NEW t \in run
  PROVE  SchedOK(ReleaseProbeLock(p, ExitOf[t]), q, run \ {t})
<1> DEFINE e == ExitOf[t]
           h == [p.health[e] EXCEPT !.inflight = FALSE]
           r == ReleaseProbeLock(p, e)
<1>1. PoolInv(r, 0) /\ r.nodes = p.nodes
  <2>1. PoolInv(p, 0) /\ IsPool(p)
    BY DEF SchedOK, PoolInv, TableOK
  <2>2. PoolInv(r, 0)
    BY <2>1, HealthMarksKeep
  <2>3. Kept(p, r)
    BY <2>1, HealthOnly
  <2> QED
    BY <2>2, <2>3 DEF Kept
<1>2. r = UpdateHealth(p, e, h)
  BY DEF ReleaseProbeLock
<1>3. Locked(r) = Locked(p) \ {e}
  <2>1. Locked(r) \subseteq Locked(p) \ {e}
    BY MarksEffect DEF SchedOK, Quieter
  <2>2. ASSUME NEW a \in Locked(p) \ {e} PROVE a \in Locked(r)
    <3>1. a \in DOMAIN p.health /\ p.health[a].inflight
      BY DEF Locked
    <3>2. a \in DOMAIN r.health /\ r.health[a] = p.health[a]
      BY <1>2, <2>2, <3>1 DEF UpdateHealth, SchedOK, PoolInv, TableOK, IsPool, IsMap
    <3> QED
      BY <3>1, <3>2 DEF Locked
  <2> QED
    BY <2>1, <2>2
<1>4. IsFiniteSet(run \ {t})
  BY FS_RemoveElement DEF SchedOK
<1> HIDE DEF r, h
<1>5. Holding(r, run \ {t})
  BY <1>3 DEF SchedOK, Holding
<1> QED
  BY <1>1, <1>4, <1>5 DEF SchedOK, r

LEMMA SettleKeeps == ASSUME IInv, NEW t \in Tasks, Settle(t) PROVE IInv'
<1> DEFINE p   == ReleaseProbeLock(pool, ExitOf[t])
           run == running \ {t}
<1>1. /\ t \in running /\ settled' = settled \cup {t} /\ maxConcurrent' = maxConcurrent
      /\ Pump(p, queue, run, maxConcurrent) /\ WakeIfIdle
  BY DEF Settle
<1>2. SchedOK(p, queue, run)
  BY <1>1, ReleaseKeeps DEF IInv
<1> HIDE DEF p
<1>3. /\ SchedOK(pool', queue', running')
      /\ Served(pool', queue', running', maxConcurrent)
      /\ Items(queue') \cup running' = Items(queue) \cup run
  <2>1. maxConcurrent \in Nat
    BY DEF IInv
  <2> QED
    BY <1>1, <1>2, <2>1, PumpKeeps
<1>4. settled' \cap (Items(queue') \cup running') = {}
  BY <1>1, <1>3 DEF IInv, SchedOK
<1> QED
  BY <1>1, <1>3, <1>4, WakeKeeps DEF IInv

LEMMA SetMaxConcurrentKeeps ==
  ASSUME IInv, NEW value \in Limits, SetMaxConcurrent(value) PROVE IInv'
<1>1. /\ maxConcurrent' = IF value > 1 THEN value ELSE 1
      /\ Pump(pool, queue, running, maxConcurrent') /\ WakeIfIdle /\ settled' = settled
  BY DEF SetMaxConcurrent
<1>2. maxConcurrent' \in Nat \ {0}
  BY <1>1
<1>3. /\ SchedOK(pool', queue', running')
      /\ Served(pool', queue', running', maxConcurrent')
      /\ Items(queue') \cup running' = Items(queue) \cup running
  BY <1>1, <1>2, PumpKeeps DEF IInv
<1> QED
  BY <1>1, <1>2, <1>3, WakeKeeps DEF IInv

LEMMA CheckDrainedKeeps == ASSUME IInv, NEW w \in Waiters, CheckDrained(w) PROVE IInv'
<1>1. WaitersOK'
  BY DEF CheckDrained, IInv, WaitersOK
<1> QED
  BY <1>1 DEF CheckDrained, IInv

(***************************************************************************)
(* The other users of the pool leave the steady exits alone, and take no   *)
(* lock.                                                                   *)
(***************************************************************************)
LEMMA OthersWrite ==
  ASSUME NEW p, PoolInv(p, 0), NEW e \in Exits,
         NEW r \in {MarkOk(Add(p, e, FreeNode), e), MarkDeadStrike(p, e), Remove(p, e)}
  PROVE  /\ PoolInv(r, 0)
         /\ Locked(r) \subseteq Locked(p)
         /\ \A a \in DOMAIN p.nodes \ {e} :
              a \in DOMAIN r.nodes /\ (a \in Locked(p) => a \in Locked(r))
<1> DEFINE keeps(s, u) == \A a \in DOMAIN s.nodes \ {e} :
             a \in DOMAIN u.nodes /\ (a \in Locked(s) => a \in Locked(u))
<1>1. FreeNode \in Node
  BY DEF FreeNode, Node, Sources
<1>2. ASSUME NEW s, PoolInv(s, 0), NEW h PROVE keeps(s, UpdateHealth(s, e, h))
  BY <1>2 DEF UpdateHealth, Locked, PoolInv, TableOK, IsPool, IsMap
<1>3. keeps(p, Remove(p, e))
  BY RemoveEffect, RemoveKeeps DEF Locked, PoolInv, TableOK
<1>4. CASE r = MarkOk(Add(p, e, FreeNode), e)
  <2> DEFINE s == Add(p, e, FreeNode)
  <2>1. PoolInv(s, 0) /\ Locked(s) \subseteq Locked(p)
    BY <1>1, AddKeeps, AddEffect
  <2>2. keeps(p, s)
    BY DEF Add, Put, Locked, PoolInv, TableOK, IsPool, IsMap
  <2> HIDE DEF s
  <2>3. PoolInv(MarkOk(s, e), 0) /\ Locked(MarkOk(s, e)) \subseteq Locked(s)
    BY <2>1, HealthMarksKeep, MarksEffect
  <2>4. keeps(s, MarkOk(s, e))
    BY <1>2, <2>1 DEF MarkOk
  <2>5. r = MarkOk(s, e)
    BY <1>4 DEF s
  <2> QED
    BY <2>1, <2>2, <2>3, <2>4, <2>5
<1>5. CASE r = MarkDeadStrike(p, e)
  <2>1. PoolInv(r, 0) /\ Locked(r) \subseteq Locked(p)
    BY <1>5, StrikeKeeps, StrikeQuiets DEF Quieter
  <2>2. keeps(p, r)
    BY <1>2, <1>3, <1>5 DEF MarkDeadStrike
  <2> QED
    BY <2>1, <2>2
<1>6. CASE r = Remove(p, e)
  BY <1>3, <1>6, RemoveKeeps, RemoveEffect DEF Quieter
<1> QED
  BY <1>4, <1>5, <1>6

LEMMA OthersKeep ==
  ASSUME IInv, NEW e \in Exits, Admit(e) \/ StrikeDead(e) \/ Evict(e) PROVE IInv'
<1>1. /\ pool' \in {MarkOk(Add(pool, e, FreeNode), e), MarkDeadStrike(pool, e),
                    Remove(pool, e)}
      /\ e \notin Steady
      /\ UNCHANGED <<maxConcurrent, queue, running, settled, drained, waiting>>
  BY DEF Admit, StrikeDead, Evict, Elsewhere
<1>2. /\ PoolInv(pool', 0) /\ Locked(pool') \subseteq Locked(pool)
      /\ \A a \in DOMAIN pool.nodes \ {e} :
           a \in DOMAIN pool'.nodes /\ (a \in Locked(pool) => a \in Locked(pool'))
  BY <1>1, OthersWrite DEF IInv, SchedOK
<1>3. Steady \subseteq DOMAIN pool.nodes \ {e}
  BY <1>1 DEF IInv, SchedOK
<1>4. Holding(pool', running)
  BY <1>2, <1>3 DEF IInv, SchedOK, Holding
<1>5. SchedOK(pool', queue, running)
  BY <1>2, <1>3, <1>4 DEF IInv, SchedOK
<1>6. Served(pool', queue, running, maxConcurrent)
  BY <1>2, <1>3 DEF IInv, Served
<1> QED
  BY <1>1, <1>5, <1>6 DEF IInv, WaitersOK

LEMMA NextIInv == IInv /\ [Next]_vars => IInv'
<1> SUFFICES ASSUME IInv, [Next]_vars PROVE IInv'
  OBVIOUS
<1>1. CASE UNCHANGED vars
  BY <1>1 DEF vars, IInv, WaitersOK
<1>2. CASE Next
  BY <1>2, EnqueueKeeps, SettleKeeps, SetMaxConcurrentKeeps, CheckDrainedKeeps, OthersKeep
     DEF Next
<1> QED
  BY <1>1, <1>2

LEMMA InductiveInvariant == Spec => []IInv
<1>1. IInv /\ [Next]_vars => IInv'
  BY NextIInv
<1> QED
  BY <1>1, InitIInv, PTL DEF Spec

\* The queue is as long as it has tasks.
LEMMA ListedCounts == ASSUME NEW q, Listed(q) PROVE Cardinality(Items(q)) = Len(q)
<1>1. q \in [1 .. Len(q) -> Items(q)] /\ Len(q) \in Nat
  BY DEF Listed, Items
<1>2. q \in Bijection(1 .. Len(q), Items(q))
  BY <1>1 DEF Listed, Items, Bijection, Injection, Surjection, IsInjective
<1> QED
  BY <1>1, <1>2, FS_CountingElements DEF ExistsBijection

(***************************************************************************)
(* The theorems.                                                           *)
(***************************************************************************)

\* The scheduler's bookkeeping: a task is queued, running or settled, and once
\* only; every lock of the pool has a running probe behind it, whatever is
\* evicted, readmitted or struck meanwhile; and no task waits behind another
\* exit's lock while a slot is free.
THEOREM SchedulerSound == Spec => []ProberInv
<1>1. ASSUME IInv PROVE ProberInv
  <2>1. Items(queue) = Queued
    BY DEF Items, Queued
  <2>2. Cardinality(Queued) = Len(queue)
    BY <1>1, <2>1, ListedCounts DEF IInv, SchedOK
  <2>3. TypeOK
    BY <1>1, <2>1, <2>2
       DEF IInv, SchedOK, Listed, PoolInv, TableOK, WaitersOK, TypeOK
  <2>4. LocksBelongToProbes
    BY <1>1 DEF IInv, SchedOK, Holding, Locked, LocksBelongToProbes
  <2>5. NoHeadOfLineBlocking
    BY <1>1, <2>1 DEF IInv, SchedOK, PoolInv, TableOK, Served, Locked, NoHeadOfLineBlocking
  <2> QED
    BY <2>3, <2>4, <2>5 DEF ProberInv
<1> QED
  BY <1>1, InductiveInvariant, PTL

\* As long as nobody else writes an exit's health record, two probes of it never
\* run together.
THEOREM OneProbePerExit == Spec => []SteadySerial
<1>1. ASSUME IInv PROVE SteadySerial
  BY <1>1 DEF IInv, SchedOK, Holding, SteadySerial
<1> QED
  BY <1>1, InductiveInvariant, PTL
=============================================================================
