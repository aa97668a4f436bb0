---------------------------- MODULE Probes_proofs ----------------------------
(***************************************************************************)
(* Proofs about Probes, for every set of exits, models and echoes, any     *)
(* number of workers and probes and every value of the bounds.             *)
(***************************************************************************)
EXTENDS Probes, ExitPoolOps_proofs

USE ConstantsAssumption, ProbesAssumption

\* The records of TypeOK.
Task == [pc: {"unused", "queued", "echo", "models", "smoke", "done"},
         entry: Node, model: DOMAIN ProbeModels, facts: Node]

\* A running task has the lock of its exit, or nobody has.
LocksHeld == Locked(pool) \subseteq {t[1] : t \in Running}

\* FreeServesOnSuccess, as a relation of sets.
AliveAnswered == AliveFree(pool) \subseteq answered \cup ReadAsTrusted

\* Whoever passed the echo has measured an exit IP.
FactsMeasured ==
  \A t \in Tasks : task[t].pc \in {"models", "smoke"} => task[t].facts.exitIP # NoIP

IInv ==
  /\ TypeOK
  /\ PoolInv(pool, Now)
  /\ LocksHeld
  /\ AliveAnswered
  /\ FactsMeasured

LEMMA NowNat == Now \in Nat
  BY DEF Now

LEMMA BareNode ==
  /\ Bare \in Node /\ Unused \in Task
  /\ \A ip \in ExitIPs : \A latency \in Nat :
       [Bare EXCEPT !.exitIP = ip, !.latencyMs = latency] \in Node
<1>1. Bare \in Node
  BY DEF Bare, Node, Sources, Now
<1>2. 1 \in DOMAIN ProbeModels
  OBVIOUS
<1>3. Unused \in Task
  BY <1>1, <1>2 DEF Unused, Task
<1>4. \A ip \in ExitIPs : \A latency \in Nat :
        [Bare EXCEPT !.exitIP = ip, !.latencyMs = latency] \in Node
  BY <1>1 DEF Node
<1> QED
  BY <1>1, <1>3, <1>4

LEMMA FallbackNode ==
  ASSUME IInv, NEW t \in Tasks
  PROVE  Fallback(t) \in Node /\ Fallback(t).exitIP = task[t].entry.exitIP
<1>1. task[t].entry \in Node
  BY DEF IInv, TypeOK
<1> QED
  BY <1>1, NowNat DEF Node, Fallback

LEMMA InitIInv == Init => IInv
<1> SUFFICES ASSUME Init PROVE IInv
  OBVIOUS
<1>1. /\ pool = [nodes |-> << >>, health |-> << >>, bans |-> << >>, sticky |-> << >>,
                 passive |-> {}, pinned |-> NoExit, target |-> Target]
      /\ answered = {} /\ joins = 0 /\ signals = 0
  BY DEF Init, EmptyPool
<1>2. task \in [Tasks -> Task] /\ \A t \in Tasks : task[t].pc = "unused"
  <2>1. \A t \in Tasks : task[t] = Unused
    BY DEF Init
  <2>2. Unused.pc = "unused"
    BY DEF Unused
  <2> QED
    BY <2>1, <2>2, BareNode DEF Init
<1>3. TableOK(pool) /\ SignalsOK(pool, Now)
  BY <1>1 DEF TableOK, IsPool, IsMap, SignalsOK
<1>4. TypeOK
  BY <1>1, <1>2, <1>3 DEF TypeOK, Task, TableOK
<1>5. LocksHeld /\ AliveAnswered
  BY <1>1 DEF LocksHeld, Locked, AliveAnswered, AliveFree, FreeExits
<1>6. FactsMeasured
  BY <1>2 DEF FactsMeasured
<1> QED
  BY <1>3, <1>4, <1>5, <1>6 DEF IInv, PoolInv

(***************************************************************************)
(* What a step of one task does.                                           *)
(***************************************************************************)

\* Only task t changes, and it keeps the node it read.
Advances(t) ==
  /\ task' \in [Tasks -> Task]
  /\ \A u \in Tasks \ {t} : task'[u] = task[u]
  /\ task'[t].pc # "unused" /\ task'[t].entry = task[t].entry
  /\ task'[t].pc \in {"models", "smoke"} => task'[t].facts.exitIP # NoIP

LEMMA AdvancesKeeps ==
  ASSUME IInv, NEW t \in Tasks, task[t].pc # "unused", Advances(t)
  PROVE  ReadAsTrusted' = ReadAsTrusted /\ FactsMeasured'
  BY DEF Advances, ReadAsTrusted, IInv, FactsMeasured

\* A step of t that ends with pool p, before the lock may be released: the
\* invariant's conjuncts on the table and the locks follow.
LEMMA EndsEffect ==
  ASSUME IInv, NEW t \in Tasks, t \in Running,
         NEW p, PoolInv(p, Now), Locked(p) \subseteq Locked(pool), Ends(t, p)
  PROVE  /\ PoolInv(pool', Now) /\ LocksHeld' /\ Advances(t)
         /\ AliveFree(pool') \subseteq AliveFree(p)
         /\ pool'.nodes = p.nodes
<1>1. pool' = ReleaseProbeLock(p, t[1])
  BY DEF Ends
<1>2. /\ PoolInv(pool', Now) /\ Locked(pool') \subseteq Locked(p) \ {t[1]}
      /\ AliveFree(pool') \subseteq AliveFree(p)
  BY <1>1, NowNat, HealthMarksKeep, MarksEffect DEF Quieter
<1>3. Advances(t)
  <2> DEFINE r == [Unused EXCEPT !.pc = "done", !.entry = task[t].entry]
  <2>1. r \in Task /\ r.pc = "done" /\ r.entry = task[t].entry
    <3>1. task[t].entry \in Node
      BY DEF IInv, TypeOK
    <3> QED
      BY <3>1, BareNode DEF Task
  <2>2. task \in [Tasks -> Task] /\ task' = [task EXCEPT ![t] = r]
    BY DEF IInv, TypeOK, Task, Ends
  <2> HIDE DEF r
  <2> QED
    BY <2>1, <2>2 DEF Advances
<1>4. LocksHeld'
  <2>1. \A u \in Running : u[1] # t[1] => u \in Running'
    BY <1>3 DEF Advances, Running
  <2> QED
    BY <1>2, <2>1 DEF IInv, LocksHeld
<1>5. pool'.nodes = p.nodes
  BY <1>1, HealthOnly DEF PoolInv, TableOK, Kept
<1> QED
  BY <1>2, <1>3, <1>4, <1>5

LEMMA ContinuesEffect ==
  ASSUME IInv, NEW t \in Tasks, t \in Running,
         NEW p, PoolInv(p, Now), Locked(p) \subseteq Locked(pool), Continues(t, p)
  PROVE  /\ PoolInv(pool', Now) /\ LocksHeld' /\ Advances(t)
         /\ AliveFree(pool') \subseteq AliveFree(p)
         /\ pool'.nodes = p.nodes
<1>1. CASE task[t].model = Len(ProbeModels)
  BY <1>1, EndsEffect DEF Continues
<1>2. CASE task[t].model # Len(ProbeModels)
  <2> DEFINE r == [task[t] EXCEPT !.pc = "echo", !.model = task[t].model + 1, !.facts = Bare]
  <2>1. task \in [Tasks -> Task] /\ task' = [task EXCEPT ![t] = r] /\ pool' = p
    <3>1. task \in [Tasks -> Task]
      BY DEF IInv, TypeOK, Task
    <3> QED
      BY <1>2, <3>1 DEF Continues
  <2>2. r \in Task /\ r.pc = "echo" /\ r.entry = task[t].entry
    <3>1. task[t].model + 1 \in DOMAIN ProbeModels
      BY <1>2, <2>1 DEF Task
    <3> QED
      BY <2>1, <3>1, BareNode DEF Task
  <2> HIDE DEF r
  <2>3. Advances(t)
    BY <2>1, <2>2 DEF Advances
  <2>4. Running \subseteq Running'
    BY <2>1, <2>2 DEF Running
  <2> QED
    BY <2>1, <2>3, <2>4 DEF IInv, LocksHeld
<1> QED
  BY <1>1, <1>2

\* An admission writes the node as one of the source the probe read; its exit
\* may be alive afterwards, no other exit is that was not.
LEMMA AdmitEffect ==
  ASSUME IInv, NEW t \in Tasks, t \in Running, NEW node \in Node,
         NEW limited \in BOOLEAN, Admit(t, node, limited)
  PROVE  /\ PoolInv(pool', Now) /\ LocksHeld' /\ Advances(t)
         /\ AliveFree(pool') \subseteq AliveFree(pool) \cup {t[1]}
         /\ \E written : written.exitIP = node.exitIP
                         /\ pool'.nodes = Add(pool, t[1], written).nodes
<1> DEFINE written == [node EXCEPT !.source = ProbedAs(task[t].entry.source)]
           p == Add(pool, t[1], written)
           m == ProbeModels[task[t].model]
           q == IF limited THEN MarkLimited(p, t[1], Now) ELSE MarkOkFor(p, t[1], m)
<1>1. t[1] \in Exits /\ m \in Models
  BY DEF Tasks, IInv, TypeOK
<1>2. written \in Node /\ written.exitIP = node.exitIP
  <2>1. ProbedAs(task[t].entry.source) \in Sources
    BY DEF IInv, TypeOK, Node, ProbedAs, Sources
  <2> QED
    BY <2>1 DEF Node
<1>3. Continues(t, q)
  BY DEF Admit
<1> HIDE DEF written, m
<1>4. /\ PoolInv(p, Now) /\ Locked(p) \subseteq Locked(pool)
      /\ AliveFree(p) \subseteq AliveFree(pool) \cup {t[1]}
  BY <1>1, <1>2, NowNat, AddKeeps, AddEffect DEF IInv
<1>5. /\ PoolInv(q, Now) /\ Locked(q) \subseteq Locked(p)
      /\ AliveFree(q) \subseteq AliveFree(p) \cup {t[1]}
      /\ q.nodes = p.nodes
  <2> HIDE DEF p
  <2>1. IsPool(p)
    BY <1>4 DEF PoolInv, TableOK
  <2>2. CASE limited
    <3>1. q = MarkLimited(p, t[1], Now)
      BY <2>2
    <3>2. Kept(p, MarkLimited(p, t[1], Now))
      BY <2>1, HealthOnly
    <3> HIDE DEF q
    <3> QED
      BY <1>4, <3>1, <3>2, NowNat, HealthMarksKeep, MarksEffect DEF Kept
  <2>3. CASE ~limited
    BY <1>1, <1>4, <2>1, <2>3, NowNat, BanMarksKeep, BansEffect, BansOnly DEF Kept
  <2> QED
    BY <2>2, <2>3
<1> HIDE DEF q
<1>6. /\ PoolInv(pool', Now) /\ LocksHeld' /\ Advances(t)
      /\ AliveFree(pool') \subseteq AliveFree(q) /\ pool'.nodes = q.nodes
  BY <1>3, <1>4, <1>5, ContinuesEffect
<1> QED
  BY <1>2, <1>4, <1>5, <1>6

\* A rejection strikes a free exit, so that it is not alive; for a trusted one
\* it is an admission, and the exit is one that a probe reads as trusted.
LEMMA RejectEffect ==
  ASSUME IInv, NEW t \in Tasks, t \in Running, Reject(t)
  PROVE  /\ PoolInv(pool', Now) /\ LocksHeld' /\ Advances(t)
         /\ AliveFree(pool') \subseteq (AliveFree(pool) \ {t[1]}) \cup ReadAsTrusted
         /\ answered' = answered \ {t[1]}
<1>1. answered' = answered \ {t[1]} /\ t[1] \in Exits
  BY DEF Reject, Tasks
<1>2. CASE task[t].entry.source = "free"
  <2> DEFINE p == MarkDeadStrike(pool, t[1])
  <2>1. Ends(t, p)
    BY <1>2 DEF Reject
  <2>2. /\ PoolInv(p, Now) /\ Locked(p) \subseteq Locked(pool)
        /\ AliveFree(p) \subseteq AliveFree(pool) \ {t[1]}
    BY NowNat, StrikeKeeps, StrikeQuiets DEF IInv, Quieter
  <2> HIDE DEF p
  <2> QED
    BY <1>1, <2>1, <2>2, EndsEffect
<1>3. CASE task[t].entry.source # "free"
  <2>1. Fallback(t) \in Node
    BY FallbackNode
  <2>2. Admit(t, Fallback(t), FALSE)
    BY <1>3 DEF Reject
  <2>3. t[1] \in ReadAsTrusted
    BY <1>1, <1>3 DEF ReadAsTrusted, Running
  <2> QED
    BY <1>1, <2>1, <2>2, <2>3, AdmitEffect
<1> QED
  BY <1>2, <1>3

(***************************************************************************)
(* The invariant is inductive.                                             *)
(***************************************************************************)
LEMMA EnqueueKeeps ==
  ASSUME IInv, NEW exits, exits \subseteq DOMAIN pool.nodes, Enqueued(exits),
         UNCHANGED <<pool, answered, joins, signals>>
  PROVE  IInv'
<1>1. \A t \in UNION {NextProbe(e) : e \in exits} :
        t \in Tasks /\ t[1] \in exits /\ task[t].pc = "unused"
  BY DEF NextProbe
<1>2. \A t \in UNION {NextProbe(e) : e \in exits} :
        LET r == [Unused EXCEPT !.pc = "queued", !.entry = pool.nodes[t[1]]]
        IN  r \in Task /\ r.pc = "queued"
  <2>1. \A e \in exits : pool.nodes[e] \in Node
    BY DEF IInv, TypeOK, IsPool, IsMap
  <2> QED
    BY <1>1, <2>1, BareNode DEF Task
<1>3. /\ task' \in [Tasks -> Task]
      /\ \A t \in Tasks : \/ task'[t] = task[t]
                          \/ task[t].pc = "unused" /\ task'[t].pc = "queued"
  <2>1. task \in [Tasks -> Task]
    BY DEF IInv, TypeOK, Task
  <2> QED
    BY <1>1, <1>2, <2>1 DEF Enqueued
<1>4. TypeOK'
  BY <1>3 DEF IInv, TypeOK, Task
<1>5. Running' = Running /\ FactsMeasured'
  BY <1>3 DEF Running, FactsMeasured, IInv
<1>6. ReadAsTrusted \subseteq ReadAsTrusted'
  BY <1>3 DEF ReadAsTrusted
<1> QED
  BY <1>4, <1>5, <1>6, NowNat DEF IInv, LocksHeld, AliveAnswered, Now

LEMMA StartKeeps ==
  ASSUME IInv, NEW t \in Tasks, StartTask(t)
  PROVE  IInv'
<1>1. task[t].pc = "queued" /\ task' = [task EXCEPT ![t].pc = "echo"]
      /\ UNCHANGED <<answered, joins, signals>>
  BY DEF StartTask
<1>2. /\ task' \in [Tasks -> Task] /\ task'[t].pc = "echo"
      /\ task'[t].entry = task[t].entry
      /\ \A u \in Tasks \ {t} : task'[u] = task[u]
  BY <1>1 DEF IInv, TypeOK, Task
<1>3. Running' = Running \cup {t}
  BY <1>1, <1>2 DEF Running
<1>4. ReadAsTrusted' = ReadAsTrusted /\ FactsMeasured'
  BY <1>1, <1>2 DEF ReadAsTrusted, FactsMeasured, IInv
<1>5. /\ PoolInv(pool', Now) /\ Locked(pool') \subseteq Locked(pool) \cup {t[1]}
      /\ AliveFree(pool') \subseteq AliveFree(pool)
  <2>1. CASE pool' = pool
    BY <2>1 DEF IInv
  <2>2. CASE LockFree(pool, t[1]) /\ pool' = TakeProbeLock(pool, t[1])
    BY <2>2, NowNat, HealthMarksKeep, MarksEffect DEF IInv
  <2> QED
    BY <2>1, <2>2 DEF StartTask
<1>6. TypeOK'
  BY <1>1, <1>2, <1>5 DEF IInv, TypeOK, Task, PoolInv, TableOK
<1> QED
  BY <1>1, <1>3, <1>4, <1>5, <1>6 DEF IInv, LocksHeld, AliveAnswered, Now

\* A step of a running task, from what it leaves in the table.
LEMMA TaskStepKeeps ==
  ASSUME IInv, NEW t \in Tasks, t \in Running, Advances(t),
         PoolInv(pool', Now), LocksHeld',
         AliveFree(pool') \subseteq answered' \cup ReadAsTrusted,
         answered' \subseteq Exits, UNCHANGED <<joins, signals>>
  PROVE  IInv'
<1>1. ReadAsTrusted' = ReadAsTrusted /\ FactsMeasured'
  BY AdvancesKeeps DEF Running
<1>2. TypeOK'
  BY DEF IInv, TypeOK, Advances, Task, PoolInv, TableOK
<1> QED
  BY <1>1, <1>2 DEF IInv, AliveAnswered, Now

LEMMA RejectKeeps ==
  ASSUME IInv, NEW t \in Tasks, t \in Running, Reject(t), UNCHANGED <<joins, signals>>
  PROVE  IInv'
<1>1. /\ PoolInv(pool', Now) /\ LocksHeld' /\ Advances(t)
      /\ AliveFree(pool') \subseteq (AliveFree(pool) \ {t[1]}) \cup ReadAsTrusted
      /\ answered' = answered \ {t[1]}
  BY RejectEffect
<1>2. AliveFree(pool') \subseteq answered' \cup ReadAsTrusted /\ answered' \subseteq Exits
  BY <1>1 DEF IInv, AliveAnswered, TypeOK
<1> QED
  BY <1>1, <1>2, TaskStepKeeps

\* The node a smoke is answered for.
LEMMA SmokeEffect ==
  ASSUME IInv, NEW t \in Tasks, SmokeAnswers(t)
  PROVE  /\ t \in Running /\ task[t].facts \in Node /\ task[t].facts.exitIP # NoIP
         /\ \E limited \in BOOLEAN : Admit(t, task[t].facts, limited)
  BY DEF SmokeAnswers, Running, IInv, TypeOK, FactsMeasured

LEMMA ProbeStepKeeps ==
  ASSUME IInv, NEW t \in Tasks, ProbeStep(t)
  PROVE  IInv'
<1>1. CASE EchoAnswers(t)
  <2>1. t \in Running
    BY <1>1 DEF EchoAnswers, Running
  <2>2. PICK echo \in Echoes :
          IF ScreenPasses(t, echo)
          THEN /\ task' = [task EXCEPT ![t].pc = "models",
                                       ![t].facts = [Bare EXCEPT !.exitIP = echo.ip,
                                                                 !.latencyMs = echo.latency]]
               /\ UNCHANGED <<pool, answered>>
          ELSE Reject(t)
    BY <1>1 DEF EchoAnswers
  <2>3. UNCHANGED <<joins, signals>>
    BY <1>1 DEF EchoAnswers
  <2>4. CASE ~ScreenPasses(t, echo)
    BY <2>1, <2>2, <2>3, <2>4, RejectKeeps
  <2>5. CASE ScreenPasses(t, echo)
    <3> DEFINE facts == [Bare EXCEPT !.exitIP = echo.ip, !.latencyMs = echo.latency]
    <3>1. facts \in Node /\ facts.exitIP # NoIP
      <4>1. echo.ip \in ExitIPs /\ echo.latency \in Nat
        OBVIOUS
      <4>2. facts.exitIP = echo.ip
        BY DEF Bare
      <4> QED
        BY <4>1, <4>2, BareNode
    <3>2. task \in [Tasks -> Task]
          /\ task' = [task EXCEPT ![t].pc = "models", ![t].facts = facts]
          /\ UNCHANGED <<pool, answered>>
      BY <2>2, <2>5 DEF IInv, TypeOK, Task
    <3> HIDE DEF facts
    <3>3. task'[t].pc = "models" /\ Advances(t)
      BY <3>1, <3>2 DEF Advances, Task
    <3>4. LocksHeld'
      <4>1. Running \subseteq Running'
        BY <3>2, <3>3 DEF Running, Advances
      <4> QED
        BY <3>2, <4>1 DEF IInv, LocksHeld
    <3> QED
      BY <2>1, <2>3, <3>2, <3>3, <3>4, TaskStepKeeps DEF IInv, AliveAnswered, TypeOK
  <2> QED
    BY <2>4, <2>5
<1>2. CASE ModelsAnswers(t)
  <2>1. /\ t \in Running /\ task[t].pc = "models" /\ task \in [Tasks -> Task]
        /\ task' = [task EXCEPT ![t].pc = "smoke"]
        /\ UNCHANGED <<pool, answered, joins, signals>>
    BY <1>2 DEF ModelsAnswers, Running, IInv, TypeOK, Task
  <2>2. task'[t].pc = "smoke" /\ Advances(t)
    BY <2>1 DEF Advances, Task, IInv, FactsMeasured
  <2>3. LocksHeld'
    <3>1. Running \subseteq Running'
      BY <2>1, <2>2 DEF Running, Advances
    <3> QED
      BY <2>1, <3>1 DEF IInv, LocksHeld
  <2> QED
    BY <2>1, <2>2, <2>3, TaskStepKeeps DEF IInv, AliveAnswered, TypeOK
<1>3. CASE SmokeAnswers(t)
  <2>1. PICK limited \in BOOLEAN : Admit(t, task[t].facts, limited)
    BY <1>3, SmokeEffect
  <2>2. /\ t \in Running /\ task[t].facts \in Node
        /\ answered' = answered \cup {t[1]} /\ UNCHANGED <<joins, signals>>
        /\ t[1] \in Exits
    BY <1>3, SmokeEffect DEF SmokeAnswers, Tasks
  <2>3. /\ PoolInv(pool', Now) /\ LocksHeld' /\ Advances(t)
        /\ AliveFree(pool') \subseteq AliveFree(pool) \cup {t[1]}
    BY <2>1, <2>2, AdmitEffect
  <2>4. /\ AliveFree(pool') \subseteq answered' \cup ReadAsTrusted
        /\ answered' \subseteq Exits
    BY <2>2, <2>3 DEF IInv, AliveAnswered, TypeOK
  <2> QED
    BY <2>2, <2>3, <2>4, TaskStepKeeps
<1>4. CASE StepFails(t)
  BY <1>4, RejectKeeps DEF StepFails, Running
<1> QED
  BY <1>1, <1>2, <1>3, <1>4 DEF ProbeStep

\* A step of the rest of the plugin, from what it leaves in the table.
LEMMA OtherStepKeeps ==
  ASSUME IInv, UNCHANGED task, PoolInv(pool', Now), Locked(pool') \subseteq Locked(pool),
         AliveFree(pool') \subseteq answered' \cup ReadAsTrusted,
         answered' \subseteq Exits, {joins', signals'} \subseteq Nat
  PROVE  IInv'
<1>1. TypeOK'
  BY DEF IInv, TypeOK, PoolInv, TableOK
<1>2. LocksHeld' /\ FactsMeasured'
  BY DEF IInv, LocksHeld, Running, FactsMeasured
<1>3. AliveAnswered'
  BY DEF IInv, AliveAnswered, ReadAsTrusted
<1> QED
  BY <1>1, <1>2, <1>3 DEF IInv, Now

LEMMA RefillKeeps ==
  ASSUME IInv, NEW e \in Exits, RefillAdmits(e)
  PROVE  IInv'
<1>1. /\ UNCHANGED <<task, signals>> /\ joins' \in Nat /\ signals' \in Nat
      /\ answered' = answered \cup {e} /\ answered' \subseteq Exits
  BY DEF RefillAdmits, Joins, IInv, TypeOK
<1>2. PICK echo \in {seen \in Echoes : seen.country \notin Blocked},
           p \in IF IsFreeFull(pool) /\ FreeExits(pool) # {}
                 THEN {Remove(pool, worst) : worst \in WorstFree(pool)} ELSE {pool} :
        LET node == [source |-> "free", exitIP |-> echo.ip, latencyMs |-> echo.latency,
                     addedAt |-> Now]
        IN  IF ~Accepts(p, e, node) THEN pool' = p
            ELSE \/ pool' = MarkOk(Add(p, e, node), e)
                 \/ pool' = MarkLimited(Add(p, e, node), e, Now)
  BY DEF RefillAdmits
<1> DEFINE node == [source |-> "free", exitIP |-> echo.ip, latencyMs |-> echo.latency,
                    addedAt |-> Now]
           q == Add(p, e, node)
<1>3. PoolInv(p, Now) /\ Quieter(pool, p)
  <2>1. CASE p = pool
    BY <2>1 DEF IInv, Quieter
  <2>2. ASSUME NEW worst, p = Remove(pool, worst) PROVE PoolInv(p, Now) /\ Quieter(pool, p)
    BY <2>2, NowNat, RemoveKeeps, RemoveEffect DEF IInv
  <2> QED
    BY <1>2, <2>1, <2>2
<1>4. node \in Node
  BY NowNat DEF Node, Sources
<1>5. pool' \in {p, MarkOk(q, e), MarkLimited(q, e, Now)}
  BY <1>2
<1> HIDE DEF node
<1>6. /\ PoolInv(q, Now) /\ Locked(q) \subseteq Locked(p)
      /\ AliveFree(q) \subseteq AliveFree(p) \cup {e}
  BY <1>3, <1>4, NowNat, AddKeeps, AddEffect
<1> HIDE DEF q
<1>7. /\ PoolInv(pool', Now) /\ Locked(pool') \subseteq Locked(pool)
      /\ AliveFree(pool') \subseteq AliveFree(pool) \cup {e}
  BY <1>3, <1>5, <1>6, NowNat, HealthMarksKeep, MarksEffect DEF Quieter
<1> QED
  BY <1>1, <1>7, OtherStepKeeps DEF IInv, AliveAnswered

LEMMA TrustedKeeps ==
  ASSUME IInv, NEW e \in Exits, TrustedJoins(e)
  PROVE  IInv'
<1>1. /\ UNCHANGED <<task, signals, answered>> /\ joins' \in Nat /\ signals' \in Nat
      /\ answered' \subseteq Exits
  BY DEF TrustedJoins, Joins, IInv, TypeOK
<1>2. PICK facts \in TrustedFacts :
        LET node == [Bare EXCEPT !.source = facts.source, !.exitIP = facts.exitIP]
        IN  pool' = IF Accepts(pool, e, node) THEN MarkOk(Add(pool, e, node), e) ELSE pool
  BY DEF TrustedJoins
<1> DEFINE node == [Bare EXCEPT !.source = facts.source, !.exitIP = facts.exitIP]
           q == Add(pool, e, node)
<1>3. node \in Node /\ node.source # "free"
  <2>1. facts.source \in Sources \ {"free"} /\ facts.exitIP \in ExitIPs \cup {NoIP}
    OBVIOUS
  <2> QED
    BY <2>1, BareNode DEF Node
<1>4. pool' = IF Accepts(pool, e, node) THEN MarkOk(q, e) ELSE pool
  BY <1>2
<1> HIDE DEF node
<1>5. CASE ~Accepts(pool, e, node)
  BY <1>1, <1>4, <1>5, OtherStepKeeps DEF IInv, AliveAnswered
<1>6. CASE Accepts(pool, e, node)
  <2>1. /\ PoolInv(q, Now) /\ Locked(q) \subseteq Locked(pool)
        /\ AliveFree(q) \subseteq AliveFree(pool) \cup {e}
        /\ e \notin FreeExits(q)
    BY <1>3, <1>6, NowNat, AddKeeps, AddEffect DEF IInv
  <2> HIDE DEF q
  <2>2. /\ PoolInv(MarkOk(q, e), Now) /\ Locked(MarkOk(q, e)) \subseteq Locked(q)
        /\ AliveFree(MarkOk(q, e)) \subseteq AliveFree(q) \cup {e}
    BY <2>1, NowNat, HealthMarksKeep, MarksEffect
  <2>3. e \notin AliveFree(MarkOk(q, e))
    <3>1. MarkOk(q, e).nodes = q.nodes
      BY <2>1, HealthOnly DEF PoolInv, TableOK, Kept
    <3> QED
      BY <2>1, <3>1 DEF AliveFree, FreeExits
  <2> QED
    BY <1>1, <1>4, <1>6, <2>1, <2>2, <2>3, OtherStepKeeps DEF IInv, AliveAnswered
<1> QED
  BY <1>5, <1>6

LEMMA RequestKeeps ==
  ASSUME IInv, NEW e \in Exits, RequestAnswers(e) \/ RequestBreaks(e)
  PROVE  IInv'
<1>1. UNCHANGED task /\ {joins', signals'} \subseteq Nat /\ Head(ProbeModels) \in Models
  BY DEF RequestAnswers, RequestBreaks, IInv, TypeOK
<1>2. CASE RequestAnswers(e)
  <2>1. PICK status \in {"2xx", "429"} :
          pool' = RecordPassive(pool, e, status, Head(ProbeModels), Now)
    BY <1>2 DEF RequestAnswers
  <2>2. status \in Statuses
    BY DEF Statuses
  <2>3. /\ PoolInv(pool', Now) /\ Locked(pool') \subseteq Locked(pool)
        /\ AliveFree(pool') \subseteq AliveFree(pool) \cup {e}
    BY <1>1, <2>1, <2>2, NowNat, PassiveKeeps, PassiveEffect DEF IInv
  <2>4. answered' = answered \cup {e}
    BY <1>2 DEF RequestAnswers
  <2> QED
    BY <1>1, <2>3, <2>4, OtherStepKeeps DEF IInv, AliveAnswered, TypeOK
<1>3. CASE RequestBreaks(e)
  <2>1. pool' = RecordPassiveTransport(pool, e) /\ answered' = answered \ {e}
    BY <1>3 DEF RequestBreaks
  <2>2. PoolInv(pool', Now) /\ Quieter(pool, pool') /\ e \notin AliveFree(pool')
    BY <1>1, <2>1, NowNat, PassiveKeeps, PassiveEffect DEF IInv
  <2> QED
    BY <1>1, <2>1, <2>2, OtherStepKeeps DEF IInv, AliveAnswered, TypeOK, Quieter
<1> QED
  BY <1>2, <1>3

LEMMA StepIInv == IInv /\ [Next]_vars => IInv'
<1> SUFFICES ASSUME IInv, [Next]_vars PROVE IInv'
  OBVIOUS
<1>1. CASE ProbeAll
  BY <1>1, EnqueueKeeps DEF ProbeAll
<1>2. ASSUME NEW e \in Exits, ProbeExit(e) PROVE IInv'
  BY <1>2, EnqueueKeeps DEF ProbeExit
<1>3. CASE UNCHANGED vars
  BY <1>3 DEF vars, IInv, TypeOK, LocksHeld, Running, AliveAnswered, ReadAsTrusted,
              FactsMeasured, Now
<1> QED
  BY <1>1, <1>2, <1>3, StartKeeps, ProbeStepKeeps, RefillKeeps, TrustedKeeps, RequestKeeps
     DEF Next

LEMMA Invariance == Spec => []IInv
  BY InitIInv, StepIInv, PTL DEF Spec

(***************************************************************************)
(* The theorems.                                                           *)
(***************************************************************************)

\* However probes, refills and requests overlap: two exits never share an exit
\* IP, and a held lock is that of a probe that runs.
THEOREM ProbesSound == Spec => []ProbesInv
<1>1. IInv => ProbesInv
  <2> SUFFICES ASSUME IInv PROVE ProbesInv
    OBVIOUS
  <2>1. ASSUME NEW e \in Measured(pool) PROVE ~HasExitIP(pool, pool.nodes[e].exitIP, e)
    BY <2>1 DEF IInv, PoolInv, TableOK, Measured, HasExitIP
  <2>2. ASSUME NEW e \in DOMAIN pool.health, pool.health[e].inflight
        PROVE  \E t \in Running : t[1] = e
    BY <2>2 DEF IInv, LocksHeld, Locked
  <2> QED
    BY <2>1, <2>2 DEF IInv, ProbesInv
<1> QED
  BY <1>1, Invariance, PTL

\* No overlap of probes and requests makes a free exit count as alive that did
\* not answer, unless a probe read it as the user's own.
THEOREM AliveByAnswer == Spec => []FreeServesOnSuccess
<1>1. IInv => FreeServesOnSuccess
  BY DEF IInv, AliveAnswered, AliveFree, FreeServesOnSuccess
<1> QED
  BY <1>1, Invariance, PTL

(***************************************************************************)
(* Exit IPs: what a step may forget.                                       *)
(***************************************************************************)

\* An exit with a measured exit IP that is in both tables still has one.
Remembers(p, q) == Measured(p) \cap DOMAIN q.nodes \subseteq Measured(q)

LEMMA AddForgets ==
  ASSUME NEW p, IsPool(p), NEW e, NEW node
  PROVE  LET q == Add(p, e, node)
         IN  /\ (Measured(p) \ {e}) \subseteq Measured(q)
             /\ node.exitIP # NoIP => Measured(p) \subseteq Measured(q)
<1> DEFINE q == Add(p, e, node)
<1>1. CASE ~Accepts(p, e, node)
  BY <1>1 DEF Add
<1>2. CASE Accepts(p, e, node)
  <2>1. /\ DOMAIN q.nodes = DOMAIN p.nodes \cup {e} /\ q.nodes[e] = node
        /\ \A a \in DOMAIN p.nodes \ {e} : q.nodes[a] = p.nodes[a]
    BY <1>2 DEF Add, Put, IsPool
  <2> HIDE DEF q
  <2> QED
    BY <2>1 DEF Measured, q
<1> QED
  BY <1>1, <1>2

LEMMA SignalRemembers ==
  ASSUME NEW p, PoolInv(p, Now), NEW e \in Exits, NEW m \in Models
  PROVE  /\ Remembers(p, MarkDeadStrike(p, e))
         /\ Remembers(p, RecordPassiveTransport(p, e))
         /\ \A status \in Statuses : Remembers(p, RecordPassive(p, e, status, m, Now))
<1>0. IsPool(p)
  BY DEF PoolInv, TableOK
<1>1. Remembers(p, MarkDeadStrike(p, e))
  <2>1. CASE Kept(p, MarkDeadStrike(p, e))
    BY <2>1 DEF Kept, Remembers, Measured
  <2>2. CASE MarkDeadStrike(p, e) = Remove(p, e)
    BY <2>2, RemoveEffect DEF Remembers, Measured
  <2> QED
    BY <1>0, <2>1, <2>2, StrikeEffect
<1>2. Remembers(p, RecordPassiveTransport(p, e))
  <2>1. CountPassive(MarkDeadStrike(p, e), e).nodes = MarkDeadStrike(p, e).nodes
    BY NowNat, StrikeKeeps, CountOnly DEF Kept
  <2> QED
    BY <1>1, <2>1 DEF RecordPassiveTransport, Remembers, Measured
<1>3. ASSUME NEW status \in Statuses PROVE Remembers(p, RecordPassive(p, e, status, m, Now))
  <2> DEFINE q == CASE status = "2xx"     -> MarkOkFor(p, e, m)
                    [] status = "429"     -> MarkLimited(p, e, Now)
                    [] status = "refused" -> MarkModelSignal(p, e, m)
                    [] status = "region"  -> MarkModelBanned(p, e, m)
                    [] OTHER              -> p
  <2>1. q \in {MarkOkFor(p, e, m), MarkLimited(p, e, Now), MarkModelSignal(p, e, m),
               MarkModelBanned(p, e, m), p}
    BY DEF Statuses
  <2>2. RecordPassive(p, e, status, m, Now)
          = IF e \notin DOMAIN p.nodes THEN p ELSE CountPassive(q, e)
    BY DEF RecordPassive
  <2> HIDE DEF q
  <2>3. PoolInv(q, Now) /\ q.nodes = p.nodes
    <3>1. /\ PoolInv(MarkOkFor(p, e, m), Now) /\ PoolInv(MarkLimited(p, e, Now), Now)
          /\ PoolInv(MarkModelSignal(p, e, m), Now) /\ PoolInv(MarkModelBanned(p, e, m), Now)
      BY NowNat, BanMarksKeep, HealthMarksKeep
    <3>2. /\ Kept(p, MarkOkFor(p, e, m)) /\ Kept(p, MarkLimited(p, e, Now))
          /\ Kept(p, MarkModelSignal(p, e, m)) /\ Kept(p, MarkModelBanned(p, e, m))
      BY <1>0, BansOnly, HealthOnly
    <3> QED
      BY <2>1, <3>1, <3>2 DEF Kept
  <2>4. CountPassive(q, e).nodes = p.nodes
    BY <2>3, CountOnly DEF Kept
  <2> QED
    BY <2>2, <2>4 DEF Remembers, Measured
<1> QED
  BY <1>1, <1>2, <1>3

\* A running task whose exit ReadMeasured vouches for forgets no exit IP.
LEMMA AdmitRemembers ==
  ASSUME IInv, NEW t \in Tasks, t \in Running, NEW node \in Node, node.exitIP # NoIP,
         NEW limited \in BOOLEAN, Admit(t, node, limited)
  PROVE  Remembers(pool, pool')
<1>1. PICK written : /\ written.exitIP = node.exitIP
                     /\ pool'.nodes = Add(pool, t[1], written).nodes
  BY AdmitEffect
<1>2. Measured(pool) \subseteq Measured(Add(pool, t[1], written))
  BY <1>1, AddForgets DEF IInv, TypeOK
<1> QED
  BY <1>1, <1>2 DEF Remembers, Measured

LEMMA RejectForgets ==
  ASSUME IInv, NEW t \in Tasks, t \in Running, Reject(t)
  PROVE  Measured(pool) \cap ReadMeasured \cap DOMAIN pool'.nodes \subseteq Measured(pool')
<1>0. IsPool(pool) /\ t[1] \in Exits /\ PoolInv(pool, Now)
  BY DEF IInv, TypeOK, Tasks
<1>1. CASE task[t].entry.source = "free"
  <2> DEFINE p == MarkDeadStrike(pool, t[1])
  <2>1. Ends(t, p) /\ PoolInv(p, Now) /\ Locked(p) \subseteq Locked(pool)
    BY <1>0, <1>1, NowNat, StrikeKeeps, StrikeQuiets DEF Reject, Quieter
  <2>2. ProbeModels[1] \in Models
    OBVIOUS
  <2>3. Remembers(pool, p)
    BY <1>0, <2>2, SignalRemembers
  <2> HIDE DEF p
  <2>4. pool'.nodes = p.nodes
    BY <2>1, EndsEffect
  <2> QED
    BY <2>3, <2>4 DEF Remembers, Measured
<1>2. CASE task[t].entry.source # "free"
  <2>1. Fallback(t) \in Node /\ Fallback(t).exitIP = task[t].entry.exitIP
    BY FallbackNode
  <2>2. Admit(t, Fallback(t), FALSE)
    BY <1>2 DEF Reject
  <2>3. CASE task[t].entry.exitIP # NoIP
    <3>1. Remembers(pool, pool')
      BY <2>1, <2>2, <2>3, AdmitRemembers
    <3> QED
      BY <3>1 DEF Remembers
  <2>4. CASE task[t].entry.exitIP = NoIP
    <3>1. t[1] \notin ReadMeasured
      BY <2>4 DEF ReadMeasured, Running
    <3>2. PICK written : pool'.nodes = Add(pool, t[1], written).nodes
      BY <2>1, <2>2, AdmitEffect
    <3>3. Measured(pool) \ {t[1]} \subseteq Measured(Add(pool, t[1], written))
      BY <1>0, AddForgets
    <3> QED
      BY <3>1, <3>2, <3>3 DEF Measured
  <2> QED
    BY <2>3, <2>4
<1> QED
  BY <1>1, <1>2

\* A refill forgets nothing that stays in the table, a trusted exit that joins
\* at most what was known of a free one.
LEMMA JoinForgets ==
  ASSUME IInv, NEW e \in Exits
  PROVE  /\ RefillAdmits(e) => Remembers(pool, pool')
         /\ TrustedJoins(e) =>
              Trusted(pool) \cap Measured(pool) \cap DOMAIN pool'.nodes \subseteq Measured(pool')
<1>0. IsPool(pool) /\ PoolInv(pool, Now)
  BY DEF IInv, TypeOK
<1>1. ASSUME NEW p, NEW node \in Node, PoolInv(p, Now)
      PROVE  /\ MarkOk(Add(p, e, node), e).nodes = Add(p, e, node).nodes
             /\ MarkLimited(Add(p, e, node), e, Now).nodes = Add(p, e, node).nodes
  <2>1. IsPool(Add(p, e, node))
    BY <1>1, NowNat, AddKeeps DEF PoolInv, TableOK
  <2> QED
    BY <2>1, HealthOnly DEF Kept
<1>2. ASSUME RefillAdmits(e) PROVE Remembers(pool, pool')
  <2>1. PICK echo \in {seen \in Echoes : seen.country \notin Blocked},
             p \in IF IsFreeFull(pool) /\ FreeExits(pool) # {}
                   THEN {Remove(pool, worst) : worst \in WorstFree(pool)} ELSE {pool} :
          LET node == [source |-> "free", exitIP |-> echo.ip, latencyMs |-> echo.latency,
                       addedAt |-> Now]
          IN  IF ~Accepts(p, e, node) THEN pool' = p
              ELSE \/ pool' = MarkOk(Add(p, e, node), e)
                   \/ pool' = MarkLimited(Add(p, e, node), e, Now)
    BY <1>2 DEF RefillAdmits
  <2> DEFINE node == [source |-> "free", exitIP |-> echo.ip, latencyMs |-> echo.latency,
                      addedAt |-> Now]
  <2>2. node \in Node /\ node.exitIP # NoIP
    BY NowNat DEF Node, Sources
  <2>3. pool' \in {p, MarkOk(Add(p, e, node), e), MarkLimited(Add(p, e, node), e, Now)}
    BY <2>1
  <2> HIDE DEF node
  <2>4. CASE p = pool
    <3>1. Measured(p) \subseteq Measured(Add(p, e, node))
      BY <1>0, <2>2, <2>4, AddForgets
    <3>2. pool'.nodes \in {p.nodes, Add(p, e, node).nodes}
      BY <1>0, <1>1, <2>2, <2>3, <2>4
    <3> QED
      BY <2>4, <3>1, <3>2 DEF Remembers, Measured
  <2>5. ASSUME NEW worst \in WorstFree(pool), p = Remove(pool, worst)
        PROVE  Remembers(pool, pool')
    <3>1. PoolInv(p, Now)
      BY <1>0, <2>5, NowNat, RemoveKeeps
    <3>2. DOMAIN p.nodes = DOMAIN pool.nodes \ {worst}
          /\ \A a \in DOMAIN p.nodes : p.nodes[a] = pool.nodes[a]
      BY <1>0, <2>5, RemoveEffect
    <3>3. e # worst
      BY <1>2 DEF RefillAdmits, WorstFree, FreeExits
    <3>4. Measured(p) \subseteq Measured(Add(p, e, node))
          /\ DOMAIN Add(p, e, node).nodes \subseteq DOMAIN p.nodes \cup {e}
      <4>1. IsPool(p)
        BY <3>1 DEF PoolInv, TableOK
      <4> QED
        BY <2>2, <4>1, AddForgets DEF Add, Put, IsPool
    <3>5. pool'.nodes \in {p.nodes, Add(p, e, node).nodes}
      BY <1>1, <2>2, <2>3, <3>1
    <3> QED
      BY <3>2, <3>3, <3>4, <3>5 DEF Remembers, Measured
  <2> QED
    BY <2>1, <2>4, <2>5
<1>3. ASSUME TrustedJoins(e)
      PROVE  Trusted(pool) \cap Measured(pool) \cap DOMAIN pool'.nodes \subseteq Measured(pool')
  <2>1. PICK facts \in TrustedFacts :
          LET node == [Bare EXCEPT !.source = facts.source, !.exitIP = facts.exitIP]
          IN  pool' = IF Accepts(pool, e, node) THEN MarkOk(Add(pool, e, node), e) ELSE pool
    BY <1>3 DEF TrustedJoins
  <2> DEFINE node == [Bare EXCEPT !.source = facts.source, !.exitIP = facts.exitIP]
  <2>2. node \in Node
    <3>1. facts.source \in Sources \ {"free"} /\ facts.exitIP \in ExitIPs \cup {NoIP}
      OBVIOUS
    <3> QED
      BY <3>1, BareNode DEF Node
  <2>3. pool' \in {pool, MarkOk(Add(pool, e, node), e)}
    BY <2>1
  <2> HIDE DEF node
  <2>4. e \notin Trusted(pool) \cap Measured(pool)
    BY <1>3 DEF TrustedJoins, Trusted, FreeExits, Measured
  <2>5. Measured(pool) \ {e} \subseteq Measured(Add(pool, e, node))
    BY <1>0, AddForgets
  <2>6. pool'.nodes \in {pool.nodes, Add(pool, e, node).nodes}
    BY <1>0, <1>1, <2>2, <2>3
  <2> QED
    BY <2>4, <2>5, <2>6 DEF Measured
<1> QED
  BY <1>2, <1>3

\* What is known of a trusted exit survives failed probes, when each pending
\* probe of it has read it.
THEOREM MeasurementsStay == Spec => MeasuredStays
<1> DEFINE Stays == Trusted(pool) \cap Measured(pool) \cap ReadMeasured \cap DOMAIN pool'.nodes
                      \subseteq Measured(pool')
<1>1. IInv /\ [Next]_vars => [Stays]_vars
  <2> SUFFICES ASSUME IInv, Next PROVE Stays
    OBVIOUS
  <2>0. IsPool(pool) /\ PoolInv(pool, Now)
    BY DEF IInv, TypeOK
  <2>1. CASE pool'.nodes = pool.nodes
    BY <2>1 DEF Measured
  <2>2. CASE Remembers(pool, pool')
    BY <2>2 DEF Remembers
  <2>3. CASE ProbeAll
    BY <2>1, <2>3 DEF ProbeAll
  <2>4. ASSUME NEW e \in Exits, ProbeExit(e) PROVE Stays
    BY <2>1, <2>4 DEF ProbeExit
  <2>5. ASSUME NEW t \in Tasks, StartTask(t) PROVE Stays
    <3>1. LockFree(pool, t[1]) => Kept(pool, TakeProbeLock(pool, t[1]))
      BY <2>0, HealthOnly
    <3> QED
      BY <2>1, <2>5, <3>1 DEF StartTask, Kept
  <2>6. ASSUME NEW t \in Tasks, ProbeStep(t) PROVE Stays
    <3>1. ASSUME t \in Running, Reject(t) PROVE Stays
      BY <3>1, RejectForgets
    <3>2. CASE EchoAnswers(t)
      BY <2>1, <3>1, <3>2 DEF EchoAnswers, Running
    <3>3. CASE ModelsAnswers(t)
      BY <2>1, <3>3 DEF ModelsAnswers
    <3>4. CASE SmokeAnswers(t)
      BY <2>2, <3>4, SmokeEffect, AdmitRemembers
    <3>5. CASE StepFails(t)
      BY <3>1, <3>5 DEF StepFails, Running
    <3> QED
      BY <2>6, <3>2, <3>3, <3>4, <3>5 DEF ProbeStep
  <2>7. ASSUME NEW e \in Exits, RefillAdmits(e) \/ TrustedJoins(e) PROVE Stays
    BY <2>2, <2>7, JoinForgets
  <2>8. ASSUME NEW e \in Exits, RequestAnswers(e) \/ RequestBreaks(e) PROVE Stays
    <3>1. Head(ProbeModels) \in Models /\ {"2xx", "429"} \subseteq Statuses
      BY DEF Statuses
    <3>2. Remembers(pool, pool')
      BY <2>0, <2>8, <3>1, SignalRemembers DEF RequestAnswers, RequestBreaks
    <3> QED
      BY <2>2, <3>2
  <2> QED
    BY <2>3, <2>4, <2>5, <2>6, <2>7, <2>8 DEF Next
<1> QED
  BY <1>1, Invariance, PTL DEF Spec, MeasuredStays
=============================================================================
