---------------------------- MODULE Refill_proofs ----------------------------
(***************************************************************************)
(* Proofs about Refill, for any exits, lists and capacities, any number of *)
(* schedulers whose rounds overlap, and any thresholds: the breaker counts *)
(* right, a round keeps its books, the pool is never overfilled, and an    *)
(* undisturbed round leaves a satisfied pool alone.                        *)
(***************************************************************************)
EXTENDS Refill, ExitPoolOps_proofs, FiniteSetTheorems

USE RefillAssumption

(***************************************************************************)
(* The inductive invariant.                                                *)
(***************************************************************************)
Entry == [fails: Nat, until: Nat]

\* A list rests exactly while its run of failures is unbroken.
EntryOK(entry, t) ==
  /\ entry \in Entry
  /\ entry.fails >= FailThreshold <=> entry.until > 0
  /\ entry.until <= t + SourceCooldown

\* Tasks are of survivors, and there are none before the screen.
RoundOK(r) ==
  /\ r \in Round
  /\ r.queued \cup r.claimed \subseteq DOMAIN r.facts
  /\ r.probing \subseteq r.claimed
  /\ r.phase = "idle" => r = NoRound
  /\ r.phase # "admit" => r.queued = {} /\ r.claimed = {}

BreakerTyped == breaker \in [Schedulers -> [DOMAIN ListOf -> Entry]]

PoolOK == PoolInv(pool, now) /\ now \in Nat /\ IsFiniteSet(DOMAIN pool.nodes)

BreakerOK ==
  /\ BreakerTyped
  /\ \A s \in Schedulers, src \in DOMAIN ListOf : EntryOK(breaker[s][src], now)

RoundsOK ==
  /\ timer \in [Schedulers -> {"new", "started", "stopped"}]
  /\ round \in [Schedulers -> Round] /\ \A s \in Schedulers : RoundOK(round[s])

IInv == PoolOK /\ BreakerOK /\ RoundsOK

(***************************************************************************)
(* The pool: an exit that joins, and how many free exits there are.        *)
(***************************************************************************)

\* An admission keeps the pool's invariant and adds one exit at most, which is
\* free only if the node is.
LEMMA InsertEffect ==
  ASSUME NEW p, now \in Nat, PoolInv(p, now), NEW e \in Exits, NEW node \in Node,
         NEW limited \in BOOLEAN
  PROVE  LET q == Insert(p, e, node, limited)
         IN  /\ PoolInv(q, now) /\ q.target = p.target
             /\ DOMAIN q.nodes \subseteq DOMAIN p.nodes \cup {e}
             /\ FreeExits(q) \subseteq FreeExits(p) \cup {e}
             /\ node.source # "free" => FreeExits(q) \subseteq FreeExits(p)
<1> DEFINE added == Add(p, e, node)
           q == Insert(p, e, node, limited)
<1>1. CASE ~Accepts(p, e, node)
  BY <1>1 DEF Insert
<1>2. CASE Accepts(p, e, node)
  <2>1. PoolInv(added, now)
    BY AddKeeps
  <2>2. added.nodes = Put(p.nodes, e, node) /\ added.target = p.target
    BY <1>2 DEF Add, PoolInv, TableOK, IsPool
  <2> HIDE DEF added
  <2>3. \A h : LET r == UpdateHealth(added, e, h)
               IN  r.nodes = added.nodes /\ r.target = added.target
    BY <2>1 DEF UpdateHealth, PoolInv, TableOK, IsPool
  <2>4. q \in {MarkOk(added, e), MarkLimited(added, e, now)}
    BY <1>2 DEF Insert, added
  <2> HIDE DEF q
  <2>5. PoolInv(q, now)
    BY <2>1, <2>4, HealthMarksKeep
  <2>6. q.nodes = added.nodes /\ q.target = added.target
    BY <2>3, <2>4 DEF MarkOk, MarkLimited
  <2>7. q.nodes = Put(p.nodes, e, node) /\ q.target = p.target
    BY <2>2, <2>6
  <2>8. /\ DOMAIN q.nodes = DOMAIN p.nodes \cup {e} /\ q.nodes[e] = node
        /\ \A a \in DOMAIN p.nodes \ {e} : q.nodes[a] = p.nodes[a]
    BY <2>7 DEF Put
  <2> QED
    BY <2>5, <2>7, <2>8 DEF FreeExits, q
<1> QED
  BY <1>1, <1>2

\* What a full pool drops for a new exit is one of its free exits.
LEMMA RoomEffect ==
  ASSUME NEW p, now \in Nat, PoolInv(p, now), NEW q \in MakesRoom(p)
  PROVE  /\ PoolInv(q, now) /\ q.target = p.target /\ DOMAIN q.nodes \subseteq DOMAIN p.nodes
         /\ \/ q = p /\ ~(IsFreeFull(p) /\ FreeExits(p) # {})
            \/ \E worst \in FreeExits(p) : FreeExits(q) = FreeExits(p) \ {worst}
<1>1. CASE IsFreeFull(p) /\ FreeExits(p) # {}
  <2>1. PICK worst \in WorstFree(p) : q = Remove(p, worst)
    BY <1>1 DEF MakesRoom
  <2>2. worst \in FreeExits(p) /\ q.target = p.target
    BY <2>1 DEF WorstFree, Remove
  <2>3. PoolInv(q, now)
    BY <2>1, RemoveKeeps
  <2>4. /\ DOMAIN q.nodes = DOMAIN p.nodes \ {worst}
        /\ \A a \in DOMAIN q.nodes : q.nodes[a] = p.nodes[a]
    BY <2>1, RemoveEffect
  <2>5. FreeExits(q) = FreeExits(p) \ {worst}
    BY <2>4 DEF FreeExits
  <2> QED
    BY <2>2, <2>3, <2>4, <2>5
<1>2. CASE ~(IsFreeFull(p) /\ FreeExits(p) # {})
  BY <1>2 DEF MakesRoom
<1> QED
  BY <1>1, <1>2

\* A strike drops an exit at most.
LEMMA StrikeShrinks ==
  ASSUME NEW p, now \in Nat, PoolInv(p, now), NEW e
  PROVE  LET q == MarkDeadStrike(p, e)
         IN  DOMAIN q.nodes \subseteq DOMAIN p.nodes /\ FreeExits(q) \subseteq FreeExits(p)
<1> DEFINE q == MarkDeadStrike(p, e)
<1>1. CASE Kept(p, q)
  BY <1>1 DEF Kept, FreeExits
<1>2. CASE q = Remove(p, e)
  <2>1. /\ DOMAIN q.nodes = DOMAIN p.nodes \ {e}
        /\ \A a \in DOMAIN q.nodes : q.nodes[a] = p.nodes[a]
    BY <1>2, RemoveEffect
  <2> QED
    BY <2>1 DEF FreeExits
<1> QED
  BY <1>1, <1>2, StrikeEffect DEF PoolInv, TableOK

\* The free exits of the pool can be counted, and so can those that count.
LEMMA CountFree ==
  ASSUME NEW p, IsFiniteSet(DOMAIN p.nodes)
  PROVE  /\ IsFiniteSet(FreeExits(p)) /\ Cardinality(FreeExits(p)) \in Nat
         /\ \A t : Cardinality(AvailableFree(p, t)) \in Nat
<1>1. FreeExits(p) \subseteq DOMAIN p.nodes
  BY DEF FreeExits
<1>2. ASSUME NEW t PROVE AvailableFree(p, t) \subseteq DOMAIN p.nodes
  BY DEF AvailableFree, FreeExits
<1> QED
  BY <1>1, <1>2, FS_Subset, FS_CardinalityType

(***************************************************************************)
(* The steps.                                                              *)
(***************************************************************************)
LEMMA NoRoundOK == RoundOK(NoRound)
  BY DEF NoRound, RoundOK, Round

LEMMA InitIInv == Init => IInv
<1> SUFFICES ASSUME Init PROVE IInv
  OBVIOUS
<1>1. /\ pool = [nodes |-> << >>, health |-> << >>, bans |-> << >>, sticky |-> << >>,
                 passive |-> {}, pinned |-> NoExit, target |-> InitialTarget]
      /\ now = 0
  BY DEF Init, EmptyPool
<1>2. TableOK(pool) /\ SignalsOK(pool, now)
  <2>1. TableOK(pool)
    BY <1>1 DEF TableOK, IsPool, IsMap
  <2>2. SignalsOK(pool, now)
    BY <1>1 DEF SignalsOK
  <2> QED
    BY <2>1, <2>2
<1>3. IsFiniteSet(DOMAIN pool.nodes)
  BY <1>1, FS_EmptySet
<1>4. BreakerOK
  <2> DEFINE none == [fails |-> 0, until |-> 0]
  <2>1. none \in Entry /\ EntryOK(none, 0)
    BY DEF Entry, EntryOK
  <2> QED
    BY <1>1, <2>1 DEF Init, BreakerOK, BreakerTyped
<1>5. RoundsOK
  BY NoRoundOK DEF Init, RoundsOK, RoundOK
<1> QED
  BY <1>1, <1>2, <1>3, <1>4, <1>5 DEF IInv, PoolOK, PoolInv

\* One round changes, to one that is in order.
LEMMA GoesKeeps ==
  ASSUME RoundsOK, NEW s \in Schedulers, NEW r, RoundOK(r), Goes(s, r), timer' = timer
  PROVE  RoundsOK'
  BY DEF RoundsOK, RoundOK, Goes

\* The round that enqueueAll leaves when a task has ended.
LEMMA LeavesKeeps ==
  ASSUME RoundsOK, NEW s \in Schedulers, NEW r, RoundOK(r), Leaves(s, r), timer' = timer
  PROVE  RoundsOK'
  BY GoesKeeps, NoRoundOK DEF Leaves

LEMMA TimerKeeps ==
  ASSUME IInv, NEW s \in Schedulers, Start(s) \/ Stop(s) PROVE IInv'
<1>1. RoundsOK'
  BY DEF IInv, RoundsOK, RoundOK, Start, Stop
<1> QED
  BY <1>1 DEF IInv, PoolOK, BreakerOK, BreakerTyped, Start, Stop

LEMMA TickRoundKeeps == ASSUME IInv, NEW s \in Schedulers, TickRound(s) PROVE IInv'
<1> DEFINE state == PoolState(pool, now)
           quota == IF AdmissionQuota(pool, now) < MaxPerRound
                    THEN AdmissionQuota(pool, now) ELSE MaxPerRound
           lists == IF state = "emergency" THEN Selected(state)
                    ELSE {i \in Selected(state) : CanUse(s, FreeSources[i])}
           phase == IF lists = {} THEN "coarse" ELSE "fetch"
           seen  == DOMAIN pool.nodes
           r == [NoRound EXCEPT !.phase = phase, !.state = state, !.quota = quota,
                                !.todo = lists, !.seen = seen]
<1>1. Goes(s, r) /\ timer' = timer /\ pool' = pool /\ now' = now
  BY DEF TickRound
<1>2. /\ state \in {"healthy", "warning", "critical", "emergency"}
      /\ lists \subseteq DOMAIN FreeSources /\ phase \in {"fetch", "coarse"}
      /\ seen \subseteq Exits
  BY DEF PoolState, Selected, IInv, PoolOK, PoolInv, TableOK, IsPool, IsMap
<1>3. quota \in Nat
  <2>1. /\ Cardinality(AvailableFree(pool, now)) \in Nat
        /\ pool.target \in Nat
    BY CountFree DEF IInv, PoolOK, PoolInv, TableOK, IsPool
  <2> QED
    BY <2>1 DEF AdmissionQuota
<1>4. BreakerOK'
  <2>1. ASSUME NEW entry, EntryOK(entry, now)
        PROVE  Reenabled(entry) \in Entry /\ EntryOK(Reenabled(entry), now)
    BY <2>1 DEF Reenabled, EntryOK, Entry, IInv, PoolOK
  <2>2. breaker' = breaker \/
          breaker' = [breaker EXCEPT ![s] = [src \in DOMAIN breaker[s] |->
            IF src \in FastSources THEN Reenabled(breaker[s][src]) ELSE breaker[s][src]]]
    BY DEF TickRound
  <2>3. DOMAIN breaker[s] = DOMAIN ListOf /\ BreakerTyped
        /\ \A q \in Schedulers, src \in DOMAIN ListOf :
             EntryOK(breaker[q][src], now) /\ breaker[q][src] \in Entry
    BY DEF IInv, BreakerOK, BreakerTyped
  <2> DEFINE new == [src \in DOMAIN breaker[s] |->
               IF src \in FastSources THEN Reenabled(breaker[s][src]) ELSE breaker[s][src]]
  <2>4. new \in [DOMAIN ListOf -> Entry] /\ \A src \in DOMAIN ListOf : EntryOK(new[src], now)
    BY <2>1, <2>3
  <2> HIDE DEF new
  <2>5. CASE breaker' = [breaker EXCEPT ![s] = new]
    BY <1>1, <2>3, <2>4, <2>5 DEF BreakerOK, BreakerTyped
  <2> QED
    BY <1>1, <2>2, <2>3, <2>5 DEF BreakerOK, BreakerTyped, new
<1> HIDE DEF state, quota, lists, phase, seen
<1>5. RoundOK(r)
  <2>1. /\ NoRound \in Round /\ NoRound.queued = {} /\ NoRound.probing = {}
        /\ NoRound.claimed = {}
    BY NoRoundOK DEF RoundOK, NoRound
  <2>2. /\ r \in Round /\ r.phase = phase /\ r.queued = {} /\ r.probing = {}
        /\ r.claimed = {}
    BY <1>2, <1>3, <2>1 DEF Round
  <2> HIDE DEF r
  <2> QED
    BY <1>2, <2>2 DEF RoundOK
<1>6. RoundsOK'
  BY <1>1, <1>5, GoesKeeps DEF IInv
<1> QED
  BY <1>1, <1>4, <1>6 DEF IInv, PoolOK

\* The outcome of one list, in the breaker and in the round.
LEMMA FetchKeeps ==
  ASSUME IInv, NEW s \in Schedulers, NEW i \in DOMAIN FreeSources,
         FetchAnswers(s, i) \/ FetchFails(s, i)
  PROVE  IInv'
<1> DEFINE src == FreeSources[i]
<1>1. src \in DOMAIN ListOf /\ ListOf[src] \subseteq Exits
  OBVIOUS
<1>2. /\ timer' = timer /\ pool' = pool /\ now' = now
      /\ \E rows \in SUBSET Exits : Fetched(s, i, rows)
  BY <1>1 DEF FetchAnswers, FetchFails
<1>3. PICK rows \in SUBSET Exits : Fetched(s, i, rows)
  BY <1>2
<1>4. RoundsOK'
  <2> DEFINE old == round[s]
             phase == IF old.todo = {i} THEN "coarse" ELSE "fetch"
             todo == old.todo \ {i}
             seen == old.seen \cup rows
             candidates == old.candidates \cup rows
             r == [old EXCEPT !.todo = todo, !.seen = seen, !.candidates = candidates,
                              !.phase = phase]
  <2>1. old.phase = "fetch" /\ Goes(s, r)
    BY <1>3 DEF Fetched
  <2>2. RoundOK(old)
    BY DEF IInv, RoundsOK
  <2>3. /\ phase \in {"coarse", "fetch"} /\ todo \subseteq DOMAIN FreeSources
        /\ seen \subseteq Exits /\ candidates \subseteq Exits
    BY <2>2 DEF RoundOK, Round
  <2> HIDE DEF old, phase, todo, seen, candidates
  <2>4. RoundOK(r)
    BY <2>1, <2>2, <2>3 DEF RoundOK, Round
  <2> QED
    BY <1>2, <2>1, <2>4, GoesKeeps DEF IInv
<1>5. PICK entry : breaker' = [breaker EXCEPT ![s] = [breaker[s] EXCEPT ![src] = entry]]
                   /\ EntryOK(entry, now)
  <2>1. EntryOK(breaker[s][src], now) /\ now \in Nat
    BY <1>1 DEF IInv, PoolOK, BreakerOK
  <2>2. CASE RecordSuccess(s, src)
    <3> DEFINE none == [fails |-> 0, until |-> 0]
    <3>1. EntryOK(none, now)
      BY <2>1 DEF EntryOK, Entry
    <3>2. breaker' = [breaker EXCEPT ![s] = [breaker[s] EXCEPT ![src] = none]]
      BY <2>2 DEF RecordSuccess
    <3> QED
      BY <3>1, <3>2
  <2>3. CASE RecordFailure(s, src)
    <3> DEFINE old == breaker[s][src]
               fails == old.fails + 1
               until == IF fails >= FailThreshold THEN now + SourceCooldown ELSE old.until
               entry == [fails |-> fails, until |-> until]
    <3>1. breaker' = [breaker EXCEPT ![s] = [breaker[s] EXCEPT ![src] = entry]]
      BY <1>1, <2>3 DEF RecordFailure, IInv, BreakerOK, BreakerTyped
    <3>2. /\ fails \in Nat /\ until \in Nat
          /\ fails >= FailThreshold <=> until > 0
          /\ until <= now + SourceCooldown
      BY <2>1 DEF EntryOK, Entry
    <3> HIDE DEF fails, until
    <3>3. EntryOK(entry, now)
      BY <3>2 DEF EntryOK, Entry
    <3> QED
      BY <3>1, <3>3
  <2> QED
    BY <2>2, <2>3 DEF FetchAnswers, FetchFails
<1>6. BreakerOK'
  <2>1. entry \in Entry
    BY <1>5 DEF EntryOK
  <2>2. BreakerTyped'
    BY <1>5, <2>1 DEF IInv, BreakerOK, BreakerTyped
  <2>3. ASSUME NEW q \in Schedulers, NEW l \in DOMAIN ListOf
        PROVE  breaker'[q][l] = IF q = s /\ l = src THEN entry ELSE breaker[q][l]
    BY <1>5 DEF IInv, BreakerOK, BreakerTyped
  <2> QED
    BY <1>2, <1>5, <2>2, <2>3 DEF IInv, BreakerOK
<1> QED
  BY <1>2, <1>4, <1>6 DEF IInv, PoolOK

LEMMA CoarseScreenKeeps == ASSUME IInv, NEW s \in Schedulers, CoarseScreen(s) PROVE IInv'
<1> DEFINE old == round[s]
<1>1. /\ old.phase = "coarse" /\ RoundOK(old)
      /\ UNCHANGED <<pool, now, timer, breaker>>
  BY DEF CoarseScreen, IInv, RoundsOK
<1>2. PICK survivors \in SUBSET old.candidates :
        \E facts \in [survivors -> Facts] :
          Goes(s, IF survivors = {} THEN NoRound
                  ELSE [old EXCEPT !.phase = "admit", !.facts = facts, !.queued = survivors])
  BY DEF CoarseScreen
<1>3. PICK facts \in [survivors -> Facts] :
        Goes(s, IF survivors = {} THEN NoRound
                ELSE [old EXCEPT !.phase = "admit", !.facts = facts, !.queued = survivors])
  BY <1>2
<1> DEFINE r == [old EXCEPT !.phase = "admit", !.facts = facts, !.queued = survivors]
<1>4. RoundOK(r)
  <2>1. survivors \subseteq Exits /\ DOMAIN facts = survivors
    BY <1>1 DEF RoundOK, Round
  <2>2. facts \in UNION {[S -> Facts] : S \in SUBSET Exits}
    BY <2>1
  <2>3. r \in Round /\ r.phase = "admit" /\ r.facts = facts /\ r.queued = survivors
        /\ r.claimed = {} /\ r.probing = {}
    BY <1>1, <2>1, <2>2 DEF RoundOK, Round
  <2> HIDE DEF r
  <2> QED
    BY <2>1, <2>3 DEF RoundOK
<1>5. RoundsOK'
  <2> HIDE DEF r
  <2> QED
    BY <1>1, <1>3, <1>4, NoRoundOK, GoesKeeps DEF IInv, r
<1> QED
  BY <1>1, <1>5 DEF IInv, PoolOK, BreakerOK, BreakerTyped

LEMMA StartTaskKeeps ==
  ASSUME IInv, NEW s \in Schedulers, NEW e \in Exits, StartTask(s, e) PROVE IInv'
<1> DEFINE old == round[s]
           queued == old.queued \ {e}
           claimed == old.claimed \cup {e}
           probing == old.probing \cup {e}
           seated == [old EXCEPT !.queued = queued, !.claimed = claimed, !.probing = probing]
           turned == [old EXCEPT !.queued = queued]
<1>1. /\ e \in old.queued /\ UNCHANGED <<pool, now, timer, breaker>>
      /\ Goes(s, seated) \/ Leaves(s, turned)
  BY DEF StartTask
<1>2. RoundOK(old)
  BY DEF IInv, RoundsOK
<1>3. old \in Round /\ old.phase = "admit" /\ DOMAIN old.facts \subseteq Exits
  <2>1. old \in Round /\ old.phase = "admit"
    BY <1>1, <1>2 DEF RoundOK
  <2>2. old.facts \in UNION {[S -> Facts] : S \in SUBSET Exits}
    BY <2>1 DEF Round
  <2> QED
    BY <2>1, <2>2
<1>4. /\ queued \subseteq Exits /\ claimed \subseteq Exits /\ probing \subseteq Exits
      /\ queued \cup claimed \subseteq DOMAIN old.facts /\ probing \subseteq claimed
  BY <1>1, <1>2, <1>3 DEF RoundOK, Round
<1>5. /\ queued \cup old.claimed \subseteq DOMAIN old.facts /\ old.probing \subseteq old.claimed
  BY <1>2 DEF RoundOK
<1> HIDE DEF old, queued, claimed, probing
<1>6. RoundOK(seated)
  BY <1>3, <1>4 DEF RoundOK, Round
<1>7. RoundOK(turned)
  BY <1>3, <1>4, <1>5 DEF RoundOK, Round
<1>8. RoundsOK'
  <2> HIDE DEF seated, turned
  <2> QED
    BY <1>1, <1>6, <1>7, GoesKeeps, LeavesKeeps DEF IInv
<1> QED
  BY <1>1, <1>8 DEF IInv, PoolOK, BreakerOK, BreakerTyped

LEMMA EndsKeeps ==
  ASSUME IInv, NEW s \in Schedulers, NEW e \in Exits, Ends(s, e), timer' = timer
  PROVE  RoundsOK'
<1> DEFINE old == round[s]
           probing == old.probing \ {e}
           r == [old EXCEPT !.probing = probing]
<1>1. Leaves(s, r) /\ RoundOK(old)
  BY DEF Ends, IInv, RoundsOK
<1>2. CASE old.phase = "idle"
  <2>1. old = NoRound /\ r = NoRound
    BY <1>1, <1>2 DEF RoundOK, NoRound
  <2> QED
    BY <1>1, <2>1, NoRoundOK, LeavesKeeps DEF IInv
<1>3. CASE old.phase # "idle"
  <2>1. probing \subseteq Exits /\ probing \subseteq old.claimed
    BY <1>1 DEF RoundOK, Round
  <2> HIDE DEF old, probing
  <2>2. RoundOK(r)
    BY <1>1, <1>3, <2>1 DEF RoundOK, Round
  <2> QED
    BY <1>1, <2>2, LeavesKeeps DEF IInv
<1> QED
  BY <1>2, <1>3

LEMMA RejectedKeeps ==
  ASSUME IInv, NEW s \in Schedulers, NEW e \in Exits, Rejected(s, e) PROVE IInv'
<1>1. RoundsOK'
  BY EndsKeeps DEF Rejected
<1> QED
  BY <1>1 DEF Rejected, IInv, PoolOK, BreakerOK, BreakerTyped

\* What an admission does to the pool.
LEMMA AdmittedEffect ==
  ASSUME IInv, NEW s \in Schedulers, NEW e \in Exits, Admitted(s, e)
  PROVE  \E p \in MakesRoom(pool) :
           /\ PoolInv(p, now) /\ DOMAIN p.nodes \subseteq DOMAIN pool.nodes
           /\ PoolInv(pool', now) /\ pool'.target = pool.target
           /\ DOMAIN pool'.nodes \subseteq DOMAIN pool.nodes \cup {e}
           /\ FreeExits(pool') \subseteq FreeExits(p) \cup {e}
<1> DEFINE node == [source |-> "free", exitIP |-> round[s].facts[e].ip,
                    latencyMs |-> round[s].facts[e].latency, addedAt |-> now]
<1>1. PICK p \in MakesRoom(pool), limited \in BOOLEAN : pool' = Insert(p, e, node, limited)
  BY DEF Admitted
<1>2. node \in Node
  <2>1. e \in DOMAIN round[s].facts /\ round[s] \in Round
    BY DEF Admitted, IInv, RoundsOK, RoundOK
  <2>2. round[s].facts \in UNION {[S -> Facts] : S \in SUBSET Exits}
    BY <2>1 DEF Round
  <2>3. round[s].facts[e] \in Facts
    BY <2>1, <2>2
  <2> QED
    BY <2>3 DEF Facts, Node, Sources, IInv, PoolOK
<1> HIDE DEF node
<1>3. PoolInv(pool, now) /\ now \in Nat
  BY DEF IInv, PoolOK
<1>4. PoolInv(p, now) /\ DOMAIN p.nodes \subseteq DOMAIN pool.nodes /\ p.target = pool.target
  BY <1>3, RoomEffect
<1> QED
  BY <1>1, <1>2, <1>3, <1>4, InsertEffect

LEMMA AdmittedKeeps ==
  ASSUME IInv, NEW s \in Schedulers, NEW e \in Exits, Admitted(s, e) PROVE IInv'
<1>1. /\ now' = now /\ timer' = timer /\ breaker' = breaker /\ Ends(s, e)
  BY DEF Admitted
<1>2. PoolInv(pool', now) /\ DOMAIN pool'.nodes \subseteq DOMAIN pool.nodes \cup {e}
  BY AdmittedEffect
<1>3. IsFiniteSet(DOMAIN pool'.nodes)
  <2>1. IsFiniteSet(DOMAIN pool.nodes \cup {e})
    BY FS_AddElement DEF IInv, PoolOK
  <2> QED
    BY <1>2, <2>1, FS_Subset
<1>4. RoundsOK'
  BY <1>1, EndsKeeps
<1> QED
  BY <1>1, <1>2, <1>3, <1>4 DEF IInv, PoolOK, BreakerOK, BreakerTyped

\* What the rest of the plugin does to the pool: no free exit joins.
LEMMA ElsewhereEffect ==
  ASSUME IInv, (\E e \in Exits : SubscriptionJoins(e) \/ StrikeDead(e)) \/ ApplyTargetSize
  PROVE  /\ PoolInv(pool', now) /\ FreeExits(pool') \subseteq FreeExits(pool)
         /\ \E e : DOMAIN pool'.nodes \subseteq DOMAIN pool.nodes \cup {e}
         /\ UNCHANGED <<now, timer, breaker, round>>
<1>0. PoolInv(pool, now) /\ now \in Nat
  BY DEF IInv, PoolOK
<1>1. ASSUME NEW e \in Exits, SubscriptionJoins(e)
      PROVE  /\ PoolInv(pool', now) /\ FreeExits(pool') \subseteq FreeExits(pool)
             /\ DOMAIN pool'.nodes \subseteq DOMAIN pool.nodes \cup {e}
             /\ UNCHANGED <<now, timer, breaker, round>>
  <2>1. PICK ip \in ExitIPs \cup {NoIP}, latency \in Latencies :
          Elsewhere(Insert(pool, e, [source |-> "subscription", exitIP |-> ip,
                                     latencyMs |-> latency, addedAt |-> now], FALSE))
    BY <1>1 DEF SubscriptionJoins
  <2> DEFINE node == [source |-> "subscription", exitIP |-> ip, latencyMs |-> latency,
                      addedAt |-> now]
  <2>2. node \in Node /\ node.source # "free"
    BY <1>0 DEF Node, Sources
  <2>3. pool' = Insert(pool, e, node, FALSE) /\ UNCHANGED <<now, timer, breaker, round>>
    BY <2>1 DEF Elsewhere
  <2> HIDE DEF node
  <2> QED
    BY <1>0, <2>2, <2>3, InsertEffect
<1>2. ASSUME NEW e \in Exits, StrikeDead(e)
      PROVE  /\ PoolInv(pool', now) /\ FreeExits(pool') \subseteq FreeExits(pool)
             /\ DOMAIN pool'.nodes \subseteq DOMAIN pool.nodes \cup {e}
             /\ UNCHANGED <<now, timer, breaker, round>>
  <2>1. pool' = MarkDeadStrike(pool, e) /\ UNCHANGED <<now, timer, breaker, round>>
    BY <1>2 DEF StrikeDead, Elsewhere
  <2> QED
    BY <1>0, <2>1, StrikeKeeps, StrikeShrinks
<1>3. ASSUME ApplyTargetSize
      PROVE  /\ PoolInv(pool', now) /\ pool'.nodes = pool.nodes
             /\ UNCHANGED <<now, timer, breaker, round>>
  <2>1. PICK value \in TargetSizes : Elsewhere(SetTargetSize(pool, value))
    BY <1>3 DEF ApplyTargetSize
  <2>2. PoolInv(SetTargetSize(pool, value), now)
    BY <1>0, FieldWrite
  <2>3. Kept(pool, SetTargetSize(pool, value))
    BY <1>0, CountOnly
  <2> QED
    BY <2>1, <2>2, <2>3 DEF Elsewhere, Kept
<1> QED
  BY <1>1, <1>2, <1>3 DEF FreeExits

LEMMA ElsewhereKeeps ==
  ASSUME IInv, (\E e \in Exits : SubscriptionJoins(e) \/ StrikeDead(e)) \/ ApplyTargetSize
  PROVE  IInv'
<1>1. /\ PoolInv(pool', now) /\ UNCHANGED <<now, timer, breaker, round>>
      /\ \E e : DOMAIN pool'.nodes \subseteq DOMAIN pool.nodes \cup {e}
  BY ElsewhereEffect
<1>2. IsFiniteSet(DOMAIN pool'.nodes)
  <2>1. PICK e : DOMAIN pool'.nodes \subseteq DOMAIN pool.nodes \cup {e}
    BY <1>1
  <2>2. IsFiniteSet(DOMAIN pool.nodes \cup {e})
    BY FS_AddElement DEF IInv, PoolOK
  <2> QED
    BY <2>1, <2>2, FS_Subset
<1> QED
  BY <1>1, <1>2 DEF IInv, PoolOK, BreakerOK, BreakerTyped, RoundsOK, RoundOK

LEMMA TickKeeps == ASSUME IInv, Tick PROVE IInv'
<1>1. now' = now + 1 /\ now \in Nat /\ UNCHANGED <<pool, timer, breaker, round>>
  BY DEF Tick, IInv, PoolOK
<1>2. PoolOK'
  BY <1>1, TimePasses DEF IInv, PoolOK
<1>3. BreakerOK'
  <2>1. ASSUME NEW entry, EntryOK(entry, now) PROVE EntryOK(entry, now + 1)
    BY <1>1, <2>1 DEF EntryOK, Entry
  <2>2. BreakerTyped'
    BY <1>1 DEF IInv, BreakerOK, BreakerTyped
  <2>3. \A s \in Schedulers, src \in DOMAIN ListOf : EntryOK(breaker'[s][src], now')
    BY <1>1, <2>1 DEF IInv, BreakerOK
  <2> QED
    BY <2>2, <2>3 DEF BreakerOK
<1> QED
  BY <1>1, <1>2, <1>3 DEF IInv, RoundsOK, RoundOK

LEMMA RoundStepKeeps == ASSUME IInv, NEW s \in Schedulers, RoundStep(s) PROVE IInv'
  BY FetchKeeps, CoarseScreenKeeps, StartTaskKeeps, RejectedKeeps, AdmittedKeeps DEF RoundStep

LEMMA NextIInv == IInv /\ [Next]_vars => IInv'
<1> SUFFICES ASSUME IInv, [Next]_vars PROVE IInv'
  OBVIOUS
<1>1. CASE UNCHANGED vars
  BY <1>1 DEF vars, IInv, PoolOK, BreakerOK, BreakerTyped, RoundsOK, RoundOK
<1>2. CASE Next
  BY <1>2, TimerKeeps, TickRoundKeeps, RoundStepKeeps, ElsewhereKeeps, TickKeeps DEF Next
<1> QED
  BY <1>1, <1>2

LEMMA InductiveInvariant == Spec => []IInv
<1>1. IInv /\ [Next]_vars => IInv'
  BY NextIInv
<1> QED
  BY <1>1, InitIInv, PTL DEF Spec

(***************************************************************************)
(* The theorems.                                                           *)
(***************************************************************************)

\* The books of every round are in order (its tasks are of survivors, its seats
\* of its tasks, nothing is left of a round that ended), and a list rests
\* exactly while its run of failures is unbroken, for one cooldown at most.
THEOREM RefillSound == Spec => []RefillInv
<1>1. ASSUME IInv PROVE RefillInv
  <2>1. TypeOK
    BY <1>1 DEF IInv, PoolOK, BreakerOK, BreakerTyped, RoundsOK, RoundOK, Entry, PoolInv,
                TableOK, TypeOK
  <2>2. BreakerFollowsRun
    BY <1>1 DEF IInv, BreakerOK, EntryOK, BreakerFollowsRun
  <2> QED
    BY <2>1, <2>2 DEF RefillInv
<1> QED
  BY <1>1, InductiveInvariant, PTL

\* A step that adds a free exit ends within the capacity.
LEMMA NeverOverfilled ==
  ASSUME IInv, [Next]_vars
  PROVE  LET before == Cardinality(FreeExits(pool))
             after  == Cardinality(FreeExits(pool'))
         IN  after > before => after <= pool'.target
<1> DEFINE before == Cardinality(FreeExits(pool))
           after  == Cardinality(FreeExits(pool'))
<1>0. /\ PoolInv(pool, now) /\ now \in Nat /\ pool.target \in Nat \ {0}
      /\ IsFiniteSet(FreeExits(pool)) /\ before \in Nat
  BY CountFree DEF IInv, PoolOK, PoolInv, TableOK, IsPool
<1>1. ASSUME FreeExits(pool') \subseteq FreeExits(pool) PROVE ~(after > before)
  <2>1. IsFiniteSet(FreeExits(pool')) /\ after <= before
    BY <1>0, <1>1, FS_Subset
  <2>2. after \in Nat
    BY <2>1, FS_CardinalityType
  <2> QED
    BY <1>0, <2>1, <2>2
<1>2. ASSUME NEW s \in Schedulers, NEW e \in Exits, Admitted(s, e), after > before
      PROVE  after <= pool'.target
  <2>1. PICK p \in MakesRoom(pool) :
          /\ pool'.target = pool.target
          /\ FreeExits(pool') \subseteq FreeExits(p) \cup {e}
    BY <1>2, AdmittedEffect
  <2>2. CASE p = pool /\ ~(IsFreeFull(pool) /\ FreeExits(pool) # {})
    <3>1. before < pool.target
      <4>1. CASE FreeExits(pool) = {}
        BY <1>0, <4>1, FS_EmptySet
      <4>2. CASE ~IsFreeFull(pool)
        BY <1>0, <4>2 DEF IsFreeFull
      <4> QED
        BY <2>2, <4>1, <4>2
    <3>2. /\ IsFiniteSet(FreeExits(pool) \cup {e})
          /\ Cardinality(FreeExits(pool) \cup {e}) <= before + 1
      <4>1. IsFiniteSet(FreeExits(pool) \cup {e})
            /\ Cardinality(FreeExits(pool) \cup {e})
                 = IF e \in FreeExits(pool) THEN before ELSE before + 1
        BY <1>0, FS_AddElement
      <4> QED
        BY <1>0, <4>1
    <3>3. after \in Nat /\ after <= Cardinality(FreeExits(pool) \cup {e})
          /\ Cardinality(FreeExits(pool) \cup {e}) \in Nat
      BY <2>1, <2>2, <3>2, FS_Subset, FS_CardinalityType
    <3> QED
      BY <1>0, <2>1, <3>1, <3>2, <3>3
  <2>3. ASSUME NEW worst \in FreeExits(pool), FreeExits(p) = FreeExits(pool) \ {worst}
        PROVE  FALSE
    <3> DEFINE rest == FreeExits(pool) \ {worst}
    <3>1. IsFiniteSet(rest) /\ Cardinality(rest) = before - 1
      BY <1>0, FS_RemoveElement
    <3>2. /\ IsFiniteSet(rest \cup {e})
          /\ Cardinality(rest \cup {e}) = Cardinality(rest)
             \/ Cardinality(rest \cup {e}) = Cardinality(rest) + 1
      <4> HIDE DEF rest
      <4> QED
        BY <3>1, FS_AddElement
    <3>3. after \in Nat /\ after <= Cardinality(rest \cup {e})
      <4>1. FreeExits(pool') \subseteq rest \cup {e}
        BY <2>1, <2>3
      <4> HIDE DEF rest
      <4> QED
        BY <3>2, <4>1, FS_Subset, FS_CardinalityType
    <3> QED
      BY <1>0, <1>2, <3>1, <3>2, <3>3
  <2> QED
    BY <1>0, <2>2, <2>3, RoomEffect
<1>3. ASSUME pool' # pool PROVE \/ \E s \in Schedulers, e \in Exits : Admitted(s, e)
                               \/ FreeExits(pool') \subseteq FreeExits(pool)
  BY <1>3, ElsewhereEffect DEF vars, Next, Start, Stop, TickRound, RoundStep, FetchAnswers,
     FetchFails, CoarseScreen, StartTask, Rejected, Tick
<1> QED
  BY <1>1, <1>2, <1>3

\* However many rounds and tasks overlap, and whatever they knew when they
\* started, an admission never takes the free pool beyond its capacity.
THEOREM NoOverfill == Spec => CapacityKept
<1>1. IInv /\ [Next]_vars =>
        [Cardinality(FreeExits(pool')) > Cardinality(FreeExits(pool))
           => Cardinality(FreeExits(pool')) <= pool'.target]_vars
  BY NeverOverfilled
<1> QED
  BY <1>1, InductiveInvariant, PTL DEF Spec, CapacityKept

(***************************************************************************)
(* A satisfied pool is not churned, as long as a round is undisturbed: one *)
(* scheduler, cooldowns that outlast the clock, and a capacity that grows  *)
(* at most once. Without these, a pool may become satisfied between the    *)
(* gate and the landing of a task.                                         *)
(***************************************************************************)
Undisturbed ==
  /\ \E s : Schedulers = {s}
  /\ \A n \in Nat \ {0} : Backoff(n) > MaxClock
  /\ \A v, w \in TargetSizes : v = w /\ InitialTarget <= v

\* No pairing is recorded here (Refill sees no requests), and a cooldown that
\* was started does not end.
Lasting(h) == h.cooldownUntil = 0 \/ h.cooldownUntil > MaxClock

Calm(p) == DOMAIN p.bans = {} /\ \A e \in DOMAIN p.health : Lasting(p.health[e])

\* The exits that the pool still wants.
Wanted == pool.target - Cardinality(AvailableFree(pool, now))

\* Every seat that is claimed and has not landed yet is still wanted.
SeatsOK(r, wanted) ==
  /\ IsFiniteSet(r.claimed) /\ r.queued \cap r.claimed = {}
  /\ r.phase # "idle" =>
       /\ Cardinality(r.claimed) <= r.quota
       /\ r.quota <= wanted + Cardinality(r.claimed \ r.probing)

CalmInv ==
  /\ IInv
  /\ Calm(pool) /\ now <= MaxClock
  /\ \A v \in TargetSizes : pool.target <= v
  /\ \A s \in Schedulers : SeatsOK(round[s], Wanted)

\* Without recorded bans, available is what is not dormant.
LEMMA CalmAvailable ==
  ASSUME NEW p, Calm(p), NEW t
  PROVE  AvailableFree(p, t) = {e \in FreeExits(p) : ~Dormant(p, e, t)}
<1>1. \A e : BansRecorded(p, e) = {}
  BY DEF Calm, BansRecorded
<1> QED
  BY <1>1 DEF AvailableFree, IsAvailable, Exhausted

\* The health record of one exit changes, and nothing else.
LEMMA CalmHealth ==
  ASSUME NEW p, NEW t, PoolInv(p, t), Calm(p), NEW e, NEW h, e \in DOMAIN p.health => Lasting(h)
  PROVE  LET q == UpdateHealth(p, e, h)
         IN  /\ Calm(q) /\ AvailableFree(q, t) \subseteq AvailableFree(p, t) \cup {e}
             /\ e \in DOMAIN p.health /\ h.state = "dead" => e \notin AvailableFree(q, t)
             /\ q.nodes = p.nodes /\ q.target = p.target
<1> DEFINE q == UpdateHealth(p, e, h)
<1>1. CASE e \notin DOMAIN p.health
  BY <1>1 DEF UpdateHealth
<1>2. CASE e \in DOMAIN p.health
  <2>1. /\ q.nodes = p.nodes /\ q.bans = p.bans /\ q.target = p.target
        /\ DOMAIN q.health = DOMAIN p.health /\ q.health[e] = h
        /\ \A a \in DOMAIN p.health \ {e} : q.health[a] = p.health[a]
    BY <1>2 DEF UpdateHealth, PoolInv, TableOK, IsPool, IsMap
  <2> HIDE DEF q
  <2>2. Calm(q)
    BY <1>2, <2>1 DEF Calm
  <2>3. FreeExits(q) = FreeExits(p)
    BY <2>1 DEF FreeExits
  <2>4. \A a : a # e => (Dormant(q, a, t) <=> Dormant(p, a, t))
    BY <2>1 DEF Dormant
  <2>5. h.state = "dead" => Dormant(q, e, t)
    BY <2>1 DEF Dormant
  <2> QED
    BY <1>2, <2>1, <2>2, <2>3, <2>4, <2>5, CalmAvailable DEF q
<1> QED
  BY <1>1, <1>2

LEMMA CalmRemove ==
  ASSUME NEW p, NEW t \in Nat, PoolInv(p, t), Calm(p), NEW e
  PROVE  /\ Calm(Remove(p, e)) /\ Remove(p, e).target = p.target
         /\ AvailableFree(Remove(p, e), t) \subseteq AvailableFree(p, t)
<1> DEFINE q == Remove(p, e)
<1>1. /\ DOMAIN q.nodes = DOMAIN p.nodes \ {e}
      /\ \A a \in DOMAIN q.nodes : q.nodes[a] = p.nodes[a] /\ q.health[a] = p.health[a]
      /\ DOMAIN q.bans \subseteq DOMAIN p.bans /\ q.target = p.target
  BY RemoveEffect, RemoveForgets
<1>2. DOMAIN p.health = DOMAIN p.nodes /\ DOMAIN q.health = DOMAIN q.nodes
  BY RemoveKeeps DEF PoolInv, TableOK
<1> HIDE DEF q
<1>3. Calm(q)
  BY <1>1, <1>2 DEF Calm
<1>4. FreeExits(q) \subseteq FreeExits(p)
  BY <1>1 DEF FreeExits
<1>5. \A a : Dormant(p, a, t) => Dormant(q, a, t)
  BY <1>1, <1>2 DEF Dormant
<1> QED
  BY <1>1, <1>3, <1>4, <1>5, CalmAvailable DEF q

\* A node that joins adds itself at most, and nothing if it is not a free one.
LEMMA CalmInsert ==
  ASSUME Undisturbed, NEW p, now \in Nat, PoolInv(p, now), Calm(p), NEW e \in Exits,
         NEW node \in Node, NEW limited \in BOOLEAN
  PROVE  LET q == Insert(p, e, node, limited)
         IN  /\ Calm(q) /\ AvailableFree(q, now) \subseteq AvailableFree(p, now) \cup {e}
             /\ node.source # "free" => AvailableFree(q, now) \subseteq AvailableFree(p, now)
<1> DEFINE added == Add(p, e, node)
           q == Insert(p, e, node, limited)
<1>1. CASE ~Accepts(p, e, node)
  BY <1>1 DEF Insert
<1>2. CASE Accepts(p, e, node)
  <2>1. PoolInv(added, now)
    BY AddKeeps
  <2>2. /\ DOMAIN added.nodes = DOMAIN p.nodes \cup {e}
        /\ DOMAIN added.health = DOMAIN p.health \cup {e}
        /\ added.nodes[e] = node /\ added.bans = p.bans
        /\ e \notin DOMAIN p.health => added.health[e] = FreshHealth
        /\ \A a \in DOMAIN p.nodes \ {e} : added.nodes[a] = p.nodes[a]
        /\ \A a \in DOMAIN p.health : added.health[a] = p.health[a]
    BY <1>2 DEF Add, Put, PoolInv, TableOK, IsPool
  <2>3. Lasting(FreshHealth)
    BY DEF Lasting, FreshHealth
  <2> HIDE DEF added
  <2>4. Calm(added)
    BY <2>2, <2>3 DEF Calm
  <2>5. AvailableFree(added, now) \ {e} \subseteq AvailableFree(p, now)
    <3>1. FreeExits(added) \ {e} \subseteq FreeExits(p)
      BY <2>2 DEF FreeExits
    <3>2. \A a : a # e => (Dormant(added, a, now) <=> Dormant(p, a, now))
      BY <2>2 DEF Dormant
    <3> QED
      BY <2>4, <3>1, <3>2, CalmAvailable
  <2> DEFINE h == added.health[e]
             n == h.consecutiveLimited + 1
             ok == [h EXCEPT !.state = "ok", !.consecutiveLimited = 0, !.cooldownUntil = 0,
                             !.deadStrikes = 0]
             limit == [h EXCEPT !.state = "ok", !.consecutiveLimited = n,
                                !.cooldownUntil = now + Backoff(n)]
  <2>6. h \in Health /\ n \in Nat \ {0}
    <3>1. IsMap(added.health, Exits, Health) /\ e \in DOMAIN added.health
      BY <2>1, <2>2 DEF PoolInv, TableOK, IsPool
    <3>2. h \in Health
      BY <3>1 DEF IsMap
    <3>3. h.consecutiveLimited \in Nat
      BY ONLY <3>2 DEF Health
    <3> QED
      BY <3>2, <3>3
  <2>7. Lasting(ok) /\ Lasting(limit)
    <3>1. ok.cooldownUntil = 0 /\ limit.cooldownUntil = now + Backoff(n)
      BY <2>6 DEF Health
    <3>2. Backoff(n) > MaxClock /\ Backoff(n) \in Nat
      BY <2>6, BackoffBounded DEF Undisturbed
    <3> HIDE DEF h, n, ok, limit
    <3>3. now + Backoff(n) > MaxClock
      BY <3>2
    <3> QED
      BY <3>1, <3>3 DEF Lasting
  <2>8. q \in {UpdateHealth(added, e, ok), UpdateHealth(added, e, limit)}
    BY <1>2 DEF Insert, MarkOk, MarkLimited, added
  <2> HIDE DEF q, h, n, ok, limit
  <2>9. /\ Calm(q) /\ AvailableFree(q, now) \subseteq AvailableFree(added, now) \cup {e}
        /\ q.nodes = added.nodes
    BY <2>1, <2>4, <2>7, <2>8, CalmHealth
  <2>10. node.source # "free" => e \notin AvailableFree(q, now)
    BY <2>2, <2>9 DEF AvailableFree, FreeExits
  <2> QED
    BY <2>5, <2>9, <2>10 DEF q
<1> QED
  BY <1>1, <1>2

LEMMA CalmStrike ==
  ASSUME NEW p, NEW t \in Nat, PoolInv(p, t), Calm(p), NEW e
  PROVE  LET q == MarkDeadStrike(p, e)
         IN  /\ Calm(q) /\ AvailableFree(q, t) \subseteq AvailableFree(p, t)
             /\ q.target = p.target
<1> DEFINE h == p.health[e]
           dead == [h EXCEPT !.state = "dead", !.inflight = FALSE,
                             !.deadStrikes = h.deadStrikes + 1]
<1>1. CASE e \notin DOMAIN p.nodes \/ e \notin DOMAIN p.health
  BY <1>1 DEF MarkDeadStrike
<1>2. CASE e \in DOMAIN p.nodes /\ e \in DOMAIN p.health /\ Evicts(p, e)
  BY <1>2, CalmRemove DEF MarkDeadStrike
<1>3. CASE e \in DOMAIN p.nodes /\ e \in DOMAIN p.health /\ ~Evicts(p, e)
  <2>1. h \in Health /\ Lasting(h)
    BY <1>3 DEF PoolInv, TableOK, IsPool, IsMap, Calm
  <2>2. dead.state = "dead" /\ dead.cooldownUntil = h.cooldownUntil
    BY <2>1 DEF Health
  <2>3. MarkDeadStrike(p, e) = UpdateHealth(p, e, dead)
    BY <1>3 DEF MarkDeadStrike
  <2> HIDE DEF h, dead
  <2>4. Lasting(dead)
    BY <2>1, <2>2 DEF Lasting
  <2> QED
    BY <1>3, <2>2, <2>3, <2>4, CalmHealth
<1> QED
  BY <1>1, <1>2, <1>3

\* Where no exit becomes available and no capacity shrinks, the pool wants as
\* many exits as before, or more.
LEMMA WantsMore ==
  ASSUME IInv, AvailableFree(pool', now') \subseteq AvailableFree(pool, now),
         pool.target <= pool'.target, pool'.target \in Nat
  PROVE  Wanted \in Int /\ Wanted' \in Int /\ Wanted <= Wanted'
<1>1. pool.target \in Nat /\ IsFiniteSet(AvailableFree(pool, now))
  <2>1. IsFiniteSet(FreeExits(pool)) /\ AvailableFree(pool, now) \subseteq FreeExits(pool)
    BY CountFree DEF IInv, PoolOK, AvailableFree
  <2> QED
    BY <2>1, FS_Subset DEF IInv, PoolOK, PoolInv, TableOK, IsPool
<1>2. /\ Cardinality(AvailableFree(pool, now)) \in Nat
      /\ Cardinality(AvailableFree(pool', now')) \in Nat
      /\ Cardinality(AvailableFree(pool', now')) <= Cardinality(AvailableFree(pool, now))
  BY <1>1, FS_Subset, FS_CardinalityType
<1> QED
  BY <1>1, <1>2 DEF Wanted

\* Books that are in order stay so when the pool wants more.
LEMMA SeatsMonotone ==
  ASSUME NEW r \in Round, NEW w \in Int, NEW v \in Int, w <= v, SeatsOK(r, w)
  PROVE  SeatsOK(r, v)
<1>1. IsFiniteSet(r.claimed \ r.probing) /\ Cardinality(r.claimed \ r.probing) \in Nat
  BY FS_Subset, FS_CardinalityType DEF SeatsOK
<1>2. r.quota \in Nat
  BY DEF Round
<1>3. ASSUME r.quota <= w + Cardinality(r.claimed \ r.probing)
      PROVE  r.quota <= v + Cardinality(r.claimed \ r.probing)
  BY <1>1, <1>2, <1>3
<1> QED
  BY <1>3 DEF SeatsOK

LEMMA NoSeats == \A wanted : SeatsOK(NoRound, wanted)
  BY FS_EmptySet DEF SeatsOK, NoRound

\* A step that leaves the rounds alone.
LEMMA RoundsRest ==
  ASSUME CalmInv, IInv', round' = round, Calm(pool'),
         AvailableFree(pool', now') \subseteq AvailableFree(pool, now),
         pool.target <= pool'.target, now' <= MaxClock,
         \A v \in TargetSizes : pool'.target <= v
  PROVE  CalmInv'
<1>1. pool'.target \in Nat
  BY DEF IInv, PoolOK, PoolInv, TableOK, IsPool
<1>2. Wanted \in Int /\ Wanted' \in Int /\ Wanted <= Wanted'
  BY <1>1, WantsMore DEF CalmInv
<1>3. ASSUME NEW s \in Schedulers PROVE SeatsOK(round[s], Wanted')
  BY <1>2, SeatsMonotone DEF CalmInv, IInv, RoundsOK
<1> QED
  BY <1>3 DEF CalmInv

\* A step of the only scheduler, to a round that is in order.
LEMMA RoundMoves ==
  ASSUME Undisturbed, CalmInv, IInv', NEW s \in Schedulers, NEW r,
         Goes(s, r) \/ Leaves(s, r), SeatsOK(r, Wanted'), Calm(pool'),
         now' = now, pool'.target = pool.target
  PROVE  CalmInv'
<1>1. PICK new : Goes(s, new) /\ SeatsOK(new, Wanted')
  BY NoSeats DEF Leaves
<1>2. \A q \in Schedulers : q = s
  BY DEF Undisturbed
<1>3. \A q \in Schedulers : round'[q] = new
  BY <1>1, <1>2 DEF Goes, CalmInv, IInv, RoundsOK
<1> QED
  BY <1>1, <1>3 DEF CalmInv

\* The quota of a new round is what the pool wants at most.
LEMMA TickRoundCalm ==
  ASSUME Undisturbed, CalmInv, IInv', NEW s \in Schedulers, TickRound(s)
  PROVE  CalmInv'
<1> DEFINE state == PoolState(pool, now)
           quota == IF AdmissionQuota(pool, now) < MaxPerRound
                    THEN AdmissionQuota(pool, now) ELSE MaxPerRound
           lists == IF state = "emergency" THEN Selected(state)
                    ELSE {i \in Selected(state) : CanUse(s, FreeSources[i])}
           phase == IF lists = {} THEN "coarse" ELSE "fetch"
           seen  == DOMAIN pool.nodes
           r == [NoRound EXCEPT !.phase = phase, !.state = state, !.quota = quota,
                                !.todo = lists, !.seen = seen]
<1>1. Goes(s, r) /\ pool' = pool /\ now' = now /\ quota > 0
  BY DEF TickRound
<1>2. pool.target \in Nat /\ Cardinality(AvailableFree(pool, now)) \in Nat
  BY CountFree DEF CalmInv, IInv, PoolOK, PoolInv, TableOK, IsPool
<1>3. quota <= Wanted /\ quota \in Nat /\ Wanted \in Int
  <2>1. Wanted \in Int
    BY <1>2 DEF Wanted
  <2>2. AdmissionQuota(pool, now) = IF Wanted > 0 THEN Wanted ELSE 0
    BY DEF AdmissionQuota, Wanted
  <2>3. AdmissionQuota(pool, now) \in Nat
    BY <2>1, <2>2
  <2>4. quota \in Nat /\ quota <= AdmissionQuota(pool, now)
    BY <2>3
  <2>5. AdmissionQuota(pool, now) > 0
    BY <1>1, <2>3, <2>4
  <2> HIDE DEF quota
  <2> QED
    BY <2>1, <2>2, <2>4, <2>5
<1> HIDE DEF state, quota, lists, phase, seen
<1>4. r.claimed = {} /\ r.queued = {} /\ r.probing = {} /\ r.quota = quota
  BY DEF NoRound
<1> HIDE DEF r
<1>5. SeatsOK(r, Wanted)
  <2>1. IsFiniteSet({}) /\ Cardinality({}) = 0 /\ {} \ {} = {}
    BY FS_EmptySet
  <2>2. 0 <= quota /\ quota <= Wanted + 0
    BY <1>3
  <2> QED
    BY <1>4, <2>1, <2>2 DEF SeatsOK
<1>6. Wanted' = Wanted /\ Calm(pool')
  BY <1>1 DEF Wanted, CalmInv
<1> QED
  BY <1>1, <1>5, <1>6, RoundMoves

\* A fetch and the screen touch no seat.
LEMMA FetchCalm ==
  ASSUME Undisturbed, CalmInv, IInv', NEW s \in Schedulers, NEW i \in DOMAIN FreeSources,
         FetchAnswers(s, i) \/ FetchFails(s, i)
  PROVE  CalmInv'
<1> DEFINE old == round[s]
<1>1. pool' = pool /\ now' = now /\ \E rows : Fetched(s, i, rows)
  BY DEF FetchAnswers, FetchFails
<1>2. PICK rows : Fetched(s, i, rows)
  BY <1>1
<1> DEFINE phase == IF old.todo = {i} THEN "coarse" ELSE "fetch"
           todo == old.todo \ {i}
           seen == old.seen \cup rows
           candidates == old.candidates \cup rows
           r == [old EXCEPT !.todo = todo, !.seen = seen, !.candidates = candidates,
                            !.phase = phase]
<1>3. old.phase = "fetch" /\ Goes(s, r)
  BY <1>2 DEF Fetched
<1>4. old \in Round /\ SeatsOK(old, Wanted)
  BY DEF CalmInv, IInv, RoundsOK
<1> HIDE DEF old, phase, todo, seen, candidates
<1>5. r.claimed = old.claimed /\ r.queued = old.queued /\ r.probing = old.probing
      /\ r.quota = old.quota
  BY <1>4 DEF Round
<1> HIDE DEF r
<1>6. SeatsOK(r, Wanted)
  BY <1>3, <1>4, <1>5 DEF SeatsOK
<1>7. Wanted' = Wanted /\ Calm(pool')
  BY <1>1 DEF Wanted, CalmInv
<1> QED
  BY <1>1, <1>3, <1>6, <1>7, RoundMoves

LEMMA ScreenCalm ==
  ASSUME Undisturbed, CalmInv, IInv', NEW s \in Schedulers, CoarseScreen(s)
  PROVE  CalmInv'
<1> DEFINE old == round[s]
<1>1. /\ old.phase = "coarse" /\ old \in Round /\ SeatsOK(old, Wanted) /\ old.claimed = {}
      /\ pool' = pool /\ now' = now
  BY DEF CoarseScreen, CalmInv, IInv, RoundsOK, RoundOK
<1>2. PICK survivors, facts :
        Goes(s, IF survivors = {} THEN NoRound
                ELSE [old EXCEPT !.phase = "admit", !.facts = facts, !.queued = survivors])
  BY DEF CoarseScreen
<1> DEFINE r == [old EXCEPT !.phase = "admit", !.facts = facts, !.queued = survivors]
<1> HIDE DEF old
<1>3. /\ r.claimed = old.claimed /\ r.queued = survivors /\ r.probing = old.probing
      /\ r.quota = old.quota
  BY <1>1 DEF Round
<1>4. Goes(s, NoRound) \/ Goes(s, r)
  BY <1>2
<1> HIDE DEF r
<1>5. SeatsOK(r, Wanted)
  BY <1>1, <1>3 DEF SeatsOK
<1>6. Wanted' = Wanted /\ Calm(pool')
  BY <1>1 DEF Wanted, CalmInv
<1> QED
  BY <1>1, <1>4, <1>5, <1>6, NoSeats, RoundMoves

\* The gate keeps the seats within the quota.
LEMMA StartTaskCalm ==
  ASSUME Undisturbed, CalmInv, IInv', NEW s \in Schedulers, NEW e \in Exits, StartTask(s, e)
  PROVE  CalmInv'
<1> DEFINE old == round[s]
           queued == old.queued \ {e}
           claimed == old.claimed \cup {e}
           probing == old.probing \cup {e}
           seated == [old EXCEPT !.queued = queued, !.claimed = claimed, !.probing = probing]
           turned == [old EXCEPT !.queued = queued]
<1>1. /\ e \in old.queued /\ pool' = pool /\ now' = now
      /\ \/ Goes(s, seated) /\ Cardinality(old.claimed) < old.quota
         \/ Leaves(s, turned)
  BY DEF StartTask, Gate
<1>2. RoundOK(old) /\ old \in Round /\ SeatsOK(old, Wanted) /\ Wanted \in Int
  <2>1. Cardinality(AvailableFree(pool, now)) \in Nat /\ pool.target \in Nat
    BY CountFree DEF CalmInv, IInv, PoolOK, PoolInv, TableOK, IsPool
  <2> QED
    BY <2>1 DEF CalmInv, IInv, RoundsOK, RoundOK, Wanted
<1>3. old.phase # "idle" /\ e \notin old.claimed /\ IsFiniteSet(old.claimed) /\ old.quota \in Nat
  BY <1>1, <1>2 DEF RoundOK, SeatsOK, NoRound, Round
<1>4. Wanted' = Wanted /\ Calm(pool')
  BY <1>1 DEF Wanted, CalmInv
<1> HIDE DEF old, queued, claimed, probing
<1>5. CASE Goes(s, seated) /\ Cardinality(old.claimed) < old.quota
  <2>1. /\ seated.claimed = claimed /\ seated.queued = queued /\ seated.probing = probing
        /\ seated.quota = old.quota
    BY <1>2 DEF Round
  <2>2. claimed \ probing = old.claimed \ old.probing /\ queued \cap claimed = {}
    BY <1>2, <1>3 DEF claimed, probing, queued, SeatsOK
  <2>3. IsFiniteSet(claimed) /\ Cardinality(claimed) = Cardinality(old.claimed) + 1
        /\ Cardinality(old.claimed) \in Nat
    BY <1>3, FS_AddElement, FS_CardinalityType DEF claimed
  <2>4. Cardinality(claimed) <= old.quota
    BY <1>3, <1>5, <2>3
  <2> HIDE DEF seated
  <2>5. SeatsOK(seated, Wanted)
    BY <1>2, <1>3, <2>1, <2>2, <2>3, <2>4 DEF SeatsOK
  <2> QED
    BY <1>1, <1>4, <1>5, <2>5, RoundMoves
<1>6. CASE Leaves(s, turned)
  <2>1. /\ turned.claimed = old.claimed /\ turned.queued = queued
        /\ turned.probing = old.probing /\ turned.quota = old.quota
    BY <1>2 DEF Round
  <2>2. queued \cap old.claimed = {}
    BY <1>2 DEF queued, SeatsOK
  <2> HIDE DEF turned
  <2>3. SeatsOK(turned, Wanted)
    BY <1>2, <1>3, <2>1, <2>2 DEF SeatsOK
  <2> QED
    BY <1>1, <1>4, <1>6, <2>3, RoundMoves
<1> QED
  BY <1>1, <1>5, <1>6

\* A seat that is given up or landed makes up for one exit that joined.
LEMMA EndsSeats ==
  ASSUME CalmInv, NEW s \in Schedulers, NEW e \in round[s].probing,
         NEW wanted \in Int, Wanted - 1 <= wanted
  PROVE  SeatsOK([round[s] EXCEPT !.probing = @ \ {e}], wanted)
<1> DEFINE old == round[s]
           probing == old.probing \ {e}
           r == [old EXCEPT !.probing = probing]
<1>1. /\ RoundOK(old) /\ old \in Round /\ SeatsOK(old, Wanted) /\ Wanted \in Int
      /\ r = [round[s] EXCEPT !.probing = @ \ {e}]
  <2>1. Cardinality(AvailableFree(pool, now)) \in Nat /\ pool.target \in Nat
    BY CountFree DEF CalmInv, IInv, PoolOK, PoolInv, TableOK, IsPool
  <2>2. Wanted \in Int
    BY <2>1 DEF Wanted
  <2>3. RoundOK(old) /\ old \in Round /\ SeatsOK(old, Wanted)
    BY DEF CalmInv, IInv, RoundsOK
  <2> QED
    BY <2>2, <2>3
<1>2. e \in old.claimed /\ e \in old.probing /\ old.phase # "idle" /\ old.quota \in Nat
  BY <1>1 DEF RoundOK, NoRound, Round
<1> HIDE DEF old
<1>3. r.claimed = old.claimed /\ r.queued = old.queued /\ r.probing = probing
      /\ r.quota = old.quota
  BY <1>1 DEF Round
<1>4. old.claimed \ probing = (old.claimed \ old.probing) \cup {e}
  BY <1>2
<1> HIDE DEF r, probing
<1> DEFINE landed == Cardinality(old.claimed \ old.probing)
<1>5. /\ IsFiniteSet(old.claimed \ old.probing) /\ landed \in Nat
      /\ Cardinality(old.claimed \ probing) = landed + 1
  <2>1. IsFiniteSet(old.claimed \ old.probing) /\ e \notin old.claimed \ old.probing
    BY <1>1, <1>2, FS_Subset DEF SeatsOK
  <2> QED
    BY <1>4, <2>1, FS_AddElement, FS_CardinalityType
<1>6. old.quota <= Wanted + landed
  BY <1>1, <1>2 DEF SeatsOK
<1> HIDE DEF landed
<1>7. old.quota <= wanted + (landed + 1)
  <2>1. Wanted + landed <= wanted + (landed + 1)
    BY <1>1, <1>5
  <2> QED
    BY <1>1, <1>2, <1>5, <1>6, <2>1
<1> QED
  BY <1>1, <1>2, <1>3, <1>5, <1>7 DEF SeatsOK, r, probing, old

LEMMA TaskEndsCalm ==
  ASSUME Undisturbed, CalmInv, IInv', NEW s \in Schedulers, NEW e \in Exits,
         Rejected(s, e) \/ Admitted(s, e)
  PROVE  CalmInv'
<1> DEFINE r == [round[s] EXCEPT !.probing = @ \ {e}]
<1>1. e \in round[s].probing /\ Leaves(s, r) /\ now' = now
  BY DEF Rejected, Admitted, Ends
<1> HIDE DEF r
<1>2. PoolInv(pool, now) /\ now \in Nat /\ Calm(pool) /\ IsFiniteSet(FreeExits(pool))
  BY CountFree DEF CalmInv, IInv, PoolOK
<1>3. Calm(pool') /\ pool'.target = pool.target
      /\ AvailableFree(pool', now) \subseteq AvailableFree(pool, now) \cup {e}
  <2>1. CASE Rejected(s, e)
    BY <1>2, <2>1 DEF Rejected
  <2>2. CASE Admitted(s, e)
    <3> DEFINE node == [source |-> "free", exitIP |-> round[s].facts[e].ip,
                        latencyMs |-> round[s].facts[e].latency, addedAt |-> now]
    <3>1. PICK p \in MakesRoom(pool), limited \in BOOLEAN : pool' = Insert(p, e, node, limited)
      BY <2>2 DEF Admitted
    <3>2. node \in Node
      <4>1. e \in DOMAIN round[s].facts /\ round[s] \in Round
        BY <1>1 DEF CalmInv, IInv, RoundsOK, RoundOK
      <4>2. round[s].facts \in UNION {[S -> Facts] : S \in SUBSET Exits}
        BY <4>1 DEF Round
      <4>3. round[s].facts[e] \in Facts
        BY <4>1, <4>2
      <4> QED
        BY <1>2, <4>3 DEF Facts, Node, Sources
    <3> HIDE DEF node
    <3>3. PoolInv(p, now) /\ p.target = pool.target
      BY <1>2, RoomEffect
    <3>4. Calm(p) /\ AvailableFree(p, now) \subseteq AvailableFree(pool, now)
      BY <1>2, <3>1, CalmRemove DEF MakesRoom
    <3>5. pool'.target = pool.target
      BY <1>2, <3>1, <3>2, <3>3, InsertEffect
    <3>6. Calm(pool') /\ AvailableFree(pool', now) \subseteq AvailableFree(p, now) \cup {e}
      BY <1>2, <3>1, <3>2, <3>3, <3>4, CalmInsert
    <3> QED
      BY <3>4, <3>5, <3>6
  <2> QED
    BY <2>1, <2>2
<1>4. Wanted' \in Int /\ Wanted - 1 <= Wanted'
  <2> DEFINE before == AvailableFree(pool, now)
             after == AvailableFree(pool', now)
  <2>1. IsFiniteSet(before) /\ Cardinality(before) \in Nat
    BY <1>2, FS_Subset, FS_CardinalityType DEF AvailableFree
  <2>2. pool.target \in Nat /\ Wanted = pool.target - Cardinality(before)
        /\ Wanted' = pool.target - Cardinality(after)
    BY <1>1, <1>2, <1>3 DEF Wanted, PoolInv, TableOK, IsPool
  <2> HIDE DEF before, after
  <2>3. IsFiniteSet(before \cup {e}) /\ Cardinality(before \cup {e}) \in Nat
        /\ Cardinality(before \cup {e}) <= Cardinality(before) + 1
    <3>1. IsFiniteSet(before \cup {e}) /\ Cardinality(before \cup {e})
            = IF e \in before THEN Cardinality(before) ELSE Cardinality(before) + 1
      BY <2>1, FS_AddElement
    <3> QED
      BY <2>1, <3>1
  <2>4. Cardinality(after) \in Nat /\ Cardinality(after) <= Cardinality(before \cup {e})
    BY <1>3, <2>3, FS_Subset, FS_CardinalityType DEF before, after
  <2> QED
    BY <2>1, <2>2, <2>3, <2>4
<1>5. SeatsOK(r, Wanted')
  BY <1>1, <1>4, EndsSeats DEF r
<1> QED
  BY <1>1, <1>3, <1>5, RoundMoves

\* The rest of the plugin satisfies no demand, and no cooldown ends.
LEMMA ElsewhereCalm ==
  ASSUME Undisturbed, CalmInv, IInv',
         (\E e \in Exits : SubscriptionJoins(e) \/ StrikeDead(e)) \/ ApplyTargetSize
  PROVE  CalmInv'
<1>0. /\ PoolInv(pool, now) /\ now \in Nat /\ Calm(pool) /\ now <= MaxClock
      /\ pool.target \in Nat /\ \A v \in TargetSizes : pool.target <= v
  BY DEF CalmInv, IInv, PoolOK, PoolInv, TableOK, IsPool
<1>1. ASSUME NEW e \in Exits, SubscriptionJoins(e) PROVE CalmInv'
  <2>1. PICK ip \in ExitIPs \cup {NoIP}, latency \in Latencies :
          Elsewhere(Insert(pool, e, [source |-> "subscription", exitIP |-> ip,
                                     latencyMs |-> latency, addedAt |-> now], FALSE))
    BY <1>1 DEF SubscriptionJoins
  <2> DEFINE node == [source |-> "subscription", exitIP |-> ip, latencyMs |-> latency,
                      addedAt |-> now]
  <2>2. node \in Node /\ node.source # "free"
    BY <1>0 DEF Node, Sources
  <2>3. pool' = Insert(pool, e, node, FALSE) /\ now' = now /\ round' = round
    BY <2>1 DEF Elsewhere
  <2> HIDE DEF node
  <2>4. Calm(pool') /\ AvailableFree(pool', now) \subseteq AvailableFree(pool, now)
    BY <1>0, <2>2, <2>3, CalmInsert
  <2>5. pool'.target = pool.target
    BY <1>0, <2>2, <2>3, InsertEffect
  <2>6. /\ AvailableFree(pool', now') \subseteq AvailableFree(pool, now)
        /\ round' = round /\ Calm(pool') /\ now' <= MaxClock
    BY <1>0, <2>3, <2>4
  <2>7. pool.target <= pool'.target /\ \A v \in TargetSizes : pool'.target <= v
    BY <1>0, <2>5
  <2> QED
    BY <2>6, <2>7, RoundsRest
<1>2. ASSUME NEW e \in Exits, StrikeDead(e) PROVE CalmInv'
  <2>1. pool' = MarkDeadStrike(pool, e) /\ now' = now /\ round' = round
    BY <1>2 DEF StrikeDead, Elsewhere
  <2>2. Calm(pool') /\ AvailableFree(pool', now) \subseteq AvailableFree(pool, now)
        /\ pool'.target = pool.target
    BY <1>0, <2>1, CalmStrike
  <2>3. /\ AvailableFree(pool', now') \subseteq AvailableFree(pool, now)
        /\ round' = round /\ Calm(pool') /\ now' <= MaxClock
    BY <1>0, <2>1, <2>2
  <2>4. pool.target <= pool'.target /\ \A v \in TargetSizes : pool'.target <= v
    BY <1>0, <2>2
  <2> QED
    BY <2>3, <2>4, RoundsRest
<1>3. ASSUME ApplyTargetSize PROVE CalmInv'
  <2>1. PICK value \in TargetSizes : Elsewhere(SetTargetSize(pool, value))
    BY <1>3 DEF ApplyTargetSize
  <2>2. pool.target <= value /\ value \in Nat /\ value > 0 /\ \A v \in TargetSizes : v = value
    <3>1. pool.target > 0 /\ pool.target <= value
      BY <1>0 DEF PoolInv, TableOK, IsPool
    <3>2. value \in Nat /\ \A v \in TargetSizes : v = value
      BY DEF Undisturbed
    <3> QED
      BY <1>0, <3>1, <3>2
  <2>3. /\ pool' = [pool EXCEPT !.target = IF value > 1 THEN value ELSE 1]
        /\ now' = now /\ round' = round
    BY <2>1 DEF Elsewhere, SetTargetSize
  <2>4. pool'.nodes = pool.nodes /\ pool'.health = pool.health /\ pool'.bans = pool.bans
        /\ pool'.target = IF value > 1 THEN value ELSE 1
    BY <1>0, <2>3 DEF PoolInv, TableOK, IsPool
  <2>5. pool'.target = value
    BY <2>2, <2>4
  <2>6. Calm(pool')
    BY <1>0, <2>4 DEF Calm
  <2>7. AvailableFree(pool', now) = AvailableFree(pool, now)
    <3>1. FreeExits(pool') = FreeExits(pool)
      BY <2>4 DEF FreeExits
    <3>2. \A a : Dormant(pool', a, now) <=> Dormant(pool, a, now)
      BY <2>4 DEF Dormant
    <3> QED
      BY <1>0, <2>6, <3>1, <3>2, CalmAvailable
  <2>8. /\ AvailableFree(pool', now') \subseteq AvailableFree(pool, now)
        /\ round' = round /\ now' <= MaxClock
    BY <1>0, <2>3, <2>7
  <2>9. pool.target <= pool'.target /\ \A v \in TargetSizes : pool'.target <= v
    BY <2>2, <2>5
  <2> QED
    BY <2>6, <2>8, <2>9, RoundsRest
<1> QED
  BY <1>1, <1>2, <1>3

LEMMA TickCalm == ASSUME CalmInv, IInv', Tick PROVE CalmInv'
<1>1. /\ now' = now + 1 /\ now \in Nat /\ now' <= MaxClock /\ pool' = pool /\ round' = round
      /\ Calm(pool) /\ pool.target \in Nat /\ \A v \in TargetSizes : pool.target <= v
      /\ PoolInv(pool, now)
  BY DEF Tick, CalmInv, IInv, PoolOK, PoolInv, TableOK, IsPool
<1>2. ASSUME NEW e PROVE Dormant(pool, e, now) => Dormant(pool, e, now + 1)
  <2>1. CASE e \in DOMAIN pool.health /\ pool.health[e].cooldownUntil > now
    <3>1. Lasting(pool.health[e]) /\ pool.health[e].cooldownUntil \in Nat
      BY <1>1, <2>1 DEF Calm, PoolInv, TableOK, IsPool, IsMap, Health
    <3>2. pool.health[e].cooldownUntil > now + 1
      BY <1>1, <2>1, <3>1 DEF Lasting
    <3> QED
      BY <3>2 DEF Dormant
  <2> QED
    BY <2>1 DEF Dormant
<1>3. AvailableFree(pool', now') \subseteq AvailableFree(pool, now)
  BY <1>1, <1>2, CalmAvailable
<1> QED
  BY <1>1, <1>3, RoundsRest

LEMMA CalmStep == Undisturbed /\ CalmInv /\ [Next]_vars => CalmInv'
<1> SUFFICES ASSUME Undisturbed, CalmInv, [Next]_vars PROVE CalmInv'
  OBVIOUS
<1>1. IInv'
  BY NextIInv DEF CalmInv
<1>2. ASSUME pool' = pool, now' = now, round' = round PROVE CalmInv'
  BY <1>1, <1>2 DEF CalmInv, Wanted
<1>3. CASE UNCHANGED vars
  BY <1>2, <1>3 DEF vars
<1>4. ASSUME NEW s \in Schedulers, Start(s) \/ Stop(s) PROVE CalmInv'
  BY <1>2, <1>4 DEF Start, Stop
<1>5. ASSUME NEW s \in Schedulers, RoundStep(s) PROVE CalmInv'
  BY <1>1, <1>5, FetchCalm, ScreenCalm, StartTaskCalm, TaskEndsCalm DEF RoundStep
<1> QED
  BY <1>1, <1>3, <1>4, <1>5, TickRoundCalm, ElsewhereCalm, TickCalm DEF Next

LEMMA CalmInit == Undisturbed /\ Init => CalmInv
<1> SUFFICES ASSUME Undisturbed, Init PROVE CalmInv
  OBVIOUS
<1>1. /\ pool = EmptyPool(InitialTarget) /\ now = 0 /\ round = [s \in Schedulers |-> NoRound]
  BY DEF Init
<1>2. Calm(pool) /\ pool.target = InitialTarget
  BY <1>1 DEF EmptyPool, Calm
<1> QED
  BY <1>1, <1>2, InitIInv, NoSeats DEF CalmInv, Undisturbed

\* A pool that has all the usable exits it wants is left alone by the survivors
\* of an undisturbed round: for any lists, workers and thresholds.
THEOREM NoChurn == Undisturbed => (Spec => SatisfiedPoolUnchurned)
<1> SUFFICES ASSUME Undisturbed PROVE Spec => SatisfiedPoolUnchurned
  OBVIOUS
<1>1. ASSUME CalmInv, NEW s \in Schedulers, NEW e \in Exits, Admitted(s, e)
      PROVE  AdmissionQuota(pool, now) > 0
  <2> DEFINE r == round[s]
             landed == Cardinality(r.claimed \ r.probing)
  <2>1. e \in r.probing /\ RoundOK(r) /\ SeatsOK(r, Wanted)
    BY <1>1 DEF Admitted, CalmInv, IInv, RoundsOK
  <2>2. e \in r.claimed /\ r.phase # "idle" /\ r.quota \in Nat
    BY <2>1 DEF RoundOK, NoRound, Round
  <2>3. landed \in Nat /\ landed < Cardinality(r.claimed) /\ Cardinality(r.claimed) \in Nat
    <3>1. /\ r.claimed \ r.probing \in SUBSET r.claimed /\ IsFiniteSet(r.claimed)
          /\ r.claimed # r.claimed \ r.probing
      BY <2>1, <2>2 DEF SeatsOK
    <3>2. /\ IsFiniteSet(r.claimed \ r.probing) /\ landed <= Cardinality(r.claimed)
          /\ landed # Cardinality(r.claimed)
      BY <3>1, FS_Subset
    <3>3. landed \in Nat /\ Cardinality(r.claimed) \in Nat
      BY <3>1, <3>2, FS_CardinalityType
    <3> QED
      BY <3>2, <3>3
  <2>4. Cardinality(r.claimed) <= r.quota /\ r.quota <= Wanted + landed
    BY <2>1, <2>2 DEF SeatsOK
  <2>5. pool.target \in Nat /\ Cardinality(AvailableFree(pool, now)) \in Nat
    BY <1>1, CountFree DEF CalmInv, IInv, PoolOK, PoolInv, TableOK, IsPool
  <2> HIDE DEF r, landed
  <2>6. Wanted > 0
    BY <2>2, <2>3, <2>4, <2>5 DEF Wanted
  <2> QED
    BY <2>5, <2>6 DEF Wanted, AdmissionQuota
<1>2. CalmInv /\ [Next]_vars =>
        [(\E s \in Schedulers, e \in Exits : Admitted(s, e) /\ pool' # pool)
           => AdmissionQuota(pool, now) > 0]_vars
  BY <1>1
<1>3. Init => CalmInv
  BY CalmInit
<1>4. CalmInv /\ [Next]_vars => CalmInv'
  BY CalmStep
<1> QED
  BY <1>2, <1>3, <1>4, PTL DEF Spec, SatisfiedPoolUnchurned
=============================================================================
