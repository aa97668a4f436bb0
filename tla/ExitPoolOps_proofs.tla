------------------------- MODULE ExitPoolOps_proofs -------------------------
(***************************************************************************)
(* Lemmas about the methods of the exit pool, for every set of exits,      *)
(* models, sessions and exit IPs and every value of the thresholds: which  *)
(* property of a pool value each one keeps, and what it leaves alone. The  *)
(* proofs about the components that call the pool rest on them.            *)
(***************************************************************************)
EXTENDS ExitPoolOps, TLAPS
LOCAL INSTANCE Functions

USE ConstantsAssumption

(***************************************************************************)
(* What holds of every pool value that the methods make, at a time t.      *)
(***************************************************************************)
CoolingOK(h, t) ==
  /\ h.consecutiveLimited = 0 <=> h.cooldownUntil = 0
  /\ h.cooldownUntil > 0 => h.cooldownUntil <= t + Backoff(h.consecutiveLimited)
  /\ h.cooldownUntil <= t + CooldownMax

BanOK(ban) ==
  /\ ban.state = "banned" <=> ban.consecutiveFailures >= BanConfirmations
  /\ ban.state = "ok" <=> ban.consecutiveFailures = 0

TableOK(p) ==
  /\ IsPool(p)
  /\ DOMAIN p.health = DOMAIN p.nodes
  /\ \A s \in DOMAIN p.sticky : p.sticky[s] \in DOMAIN p.nodes
  /\ p.pinned # NoExit => p.pinned \in DOMAIN p.nodes
  /\ \A a, b \in DOMAIN p.nodes :
       (p.nodes[a].exitIP = p.nodes[b].exitIP /\ p.nodes[a].exitIP # NoIP) => a = b

SignalsOK(p, t) ==
  /\ \A e \in DOMAIN p.health : CoolingOK(p.health[e], t)
  /\ \A key \in DOMAIN p.bans : BanOK(p.bans[key])

PoolInv(p, t) == TableOK(p) /\ SignalsOK(p, t)

LEMMA BackoffBounded ==
  ASSUME NEW n PROVE Backoff(n) \in 1 .. CooldownMax
  BY DEF Backoff

\* Time only loosens the bounds on a cooldown.
LEMMA TimePasses ==
  ASSUME NEW p, NEW t \in Nat, PoolInv(p, t)
  PROVE  PoolInv(p, t + 1)
<1>1. ASSUME NEW e \in DOMAIN p.health PROVE CoolingOK(p.health[e], t + 1)
  <2> DEFINE h == p.health[e]
             b == Backoff(h.consecutiveLimited)
  <2>1. h \in Health /\ CoolingOK(h, t) /\ b \in Nat
    BY BackoffBounded DEF PoolInv, TableOK, IsPool, IsMap, SignalsOK
  <2>2. /\ h.consecutiveLimited = 0 <=> h.cooldownUntil = 0
        /\ h.cooldownUntil > 0 => h.cooldownUntil <= t + b
        /\ h.cooldownUntil <= t + CooldownMax
        /\ h.cooldownUntil \in Nat
    BY <2>1 DEF CoolingOK, Health
  <2> HIDE DEF b, h
  <2>3. /\ h.consecutiveLimited = 0 <=> h.cooldownUntil = 0
        /\ h.cooldownUntil > 0 => h.cooldownUntil <= t + 1 + b
        /\ h.cooldownUntil <= t + 1 + CooldownMax
    BY <2>1, <2>2
  <2> QED
    BY <2>3 DEF CoolingOK, b, h
<1> QED
  BY <1>1 DEF PoolInv, SignalsOK

\* Replacing the health record of a known exit.
LEMMA HealthWrite ==
  ASSUME NEW p, NEW t \in Nat, PoolInv(p, t), NEW e,
         NEW h, e \in DOMAIN p.health => h \in Health /\ CoolingOK(h, t)
  PROVE  PoolInv(UpdateHealth(p, e, h), t)
<1> DEFINE q == UpdateHealth(p, e, h)
<1>1. CASE e \notin DOMAIN p.health
  BY <1>1 DEF UpdateHealth
<1>2. CASE e \in DOMAIN p.health
  <2>1. q = [p EXCEPT !.health = [p.health EXCEPT ![e] = h]]
    BY <1>2 DEF UpdateHealth, PoolInv, TableOK, IsPool
  <2>2. IsPool(q)
    BY <1>2, <2>1 DEF PoolInv, TableOK, IsPool, IsMap
  <2>3. TableOK(q)
    BY <1>2, <2>1, <2>2 DEF PoolInv, TableOK, IsPool
  <2>4. SignalsOK(q, t)
    BY <1>2, <2>1 DEF PoolInv, TableOK, IsPool, IsMap, SignalsOK
  <2> QED
    BY <2>3, <2>4 DEF PoolInv
<1> QED
  BY <1>1, <1>2

\* Writing the ban record of a pairing.
LEMMA BanWrite ==
  ASSUME NEW p, NEW t \in Nat, PoolInv(p, t), NEW e \in Exits, NEW m \in Models,
         NEW ban \in Ban, BanOK(ban)
  PROVE  PoolInv([p EXCEPT !.bans = Put(@, <<e, m>>, ban)], t)
<1> DEFINE q == [p EXCEPT !.bans = Put(@, <<e, m>>, ban)]
<1>1. q.bans = Put(p.bans, <<e, m>>, ban)
  BY DEF PoolInv, TableOK, IsPool
<1>2. IsMap(q.bans, Exits \X Models, Ban)
  BY <1>1 DEF PoolInv, TableOK, IsPool, IsMap, Put
<1>3. TableOK(q)
  BY <1>2 DEF PoolInv, TableOK, IsPool
<1>4. SignalsOK(q, t)
  BY <1>1 DEF PoolInv, TableOK, IsPool, SignalsOK, Put
<1> QED
  BY <1>3, <1>4 DEF PoolInv

(***************************************************************************)
(* One lemma per method.                                                   *)
(***************************************************************************)
LEMMA AddKeeps ==
  ASSUME NEW p, NEW t \in Nat, PoolInv(p, t), NEW e \in Exits, NEW node \in Node
  PROVE  PoolInv(Add(p, e, node), t)
<1> DEFINE q == Add(p, e, node)
           h == IF e \in DOMAIN p.health THEN p.health ELSE Put(p.health, e, FreshHealth)
<1>1. CASE ~Accepts(p, e, node)
  BY <1>1 DEF Add
<1>2. CASE Accepts(p, e, node)
  <2>1. q = [p EXCEPT !.nodes = Put(p.nodes, e, node), !.health = h]
    BY <1>2 DEF Add, PoolInv, TableOK, IsPool
  <2>2. IsMap(Put(p.nodes, e, node), Exits, Node)
    BY DEF PoolInv, TableOK, IsPool, IsMap, Put
  <2>3. FreshHealth \in Health /\ CoolingOK(FreshHealth, t)
    BY DEF FreshHealth, Health, ExitStates, CoolingOK
  <2>4. IsMap(h, Exits, Health)
    BY <2>3 DEF PoolInv, TableOK, IsPool, IsMap, Put
  <2>5. /\ q.nodes = Put(p.nodes, e, node) /\ q.health = h /\ q.bans = p.bans
        /\ q.sticky = p.sticky /\ q.passive = p.passive /\ q.pinned = p.pinned
        /\ q.target = p.target
    BY <2>1 DEF PoolInv, TableOK, IsPool
  <2>6. IsPool(q)
    <3>1. q = [nodes |-> q.nodes, health |-> q.health, bans |-> q.bans, sticky |-> q.sticky,
               passive |-> q.passive, pinned |-> q.pinned, target |-> q.target]
      BY <2>1 DEF PoolInv, TableOK, IsPool
    <3> QED
      BY <2>2, <2>4, <2>5, <3>1 DEF PoolInv, TableOK, IsPool
  <2>7. DOMAIN q.nodes = DOMAIN p.nodes \cup {e} /\ DOMAIN q.health = DOMAIN q.nodes
    BY <2>5 DEF PoolInv, TableOK, Put
  <2>8. ASSUME NEW a \in DOMAIN q.nodes, NEW b \in DOMAIN q.nodes,
               q.nodes[a].exitIP = q.nodes[b].exitIP, q.nodes[a].exitIP # NoIP
        PROVE  a = b
    BY <1>2, <2>5, <2>7, <2>8 DEF PoolInv, TableOK, Put, Accepts, HasExitIP
  <2>9. TableOK(q)
    BY <2>5, <2>6, <2>7, <2>8 DEF PoolInv, TableOK
  <2>10. SignalsOK(q, t)
    BY <2>3, <2>5 DEF PoolInv, SignalsOK, Put
  <2> QED
    BY <2>9, <2>10 DEF PoolInv
<1> QED
  BY <1>1, <1>2

LEMMA RemoveKeeps ==
  ASSUME NEW p, NEW t \in Nat, PoolInv(p, t), NEW e
  PROVE  PoolInv(Remove(p, e), t)
<1> DEFINE q == Remove(p, e)
<1>1. /\ q.nodes = Restrict(p.nodes, DOMAIN p.nodes \ {e})
      /\ q.health = Restrict(p.health, DOMAIN p.health \ {e})
      /\ q.bans = Restrict(p.bans, DOMAIN p.bans \ ({e} \X Models))
      /\ q.sticky = Restrict(p.sticky, {s \in DOMAIN p.sticky : p.sticky[s] # e})
      /\ q.passive = p.passive \ {e}
      /\ q.pinned = IF p.pinned = e THEN NoExit ELSE p.pinned
      /\ q.target = p.target
  BY DEF Remove, Without
<1>2. q = [nodes |-> q.nodes, health |-> q.health, bans |-> q.bans, sticky |-> q.sticky,
           passive |-> q.passive, pinned |-> q.pinned, target |-> q.target]
  BY DEF Remove
<1>3. /\ IsMap(q.nodes, Exits, Node)
      /\ IsMap(q.health, Exits, Health)
      /\ IsMap(q.bans, Exits \X Models, Ban)
  BY <1>1 DEF PoolInv, TableOK, IsPool, IsMap, Restrict
<1>4. /\ DOMAIN q.sticky = {s \in DOMAIN p.sticky : p.sticky[s] # e}
      /\ \A s \in DOMAIN q.sticky : q.sticky[s] = p.sticky[s]
      /\ IsMap(q.sticky, Sessions, Exits)
  BY <1>1 DEF PoolInv, TableOK, IsPool, IsMap, Restrict
<1>5. IsPool(q)
  BY <1>1, <1>2, <1>3, <1>4 DEF PoolInv, TableOK, IsPool
<1>6. /\ DOMAIN q.nodes = DOMAIN p.nodes \ {e}
      /\ DOMAIN q.health = DOMAIN p.health \ {e}
      /\ \A a \in DOMAIN q.nodes : q.nodes[a] = p.nodes[a]
      /\ \A a \in DOMAIN q.health : q.health[a] = p.health[a]
      /\ DOMAIN q.bans \subseteq DOMAIN p.bans
      /\ \A key \in DOMAIN q.bans : q.bans[key] = p.bans[key]
  BY <1>1 DEF Restrict
<1>7. TableOK(q)
  BY <1>1, <1>4, <1>5, <1>6 DEF PoolInv, TableOK
<1>8. SignalsOK(q, t)
  BY <1>6 DEF PoolInv, SignalsOK
<1> QED
  BY <1>7, <1>8 DEF PoolInv

\* Fields that no conjunct of the invariant relates to another one.
LEMMA FieldWrite ==
  ASSUME NEW p, NEW t \in Nat, PoolInv(p, t)
  PROVE  /\ \A e \in Exits : PoolInv(CountPassive(p, e), t)
         /\ \A e : PoolInv(Pin(p, e), t)
         /\ \A value \in Nat : PoolInv(SetTargetSize(p, value), t)
         /\ PoolInv([p EXCEPT !.pinned = NoExit], t)
<1> USE DEF PoolInv, TableOK, SignalsOK, IsPool
<1>1. ASSUME NEW e \in Exits PROVE PoolInv(CountPassive(p, e), t)
  <2> DEFINE q == CountPassive(p, e)
  <2>1. /\ q = [p EXCEPT !.passive = p.passive \cup {e}]
        /\ p.passive \cup {e} \subseteq Exits
    BY DEF CountPassive
  <2>2. IsPool(q)
    BY <2>1
  <2>3. TableOK(q)
    BY <2>1, <2>2
  <2> QED
    BY <2>1, <2>3
<1>2. ASSUME NEW e PROVE PoolInv(Pin(p, e), t)
  BY DEF Pin, IsMap
<1>3. ASSUME NEW value \in Nat PROVE PoolInv(SetTargetSize(p, value), t)
  BY DEF SetTargetSize
<1>4. PoolInv([p EXCEPT !.pinned = NoExit], t)
  OBVIOUS
<1> QED
  BY <1>1, <1>2, <1>3, <1>4

\* The sticky map: forgetting a session, and binding it to a node.
LEMMA StickyWrite ==
  ASSUME NEW p, NEW t \in Nat, PoolInv(p, t), NEW s \in Sessions
  PROVE  /\ PoolInv(RerouteSession(p, s), t)
         /\ \A e \in DOMAIN p.nodes : PoolInv([p EXCEPT !.sticky = Put(@, s, e)], t)
<1> USE DEF PoolInv, TableOK, SignalsOK, IsPool, IsMap
<1>1. PoolInv(RerouteSession(p, s), t)
  BY DEF RerouteSession, Without, Restrict
<1>2. ASSUME NEW e \in DOMAIN p.nodes PROVE PoolInv([p EXCEPT !.sticky = Put(@, s, e)], t)
  BY DEF Put
<1> QED
  BY <1>1, <1>2

LEMMA HealthMarksKeep ==
  ASSUME NEW p, NEW t \in Nat, PoolInv(p, t), NEW e
  PROVE  /\ PoolInv(ReleaseProbeLock(p, e), t)
         /\ PoolInv(MarkDead(p, e), t)
         /\ PoolInv(MarkOk(p, e), t)
         /\ PoolInv(MarkLimited(p, e, t), t)
         /\ LockFree(p, e) => PoolInv(TakeProbeLock(p, e), t)
<1> DEFINE h == p.health[e]
<1>0. e \in DOMAIN p.health => h \in Health /\ CoolingOK(h, t)
  BY DEF PoolInv, TableOK, IsPool, IsMap, SignalsOK
<1>1. PoolInv(ReleaseProbeLock(p, e), t)
  <2>1. e \in DOMAIN p.health =>
          LET g == [h EXCEPT !.inflight = FALSE] IN g \in Health /\ CoolingOK(g, t)
    BY <1>0 DEF Health, CoolingOK
  <2> QED
    BY <2>1, HealthWrite DEF ReleaseProbeLock
<1>2. PoolInv(MarkDead(p, e), t)
  <2>1. e \in DOMAIN p.health =>
          LET g == [h EXCEPT !.state = "dead", !.inflight = FALSE]
          IN  g \in Health /\ CoolingOK(g, t)
    BY <1>0 DEF Health, ExitStates, CoolingOK
  <2> QED
    BY <2>1, HealthWrite DEF MarkDead
<1>3. PoolInv(MarkOk(p, e), t)
  <2> DEFINE g == [h EXCEPT !.state = "ok", !.consecutiveLimited = 0,
                            !.cooldownUntil = 0, !.deadStrikes = 0]
  <2>1. ASSUME e \in DOMAIN p.health PROVE g \in Health /\ CoolingOK(g, t)
    <3>1. g \in Health
      BY <1>0, <2>1 DEF Health, ExitStates
    <3>2. g.consecutiveLimited = 0 /\ g.cooldownUntil = 0
      BY <1>0, <2>1 DEF Health
    <3> QED
      BY <3>1, <3>2 DEF CoolingOK
  <2> QED
    BY <2>1, HealthWrite DEF MarkOk
<1>4. PoolInv(MarkLimited(p, e, t), t)
  <2> DEFINE n == h.consecutiveLimited + 1
             g == [h EXCEPT !.state = "ok", !.consecutiveLimited = n,
                            !.cooldownUntil = t + Backoff(n)]
  <2>1. Backoff(n) \in 1 .. CooldownMax
    BY BackoffBounded
  <2>2. ASSUME e \in DOMAIN p.health PROVE g \in Health /\ CoolingOK(g, t)
    <3>1. n \in Nat \ {0} /\ t + Backoff(n) \in Nat \ {0}
      BY <1>0, <2>1, <2>2 DEF Health
    <3>2. g \in Health
      BY <1>0, <2>2, <3>1 DEF Health, ExitStates
    <3>3. g.consecutiveLimited = n /\ g.cooldownUntil = t + Backoff(n)
      BY <1>0, <2>2 DEF Health
    <3>4. /\ n # 0 /\ t + Backoff(n) # 0
          /\ t + Backoff(n) <= t + Backoff(n)
          /\ t + Backoff(n) <= t + CooldownMax
      BY <2>1, <3>1
    <3>5. CoolingOK(g, t)
      BY <3>3, <3>4, Zenon DEF CoolingOK
    <3> QED
      BY <3>2, <3>5
  <2> QED
    BY <2>2, HealthWrite DEF MarkLimited
<1>5. ASSUME LockFree(p, e) PROVE PoolInv(TakeProbeLock(p, e), t)
  <2>1. LET g == [h EXCEPT !.inflight = TRUE] IN g \in Health /\ CoolingOK(g, t)
    BY <1>0, <1>5 DEF Health, CoolingOK, LockFree
  <2>2. TakeProbeLock(p, e) = UpdateHealth(p, e, [h EXCEPT !.inflight = TRUE])
    BY <1>5 DEF TakeProbeLock, UpdateHealth, LockFree, PoolInv, TableOK, IsPool, IsMap
  <2> QED
    BY <2>1, <2>2, HealthWrite
<1> QED
  BY <1>1, <1>2, <1>3, <1>4, <1>5

LEMMA BanMarksKeep ==
  ASSUME NEW p, NEW t \in Nat, PoolInv(p, t), NEW e \in Exits, NEW m \in Models
  PROVE  /\ PoolInv(MarkOkFor(p, e, m), t)
         /\ PoolInv(MarkModelBanned(p, e, m), t)
         /\ PoolInv(MarkModelSignal(p, e, m), t)
<1>1. PoolInv(MarkOkFor(p, e, m), t)
  <2>1. OkBan \in Ban /\ BanOK(OkBan)
    BY DEF OkBan, Ban, BanStates, BanOK
  <2> QED
    BY <2>1, HealthMarksKeep, BanWrite DEF MarkOkFor
<1>2. PoolInv(MarkModelBanned(p, e, m), t)
  <2> DEFINE ban == [state |-> "banned", consecutiveFailures |-> BanConfirmations]
  <2>1. ban \in Ban /\ BanOK(ban)
    BY DEF Ban, BanStates, BanOK
  <2> QED
    BY <2>1, BanWrite DEF MarkModelBanned
<1>3. PoolInv(MarkModelSignal(p, e, m), t)
  <2> DEFINE old   == BanOf(p, e, m)
             fails == old.consecutiveFailures + 1
             state == IF old.state = "banned" \/ fails >= BanConfirmations
                      THEN "banned" ELSE "suspect"
             ban   == [state |-> state, consecutiveFailures |-> fails]
  <2>1. old \in Ban /\ BanOK(old)
    BY DEF BanOf, OkBan, Ban, BanStates, BanOK, PoolInv, TableOK, IsPool, IsMap, SignalsOK
  <2>2. ban \in Ban /\ BanOK(ban)
    BY <2>1 DEF Ban, BanStates, BanOK
  <2> QED
    BY <2>2, BanWrite DEF MarkModelSignal
<1> QED
  BY <1>1, <1>2, <1>3

LEMMA StrikeKeeps ==
  ASSUME NEW p, NEW t \in Nat, PoolInv(p, t), NEW e
  PROVE  PoolInv(MarkDeadStrike(p, e), t)
<1> DEFINE h == p.health[e]
           g == [h EXCEPT !.state = "dead", !.inflight = FALSE,
                          !.deadStrikes = h.deadStrikes + 1]
<1>1. ASSUME e \in DOMAIN p.health PROVE g \in Health /\ CoolingOK(g, t)
  <2>1. h \in Health /\ CoolingOK(h, t)
    BY <1>1 DEF PoolInv, TableOK, IsPool, IsMap, SignalsOK
  <2>2. g \in Health
    <3> DEFINE k == h.deadStrikes + 1
    <3>1. k \in Nat
      BY <2>1 DEF Health
    <3>2. g = [h EXCEPT !.state = "dead", !.inflight = FALSE, !.deadStrikes = k]
      OBVIOUS
    <3> HIDE DEF k, g
    <3> QED
      BY <2>1, <3>1, <3>2 DEF Health, ExitStates
  <2>3. g.consecutiveLimited = h.consecutiveLimited /\ g.cooldownUntil = h.cooldownUntil
    BY <2>1 DEF Health
  <2> QED
    BY <2>1, <2>2, <2>3, Zenon DEF CoolingOK
<1>2. PoolInv(UpdateHealth(p, e, g), t)
  BY <1>1, HealthWrite
<1> QED
  BY <1>2, RemoveKeeps DEF MarkDeadStrike

LEMMA PassiveKeeps ==
  ASSUME NEW p, NEW t \in Nat, PoolInv(p, t), NEW e \in Exits, NEW m \in Models
  PROVE  /\ PoolInv(RecordPassiveTransport(p, e), t)
         /\ \A status \in Statuses : PoolInv(RecordPassive(p, e, status, m, t), t)
<1>1. PoolInv(RecordPassiveTransport(p, e), t)
  BY StrikeKeeps, FieldWrite DEF RecordPassiveTransport
<1>2. ASSUME NEW status \in Statuses PROVE PoolInv(RecordPassive(p, e, status, m, t), t)
  <2> DEFINE q == CASE status = "2xx"     -> MarkOkFor(p, e, m)
                    [] status = "429"     -> MarkLimited(p, e, t)
                    [] status = "refused" -> MarkModelSignal(p, e, m)
                    [] status = "region"  -> MarkModelBanned(p, e, m)
                    [] OTHER              -> p
  <2>1. PoolInv(q, t)
    <3>1. /\ PoolInv(MarkOkFor(p, e, m), t)
          /\ PoolInv(MarkModelSignal(p, e, m), t)
          /\ PoolInv(MarkModelBanned(p, e, m), t)
      BY BanMarksKeep
    <3>2. PoolInv(MarkLimited(p, e, t), t)
      BY HealthMarksKeep
    <3>3. q \in {MarkOkFor(p, e, m), MarkLimited(p, e, t), MarkModelSignal(p, e, m),
                MarkModelBanned(p, e, m), p}
      BY DEF Statuses
    <3> HIDE DEF q
    <3> QED
      BY <3>1, <3>2, <3>3
  <2> HIDE DEF q
  <2>2. PoolInv(CountPassive(q, e), t)
    BY <2>1, FieldWrite
  <2> QED
    BY <2>2 DEF RecordPassive, q
<1> QED
  BY <1>1, <1>2

\* Whatever pick returns is an exit of the table, or NoExit.
LEMMA PickInTable ==
  ASSUME NEW p, NEW t \in Nat, PoolInv(p, t), NEW s \in Sessions, NEW m \in Models,
         NEW e \in PickResults(p, s, m, t)
  PROVE  e \in DOMAIN p.nodes \cup {NoExit}
<1>1. CASE PinnedServes(p, m, t)
  BY <1>1 DEF PickResults, PinnedServes, PoolInv, TableOK
<1>2. CASE ~PinnedServes(p, m, t) /\ StickyServes(p, s, m, t)
  BY <1>2 DEF PickResults, StickyServes, PoolInv, TableOK
<1>3. CASE ~PinnedServes(p, m, t) /\ ~StickyServes(p, s, m, t)
  BY <1>3 DEF PickResults, Rotation, Best, UsableExits
<1> QED
  BY <1>1, <1>2, <1>3

LEMMA PickKeeps ==
  ASSUME NEW p, NEW t \in Nat, PoolInv(p, t), NEW s \in Sessions, NEW m \in Models,
         NEW e \in PickResults(p, s, m, t)
  PROVE  PoolInv(AfterPick(p, s, m, e, t), t)
<1>1. CASE PinnedServes(p, m, t) \/ e = NoExit
  BY <1>1 DEF AfterPick
<1>2. CASE ~PinnedServes(p, m, t) /\ e # NoExit
  <2>1. e \in DOMAIN p.nodes
    BY <1>2, PickInTable
  <2>2. PoolInv([p EXCEPT !.sticky = Put(@, s, e)], t)
    BY <2>1, StickyWrite
  <2> QED
    BY <1>2, <2>2 DEF AfterPick
<1> QED
  BY <1>1, <1>2

(***************************************************************************)
(* What a method leaves alone: most of them touch neither the table nor    *)
(* what points into it.                                                    *)
(***************************************************************************)
Kept(p, q) == q.nodes = p.nodes /\ q.sticky = p.sticky /\ q.pinned = p.pinned

LEMMA HealthOnly ==
  ASSUME NEW p, NEW t, IsPool(p), NEW e
  PROVE  /\ \A h : Kept(p, UpdateHealth(p, e, h))
         /\ LockFree(p, e) => Kept(p, TakeProbeLock(p, e))
         /\ Kept(p, ReleaseProbeLock(p, e)) /\ Kept(p, MarkDead(p, e)) /\ Kept(p, MarkOk(p, e))
         /\ Kept(p, MarkLimited(p, e, t))
<1>1. \A h : Kept(p, UpdateHealth(p, e, h))
  BY DEF IsPool, Kept, UpdateHealth
<1>2. LockFree(p, e) => Kept(p, TakeProbeLock(p, e))
  BY DEF IsPool, Kept, TakeProbeLock
<1> QED
  BY <1>1, <1>2 DEF ReleaseProbeLock, MarkDead, MarkOk, MarkLimited

LEMMA BansOnly ==
  ASSUME NEW p, IsPool(p), NEW e, NEW m
  PROVE  /\ Kept(p, MarkOkFor(p, e, m))
         /\ Kept(p, MarkModelBanned(p, e, m))
         /\ Kept(p, MarkModelSignal(p, e, m))
<1> DEFINE q == MarkOk(p, e)
<1>1. Kept(p, q) /\ q = [nodes |-> q.nodes, health |-> q.health, bans |-> q.bans,
                        sticky |-> q.sticky, passive |-> q.passive, pinned |-> q.pinned,
                        target |-> q.target]
  BY DEF IsPool, Kept, MarkOk, UpdateHealth
<1> HIDE DEF q
<1>2. Kept(p, [q EXCEPT !.bans = Put(@, <<e, m>>, OkBan)])
  BY <1>1 DEF Kept
<1>3. Kept(p, MarkModelBanned(p, e, m)) /\ Kept(p, MarkModelSignal(p, e, m))
  BY DEF IsPool, Kept, MarkModelBanned, MarkModelSignal
<1> QED
  BY <1>2, <1>3 DEF MarkOkFor, q

LEMMA CountOnly ==
  ASSUME NEW p, NEW t, PoolInv(p, t), NEW e
  PROVE  /\ Kept(p, CountPassive(p, e))
         /\ \A value : Kept(p, SetTargetSize(p, value))
  BY DEF PoolInv, TableOK, IsPool, Kept, CountPassive, SetTargetSize

\* A strike drops a free exit from the table, or leaves the table alone.
LEMMA StrikeEffect ==
  ASSUME NEW p, IsPool(p), NEW e
  PROVE  LET q == MarkDeadStrike(p, e)
         IN  \/ Kept(p, q)
             \/ e \in DOMAIN p.nodes /\ p.nodes[e].source = "free" /\ q = Remove(p, e)
<1>1. \A h : Kept(p, UpdateHealth(p, e, h))
  BY DEF IsPool, Kept, UpdateHealth
<1>2. Kept(p, p)
  BY DEF Kept
<1> QED
  BY <1>1, <1>2 DEF MarkDeadStrike, Evicts

(***************************************************************************)
(* Who holds a probe lock after a call, and which free exits count as      *)
(* alive: only TakeProbeLock adds to the first, only a mark of success or  *)
(* of a 429 to the second.                                                 *)
(***************************************************************************)
Locked(p) == {e \in DOMAIN p.health : p.health[e].inflight}

AliveFree(p) == {e \in FreeExits(p) : p.health[e].state = "ok"}

\* q has locks of p only, and no free exit is alive in q that was not in p.
Quieter(p, q) == Locked(q) \subseteq Locked(p) /\ AliveFree(q) \subseteq AliveFree(p)

LEMMA HealthWriteEffect ==
  ASSUME NEW p, NEW t, PoolInv(p, t), NEW e, NEW h
  PROVE  LET q == UpdateHealth(p, e, h)
         IN  /\ Locked(q) \ {e} \subseteq Locked(p)
             /\ AliveFree(q) \ {e} \subseteq AliveFree(p)
             /\ e \in Locked(q) => h.inflight
             /\ e \in AliveFree(q) => e \in DOMAIN p.health /\ h.state = "ok"
             /\ q.nodes = p.nodes
<1> DEFINE q == UpdateHealth(p, e, h)
<1>1. CASE e \notin DOMAIN p.health
  BY <1>1 DEF UpdateHealth, Locked, AliveFree, FreeExits, PoolInv, TableOK
<1>2. CASE e \in DOMAIN p.health
  <2>1. /\ q.nodes = p.nodes /\ DOMAIN q.health = DOMAIN p.health
        /\ q.health[e] = h
        /\ \A a \in DOMAIN p.health \ {e} : q.health[a] = p.health[a]
    BY <1>2 DEF UpdateHealth, PoolInv, TableOK, IsPool, IsMap
  <2> HIDE DEF q
  <2> QED
    BY <1>2, <2>1 DEF Locked, AliveFree, FreeExits, PoolInv, TableOK, q
<1> QED
  BY <1>1, <1>2

LEMMA MarksEffect ==
  ASSUME NEW p, NEW t \in Nat, PoolInv(p, t), NEW e
  PROVE  /\ Quieter(p, ReleaseProbeLock(p, e)) /\ e \notin Locked(ReleaseProbeLock(p, e))
         /\ Quieter(p, MarkDead(p, e)) /\ e \notin AliveFree(MarkDead(p, e))
         /\ Locked(MarkOk(p, e)) \subseteq Locked(p)
         /\ AliveFree(MarkOk(p, e)) \subseteq AliveFree(p) \cup {e}
         /\ Locked(MarkLimited(p, e, t)) \subseteq Locked(p)
         /\ AliveFree(MarkLimited(p, e, t)) \subseteq AliveFree(p) \cup {e}
         /\ LockFree(p, e) =>
              /\ Locked(TakeProbeLock(p, e)) \subseteq Locked(p) \cup {e}
              /\ AliveFree(TakeProbeLock(p, e)) \subseteq AliveFree(p)
<1> DEFINE h == p.health[e]
<1>0. /\ e \in DOMAIN p.health => h \in Health
      /\ \A g : e \in Locked(UpdateHealth(p, e, g)) => e \in DOMAIN p.health
      /\ \A g : e \in AliveFree(UpdateHealth(p, e, g)) => e \in FreeExits(p)
  BY DEF PoolInv, TableOK, IsPool, IsMap, UpdateHealth, Locked, AliveFree, FreeExits
<1>1. Quieter(p, ReleaseProbeLock(p, e)) /\ e \notin Locked(ReleaseProbeLock(p, e))
  <2> DEFINE g == [h EXCEPT !.inflight = FALSE]
             q == UpdateHealth(p, e, g)
  <2>1. e \in DOMAIN p.health => ~g.inflight /\ g.state = h.state
    BY <1>0 DEF Health
  <2>2. q = ReleaseProbeLock(p, e)
    BY DEF ReleaseProbeLock
  <2> HIDE DEF g
  <2>3. e \notin Locked(q)
    BY <1>0, <2>1, HealthWriteEffect
  <2>4. e \in AliveFree(q) => e \in AliveFree(p)
    BY <1>0, <2>1, HealthWriteEffect DEF AliveFree, h
  <2>5. Locked(q) \ {e} \subseteq Locked(p) /\ AliveFree(q) \ {e} \subseteq AliveFree(p)
    BY HealthWriteEffect
  <2> HIDE DEF q
  <2> QED
    BY <2>2, <2>3, <2>4, <2>5 DEF Quieter
<1>2. Quieter(p, MarkDead(p, e)) /\ e \notin AliveFree(MarkDead(p, e))
  <2> DEFINE g == [h EXCEPT !.state = "dead", !.inflight = FALSE]
             q == UpdateHealth(p, e, g)
  <2>1. e \in DOMAIN p.health => ~g.inflight /\ g.state = "dead"
    BY <1>0 DEF Health
  <2>2. q = MarkDead(p, e)
    BY DEF MarkDead
  <2> HIDE DEF g
  <2>3. e \notin Locked(q) /\ e \notin AliveFree(q)
    BY <1>0, <2>1, HealthWriteEffect
  <2>4. Locked(q) \ {e} \subseteq Locked(p) /\ AliveFree(q) \ {e} \subseteq AliveFree(p)
    BY HealthWriteEffect
  <2> HIDE DEF q
  <2> QED
    BY <2>2, <2>3, <2>4 DEF Quieter
<1>3. ASSUME NEW g, e \in DOMAIN p.health => g.inflight = h.inflight
      PROVE  LET q == UpdateHealth(p, e, g)
             IN  Locked(q) \subseteq Locked(p) /\ AliveFree(q) \subseteq AliveFree(p) \cup {e}
  <2> DEFINE q == UpdateHealth(p, e, g)
  <2>1. e \in Locked(q) => e \in Locked(p)
    BY <1>0, <1>3, HealthWriteEffect DEF Locked
  <2>2. Locked(q) \ {e} \subseteq Locked(p) /\ AliveFree(q) \ {e} \subseteq AliveFree(p)
    BY HealthWriteEffect
  <2> HIDE DEF q
  <2> QED
    BY <2>1, <2>2 DEF q
<1>4. /\ Locked(MarkOk(p, e)) \subseteq Locked(p)
      /\ AliveFree(MarkOk(p, e)) \subseteq AliveFree(p) \cup {e}
  <2> DEFINE g == [h EXCEPT !.state = "ok", !.consecutiveLimited = 0,
                            !.cooldownUntil = 0, !.deadStrikes = 0]
  <2>1. e \in DOMAIN p.health => g.inflight = h.inflight
    BY <1>0 DEF Health
  <2> QED
    BY <1>3, <2>1 DEF MarkOk
<1>5. /\ Locked(MarkLimited(p, e, t)) \subseteq Locked(p)
      /\ AliveFree(MarkLimited(p, e, t)) \subseteq AliveFree(p) \cup {e}
  <2> DEFINE n == h.consecutiveLimited + 1
             g == [h EXCEPT !.state = "ok", !.consecutiveLimited = n,
                            !.cooldownUntil = t + Backoff(n)]
  <2>1. e \in DOMAIN p.health => g.inflight = h.inflight
    BY <1>0 DEF Health
  <2> QED
    BY <1>3, <2>1 DEF MarkLimited
<1>6. ASSUME LockFree(p, e)
      PROVE  /\ Locked(TakeProbeLock(p, e)) \subseteq Locked(p) \cup {e}
             /\ AliveFree(TakeProbeLock(p, e)) \subseteq AliveFree(p)
  <2> DEFINE q == TakeProbeLock(p, e)
  <2>1. /\ q.nodes = p.nodes /\ DOMAIN q.health = DOMAIN p.health
        /\ \A a \in DOMAIN p.health : q.health[a].state = p.health[a].state
        /\ \A a \in DOMAIN p.health \ {e} : q.health[a] = p.health[a]
    BY <1>6 DEF TakeProbeLock, LockFree, PoolInv, TableOK, IsPool, IsMap, Health
  <2> HIDE DEF q
  <2> QED
    BY <2>1 DEF Locked, AliveFree, FreeExits, PoolInv, TableOK, q
<1> QED
  BY <1>1, <1>2, <1>4, <1>5, <1>6

LEMMA BansEffect ==
  ASSUME NEW p, NEW t \in Nat, PoolInv(p, t), NEW e \in Exits, NEW m \in Models
  PROVE  /\ Locked(MarkOkFor(p, e, m)) \subseteq Locked(p)
         /\ AliveFree(MarkOkFor(p, e, m)) \subseteq AliveFree(p) \cup {e}
         /\ Quieter(p, MarkModelBanned(p, e, m))
         /\ Quieter(p, MarkModelSignal(p, e, m))
<1>1. ASSUME NEW q, IsPool(q), NEW ban
      PROVE  LET r == [q EXCEPT !.bans = Put(@, <<e, m>>, ban)]
             IN  Locked(r) = Locked(q) /\ AliveFree(r) = AliveFree(q)
  BY <1>1 DEF IsPool, Locked, AliveFree, FreeExits
<1>2. IsPool(p) /\ IsPool(MarkOk(p, e))
  BY HealthMarksKeep DEF PoolInv, TableOK
<1>3. /\ Locked(MarkOkFor(p, e, m)) = Locked(MarkOk(p, e))
      /\ AliveFree(MarkOkFor(p, e, m)) = AliveFree(MarkOk(p, e))
  BY <1>1, <1>2 DEF MarkOkFor
<1>4. Quieter(p, MarkModelBanned(p, e, m))
  BY <1>1, <1>2 DEF MarkModelBanned, Quieter
<1>5. Quieter(p, MarkModelSignal(p, e, m))
  BY <1>1, <1>2 DEF MarkModelSignal, Quieter
<1> QED
  BY <1>3, <1>4, <1>5, MarksEffect

\* A node that is added afresh is unknown; one that is upserted keeps its state.
LEMMA AddEffect ==
  ASSUME NEW p, NEW t, PoolInv(p, t), NEW e, NEW node
  PROVE  LET q == Add(p, e, node)
         IN  /\ Locked(q) \subseteq Locked(p)
             /\ AliveFree(q) \subseteq AliveFree(p) \cup {e}
             /\ Accepts(p, e, node) /\ node.source # "free" => e \notin FreeExits(q)
<1> DEFINE q == Add(p, e, node)
<1>1. CASE ~Accepts(p, e, node)
  BY <1>1 DEF Add
<1>2. CASE Accepts(p, e, node)
  <2>1. /\ DOMAIN q.nodes = DOMAIN p.nodes \cup {e} /\ DOMAIN q.health = DOMAIN p.health \cup {e}
        /\ q.nodes[e] = node
        /\ e \notin DOMAIN p.health => q.health[e] = FreshHealth
        /\ \A a \in DOMAIN p.nodes \ {e} : q.nodes[a] = p.nodes[a]
        /\ \A a \in DOMAIN p.health : q.health[a] = p.health[a]
    BY <1>2 DEF Add, Put, PoolInv, TableOK, IsPool
  <2>2. FreshHealth.inflight = FALSE
    BY DEF FreshHealth
  <2> HIDE DEF q
  <2>3. Locked(q) \subseteq Locked(p)
    BY <2>1, <2>2 DEF Locked
  <2>4. AliveFree(q) \subseteq AliveFree(p) \cup {e}
    BY <2>1 DEF AliveFree, FreeExits, PoolInv, TableOK
  <2>5. node.source # "free" => e \notin FreeExits(q)
    BY <2>1 DEF FreeExits
  <2> QED
    BY <2>3, <2>4, <2>5 DEF q
<1> QED
  BY <1>1, <1>2

LEMMA RemoveForgets ==
  ASSUME NEW p, NEW e
  PROVE  DOMAIN Remove(p, e).bans \subseteq DOMAIN p.bans /\ Remove(p, e).target = p.target
<1>1. Remove(p, e).bans = Restrict(p.bans, DOMAIN p.bans \ ({e} \X Models))
      /\ Remove(p, e).target = p.target
  BY DEF Remove, Without
<1> QED
  BY <1>1 DEF Restrict

LEMMA RemoveEffect ==
  ASSUME NEW p, NEW t, PoolInv(p, t), NEW e
  PROVE  LET q == Remove(p, e)
         IN  /\ Quieter(p, q) /\ e \notin Locked(q) /\ e \notin AliveFree(q)
             /\ DOMAIN q.nodes = DOMAIN p.nodes \ {e}
             /\ \A a \in DOMAIN q.nodes :
                  q.nodes[a] = p.nodes[a] /\ q.health[a] = p.health[a]
<1> DEFINE q == Remove(p, e)
<1>1. /\ DOMAIN q.nodes = DOMAIN p.nodes \ {e}
      /\ DOMAIN q.health = DOMAIN p.health \ {e}
      /\ \A a \in DOMAIN q.nodes : q.nodes[a] = p.nodes[a]
      /\ \A a \in DOMAIN q.health : q.health[a] = p.health[a]
  BY DEF Remove, Without, Restrict
<1> HIDE DEF q
<1> QED
  BY <1>1 DEF Quieter, Locked, AliveFree, FreeExits, PoolInv, TableOK, q

\* A strike releases the exit's lock, and the exit is not alive after it.
LEMMA StrikeQuiets ==
  ASSUME NEW p, NEW t, PoolInv(p, t), NEW e
  PROVE  LET q == MarkDeadStrike(p, e)
         IN  Quieter(p, q) /\ e \notin Locked(q) /\ e \notin AliveFree(q)
<1> DEFINE h == p.health[e]
           g == [h EXCEPT !.state = "dead", !.inflight = FALSE,
                          !.deadStrikes = h.deadStrikes + 1]
<1>1. CASE e \notin DOMAIN p.nodes \/ e \notin DOMAIN p.health
  BY <1>1 DEF MarkDeadStrike, Quieter, Locked, AliveFree, FreeExits, PoolInv, TableOK
<1>2. CASE e \in DOMAIN p.nodes /\ e \in DOMAIN p.health /\ Evicts(p, e)
  BY <1>2, RemoveEffect DEF MarkDeadStrike
<1>3. CASE e \in DOMAIN p.nodes /\ e \in DOMAIN p.health /\ ~Evicts(p, e)
  <2>1. g.state = "dead" /\ ~g.inflight
    BY <1>3 DEF PoolInv, TableOK, IsPool, IsMap, Health
  <2>2. MarkDeadStrike(p, e) = UpdateHealth(p, e, g)
    BY <1>3 DEF MarkDeadStrike
  <2> HIDE DEF g
  <2>3. Locked(UpdateHealth(p, e, g)) \ {e} \subseteq Locked(p)
        /\ AliveFree(UpdateHealth(p, e, g)) \ {e} \subseteq AliveFree(p)
        /\ e \notin Locked(UpdateHealth(p, e, g))
        /\ e \notin AliveFree(UpdateHealth(p, e, g))
    BY <2>1, HealthWriteEffect
  <2> QED
    BY <2>2, <2>3 DEF Quieter
<1> QED
  BY <1>1, <1>2, <1>3

LEMMA PassiveEffect ==
  ASSUME NEW p, NEW t \in Nat, PoolInv(p, t), NEW e \in Exits, NEW m \in Models
  PROVE  /\ LET q == RecordPassiveTransport(p, e)
            IN  Quieter(p, q) /\ e \notin AliveFree(q)
         /\ \A status \in Statuses :
              LET q == RecordPassive(p, e, status, m, t)
              IN  Locked(q) \subseteq Locked(p) /\ AliveFree(q) \subseteq AliveFree(p) \cup {e}
<1>1. ASSUME NEW q, IsPool(q)
      PROVE  /\ Locked(CountPassive(q, e)) = Locked(q)
             /\ AliveFree(CountPassive(q, e)) = AliveFree(q)
  BY <1>1 DEF IsPool, CountPassive, Locked, AliveFree, FreeExits
<1>2. LET q == RecordPassiveTransport(p, e) IN Quieter(p, q) /\ e \notin AliveFree(q)
  <2>1. CASE e \notin DOMAIN p.nodes
    BY <2>1 DEF RecordPassiveTransport, Quieter, AliveFree, FreeExits
  <2>2. CASE e \in DOMAIN p.nodes
    <3>1. IsPool(MarkDeadStrike(p, e))
      BY StrikeKeeps DEF PoolInv, TableOK
    <3> QED
      BY <1>1, <2>2, <3>1, StrikeQuiets DEF RecordPassiveTransport, Quieter
  <2> QED
    BY <2>1, <2>2
<1>3. ASSUME NEW status \in Statuses
      PROVE  LET q == RecordPassive(p, e, status, m, t)
             IN  Locked(q) \subseteq Locked(p) /\ AliveFree(q) \subseteq AliveFree(p) \cup {e}
  <2> DEFINE q == CASE status = "2xx"     -> MarkOkFor(p, e, m)
                    [] status = "429"     -> MarkLimited(p, e, t)
                    [] status = "refused" -> MarkModelSignal(p, e, m)
                    [] status = "region"  -> MarkModelBanned(p, e, m)
                    [] OTHER              -> p
  <2>1. q \in {MarkOkFor(p, e, m), MarkLimited(p, e, t), MarkModelSignal(p, e, m),
               MarkModelBanned(p, e, m), p}
    BY DEF Statuses
  <2>2. PoolInv(q, t)
    <3> HIDE DEF q
    <3> QED
      BY <2>1, BanMarksKeep, HealthMarksKeep
  <2>3. RecordPassive(p, e, status, m, t) = IF e \notin DOMAIN p.nodes THEN p ELSE CountPassive(q, e)
    BY DEF RecordPassive
  <2> HIDE DEF q
  <2>4. Locked(q) \subseteq Locked(p) /\ AliveFree(q) \subseteq AliveFree(p) \cup {e}
    BY <2>1, MarksEffect, BansEffect DEF Quieter
  <2>5. IsPool(q)
    BY <2>2 DEF PoolInv, TableOK
  <2> QED
    BY <1>1, <2>3, <2>4, <2>5
<1> QED
  BY <1>2, <1>3
=============================================================================
