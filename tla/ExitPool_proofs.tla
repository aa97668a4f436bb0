--------------------------- MODULE ExitPool_proofs --------------------------
(***************************************************************************)
(* Proofs about ExitPool, for every set of exits, models, sessions and     *)
(* exit IPs and every value of the thresholds and bounds.                  *)
(***************************************************************************)
EXTENDS ExitPool, ExitPoolOps_proofs
LOCAL INSTANCE Functions

USE ConstantsAssumption, BoundsAssumption

IInv == PoolInv(pool, now) /\ now \in Nat

(***************************************************************************)
(* The invariant is inductive.                                             *)
(***************************************************************************)
LEMMA InitIInv == Init => IInv
<1> SUFFICES ASSUME Init PROVE IInv
  OBVIOUS
<1>1. /\ pool = [nodes |-> << >>, health |-> << >>, bans |-> << >>, sticky |-> << >>,
                 passive |-> {}, pinned |-> NoExit, target |-> InitialTarget]
      /\ now = 0
  BY DEF Init, EmptyPool
<1>2. TableOK(pool)
  BY <1>1 DEF TableOK, IsPool, IsMap
<1>3. SignalsOK(pool, now)
  BY <1>1 DEF SignalsOK
<1> QED
  BY <1>1, <1>2, <1>3 DEF IInv, PoolInv

LEMMA TickKeeps == IInv /\ Tick => IInv'
<1> SUFFICES ASSUME IInv, Tick PROVE IInv'
  OBVIOUS
<1>1. now \in Nat /\ now' = now + 1 /\ pool' = pool
  BY DEF IInv, Tick
<1> QED
  BY <1>1, TimePasses DEF IInv

\* What a call leaves behind: the invariant of the new pool, at the same time.
LEMMA BecomesKeeps ==
  ASSUME IInv, NEW p, PoolInv(p, now), Becomes(p)
  PROVE  IInv'
  BY DEF Becomes, IInv

LEMMA StepIInv == IInv /\ [ApiNext]_vars => IInv'
<1> SUFFICES ASSUME IInv, [ApiNext]_vars PROVE IInv'
  OBVIOUS
<1>0. PoolInv(pool, now) /\ now \in Nat
  BY DEF IInv
<1>1. ASSUME NEW e \in Exits, TableStep(e) PROVE IInv'
  <2>1. CASE AddNode(e)
    <3>1. PICK source \in NodeSources, ip \in ExitIPs \cup {NoIP}, latency \in Latencies :
            Becomes(Add(pool, e, [source |-> source, exitIP |-> ip,
                                  latencyMs |-> latency, addedAt |-> now]))
      BY <2>1 DEF AddNode
    <3>2. [source |-> source, exitIP |-> ip, latencyMs |-> latency, addedAt |-> now] \in Node
      BY <1>0 DEF Node
    <3> QED
      BY <1>0, <3>1, <3>2, AddKeeps, BecomesKeeps
  <2>2. CASE PinNode(e)
    BY <1>0, <2>2, FieldWrite, BecomesKeeps DEF PinNode
  <2> QED
    BY <1>1, <2>1, <2>2 DEF TableStep
<1>2. ASSUME NEW e \in Exits, HealthStep(e) PROVE IInv'
  <2>1. CASE TakeLock(e)
    BY <1>0, <2>1, HealthMarksKeep, BecomesKeeps DEF TakeLock
  <2>2. CASE ReleaseLock(e) \/ ProbeOk(e) \/ Limited(e)
    BY <1>0, <2>2, HealthMarksKeep, BecomesKeeps DEF ReleaseLock, ProbeOk, Limited
  <2>3. CASE StrikeDead(e)
    BY <1>0, <2>3, StrikeKeeps, BecomesKeeps DEF StrikeDead
  <2>4. CASE PassiveTransport(e)
    <3>1. PoolInv(RecordPassiveTransport(pool, e), now)
      BY <1>0, StrikeKeeps, FieldWrite DEF RecordPassiveTransport
    <3> QED
      BY <2>4, <3>1, BecomesKeeps DEF PassiveTransport
  <2> QED
    BY <1>2, <2>1, <2>2, <2>3, <2>4 DEF HealthStep
<1>3. ASSUME NEW e \in Exits, NEW m \in Models, ModelStep(e, m) PROVE IInv'
  <2>1. CASE ProbeOkFor(e, m)
    BY <1>0, <2>1, BanMarksKeep, BecomesKeeps DEF ProbeOkFor
  <2>2. CASE RegionBan(e, m)
    BY <1>0, <2>2, BanMarksKeep, BecomesKeeps DEF RegionBan
  <2>3. CASE PassiveStatus(e, m)
    BY <1>0, <2>3, PassiveKeeps, BecomesKeeps DEF PassiveStatus
  <2> QED
    BY <1>3, <2>1, <2>2, <2>3 DEF ModelStep
<1>4. ASSUME NEW s \in Sessions, SessionStep(s) PROVE IInv'
  <2>1. CASE Reroute(s)
    BY <1>0, <2>1, StickyWrite, BecomesKeeps DEF Reroute
  <2>2. ASSUME NEW m \in Models, Pick(s, m) PROVE IInv'
    BY <1>0, <2>2, PickKeeps, BecomesKeeps DEF Pick
  <2> QED
    BY <1>4, <2>1, <2>2 DEF SessionStep
<1>5. CASE EvictWorst
  BY <1>0, <1>5, RemoveKeeps, BecomesKeeps DEF EvictWorst
<1>6. CASE ApplyTargetSize
  BY <1>0, <1>6, FieldWrite, BecomesKeeps DEF ApplyTargetSize
<1>7. CASE Unpin
  BY <1>0, <1>7, FieldWrite, BecomesKeeps DEF Unpin
<1>8. ASSUME NEW e \in Exits, RemoveNode(e) \/ DisableNode(e) PROVE IInv'
  BY <1>0, <1>8, RemoveKeeps, HealthMarksKeep, BecomesKeeps DEF RemoveNode, DisableNode
<1>9. ASSUME NEW e \in Exits, NEW m \in Models, StreamFailure(e, m) PROVE IInv'
  <2>1. /\ PoolInv(CountPassive(MarkLimited(pool, e, now), e), now)
        /\ PoolInv(CountPassive(MarkModelSignal(pool, e, m), e), now)
    BY <1>0, HealthMarksKeep, BanMarksKeep, FieldWrite
  <2> QED
    BY <1>9, <2>1, BecomesKeeps DEF StreamFailure
<1>10. CASE UNCHANGED vars
  BY <1>10 DEF vars, IInv
<1> QED
  BY <1>1, <1>2, <1>3, <1>4, <1>5, <1>6, <1>7, <1>8, <1>9, <1>10, TickKeeps
     DEF ApiNext, Next, UncalledStep

LEMMA Invariance == ApiSpec => []IInv
  BY InitIInv, StepIInv, PTL DEF ApiSpec

(***************************************************************************)
(* The theorems.                                                           *)
(***************************************************************************)

\* Type correctness of the table for every calling order of its methods.
THEOREM TypeCorrect == ApiSpec => []TypeOK
<1>1. IInv => TypeOK
  BY DEF IInv, PoolInv, TableOK, TypeOK
<1> QED
  BY <1>1, Invariance, PTL

\* The structure of the table: health records and nodes go together, sessions
\* and the pin point into the table, and no exit IP is listed twice.
THEOREM TableSound ==
  ApiSpec => [](HealthTracksTable /\ ReferencesLive /\ OneAddressPerExitIP)
<1>1. IInv => HealthTracksTable /\ ReferencesLive /\ OneAddressPerExitIP
  BY DEF IInv, PoolInv, TableOK, HealthTracksTable, ReferencesLive, OneAddressPerExitIP
<1> QED
  BY <1>1, Invariance, PTL

\* Cooldowns stay within the backoff of the 429 run that started them.
THEOREM CooldownSound == ApiSpec => []CooldownFollowsRun
<1>1. IInv => CooldownFollowsRun
  BY DEF IInv, PoolInv, SignalsOK, CoolingOK, CooldownFollowsRun
<1> QED
  BY <1>1, Invariance, PTL

\* A pairing is banned exactly when enough refusals were counted.
THEOREM BansSound == ApiSpec => []BansCountRefusals
<1>1. IInv => BansCountRefusals
  BY DEF IInv, PoolInv, SignalsOK, BanOK, BansCountRefusals
<1> QED
  BY <1>1, Invariance, PTL

\* pick routes through an exit of the table that serves the model, and goes
\* direct only when there is none: the pinned and the sticky shortcut of pick
\* look at the health table alone, so this rests on TableSound.
THEOREM RoutingSound == ApiSpec => []PickServesOrNoneCan
<1>1. ASSUME IInv, NEW s \in Sessions, NEW m \in Models
      PROVE  LET usable == UsableExits(pool, m, now)
             IN  IF usable = {} THEN PickResults(pool, s, m, now) = {NoExit}
                 ELSE PickResults(pool, s, m, now) \subseteq usable
  <2> DEFINE usable == UsableExits(pool, m, now)
  <2>1. PinnedServes(pool, m, now) => pool.pinned \in usable
    BY <1>1 DEF PinnedServes, UsableExits, IInv, PoolInv, TableOK
  <2>2. StickyServes(pool, s, m, now) => pool.sticky[s] \in usable
    BY <1>1 DEF StickyServes, UsableExits, IInv, PoolInv, TableOK
  <2> QED
    BY <2>1, <2>2 DEF PickResults, Rotation, Best
<1>2. IInv => PickServesOrNoneCan
  BY <1>1 DEF PickServesOrNoneCan
<1> QED
  BY <1>2, Invariance, PTL

(***************************************************************************)
(* What one step does to the table and to what points into it.             *)
(***************************************************************************)
Joined(e) == \E node \in Node : Accepts(pool, e, node) /\ Kept(Add(pool, e, node), pool')

Dropped(e) == e \in DOMAIN pool.nodes /\ Kept(Remove(pool, e), pool')

\* The rotation bound the session: neither the pin nor its own exit serves.
Bound(s, e) ==
  /\ e \in DOMAIN pool.nodes
  /\ \E m \in Models : e \in PickResults(pool, s, m, now) /\ ~PinnedServes(pool, m, now)
  /\ Kept([pool EXCEPT !.sticky = Put(@, s, e)], pool')

Freed(s) == Kept(RerouteSession(pool, s), pool')

Promoted ==
  /\ pool'.nodes = pool.nodes /\ pool'.sticky = pool.sticky
  /\ pool'.pinned \in DOMAIN pool.nodes \cup {NoExit}

\* What the calls of the plugin may do: they drop none but free exits.
CallEffect ==
  \/ Kept(pool, pool')
  \/ \E e \in Exits : Joined(e)
  \/ \E e \in Exits : Dropped(e) /\ pool.nodes[e].source = "free"
  \/ \E s \in Sessions : Freed(s) \/ \E e \in Exits : Bound(s, e)
  \/ Promoted

TableEffect == CallEffect \/ \E e \in Exits : Dropped(e)

\* An exit that is not in the table has nothing to remove.
LEMMA RemoveAbsent ==
  ASSUME NEW p, NEW t, PoolInv(p, t), NEW e \in Exits, e \notin DOMAIN p.nodes
  PROVE  Kept(p, Remove(p, e))
<1>1. Restrict(p.nodes, DOMAIN p.nodes \ {e}) = p.nodes
  <2>1. DOMAIN p.nodes \ {e} = DOMAIN p.nodes
    OBVIOUS
  <2>2. p.nodes = [a \in DOMAIN p.nodes |-> p.nodes[a]]
    BY DEF PoolInv, TableOK, IsPool, IsMap
  <2> QED
    BY <2>1, <2>2 DEF Restrict
<1>2. Restrict(p.sticky, {s \in DOMAIN p.sticky : p.sticky[s] # e}) = p.sticky
  <2>1. {s \in DOMAIN p.sticky : p.sticky[s] # e} = DOMAIN p.sticky
    BY DEF PoolInv, TableOK
  <2> QED
    BY <2>1 DEF Restrict, PoolInv, TableOK, IsPool, IsMap
<1>3. p.pinned # e
  BY DEF PoolInv, TableOK
<1> QED
  BY <1>1, <1>2, <1>3 DEF Remove, Without, Kept

LEMMA CallStep == IInv /\ [Next]_vars => CallEffect
<1> SUFFICES ASSUME IInv, [Next]_vars PROVE CallEffect
  OBVIOUS
<1> USE DEF CallEffect
<1>0. PoolInv(pool, now) /\ now \in Nat /\ IsPool(pool) /\ Kept(pool, pool)
  BY DEF IInv, PoolInv, TableOK, Kept
<1>1. ASSUME NEW e \in Exits, TableStep(e) PROVE CallEffect
  <2>1. CASE AddNode(e)
    <3>1. PICK source \in NodeSources, ip \in ExitIPs \cup {NoIP}, latency \in Latencies :
            Becomes(Add(pool, e, [source |-> source, exitIP |-> ip,
                                  latencyMs |-> latency, addedAt |-> now]))
      BY <2>1 DEF AddNode
    <3> DEFINE node == [source |-> source, exitIP |-> ip, latencyMs |-> latency, addedAt |-> now]
    <3>2. node \in Node
      BY DEF Node, IInv
    <3>3. pool' = Add(pool, e, node)
      BY <3>1 DEF Becomes
    <3> HIDE DEF node
    <3>4. CASE Accepts(pool, e, node)
      BY <3>2, <3>3, <3>4 DEF Joined, Kept
    <3>5. CASE ~Accepts(pool, e, node)
      BY <1>0, <3>3, <3>5 DEF Add
    <3> QED
      BY <3>4, <3>5
  <2>2. CASE PinNode(e)
    BY <1>0, <2>2 DEF PinNode, Becomes, Pin, Promoted, IsPool
  <2> QED
    BY <1>1, <2>1, <2>2 DEF TableStep
<1>2. ASSUME NEW e \in Exits, MarkDeadStrike(pool, e) = pool' \/ RecordPassiveTransport(pool, e) = pool'
      PROVE  CallEffect
  <2> DEFINE q == MarkDeadStrike(pool, e)
  <2>1. \/ Kept(pool, q)
        \/ e \in DOMAIN pool.nodes /\ pool.nodes[e].source = "free" /\ q = Remove(pool, e)
    BY <1>0, StrikeEffect
  <2>2. Kept(q, CountPassive(q, e))
    <3>1. PoolInv(q, now)
      BY <1>0, StrikeKeeps
    <3> HIDE DEF q
    <3> QED
      BY <3>1, CountOnly
  <2>3. pool' = pool \/ Kept(q, pool')
    BY <1>2, <2>2 DEF RecordPassiveTransport, Kept
  <2> HIDE DEF q
  <2> QED
    BY <1>0, <2>1, <2>3 DEF Kept, Dropped
<1>3. ASSUME NEW e \in Exits, HealthStep(e) PROVE CallEffect
  <2>1. CASE TakeLock(e) \/ ReleaseLock(e) \/ ProbeOk(e) \/ Limited(e)
    BY <1>0, <2>1, HealthOnly DEF TakeLock, ReleaseLock, ProbeOk, Limited, Becomes
  <2> QED
    BY <1>2, <1>3, <2>1 DEF HealthStep, StrikeDead, PassiveTransport, Becomes
<1>4. ASSUME NEW e \in Exits, NEW m \in Models, ModelStep(e, m) PROVE CallEffect
  <2>1. CASE ProbeOkFor(e, m) \/ RegionBan(e, m)
    BY <1>0, <2>1, BansOnly DEF ProbeOkFor, RegionBan, Becomes
  <2>2. CASE PassiveStatus(e, m)
    <3>1. PICK status \in Statuses : pool' = RecordPassive(pool, e, status, m, now)
      BY <2>2 DEF PassiveStatus, Becomes
    <3>2. \A q \in {MarkOkFor(pool, e, m), MarkLimited(pool, e, now), MarkModelSignal(pool, e, m),
                   MarkModelBanned(pool, e, m), pool} : Kept(pool, q) /\ PoolInv(q, now)
      <4>1. \A q \in {MarkOkFor(pool, e, m), MarkLimited(pool, e, now), MarkModelSignal(pool, e, m),
                       MarkModelBanned(pool, e, m), pool} : Kept(pool, q)
        BY <1>0, HealthOnly, BansOnly DEF Kept
      <4>2. \A q \in {MarkOkFor(pool, e, m), MarkLimited(pool, e, now), MarkModelSignal(pool, e, m),
                       MarkModelBanned(pool, e, m), pool} : PoolInv(q, now)
        BY <1>0, HealthMarksKeep, BanMarksKeep DEF IInv
      <4> QED
        BY <4>1, <4>2
    <3>3. ASSUME NEW q, Kept(pool, q), PoolInv(q, now)
          PROVE  Kept(pool, CountPassive(q, e))
      BY <3>3, CountOnly DEF Kept
    <3>4. pool' = pool \/ \E q \in {MarkOkFor(pool, e, m), MarkLimited(pool, e, now),
                                    MarkModelSignal(pool, e, m), MarkModelBanned(pool, e, m), pool} :
            pool' = CountPassive(q, e)
      BY <3>1 DEF RecordPassive, Statuses
    <3> QED
      BY <1>0, <3>2, <3>3, <3>4
  <2> QED
    BY <1>4, <2>1, <2>2 DEF ModelStep
<1>5. ASSUME NEW s \in Sessions, SessionStep(s) PROVE CallEffect
  <2>1. CASE Reroute(s)
    BY <2>1 DEF Reroute, Becomes, Freed, Kept
  <2>2. ASSUME NEW m \in Models, Pick(s, m) PROVE CallEffect
    <3>1. PICK e \in PickResults(pool, s, m, now) : pool' = AfterPick(pool, s, m, e, now)
      BY <2>2 DEF Pick, Becomes
    <3>2. e \in DOMAIN pool.nodes \cup {NoExit} /\ DOMAIN pool.nodes \subseteq Exits
      BY <1>0, PickInTable DEF IInv, PoolInv, TableOK, IsPool, IsMap
    <3> QED
      BY <1>0, <3>1, <3>2 DEF AfterPick, Bound, Kept
  <2> QED
    BY <1>5, <2>1, <2>2 DEF SessionStep
<1>6. CASE EvictWorst
  BY <1>0, <1>6 DEF EvictWorst, Becomes, WorstFree, FreeExits, Dropped, Kept, IsPool, IsMap
<1>7. CASE ApplyTargetSize
  BY <1>0, <1>7, CountOnly DEF ApplyTargetSize, Becomes
<1>8. CASE Tick \/ UNCHANGED vars
  BY <1>0, <1>8 DEF Tick, vars
<1> QED
  BY <1>1, <1>3, <1>4, <1>5, <1>6, <1>7, <1>8 DEF Next

LEMMA StepEffect == IInv /\ [ApiNext]_vars => TableEffect
<1> SUFFICES ASSUME IInv, [ApiNext]_vars PROVE TableEffect
  OBVIOUS
<1> USE DEF TableEffect, CallEffect
<1>0. PoolInv(pool, now) /\ now \in Nat /\ IsPool(pool) /\ Kept(pool, pool)
  BY DEF IInv, PoolInv, TableOK, Kept
<1>1. CASE [Next]_vars
  BY <1>1, CallStep
<1>2. CASE Unpin
  BY <1>0, <1>2 DEF Unpin, Becomes, Promoted, IsPool
<1>3. ASSUME NEW e \in Exits, RemoveNode(e) \/ DisableNode(e) PROVE TableEffect
  <2>1. CASE RemoveNode(e) /\ e \in DOMAIN pool.nodes
    BY <2>1 DEF RemoveNode, Becomes, Dropped, Kept
  <2>2. CASE RemoveNode(e) /\ e \notin DOMAIN pool.nodes
    BY <1>0, <2>2, RemoveAbsent DEF RemoveNode, Becomes
  <2>3. CASE DisableNode(e)
    BY <1>0, <2>3, HealthOnly DEF DisableNode, Becomes
  <2> QED
    BY <1>3, <2>1, <2>2, <2>3
<1>4. ASSUME NEW e \in Exits, NEW m \in Models, StreamFailure(e, m) PROVE TableEffect
  <2>1. PICK q \in {MarkLimited(pool, e, now), MarkModelSignal(pool, e, m)} : pool' = CountPassive(q, e)
    BY <1>4 DEF StreamFailure, Becomes
  <2>2. Kept(pool, q) /\ PoolInv(q, now)
    BY <1>0, HealthOnly, BansOnly, HealthMarksKeep, BanMarksKeep DEF IInv
  <2>3. Kept(q, pool')
    BY <2>1, <2>2, CountOnly
  <2> QED
    BY <2>2, <2>3 DEF Kept
<1> QED
  BY <1>1, <1>2, <1>3, <1>4 DEF ApiNext, UncalledStep

(***************************************************************************)
(* Action properties.                                                      *)
(***************************************************************************)

\* Neither strikes nor the replace flow ever drop one of the user's own exits,
\* in whatever order the plugin makes its calls.
THEOREM OwnExitsStay == Spec => OnlyFreeEvicted
<1> DEFINE Evicted == \A e \in Exits : Leaves(e) => pool.nodes[e].source = "free"
<1>1. IInv /\ [Next]_vars => Evicted
  <2> SUFFICES ASSUME IInv, [Next]_vars, NEW e \in Exits, Leaves(e)
               PROVE  pool.nodes[e].source = "free"
    OBVIOUS
  <2>1. CallEffect
    BY CallStep
  <2>2. IsPool(pool)
    BY DEF IInv, PoolInv, TableOK
  <2>3. \A f \in Exits : Dropped(f) => f = e
    BY <2>2 DEF Dropped, Kept, Leaves, Remove, Without, Restrict
  <2> QED
    BY <2>1, <2>2, <2>3 DEF CallEffect, Leaves, Kept, Joined, Add, Put, Freed, RerouteSession,
                            Bound, Promoted, IsPool
<1>2. IInv /\ [Next]_vars => [Evicted]_vars
  BY <1>1
<1>3. IInv /\ [Next]_vars => IInv'
  BY StepIInv DEF ApiNext
<1> QED
  BY <1>2, <1>3, InitIInv, PTL DEF Spec, OnlyFreeEvicted

\* A session is moved to another exit only away from one that cannot serve, and
\* only to one that can.
THEOREM StickySound == ApiSpec => SessionStaysWhileServed
<1> DEFINE Stays ==
       \A s \in DOMAIN pool.sticky \cap DOMAIN pool'.sticky :
         pool'.sticky[s] # pool.sticky[s] =>
           \E m \in Models : /\ ~IsUsable(pool, pool.sticky[s], m, now)
                            /\ IsUsable(pool, pool'.sticky[s], m, now)
<1>1. IInv /\ [ApiNext]_vars => Stays
  <2> SUFFICES ASSUME IInv, [ApiNext]_vars,
                      NEW s \in DOMAIN pool.sticky \cap DOMAIN pool'.sticky,
                      pool'.sticky[s] # pool.sticky[s]
               PROVE  \E m \in Models : /\ ~IsUsable(pool, pool.sticky[s], m, now)
                                       /\ IsUsable(pool, pool'.sticky[s], m, now)
    OBVIOUS
  <2>1. TableEffect /\ IsPool(pool)
    BY StepEffect DEF IInv, PoolInv, TableOK
  <2>2. ASSUME NEW r \in Sessions, NEW e \in Exits, Bound(r, e)
        PROVE  \E m \in Models : /\ ~IsUsable(pool, pool.sticky[s], m, now)
                                /\ IsUsable(pool, pool'.sticky[s], m, now)
    <3>1. pool'.sticky = Put(pool.sticky, r, e)
      BY <2>1, <2>2 DEF Bound, Kept, IsPool
    <3>2. r = s /\ pool'.sticky[s] = e /\ e # pool.sticky[s]
      BY <3>1 DEF Put
    <3>3. PICK m \in Models : e \in PickResults(pool, s, m, now) /\ ~PinnedServes(pool, m, now)
      BY <2>2, <3>2 DEF Bound
    <3>4. ~StickyServes(pool, s, m, now) /\ e \in Rotation(pool, m, now)
      BY <3>2, <3>3 DEF PickResults
    <3>5. e # NoExit
      OBVIOUS
    <3>6. IsUsable(pool, e, m, now)
      BY <3>4, <3>5 DEF Rotation, Best, UsableExits
    <3>7. ~IsUsable(pool, pool.sticky[s], m, now)
      BY <3>4 DEF StickyServes
    <3> QED
      BY <3>2, <3>6, <3>7
  <2>3. \A r \in Sessions : ~Freed(r)
    BY <2>1 DEF Freed, Kept, RerouteSession, Without, Restrict, IsPool
  <2>4. \A e \in Exits : ~Joined(e) /\ ~Dropped(e)
    BY <2>1 DEF Joined, Dropped, Kept, Add, Remove, Restrict, IsPool
  <2> QED
    BY <2>1, <2>2, <2>3, <2>4 DEF TableEffect, CallEffect, Kept, Promoted
<1>2. IInv /\ [ApiNext]_vars => [Stays]_vars
  BY <1>1
<1> QED
  BY <1>2, Invariance, PTL DEF ApiSpec, SessionStaysWhileServed

(***************************************************************************)
(* The table implements the directory.                                     *)
(***************************************************************************)

\* Every call of the pool is a step of the directory, or leaves it as it is:
\* an exit that leaves takes its sessions and the pin along in the same step.
THEOREM PoolImplementsDirectory == ApiSpec => ImplementsDirectory
<1> DEFINE ip == [e \in DOMAIN pool.nodes |-> pool.nodes[e].exitIP]
<1>1. Init => Directory!Init
  <2> SUFFICES ASSUME Init PROVE Directory!Init
    OBVIOUS
  <2>1. pool.nodes = << >> /\ pool.sticky = << >> /\ pool.pinned = NoExit
    BY DEF Init, EmptyPool
  <2> QED
    BY <2>1 DEF Directory!Init
<1>2. IInv /\ [ApiNext]_vars => [Directory!Next]_(Directory!vars)
  <2> SUFFICES ASSUME IInv, [ApiNext]_vars PROVE [Directory!Next]_(Directory!vars)
    OBVIOUS
  <2>1. TableEffect /\ IsPool(pool) /\ TableOK(pool)
    BY StepEffect DEF IInv, PoolInv, TableOK
  <2>2. CASE Kept(pool, pool')
    BY <2>2 DEF Kept, Directory!vars
  <2>3. ASSUME NEW e \in Exits, Joined(e) PROVE Directory!Next
    <3>1. PICK node \in Node : Accepts(pool, e, node) /\ Kept(Add(pool, e, node), pool')
      BY <2>3 DEF Joined
    <3>2. /\ pool'.nodes = Put(pool.nodes, e, node)
          /\ pool'.sticky = pool.sticky /\ pool'.pinned = pool.pinned
      BY <2>1, <3>1 DEF Kept, Add, IsPool
    <3>3. ip' = Directory!Set(ip, e, node.exitIP)
      BY <3>2 DEF Directory!Set, Put
    <3>4. node.exitIP = NoIP \/ \A other \in DOMAIN pool.nodes \ {e} : ip[other] # node.exitIP
      BY <3>1 DEF Accepts, HasExitIP
    <3>5. Directory!Join(e, node.exitIP)
      BY <3>2, <3>3, <3>4 DEF Directory!Join, Directory!Entries
    <3>6. node.exitIP \in ExitIPs \cup {NoIP}
      BY DEF Node
    <3> QED
      BY <3>5, <3>6 DEF Directory!Next
  <2>4. ASSUME NEW e \in Exits, Dropped(e) PROVE Directory!Next
    <3>1. /\ pool'.nodes = Restrict(pool.nodes, DOMAIN pool.nodes \ {e})
          /\ pool'.sticky = Restrict(pool.sticky, {s \in DOMAIN pool.sticky : pool.sticky[s] # e})
          /\ pool'.pinned = IF pool.pinned = e THEN NoExit ELSE pool.pinned
          /\ e \in DOMAIN pool.nodes
      BY <2>4 DEF Dropped, Kept, Remove, Without
    <3>2. ip' = Restrict(ip, DOMAIN ip \ {e})
      BY <3>1 DEF Restrict
    <3>3. Directory!Leave(e)
      BY <3>1, <3>2 DEF Directory!Leave, Directory!Entries, Restrict
    <3> QED
      BY <3>3 DEF Directory!Next
  <2>5. ASSUME NEW s \in Sessions, Freed(s) PROVE Directory!Next
    <3>1. /\ pool'.sticky = Restrict(pool.sticky, DOMAIN pool.sticky \ {s})
          /\ pool'.nodes = pool.nodes /\ pool'.pinned = pool.pinned
      BY <2>1, <2>5 DEF Freed, Kept, RerouteSession, Without, IsPool
    <3>2. Directory!Unbind(s)
      BY <3>1 DEF Directory!Unbind, Restrict
    <3> QED
      BY <3>2 DEF Directory!Next
  <2>6. ASSUME NEW s \in Sessions, NEW e \in Exits, Bound(s, e) PROVE Directory!Next
    <3>1. /\ pool'.sticky = Put(pool.sticky, s, e)
          /\ pool'.nodes = pool.nodes /\ pool'.pinned = pool.pinned
          /\ e \in DOMAIN pool.nodes
      BY <2>1, <2>6 DEF Bound, Kept, IsPool
    <3>2. Directory!Bind(s, e)
      BY <3>1 DEF Directory!Bind, Directory!Entries, Directory!Set, Put
    <3> QED
      BY <3>2 DEF Directory!Next
  <2>7. CASE Promoted
    <3>1. Directory!Promote(pool'.pinned)
      BY <2>7 DEF Promoted, Directory!Promote, Directory!Entries
    <3>2. pool'.pinned \in Exits \cup {NoExit}
      BY <2>1, <2>7 DEF Promoted, TableOK, IsPool, IsMap
    <3> QED
      BY <3>1, <3>2 DEF Directory!Next
  <2> QED
    BY <2>1, <2>2, <2>3, <2>4, <2>5, <2>6, <2>7 DEF TableEffect, CallEffect
<1> QED
  BY <1>1, <1>2, Invariance, PTL DEF ApiSpec, ImplementsDirectory, Directory!Spec
=============================================================================
