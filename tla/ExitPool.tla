------------------------------ MODULE ExitPool ------------------------------
(***************************************************************************)
(* The exit table as a state machine: every public method of class         *)
(* ExitPool (packages/plugin/src/pool/pool.ts), called in any order by the *)
(* prober, the request dispatcher, the refill round, the subscription      *)
(* fetcher and the settings page, each call atomic (the class is           *)
(* synchronous), with a clock that may advance between two calls.          *)
(*                                                                         *)
(* A signal may name an exit that has left the table in the meantime: the  *)
(* callers hold an address across an await.                                *)
(***************************************************************************)
EXTENDS ExitPoolOps

CONSTANTS
  NodeSources,  \* the sources of the nodes that are added, of Sources
  Latencies,    \* measured latencies, in ms
  TargetSizes,  \* capacities the settings page sends, 0 included
  InitialTarget,
  MaxClock,     \* bound on the clock
  MaxLimited,   \* bound on consecutiveLimited
  MaxStrikes,   \* bound on deadStrikes
  MaxFailures,  \* bound on consecutiveFailures
  MaxLocks      \* bound on the probe locks held at once

ASSUME BoundsAssumption ==
  /\ NodeSources \subseteq Sources
  /\ Latencies \subseteq Nat
  /\ TargetSizes \subseteq Nat
  /\ InitialTarget \in Nat \ {0}
  /\ MaxClock \in Nat
  /\ MaxLimited \in Nat
  /\ MaxStrikes \in Nat
  /\ MaxFailures \in Nat
  /\ MaxLocks \in Nat

VARIABLES pool, now

vars == <<pool, now>>

TypeOK == IsPool(pool) /\ now \in Nat

\* The named bounds, on the pool that a call leaves behind.
WithinBounds(p) ==
  /\ \A e \in DOMAIN p.health :
       /\ p.health[e].consecutiveLimited <= MaxLimited
       /\ p.health[e].deadStrikes <= MaxStrikes
  /\ \A key \in DOMAIN p.bans : p.bans[key].consecutiveFailures <= MaxFailures
  /\ Cardinality({e \in DOMAIN p.health : p.health[e].inflight}) <= MaxLocks

Becomes(p) ==
  /\ WithinBounds(p)
  /\ pool' = p
  /\ UNCHANGED now

Init ==
  /\ pool = EmptyPool(InitialTarget)
  /\ now = 0

(***************************************************************************)
(* One action per method.                                                  *)
(***************************************************************************)

\* Admission writes the node it measured; addedAt is the time of the call.
AddNode(e) ==
  \E source \in NodeSources, ip \in ExitIPs \cup {NoIP}, latency \in Latencies :
    Becomes(Add(pool, e, [source |-> source, exitIP |-> ip,
                          latencyMs |-> latency, addedAt |-> now]))

RemoveNode(e) == Becomes(Remove(pool, e))

DisableNode(e) == Becomes(MarkDead(pool, e))

PinNode(e) == Becomes(Pin(pool, e))

Unpin == Becomes([pool EXCEPT !.pinned = NoExit])

ApplyTargetSize == \E value \in TargetSizes : Becomes(SetTargetSize(pool, value))

TakeLock(e) == LockFree(pool, e) /\ Becomes(TakeProbeLock(pool, e))

ReleaseLock(e) == Becomes(ReleaseProbeLock(pool, e))

ProbeOk(e) == Becomes(MarkOk(pool, e))

ProbeOkFor(e, m) == Becomes(MarkOkFor(pool, e, m))

Limited(e) == Becomes(MarkLimited(pool, e, now))

RegionBan(e, m) == Becomes(MarkModelBanned(pool, e, m))

StrikeDead(e) == Becomes(MarkDeadStrike(pool, e))

PassiveStatus(e, m) ==
  \E status \in Statuses : Becomes(RecordPassive(pool, e, status, m, now))

PassiveTransport(e) == Becomes(RecordPassiveTransport(pool, e))

\* markStreamFailure: the only other caller of the 429 and refusal marks.
StreamFailure(e, m) ==
  \/ Becomes(CountPassive(MarkLimited(pool, e, now), e))
  \/ Becomes(CountPassive(MarkModelSignal(pool, e, m), e))

\* rerouteSession and breakStickySession are the same statement.
Reroute(s) == Becomes(RerouteSession(pool, s))

Pick(s, m) ==
  \E e \in PickResults(pool, s, m, now) : Becomes(AfterPick(pool, s, m, e, now))

EvictWorst == \E e \in WorstFree(pool) : Becomes(Remove(pool, e))

Tick ==
  /\ now < MaxClock
  /\ now' = now + 1
  /\ UNCHANGED pool

(***************************************************************************)
(* The calls the plugin makes.                                             *)
(***************************************************************************)
TableStep(e) == AddNode(e) \/ PinNode(e)

HealthStep(e) ==
  \/ TakeLock(e) \/ ReleaseLock(e) \/ ProbeOk(e) \/ Limited(e)
  \/ StrikeDead(e) \/ PassiveTransport(e)

ModelStep(e, m) == ProbeOkFor(e, m) \/ RegionBan(e, m) \/ PassiveStatus(e, m)

SessionStep(s) == Reroute(s) \/ \E m \in Models : Pick(s, m)

Next ==
  \/ \E e \in Exits : TableStep(e) \/ HealthStep(e)
  \/ \E e \in Exits, m \in Models : ModelStep(e, m)
  \/ \E s \in Sessions : SessionStep(s)
  \/ EvictWorst \/ ApplyTargetSize \/ Tick

Spec == Init /\ [][Next]_vars

\* The public methods that no caller in the plugin uses.
UncalledStep ==
  \/ Unpin
  \/ \E e \in Exits : RemoveNode(e) \/ DisableNode(e)
  \/ \E e \in Exits, m \in Models : StreamFailure(e, m)

ApiNext == Next \/ UncalledStep

ApiSpec == Init /\ [][ApiNext]_vars

(***************************************************************************)
(* Safety.                                                                 *)
(***************************************************************************)

\* Every node has a health record and no record outlives its node: list()
\* and pick's sort read the record of a node without looking whether it is there.
HealthTracksTable == DOMAIN pool.health = DOMAIN pool.nodes

\* No session and no pin points at an exit that has left the table, so pick
\* never hands the dispatcher an address it can no longer look up.
ReferencesLive ==
  /\ \A s \in DOMAIN pool.sticky : pool.sticky[s] \in DOMAIN pool.nodes
  /\ pool.pinned # NoExit => pool.pinned \in DOMAIN pool.nodes

\* Two addresses behind one exit IP are one quota bucket and never both live
\* in the pool, whatever facts later admissions write over a node.
OneAddressPerExitIP ==
  \A a, b \in DOMAIN pool.nodes :
    (pool.nodes[a].exitIP = pool.nodes[b].exitIP /\ pool.nodes[a].exitIP # NoIP) => a = b

\* An exit cools only inside an unbroken run of 429s, never longer than that
\* run's backoff, and so never longer than the ceiling.
CooldownFollowsRun ==
  \A e \in DOMAIN pool.health :
    LET h == pool.health[e]
    IN  /\ h.consecutiveLimited = 0 <=> h.cooldownUntil = 0
        /\ h.cooldownUntil > 0 => h.cooldownUntil <= now + Backoff(h.consecutiveLimited)
        /\ h.cooldownUntil <= now + CooldownMax

\* A pairing is banned exactly when its count of refusals since the last
\* success has reached the confirmation threshold, and suspect below it.
BansCountRefusals ==
  \A key \in DOMAIN pool.bans :
    LET ban == pool.bans[key]
    IN  /\ ban.state = "banned" <=> ban.consecutiveFailures >= BanConfirmations
        /\ ban.state = "ok" <=> ban.consecutiveFailures = 0

\* pick returns an exit of the table that serves the model, and null (which
\* the dispatcher turns into a direct connection) only when there is none.
PickServesOrNoneCan ==
  \A s \in Sessions, m \in Models :
    LET usable == UsableExits(pool, m, now)
    IN  IF usable = {} THEN PickResults(pool, s, m, now) = {NoExit}
        ELSE PickResults(pool, s, m, now) \subseteq usable

(***************************************************************************)
(* Action properties.                                                      *)
(***************************************************************************)

Leaves(e) == e \in DOMAIN pool.nodes /\ e \notin DOMAIN pool'.nodes

\* No call the plugin makes drops one of the user's own exits (manual or
\* subscription): strikes and the replace flow evict free ones only, however many
\* strikes an exit has collected, and whatever it was when it collected them.
\* A property of Spec: in ApiSpec the user may remove what he likes.
OnlyFreeEvicted ==
  [][\A e \in Exits : Leaves(e) => pool.nodes[e].source = "free"]_vars

\* A session moves straight from one exit to another only when the one it
\* leaves cannot serve some model and the one it takes can.
SessionStaysWhileServed ==
  [][\A s \in DOMAIN pool.sticky \cap DOMAIN pool'.sticky :
       pool'.sticky[s] # pool.sticky[s] =>
         \E m \in Models : /\ ~IsUsable(pool, pool.sticky[s], m, now)
                          /\ IsUsable(pool, pool'.sticky[s], m, now)]_vars

(***************************************************************************)
(* Refinement: the table, its exit IPs, the sessions and the pin.          *)
(***************************************************************************)
Directory == INSTANCE ExitDirectory WITH
  ip      <- [e \in DOMAIN pool.nodes |-> pool.nodes[e].exitIP],
  route   <- pool.sticky,
  primary <- pool.pinned

\* Every call of the pool is one step of the directory, or none.
ImplementsDirectory == Directory!Spec
=============================================================================
