---------------------------- MODULE ExitPoolOps ----------------------------
(***************************************************************************)
(* The methods of class ExitPool (packages/plugin/src/pool/pool.ts), each  *)
(* one an operator from a pool value to a pool value, so that a component  *)
(* that calls several of them without awaiting in between composes them.   *)
(*                                                                         *)
(* A pool value p is a record whose fields are the class's private maps:   *)
(*   p.nodes    exit -> [source, exitIP, latencyMs, addedAt]   (#nodes)    *)
(*   p.health   exit -> health record                          (#health)   *)
(*   p.bans     <<exit, model>> -> [state, consecutiveFailures] (#bans)    *)
(*   p.sticky   session -> exit                            (#sessionExit)  *)
(*   p.passive  the exits that have a bucket of counters    (#passive)     *)
(*   p.pinned   the pinned exit, or NoExit                   (pinnedId)    *)
(*   p.target   the free-pool capacity                     (#targetSize)   *)
(* A JS Map is a function over the keys it holds. Left out: what is only   *)
(* shown to the user (protocol, exitLocation, lastProbedAt, bannedAt, the  *)
(* values of the passive counters).                                        *)
(***************************************************************************)
EXTENDS Integers, FiniteSets
LOCAL INSTANCE Functions

CONSTANTS
  Exits,             \* addresses, host:port
  Models,
  Sessions,
  ExitIPs,           \* exit IPs an admission can measure
  NoIP,              \* the empty exitIP of a node nobody measured
  NoExit,            \* null, or the empty pinnedId
  CooldownBase,      \* #cooldownBase, in clock ticks
  CooldownMax,       \* #cooldownMax
  BanConfirmations,  \* #banConfirmations
  DeadEvictions      \* #deadEvictions

ASSUME ConstantsAssumption ==
  /\ NoExit \notin Exits
  /\ NoIP \notin ExitIPs
  /\ CooldownBase \in Nat \ {0}
  /\ CooldownMax \in Nat \ {0}
  /\ BanConfirmations \in Nat \ {0}
  /\ DeadEvictions \in Nat \ {0}

Sources == {"free", "manual", "subscription", "goproxy"}

ExitStates == {"unknown", "ok", "dead"}

BanStates == {"ok", "suspect", "banned"}

Node == [source: Sources, exitIP: ExitIPs \cup {NoIP}, latencyMs: Nat, addedAt: Nat]

Health == [state: ExitStates, consecutiveLimited: Nat, cooldownUntil: Nat,
           inflight: BOOLEAN, deadStrikes: Nat]

Ban == [state: BanStates, consecutiveFailures: Nat]

FreshHealth == [state |-> "unknown", consecutiveLimited |-> 0, cooldownUntil |-> 0,
                inflight |-> FALSE, deadStrikes |-> 0]

OkBan == [state |-> "ok", consecutiveFailures |-> 0]

\* f is a JS Map from keys in K to values in V.
IsMap(f, K, V) == DOMAIN f \subseteq K /\ f \in [DOMAIN f -> V]

IsPool(p) ==
  /\ p = [nodes |-> p.nodes, health |-> p.health, bans |-> p.bans, sticky |-> p.sticky,
          passive |-> p.passive, pinned |-> p.pinned, target |-> p.target]
  /\ IsMap(p.nodes, Exits, Node)
  /\ IsMap(p.health, Exits, Health)
  /\ IsMap(p.bans, Exits \X Models, Ban)
  /\ IsMap(p.sticky, Sessions, Exits)
  /\ p.passive \subseteq Exits
  /\ p.pinned \in Exits \cup {NoExit}
  /\ p.target \in Nat \ {0}

EmptyPool(target) ==
  [nodes |-> << >>, health |-> << >>, bans |-> << >>, sticky |-> << >>,
   passive |-> {}, pinned |-> NoExit, target |-> target]

\* Map.set and Map.delete for the keys in S.
Put(f, k, v) == [x \in DOMAIN f \cup {k} |-> IF x = k THEN v ELSE f[x]]

Without(f, S) == Restrict(f, DOMAIN f \ S)

(***************************************************************************)
(* The table.                                                              *)
(***************************************************************************)

\* gradeOf, as the rank that evictWorstFree compares (S 0, A 1, B 2, C 3).
GradeRank(latencyMs) ==
  Cardinality({bound \in {500, 1000, 2000} : latencyMs > bound})

HasExitIP(p, ip, except) ==
  \E e \in DOMAIN p.nodes : e # except /\ p.nodes[e].exitIP = ip

\* Slip: only a new address is checked, an upsert is not.
AcceptsUpsert(p, e, node) ==
  e \in DOMAIN p.nodes \/ node.exitIP = NoIP \/ ~HasExitIP(p, node.exitIP, e)

Accepts(p, e, node) == node.exitIP = NoIP \/ ~HasExitIP(p, node.exitIP, e)

Add(p, e, node) ==
  IF Accepts(p, e, node)
  THEN [p EXCEPT !.nodes = Put(@, e, node),
                 !.health = IF e \in DOMAIN @ THEN @ ELSE Put(@, e, FreshHealth)]
  ELSE p

Remove(p, e) ==
  [nodes   |-> Without(p.nodes, {e}),
   health  |-> Without(p.health, {e}),
   bans    |-> Without(p.bans, {e} \X Models),
   sticky  |-> Restrict(p.sticky, {s \in DOMAIN p.sticky : p.sticky[s] # e}),
   passive |-> p.passive \ {e},
   pinned  |-> IF p.pinned = e THEN NoExit ELSE p.pinned,
   target  |-> p.target]

\* Slip: the address is not looked up.
PinUnchecked(p, e) == [p EXCEPT !.pinned = e]

Pin(p, e) == IF e \in DOMAIN p.nodes THEN [p EXCEPT !.pinned = e] ELSE p

\* Slip: no lower bound.
SetTargetSizeUnclamped(p, value) == [p EXCEPT !.target = value]

SetTargetSize(p, value) == [p EXCEPT !.target = IF value > 1 THEN value ELSE 1]

(***************************************************************************)
(* Probe lock and health signals. A signal for an exit without a health    *)
(* record leaves the health table alone.                                   *)
(***************************************************************************)

LockFree(p, e) == e \in DOMAIN p.health /\ ~p.health[e].inflight

TakeProbeLock(p, e) == [p EXCEPT !.health[e].inflight = TRUE]

UpdateHealth(p, e, h) ==
  IF e \in DOMAIN p.health THEN [p EXCEPT !.health[e] = h] ELSE p

ReleaseProbeLock(p, e) ==
  UpdateHealth(p, e, [p.health[e] EXCEPT !.inflight = FALSE])

MarkDead(p, e) ==
  UpdateHealth(p, e, [p.health[e] EXCEPT !.state = "dead", !.inflight = FALSE])

MarkOk(p, e) ==
  UpdateHealth(p, e, [p.health[e] EXCEPT !.state = "ok", !.consecutiveLimited = 0,
                                         !.cooldownUntil = 0, !.deadStrikes = 0])

\* markOk(id, model): the ban entry is written whether or not the exit is known.
MarkOkFor(p, e, m) == [MarkOk(p, e) EXCEPT !.bans = Put(@, <<e, m>>, OkBan)]

\* Slip: no ceiling.
BackoffUncapped(n) == CooldownBase * 2 ^ (n - 1)

\* Math.min(base * 2 ** (n - 1), max)
Backoff(n) ==
  LET wait == CooldownBase * 2 ^ (n - 1)
  IN  IF wait \in 1 .. CooldownMax THEN wait ELSE CooldownMax

MarkLimited(p, e, now) ==
  LET n == p.health[e].consecutiveLimited + 1
  IN  UpdateHealth(p, e, [p.health[e] EXCEPT !.state = "ok", !.consecutiveLimited = n,
                                             !.cooldownUntil = now + Backoff(n)])

BanOf(p, e, m) == IF <<e, m>> \in DOMAIN p.bans THEN p.bans[<<e, m>>] ELSE OkBan

MarkModelBanned(p, e, m) ==
  [p EXCEPT !.bans = Put(@, <<e, m>>,
     [state |-> "banned", consecutiveFailures |-> BanConfirmations])]

\* Slip: one refusal too many is needed.
MarkModelSignalLate(p, e, m) ==
  LET ban   == BanOf(p, e, m)
      fails == ban.consecutiveFailures + 1
      state == IF ban.state = "banned" \/ fails > BanConfirmations
               THEN "banned" ELSE "suspect"
  IN  [p EXCEPT !.bans = Put(@, <<e, m>>, [state |-> state, consecutiveFailures |-> fails])]

MarkModelSignal(p, e, m) ==
  LET ban   == BanOf(p, e, m)
      fails == ban.consecutiveFailures + 1
      state == IF ban.state = "banned" \/ fails >= BanConfirmations
               THEN "banned" ELSE "suspect"
  IN  [p EXCEPT !.bans = Put(@, <<e, m>>, [state |-> state, consecutiveFailures |-> fails])]

\* Slip: the user's own exits are evicted as well.
EvictsAnySource(p, e) == p.health[e].deadStrikes + 1 >= DeadEvictions

Evicts(p, e) ==
  /\ p.nodes[e].source = "free"
  /\ p.health[e].deadStrikes + 1 >= DeadEvictions

\* Slip: the strike is counted and the exit stays in use.
MarkDeadStrikeInUse(p, e) ==
  IF e \notin DOMAIN p.nodes \/ e \notin DOMAIN p.health THEN p
  ELSE IF Evicts(p, e) THEN Remove(p, e)
  ELSE UpdateHealth(p, e, [p.health[e] EXCEPT !.inflight = FALSE, !.deadStrikes = @ + 1])

MarkDeadStrike(p, e) ==
  IF e \notin DOMAIN p.nodes \/ e \notin DOMAIN p.health THEN p
  ELSE IF Evicts(p, e) THEN Remove(p, e)
  ELSE UpdateHealth(p, e, [p.health[e] EXCEPT !.state = "dead", !.inflight = FALSE,
                                              !.deadStrikes = @ + 1])

(***************************************************************************)
(* Signals of real requests. Status is what recordPassive distinguishes:   *)
(* "2xx", "429", "refused" (401 and 403), "region" (the same with          *)
(* regionBlocked, which no caller passes) and "5xx" for every other code.  *)
(***************************************************************************)
Statuses == {"2xx", "429", "refused", "region", "5xx"}

CountPassive(p, e) == [p EXCEPT !.passive = @ \cup {e}]

RecordPassive(p, e, status, m, now) ==
  IF e \notin DOMAIN p.nodes THEN p
  ELSE CountPassive(CASE status = "2xx"     -> MarkOkFor(p, e, m)
                      [] status = "429"     -> MarkLimited(p, e, now)
                      [] status = "refused" -> MarkModelSignal(p, e, m)
                      [] status = "region"  -> MarkModelBanned(p, e, m)
                      [] OTHER              -> p, e)

RecordPassiveTransport(p, e) ==
  IF e \notin DOMAIN p.nodes THEN p ELSE CountPassive(MarkDeadStrike(p, e), e)

RerouteSession(p, s) == [p EXCEPT !.sticky = Without(@, {s})]

(***************************************************************************)
(* Selection.                                                              *)
(***************************************************************************)
Dormant(p, e, now) ==
  \/ e \notin DOMAIN p.health
  \/ p.health[e].state = "dead"
  \/ p.health[e].cooldownUntil > now

IsUsable(p, e, m, now) == ~Dormant(p, e, now) /\ BanOf(p, e, m).state # "banned"

UsableExits(p, m, now) == {e \in DOMAIN p.nodes : IsUsable(p, e, m, now)}

StateRank(p, e) == IF p.health[e].state = "ok" THEN 0 ELSE 1

\* The comparator of pick's sort; a tie is broken at random.
Precedes(p, a, b) ==
  \/ StateRank(p, a) < StateRank(p, b)
  \/ /\ StateRank(p, a) = StateRank(p, b)
     /\ \/ p.health[a].consecutiveLimited < p.health[b].consecutiveLimited
        \/ /\ p.health[a].consecutiveLimited = p.health[b].consecutiveLimited
           /\ p.nodes[a].latencyMs < p.nodes[b].latencyMs

Best(p, usable) == {e \in usable : \A other \in usable : ~Precedes(p, other, e)}

\* What pick returns when neither the pinned nor the sticky exit serves.
Rotation(p, m, now) ==
  LET usable == UsableExits(p, m, now)
  IN  IF usable = {} THEN {NoExit} ELSE Best(p, usable)

PinnedServes(p, m, now) == p.pinned # NoExit /\ IsUsable(p, p.pinned, m, now)

\* Slip: the session's exit is not tested.
StickyUntested(p, s, m, now) == s \in DOMAIN p.sticky

StickyServes(p, s, m, now) == s \in DOMAIN p.sticky /\ IsUsable(p, p.sticky[s], m, now)

\* Slip: stickiness is not looked at.
PickBest(p, s, m, now) ==
  IF PinnedServes(p, m, now) THEN {p.pinned} ELSE Rotation(p, m, now)

\* The exits (or NoExit) that pick(session, model) may return.
PickResults(p, s, m, now) ==
  IF PinnedServes(p, m, now) THEN {p.pinned}
  ELSE IF StickyServes(p, s, m, now) THEN {p.sticky[s]}
  ELSE Rotation(p, m, now)

\* The pool after pick returned e: only a rotation pick writes the session's exit.
AfterPick(p, s, m, e, now) ==
  IF PinnedServes(p, m, now) \/ e = NoExit THEN p
  ELSE [p EXCEPT !.sticky = Put(@, s, e)]

(***************************************************************************)
(* Refill accounting.                                                      *)
(***************************************************************************)
BansRecorded(p, e) == {key \in DOMAIN p.bans : key[1] = e}

Exhausted(p, e) ==
  /\ BansRecorded(p, e) # {}
  /\ \A key \in BansRecorded(p, e) : p.bans[key].state = "banned"

IsAvailable(p, e, now) == ~Dormant(p, e, now) /\ ~Exhausted(p, e)

FreeExits(p) == {e \in DOMAIN p.nodes : p.nodes[e].source = "free"}

AvailableFree(p, now) == {e \in FreeExits(p) : IsAvailable(p, e, now)}

\* state(): ratio below 0.1, 0.3 and 0.95 of the target, in integers.
PoolState(p, now) ==
  LET available == 100 * Cardinality(AvailableFree(p, now))
  IN  CASE available < 10 * p.target -> "emergency"
        [] available < 30 * p.target -> "critical"
        [] available < 95 * p.target -> "warning"
        [] OTHER                     -> "healthy"

AdmissionQuota(p, now) ==
  LET room == p.target - Cardinality(AvailableFree(p, now))
  IN  IF room > 0 THEN room ELSE 0

IsFreeFull(p) == Cardinality(FreeExits(p)) >= p.target

WorseThan(p, a, b) ==
  LET rank(e) == GradeRank(p.nodes[e].latencyMs)
  IN  \/ rank(a) > rank(b)
      \/ rank(a) = rank(b) /\ p.nodes[a].addedAt < p.nodes[b].addedAt

\* The free exits evictWorstFree may drop: the Map's order decides a full tie.
WorstFree(p) == {e \in FreeExits(p) : \A other \in FreeExits(p) : ~WorseThan(p, other, e)}
=============================================================================
