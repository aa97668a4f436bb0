------------------------------- MODULE Refill -------------------------------
(***************************************************************************)
(* The refill scheduler (packages/plugin/src/pool/refill.ts) with its      *)
(* source breaker (pool/sources.ts), on the exit pool: a round fetches the *)
(* lists of free proxies one after the other, screens the candidates and   *)
(* hands the survivors to the prober, whose tasks claim a seat, probe the  *)
(* upstream and put the exit into the pool.                                *)
(*                                                                         *)
(* Each await (a fetch, the screening, a probe) is a point where the rest  *)
(* of the plugin runs. Switching the free loop off and on in the settings  *)
(* leaves the round of the old scheduler in flight and starts a new one    *)
(* (packages/plugin/src/ip-pool.ts): there may be several. The prober's    *)
(* order and locks are in Prober; here any queued task may be next.        *)
(***************************************************************************)
EXTENDS ExitPoolOps, Sequences

CONSTANTS
  Schedulers,     \* instances of RefillScheduler, used one after the other
  FreeSources,    \* the lists, in the order of freeSources
  FastSources,    \* those of the fast tier
  ListOf,         \* list -> the addresses it may name
  Subscribed,     \* addresses that a subscription names
  Latencies,      \* measured latencies, in ms
  TargetSizes,    \* capacities the settings page sends
  InitialTarget,
  MaxPerRound,    \* #maxPerRound
  Workers,        \* the prober's maxConcurrent
  FailThreshold,  \* the breaker's failureThreshold
  SourceCooldown, \* its cooldownMs, in clock ticks
  MaxFails,       \* bound on consecutiveFails
  MaxStrikes,     \* bound on deadStrikes
  MaxClock        \* bound on the clock

ASSUME RefillAssumption ==
  /\ FreeSources \in Seq(DOMAIN ListOf)
  /\ FastSources \subseteq DOMAIN ListOf
  /\ \A src \in DOMAIN ListOf : ListOf[src] \subseteq Exits
  /\ Subscribed \subseteq Exits
  /\ Latencies \subseteq Nat /\ TargetSizes \subseteq Nat
  /\ InitialTarget \in Nat \ {0} /\ MaxPerRound \in Nat /\ Workers \in Nat \ {0}
  /\ FailThreshold \in Nat \ {0} /\ SourceCooldown \in Nat \ {0}
  /\ MaxFails \in Nat /\ MaxStrikes \in Nat /\ MaxClock \in Nat

VARIABLES
  pool,
  now,
  timer,    \* scheduler -> "new", "started" or "stopped"
  breaker,  \* scheduler -> list -> [fails, until]   (#entries)
  round     \* scheduler -> its round

vars == <<pool, now, timer, breaker, round>>

\* Facts of the coarse screen: what a candidate's exit IP and latency are.
Facts == [ip: ExitIPs, latency: Latencies]

\* todo: places of the lists not fetched yet; seen: addresses to skip; facts: of
\* the survivors; queued, probing: their tasks; claimed: those that took a seat.
Round == [phase: {"idle", "fetch", "coarse", "admit"}, state: {"healthy", "warning", "critical", "emergency"},
          quota: Nat, todo: SUBSET DOMAIN FreeSources, seen: SUBSET Exits, candidates: SUBSET Exits,
          facts: UNION {[survivors -> Facts] : survivors \in SUBSET Exits},
          queued: SUBSET Exits, probing: SUBSET Exits, claimed: SUBSET Exits]

NoRound == [phase |-> "idle", state |-> "healthy", quota |-> 0, todo |-> {}, seen |-> {},
            candidates |-> {}, facts |-> << >>, queued |-> {}, probing |-> {}, claimed |-> {}]

TypeOK ==
  /\ IsPool(pool) /\ now \in Nat
  /\ timer \in [Schedulers -> {"new", "started", "stopped"}]
  /\ breaker \in [Schedulers -> [DOMAIN ListOf -> [fails: Nat, until: Nat]]]
  /\ round \in [Schedulers -> Round]
  /\ \A s \in Schedulers :
       LET r == round[s]
       IN  /\ r.queued \cup r.claimed \subseteq DOMAIN r.facts
           /\ r.probing \subseteq r.claimed
           /\ r.phase = "idle" => r = NoRound

Init ==
  /\ pool = EmptyPool(InitialTarget)
  /\ now = 0
  /\ timer = [s \in Schedulers |-> "new"]
  /\ breaker = [s \in Schedulers |-> [src \in DOMAIN ListOf |-> [fails |-> 0, until |-> 0]]]
  /\ round = [s \in Schedulers |-> NoRound]

(***************************************************************************)
(* The source breaker.                                                     *)
(***************************************************************************)
CanUse(s, src) == breaker[s][src].until <= now

\* Slip: the cooldown is cleared and the count is not.
ReenabledKeepingCount(entry) ==
  IF entry.until <= now /\ entry.fails >= FailThreshold THEN [entry EXCEPT !.until = 0] ELSE entry

\* What canUse does to the entry of a list whose cooldown has elapsed.
Reenabled(entry) ==
  IF entry.until <= now /\ entry.fails >= FailThreshold THEN [fails |-> 0, until |-> 0] ELSE entry

RecordSuccess(s, src) == breaker' = [breaker EXCEPT ![s][src] = [fails |-> 0, until |-> 0]]

RecordFailure(s, src) ==
  LET fails == breaker[s][src].fails + 1
  IN  /\ fails <= MaxFails
      /\ breaker' = [breaker EXCEPT ![s][src] =
           [fails |-> fails,
            until |-> IF fails >= FailThreshold THEN now + SourceCooldown ELSE @.until]]

\* selectSources of a state that is not healthy: the places of its lists.
Selected(state) ==
  {i \in DOMAIN FreeSources : state = "emergency" \/ FreeSources[i] \in FastSources}

(***************************************************************************)
(* A round.                                                                *)
(***************************************************************************)
Goes(s, r) == round' = [round EXCEPT ![s] = r]

Start(s) ==
  /\ timer[s] = "new" /\ \A other \in Schedulers : timer[other] # "started"
  /\ timer' = [timer EXCEPT ![s] = "started"]
  /\ UNCHANGED <<pool, now, breaker, round>>

\* stop() clears the timer; a round in flight goes on.
Stop(s) ==
  /\ timer[s] = "started"
  /\ timer' = [timer EXCEPT ![s] = "stopped"]
  /\ UNCHANGED <<pool, now, breaker, round>>

\* The timer, or refillNow. In an emergency canUse is not even called.
TickRound(s) ==
  LET state    == PoolState(pool, now)
      quota    == IF AdmissionQuota(pool, now) < MaxPerRound
                  THEN AdmissionQuota(pool, now) ELSE MaxPerRound
      selected == Selected(state)
      lists    == IF state = "emergency" THEN selected
                  ELSE {i \in selected : CanUse(s, FreeSources[i])}
  IN  /\ timer[s] = "started" /\ round[s].phase = "idle"
      /\ state # "healthy" /\ quota > 0
      /\ breaker' = IF state = "emergency" THEN breaker
                    ELSE [breaker EXCEPT ![s] = [src \in DOMAIN @ |->
                            IF src \in FastSources THEN Reenabled(@[src]) ELSE @[src]]]
      /\ Goes(s, [NoRound EXCEPT !.phase = IF lists = {} THEN "coarse" ELSE "fetch",
                                 !.state = state, !.quota = quota, !.todo = lists,
                                 !.seen = DOMAIN pool.nodes])
      /\ UNCHANGED <<pool, now, timer>>

\* The lists are fetched in their order.
IsNext(s, i) == i \in round[s].todo /\ \A other \in round[s].todo : i <= other

Fetched(s, i, rows) ==
  /\ round[s].phase = "fetch" /\ IsNext(s, i)
  /\ Goes(s, [round[s] EXCEPT !.todo = @ \ {i}, !.seen = @ \cup rows, !.candidates = @ \cup rows,
                              !.phase = IF round[s].todo = {i} THEN "coarse" ELSE "fetch"])

\* A list answers with some of its rows; the caps drop rows at random.
FetchAnswers(s, i) ==
  /\ \E rows \in SUBSET (ListOf[FreeSources[i]] \ round[s].seen) : Fetched(s, i, rows)
  /\ RecordSuccess(s, FreeSources[i])
  /\ UNCHANGED <<pool, now, timer>>

FetchFails(s, i) ==
  /\ Fetched(s, i, {})
  /\ RecordFailure(s, FreeSources[i])
  /\ UNCHANGED <<pool, now, timer>>

\* coarseScreenBatch returns the survivors' facts; their tasks are enqueued.
CoarseScreen(s) ==
  /\ round[s].phase = "coarse"
  /\ \E survivors \in SUBSET round[s].candidates :
       \E facts \in [survivors -> Facts] :
         Goes(s, IF survivors = {} THEN NoRound
                 ELSE [round[s] EXCEPT !.phase = "admit", !.facts = facts, !.queued = survivors])
  /\ UNCHANGED <<pool, now, timer, breaker>>

(***************************************************************************)
(* A task of the round: the gate, the probe, the verdict.                  *)
(***************************************************************************)
Probing == UNION {round[s].probing : s \in Schedulers}

\* Slip: the gate looks at what has landed, not at what was claimed.
GateOnLanded(s) == AdmissionQuota(pool, now) > 0

Gate(s) == Cardinality(round[s].claimed) < round[s].quota /\ AdmissionQuota(pool, now) > 0

\* Slip: the last rejected task does not end the round.
LeavesRunning(s, r) == Goes(s, r)

\* enqueueAll resolves when its last task has ended.
Leaves(s, r) == Goes(s, IF r.queued = {} /\ r.probing = {} THEN NoRound ELSE r)

StartTask(s, e) ==
  /\ e \in round[s].queued /\ Cardinality(Probing) < Workers
  /\ IF Gate(s)
     THEN Goes(s, [round[s] EXCEPT !.queued = @ \ {e}, !.claimed = @ \cup {e}, !.probing = @ \cup {e}])
     ELSE Leaves(s, [round[s] EXCEPT !.queued = @ \ {e}])
  /\ UNCHANGED <<pool, now, timer, breaker>>

Ends(s, e) == Leaves(s, [round[s] EXCEPT !.probing = @ \ {e}])

Rejected(s, e) ==
  /\ e \in round[s].probing
  /\ Ends(s, e)
  /\ UNCHANGED <<pool, now, timer, breaker>>

\* Slip: a full pool takes the exit in addition.
MakesNoRoom(p) == {p}

\* The replace flow: what evictWorstFree may leave of a full pool.
MakesRoom(p) ==
  IF IsFreeFull(p) /\ FreeExits(p) # {} THEN {Remove(p, worst) : worst \in WorstFree(p)} ELSE {p}

Insert(p, e, node, limited) ==
  IF ~Accepts(p, e, node) THEN p
  ELSE IF limited THEN MarkLimited(Add(p, e, node), e, now) ELSE MarkOk(Add(p, e, node), e)

Admitted(s, e) ==
  /\ e \in round[s].probing
  /\ \E p \in MakesRoom(pool), limited \in BOOLEAN :
       pool' = Insert(p, e, [source |-> "free", exitIP |-> round[s].facts[e].ip,
                             latencyMs |-> round[s].facts[e].latency, addedAt |-> now], limited)
  /\ Ends(s, e)
  /\ UNCHANGED <<now, timer, breaker>>

(***************************************************************************)
(* The rest of the plugin, and time.                                       *)
(***************************************************************************)
Elsewhere(p) == pool' = p /\ UNCHANGED <<now, timer, breaker, round>>

\* A subscription task: its `has` check came before its probe, and a probe
\* that fails leaves the exit IP unknown.
SubscriptionJoins(e) ==
  /\ e \in Subscribed
  /\ \E ip \in ExitIPs \cup {NoIP}, latency \in Latencies :
       Elsewhere(Insert(pool, e, [source |-> "subscription", exitIP |-> ip,
                                  latencyMs |-> latency, addedAt |-> now], FALSE))

StrikeDead(e) ==
  /\ e \in DOMAIN pool.nodes /\ pool.health[e].deadStrikes < MaxStrikes
  /\ Elsewhere(MarkDeadStrike(pool, e))

ApplyTargetSize == \E value \in TargetSizes : Elsewhere(SetTargetSize(pool, value))

Tick ==
  /\ now < MaxClock
  /\ now' = now + 1
  /\ UNCHANGED <<pool, timer, breaker, round>>

RoundStep(s) ==
  \/ \E i \in DOMAIN FreeSources : FetchAnswers(s, i) \/ FetchFails(s, i)
  \/ CoarseScreen(s)
  \/ \E e \in Exits : StartTask(s, e) \/ Rejected(s, e) \/ Admitted(s, e)

Next ==
  \/ \E s \in Schedulers : Start(s) \/ Stop(s) \/ TickRound(s) \/ RoundStep(s)
  \/ \E e \in Exits : SubscriptionJoins(e) \/ StrikeDead(e)
  \/ ApplyTargetSize \/ Tick

\* Every fetch, screen and probe has a timeout, and every worker goes on.
Fairness == \A s \in Schedulers : WF_vars(RoundStep(s))

Spec == Init /\ [][Next]_vars /\ Fairness

(***************************************************************************)
(* Properties.                                                             *)
(***************************************************************************)

\* However many rounds and tasks overlap, and whatever they knew when they
\* started, an admission never takes the free pool beyond its capacity.
CapacityKept ==
  [][Cardinality(FreeExits(pool')) > Cardinality(FreeExits(pool))
       => Cardinality(FreeExits(pool')) <= pool'.target]_vars

\* A pool that has all the usable exits it wants is not churned: no surplus
\* survivor of a round replaces one of its exits. The gate is passed before the
\* probe, so this is said of one scheduler whose pool nothing else satisfies in
\* between (no cooldown lapses in the run, no capacity is lowered).
SatisfiedPoolUnchurned ==
  [][(\E s \in Schedulers, e \in Exits : Admitted(s, e) /\ pool' # pool)
       => AdmissionQuota(pool, now) > 0]_vars

\* The breaker: a list rests exactly while its run of failures is unbroken,
\* and never longer than one cooldown from now.
BreakerFollowsRun ==
  \A s \in Schedulers, src \in DOMAIN ListOf :
    LET entry == breaker[s][src]
    IN  /\ entry.fails >= FailThreshold <=> entry.until > 0
        /\ entry.until <= now + SourceCooldown

\* The types, and a breaker that follows the runs of failures.
RefillInv == TypeOK /\ BreakerFollowsRun

\* Every round ends, whichever fetches fail and however its probes turn out,
\* so that the next tick is not skipped for ever; a stop does not hold it up.
RoundEnds == \A s \in Schedulers : round[s].phase # "idle" ~> round[s].phase = "idle"

(***************************************************************************)
(* What comments and documents say and the code does not do.               *)
(***************************************************************************)

\* "Manual and subscription nodes take no part in the replacement": an exit
\* the user subscribed to stays one while it is in the pool.
SubscribedStaysSubscribed ==
  [][\A e \in DOMAIN pool.nodes \cap DOMAIN pool'.nodes :
       pool.nodes[e].source = "subscription" => pool'.nodes[e].source = "subscription"]_vars
=============================================================================
