----------------------------- MODULE PoolRuntime -----------------------------
(***************************************************************************)
(* The life of the IP pool inside the plugin: the settings controller      *)
(* (packages/plugin/src/ip-pool-settings/apply.ts) assembles a runtime on  *)
(* the first enabled commit and reconfigures it on later ones, the runtime *)
(* (ip-pool.ts) switches the refill loop, the subscriptions and routing,   *)
(* and the installer (pool/installer.ts) puts the router into the host's   *)
(* global dispatcher slot and takes it out again.                          *)
(*                                                                         *)
(* A runtime is in assembly while its two imports are awaited; the rest of *)
(* startIpPool and the controller's keeping of the result are one step,    *)
(* the reconfigure that follows it another: assemblies may interleave.     *)
(* A refill round is reduced to when it runs and which exits it admits     *)
(* (see Refill), a subscription to the URLs it is fetched from. Settings   *)
(* that only travel to another component (target size, countries, hosts,   *)
(* intervals) are left out.                                                *)
(***************************************************************************)
EXTENDS Integers, FiniteSets

CONSTANTS
  MaxRuntimes,   \* bound on the runtimes assembled
  MaxSchedulers, \* bound on the refill schedulers they create
  MaxRouters,    \* bound on the routing dispatchers they create
  MaxCommits,    \* bound on the settings commits
  Manual, Free, Subscribed, \* exits by source
  Values,        \* settings the page commits
  SetterReturns, \* setGlobalDispatcher returns what it replaces; undici's returns nothing
  hostAgent, otherPlugin    \* owners of the slot that are not ours

None == 0

Runtimes == 1 .. MaxRuntimes
Schedulers == 1 .. MaxSchedulers
Routers == 1 .. MaxRouters
Exits == Manual \cup Free \cup Subscribed

Setting == [enabled: BOOLEAN, free: BOOLEAN, manual: SUBSET Manual, urls: SUBSET Subscribed]

ASSUME RuntimeAssumption ==
  /\ MaxRuntimes \in Nat /\ MaxSchedulers \in Nat /\ MaxRouters \in Nat /\ MaxCommits \in Nat
  /\ Values \subseteq Setting
  /\ SetterReturns \in BOOLEAN
  /\ hostAgent \notin Nat /\ otherPlugin \notin Nat /\ hostAgent # otherPlugin

VARIABLES
  host,       \* [slot, fetch]: the global dispatcher and globalThis.fetch
  other,      \* the dispatcher another plugin replaced, or None
  settings,   \* config.ipPool of the plugin
  commits,    \* number of commits
  controller, \* controller.runtime
  gone,       \* the plugin was torn down
  runtime,    \* runtime -> its state
  installer,  \* runtime -> its RoutingInstaller
  scheduler,  \* scheduler -> [owner, stopped, running]
  delegate    \* the runtime whose pool the rotate delegate decides on

vars == <<host, other, settings, commits, controller, gone, runtime, installer, scheduler, delegate>>

\* due: the commit that began the assembly has still to reconfigure, with value.
Runtime == [phase: {"new", "assembling", "live", "failed", "disposed"}, config: Setting,
            due: BOOLEAN, value: Setting, exits: SUBSET Exits, refill: Schedulers \cup {None},
            fetcher: {"none", "active", "stopped"}, urls: SUBSET Subscribed]

Slot == {hostAgent, otherPlugin} \cup Routers

Installer == [router: Routers \cup {None}, previous: Slot \cup {None},
              savedFetch: {"none", "builtin"}, deferred: BOOLEAN]

TypeOK ==
  /\ host \in [slot: Slot, fetch: {"builtin", "module"}]
  /\ other \in Slot \cup {None}
  /\ settings \in Setting /\ commits \in 0 .. MaxCommits
  /\ controller \in Runtimes \cup {None} /\ delegate \in Runtimes \cup {None}
  /\ gone \in BOOLEAN
  /\ runtime \in [Runtimes -> Runtime]
  /\ installer \in [Runtimes -> Installer]
  /\ scheduler \in [Schedulers -> [owner: Runtimes \cup {None}, stopped: BOOLEAN, running: BOOLEAN]]

NoSetting == [enabled |-> FALSE, free |-> FALSE, manual |-> {}, urls |-> {}]

NewInstaller == [router |-> None, previous |-> None, savedFetch |-> "none", deferred |-> FALSE]

Init ==
  /\ host = [slot |-> hostAgent, fetch |-> "builtin"]
  /\ other = None
  /\ settings = NoSetting /\ commits = 0
  /\ controller = None /\ delegate = None
  /\ gone = FALSE
  /\ runtime = [r \in Runtimes |->
       [phase |-> "new", config |-> NoSetting, due |-> FALSE, value |-> NoSetting,
        exits |-> {}, refill |-> None, fetcher |-> "none", urls |-> {}]]
  /\ installer = [r \in Runtimes |-> NewInstaller]
  /\ scheduler = [s \in Schedulers |-> [owner |-> None, stopped |-> FALSE, running |-> FALSE]]

(***************************************************************************)
(* The installer: what its calls make of [host, inst], the host and the    *)
(* installer's fields. A router is named by the number of its creation.    *)
(***************************************************************************)
Enabled(inst) == inst.router # None

\* The slot and who captured a router are all that remembers a router.
UsedRouters == {n \in Routers : host.slot = n \/ other = n \/ \E r \in Runtimes : installer[r].router = n}

FreshRouter(n) == n \in Routers \ UsedRouters /\ \A m \in Routers \ UsedRouters : n <= m

\* Slip: a router of our own class is not taken for a foreign owner.
ForeignElsewhere(slot) == slot = otherPlugin

\* #detectForeignDispatcher: anything but undici's own Agent, our class included.
Foreign(slot) == slot # hostAgent

Install(c, n) ==
  IF Enabled(c.inst) THEN c
  ELSE IF Foreign(c.host.slot) THEN [c EXCEPT !.inst.deferred = TRUE]
  ELSE [host |-> [slot |-> n, fetch |-> "module"],
        inst |-> [router |-> n,
                  previous |-> IF SetterReturns THEN c.host.slot ELSE c.inst.previous,
                  savedFetch |-> IF c.host.fetch # "module" THEN c.host.fetch ELSE c.inst.savedFetch,
                  deferred |-> FALSE]]

\* Slip: the global fetch is not put back.
DisableKeepingFetch(c) ==
  IF ~Enabled(c.inst) THEN c
  ELSE [host |-> [slot  |-> IF c.inst.previous # None THEN c.inst.previous ELSE c.host.slot,
                  fetch |-> c.host.fetch],
        inst |-> [NewInstaller EXCEPT !.deferred = c.inst.deferred]]

Disable(c) ==
  IF ~Enabled(c.inst) THEN c
  ELSE [host |-> [slot  |-> IF c.inst.previous # None THEN c.inst.previous ELSE c.host.slot,
                  fetch |-> IF c.inst.savedFetch # "none" THEN c.inst.savedFetch ELSE c.host.fetch],
        inst |-> [NewInstaller EXCEPT !.deferred = c.inst.deferred]]

InstallIf(cond, c, n) == IF cond THEN Install(c, n) ELSE c

Current(r) == [host |-> host, inst |-> installer[r]]

Becomes(r, c) == host' = c.host /\ installer' = [installer EXCEPT ![r] = c.inst]

(***************************************************************************)
(* applyConfig: the refill loop and the subscriptions of runtime r whose   *)
(* state is rt.                                                            *)
(***************************************************************************)
WantRefill(v) == v.free /\ v.enabled

FreshScheduler(s) ==
  /\ scheduler[s].owner = None
  /\ \A m \in Schedulers : scheduler[m].owner = None => s <= m

\* Slip: a refill loop that is switched off is forgotten, not stopped.
SchedulersForgetful(rt, r, v, s) ==
  IF WantRefill(v) /\ rt.refill = None
  THEN [scheduler EXCEPT ![s] = [owner |-> r, stopped |-> FALSE, running |-> TRUE]]
  ELSE scheduler

\* start() runs a round at once; stop() leaves the round in flight alone.
SchedulersAfter(rt, r, v, s) ==
  IF WantRefill(v) /\ rt.refill = None
  THEN [scheduler EXCEPT ![s] = [owner |-> r, stopped |-> FALSE, running |-> TRUE]]
  ELSE IF ~WantRefill(v) /\ rt.refill # None
  THEN [scheduler EXCEPT ![rt.refill].stopped = TRUE]
  ELSE scheduler

\* No URLs leave the fetcher as it is, with the URLs it had.
Applied(rt, v, s) ==
  [rt EXCEPT !.config  = v,
             !.refill  = IF ~WantRefill(v) THEN None ELSE IF @ = None THEN s ELSE @,
             !.urls    = IF v.urls = {} THEN @ ELSE v.urls,
             !.fetcher = IF v.urls = {} \/ @ # "none" THEN @ ELSE "active"]

\* Slip: a runtime that is switched on again leaves routing to the next admission.
RoutedLazily(c, v, exits, n) == IF v.enabled THEN c ELSE Disable(c)

\* reconfigure: routing follows the switch and the pool's occupancy.
Routed(c, v, exits, n) ==
  IF v.enabled THEN InstallIf(exits # {}, c, n) ELSE Disable(c)

(***************************************************************************)
(* The controller.                                                         *)
(***************************************************************************)
\* reconfigure: runtime r, of those in rts, takes over the settings v.
Reconfigure(rts, r, v) ==
  \E s \in Schedulers, n \in Routers :
    /\ FreshScheduler(s) /\ FreshRouter(n)
    /\ runtime' = [rts EXCEPT ![r] = Applied(rts[r], v, s)]
    /\ scheduler' = SchedulersAfter(rts[r], r, v, s)
    /\ Becomes(r, Routed(Current(r), v, rts[r].exits, n))
    /\ delegate' = r

\* A commit on a live runtime; a disabled commit during an assembly ends here.
Commit(v) ==
  /\ ~gone /\ commits < MaxCommits
  /\ commits' = commits + 1
  /\ settings' = v
  /\ \/ /\ controller = None /\ ~v.enabled
        /\ UNCHANGED <<host, runtime, installer, scheduler, delegate>>
     \/ \E r \in Runtimes :
          /\ controller = None /\ v.enabled
          /\ runtime[r].phase = "new" /\ \A q \in Runtimes : runtime[q].phase = "new" => r <= q
          /\ runtime' = [runtime EXCEPT ![r].phase = "assembling", ![r].config = v, ![r].value = v]
          /\ UNCHANGED <<host, installer, scheduler, delegate>>
     \/ controller # None /\ Reconfigure(runtime, controller, v)
  /\ UNCHANGED <<other, controller, gone>>

\* startIpPool ends and the controller keeps its result. Nothing asks whether
\* another runtime was assembled or the plugin torn down meanwhile.
Assembled(r) ==
  /\ runtime[r].phase = "assembling"
  /\ \E s \in Schedulers, n \in Routers :
       LET rt == [runtime[r] EXCEPT !.phase = "live", !.due = TRUE,
                                    !.exits = runtime[r].config.manual]
       IN  /\ FreshScheduler(s) /\ FreshRouter(n)
           /\ runtime' = [runtime EXCEPT ![r] = Applied(rt, rt.config, s)]
           /\ scheduler' = SchedulersAfter(rt, r, rt.config, s)
           /\ Becomes(r, InstallIf(rt.exits # {}, Current(r), n))
  /\ controller' = r /\ delegate' = r
  /\ UNCHANGED <<other, settings, commits, gone>>

\* undici cannot be imported, and could not be before.
AssemblyFails(r) ==
  /\ runtime[r].phase = "assembling"
  /\ \A q \in Runtimes : runtime[q].phase \in {"new", "assembling", "failed"}
  /\ runtime' = [runtime EXCEPT ![r].phase = "failed", ![r].due = TRUE]
  /\ controller' = None
  /\ UNCHANGED <<host, other, settings, commits, gone, installer, scheduler, delegate>>

\* The commit that began the assembly of r reconfigures, with the value it had:
\* whatever runtime the controller has by now, another one or none.
Reconfigures(r) ==
  /\ runtime[r].due
  /\ LET rts == [runtime EXCEPT ![r].due = FALSE, ![r].value = NoSetting]
     IN  \/ /\ controller = None /\ runtime' = rts
            /\ UNCHANGED <<host, installer, scheduler, delegate>>
         \/ controller # None /\ Reconfigure(rts, controller, runtime[r].value)
  /\ UNCHANGED <<other, settings, commits, controller, gone>>

\* The plugin's dispose effect and dispose() of the runtime, if there is one.
Dispose ==
  /\ ~gone /\ gone' = TRUE
  /\ IF controller = None THEN UNCHANGED <<host, runtime, installer, scheduler, delegate>>
     ELSE LET r == controller
          IN  /\ runtime' = [runtime EXCEPT ![r].phase = "disposed",
                               ![r].fetcher = IF @ = "none" THEN @ ELSE "stopped"]
              /\ scheduler' = IF runtime[r].refill = None THEN scheduler
                              ELSE [scheduler EXCEPT ![runtime[r].refill].stopped = TRUE]
              /\ Becomes(r, Disable(Current(r)))
              /\ delegate' = None
  /\ controller' = None
  /\ UNCHANGED <<other, settings, commits>>

(***************************************************************************)
(* What goes on in a runtime between commits.                              *)
(***************************************************************************)
\* The timer of a scheduler that was not stopped, or refillNow.
RoundStarts(s) ==
  /\ scheduler[s].owner # None /\ ~scheduler[s].stopped /\ ~scheduler[s].running
  /\ scheduler' = [scheduler EXCEPT ![s].running = TRUE]
  /\ UNCHANGED <<host, other, settings, commits, controller, gone, runtime, installer, delegate>>

RoundEnds(s) ==
  /\ scheduler[s].running
  /\ scheduler' = [scheduler EXCEPT ![s].running = FALSE]
  /\ UNCHANGED <<host, other, settings, commits, controller, gone, runtime, installer, delegate>>

\* A round admits an exit and its callback engages routing: the `enabled` it
\* asks is the one of the configuration that created the scheduler, so true.
RoundAdmits(s, e) ==
  /\ scheduler[s].running
  /\ LET r == scheduler[s].owner
     IN  \E n \in Routers :
           /\ FreshRouter(n)
           /\ runtime' = [runtime EXCEPT ![r].exits = @ \cup {e}]
           /\ Becomes(r, Install(Current(r), n))
  /\ UNCHANGED <<other, settings, commits, controller, gone, scheduler, delegate>>

\* A refresh of the fetcher lands an exit; nothing engages routing.
SubscriptionAdmits(r, e) ==
  /\ runtime[r].fetcher = "active" /\ e \in runtime[r].urls
  /\ runtime' = [runtime EXCEPT ![r].exits = @ \cup {e}]
  /\ UNCHANGED <<host, other, settings, commits, controller, gone, installer, scheduler, delegate>>

\* Strikes, evictions: an exit leaves the pool. Routing stays as it is.
ExitLeaves(r, e) ==
  /\ e \in runtime[r].exits
  /\ runtime' = [runtime EXCEPT ![r].exits = @ \ {e}]
  /\ UNCHANGED <<host, other, settings, commits, controller, gone, installer, scheduler, delegate>>

(***************************************************************************)
(* Another plugin that takes over the dispatcher and gives back what it    *)
(* found. One that does so on top of a router that routes is a setup the   *)
(* documentation calls unsupported; here it comes while nothing routes.    *)
(***************************************************************************)
OtherLoads ==
  /\ other = None /\ \A r \in Runtimes : ~Enabled(installer[r])
  /\ other' = host.slot
  /\ host' = [host EXCEPT !.slot = otherPlugin]
  /\ UNCHANGED <<settings, commits, controller, gone, runtime, installer, scheduler, delegate>>

OtherUnloads ==
  /\ other # None
  /\ host' = [host EXCEPT !.slot = other]
  /\ other' = None
  /\ UNCHANGED <<settings, commits, controller, gone, runtime, installer, scheduler, delegate>>

Next ==
  \/ \E v \in Values : Commit(v)
  \/ \E r \in Runtimes : Assembled(r) \/ AssemblyFails(r) \/ Reconfigures(r)
  \/ Dispose
  \/ \E s \in Schedulers : RoundStarts(s) \/ RoundEnds(s) \/ \E e \in Free : RoundAdmits(s, e)
  \/ \E r \in Runtimes : \E e \in Subscribed : SubscriptionAdmits(r, e)
  \/ \E r \in Runtimes : \E e \in Exits : ExitLeaves(r, e)
  \/ OtherLoads \/ OtherUnloads

Spec == Init /\ [][Next]_vars

(***************************************************************************)
(* Properties.                                                             *)
(***************************************************************************)
Routing(r) == Enabled(installer[r])

\* At most one installer routes at a time and its router is in the slot, even
\* when commits that raced an assembly left several runtimes behind: a router
\* of our own in the slot makes every other runtime defer.
ExclusiveRouting ==
  \A r \in Runtimes : Routing(r) =>
    /\ host.slot = installer[r].router
    /\ \A q \in Runtimes \ {r} : ~Routing(q)

\* The global fetch is the module's exactly while some runtime routes: whoever
\* switches off hands back the fetch it found, never one another had put there.
FetchFollowsRouting ==
  host.fetch = "module" <=> \E r \in Runtimes : Routing(r)

\* The refill loop that a runtime started and did not stop is the one of its
\* present settings, through every switch off and on again.
RefillFollowsSettings ==
  \A r \in Runtimes : runtime[r].phase = "live" =>
    {s \in Schedulers : scheduler[s].owner = r /\ ~scheduler[s].stopped} =
      IF WantRefill(runtime[r].config) THEN {runtime[r].refill} ELSE {}

\* The types, and refill loops that follow the settings.
RuntimeInv == TypeOK /\ RefillFollowsSettings

\* An enabled runtime with exits that were configured or admitted by refill,
\* which does not route. Subscribed exits alone engage nothing.
Idle(r) ==
  /\ runtime[r].phase = "live" /\ runtime[r].config.enabled
  /\ runtime[r].exits \ Subscribed # {} /\ ~Routing(r)

\* No commit, assembly or admission leaves a runtime idle while the dispatcher
\* slot is the host's: it was idle before, and neither its settings changed nor
\* an exit was admitted (another owner has given the slot back meanwhile).
FreeSlotTaken ==
  [][\A r \in Runtimes : Idle(r)' /\ ~Foreign(host.slot) =>
       /\ Idle(r) /\ runtime'[r].config = runtime[r].config
       /\ runtime'[r].exits \ Subscribed \subseteq runtime[r].exits]_vars

(***************************************************************************)
(* What comments and documents say and the code does not do.               *)
(***************************************************************************)

\* "remembers the pre-existing dispatcher and restores it on disable and on
\* plugin dispose": while nothing routes, no router of ours is in the slot.
HostRestored ==
  (\A r \in Runtimes : ~Routing(r)) => host.slot \notin Routers /\ host.fetch = "builtin"

\* "another dispatcher-level plugin owns the global dispatcher, so we deferred":
\* a runtime begins to defer only to another plugin, or to another runtime that
\* routes.
DefersToOthers ==
  [][\A r \in Runtimes : ~installer[r].deferred /\ installer'[r].deferred =>
       host.slot = otherPlugin \/ \E q \in Runtimes \ {r} : Routing(q)]_vars

\* "hot-applies every commit ... including the enabled flip (dispatcher
\* install/uninstall)": with the pool switched off and no assembly under way,
\* nothing routes.
OffMeansDirect ==
  ~settings.enabled /\ (\A r \in Runtimes : runtime[r].phase # "assembling") =>
    \A r \in Runtimes : ~Routing(r)

\* "Assemble on first enable; reuse across later commits".
OneRuntime ==
  Cardinality({r \in Runtimes : runtime[r].phase = "live"}) <= 1
=============================================================================
