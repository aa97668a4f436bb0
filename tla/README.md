# Formal models of DSH OpenCode

TLA+ modules for the TypeScript plugin under `packages/plugin/src` (a provider of
free models that reaches its upstream through a pool of proxy exits) and its
legacy sidecar mode, checked with TLC on small instances, with theorems checked by
TLAPS. Paths are relative to the root of the repository; `pool/` stands for
`packages/plugin/src/pool/`.

To repeat a check: `tlc -config ExitPool_table.cfg MCExitPool`; for a proof:
`tlapm ExitPool_proofs.tla`. The proofs about a component are in its `_proofs` module;
those about Subscriptions are in `PoolRuntime_proofs`, with the runtime they feed, and
those about Catalog in `Sidecar_proofs`, with the agent it describes.

## 1. The system

The plugin runs inside one Node process, on one thread: a step is a synchronous
stretch of code between two `await`s or callbacks. All that follows interleaves at
those points, over one shared `ExitPool`.

| Component | State | Operations | What is hard about it |
|---|---|---|---|
| **ExitPool** (`pool/pool.ts`) | maps of nodes, health, bans, sticky sessions, counters; pinned exit; capacity | add, remove, pin, probe lock, the marks, passive signals, `pick`, `reroute`, eviction, quota | six maps that must agree under any order of calls; signals for exits that have left; backoff arithmetic |
| **Prober** (`pool/prober.ts`) | queue, tasks in flight, limit, waiter of `drained` | enqueue, settle, `setMaxConcurrent`, `drained` | the lock is taken inside the search of the queue; others write the lock while a task awaits |
| **PoolRoutingDispatcher** (`pool/dispatcher.ts`) | agents, their usage order, `closed`; per request an observer with a sentinel | dispatch, the undici callbacks, sentinel, close, destroy | sentinel against late answers and aborts; session state that is older than the signal |
| **Rotate delegate and stream loop** (`pool/rotate.ts`, `adapter/zen-adapter.ts`) | attempt number, content seen, deadline | stream, restart before content, watchdog, `decide` | an attempt that is given up goes on and its outcome arrives during the next one |
| **RefillScheduler, SourceBreaker** (`pool/refill.ts`, `pool/sources.ts`) | timer, round in flight, seats claimed; per list failures and cooldown | tick, fetch, screen, gate, admit/replace, stop | workers decide at the gate and act after a probe; an old round outlives its scheduler |
| **Admission** (`pool/admission.ts`) | none | coarse screen, models list, smoke; the fallback of trusted exits | three awaits per model between what a probe reads of an exit and what it writes |
| **IP-pool runtime** (`ip-pool.ts`) | pool, prober, scheduler, fetcher, supervisor, installer | assemble, reconfigure, `probeAll`, `probeExit`, dispose | entries that are read before a probe and written after it; loops that outlive the switch that started them |
| **RoutingInstaller** (`pool/installer.ts`) | router, previous global dispatcher, saved `fetch`, deferral | install, disable | other owners of the same globals, routers of our own among them |
| **Subscriptions** (`pool/subscription*.ts`) | URLs, timer, `#running`, report of the last refresh | refresh, smokes, stop | a refresh that never ends locks out every later one |
| **SingBoxSupervisor** (`pool/singbox.ts`) | child process, `#running`, port map | reload, stop, exit of the child | exits during each await; a port per index: an address changes its meaning on reload |
| **Settings controller and bridge** (`ip-pool-settings/`) | settings, the live runtime | commit, assemble, dispose, probe actions | a commit while the runtime is still being assembled |
| **ModelCatalog** (`adapter/catalog.ts`) | model list, metadata and whether it is ready, cache file, timer | start, refresh, stop, `list` | refreshes that overlap each other and a stop; a crash between two file operations |
| **Zen adapter conversions** (`adapter/messages.ts`, `events.ts`, `ids.ts`) | none | message and event conversion | pure |
| **AgentProcess** (`agent-process.ts`) | child, state, restart timer, crash count | start, handshake, exit, restart, stop, dispose | exits at every point of a start, a backoff and a stop |
| **Plugin entry, sidecar mode** (`index.ts`) | handshake info, provider route, `disposed` | startOnce, refresh, teardown | teardown between two awaits; a port that becomes stale |
| **Legacy Go agent** (`legacy/`) | anonymous proxy pool under a mutex, gateway, catalog | acquire, mark, request, refresh | cooldowns, streaming conversion |
| **Settings page** (`client/`) | form state | display | user interface |

How they interact: a chat turn asks the stream loop for an attempt; the attempt is
a request that the dispatcher routes with `pool.pick`; the dispatcher's observer
turns its outcome into a signal on the pool and moves the session; the stream loop
sees the same outcome later, through the adapter, and asks the delegate, which
reads and writes the pool again. Meanwhile the refill round puts tasks into the
prober, whose workers write the pool when their probe ends, and the settings page
changes capacity, limit and pin at any time.

What makes each part correct, in short: the pool's maps agree and `pick` returns
an exit that serves or none; one request, one signal; no lock, seat, round, turn
or waiter is lost; a full pool stays within its capacity; the user's own exits are
not dropped by automation; at most one live agent, and none after a stop; the host
gets back the globals the plugin took; only models somebody vouches for are offered.
`PROJECT.json` lists the hazards one by one, each at its line, with the properties
that cover it or the reason why none does yet.

## 2. The modules

```
ExitDirectory <--implements-- ExitPool --extends--> ExitPoolOps
                                                       ^  ^  ^
                                                  Prober  |  Refill
                                                     Dispatcher
                                                         ^
                                                     RotateLoop
ExitPoolOps  <--extends-- Probes
AgentProcess <--extends-- Sidecar <--extends-- Plugin --extends--> Catalog
SingBox      <--extends-- Subscriptions
PoolRuntime

ExitPoolOps <-- ExitPoolOps_proofs <-- ExitPool_proofs, Prober_proofs, RotateLoop_proofs,
                                       Refill_proofs, Probes_proofs
PoolRuntime, Subscriptions <-- PoolRuntime_proofs
Sidecar, Catalog           <-- Sidecar_proofs
```

- **ExitPoolOps**: every method of class `ExitPool` as an operator from a pool
  value to a pool value. A JS `Map` is a function over the keys it holds, so a
  deleted entry really is absent. A caller that makes several calls without an
  `await` composes operators in one action.
- **ExitPool**: the methods as actions in any order, with a clock. `Spec` holds the
  calls the plugin makes, `ApiSpec` the public methods without a caller as well
  (`remove` by a user, `markDead`, `unpin`, `markStreamFailure`). What is said of
  automation alone, `OnlyFreeEvicted`, is a property of `Spec`, where no call of a user
  removes anything: every way out of the table is a strike or an eviction.
- **ExitDirectory**: the abstract specification: entries, their exit IPs, session
  bindings and the primary exit. The mapping keeps `#nodes`' exit IPs,
  `#sessionExit` and `pinnedId`, and hides health, bans, locks and time.
- **Prober**: one action per method; the `pump` each method ends with is part of
  it. `pump`'s search for the first runnable task, repeated until none is found, is
  one declarative choice (`Starts`): a task starts exactly when, given those that
  started before it, a slot is free and its lock is.
- **Dispatcher**: `dispatch` and one action per undici callback, composed with the
  turns by RotateLoop, whose run checks the properties of both. undici itself is
  external; its callbacks may come in any order its protocol allows, fail at any
  point, or stay away. Requests to hosts that are not proxied bypass everything and
  are left out.
- **RotateLoop** extends Dispatcher: the attempts of a turn are the dispatcher's
  requests, so an attempt the loop has given up is a request that still runs and
  still signals. The text classification of errors is a nondeterministic choice
  among its outcomes for the status.
- **Refill**: `Start` and `Stop` of schedulers, the round in its phases, and the
  prober's tasks as "any queued task, while a worker is free". The lists a round still
  has to fetch are places in `freeSources`, of which `IsNext` takes the fast ones
  first. The other writers of the pool are subscription tasks, dead strikes and the settings.
- **AgentProcess**: calls and node events. A child is a number; a process has the
  operating system's status next to the listeners the code holds on it. Both kinds
  of end matter: `exitCode` is set for one and stays `null` for the other.
- **Sidecar** extends AgentProcess: `startOnce`, `refreshModels` and `teardown`.
- **PoolRuntime**: the controller's commits; the assembly of a runtime, in three actions:
  its start (`Commit`), its end with the controller keeping it (`Assembled`), and the
  `.then` of the commit that began it (`Reconfigures`). Other assemblies come between
  the last two, so a commit may reconfigure the runtime of another with its own value.
  `applyConfig` and `reconfigure` are operators that an action composes (`Applied`,
  `SchedulersAfter`, `Routed`), and so is the installer, on the host's globals (`Install`,
  `Disable`). Rounds and smokes are reduced to the exits they land. Another dispatcher
  plugin comes while nothing routes, also onto a router left behind, and goes again.
  `SetterReturns` says whether `setGlobalDispatcher` returns what it replaces: FALSE in
  the runs, as for the undici the plugin imports (`ip-pool.ts:145`); the theorems hold for both.
- **Probes**: one probe after the other of the exits in the pool, each with its
  queue, its lock, and one action per await of the admission chain (`EchoAnswers`,
  `ModelsAnswers`, `SmokeAnswers`, `StepFails`). A task keeps the node it read when
  it was enqueued (`entry`), which is what it writes back (`Admit`). Refills, the
  user's exits and real requests change the pool meanwhile.
- **SingBox**: the supervisor as a value and its methods as operators; a stop that
  waits is a record with its phase, its child and whether it still can hear the
  exit. What a promise continues with at once is part of the step that settles it
  (`SpawnNext`). **Subscriptions** extends it with the refresh, phase by phase.
- **Catalog**: each refresh has two halves, upstream's list and the metadata, that
  settle independently; the cache file is state that survives `Restart`. `Vouched`
  is written independently of `Decide` and `Allowed`, as the reference for them.
- **Plugin**: the entry's choice. `apply` creates the sidecar or the adapter's catalog,
  never both, so a behaviour has one `mode`, in which one part steps and the other keeps
  its initial state. Each step of `PluginSpec` is one of `Sidecar` or a stutter, and the
  same goes for `Catalog`, so their theorems, all of safety, hold of it.
- **MC…**: values for the constants of the runs. Definitions marked *Slip* are
  variants with a plausible bug, used to see that each property can fail.

Abstractions throughout: addresses, models, sessions, requests are model values;
latencies are a few numbers that fall in different grades or the same one; HTTP
statuses are the five classes `recordPassive` distinguishes; time is a small
counter, and only its order against deadlines matters; logging, display fields,
and the values of progress and diagnostics counters are left out.

## 3. The runs

### Runs that hold

| Run | Instance | What it shows |
|---|---|---|
| `pool` | `ApiSpec`, 2 symmetric exits, sources free and manual, 1 exit IP, 1 session, 1 model | any sequence of calls: one address per exit IP (`OneAddressPerExitIP`), `pick` returns one that serves or there is none (`PickServesOrNoneCan`), sessions stay while served (`SessionStaysWhileServed`), and each call is a step of `ExitDirectory` or a stutter (`ImplementsDirectory`) |
| `health` | `Spec`, 1 exit of any source, 2 models, clock to 3 | cooldowns and bans follow the runs of signals, across expiry and the backoff's ceiling; strikes, evictions and passive signals in any order: an exit that leaves the table is a free one (`OnlyFreeEvicted`), whichever call takes it out |
| `prober` | 4 tasks, 2 on a steady exit, 2 on one that comes and goes; limit 0..2; 1 waiter | serial probes, no leaked lock, no head-of-line blocking, every task settles and `drained` resolves |
| `turns` | one turn of up to three requests (`MaxRotates` 2, `MaxAttempts` 1) over a pinned manual exit, a free one, and one no agent can be built for; cache of 1 | bounded requests, order and cache agree, one signal per request, failures leave their exit, silence is broken by the sentinel, no replay after content, every turn ends |
| `plugin` | either mode of the entry. Sidecar: up to 4 children, breaker at 3, both kinds of exit, teardown at any time. Adapter: 3 models (verified, free by name, known as broken), 3 answers of metadata, 2 refreshes in flight, 2 startup retries, crashes at any step | sidecar: one live child, a live port, one restart timer, nothing left behind a finished dispose, every crash answered; adapter: the offer is what `Vouched` allows, metadata counts once something was learned, no interval after a stop, `start()` ends |
| `refill` | two overlapping lists that fail and answer, 3 addresses with 2 exit IPs, one of them subscribed, 2 workers, a capacity of 1 that grows to 2 | breaker, capacity, no churn of a satisfied pool, every round ends |
| `runtime` | up to 2 runtimes that commits assemble in parallel, 4 commits of 3 settings, 4 refill loops, another dispatcher plugin, undici's setter | one router at most, and it is the one in the slot (`ExclusiveRouting`); the global `fetch` is the module's exactly while something routes (`FetchFollowsRouting`); a refill loop runs exactly when the settings ask for it; no commit, assembly, reconfigure or admission leaves an enabled runtime with configured or refilled exits unrouted on a slot of the host's (`FreeSlotTaken`) |
| `probes` | 2 exits that join as free, manual or subscribed (one with a pinned entry), 2 probes of each, 2 models, 3 echoes (good, slow, geo-blocked), capacity 1, a request that answers or breaks | exit IPs stay unique although they are written late, a free exit is alive only after an answer, unless a probe read it when it was the user's own (`FreeServesOnSuccess`), what is known of a trusted exit is not lost to a failure (`MeasuredStays`), every probe ends and frees its lock |
| `subscriptions` | 2 URLs with bodies of no node, one node, or one after a skipped one; a plaintext node; 2 children that exit at any time or ignore the first signal; disposal at any time | a truthful `running`, one child at a time, each smoke reaches the node it is for, every refresh ends |

Why the bounds are enough. The pool's operators treat each exit and each pairing
alike, and every invariant speaks of at most two exits, so two exits (one that
changes, one that must not) show every interaction; `health` needs one exit but two
models, because a success for one model ends the cooldown of the exit and only its
own ban. Its exit may be of any source, so that every strike and eviction meets one of
each kind; that they spare the other exits of a larger table is `OwnExitsStay`. `DeadEvictions` and `FailThreshold` are two, and so is `BanConfirmations` in `health`
and `turns`, so that both the value below and the value at the threshold
occur; in `probes` alone one strike evicts, because what counts there is which exit is gone when a
late probe writes, not how many strikes it took; `CooldownMax` is not a power of two times the base, so that the
ceiling cuts a doubled wait. The prober's limit of two with two tasks per exit is
the smallest instance with a skipped task and one behind it. Two requests are
enough for the dispatcher because a signal involves one request and one session
whose exit another request may have changed; a turn has them when it gives up an
attempt. In `runtime` two runtimes are enough because a third adds no slot
and no owner to the two; four commits are off, on, off and on again. In `probes` two
probes of one exit overlap with what the first has read and written, two models
are a first and a last one, and the capacity of one makes every refill an
eviction. In `subscriptions` the second child is the one a reload competes with.
Two refreshes of the catalog in `plugin` are any overlap there is; more would only repeat it. In `refill` a cooldown outlasts the
run: with a shorter one a pool can become satisfied between gate and landing (see
below). In `pool` the clock stands still and cooldowns do not lapse; `health`,
`turns` and the theorems cover lapsing. `WithinBounds`, `MaxFails`, `MaxStrikes`,
`MaxClock`, `MaxSpawns`, `MaxRuntimes`, `MaxSchedulers`, `MaxRouters`, `MaxCommits`,
`MaxProbes`, `MaxTasks`, `MaxJoins`, `MaxSignals`, `MaxChildren` are the named caps on
unbounded counters.

`CHECK_DEADLOCK FALSE` is set where the system may stop: all requests over, all
turns ended, the agent or the fetcher disposed of, or a bound reached (`Refill`,
`PoolRuntime`, `Probes`, `Subscriptions`).

### Fairness

- `Prober`: `Settle` is weakly fair because every fetch of a probe has a timeout
  (`pool/admission.ts`); a woken waiter continues because its promise has resolved.
  Nothing is assumed of `Enqueue` or of the other users of the pool.
- `Dispatcher`: only `SentinelFires`, an armed `setTimeout`. undici owes nothing.
- `RotateLoop`: also `Send`, `Watchdog` and `BodyEnds`: the consumer pulls the
  generator, and each pull races a deadline.
- `Refill`: a round's steps: fetches, screens and probes have timeouts, and
  a worker loop goes on after each.
- `Sidecar`: timers, the handshake's timeout, and the end of a process that got the
  kill signal. A `SIGTERM` alone need not have any effect, and READY need not come.

- `Probes`: `StartTask`, the scheduler's promise (`TasksSettle`), and each request of
  the chain, which has a timeout (`admission.ts:146-160`). The body of the echo is read
  outside it (`86`); that it ends is assumed.
- `Subscriptions`: the interval, a fetch (aborted after its timeout), the check and the
  wait for the ports (a deadline), the smokes, the grace timer, and the end of a
  child that got the second signal. A crash and the first signal are nobody's duty.
- `Catalog`: requests and file operations settle, and the retry timer fires.
  `withTimeout` (`catalog.ts:377-385`) aborts nothing, since its signal is handed to no
  request; that a request settles rests on the timeouts of the `fetch` in use.
- `Plugin` has the fairness of `Sidecar` and of `Catalog`, each in its mode.
- `PoolRuntime` has safety properties only.

### Runs that show a disagreement

| Run | Property | What happens |
|---|---|---|
| `region` | `RegionBanned` | `rotate.ts:68-92` bans the exit of the session, but the dispatcher has dropped the session when the 403's headers came (`dispatcher.ts:252`), so nothing is banned |
| `restored` | `HostRestored` | `install` remembers the replaced dispatcher only if the setter returns it (`installer.ts:109-111`); undici's returns nothing, so after a switch-off the destroyed router stays in the slot (`141-152`), although the log says that the previous one was restored |
| `killed` | `ChildComesBack` | nobody restarts a sing-box child (`singbox.ts:371-376`), and after an end by a signal the next reload waits for ever in its `stop()` (`407`, `422-434`), with it the refresh and all later ones |

Each of these properties is one a comment or document states; the findings quote it.

### Other disagreements met while modelling

The models contain these behaviours; no run is spent on them. Where a property is
named it is defined at the end of its module, and TLC refutes it within seconds when
it is listed in the configuration of that module's run.

- `SubscribedStaysSubscribed` (Refill): a round overwrites an exit that a subscription
  delivered after the round took its set of known addresses (`refill.ts:165`,
  `262-270`); it becomes a free one, which may be evicted, against `docs/ip-pool.md:340`.
- `StopReturns` (Sidecar): after an end by a signal `exitCode` is null, and `stop()` waits
  for an `exit` event that has already been (`agent-process.ts:214`, `236-246`).
- `RouteRecovers` (Sidecar): after an automatic restart the route keeps the port of the
  first handshake (`index.ts:191`), against `docs/plan.md:88`.
- `NoOrphan` (Sidecar): a teardown during the awaits of `startOnce` finds no agent; the one
  started afterwards stays (`index.ts:214-232`, `258`), against `index.ts:243-244`.
- `OneRuntime` (PoolRuntime): `apply.ts:92` says "assemble on first enable", but commits
  during the assembly each start another (`93-96`); the runtimes that lose the race are
  never disposed of, and neither is one that a teardown overtakes (`181-182`).
- `OffMeansDirect` (PoolRuntime): `docs/ip-pool.md:487` and `apply.ts:9-10` promise a live switch; an
  "off" during the assembly is lost, because there is no runtime to reconfigure yet and
  the assembly ends with the value that began it (`apply.ts:105-118`).
- `DefersToOthers` (PoolRuntime): a runtime defers to other plugins only, says
  `installer.ts:33-35`. The destroyed router that a switch-off leaves in the slot is of
  our class, which counts as another plugin's (`84-96`): switched on again, the runtime
  defers to it for ever, and routing is back only after a restart.
- With `SetterReturns = TRUE` TLC finds neither `HostRestored` nor `DefersToOthers` violated:
  a setter that returns the replaced dispatcher is what `installer.ts` counts on, and
  what its unit test fakes (`test/dispatcher.test.ts:159-164`).
- The admission of subscribed exits does not engage routing (`ip-pool.ts:239-248`); it waits
  for a refill or a commit, so `Idle` does not count them. A runtime that deferred does not
  notice that the slot is free again before one of those comes (`357-360`), which is why
  `FreeSlotTaken` speaks of what such a step leaves behind. URLs that are all removed stay
  fetched (`194`).
- `AddressMeansNode` (Subscriptions): ports are numbered by index on every reload
  (`singbox.ts:234-238`), so an address in the pool may lead to another node than the one
  it was admitted for, with the health of the old one.
- `KnownFactsSurvive` (Probes): `admission.ts:316-319` says a failed smoke wipes no known
  exit IP. The facts are those read at enqueue: when the first model of a probe
  measures an exit and the second fails, the measurement is wiped. `MeasuredStays`
  states what does hold.
- `FreeAnswered` (Probes): a free exit can be alive without an answer, which is why
  `FreeServesOnSuccess` has its exception. An old probe read e1 as free; e1 is then
  subscribed and a newer probe reads it as trusted; the old one writes it back as free
  with another exit IP. When the newer one fails, `pool.add` refuses the node it read,
  since e2 has its exit IP by now, and `markOk` is called all the same
  (`ip-pool.ts:287-289`).
- `RevivedByAnswer` (Probes): `docs/ip-pool.md:340` brings a dead trusted exit back at the
  next successful probe; a failed one does too, since it is admitted with its old facts
  and marked ok (`admission.ts:325-343`, `ip-pool.ts:285-289`).
- `admission.ts:13-15` says trusted exits run the smoke only; `admitTrusted` runs the whole
  chain (`325`).
- A probe that ends after its free exit was evicted puts it back without asking for the
  capacity (`ip-pool.ts:287`).
- A fetcher disposed of during a reload leaves the child that this reload starts
  (`subscription-fetcher.ts:111-118`, `singbox.ts:359-360`); `OneChildServes` speaks of the
  time before.
- A cache read while the network answered replaces the newer metadata
  (`catalog.ts:304-308`), and of two refreshes the older answer may land last (`284`, `299`);
  `OffersOnlyVouched` holds of whichever is kept. The daily refresh of the metadata that the comment at `244`
  mentions does not exist; both halves refresh together.

- `pool.ts:152` drops a node "entirely", but a transport failure that evicts it
  writes its counters again (`325-326`).
- `pool.ts:47` calls dead strikes consecutive; a 429 between two strikes revives the
  exit without clearing them (`226-232`).
- `docs/ip-pool.md:330` counts an exit as usable unless it is banned for all models;
  `pool.ts:415-425` counts it out as soon as its only recorded pairing is a ban.
- `prober.ts:5-8` promises strictly serial probes per exit; an exit outside the pool
  has no lock (`126-131`), and a strike releases the lock of a running probe.
  `SteadySerial` states what does hold. `drained()` serves one caller (`93-95`).
- A request that fails late drops its session's sticky exit even if the session has
  moved to a healthy one (`dispatcher.ts:252`, `261`), and a handler may get a second
  error after the sentinel's (`268-277`, `331-336`).
- `rotate.ts:98-99` says a restarted turn lands elsewhere; with a stream error that
  marked nothing, `pick` may return the same exit.
- `agent-process.ts`: a failed handshake during a restart is not retried (`113-117`,
  `195`); `start()` during a backoff can leave a timer that `dispose()` does not
  cancel (`192-193`, `222`). The plugin itself never calls `start()` then, which is
  why `OneRestartTimer` holds of `Sidecar`.
- `refill.ts:243-245` says the seats are never exceeded; the gate counts the seats of
  its own round only, and it is passed before the probe, so with a second scheduler,
  a lapsing cooldown or a lowered capacity surplus survivors do replace exits.
  `docs/ip-pool.md:338` lets a newcomer replace a worse exit; `refill.ts:269-270`
  evicts without comparing.

## 4. The proofs

Each theorem holds for all values of the constants that the named assumptions of the
modules allow (`ConstantsAssumption`, `BoundsAssumption`, `ProberAssumption`, ...): any
sets of exits, models, sessions, tasks, lists, and any limits, also those that cap the
counters. The assumptions give types, keep the null values apart from the others, and
exclude zero where the code has a positive default or clamps; `SidecarAssumption` says
that the plugin disposes of its agent in one place, `RotateAssumption` that the
requests of a turn have one session and one model.

| Module | Theorem | States, of `Spec` unless noted |
|---|---|---|
| `ExitPool_proofs` (of `ApiSpec`) | `TypeCorrect` | `[]TypeOK` |
| | `TableSound` | `[]HealthTracksTable`, `[]ReferencesLive`, `[]OneAddressPerExitIP` |
| | `CooldownSound`, `BansSound` | `[]CooldownFollowsRun`, `[]BansCountRefusals` |
| | `RoutingSound` | `[]PickServesOrNoneCan` |
| | `StickySound` | `SessionStaysWhileServed` |
| | `PoolImplementsDirectory` | `ImplementsDirectory`: the refinement of `ExitDirectory` |
| the same (of `Spec`) | `OwnExitsStay` | `OnlyFreeEvicted` |
| `Prober_proofs` | `SchedulerSound` | `[]ProberInv` |
| | `OneProbePerExit` | `[]SteadySerial` |
| `RotateLoop_proofs` (of `RotateSpec`) | `TurnsSound` | `[]TurnInv` |
| | `ContentIsFinal` | `NeverReplayed` |
| | `OneVerdictPerRequest`, `FailureMovesOn` | `OneSignalPerRequest`, `FailureLeavesExit` |
| `Refill_proofs` | `RefillSound` | `[]RefillInv` |
| | `NoOverfill` | `CapacityKept` |
| | `NoChurn` | `SatisfiedPoolUnchurned`, if `Undisturbed` |
| `Probes_proofs` | `ProbesSound` | `[]ProbesInv` |
| | `AliveByAnswer`, `MeasurementsStay` | `[]FreeServesOnSuccess`, `MeasuredStays` |
| `PoolRuntime_proofs` | `OneRefillLoop` | `[]RuntimeInv` |
| | `OneRouter`, `FetchGetsBack` | `[]ExclusiveRouting`, `[]FetchFollowsRouting`, whatever the setter returns |
| | `FreeSlotEngages` | `FreeSlotTaken` |
| the same (of `FetcherSpec`) | `FetcherSound` | `[]SubscriptionsInv` |
| | `SmokesTheirNode` | `[]SmokeSeesItsNode` |
| `Sidecar_proofs` | `OneAgent` | `[](OneLiveChild /\ ReadyInfoLive)`, of `AgentSpec`: any caller, any number of stops |
| | `AgentSound`, `NoneLeftBehind` | `[]SidecarInv`, `[]DisposeLeavesNone` |
| the same (of `CatalogSpec`) | `CatalogSound`, `OfferSound` | `[]CatalogInv`, `[]OffersOnlyVouched` |
| | `StopIsFinal` | `[]NoTimerAfterStop` |

### The pool

`ExitPoolOps_proofs` has what all users of the pool share. `PoolInv` says of any pool
value and time `TableOK` (the types, and everything that ties nodes, health, sessions,
pin and exit IPs together) and `SignalsOK` (`CoolingOK` of each health record, `BanOK`
of each pairing). A lemma per kind of write (the health record, the ban, the sticky
session, the smaller fields) shows that `PoolInv` survives it under the conditions the
write needs; from those follow the lemmas about the methods (`AddKeeps`, `RemoveKeeps`,
`HealthMarksKeep`, `BanMarksKeep`, `StrikeKeeps`, `PassiveKeeps`, `PickKeeps`). The
`...Effect` lemmas say what a method may do to the nodes, to the locks (`Locked`) and to
the free exits that count as alive (`AliveFree`).

The parts need one another: `pick` binds sessions to members of the table only
because usability reads a health record and the table has one exactly for its nodes
(`PickInTable`); the ceiling of a cooldown follows from the bound by its own run of
429s, which is the form that survives the next doubling. `BackoffBounded` needs no
fact about powers: the operator takes the doubled wait only when it lies in
`1 .. CooldownMax`. Clock ticks keep `CoolingOK` because its bounds grow with the time.

`ExitPool_proofs` takes `PoolInv` of the pool and the clock as its invariant; one case
per action cites the lemmas. The action properties and the refinement share
`CallStep` and `StepEffect`: every call leaves what `ExitDirectory` sees alone, or is a join, a
departure, a binding, a release or a promotion; and of the calls of `Spec` the departures
are of free exits only (`CallEffect`), which is `OwnExitsStay`. `StickySound` then rests on `Bound`:
a session moves only when neither the pin nor its own exit serves.

### The components over the pool

Each has `PoolInv` in its inductive invariant, and one lemma per action.

- **Prober**: `SchedOK` (a task is queued once, queue and running tasks are disjoint, and
  locks and running tasks match both ways on steady exits), `Served` (a queued task
  of a free steady exit waits for a slot, the sharper form of "nobody queues behind
  another's lock") and the waiter of `drained`. `PumpKeeps` carries the proof: what a
  pump starts, together with what was running, gives `Served` again because it
  stopped at a full set of slots or found no free exit. Order in the queue is stated
  by an increasing map of places (`Leaves`), not by a recursive filter.
- **RotateLoop**: `DispatcherInv` (`OrderOK`: usage order and agents agree; `ObserverOK`:
  an observer that may still speak speaks of an exit) and `TurnsOK` (`AttemptOK`: only
  attempts up to the current one were sent). `AttemptOK` is what makes a send find
  its request unused, and with it the bound on requests. `FailureMovesOn` shows that
  the verdict lays the exit dormant (`FailureLaysDormant`) and that `pick` returns no
  dormant exit (`PicksAwake`), also when the exit is pinned.
- **Refill**: `PoolOK`, `BreakerOK` (`EntryOK`: an entry rests exactly when its run has
  reached the threshold) and `RoundsOK` (`RoundOK`: tasks are of survivors, and there
  are none before the screen). `NoOverfill` compares cardinalities across
  `RoomEffect` (a full pool drops one free exit) and `InsertEffect` (one joins).
  `NoChurn` needs `CalmInv`, whose core is `SeatsOK`: every seat a round has claimed
  and not landed yet is still wanted, because its quota is at most what the pool wants
  now plus the seats that have ended. An ended seat makes up for the one exit that
  joined (`EndsSeats`), and nothing else may satisfy the pool. `Undisturbed` says so:
  no second scheduler lands exits, no cooldown lapses (an exit would become available
  again), and no commit lowers the capacity. TLC refutes the property without any one
  of the three (see `refill.ts:243-245` above); the instance of run `refill` meets them.
- **Probes**: `LocksHeld`, `AliveAnswered` and `FactsMeasured`: whoever passed the echo has
  measured an exit IP. The last is what lets `MeasuredStays` follow from the node a
  pending probe read.
- **PoolRuntime**: `HostOK` (`RouterInSlot`: whoever routes has its router in the slot and the
  host's `fetch` in its field, and is alone; `HostFree`: otherwise the global `fetch` is the
  host's; `OtherOwns`: another plugin that has come owns the slot), `SchedulersOK` (a live
  runtime has exactly its refill loop), `ControllerLive`. Exclusion does not rest on what a
  disable puts back: `install` takes only a slot of the host's own dispatcher, and on such a
  slot nobody routes. The latter also gives `FreeSlotTaken`: who keeps phase, settings and
  exits over a step was idle before it (`IdleBefore`), and whoever the step configures,
  assembles or admits for takes the slot (`ReconfigureKeeps`, `AssembledKeeps`, `AdmitKeeps`).
  `Settled` lets one lemma serve both callers of `reconfigure`.
- **Subscriptions**: `BoxOK` of the supervisor (`Numbered`: children are counted up, so
  a new one was never seen before; `ReloadOK`: only a reload that stops the old child
  waits in its `stop()`; `UndisposedOK`: until the disposal nobody else calls `stop()`, and
  whoever runs is the current child or the one that the reload stops). One child at a
  time follows from the last, which survives a spawn because the reload gets there
  only when its `stop()` has settled. A lemma per operator of SingBox (`SpawnKeeps`,
  `ExitKeeps`, `PreparedKeeps`, `ForcedKeeps`, ...) carries it. `ReloadIsOurs` and `TasksOK` tie
  a smoke to the list that was converted; `ExitsLeadHome` then says that the rule of
  a port has the key of the exit's node, because the port is the place of the last
  node with that key. That there is a last one (`Largest`) comes from the
  well-foundedness of `<` on the naturals.
- **Sidecar**: `AgentInv` of the class (`InOrder`, `LiveOK`: a spawn finds nobody alive;
  `ReadyOK`) is inductive under any caller. For the plugin `TimersOK`, `CrashesOK`,
  `PreparingOK` and `StopOK` are added: a second restart timer needs a `start()` during a
  backoff, and `dispose` leaves no child because the call of `dispose` knows the only
  live one.
- **Catalog**: `CatalogInv` and `NoTimerAfterStop` are inductive together. An answer or a
  cache counts only when something can be learned from it (`Learned`), and
  `SettlingKeeps` shows that no half of a refresh touches the timer. `OfferSound`
  compares `Decide` with `Vouched`, its reference, verdict by verdict.

### Only model-checked

- All liveness: `TasksSettle`, `DrainedResolves`, `SilenceIsBroken`, `EveryTurnEnds`,
  `CrashAnswered`, `RoundEnds`, `ProbesEnd`, `RefreshEnds`, `StartEnds`. Fairness and
  ENABLED are outside the prover's reach.
- The three properties of the runs that show a disagreement, which are false.

What a recursive definition computes would need induction over an operator parameter,
which is outside the prover's reach too; the modules declare no RECURSIVE operator.

## 5. Not modelled

- The legacy Go agent: the TypeScript plugin replaced it; planned, see below.
- Settings that only travel from the page to a component (proxied hosts, countries,
  intervals, the path of the binary), and the copies of the admission deps that the
  refill loop and the fetcher get (`ip-pool.ts:197`, `217`).
- The status view, the trust check and the JSON plumbing of the bridge.
- Windows' `taskkill` branches: a process tree that ends by command, not by signal.
- Text parsing and conversion (proxy lists, subscription formats, messages, ids),
  configuration files, credentials: pure or plain I/O.
- The settings page: user interface.
- Refill's caps per list are a nondeterministic subset of its rows; inside a round,
  admission is its verdicts (Probes has its steps).

## 6. Plan

Order by weight. Extending the model:

1. `AnonymousPool`: the Go pool with its mutex, cooldowns and health marks
   (`legacy/internal/pool/pool.go`), and the gateway's retry over it.
2. Probes of exits and refill rounds in one module: a round that lands an exit while
   a probe of the same address is pending.
3. Pure parts over bounded inputs: stream event conversion, subscription formats.

Proving: every safety property of the runs that hold is a theorem,
`SatisfiedPoolUnchurned` under the conditions named above. What comes next are those of
the modules above, `AnonymousPool` first.
