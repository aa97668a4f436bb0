-------------------------- MODULE PoolRuntime_proofs --------------------------
(***************************************************************************)
(* Proofs about PoolRuntime, for any number of runtimes, schedulers,       *)
(* routers and commits, any exits and any settings; and about the          *)
(* subscriptions that fill its pool (Subscriptions), for any bodies of     *)
(* them, any number of URLs and children, and any ways a child may end.    *)
(***************************************************************************)
EXTENDS PoolRuntime, Subscriptions, FiniteSetTheorems, WellFoundedInduction, TLAPS

USE RuntimeAssumption DEF None

(***************************************************************************)
(* The inductive invariant.                                                *)
(***************************************************************************)
HostType == host \in [slot: Slot, fetch: {"builtin", "module"}] /\ other \in Slot \cup {None}

InstallerType == installer \in [Runtimes -> Installer]

\* Whoever routes has its router in the slot and the host's fetch in its
\* fields; nobody else routes.
RouterInSlot ==
  \A r \in Runtimes : Routing(r) =>
    /\ host.slot = installer[r].router /\ host.fetch = "module"
    /\ installer[r].savedFetch = "builtin"
    /\ \A q \in Runtimes \ {r} : ~Routing(q)

HostFree == (\A r \in Runtimes : ~Routing(r)) => host.fetch = "builtin"

OtherOwns == other # None => host.slot = otherPlugin

HostOK == HostType /\ InstallerType /\ RouterInSlot /\ HostFree /\ OtherOwns

Active(r) == {s \in Schedulers : scheduler[s].owner = r /\ ~scheduler[s].stopped}

\* A runtime owns the schedulers it created; only a live one has any running.
SchedulersOK ==
  /\ \A s \in Schedulers : scheduler[s].running => scheduler[s].owner # None
  /\ \A r \in Runtimes :
       /\ runtime[r].phase \in {"new", "assembling", "failed"} =>
            runtime[r].refill = None /\ Active(r) = {}
       /\ runtime[r].phase = "live" =>
            /\ runtime[r].refill = None <=> ~WantRefill(runtime[r].config)
            /\ Active(r) = {runtime[r].refill} \ {None}

ControllerLive == controller # None => runtime[controller].phase = "live"

IInv ==
  /\ TypeOK
  /\ HostOK
  /\ SchedulersOK
  /\ ControllerLive

LEMMA Owners ==
  /\ \A n \in Routers : n # None /\ n # hostAgent /\ n # otherPlugin
  /\ hostAgent # None /\ otherPlugin # None /\ hostAgent # otherPlugin
  /\ \A r \in Runtimes : r # None
  /\ \A s \in Schedulers : s # None
  BY DEF Routers, Runtimes, Schedulers

LEMMA InitIInv == Init => IInv
<1> SUFFICES ASSUME Init PROVE IInv
  OBVIOUS
<1>1. TypeOK
  <2> DEFINE first == [phase |-> "new", config |-> NoSetting, due |-> FALSE,
                       value |-> NoSetting, exits |-> {}, refill |-> None,
                       fetcher |-> "none", urls |-> {}]
  <2>1. NoSetting \in Setting
    BY DEF NoSetting, Setting
  <2>2. first \in Runtime
    BY <2>1 DEF Runtime
  <2>3. NewInstaller \in Installer
    BY DEF NewInstaller, Installer
  <2>4. runtime = [r \in Runtimes |-> first]
    BY DEF Init
  <2> HIDE DEF first
  <2>5. runtime \in [Runtimes -> Runtime] /\ installer \in [Runtimes -> Installer]
    BY <2>2, <2>3, <2>4 DEF Init
  <2>6. scheduler \in [Schedulers -> [owner: Runtimes \cup {None}, stopped: BOOLEAN,
                                      running: BOOLEAN]]
    BY DEF Init
  <2>7. host \in [slot: Slot, fetch: {"builtin", "module"}]
    BY DEF Init, Slot
  <2>8. /\ other = None /\ controller = None /\ delegate = None
        /\ settings = NoSetting /\ commits = 0 /\ gone = FALSE
    BY DEF Init
  <2>9. commits \in 0 .. MaxCommits
    BY <2>8
  <2> QED
    BY <2>1, <2>5, <2>6, <2>7, <2>8, <2>9 DEF TypeOK
<1>2. \A r \in Runtimes : ~Routing(r)
  BY DEF Init, Routing, Enabled, NewInstaller
<1>3. HostOK
  BY <1>1, <1>2, Owners DEF Init, TypeOK, HostOK, HostType, InstallerType, RouterInSlot,
                            HostFree, OtherOwns
<1>4. SchedulersOK
  BY Owners DEF Init, SchedulersOK, Active
<1> QED
  BY <1>1, <1>3, <1>4 DEF Init, IInv, ControllerLive

(***************************************************************************)
(* The installer of one runtime.                                           *)
(***************************************************************************)

\* The installers of the other runtimes stay as they are.
Elsewhere(r) == \A q \in Runtimes \ {r} : installer'[q] = installer[q]

LEMMA UnchangedHost ==
  ASSUME HostOK, NEW r \in Runtimes, Becomes(r, Current(r)), other' = other
  PROVE  HostOK' /\ UNCHANGED <<host, installer>>
<1>1. UNCHANGED <<host, installer>>
  BY DEF HostOK, InstallerType, Becomes, Current
<1> QED
  BY <1>1 DEF HostOK, HostType, InstallerType, RouterInSlot, HostFree, OtherOwns, Routing

LEMMA InstallStep ==
  ASSUME HostOK, NEW r \in Runtimes, NEW n \in Routers,
         Becomes(r, Install(Current(r), n)), other' = other
  PROVE  HostOK' /\ Elsewhere(r) /\ (host.slot = hostAgent => Routing(r)')
<1>0. installer \in [Runtimes -> Installer] /\ host \in [slot: Slot, fetch: {"builtin", "module"}]
  BY DEF HostOK, InstallerType, HostType
<1>1. CASE Routing(r)
  <2>1. Becomes(r, Current(r))
    BY <1>1 DEF Install, Current, Routing
  <2> QED
    BY <1>1, <2>1, UnchangedHost DEF Elsewhere, Routing
<1>2. CASE ~Routing(r) /\ host.slot # hostAgent
  <2>1. /\ host' = host
        /\ installer' = [installer EXCEPT ![r] = [installer[r] EXCEPT !.deferred = TRUE]]
    BY <1>0, <1>2 DEF Install, Current, Routing, Foreign, Becomes
  <2>2. /\ installer' \in [Runtimes -> Installer] /\ Elsewhere(r)
        /\ installer'[r].router = installer[r].router
    <3> DEFINE new == [installer[r] EXCEPT !.deferred = TRUE]
    <3>1. new \in Installer /\ new.router = installer[r].router
      BY <1>0 DEF Installer
    <3> HIDE DEF new
    <3> QED
      BY <1>0, <2>1, <3>1 DEF Elsewhere, new
  <2>3. \A q \in Runtimes : Routing(q)' <=> Routing(q)
    BY <2>2 DEF Routing, Enabled, Elsewhere
  <2>4. RouterInSlot'
    BY <1>2, <2>1, <2>2, <2>3 DEF HostOK, RouterInSlot, Elsewhere
  <2> QED
    BY <1>2, <2>1, <2>2, <2>3, <2>4 DEF HostOK, HostType, InstallerType, HostFree, OtherOwns
<1>3. CASE ~Routing(r) /\ host.slot = hostAgent
  <2>1. \A q \in Runtimes : ~Routing(q)
    <3>1. \A q \in Runtimes : Routing(q) => installer[q].router \in Routers
      BY <1>0 DEF Routing, Enabled, Installer
    <3> QED
      BY <1>3, <3>1, Owners DEF HostOK, RouterInSlot
  <2>2. host.fetch = "builtin" /\ other = None
    BY <1>3, <2>1, Owners DEF HostOK, HostFree, OtherOwns
  <2> DEFINE inst == [router |-> n,
                      previous |-> IF SetterReturns THEN hostAgent ELSE installer[r].previous,
                      savedFetch |-> "builtin", deferred |-> FALSE]
  <2>3. /\ host' = [slot |-> n, fetch |-> "module"]
        /\ installer' = [installer EXCEPT ![r] = inst]
    BY <1>0, <1>3, <2>2 DEF Install, Current, Routing, Foreign, Becomes
  <2>4. inst \in Installer
    BY <1>0 DEF Installer, Slot
  <2>5. /\ installer' \in [Runtimes -> Installer] /\ Elsewhere(r) /\ installer'[r] = inst
    BY <1>0, <2>3, <2>4 DEF Elsewhere
  <2>6. Routing(r)' /\ \A q \in Runtimes \ {r} : ~Routing(q)'
    BY <2>1, <2>5, Owners DEF Routing, Enabled, Elsewhere
  <2>7. RouterInSlot' /\ HostFree' /\ OtherOwns'
    BY <2>2, <2>3, <2>5, <2>6 DEF RouterInSlot, HostFree, OtherOwns
  <2> QED
    BY <2>2, <2>3, <2>5, <2>6, <2>7 DEF HostOK, HostType, InstallerType, Slot
<1> QED
  BY <1>1, <1>2, <1>3

LEMMA DisableStep ==
  ASSUME HostOK, NEW r \in Runtimes, Becomes(r, Disable(Current(r))), other' = other
  PROVE  HostOK' /\ Elsewhere(r)
<1>0. installer \in [Runtimes -> Installer] /\ host \in [slot: Slot, fetch: {"builtin", "module"}]
  BY DEF HostOK, InstallerType, HostType
<1>1. CASE ~Routing(r)
  <2>1. Becomes(r, Current(r))
    BY <1>1 DEF Disable, Current, Routing
  <2> QED
    BY <2>1, UnchangedHost DEF Elsewhere
<1>2. CASE Routing(r)
  <2> DEFINE inst == [NewInstaller EXCEPT !.deferred = installer[r].deferred]
  <2>1. /\ installer[r].savedFetch = "builtin" /\ host.slot = installer[r].router
        /\ \A q \in Runtimes \ {r} : ~Routing(q)
    BY <1>2 DEF HostOK, RouterInSlot
  <2>2. other = None
    <3>1. host.slot \in Routers
      BY <1>0, <1>2, <2>1 DEF Routing, Enabled, Installer
    <3> QED
      BY <3>1, Owners DEF HostOK, OtherOwns
  <2>3. /\ host'.slot = IF installer[r].previous # None THEN installer[r].previous ELSE host.slot
        /\ host'.fetch = "builtin" /\ host' \in [slot: Slot, fetch: {"builtin", "module"}]
        /\ installer' = [installer EXCEPT ![r] = inst]
    BY <1>0, <1>2, <2>1 DEF Disable, Current, Routing, Becomes, Installer
  <2>4. inst \in Installer /\ inst.router = None
    BY <1>0 DEF Installer, NewInstaller
  <2> HIDE DEF inst
  <2>5. installer' \in [Runtimes -> Installer] /\ Elsewhere(r) /\ ~Routing(r)'
    BY <1>0, <2>3, <2>4 DEF Elsewhere, Routing, Enabled
  <2>6. \A q \in Runtimes : ~Routing(q)'
    BY <2>1, <2>5 DEF Elsewhere, Routing
  <2> QED
    BY <2>2, <2>3, <2>5, <2>6, Owners
       DEF HostOK, HostType, InstallerType, RouterInSlot, HostFree, OtherOwns
<1> QED
  BY <1>1, <1>2

\* reconfigure: an occupied pool that is switched on takes a slot of the host's.
LEMMA RoutedStep ==
  ASSUME HostOK, NEW r \in Runtimes, NEW n \in Routers, NEW v, NEW exits,
         Becomes(r, Routed(Current(r), v, exits, n)), other' = other
  PROVE  /\ HostOK' /\ Elsewhere(r)
         /\ v.enabled /\ exits # {} /\ host.slot = hostAgent => Routing(r)'
<1>1. CASE ~v.enabled
  BY <1>1, DisableStep DEF Routed
<1>2. CASE v.enabled /\ exits # {}
  BY <1>2, InstallStep DEF Routed, InstallIf
<1>3. CASE v.enabled /\ exits = {}
  BY <1>3, UnchangedHost DEF Routed, InstallIf, Elsewhere
<1> QED
  BY <1>1, <1>2, <1>3

(***************************************************************************)
(* The refill loops of one runtime.                                        *)
(***************************************************************************)
SchedulerType ==
  scheduler \in [Schedulers -> [owner: Runtimes \cup {None}, stopped: BOOLEAN, running: BOOLEAN]]

\* The settings v are applied to a runtime whose state is rt and whose refill
\* loop is the one it says: the new state and the new loops agree again.
LEMMA AppliedStep ==
  ASSUME SchedulerType, NEW r \in Runtimes, NEW s \in Schedulers, FreshScheduler(s),
         NEW rt \in Runtime, Active(r) = {rt.refill} \ {None},
         \A u \in Schedulers : scheduler[u].running => scheduler[u].owner # None,
         NEW v \in Setting, scheduler' = SchedulersAfter(rt, r, v, s)
  PROVE  /\ SchedulerType'
         /\ \A u \in Schedulers : scheduler'[u].running => scheduler'[u].owner # None
         /\ \A q \in Runtimes \ {r} : Active(q)' = Active(q)
         /\ LET new == Applied(rt, v, s)
            IN  /\ new \in Runtime
                /\ new.config = v /\ new.phase = rt.phase /\ new.exits = rt.exits
                /\ new.refill = None <=> ~WantRefill(v)
                /\ Active(r)' = {new.refill} \ {None}
<1> DEFINE new == Applied(rt, v, s)
           loop == [owner |-> r, stopped |-> FALSE, running |-> TRUE]
<1>1. /\ new \in Runtime
      /\ new.config = v /\ new.phase = rt.phase /\ new.exits = rt.exits
      /\ new.refill = IF ~WantRefill(v) THEN None ELSE IF rt.refill = None THEN s ELSE rt.refill
  BY DEF Applied, Runtime, Setting
<1>2. scheduler[s].owner = None
  BY DEF FreshScheduler
<1> HIDE DEF new
<1>3. CASE WantRefill(v) /\ rt.refill = None
  <2>1. scheduler' = [scheduler EXCEPT ![s] = loop]
    BY <1>3 DEF SchedulersAfter
  <2>2. SchedulerType' /\ scheduler'[s] = loop
        /\ \A u \in Schedulers \ {s} : scheduler'[u] = scheduler[u]
    BY <2>1 DEF SchedulerType
  <2>3. Active(r)' = {s} /\ \A q \in Runtimes \ {r} : Active(q)' = Active(q)
    BY <1>2, <1>3, <2>2, Owners DEF Active
  <2> QED
    BY <1>1, <1>3, <2>2, <2>3, Owners DEF new
<1>4. CASE ~WantRefill(v) /\ rt.refill # None
  <2>1. rt.refill \in Schedulers
    BY <1>4 DEF Runtime
  <2>2. scheduler' = [scheduler EXCEPT ![rt.refill].stopped = TRUE]
    BY <1>4 DEF SchedulersAfter
  <2>3. /\ SchedulerType' /\ scheduler'[rt.refill].stopped
        /\ \A u \in Schedulers : /\ scheduler'[u].owner = scheduler[u].owner
                                 /\ scheduler'[u].running = scheduler[u].running
        /\ \A u \in Schedulers \ {rt.refill} : scheduler'[u] = scheduler[u]
    <3> DEFINE h == [scheduler[rt.refill] EXCEPT !.stopped = TRUE]
    <3>1. scheduler' = [scheduler EXCEPT ![rt.refill] = h]
      BY <2>2
    <3>2. /\ h \in [owner: Runtimes \cup {None}, stopped: BOOLEAN, running: BOOLEAN]
          /\ h.stopped /\ h.owner = scheduler[rt.refill].owner
          /\ h.running = scheduler[rt.refill].running
      BY <2>1 DEF SchedulerType
    <3> HIDE DEF h
    <3> QED
      BY <2>1, <3>1, <3>2 DEF SchedulerType
  <2>4. scheduler[rt.refill].owner = r
    BY <1>4, <2>1 DEF Active
  <2>5. Active(r)' = {} /\ \A q \in Runtimes \ {r} : Active(q)' = Active(q)
    BY <2>3, <2>4 DEF Active
  <2> QED
    BY <1>1, <1>4, <2>3, <2>5 DEF new
<1>5. CASE WantRefill(v) <=> rt.refill # None
  <2>1. scheduler' = scheduler
    BY <1>5 DEF SchedulersAfter
  <2>2. new.refill = rt.refill
    BY <1>1, <1>5
  <2> QED
    BY <1>1, <1>5, <2>1, <2>2 DEF SchedulerType, Active, new
<1> QED
  BY <1>3, <1>4, <1>5

(***************************************************************************)
(* The invariant is inductive.                                             *)
(***************************************************************************)
\* Runtimes that differ from the present ones at most in what they still owe.
Settled(rts) ==
  /\ rts \in [Runtimes -> Runtime]
  /\ \A q \in Runtimes : /\ rts[q].phase = runtime[q].phase /\ rts[q].config = runtime[q].config
                         /\ rts[q].exits = runtime[q].exits /\ rts[q].refill = runtime[q].refill

LEMMA ReconfigureKeeps ==
  ASSUME IInv, NEW rts, Settled(rts), NEW r \in Runtimes, r = controller, NEW v \in Setting,
         Reconfigure(rts, r, v), UNCHANGED <<other, controller, gone>>,
         settings' \in Setting, commits' \in 0 .. MaxCommits
  PROVE  /\ IInv' /\ Elsewhere(r)
         /\ v.enabled /\ runtime[r].exits # {} /\ host.slot = hostAgent => Routing(r)'
         /\ runtime'[r].config = v /\ runtime'[r].exits = runtime[r].exits
         /\ \A q \in Runtimes \ {r} : runtime'[q] = rts[q]
<1>1. PICK s \in Schedulers, n \in Routers :
        /\ FreshScheduler(s) /\ FreshRouter(n)
        /\ runtime' = [rts EXCEPT ![r] = Applied(rts[r], v, s)]
        /\ scheduler' = SchedulersAfter(rts[r], r, v, s)
        /\ Becomes(r, Routed(Current(r), v, rts[r].exits, n))
        /\ delegate' = r
  BY DEF Reconfigure
<1> DEFINE new == Applied(rts[r], v, s)
<1>2. /\ rts[r].phase = "live" /\ rts[r] \in Runtime /\ SchedulerType
      /\ rts[r].exits = runtime[r].exits
      /\ Active(r) = {rts[r].refill} \ {None}
  BY Owners DEF Settled, IInv, ControllerLive, TypeOK, SchedulersOK, SchedulerType
<1>3. /\ SchedulerType'
      /\ \A u \in Schedulers : scheduler'[u].running => scheduler'[u].owner # None
      /\ \A q \in Runtimes \ {r} : Active(q)' = Active(q)
      /\ new \in Runtime /\ new.config = v /\ new.phase = "live" /\ new.exits = runtime[r].exits
      /\ new.refill = None <=> ~WantRefill(v)
      /\ Active(r)' = {new.refill} \ {None}
  BY <1>1, <1>2, AppliedStep DEF IInv, SchedulersOK
<1>4. /\ HostOK' /\ Elsewhere(r)
      /\ v.enabled /\ runtime[r].exits # {} /\ host.slot = hostAgent => Routing(r)'
  BY <1>1, <1>2, RoutedStep DEF IInv
<1> HIDE DEF new
<1>5. /\ runtime' \in [Runtimes -> Runtime] /\ runtime'[r] = new
      /\ \A q \in Runtimes \ {r} : runtime'[q] = rts[q]
  BY <1>1, <1>3 DEF Settled, new
<1>6. TypeOK'
  BY <1>1, <1>3, <1>4, <1>5 DEF IInv, TypeOK, HostOK, HostType, InstallerType, SchedulerType
<1>7. SchedulersOK'
  BY <1>3, <1>5 DEF Settled, IInv, SchedulersOK
<1>8. ControllerLive'
  BY <1>3, <1>5 DEF IInv, ControllerLive
<1> QED
  BY <1>3, <1>4, <1>5, <1>6, <1>7, <1>8 DEF IInv

LEMMA CommitKeeps ==
  ASSUME IInv, NEW v \in Values, Commit(v)
  PROVE  IInv'
<1>1. /\ commits' \in 0 .. MaxCommits /\ settings' = v /\ v \in Setting
      /\ UNCHANGED <<other, controller, gone>>
  <2>1. /\ commits < MaxCommits /\ commits' = commits + 1 /\ settings' = v
        /\ UNCHANGED <<other, controller, gone>>
    BY DEF Commit
  <2> QED
    BY <2>1 DEF IInv, TypeOK
<1>2. CASE UNCHANGED <<host, runtime, installer, scheduler, delegate>>
  BY <1>1, <1>2 DEF IInv, TypeOK, HostOK, HostType, InstallerType, RouterInSlot, HostFree,
     OtherOwns, Routing, SchedulersOK, Active, ControllerLive
<1>3. ASSUME NEW r \in Runtimes, controller = None, runtime[r].phase = "new",
             runtime' = [runtime EXCEPT ![r].phase = "assembling", ![r].config = v, ![r].value = v],
             UNCHANGED <<host, installer, scheduler, delegate>>
      PROVE  IInv'
  <2>1. /\ runtime' \in [Runtimes -> Runtime]
        /\ \A q \in Runtimes \ {r} : runtime'[q] = runtime[q]
        /\ runtime'[r].phase = "assembling" /\ runtime'[r].refill = runtime[r].refill
    <3> DEFINE new == [runtime[r] EXCEPT !.phase = "assembling", !.config = v, !.value = v]
    <3>1. runtime' = [runtime EXCEPT ![r] = new]
      BY <1>3
    <3>2. new \in Runtime /\ new.phase = "assembling" /\ new.refill = runtime[r].refill
      <4>1. runtime[r] \in Runtime
        BY DEF IInv, TypeOK
      <4> QED
        BY ONLY <1>1, <4>1 DEF Runtime
    <3> HIDE DEF new
    <3> QED
      BY <3>1, <3>2 DEF IInv, TypeOK
  <2>2. TypeOK' /\ HostOK'
    BY <1>1, <1>3, <2>1 DEF IInv, TypeOK, HostOK, HostType, InstallerType, RouterInSlot,
       HostFree, OtherOwns, Routing
  <2>3. SchedulersOK'
    BY <1>3, <2>1 DEF IInv, SchedulersOK, Active
  <2>4. ControllerLive'
    BY <1>1, <1>3, <2>1 DEF IInv, ControllerLive
  <2> QED
    BY <2>2, <2>3, <2>4 DEF IInv
<1>4. CASE controller # None /\ Reconfigure(runtime, controller, v)
  <2>1. controller \in Runtimes /\ Settled(runtime)
    BY <1>4 DEF IInv, TypeOK, Settled
  <2> QED
    BY <1>1, <1>4, <2>1, ReconfigureKeeps
<1> QED
  BY <1>2, <1>3, <1>4 DEF Commit

\* The runtimes once that of r has nothing due.
Paid(r) == [runtime EXCEPT ![r].due = FALSE, ![r].value = NoSetting]

LEMMA PaidSettled ==
  ASSUME IInv, NEW r \in Runtimes
  PROVE  Settled(Paid(r)) /\ runtime[r].value \in Setting
<1> DEFINE new == [runtime[r] EXCEPT !.due = FALSE, !.value = NoSetting]
<1>1. runtime[r] \in Runtime /\ runtime \in [Runtimes -> Runtime]
  BY DEF IInv, TypeOK
<1>2. NoSetting \in Setting
  BY DEF NoSetting, Setting
<1>3. /\ new \in Runtime /\ new.phase = runtime[r].phase /\ new.config = runtime[r].config
      /\ new.exits = runtime[r].exits /\ new.refill = runtime[r].refill
  BY ONLY <1>1, <1>2 DEF Runtime
<1>4. Paid(r) = [runtime EXCEPT ![r] = new]
  BY DEF Paid
<1>5. runtime[r].value \in Setting
  BY ONLY <1>1 DEF Runtime
<1> HIDE DEF new
<1> QED
  BY <1>1, <1>3, <1>4, <1>5 DEF Settled

LEMMA ReconfiguresKeeps ==
  ASSUME IInv, NEW r \in Runtimes, Reconfigures(r)
  PROVE  IInv'
<1>1. /\ UNCHANGED <<other, settings, commits, controller, gone>>
      /\ settings' \in Setting /\ commits' \in 0 .. MaxCommits
  BY DEF Reconfigures, IInv, TypeOK
<1>2. Settled(Paid(r)) /\ runtime[r].value \in Setting
  BY PaidSettled
<1>3. CASE controller = None
  <2>1. runtime' = Paid(r) /\ UNCHANGED <<host, installer, scheduler, delegate>>
    BY <1>3 DEF Reconfigures, Paid
  <2> QED
    BY <1>1, <1>2, <2>1, <1>3 DEF Settled, IInv, TypeOK, HostOK, HostType, InstallerType,
       RouterInSlot, HostFree, OtherOwns, Routing, SchedulersOK, Active, ControllerLive
<1>4. CASE controller # None
  <2>1. controller \in Runtimes /\ Reconfigure(Paid(r), controller, runtime[r].value)
    BY <1>4 DEF Reconfigures, Paid, IInv, TypeOK
  <2> QED
    BY <1>1, <1>2, <2>1, ReconfigureKeeps
<1> QED
  BY <1>3, <1>4

LEMMA AssembledKeeps ==
  ASSUME IInv, NEW r \in Runtimes, Assembled(r)
  PROVE  /\ IInv' /\ Elsewhere(r)
         /\ runtime'[r].exits # {} /\ host.slot = hostAgent => Routing(r)'
         /\ \A q \in Runtimes \ {r} : runtime'[q] = runtime[q]
<1>1. /\ controller' = r /\ delegate' = r /\ UNCHANGED <<other, settings, commits, gone>>
      /\ runtime[r].phase = "assembling"
  BY DEF Assembled
<1> DEFINE rt == [runtime[r] EXCEPT !.phase = "live", !.due = TRUE,
                                    !.exits = runtime[r].config.manual]
<1>2. PICK s \in Schedulers, n \in Routers :
        /\ FreshScheduler(s) /\ FreshRouter(n)
        /\ runtime' = [runtime EXCEPT ![r] = Applied(rt, rt.config, s)]
        /\ scheduler' = SchedulersAfter(rt, r, rt.config, s)
        /\ Becomes(r, InstallIf(rt.exits # {}, Current(r), n))
  BY DEF Assembled
<1>3. /\ rt \in Runtime /\ rt.phase = "live" /\ rt.refill = None
      /\ rt.config \in Setting /\ Active(r) = {} /\ SchedulerType
  <2>1. runtime[r] \in Runtime /\ runtime[r].config.manual \in SUBSET Exits
    BY DEF IInv, TypeOK, Runtime, Setting, Exits
  <2>2. runtime[r].refill = None /\ Active(r) = {} /\ SchedulerType
    BY <1>1 DEF IInv, SchedulersOK, TypeOK, SchedulerType
  <2>3. /\ rt \in Runtime /\ rt.phase = "live" /\ rt.refill = runtime[r].refill
        /\ rt.config \in Setting
    BY <2>1 DEF Runtime
  <2> QED
    BY <2>2, <2>3
<1> HIDE DEF rt
<1> DEFINE new == Applied(rt, rt.config, s)
<1>4. Active(r) = {rt.refill} \ {None}
  BY <1>3
<1>5. /\ SchedulerType'
      /\ \A u \in Schedulers : scheduler'[u].running => scheduler'[u].owner # None
      /\ \A q \in Runtimes \ {r} : Active(q)' = Active(q)
      /\ new \in Runtime /\ new.phase = "live" /\ new.exits = rt.exits
      /\ new.refill = None <=> ~WantRefill(new.config)
      /\ Active(r)' = {new.refill} \ {None}
  BY <1>2, <1>3, <1>4, AppliedStep DEF IInv, SchedulersOK
<1>6. /\ HostOK' /\ Elsewhere(r)
      /\ rt.exits # {} /\ host.slot = hostAgent => Routing(r)'
  <2>1. CASE rt.exits # {}
    BY <1>1, <1>2, <2>1, InstallStep DEF InstallIf, IInv
  <2>2. CASE rt.exits = {}
    BY <1>1, <1>2, <2>2, UnchangedHost DEF InstallIf, Elsewhere, IInv
  <2> QED
    BY <2>1, <2>2
<1> HIDE DEF new
<1>7. /\ runtime' \in [Runtimes -> Runtime] /\ runtime'[r] = new
      /\ \A q \in Runtimes \ {r} : runtime'[q] = runtime[q]
  BY <1>2, <1>5 DEF IInv, TypeOK, new
<1>8. TypeOK'
  BY <1>1, <1>5, <1>6, <1>7 DEF IInv, TypeOK, HostOK, HostType, InstallerType, SchedulerType
<1>9. SchedulersOK'
  BY <1>5, <1>7 DEF IInv, SchedulersOK
<1>10. ControllerLive'
  BY <1>1, <1>5, <1>7 DEF IInv, ControllerLive
<1> QED
  BY <1>5, <1>6, <1>7, <1>8, <1>9, <1>10 DEF IInv

LEMMA DisposeKeeps == ASSUME IInv, Dispose PROVE IInv'
<1>1. gone' = TRUE /\ controller' = None /\ UNCHANGED <<other, settings, commits>>
  BY DEF Dispose
<1>2. CASE controller = None
  <2>1. UNCHANGED <<host, runtime, installer, scheduler, delegate>>
    BY <1>2 DEF Dispose
  <2> QED
    BY <1>1, <2>1 DEF IInv, TypeOK, HostOK, HostType, InstallerType, RouterInSlot, HostFree,
       OtherOwns, Routing, SchedulersOK, Active, ControllerLive
<1>3. CASE controller # None
  <2> DEFINE r   == controller
             new == [runtime[r] EXCEPT !.phase = "disposed",
                       !.fetcher = IF runtime[r].fetcher = "none" THEN "none" ELSE "stopped"]
  <2>1. r \in Runtimes /\ runtime[r].phase = "live" /\ runtime[r] \in Runtime
    BY <1>3 DEF IInv, TypeOK, ControllerLive
  <2>2. /\ runtime' = [runtime EXCEPT ![r] = new]
        /\ scheduler' = IF runtime[r].refill = None THEN scheduler
                        ELSE [scheduler EXCEPT ![runtime[r].refill].stopped = TRUE]
        /\ Becomes(r, Disable(Current(r))) /\ delegate' = None
    BY <1>3 DEF Dispose
  <2>3. new \in Runtime /\ new.phase = "disposed"
    BY <2>1 DEF Runtime
  <2>4. /\ runtime' \in [Runtimes -> Runtime] /\ runtime'[r].phase = "disposed"
        /\ \A q \in Runtimes \ {r} : runtime'[q] = runtime[q]
    <3> HIDE DEF new
    <3> QED
      BY <2>1, <2>2, <2>3 DEF IInv, TypeOK
  <2>5. HostOK' /\ Elsewhere(r)
    BY <1>1, <2>1, <2>2, DisableStep DEF IInv
  <2>6. /\ SchedulerType'
        /\ \A u \in Schedulers : scheduler'[u].running => scheduler'[u].owner # None
        /\ \A q \in Runtimes \ {r} : Active(q)' = Active(q)
    <3> DEFINE s == runtime[r].refill
               h == [scheduler[s] EXCEPT !.stopped = TRUE]
    <3>1. SchedulerType /\ \A u \in Schedulers : scheduler[u].running => scheduler[u].owner # None
      BY DEF IInv, TypeOK, SchedulerType, SchedulersOK
    <3>2. CASE s = None
      BY <2>2, <3>1, <3>2 DEF SchedulerType, Active
    <3>3. CASE s # None
      <4>1. s \in Schedulers /\ scheduler[s].owner = r
        BY <2>1, <3>3 DEF IInv, SchedulersOK, Active, Runtime
      <4>2. scheduler' = [scheduler EXCEPT ![s] = h]
        BY <2>2, <3>3
      <4>3. /\ h \in [owner: Runtimes \cup {None}, stopped: BOOLEAN, running: BOOLEAN]
            /\ h.stopped /\ h.owner = r /\ h.running = scheduler[s].running
        BY <3>1, <4>1 DEF SchedulerType
      <4> HIDE DEF h, s
      <4>4. /\ SchedulerType' /\ scheduler'[s] = h
            /\ \A u \in Schedulers \ {s} : scheduler'[u] = scheduler[u]
        BY <3>1, <4>1, <4>2, <4>3 DEF SchedulerType
      <4> QED
        BY <3>1, <4>1, <4>3, <4>4, <2>1, Owners DEF Active
    <3> QED
      BY <3>2, <3>3
  <2>7. TypeOK'
    BY <1>1, <2>2, <2>4, <2>5, <2>6 DEF IInv, TypeOK, HostOK, HostType, InstallerType,
                                        SchedulerType
  <2>8. SchedulersOK'
    BY <2>4, <2>6 DEF IInv, SchedulersOK
  <2>9. ControllerLive'
    BY <1>1, <2>4 DEF IInv, ControllerLive
  <2> QED
    BY <2>5, <2>7, <2>8, <2>9 DEF IInv
<1> QED
  BY <1>2, <1>3

\* A round that starts or ends leaves the owner and the stop of its loop alone.
LEMMA RoundKeeps ==
  ASSUME IInv, NEW s \in Schedulers, RoundStarts(s) \/ RoundEnds(s)
  PROVE  IInv'
<1> DEFINE on == ~scheduler[s].running
           h  == [scheduler[s] EXCEPT !.running = on]
<1>1. UNCHANGED <<host, other, settings, commits, controller, gone, runtime, installer, delegate>>
  BY DEF RoundStarts, RoundEnds
<1>2. scheduler[s] \in [owner: Runtimes \cup {None}, stopped: BOOLEAN, running: BOOLEAN]
  BY DEF IInv, TypeOK
<1>3. scheduler' = [scheduler EXCEPT ![s] = h]
  BY <1>2 DEF RoundStarts, RoundEnds
<1>4. /\ h \in [owner: Runtimes \cup {None}, stopped: BOOLEAN, running: BOOLEAN]
      /\ h.owner = scheduler[s].owner /\ h.stopped = scheduler[s].stopped
      /\ h.running => h.owner # None
  BY <1>2 DEF RoundStarts, RoundEnds
<1> HIDE DEF h
<1>5. /\ SchedulerType'
      /\ \A u \in Schedulers : /\ scheduler'[u].owner = scheduler[u].owner
                               /\ scheduler'[u].stopped = scheduler[u].stopped
                               /\ scheduler'[u].running => scheduler'[u].owner # None
  BY <1>3, <1>4 DEF IInv, TypeOK, SchedulersOK, SchedulerType
<1>6. \A r \in Runtimes : Active(r)' = Active(r)
  BY <1>5 DEF Active
<1>7. TypeOK' /\ HostOK'
  BY <1>1, <1>5 DEF IInv, TypeOK, SchedulerType, HostOK, HostType, InstallerType,
     RouterInSlot, HostFree, OtherOwns, Routing
<1>8. SchedulersOK'
  BY <1>1, <1>5, <1>6 DEF IInv, SchedulersOK
<1> QED
  BY <1>1, <1>7, <1>8 DEF IInv, ControllerLive

\* A step that changes at most the exits of one runtime, and its installer.
LEMMA ExitsKeep ==
  ASSUME IInv, NEW r \in Runtimes, NEW exits \in SUBSET Exits,
         runtime' = [runtime EXCEPT ![r].exits = exits],
         UNCHANGED <<other, settings, commits, controller, gone, scheduler, delegate>>,
         HostOK'
  PROVE  /\ IInv' /\ runtime'[r].exits = exits
         /\ runtime'[r].config = runtime[r].config /\ runtime'[r].phase = runtime[r].phase
         /\ \A q \in Runtimes \ {r} : runtime'[q] = runtime[q]
<1> DEFINE new == [runtime[r] EXCEPT !.exits = exits]
<1>1. runtime' = [runtime EXCEPT ![r] = new]
  OBVIOUS
<1>2. /\ new \in Runtime /\ new.exits = exits /\ new.phase = runtime[r].phase
      /\ new.config = runtime[r].config
      /\ new.refill = runtime[r].refill
  <2>1. runtime[r] \in Runtime
    BY DEF IInv, TypeOK
  <2> QED
    BY ONLY <2>1, exits \in SUBSET Exits DEF Runtime
<1> HIDE DEF new
<1>3. /\ runtime' \in [Runtimes -> Runtime] /\ runtime'[r] = new
      /\ \A q \in Runtimes \ {r} : runtime'[q] = runtime[q]
  BY <1>1, <1>2 DEF IInv, TypeOK
<1>4. TypeOK'
  BY <1>3 DEF IInv, TypeOK, HostOK, HostType, InstallerType
<1>5. SchedulersOK'
  BY <1>2, <1>3 DEF IInv, SchedulersOK, Active
<1>6. ControllerLive'
  BY <1>2, <1>3 DEF IInv, ControllerLive
<1> QED
  BY <1>2, <1>3, <1>4, <1>5, <1>6 DEF IInv

LEMMA AdmitKeeps ==
  ASSUME IInv, NEW s \in Schedulers, NEW e \in Free, RoundAdmits(s, e)
  PROVE  /\ IInv'
         /\ \E r \in Runtimes :
              /\ Elsewhere(r) /\ (host.slot = hostAgent => Routing(r)')
              /\ \A q \in Runtimes \ {r} : runtime'[q] = runtime[q]
<1>1. PICK r \in Runtimes : r = scheduler[s].owner
  BY DEF RoundAdmits, IInv, TypeOK, SchedulersOK
<1> DEFINE more == runtime[r].exits \cup {e}
<1>2. PICK n \in Routers :
        /\ runtime' = [runtime EXCEPT ![r].exits = more]
        /\ Becomes(r, Install(Current(r), n))
  BY <1>1 DEF RoundAdmits
<1>3. UNCHANGED <<other, settings, commits, controller, gone, scheduler, delegate>>
  BY DEF RoundAdmits
<1>4. more \in SUBSET Exits
  BY <1>1 DEF IInv, TypeOK, Runtime, Exits
<1>5. HostOK' /\ Elsewhere(r) /\ (host.slot = hostAgent => Routing(r)')
  BY <1>1, <1>2, <1>3, InstallStep DEF IInv
<1> HIDE DEF more
<1>6. IInv' /\ \A q \in Runtimes \ {r} : runtime'[q] = runtime[q]
  BY <1>1, <1>2, <1>3, <1>4, <1>5, ExitsKeep
<1> QED
  BY <1>1, <1>5, <1>6

\* Neither a smoke of a subscription nor an exit that leaves touches routing.
LEMMA PoolKeeps ==
  ASSUME IInv, NEW r \in Runtimes, NEW e \in Exits,
         (e \in Subscribed /\ SubscriptionAdmits(r, e)) \/ ExitLeaves(r, e)
  PROVE  /\ IInv' /\ UNCHANGED <<host, installer>>
         /\ \A q \in Runtimes :
              /\ runtime'[q].phase = runtime[q].phase /\ runtime'[q].config = runtime[q].config
              /\ runtime'[q].exits \ Subscribed \subseteq runtime[q].exits
<1>1. UNCHANGED <<host, other, settings, commits, controller, gone, installer, scheduler, delegate>>
  BY DEF SubscriptionAdmits, ExitLeaves
<1>2. HostOK'
  BY <1>1 DEF IInv, HostOK, HostType, InstallerType, RouterInSlot, HostFree, OtherOwns, Routing
<1>3. PICK exits \in SUBSET Exits :
        /\ runtime' = [runtime EXCEPT ![r].exits = exits]
        /\ exits \ Subscribed \subseteq runtime[r].exits
  <2>1. runtime[r].exits \in SUBSET Exits
    BY DEF IInv, TypeOK, Runtime
  <2>2. CASE e \in Subscribed /\ SubscriptionAdmits(r, e)
    <3> DEFINE more == runtime[r].exits \cup {e}
    <3>1. runtime' = [runtime EXCEPT ![r].exits = more]
      BY <2>2 DEF SubscriptionAdmits
    <3>2. more \in SUBSET Exits /\ more \ Subscribed \subseteq runtime[r].exits
      BY <2>1, <2>2
    <3> HIDE DEF more
    <3> QED
      BY <3>1, <3>2
  <2>3. CASE ExitLeaves(r, e)
    <3> DEFINE less == runtime[r].exits \ {e}
    <3>1. runtime' = [runtime EXCEPT ![r].exits = less]
      BY <2>3 DEF ExitLeaves
    <3>2. less \in SUBSET Exits /\ less \ Subscribed \subseteq runtime[r].exits
      BY <2>1
    <3> HIDE DEF less
    <3> QED
      BY <3>1, <3>2
  <2> QED
    BY <2>2, <2>3
<1>4. /\ IInv' /\ runtime'[r].exits = exits
      /\ runtime'[r].config = runtime[r].config /\ runtime'[r].phase = runtime[r].phase
      /\ \A q \in Runtimes \ {r} : runtime'[q] = runtime[q]
  BY <1>1, <1>2, <1>3, ExitsKeep
<1> QED
  BY <1>1, <1>3, <1>4

\* The other plugin comes while nothing routes, and nothing does until it has
\* gone again, since it owns the slot.
LEMMA OtherKeeps ==
  ASSUME IInv, OtherLoads \/ OtherUnloads
  PROVE  IInv'
<1>1. UNCHANGED <<settings, commits, controller, gone, runtime, installer, scheduler, delegate>>
  BY DEF OtherLoads, OtherUnloads
<1>2. \A r \in Runtimes : ~Routing(r)
  <2>1. CASE OtherLoads
    BY <2>1 DEF OtherLoads, Routing
  <2>2. CASE OtherUnloads
    <3>1. \A r \in Runtimes : Routing(r) => installer[r].router \in Routers
      BY DEF IInv, TypeOK, Routing, Enabled, Installer
    <3>2. host.slot = otherPlugin
      BY <2>2 DEF OtherUnloads, IInv, HostOK, OtherOwns
    <3> QED
      BY <3>1, <3>2, Owners DEF IInv, HostOK, RouterInSlot
  <2> QED
    BY <2>1, <2>2
<1>3. /\ host' \in [slot: Slot, fetch: {"builtin", "module"}] /\ host'.fetch = host.fetch
      /\ other' \in Slot \cup {None}
      /\ other' # None => host'.slot = otherPlugin
  BY DEF OtherLoads, OtherUnloads, IInv, HostOK, HostType, Slot
<1>4. HostOK'
  BY <1>1, <1>2, <1>3, Owners DEF IInv, HostOK, HostType, InstallerType, RouterInSlot,
                                  HostFree, OtherOwns, Routing
<1>5. TypeOK'
  BY <1>1, <1>4 DEF IInv, TypeOK, HostOK, HostType
<1> QED
  BY <1>1, <1>4, <1>5 DEF IInv, SchedulersOK, Active, ControllerLive

LEMMA AssemblyFailsKeeps ==
  ASSUME IInv, NEW r \in Runtimes, AssemblyFails(r)
  PROVE  IInv'
<1> DEFINE new == [runtime[r] EXCEPT !.phase = "failed", !.due = TRUE]
<1>1. /\ runtime[r].phase = "assembling" /\ runtime' = [runtime EXCEPT ![r] = new]
      /\ controller' = None
      /\ UNCHANGED <<host, other, settings, commits, gone, installer, scheduler, delegate>>
  BY DEF AssemblyFails
<1>2. new \in Runtime /\ new.phase = "failed" /\ new.refill = runtime[r].refill
  <2>1. runtime[r] \in Runtime
    BY DEF IInv, TypeOK
  <2> QED
    BY ONLY <2>1 DEF Runtime
<1> HIDE DEF new
<1>3. /\ runtime' \in [Runtimes -> Runtime] /\ runtime'[r] = new
      /\ \A q \in Runtimes \ {r} : runtime'[q] = runtime[q]
  BY <1>1, <1>2 DEF IInv, TypeOK
<1>4. TypeOK' /\ HostOK'
  BY <1>1, <1>3 DEF IInv, TypeOK, HostOK, HostType, InstallerType, RouterInSlot, HostFree,
                    OtherOwns, Routing
<1>5. SchedulersOK'
  BY <1>1, <1>2, <1>3 DEF IInv, SchedulersOK, Active
<1> QED
  BY <1>1, <1>2, <1>3, <1>4, <1>5 DEF IInv, ControllerLive

LEMMA StepIInv == IInv /\ [Next]_vars => IInv'
<1> SUFFICES ASSUME IInv, [Next]_vars PROVE IInv'
  OBVIOUS
<1>1. CASE UNCHANGED vars
  BY <1>1 DEF vars, IInv, TypeOK, HostOK, HostType, InstallerType, RouterInSlot, HostFree,
     OtherOwns, Routing, SchedulersOK, Active, ControllerLive
<1>2. ASSUME NEW r \in Runtimes, NEW e \in Subscribed, SubscriptionAdmits(r, e) PROVE IInv'
  BY <1>2, PoolKeeps DEF Exits
<1> QED
  BY <1>1, <1>2, CommitKeeps, AssembledKeeps, AssemblyFailsKeeps, ReconfiguresKeeps, DisposeKeeps,
     RoundKeeps, AdmitKeeps, PoolKeeps, OtherKeeps DEF Next

LEMMA Invariance == Spec => []IInv
  BY InitIInv, StepIInv, PTL DEF Spec

(***************************************************************************)
(* The theorems.                                                           *)
(***************************************************************************)

\* Through all switches off and on again, and however many assemblies race, a
\* runtime has exactly the refill loop its settings ask for.
THEOREM OneRefillLoop == Spec => []RuntimeInv
<1>1. IInv => RuntimeInv
  <2> SUFFICES ASSUME IInv, NEW r \in Runtimes, runtime[r].phase = "live"
               PROVE  Active(r) = IF WantRefill(runtime[r].config) THEN {runtime[r].refill} ELSE {}
    BY DEF IInv, RuntimeInv, RefillFollowsSettings, Active
  <2> QED
    BY DEF IInv, SchedulersOK
<1> QED
  BY <1>1, Invariance, PTL

\* Never do two runtimes route, and the one that does owns the slot: whatever
\* the host's setter returns.
THEOREM OneRouter == Spec => []ExclusiveRouting
<1>1. IInv => ExclusiveRouting
  BY DEF IInv, HostOK, RouterInSlot, ExclusiveRouting
<1> QED
  BY <1>1, Invariance, PTL

\* Whatever the host's setter returns and however many runtimes there are, the
\* global fetch is the module's exactly while one of them routes.
THEOREM FetchGetsBack == Spec => []FetchFollowsRouting
<1>1. IInv => FetchFollowsRouting
  BY DEF IInv, HostOK, RouterInSlot, HostFree, FetchFollowsRouting
<1> QED
  BY <1>1, Invariance, PTL

\* What FreeSlotTaken allows of a runtime q that is idle after a step.
WasIdle(q) ==
  /\ Idle(q) /\ runtime'[q].config = runtime[q].config
  /\ runtime'[q].exits \ Subscribed \subseteq runtime[q].exits

\* Nobody routes on a slot of the host's: who keeps phase, settings and exits
\* and is idle now was idle before.
LEMMA IdleBefore ==
  ASSUME IInv, host.slot = hostAgent, NEW q \in Runtimes, Idle(q)',
         runtime'[q].phase = runtime[q].phase, runtime'[q].config = runtime[q].config,
         runtime'[q].exits \ Subscribed \subseteq runtime[q].exits
  PROVE  WasIdle(q)
<1>1. ~Routing(q)
  <2>1. Routing(q) => installer[q].router \in Routers
    BY DEF IInv, TypeOK, Routing, Enabled, Installer
  <2> QED
    BY <2>1, Owners DEF IInv, HostOK, RouterInSlot
<1>2. runtime[q].exits \ Subscribed # {}
  BY DEF Idle
<1> QED
  BY <1>1, <1>2 DEF Idle, WasIdle

LEMMA ReconfigureEngages ==
  ASSUME IInv, host.slot = hostAgent, NEW q \in Runtimes, Idle(q)',
         NEW rts, Settled(rts), controller \in Runtimes, NEW v \in Setting,
         Reconfigure(rts, controller, v), UNCHANGED <<other, controller, gone>>,
         settings' \in Setting, commits' \in 0 .. MaxCommits
  PROVE  WasIdle(q)
<1>1. PICK r \in Runtimes : r = controller
  OBVIOUS
<1>2. /\ v.enabled /\ runtime[r].exits # {} => Routing(r)'
      /\ runtime'[r].config = v /\ runtime'[r].exits = runtime[r].exits
      /\ \A p \in Runtimes \ {r} : runtime'[p] = rts[p]
  BY <1>1, ReconfigureKeeps
<1>3. q # r
  BY <1>2 DEF Idle
<1> QED
  BY <1>2, <1>3, IdleBefore DEF Settled

LEMMA ControllerEngages ==
  ASSUME IInv, host.slot = hostAgent, NEW q \in Runtimes, Idle(q)',
         (\E v \in Values : Commit(v)) \/ \E r \in Runtimes : Reconfigures(r)
  PROVE  WasIdle(q)
<1>1. ASSUME NEW v \in Values, Commit(v) PROVE WasIdle(q)
  <2>1. /\ commits' \in 0 .. MaxCommits /\ settings' \in Setting /\ v \in Setting
        /\ UNCHANGED <<other, controller, gone>>
    <3>1. /\ commits < MaxCommits /\ commits' = commits + 1 /\ settings' = v
          /\ UNCHANGED <<other, controller, gone>>
      BY <1>1 DEF Commit
    <3> QED
      BY <3>1 DEF IInv, TypeOK
  <2>2. CASE UNCHANGED runtime
    BY <2>2, IdleBefore
  <2>3. ASSUME NEW r \in Runtimes,
               runtime' = [runtime EXCEPT ![r].phase = "assembling", ![r].config = v, ![r].value = v]
        PROVE  WasIdle(q)
    <3>1. /\ runtime'[r].phase = "assembling"
          /\ \A p \in Runtimes \ {r} : runtime'[p] = runtime[p]
      <4>1. runtime[r] \in Runtime /\ runtime \in [Runtimes -> Runtime]
        BY DEF IInv, TypeOK
      <4> QED
        BY ONLY <2>3, <4>1 DEF Runtime
    <3>2. q # r
      BY <3>1 DEF Idle
    <3> QED
      BY <3>1, <3>2, IdleBefore
  <2>4. CASE controller # None /\ Reconfigure(runtime, controller, v)
    <3>1. controller \in Runtimes /\ Settled(runtime)
      BY <2>4 DEF IInv, TypeOK, Settled
    <3> QED
      BY <2>1, <2>4, <3>1, ReconfigureEngages
  <2> QED
    BY <1>1, <2>2, <2>3, <2>4 DEF Commit
<1>2. ASSUME NEW r \in Runtimes, Reconfigures(r) PROVE WasIdle(q)
  <2>1. /\ UNCHANGED <<other, controller, gone>>
        /\ settings' \in Setting /\ commits' \in 0 .. MaxCommits
    BY <1>2 DEF Reconfigures, IInv, TypeOK
  <2>2. Settled(Paid(r)) /\ runtime[r].value \in Setting
    BY PaidSettled
  <2>3. CASE controller = None
    <3>1. runtime' = Paid(r)
      BY <1>2, <2>3 DEF Reconfigures, Paid
    <3> QED
      BY <2>2, <3>1, IdleBefore DEF Settled
  <2>4. CASE controller # None
    <3>1. controller \in Runtimes /\ Reconfigure(Paid(r), controller, runtime[r].value)
      BY <1>2, <2>4 DEF Reconfigures, Paid, IInv, TypeOK
    <3> QED
      BY <2>1, <2>2, <3>1, ReconfigureEngages
  <2> QED
    BY <2>3, <2>4
<1> QED
  BY <1>1, <1>2

LEMMA LifeEngages ==
  ASSUME IInv, host.slot = hostAgent, NEW q \in Runtimes, Idle(q)',
         Dispose \/ \E r \in Runtimes : Assembled(r) \/ AssemblyFails(r)
  PROVE  WasIdle(q)
<1>0. runtime \in [Runtimes -> Runtime]
  BY DEF IInv, TypeOK
<1>1. ASSUME NEW r \in Runtimes, Assembled(r) PROVE WasIdle(q)
  <2>1. /\ runtime'[r].exits # {} => Routing(r)'
        /\ \A p \in Runtimes \ {r} : runtime'[p] = runtime[p]
    BY <1>1, AssembledKeeps
  <2>2. q # r
    BY <2>1 DEF Idle
  <2> QED
    BY <2>1, <2>2, IdleBefore
\* Any other step of this kind leaves a runtime that is not live.
<1>2. ASSUME NEW r \in Runtimes, NEW new, runtime' = [runtime EXCEPT ![r] = new],
             new.phase # "live"
      PROVE  WasIdle(q)
  <2>1. runtime'[r].phase # "live" /\ \A p \in Runtimes \ {r} : runtime'[p] = runtime[p]
    BY <1>0, <1>2
  <2>2. q # r
    BY <2>1 DEF Idle
  <2> QED
    BY <2>1, <2>2, IdleBefore
<1>3. ASSUME NEW r \in Runtimes, AssemblyFails(r) PROVE WasIdle(q)
  <2> DEFINE new == [runtime[r] EXCEPT !.phase = "failed", !.due = TRUE]
  <2>1. new.phase # "live"
    BY <1>0 DEF Runtime
  <2>2. runtime' = [runtime EXCEPT ![r] = new]
    BY <1>3 DEF AssemblyFails
  <2> HIDE DEF new
  <2> QED
    BY <2>1, <2>2, <1>2
<1>4. CASE Dispose /\ controller # None
  <2> DEFINE r   == controller
             new == [runtime[r] EXCEPT !.phase = "disposed",
                       !.fetcher = IF runtime[r].fetcher = "none" THEN "none" ELSE "stopped"]
  <2>1. r \in Runtimes
    BY <1>4 DEF IInv, TypeOK
  <2>2. new.phase # "live"
    BY <1>0, <2>1 DEF Runtime
  <2>3. runtime' = [runtime EXCEPT ![r] = new]
    BY <1>4 DEF Dispose
  <2> HIDE DEF new, r
  <2> QED
    BY <2>1, <2>2, <2>3, <1>2
<1>5. CASE Dispose /\ controller = None
  <2>1. runtime' = runtime
    BY <1>5 DEF Dispose
  <2> QED
    BY <2>1, IdleBefore
<1> QED
  BY <1>1, <1>3, <1>4, <1>5

LEMMA PoolEngages ==
  ASSUME IInv, host.slot = hostAgent, NEW q \in Runtimes, Idle(q)',
         \/ \E s \in Schedulers, e \in Free : RoundAdmits(s, e)
         \/ \E r \in Runtimes, e \in Exits :
              (e \in Subscribed /\ SubscriptionAdmits(r, e)) \/ ExitLeaves(r, e)
  PROVE  WasIdle(q)
<1>1. ASSUME NEW s \in Schedulers, NEW e \in Free, RoundAdmits(s, e) PROVE WasIdle(q)
  <2>1. PICK r \in Runtimes : /\ Routing(r)'
                              /\ \A p \in Runtimes \ {r} : runtime'[p] = runtime[p]
    BY <1>1, AdmitKeeps
  <2>2. q # r
    BY <2>1 DEF Idle
  <2> QED
    BY <2>1, <2>2, IdleBefore
<1>2. ASSUME NEW r \in Runtimes, NEW e \in Exits,
             (e \in Subscribed /\ SubscriptionAdmits(r, e)) \/ ExitLeaves(r, e)
      PROVE  WasIdle(q)
  <2>1. /\ runtime'[q].phase = runtime[q].phase /\ runtime'[q].config = runtime[q].config
        /\ runtime'[q].exits \ Subscribed \subseteq runtime[q].exits
    BY <1>2, PoolKeeps
  <2> QED
    BY <2>1, IdleBefore
<1> QED
  BY <1>1, <1>2

LEMMA EngageStep ==
  ASSUME IInv, [Next]_vars, host.slot = hostAgent, NEW q \in Runtimes, Idle(q)'
  PROVE  WasIdle(q)
<1>1. CASE UNCHANGED runtime
  BY <1>1, IdleBefore
<1>2. (\E s \in Schedulers : RoundStarts(s) \/ RoundEnds(s)) \/ OtherLoads \/ OtherUnloads
        \/ UNCHANGED vars => UNCHANGED runtime
  BY DEF RoundStarts, RoundEnds, OtherLoads, OtherUnloads, vars
<1>3. ASSUME NEW r \in Runtimes, NEW e \in Subscribed, SubscriptionAdmits(r, e)
      PROVE  WasIdle(q)
  BY <1>3, PoolEngages DEF Exits
<1> QED
  BY <1>1, <1>2, <1>3, ControllerEngages, LifeEngages, PoolEngages DEF Next

\* While the slot is the host's, no commit, assembly, reconfigure or admission
\* leaves an enabled runtime with configured or refilled exits that does not
\* route: one that is idle was so before, with the same settings and no new
\* such exit. Pools of subscribed exits only are not idle by definition.
THEOREM FreeSlotEngages == Spec => FreeSlotTaken
<1>1. IInv /\ [Next]_vars =>
        [\A r \in Runtimes : Idle(r)' /\ ~Foreign(host.slot) =>
           /\ Idle(r) /\ runtime'[r].config = runtime[r].config
           /\ runtime'[r].exits \ Subscribed \subseteq runtime[r].exits]_vars
  BY EngageStep DEF WasIdle, Foreign
<1> QED
  BY <1>1, Invariance, PTL DEF Spec, FreeSlotTaken

(***************************************************************************)
(* The sing-box supervisor: what its operators keep (for any number of     *)
(* children, and whoever calls them).                                      *)
(***************************************************************************)
USE SubscriptionsAssumption

Statuses == {"none", "running", "exited", "signalled"}

Box ==
  [child: Children \cup {NoChild}, running: BOOLEAN,
   process: [Children -> [status: Statuses, killed: BOOLEAN]],
   stops: [Calls -> [phase: {"none", "waiting", "forced", "returned"},
                     child: Children \cup {NoChild}, heard: BOOLEAN]],
   reload: [phase: {"idle", "preparing", "stopping", "waiting"},
            nodes: Seq(Nodes), spawned: Children \cup {NoChild}]]

Quiet == [phase |-> "none", child |-> NoChild, heard |-> FALSE]

Serving(b) == {c \in Children : Alive(b, c)}

Room(b) == Cardinality(Spawned(b)) < MaxChildren

\* Children are numbered as they are spawned.
Numbered(b) == Spawned(b) = 1 .. Cardinality(Spawned(b))

\* Only a reload that stops the old child waits in its stop(), and there is
\* still a child to spawn.
ReloadOK(b) ==
  /\ b.reload.phase \in {"preparing", "stopping"} => Room(b)
  /\ IF b.reload.phase = "stopping" THEN b.stops["byReload"].phase \in {"waiting", "forced"}
     ELSE b.stops["byReload"] = Quiet

\* Until the disposal nobody else calls stop(), and whoever runs is the current
\* child, or the one that the reload is stopping.
UndisposedOK(b) ==
  /\ b.stops["byFetcher"] = Quiet
  /\ IF b.reload.phase = "stopping"
     THEN b.child = NoChild /\ Serving(b) \subseteq {b.stops["byReload"].child}
     ELSE Serving(b) \subseteq {b.child} /\ (b.running <=> Alive(b, b.child))

BoxOK(b, disposed) ==
  b \in Box /\ Numbered(b) /\ ReloadOK(b) /\ (~disposed => UndisposedOK(b))

LEMMA ChildNumbers == Children \subseteq Nat /\ NoChild \notin Children
  BY DEF Children, NoChild

LEMMA SpawnedCount ==
  ASSUME NEW b, Numbered(b)
  PROVE  /\ IsFiniteSet(Spawned(b)) /\ Cardinality(Spawned(b)) \in Nat
         /\ Room(b) => Cardinality(Spawned(b)) + 1 \in Children \ Spawned(b)
<1>1. IsFiniteSet(Children)
  BY FS_Interval DEF Children
<1>2. IsFiniteSet(Spawned(b)) /\ Cardinality(Spawned(b)) \in Nat
  BY <1>1, FS_Subset, FS_CardinalityType DEF Spawned
<1>3. ASSUME Room(b) PROVE Cardinality(Spawned(b)) + 1 \in Children \ Spawned(b)
  BY <1>2, <1>3 DEF Room, Numbered, Children
<1> QED
  BY <1>2, <1>3

\* Once the old child is gone, the next one is alone.
LEMMA SpawnKeeps ==
  ASSUME NEW b \in Box, NEW d \in BOOLEAN, Numbered(b), Room(b),
         b.reload.phase = "stopping", b.stops["byReload"].phase = "returned",
         ~d => b.stops["byFetcher"] = Quiet /\ Serving(b) = {}
  PROVE  /\ BoxOK(SpawnNext(b), d)
         /\ SpawnNext(b).reload.phase = "waiting" /\ SpawnNext(b).reload.nodes = b.reload.nodes
<1> DEFINE n == Cardinality(Spawned(b))
           c == n + 1
           new == SpawnNext(b)
<1>1. NewBox.stops["byReload"] = Quiet
  BY DEF NewBox, Quiet, Calls
<1>2. n \in Nat /\ c \in Children \ Spawned(b) /\ IsFiniteSet(Spawned(b))
  BY SpawnedCount
<1>3. new = [b EXCEPT !.child = c, !.running = TRUE, !.process[c].status = "running",
               !.reload.phase = "waiting", !.reload.spawned = c, !.stops["byReload"] = Quiet]
  BY <1>1 DEF SpawnNext
<1>4. /\ b.process \in [Children -> [status: Statuses, killed: BOOLEAN]]
      /\ b.stops \in [Calls -> [phase: {"none", "waiting", "forced", "returned"},
                                child: Children \cup {NoChild}, heard: BOOLEAN]]
      /\ b.reload \in [phase: {"idle", "preparing", "stopping", "waiting"},
                       nodes: Seq(Nodes), spawned: Children \cup {NoChild}]
  BY ONLY b \in Box DEF Box
<1> HIDE DEF c, new
<1>5. /\ new.child = c /\ new.running = TRUE
      /\ new.process = [b.process EXCEPT ![c].status = "running"]
      /\ new.reload = [b.reload EXCEPT !.phase = "waiting", !.spawned = c]
      /\ new.stops = [b.stops EXCEPT !["byReload"] = Quiet]
  BY ONLY <1>3, b \in Box DEF Box
<1>6. /\ new.process \in [Children -> [status: Statuses, killed: BOOLEAN]]
      /\ new.process[c].status = "running"
      /\ \A x \in Children \ {c} : new.process[x] = b.process[x]
  <2>1. b.process[c] \in [status: Statuses, killed: BOOLEAN]
    BY <1>2, <1>4
  <2>2. [b.process[c] EXCEPT !.status = "running"] \in [status: Statuses, killed: BOOLEAN]
    BY ONLY <2>1 DEF Statuses
  <2>3. [b.process[c] EXCEPT !.status = "running"].status = "running"
    BY ONLY <2>1
  <2> QED
    BY <1>2, <1>4, <1>5, <2>2, <2>3
<1>7. /\ new.reload \in [phase: {"idle", "preparing", "stopping", "waiting"},
                         nodes: Seq(Nodes), spawned: Children \cup {NoChild}]
      /\ new.reload.phase = "waiting" /\ new.reload.nodes = b.reload.nodes
  BY <1>2, <1>4, <1>5
<1>8. /\ new.stops \in [Calls -> [phase: {"none", "waiting", "forced", "returned"},
                                  child: Children \cup {NoChild}, heard: BOOLEAN]]
      /\ new.stops["byReload"] = Quiet /\ new.stops["byFetcher"] = b.stops["byFetcher"]
  BY <1>4, <1>5 DEF Calls, Quiet
<1>9. new \in Box
  BY ONLY <1>2, <1>3, <1>6, <1>7, <1>8, b \in Box DEF Box
<1>10. Spawned(new) = Spawned(b) \cup {c}
  BY <1>2, <1>6 DEF Spawned
<1>11. Numbered(new)
  <2>1. Cardinality(Spawned(new)) = n + 1
    BY <1>2, <1>10, FS_AddElement
  <2> QED
    BY <1>2, <1>10, <2>1 DEF Numbered, c
<1>12. ASSUME ~d PROVE Serving(new) \subseteq {c} /\ Alive(new, c)
  BY <1>2, <1>6, <1>12, ChildNumbers DEF Serving, Alive
<1>13. ReloadOK(new)
  BY <1>7, <1>8 DEF ReloadOK
<1>14. ~d => UndisposedOK(new)
  BY <1>5, <1>7, <1>8, <1>12 DEF UndisposedOK
<1> QED
  BY <1>7, <1>9, <1>11, <1>13, <1>14 DEF BoxOK, new

LEMMA BoxParts ==
  ASSUME NEW b \in Box
  PROVE  /\ b.child \in Children \cup {NoChild} /\ b.running \in BOOLEAN
         /\ b.process \in [Children -> [status: Statuses, killed: BOOLEAN]]
         /\ b.stops \in [Calls -> [phase: {"none", "waiting", "forced", "returned"},
                                   child: Children \cup {NoChild}, heard: BOOLEAN]]
         /\ b.reload \in [phase: {"idle", "preparing", "stopping", "waiting"},
                          nodes: Seq(Nodes), spawned: Children \cup {NoChild}]
  BY DEF Box

\* A child ends: the reload that stopped it spawns the next one, and otherwise
\* the flag falls if it was the current one.
LEMMA ExitKeeps ==
  ASSUME NEW b, NEW d \in BOOLEAN, BoxOK(b, d), NEW c \in Children, Alive(b, c),
         NEW kind \in {"exited", "signalled"}
  PROVE  /\ BoxOK(Exited(b, c, kind), d)
         /\ Exited(b, c, kind).reload.nodes = b.reload.nodes
         /\ Exited(b, c, kind).reload.phase = "idle" <=> b.reload.phase = "idle"
         /\ b.reload.phase = "idle" => Spawned(Exited(b, c, kind)) = Spawned(b)
<1> DEFINE stops == Returned(b, c)
           flag == IF b.child = c \/ Returned(b, c) # b.stops THEN FALSE ELSE b.running
           mid == [b EXCEPT !.process[c].status = kind, !.stops = stops,
                     !.running = IF b.child = c \/ Returned(b, c) # b.stops THEN FALSE ELSE @]
<1>1. Exited(b, c, kind) = SpawnNext(mid)
  BY DEF Exited
<1>2. b \in Box /\ Numbered(b) /\ ReloadOK(b) /\ (~d => UndisposedOK(b))
  BY DEF BoxOK
<1>3. /\ \A call \in Calls :
           stops[call] = IF b.stops[call].child = c /\ b.stops[call].heard
                         THEN [phase |-> "returned", child |-> NoChild, heard |-> FALSE]
                         ELSE b.stops[call]
      /\ stops \in [Calls -> [phase: {"none", "waiting", "forced", "returned"},
                              child: Children \cup {NoChild}, heard: BOOLEAN]]
  BY <1>2, BoxParts DEF Returned
<1>4. flag \in BOOLEAN /\ (b.child = c => flag = FALSE)
  BY <1>2, BoxParts
<1> HIDE DEF stops
<1>5. mid = [b EXCEPT !.process[c].status = kind, !.stops = stops, !.running = flag]
  BY <1>2 DEF Box
<1> HIDE DEF flag, mid
<1>6. /\ mid.child = b.child /\ mid.running = flag /\ mid.reload = b.reload
      /\ mid.stops = stops /\ mid.process = [b.process EXCEPT ![c].status = kind]
  BY ONLY <1>2, <1>5 DEF Box
<1>7. /\ mid.process \in [Children -> [status: Statuses, killed: BOOLEAN]]
      /\ mid.process[c].status = kind
      /\ \A x \in Children \ {c} : mid.process[x] = b.process[x]
  <2>1. b.process[c] \in [status: Statuses, killed: BOOLEAN]
    BY <1>2, BoxParts
  <2>2. [b.process[c] EXCEPT !.status = kind] \in [status: Statuses, killed: BOOLEAN]
    BY ONLY <2>1, kind \in {"exited", "signalled"} DEF Statuses
  <2>3. [b.process[c] EXCEPT !.status = kind].status = kind
    BY ONLY <2>1
  <2> QED
    BY <1>2, <1>6, <2>2, <2>3, BoxParts
<1>8. mid \in Box
  BY ONLY <1>2, <1>3, <1>4, <1>5, <1>6, <1>7 DEF Box
<1>9. Spawned(mid) = Spawned(b) /\ Serving(mid) = Serving(b) \ {c}
  BY <1>7 DEF Spawned, Serving, Alive
<1>10. Numbered(mid) /\ (Room(b) => Room(mid))
  BY <1>2, <1>9 DEF Numbered, Room
<1>11. ~d => mid.stops["byFetcher"] = Quiet
  BY <1>2, <1>3, <1>6 DEF UndisposedOK, Quiet, Calls
<1>12. CASE mid.reload.phase = "stopping" /\ mid.stops["byReload"].phase = "returned"
  <2>1. b.stops["byReload"].phase # "returned" /\ Room(b)
    BY <1>2, <1>6, <1>12 DEF ReloadOK
  <2>2. b.stops["byReload"].child = c
    BY <1>3, <1>6, <1>12, <2>1 DEF Calls
  <2>3. ~d => Serving(mid) = {}
    BY <1>2, <1>6, <1>9, <1>12, <2>2 DEF UndisposedOK
  <2> QED
    BY <1>1, <1>6, <1>8, <1>10, <1>11, <1>12, <2>1, <2>3, SpawnKeeps
<1>13. CASE ~(mid.reload.phase = "stopping" /\ mid.stops["byReload"].phase = "returned")
  <2>1. SpawnNext(mid) = mid
    BY <1>13 DEF SpawnNext
  <2>2. ReloadOK(mid)
    BY <1>2, <1>3, <1>6, <1>10, <1>13 DEF ReloadOK, Calls, Quiet
  <2>3. ASSUME ~d PROVE UndisposedOK(mid)
    <3>1. UndisposedOK(b) /\ c \in Serving(b)
      BY <1>2, <2>3 DEF Serving
    <3>2. CASE b.reload.phase = "stopping"
      <4>1. mid.stops["byReload"] = b.stops["byReload"]
        BY <1>3, <1>6, <1>13, <3>2 DEF Calls
      <4> QED
        BY <1>6, <1>9, <1>11, <2>3, <3>1, <3>2, <4>1 DEF UndisposedOK
    <3>3. CASE b.reload.phase # "stopping"
      <4>1. b.child = c
        BY <3>1, <3>3 DEF UndisposedOK
      <4>2. mid.running = FALSE /\ ~Alive(mid, mid.child)
        BY <1>4, <1>6, <1>7, <4>1 DEF Alive
      <4> QED
        BY <1>6, <1>9, <1>11, <2>3, <3>1, <3>3, <4>2 DEF UndisposedOK
    <3> QED
      BY <3>2, <3>3
  <2> QED
    BY <1>1, <1>6, <1>8, <1>9, <1>10, <2>1, <2>2, <2>3 DEF BoxOK
<1> QED
  BY <1>12, <1>13

\* The field of the child is cleared before anything is waited for.
LEMMA StopParts ==
  ASSUME NEW b \in Box, NEW call \in Calls
  PROVE  /\ Stop(b, call) \in Box
         /\ Stop(b, call).process = b.process /\ Stop(b, call).reload = b.reload
         /\ \A o \in Calls \ {call} : Stop(b, call).stops[o] = b.stops[o]
         /\ \/ /\ Stop(b, call).stops[call].phase = "returned"
               /\ b.child = NoChild \/ ~Alive(b, b.child)
            \/ /\ Stop(b, call).stops[call].phase = "waiting"
               /\ Stop(b, call).child = NoChild /\ Stop(b, call).stops[call].child = b.child
<1> DEFINE new == Stop(b, call)
<1>1. CASE b.child = NoChild \/ b.process[b.child].status = "exited"
  <2>1. new = [b EXCEPT !.running = FALSE, !.stops[call].phase = "returned"]
    BY <1>1 DEF Stop
  <2> HIDE DEF new
  <2>2. /\ new.process = b.process /\ new.reload = b.reload
        /\ new.stops = [b.stops EXCEPT ![call].phase = "returned"]
    BY ONLY <2>1, b \in Box DEF Box
  <2>3. [b.stops[call] EXCEPT !.phase = "returned"] \in
          [phase: {"none", "waiting", "forced", "returned"},
           child: Children \cup {NoChild}, heard: BOOLEAN]
    BY BoxParts
  <2>4. [b.stops[call] EXCEPT !.phase = "returned"].phase = "returned"
    BY BoxParts
  <2>5. /\ new.stops \in [Calls -> [phase: {"none", "waiting", "forced", "returned"},
                                    child: Children \cup {NoChild}, heard: BOOLEAN]]
        /\ new.stops[call].phase = "returned"
        /\ \A o \in Calls \ {call} : new.stops[o] = b.stops[o]
    BY <2>2, <2>3, <2>4, BoxParts
  <2>6. new \in Box
    BY ONLY <2>1, <2>2, <2>5, b \in Box DEF Box
  <2> QED
    BY <1>1, <2>2, <2>5, <2>6 DEF new, Alive
<1>2. CASE ~(b.child = NoChild \/ b.process[b.child].status = "exited")
  <2> DEFINE entry == [phase |-> "waiting", child |-> b.child, heard |-> Alive(b, b.child)]
  <2>1. new = [b EXCEPT !.child = NoChild, !.stops[call] = entry]
    BY <1>2 DEF Stop
  <2>2. entry \in [phase: {"none", "waiting", "forced", "returned"},
                   child: Children \cup {NoChild}, heard: BOOLEAN]
    BY BoxParts DEF Alive
  <2>3. entry.phase = "waiting" /\ entry.child = b.child
    OBVIOUS
  <2> HIDE DEF new, entry
  <2>4. /\ new.process = b.process /\ new.reload = b.reload /\ new.child = NoChild
        /\ new.stops = [b.stops EXCEPT ![call] = entry]
    BY ONLY <2>1, b \in Box DEF Box
  <2>5. /\ new.stops \in [Calls -> [phase: {"none", "waiting", "forced", "returned"},
                                    child: Children \cup {NoChild}, heard: BOOLEAN]]
        /\ new.stops[call] = entry
        /\ \A o \in Calls \ {call} : new.stops[o] = b.stops[o]
    BY <2>2, <2>4, BoxParts
  <2>6. new \in Box
    BY ONLY <2>1, <2>4, <2>5, b \in Box DEF Box
  <2> QED
    BY <1>2, <2>3, <2>4, <2>5, <2>6 DEF new
<1> QED
  BY <1>1, <1>2

LEMMA SameProcesses ==
  ASSUME NEW b, NEW new, new.process = b.process
  PROVE  /\ Spawned(new) = Spawned(b) /\ Serving(new) = Serving(b)
         /\ (Numbered(b) => Numbered(new)) /\ (Room(b) <=> Room(new))
  BY DEF Spawned, Serving, Alive, Numbered, Room

\* After the disposal nothing is promised of the children any more.
LEMMA DisposalKeeps ==
  ASSUME NEW b, BoxOK(b, FALSE)
  PROVE  /\ BoxOK(Stop(b, "byFetcher"), TRUE) /\ Stop(b, "byFetcher").reload = b.reload
         /\ Spawned(Stop(b, "byFetcher")) = Spawned(b)
<1> DEFINE new == Stop(b, "byFetcher")
<1>1. b \in Box /\ Numbered(b) /\ ReloadOK(b)
  BY DEF BoxOK
<1>2. /\ new \in Box /\ new.process = b.process /\ new.reload = b.reload
      /\ new.stops["byReload"] = b.stops["byReload"]
  BY <1>1, StopParts DEF Calls
<1> HIDE DEF new
<1>3. Numbered(new) /\ ReloadOK(new) /\ Spawned(new) = Spawned(b)
  BY <1>1, <1>2, SameProcesses DEF ReloadOK
<1> QED
  BY <1>2, <1>3 DEF BoxOK, new

LEMMA PreparedKeeps ==
  ASSUME NEW b, NEW d \in BOOLEAN, BoxOK(b, d), b.reload.phase = "preparing"
  PROVE  /\ BoxOK(Prepared(b), d)
         /\ Prepared(b).reload.phase # "idle" /\ Prepared(b).reload.nodes = b.reload.nodes
<1> DEFINE start == [b EXCEPT !.reload.phase = "stopping"]
           mid == Stop(start, "byReload")
<1>1. Prepared(b) = SpawnNext(mid)
  BY DEF Prepared
<1>2. /\ b \in Box /\ Numbered(b) /\ Room(b) /\ (~d => UndisposedOK(b))
      /\ b.stops["byReload"] = Quiet
  BY DEF BoxOK, ReloadOK
<1>3. /\ start \in Box /\ start.process = b.process /\ start.stops = b.stops
      /\ start.child = b.child /\ start.running = b.running
      /\ start.reload = [b.reload EXCEPT !.phase = "stopping"]
  BY ONLY <1>2 DEF Box
<1>4. start.reload.phase = "stopping" /\ start.reload.nodes = b.reload.nodes
  BY <1>2, <1>3, BoxParts
<1> HIDE DEF start
<1>5. /\ mid \in Box /\ mid.process = b.process /\ mid.reload = start.reload
      /\ mid.stops["byFetcher"] = b.stops["byFetcher"]
      /\ \/ mid.stops["byReload"].phase = "returned" /\ (b.child = NoChild \/ ~Alive(start, b.child))
         \/ /\ mid.stops["byReload"].phase = "waiting"
            /\ mid.child = NoChild /\ mid.stops["byReload"].child = b.child
  BY <1>3, StopParts DEF Calls
<1> HIDE DEF mid
<1>6. Numbered(mid) /\ Room(mid) /\ Serving(mid) = Serving(b)
  BY <1>2, <1>5, SameProcesses
<1>7. ~d => mid.stops["byFetcher"] = Quiet /\ Serving(mid) \subseteq {b.child}
  BY <1>2, <1>5, <1>6 DEF UndisposedOK
<1>8. CASE mid.stops["byReload"].phase = "returned"
  <2>1. ~Alive(b, b.child)
    BY <1>3, <1>5, <1>8 DEF Alive
  <2>2. ~d => Serving(mid) = {}
    BY <1>6, <1>7, <2>1 DEF Serving
  <2> QED
    BY <1>1, <1>4, <1>5, <1>6, <1>7, <1>8, <2>2, SpawnKeeps
<1>9. CASE /\ mid.stops["byReload"].phase = "waiting"
           /\ mid.child = NoChild /\ mid.stops["byReload"].child = b.child
  <2>1. SpawnNext(mid) = mid
    BY <1>9 DEF SpawnNext
  <2>2. ReloadOK(mid)
    BY <1>4, <1>5, <1>6, <1>9 DEF ReloadOK
  <2>3. ~d => UndisposedOK(mid)
    BY <1>4, <1>5, <1>7, <1>9 DEF UndisposedOK
  <2> QED
    BY <1>1, <1>4, <1>5, <1>6, <2>1, <2>2, <2>3 DEF BoxOK
<1> QED
  BY <1>5, <1>8, <1>9

\* Only a signal is noted: nothing that the invariant is about changes.
LEMMA ForcedKeeps ==
  ASSUME NEW b, NEW d \in BOOLEAN, BoxOK(b, d), NEW call \in Calls,
         b.stops[call].phase = "waiting"
  PROVE  /\ BoxOK(Forced(b, call), d) /\ Forced(b, call).reload = b.reload
         /\ Spawned(Forced(b, call)) = Spawned(b)
<1> DEFINE new == Forced(b, call)
           c == b.stops[call].child
<1>1. b \in Box /\ Numbered(b) /\ ReloadOK(b) /\ (~d => UndisposedOK(b))
  BY DEF BoxOK
<1>2. new = [b EXCEPT !.stops[call].phase = "forced", !.process[c].killed = TRUE]
  BY DEF Forced
<1> HIDE DEF new
<1>3. /\ new.child = b.child /\ new.running = b.running /\ new.reload = b.reload
      /\ new.stops = [b.stops EXCEPT ![call].phase = "forced"]
      /\ new.process = [b.process EXCEPT ![c].killed = TRUE]
  BY ONLY <1>1, <1>2 DEF Box
<1> DEFINE entry == [b.stops[call] EXCEPT !.phase = "forced"]
<1>4. /\ entry \in [phase: {"none", "waiting", "forced", "returned"},
                    child: Children \cup {NoChild}, heard: BOOLEAN]
      /\ entry.phase = "forced" /\ entry.child = c
  BY <1>1, BoxParts
<1> HIDE DEF entry
<1>5. /\ new.stops \in [Calls -> [phase: {"none", "waiting", "forced", "returned"},
                                  child: Children \cup {NoChild}, heard: BOOLEAN]]
      /\ new.stops[call] = entry
      /\ \A o \in Calls \ {call} : new.stops[o] = b.stops[o]
  BY <1>1, <1>3, <1>4, BoxParts DEF entry
<1>6. /\ new.process \in [Children -> [status: Statuses, killed: BOOLEAN]]
      /\ \A x \in Children : new.process[x].status = b.process[x].status
  <2>1. ASSUME NEW x \in Children
        PROVE  /\ [b.process[x] EXCEPT !.killed = TRUE] \in [status: Statuses, killed: BOOLEAN]
               /\ [b.process[x] EXCEPT !.killed = TRUE].status = b.process[x].status
    <3>1. b.process[x] \in [status: Statuses, killed: BOOLEAN]
      BY <1>1, BoxParts
    <3> QED
      BY ONLY <3>1
  <2>2. new.process = [x \in Children |-> IF x = c THEN [b.process[x] EXCEPT !.killed = TRUE]
                                          ELSE b.process[x]]
    BY <1>1, <1>3, BoxParts
  <2> QED
    BY <1>1, <2>1, <2>2, BoxParts
<1>7. new \in Box
  BY ONLY <1>1, <1>2, <1>3, <1>5, <1>6 DEF Box
<1>8. Spawned(new) = Spawned(b) /\ Serving(new) = Serving(b) /\ \A x \in Children : Alive(new, x) <=> Alive(b, x)
  BY <1>6 DEF Spawned, Serving, Alive
<1>9. Numbered(new) /\ (Room(b) <=> Room(new))
  BY <1>1, <1>8 DEF Numbered, Room
<1>10. call = "byReload" => b.reload.phase = "stopping"
  BY <1>1 DEF ReloadOK, Quiet
<1>11. ReloadOK(new)
  BY <1>1, <1>3, <1>4, <1>5, <1>9, <1>10 DEF ReloadOK, Calls
<1>12. ASSUME ~d PROVE UndisposedOK(new)
  <2>1. call # "byFetcher"
    BY <1>1, <1>12 DEF UndisposedOK, Quiet
  <2>2. new.stops["byFetcher"] = Quiet /\ call = "byReload"
    BY <1>1, <1>5, <1>12, <2>1 DEF UndisposedOK, Calls
  <2> QED
    BY <1>1, <1>3, <1>4, <1>5, <1>8, <1>10, <1>12, <2>2 DEF UndisposedOK
<1> QED
  BY <1>3, <1>7, <1>8, <1>9, <1>11, <1>12 DEF BoxOK, new

LEMMA ReloadKeeps ==
  ASSUME NEW b, NEW d \in BOOLEAN, BoxOK(b, d), b.reload.phase = "idle", Room(b),
         NEW nodes \in Seq(Nodes)
  PROVE  /\ BoxOK(Reload(b, nodes), d)
         /\ Reload(b, nodes).reload.phase = "preparing" /\ Reload(b, nodes).reload.nodes = nodes
<1> DEFINE new == Reload(b, nodes)
           entry == [phase |-> "preparing", nodes |-> nodes, spawned |-> NoChild]
<1>1. b \in Box /\ Numbered(b) /\ ReloadOK(b) /\ (~d => UndisposedOK(b))
  BY DEF BoxOK
<1>2. new = [b EXCEPT !.reload = entry]
  BY DEF Reload
<1>3. /\ entry \in [phase: {"idle", "preparing", "stopping", "waiting"},
                    nodes: Seq(Nodes), spawned: Children \cup {NoChild}]
      /\ entry.phase = "preparing" /\ entry.nodes = nodes
  OBVIOUS
<1> HIDE DEF new, entry
<1>4. /\ new \in Box /\ new.child = b.child /\ new.running = b.running /\ new.reload = entry
      /\ new.stops = b.stops /\ new.process = b.process
  BY ONLY <1>1, <1>2, <1>3 DEF Box
<1>5. Numbered(new) /\ Room(new) /\ Serving(new) = Serving(b)
  BY <1>1, <1>4, SameProcesses
<1>6. ReloadOK(new) /\ (~d => UndisposedOK(new))
  BY <1>1, <1>3, <1>4, <1>5 DEF ReloadOK, UndisposedOK, Alive
<1> QED
  BY <1>1, <1>3, <1>4, <1>5, <1>6 DEF BoxOK, new

LEMMA ReloadedKeeps ==
  ASSUME NEW b, NEW d \in BOOLEAN, BoxOK(b, d), b.reload.phase # "stopping"
  PROVE  BoxOK(Reloaded(b), d) /\ Reloaded(b).reload.phase = "idle"
<1> DEFINE new == Reloaded(b)
           entry == NewBox.reload
<1>1. b \in Box /\ Numbered(b) /\ ReloadOK(b) /\ (~d => UndisposedOK(b))
  BY DEF BoxOK
<1>2. new = [b EXCEPT !.reload = entry]
  BY DEF Reloaded
<1>3. /\ entry \in [phase: {"idle", "preparing", "stopping", "waiting"},
                    nodes: Seq(Nodes), spawned: Children \cup {NoChild}]
      /\ entry.phase = "idle"
  BY DEF NewBox
<1> HIDE DEF new, entry
<1>4. /\ new \in Box /\ new.child = b.child /\ new.running = b.running /\ new.reload = entry
      /\ new.stops = b.stops /\ new.process = b.process
  BY ONLY <1>1, <1>2, <1>3 DEF Box
<1>5. Numbered(new) /\ Serving(new) = Serving(b)
  BY <1>1, <1>4, SameProcesses
<1>6. ReloadOK(new) /\ (~d => UndisposedOK(new))
  BY <1>1, <1>3, <1>4, <1>5 DEF ReloadOK, UndisposedOK, Alive
<1> QED
  BY <1>1, <1>3, <1>4, <1>5, <1>6 DEF BoxOK, new

(***************************************************************************)
(* Ports: a node is served at the place of the last one with its key.      *)
(***************************************************************************)
LEMMA Largest ==
  ASSUME NEW n \in Nat, NEW S \in SUBSET (1 .. n), S # {}
  PROVE  \E i \in S : \A j \in S : j <= i
<1> DEFINE left == {n - i : i \in S}
<1>1. left \subseteq Nat /\ left # {}
  <2>1. \A i \in S : i \in 1 .. n /\ n - i \in Nat
    OBVIOUS
  <2>2. PICK i \in S : TRUE
    OBVIOUS
  <2> QED
    BY <2>1, <2>2
<1>2. PICK x \in left : \A y \in left : ~(<<y, x>> \in OpToRel(<, Nat))
  BY <1>1, NatLessThanWellFounded, WFMin
<1>3. \A y \in left : ~(y < x)
  BY <1>1, <1>2 DEF OpToRel
<1>4. PICK i \in S : x = n - i
  OBVIOUS
<1>5. ASSUME NEW j \in S PROVE j <= i
  <2>1. n - j \in left
    OBVIOUS
  <2>2. ~(n - j < n - i)
    BY <1>3, <1>4, <2>1
  <2>3. i \in 1 .. n /\ j \in 1 .. n
    OBVIOUS
  <2> QED
    BY ONLY <2>2, <2>3, n \in Nat
<1> QED
  BY <1>5

LEMMA LastOfKey ==
  ASSUME NEW nodes \in Seq(Nodes), NEW i \in DOMAIN nodes, Supported(nodes[i])
  PROVE  /\ PortMap(nodes)[KeyOf(nodes[i])] \in DOMAIN nodes
         /\ KeyOf(nodes[PortMap(nodes)[KeyOf(nodes[i])]]) = KeyOf(nodes[i])
<1> DEFINE key == KeyOf(nodes[i])
           S == {j \in DOMAIN nodes : KeyOf(nodes[j]) = key}
           P(k) == KeyOf(nodes[k]) = key /\ \A j \in DOMAIN nodes : KeyOf(nodes[j]) = key => j <= k
<1>1. DOMAIN nodes = 1 .. Len(nodes) /\ Len(nodes) \in Nat
  OBVIOUS
<1>2. S \in SUBSET (1 .. Len(nodes)) /\ S # {}
  BY <1>1
<1>3. PICK k \in S : \A j \in S : j <= k
  BY <1>1, <1>2, Largest
<1>4. k \in DOMAIN nodes /\ P(k)
  BY <1>3
<1>5. PortMap(nodes)[key] = CHOOSE k1 \in DOMAIN nodes : P(k1)
  BY DEF PortMap
<1> HIDE DEF P
<1>6. PortMap(nodes)[key] \in DOMAIN nodes /\ P(PortMap(nodes)[key])
  BY <1>4, <1>5
<1> QED
  BY <1>6 DEF P

LEMMA ExitsLeadHome ==
  ASSUME NEW nodes \in Seq(Nodes), NEW exit \in ConvertedExits(nodes)
  PROVE  /\ exit \in [port: Ports, node: Nodes]
         /\ KeyOf(RuleOf(nodes, exit.port)) = KeyOf(exit.node)
<1>1. PICK i \in DOMAIN nodes :
        /\ KeyOf(nodes[i]) \in DOMAIN PortMap(nodes)
        /\ exit = [port |-> PortMap(nodes)[KeyOf(nodes[i])], node |-> nodes[i]]
  BY DEF ConvertedExits
<1>2. DOMAIN PortMap(nodes) = {KeyOf(nodes[j]) : j \in {k \in DOMAIN nodes : Supported(nodes[k])}}
  BY DEF PortMap
<1>3. PICK j \in DOMAIN nodes : Supported(nodes[j]) /\ KeyOf(nodes[j]) = KeyOf(nodes[i])
  BY <1>1, <1>2
<1>4. /\ PortMap(nodes)[KeyOf(nodes[i])] \in DOMAIN nodes
      /\ KeyOf(nodes[PortMap(nodes)[KeyOf(nodes[i])]]) = KeyOf(nodes[i])
  BY <1>3, LastOfKey
<1>5. DOMAIN nodes \subseteq Ports /\ nodes[i] \in Nodes
  BY DEF Ports
<1> QED
  BY <1>1, <1>4, <1>5 DEF RuleOf

(***************************************************************************)
(* The fetcher.                                                            *)
(***************************************************************************)
RefreshRecord ==
  [phase: {"idle", "fetch", "convert", "smoke", "plain"}, todo: 0 .. NumUrls,
   nodes: Seq(Nodes), plain: SUBSET Plaintext, failed: BOOLEAN, tasks: SUBSET Tasks]

FetcherTypes ==
  /\ stopped \in BOOLEAN
  /\ refresh \in RefreshRecord
  /\ report \in [pending: SUBSET Nodes, failed: BOOLEAN]
  /\ DOMAIN pool \subseteq Ports \cup Plaintext

\* A refresh waits for the reload it asked for, and for no other.
ReloadIsOurs ==
  /\ refresh.phase = "convert" <=> box.reload.phase # "idle"
  /\ refresh.phase = "convert" => box.reload.nodes = refresh.nodes

FetchOK == refresh.phase = "fetch" => refresh.todo > 0 /\ Room(box)

\* Only what the conversion returned is smoked as converted.
TasksOK ==
  /\ refresh.phase = "smoke" => refresh.tasks \subseteq ConvertedExits(refresh.nodes)
  /\ refresh.phase = "plain" => refresh.tasks \subseteq [port: Plaintext]
  /\ refresh.phase \notin {"smoke", "plain"} => refresh.tasks = {}

FetcherIInv ==
  /\ BoxOK(box, stopped)
  /\ FetcherTypes
  /\ ReloadIsOurs
  /\ FetchOK
  /\ TasksOK

LEMMA FetcherInitInv == FetcherInit => FetcherIInv
<1> SUFFICES ASSUME FetcherInit PROVE FetcherIInv
  OBVIOUS
<1>1. box = NewBox /\ stopped = FALSE /\ refresh = NoRefresh
  BY DEF FetcherInit
<1>2. NewBox \in Box /\ NewBox.stops["byReload"] = Quiet /\ NewBox.stops["byFetcher"] = Quiet
  <2>1. [c \in Children |-> [status |-> "none", killed |-> FALSE]] \in
          [Children -> [status: Statuses, killed: BOOLEAN]]
    BY DEF Statuses
  <2>2. [call \in Calls |-> [phase |-> "none", child |-> NoChild, heard |-> FALSE]] \in
          [Calls -> [phase: {"none", "waiting", "forced", "returned"},
                     child: Children \cup {NoChild}, heard: BOOLEAN]]
    OBVIOUS
  <2>3. [phase |-> "idle", nodes |-> << >>, spawned |-> NoChild] \in
          [phase: {"idle", "preparing", "stopping", "waiting"},
           nodes: Seq(Nodes), spawned: Children \cup {NoChild}]
    OBVIOUS
  <2> QED
    BY <2>1, <2>2, <2>3 DEF NewBox, Box, Quiet, Calls
<1>3. Spawned(NewBox) = {} /\ Serving(NewBox) = {} /\ NewBox.reload.phase = "idle"
  BY DEF NewBox, Spawned, Serving, Alive
<1>4. Numbered(NewBox)
  BY <1>3, FS_EmptySet DEF Numbered
<1>5. NewBox.child = NoChild /\ NewBox.running = FALSE
  BY DEF NewBox
<1>6. BoxOK(NewBox, FALSE)
  BY <1>2, <1>3, <1>4, <1>5 DEF BoxOK, ReloadOK, UndisposedOK, Alive
<1>7. NoRefresh \in RefreshRecord /\ NoRefresh.phase = "idle" /\ NoRefresh.tasks = {}
  BY DEF NoRefresh, RefreshRecord
<1>8. FetcherTypes
  <2>1. report = [pending |-> {}, failed |-> FALSE] /\ pool = << >>
    BY DEF FetcherInit
  <2>2. report \in [pending: SUBSET Nodes, failed: BOOLEAN]
    BY <2>1
  <2>3. DOMAIN pool = {}
    BY <2>1
  <2> QED
    BY <1>1, <1>7, <2>2, <2>3 DEF FetcherTypes
<1> QED
  BY <1>1, <1>3, <1>6, <1>7, <1>8 DEF FetcherIInv, ReloadIsOurs, FetchOK, TasksOK

\* A change of phase alone.
LEMMA PhaseMoves ==
  ASSUME NEW r \in RefreshRecord, NEW phase \in {"idle", "fetch", "convert", "smoke", "plain"}
  PROVE  /\ [r EXCEPT !.phase = phase] \in RefreshRecord
         /\ [r EXCEPT !.phase = phase].phase = phase
         /\ [r EXCEPT !.phase = phase].tasks = r.tasks
         /\ [r EXCEPT !.phase = phase].nodes = r.nodes
  BY DEF RefreshRecord

LEMMA RefreshKeeps == FetcherIInv /\ Refresh => FetcherIInv'
<1> SUFFICES ASSUME FetcherIInv, Refresh PROVE FetcherIInv'
  OBVIOUS
<1>1. /\ refresh' = [NoRefresh EXCEPT !.phase = "fetch", !.todo = NumUrls] /\ Room(box)
      /\ box' = box /\ stopped' = stopped /\ report' = report /\ pool' = pool
      /\ refresh.phase = "idle"
  BY DEF Refresh, Room
<1>2. /\ refresh' \in RefreshRecord /\ refresh'.phase = "fetch" /\ refresh'.tasks = {}
      /\ refresh'.todo = NumUrls
  <2>1. NumUrls \in 0 .. NumUrls
    OBVIOUS
  <2>2. refresh' = [phase |-> "fetch", todo |-> NumUrls, nodes |-> << >>, plain |-> {},
                    failed |-> FALSE, tasks |-> {}]
    BY <1>1 DEF NoRefresh
  <2> QED
    BY ONLY <2>1, <2>2 DEF RefreshRecord
<1>3. BoxOK(box, stopped)' /\ FetcherTypes'
  BY <1>1, <1>2 DEF FetcherIInv, FetcherTypes
<1>4. ReloadIsOurs' /\ FetchOK' /\ TasksOK'
  BY <1>1, <1>2 DEF FetcherIInv, ReloadIsOurs, FetchOK, TasksOK
<1> QED
  BY <1>3, <1>4 DEF FetcherIInv

\* A fetch that is not the last leaves the supervisor alone; after the last one
\* the reload is asked for the nodes that were fetched, if there are any.
LEMMA FetchedKeeps ==
  ASSUME FetcherIInv, NEW list \in Seq(Nodes), NEW plain \in SUBSET Plaintext,
         NEW failed \in BOOLEAN, Fetched(list, plain, failed)
  PROVE  FetcherIInv'
<1> DEFINE nodes == refresh.nodes \o list
           last == refresh.todo = 1
           phase == IF ~last THEN refresh.phase ELSE IF nodes = << >> THEN "smoke" ELSE "convert"
           flag == refresh.failed \/ failed
<1>1. /\ BoxOK(box, stopped) /\ FetcherTypes /\ refresh.phase = "fetch"
      /\ refresh.todo > 0 /\ Room(box) /\ box.reload.phase = "idle" /\ refresh.tasks = {}
  BY DEF FetcherIInv, Fetched, FetchOK, ReloadIsOurs, TasksOK
<1>2. /\ refresh \in RefreshRecord /\ refresh.todo \in 0 .. NumUrls
      /\ refresh.nodes \in Seq(Nodes) /\ refresh.plain \in SUBSET Plaintext
      /\ refresh.failed \in BOOLEAN
  BY <1>1 DEF FetcherTypes, RefreshRecord
<1>3. /\ nodes \in Seq(Nodes) /\ flag \in BOOLEAN
      /\ refresh.todo - 1 \in 0 .. NumUrls /\ (~last => refresh.todo - 1 > 0)
      /\ phase \in {"fetch", "smoke", "convert"}
      /\ phase = "fetch" => ~last
      /\ phase = "convert" <=> last /\ nodes # << >>
  BY <1>1, <1>2
<1>4. /\ refresh' = [refresh EXCEPT !.todo = refresh.todo - 1, !.nodes = nodes,
                       !.plain = refresh.plain \cup plain, !.failed = flag, !.phase = phase]
      /\ report' = IF last THEN [pending |-> NodesOf(nodes), failed |-> flag] ELSE report
      /\ box' = IF last /\ nodes # << >> THEN Reload(box, nodes) ELSE box
      /\ stopped' = stopped /\ pool' = pool
  BY <1>2 DEF Fetched, RefreshRecord
<1> HIDE DEF nodes, last, phase, flag
<1>5. /\ refresh' \in RefreshRecord /\ refresh'.phase = phase /\ refresh'.tasks = {}
      /\ refresh'.nodes = nodes /\ refresh'.todo = refresh.todo - 1
  BY ONLY <1>1, <1>2, <1>3, <1>4, plain \in SUBSET Plaintext DEF RefreshRecord
<1>6. NodesOf(nodes) \subseteq Nodes
  BY <1>3 DEF NodesOf
<1>7. FetcherTypes'
  BY <1>1, <1>3, <1>4, <1>5, <1>6 DEF FetcherTypes
<1>8. TasksOK'
  BY <1>3, <1>5 DEF TasksOK
<1>9. CASE last /\ nodes # << >>
  <2>1. BoxOK(box', stopped') /\ box'.reload.phase = "preparing" /\ box'.reload.nodes = nodes
    BY <1>1, <1>3, <1>4, <1>9, ReloadKeeps DEF FetcherTypes
  <2>2. refresh'.phase = "convert" /\ refresh'.nodes = nodes
    BY <1>3, <1>5, <1>9
  <2> QED
    BY <1>7, <1>8, <2>1, <2>2 DEF FetcherIInv, ReloadIsOurs, FetchOK
<1>10. CASE ~(last /\ nodes # << >>)
  <2>1. box' = box /\ stopped' = stopped /\ refresh'.phase # "convert"
    BY <1>3, <1>4, <1>5, <1>10
  <2>2. FetchOK'
    BY <1>1, <1>3, <1>5, <2>1 DEF FetchOK
  <2> QED
    BY <1>1, <1>7, <1>8, <2>1, <2>2 DEF FetcherIInv, ReloadIsOurs
<1> QED
  BY <1>9, <1>10

\* What a step of the supervisor alone leaves of the invariant to be shown.
LEMMA OnlyBox ==
  ASSUME FetcherIInv, UNCHANGED <<stopped, refresh, report, pool>>, BoxOK(box', stopped),
         box'.reload.nodes = box.reload.nodes,
         box'.reload.phase = "idle" <=> box.reload.phase = "idle",
         box.reload.phase = "idle" => Spawned(box') = Spawned(box)
  PROVE  FetcherIInv'
<1>1. FetcherTypes' /\ TasksOK' /\ BoxOK(box, stopped)'
  BY DEF FetcherIInv, FetcherTypes, TasksOK
<1>2. ReloadIsOurs'
  BY DEF FetcherIInv, ReloadIsOurs
<1>3. FetchOK'
  BY DEF FetcherIInv, ReloadIsOurs, FetchOK, Room
<1> QED
  BY <1>1, <1>2, <1>3 DEF FetcherIInv

LEMMA ConversionKeeps == FetcherIInv /\ Conversion => FetcherIInv'
<1> SUFFICES ASSUME FetcherIInv, Conversion PROVE FetcherIInv'
  OBVIOUS
<1>1. /\ BoxOK(box, stopped) /\ box \in Box /\ stopped \in BOOLEAN
      /\ refresh \in RefreshRecord /\ report \in [pending: SUBSET Nodes, failed: BOOLEAN]
      /\ DOMAIN pool \subseteq Ports \cup Plaintext
  BY DEF FetcherIInv, FetcherTypes, BoxOK
<1>2. CASE ReloadPrepares
  <2>1. /\ box' = Prepared(box) /\ box.reload.phase = "preparing"
        /\ UNCHANGED <<stopped, refresh, report, pool>>
    BY <1>2 DEF ReloadPrepares
  <2>2. BoxOK(box', stopped) /\ box'.reload.phase # "idle" /\ box'.reload.nodes = box.reload.nodes
    BY <1>1, <2>1, PreparedKeeps
  <2> QED
    BY <2>1, <2>2, OnlyBox
\* The reload throws: there is nothing to smoke.
<1>3. ASSUME box.reload.phase \in {"preparing", "waiting"}, box' = Reloaded(box),
             refresh' = [refresh EXCEPT !.phase = "smoke"],
             report' = [report EXCEPT !.failed = TRUE], UNCHANGED <<stopped, pool>>
      PROVE  FetcherIInv'
  <2>1. refresh.phase = "convert" /\ refresh.tasks = {}
    BY <1>3 DEF FetcherIInv, ReloadIsOurs, TasksOK
  <2>2. refresh' \in RefreshRecord /\ refresh'.phase = "smoke" /\ refresh'.tasks = {}
    BY <1>1, <1>3, <2>1, PhaseMoves
  <2>3. report' \in [pending: SUBSET Nodes, failed: BOOLEAN]
    BY ONLY <1>1, <1>3
  <2>4. BoxOK(box', stopped') /\ box'.reload.phase = "idle"
    BY <1>1, <1>3, ReloadedKeeps
  <2>5. FetcherTypes'
    BY <1>1, <1>3, <2>2, <2>3 DEF FetcherTypes
  <2> QED
    BY <2>2, <2>4, <2>5 DEF FetcherIInv, ReloadIsOurs, FetchOK, TasksOK
<1>4. CASE ReloadFails
  BY <1>3, <1>4 DEF ReloadFails
<1>5. CASE ReloadSeesExit
  BY <1>3, <1>5 DEF ReloadSeesExit
<1>6. CASE ReloadReturns
  <2> DEFINE exits == NewExits(ConvertedExits(box.reload.nodes))
  <2>1. /\ box.reload.phase = "waiting" /\ box' = Reloaded(box)
        /\ refresh' = [refresh EXCEPT !.phase = "smoke", !.tasks = exits]
        /\ UNCHANGED <<stopped, report, pool>>
    BY <1>6 DEF ReloadReturns
  <2>2. box.reload.nodes = refresh.nodes /\ box.reload.nodes \in Seq(Nodes)
    BY <1>1, <2>1, BoxParts DEF FetcherIInv, ReloadIsOurs
  <2>3. exits \subseteq ConvertedExits(refresh.nodes)
    BY <2>2 DEF NewExits
  <2>4. exits \in SUBSET Tasks
    BY <2>2, <2>3, ExitsLeadHome DEF Tasks
  <2> HIDE DEF exits
  <2>5. /\ refresh' \in RefreshRecord /\ refresh'.phase = "smoke" /\ refresh'.tasks = exits
        /\ refresh'.nodes = refresh.nodes
    <3>1. "smoke" \in {"idle", "fetch", "convert", "smoke", "plain"}
      OBVIOUS
    <3>2. refresh' = [refresh EXCEPT !.phase = "smoke", !.tasks = exits]
      BY <2>1
    <3> QED
      BY ONLY <1>1, <2>4, <3>1, <3>2 DEF RefreshRecord
  <2>6. BoxOK(box', stopped') /\ box'.reload.phase = "idle"
    BY <1>1, <2>1, ReloadedKeeps
  <2>7. FetcherTypes'
    BY <1>1, <2>1, <2>5 DEF FetcherTypes
  <2> QED
    BY <2>3, <2>5, <2>6, <2>7 DEF FetcherIInv, ReloadIsOurs, FetchOK, TasksOK
<1> QED
  BY <1>2, <1>4, <1>5, <1>6 DEF Conversion

LEMMA SmokeKeeps ==
  ASSUME FetcherIInv, NEW task, Smoke(task)
  PROVE  FetcherIInv'
<1>1. /\ BoxOK(box, stopped) /\ stopped \in BOOLEAN
      /\ refresh \in RefreshRecord /\ report \in [pending: SUBSET Nodes, failed: BOOLEAN]
      /\ DOMAIN pool \subseteq Ports \cup Plaintext
  BY DEF FetcherIInv, FetcherTypes
<1> DEFINE rest == refresh.tasks \ {task}
<1>2. /\ task \in refresh.tasks /\ box' = box /\ stopped' = stopped
      /\ refresh' = [refresh EXCEPT !.tasks = rest]
  BY <1>1 DEF Smoke, RefreshRecord
<1>3. refresh.tasks \in SUBSET Tasks
  BY <1>1 DEF RefreshRecord
<1>4. rest \in SUBSET Tasks
  BY <1>3
<1> HIDE DEF rest
<1>5. /\ refresh' \in RefreshRecord /\ refresh'.phase = refresh.phase /\ refresh'.tasks = rest
      /\ refresh'.nodes = refresh.nodes /\ refresh'.todo = refresh.todo
  BY ONLY <1>1, <1>2, <1>4 DEF RefreshRecord
<1>6. task.port \in Ports \cup Plaintext
  BY <1>2, <1>3 DEF Tasks
<1>7. DOMAIN pool' \subseteq Ports \cup Plaintext
  BY <1>1, <1>6 DEF Smoke
<1>8. report' \in [pending: SUBSET Nodes, failed: BOOLEAN]
  <2>1. report' = report \/ report' = [report EXCEPT !.pending = report.pending \ {task.node}]
    BY <1>1 DEF Smoke
  <2> QED
    BY ONLY <1>1, <2>1
<1>9. FetcherTypes'
  BY <1>1, <1>2, <1>5, <1>7, <1>8 DEF FetcherTypes
<1>10. ReloadIsOurs' /\ FetchOK' /\ TasksOK'
  BY <1>2, <1>5 DEF FetcherIInv, ReloadIsOurs, FetchOK, TasksOK, rest
<1> QED
  BY <1>1, <1>2, <1>9, <1>10 DEF FetcherIInv

LEMMA PlaintextKeeps == FetcherIInv /\ (PlaintextNext \/ RefreshReturns) => FetcherIInv'
<1> SUFFICES ASSUME FetcherIInv, PlaintextNext \/ RefreshReturns PROVE FetcherIInv'
  OBVIOUS
<1>1. /\ BoxOK(box, stopped) /\ FetcherTypes /\ refresh \in RefreshRecord
      /\ box' = box /\ stopped' = stopped /\ report' = report /\ pool' = pool
      /\ refresh.phase \in {"smoke", "plain"} /\ box.reload.phase = "idle"
  BY DEF FetcherIInv, FetcherTypes, ReloadIsOurs, PlaintextNext, RefreshReturns, RefreshRecord, BoxOK, Box
<1>2. CASE PlaintextNext
  <2> DEFINE exits == NewExits([port: refresh.plain])
  <2>1. exits \subseteq [port: Plaintext] /\ exits \in SUBSET Tasks
    BY <1>1 DEF NewExits, RefreshRecord, Tasks
  <2>2. refresh' = [refresh EXCEPT !.phase = "plain", !.tasks = exits]
    BY <1>2 DEF PlaintextNext
  <2> HIDE DEF exits
  <2>3. refresh' \in RefreshRecord /\ refresh'.phase = "plain" /\ refresh'.tasks = exits
    BY ONLY <1>1, <2>1, <2>2 DEF RefreshRecord
  <2> QED
    BY <1>1, <2>1, <2>3 DEF FetcherIInv, FetcherTypes, ReloadIsOurs, FetchOK, TasksOK
<1>3. CASE RefreshReturns
  <2>1. refresh' \in RefreshRecord /\ refresh'.phase = "idle" /\ refresh'.tasks = {}
    BY <1>3 DEF RefreshReturns, NoRefresh, RefreshRecord
  <2> QED
    BY <1>1, <2>1 DEF FetcherIInv, FetcherTypes, ReloadIsOurs, FetchOK, TasksOK
<1> QED
  BY <1>2, <1>3

LEMMA ChildExitKeeps ==
  ASSUME FetcherIInv, NEW c \in Children, NEW kind \in {"exited", "signalled"},
         ChildExits(c, kind)
  PROVE  FetcherIInv'
<1>1. BoxOK(box, stopped) /\ stopped \in BOOLEAN
  BY DEF FetcherIInv, FetcherTypes
<1>2. /\ box' = Exited(box, c, kind) /\ Alive(box, c)
      /\ UNCHANGED <<stopped, refresh, report, pool>>
  BY DEF ChildExits
<1>3. /\ BoxOK(box', stopped) /\ box'.reload.nodes = box.reload.nodes
      /\ box'.reload.phase = "idle" <=> box.reload.phase = "idle"
      /\ box.reload.phase = "idle" => Spawned(box') = Spawned(box)
  BY <1>1, <1>2, ExitKeeps
<1> QED
  BY <1>2, <1>3, OnlyBox

LEMMA StopsKeep ==
  ASSUME FetcherIInv, StopFetcher \/ \E call \in Calls : GraceEnds(call)
  PROVE  FetcherIInv'
<1>1. BoxOK(box, stopped) /\ stopped \in BOOLEAN
  BY DEF FetcherIInv, FetcherTypes
<1>2. CASE StopFetcher
  <2>1. /\ box' = Stop(box, "byFetcher") /\ stopped = FALSE /\ stopped' = TRUE
        /\ refresh' = refresh /\ report' = report /\ pool' = pool
    BY <1>1, <1>2 DEF StopFetcher
  <2>2. BoxOK(box', TRUE) /\ box'.reload = box.reload /\ Spawned(box') = Spawned(box)
    BY <1>1, <2>1, DisposalKeeps
  <2>3. FetcherTypes' /\ TasksOK'
    BY <2>1 DEF FetcherIInv, FetcherTypes, TasksOK
  <2>4. ReloadIsOurs' /\ FetchOK'
    BY <2>1, <2>2 DEF FetcherIInv, ReloadIsOurs, FetchOK, Room
  <2> QED
    BY <2>1, <2>2, <2>3, <2>4 DEF FetcherIInv
<1>3. CASE \E call \in Calls : GraceEnds(call)
  <2>1. PICK call \in Calls : GraceEnds(call)
    BY <1>3
  <2>2. /\ box' = Forced(box, call) /\ box.stops[call].phase = "waiting"
        /\ UNCHANGED <<stopped, refresh, report, pool>>
    BY <2>1 DEF GraceEnds
  <2>3. BoxOK(box', stopped) /\ box'.reload = box.reload /\ Spawned(box') = Spawned(box)
    BY <1>1, <2>2, ForcedKeeps
  <2> QED
    BY <2>2, <2>3, OnlyBox
<1> QED
  BY <1>2, <1>3

LEMMA FetcherStep == FetcherIInv /\ [FetcherNext]_fetcherVars => FetcherIInv'
<1> SUFFICES ASSUME FetcherIInv, [FetcherNext]_fetcherVars PROVE FetcherIInv'
  OBVIOUS
<1>1. CASE FetchAnswers
  BY <1>1, FetchedKeeps DEF FetchAnswers
<1>2. CASE FetchFails
  <2>1. Fetched(<< >>, {}, TRUE)
    BY <1>2 DEF FetchFails
  <2>2. << >> \in Seq(Nodes) /\ {} \in SUBSET Plaintext /\ TRUE \in BOOLEAN
    OBVIOUS
  <2> QED
    BY ONLY <2>1, <2>2, FetcherIInv, FetchedKeeps
<1>3. CASE \E c \in Children : Crash(c) \/ Obeys(c)
  <2>1. PICK c \in Children, kind \in {"exited", "signalled"} : ChildExits(c, kind)
    BY <1>3 DEF Crash, Obeys
  <2> QED
    BY <2>1, ChildExitKeeps
<1>4. CASE UNCHANGED fetcherVars
  <2>1. /\ box' = box /\ stopped' = stopped /\ refresh' = refresh /\ report' = report
        /\ pool' = pool
    BY <1>4 DEF fetcherVars
  <2> QED
    BY <2>1 DEF FetcherIInv, FetcherTypes, ReloadIsOurs, FetchOK, TasksOK
<1> QED
  BY <1>1, <1>2, <1>3, <1>4, RefreshKeeps, ConversionKeeps, SmokeKeeps, PlaintextKeeps, StopsKeep
  DEF FetcherNext

LEMMA FetcherInductive == FetcherSpec => []FetcherIInv
<1> QED
  BY FetcherInitInv, FetcherStep, PTL DEF FetcherSpec

\* Until the disposal one sing-box child serves at a time and the flag `running`
\* tells the truth about it, whenever children end and reloads fail.
THEOREM FetcherSound == FetcherSpec => []SubscriptionsInv
<1>1. ASSUME FetcherIInv PROVE SubscriptionsInv
  <2>1. BoxOK(box, stopped) /\ box \in Box /\ FetcherTypes
    BY <1>1 DEF FetcherIInv, BoxOK
  <2>2. FetcherTypeOK
    <3>1. IsBox(box)
      BY <2>1, BoxParts DEF IsBox, Statuses
    <3> QED
      BY <2>1, <3>1 DEF FetcherTypeOK, FetcherTypes, RefreshRecord
  <2>3. FlagTruthful
    BY <2>1 DEF BoxOK, UndisposedOK, FlagTruthful
  <2>4. ASSUME ~stopped PROVE Cardinality(Serving(box)) <= 1
    <3>1. \E c : Serving(box) \subseteq {c}
      BY <2>1, <2>4 DEF BoxOK, UndisposedOK
    <3>2. PICK c : Serving(box) \subseteq {c}
      BY <3>1
    <3>3. IsFiniteSet({c}) /\ Cardinality({c}) = 1
      BY FS_Singleton
    <3>4. Serving(box) \in SUBSET {c}
      BY <3>2
    <3>5. IsFiniteSet(Serving(box)) /\ Cardinality(Serving(box)) <= Cardinality({c})
      BY <3>3, <3>4, FS_Subset
    <3> QED
      BY <3>3, <3>5
  <2> QED
    BY <2>2, <2>3, <2>4 DEF SubscriptionsInv, OneChildServes, Serving
<1> QED
  BY <1>1, FetcherInductive, PTL

\* A port that is smoked leads to a node with the key of the one the exit is
\* admitted for, whatever the subscriptions list.
THEOREM SmokesTheirNode == FetcherSpec => []SmokeSeesItsNode
<1>1. ASSUME FetcherIInv PROVE SmokeSeesItsNode
  <2>1. refresh.nodes \in Seq(Nodes)
    BY <1>1 DEF FetcherIInv, FetcherTypes, RefreshRecord
  <2> QED
    BY <1>1, <2>1, ExitsLeadHome DEF SmokeSeesItsNode, FetcherIInv, TasksOK
<1> QED
  BY <1>1, FetcherInductive, PTL
=============================================================================
