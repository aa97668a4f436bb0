------------------------------- MODULE Prober -------------------------------
(***************************************************************************)
(* The probe scheduler (packages/plugin/src/pool/prober.ts) on top of the  *)
(* exit pool whose per-exit lock it uses: tasks wait in a queue, at most   *)
(* maxConcurrent of them run, and a task whose exit is locked is skipped   *)
(* in favour of a later one. While a task runs (it awaits the network) the *)
(* refill round and the request dispatcher keep writing the same pool.     *)
(*                                                                         *)
(* Every method of the class is synchronous up to the task's first await,  *)
(* so each is one step, the pump it ends with included. enqueueAll is      *)
(* Enqueue of its tasks one after the other.                               *)
(***************************************************************************)
EXTENDS ExitPoolOps, Sequences

CONSTANTS
  Tasks,         \* probe tasks, each enqueued at most once
  ExitOf,        \* task -> the exit it probes
  Steady,        \* exits that stay in the pool and are not struck
  Limits,        \* values setMaxConcurrent is called with, 0 included
  InitialLimit,
  Waiters,       \* callers of drained()
  NoWaiter

ASSUME ProberAssumption ==
  /\ ExitOf \in [Tasks -> Exits]
  /\ Steady \subseteq Exits
  /\ Limits \subseteq Nat
  /\ InitialLimit \in Nat \ {0}
  /\ NoWaiter \notin Waiters

VARIABLES
  pool,
  maxConcurrent,
  queue,     \* tasks in the order they will be looked at
  running,   \* tasks in flight: #inFlight is their number
  settled,   \* tasks whose promise has resolved
  drained,   \* the one waiter #drained remembers, or NoWaiter
  waiting    \* waiter -> where its drained() call stands

vars == <<pool, maxConcurrent, queue, running, settled, drained, waiting>>

Queued == {queue[i] : i \in DOMAIN queue}

TypeOK ==
  /\ IsPool(pool)
  /\ maxConcurrent \in Nat \ {0}
  /\ queue \in Seq(Tasks)
  /\ Cardinality(Queued) = Len(queue)
  /\ running \subseteq Tasks
  /\ settled \subseteq Tasks
  /\ Queued \cap running = {} /\ settled \cap (Queued \cup running) = {}
  /\ drained \in Waiters \cup {NoWaiter}
  /\ waiting \in [Waiters -> {"none", "blocked", "woken", "resolved"}]

FreeNode == [source |-> "free", exitIP |-> NoIP, latencyMs |-> 400, addedAt |-> 0]

Init ==
  /\ pool = [EmptyPool(1) EXCEPT
               !.nodes  = [e \in Steady |-> FreeNode],
               !.health = [e \in Steady |-> [FreshHealth EXCEPT !.state = "ok"]]]
  /\ maxConcurrent = InitialLimit
  /\ queue = << >>
  /\ running = {}
  /\ settled = {}
  /\ drained = NoWaiter
  /\ waiting = [w \in Waiters |-> "none"]

Idle == queue = << >> /\ running = {}

\* Slip: a task whose exit is locked is started all the same.
BusyNever(p, e) == FALSE

\* An exit outside the pool has no lock to take, and is never busy.
IsExitBusy(p, e) == e \in DOMAIN p.nodes /\ ~LockFree(p, e)

\* pump starts the i-th task when, of the tasks before it, exactly those in
\* `earlier` were started: there is a slot and nobody holds the exit's lock.
Starts(p, q, run, limit, earlier, i) ==
  /\ Cardinality(run) + Cardinality(earlier) < limit
  /\ ~IsExitBusy(p, ExitOf[q[i]])
  /\ \A j \in earlier : ExitOf[q[j]] = ExitOf[q[i]] => ExitOf[q[i]] \notin DOMAIN p.nodes

TakeLocks(p, exits) ==
  [p EXCEPT !.health = [e \in DOMAIN p.health |->
     IF e \in exits THEN [p.health[e] EXCEPT !.inflight = TRUE] ELSE p.health[e]]]

\* The tasks at the places of `rest` stay in the queue, in their order.
Leaves(q, rest) ==
  \E place \in [1 .. Cardinality(rest) -> rest] :
    /\ \A a, b \in DOMAIN place : a < b => place[a] < place[b]
    /\ {place[a] : a \in DOMAIN place} = rest
    /\ queue' = [a \in DOMAIN place |-> q[place[a]]]

\* Locks are only taken during a pump, so its repeated search from the front
\* of the queue is one scan of it.
Pump(p, q, run, limit) ==
  \E chosen \in SUBSET DOMAIN q :
    LET started == {q[i] : i \in chosen}
    IN  /\ \A i \in DOMAIN q :
             i \in chosen <=> Starts(p, q, run, limit, {j \in chosen : j < i}, i)
        /\ Leaves(q, DOMAIN q \ chosen)
        /\ running' = run \cup started
        /\ pool' = TakeLocks(p, {ExitOf[t] : t \in started})

\* Slip: idleness is read before the step.
WakeIfWasIdle ==
  IF Idle /\ drained # NoWaiter
  THEN /\ drained' = NoWaiter
       /\ waiting' = [waiting EXCEPT ![drained] = "woken"]
  ELSE UNCHANGED <<drained, waiting>>

\* The end of pump: an idle scheduler wakes the waiter it remembers.
WakeIfIdle ==
  IF queue' = << >> /\ running' = {} /\ drained # NoWaiter
  THEN /\ drained' = NoWaiter
       /\ waiting' = [waiting EXCEPT ![drained] = "woken"]
  ELSE UNCHANGED <<drained, waiting>>

Enqueue(t) ==
  /\ t \notin Queued \cup running \cup settled
  /\ Pump(pool, Append(queue, t), running, maxConcurrent)
  /\ WakeIfIdle
  /\ UNCHANGED <<maxConcurrent, settled>>

\* Slip: the lock is not released.
SettleKeepingLock(t) ==
  /\ t \in running
  /\ settled' = settled \cup {t}
  /\ Pump(pool, queue, running \ {t}, maxConcurrent)
  /\ WakeIfIdle
  /\ UNCHANGED maxConcurrent

\* Slip: the slot is given back and nothing is pumped.
SettleWithoutPump(t) ==
  /\ t \in running
  /\ settled' = settled \cup {t}
  /\ running' = running \ {t}
  /\ pool' = ReleaseProbeLock(pool, ExitOf[t])
  /\ UNCHANGED <<maxConcurrent, queue, drained, waiting>>

\* The task's promise settles, with a value or with an error.
Settle(t) ==
  /\ t \in running
  /\ settled' = settled \cup {t}
  /\ Pump(ReleaseProbeLock(pool, ExitOf[t]), queue, running \ {t}, maxConcurrent)
  /\ WakeIfIdle
  /\ UNCHANGED maxConcurrent

SetMaxConcurrent(value) ==
  /\ maxConcurrent' = IF value > 1 THEN value ELSE 1
  /\ Pump(pool, queue, running, maxConcurrent')
  /\ WakeIfIdle
  /\ UNCHANGED settled

\* One turn of drained()'s loop: on the call, and after each wake-up.
CheckDrained(w) ==
  /\ waiting[w] \in {"none", "woken"}
  /\ IF Idle
     THEN waiting' = [waiting EXCEPT ![w] = "resolved"] /\ UNCHANGED drained
     ELSE waiting' = [waiting EXCEPT ![w] = "blocked"] /\ drained' = w
  /\ UNCHANGED <<pool, maxConcurrent, queue, running, settled>>

(***************************************************************************)
(* The pool's other users, on the exits that are not steady: an admission, *)
(* a dead strike (of a probe or of a real request), the replace flow.      *)
(***************************************************************************)
Elsewhere(p) == pool' = p /\ UNCHANGED <<maxConcurrent, queue, running, settled, drained, waiting>>

Admit(e) == e \notin Steady /\ Elsewhere(MarkOk(Add(pool, e, FreeNode), e))

StrikeDead(e) == e \in DOMAIN pool.nodes \ Steady /\ Elsewhere(MarkDeadStrike(pool, e))

Evict(e) == e \in WorstFree(pool) \ Steady /\ Elsewhere(Remove(pool, e))

Next ==
  \/ \E t \in Tasks : Enqueue(t) \/ Settle(t)
  \/ \E value \in Limits : SetMaxConcurrent(value)
  \/ \E w \in Waiters : CheckDrained(w)
  \/ \E e \in Exits : Admit(e) \/ StrikeDead(e) \/ Evict(e)

\* A probe ends, because every fetch in it has a timeout, and an awaited
\* promise that has resolved continues.
Fairness ==
  /\ \A t \in Tasks : WF_vars(Settle(t))
  /\ \A w \in Waiters : WF_vars(waiting[w] = "woken" /\ CheckDrained(w))

Spec == Init /\ [][Next]_vars /\ Fairness

(***************************************************************************)
(* Properties.                                                             *)
(***************************************************************************)

\* Two probes of one exit never run together as long as nothing else writes
\* that exit's health record, whatever happens to the other exits.
SteadySerial ==
  \A a, b \in running : (a # b /\ ExitOf[a] = ExitOf[b]) => ExitOf[a] \notin Steady

\* A lock is held only on behalf of a probe that is still running, across
\* evictions, readmissions and strikes: no exit stays locked for good.
LocksBelongToProbes ==
  \A e \in DOMAIN pool.health :
    pool.health[e].inflight => \E t \in running : ExitOf[t] = e

\* No task waits behind another one's lock: while a slot is free, every queued
\* task of a steady exit waits for its own exit.
NoHeadOfLineBlocking ==
  \A t \in Queued :
    (ExitOf[t] \in Steady /\ ~pool.health[ExitOf[t]].inflight)
      => Cardinality(running) >= maxConcurrent

\* What each step relies on: the types, locks that belong to probes, and a
\* queue in which nobody waits behind another one's lock.
ProberInv == TypeOK /\ LocksBelongToProbes /\ NoHeadOfLineBlocking

\* No task is overtaken for ever: its promise resolves.
TasksSettle == \A t \in Tasks : t \in Queued ~> t \in settled

\* drained() resolves for its caller once the queue drains, whatever is queued
\* in between. (There is room for one caller: a second one takes its place.)
DrainedResolves == \A w \in Waiters : waiting[w] = "blocked" ~> waiting[w] = "resolved"
=============================================================================
