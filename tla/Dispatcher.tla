----------------------------- MODULE Dispatcher -----------------------------
(***************************************************************************)
(* Requests on their way through the exit pool: the routing decision, the  *)
(* cache of per-exit agents and the observer that turns a request's own    *)
(* outcome into a health signal (packages/plugin/src/pool/dispatcher.ts).  *)
(*                                                                         *)
(* The dispatcher and the handlers are synchronous; between two callbacks  *)
(* of one request, other requests run, the clock moves and other parts of  *)
(* the plugin write the pool. undici, which calls the handlers, is not     *)
(* part of the repository: its callbacks may come in any order its         *)
(* protocol allows, an error at any point, or not at all. The requests     *)
(* are those to a proxied host; any other bypasses the pool.               *)
(***************************************************************************)
EXTENDS ExitPoolOps, Sequences

CONSTANTS
  Requests,
  SessionOf, ModelOf,  \* the routing context a request carries
  SourceOf, LatencyOf, \* the nodes the pool starts with
  Pinned,              \* the pinned one, or NoExit
  Steady,              \* exits that only requests touch
  Unbuildable,         \* exits for which new ProxyAgent throws
  AgentLruCap,         \* #agentLruCap
  MaxClock             \* bound on the clock

ASSUME DispatcherAssumption ==
  /\ SessionOf \in [Requests -> Sessions]
  /\ ModelOf \in [Requests -> Models]
  /\ SourceOf \in [Exits -> Sources]
  /\ LatencyOf \in [Exits -> Nat]
  /\ Pinned \in Exits \cup {NoExit}
  /\ Steady \subseteq Exits
  /\ Unbuildable \subseteq Exits
  /\ AgentLruCap \in Nat \ {0}
  /\ MaxClock \in Nat

VARIABLES
  pool,
  now,
  agents,      \* exits that have an agent: the keys of #agents
  agentsOrder, \* #agentsOrder, least recently used first
  closed,      \* #closed
  req          \* request -> its progress and the state of its observer

dispatcherVars == <<pool, now, agents, agentsOrder, closed, req>>

Elements(seq) == {seq[i] : i \in DOMAIN seq}

\* waiting: no callback yet; started: onRequestStart; answering: first byte,
\* onResponseStarted; streaming: headers, onResponseStart; over: no callback
\* is left; direct: sent without the pool, and not observed.
Phases == {"idle", "direct", "waiting", "started", "answering", "streaming", "over"}

\* status: what onResponseStart forwarded; errors: how often the handler got
\* onResponseError; timer: the sentinel's window; controller: liveController
\* is set; classified, aborted: as in the code.
Observer == [phase: Phases, exit: Exits \cup {NoExit}, classified: BOOLEAN,
             timer: {"off", "connect", "headers"}, controller: BOOLEAN,
             aborted: BOOLEAN, status: Statuses \cup {"none"}, errors: Nat]

FreshObserver == [phase |-> "idle", exit |-> NoExit, classified |-> FALSE,
                  timer |-> "off", controller |-> FALSE, aborted |-> FALSE,
                  status |-> "none", errors |-> 0]

TypeOK ==
  /\ IsPool(pool) /\ now \in Nat
  /\ agents \subseteq Exits /\ agentsOrder \in Seq(Exits)
  /\ closed \in BOOLEAN
  /\ req \in [Requests -> Observer]

Init ==
  /\ pool = [EmptyPool(1) EXCEPT
       !.nodes  = [e \in Exits |-> [source |-> SourceOf[e], exitIP |-> NoIP,
                                    latencyMs |-> LatencyOf[e], addedAt |-> 0]],
       !.health = [e \in Exits |-> [FreshHealth EXCEPT !.state = "ok"]],
       !.pinned = Pinned]
  /\ now = 0
  /\ agents = {}
  /\ agentsOrder = << >>
  /\ closed = FALSE
  /\ req = [r \in Requests |-> FreshObserver]

(***************************************************************************)
(* dispatch.                                                               *)
(***************************************************************************)

\* Slip: a hit appends the exit without taking its old place out.
TouchTwice(e) == agentsOrder' = Append(agentsOrder, e) /\ UNCHANGED agents

\* indexOf and splice.
Spliced(seq, e) ==
  IF e \notin Elements(seq) THEN seq
  ELSE LET index == CHOOSE i \in DOMAIN seq : seq[i] = e
       IN  [i \in 1 .. (Len(seq) - 1) |-> IF i < index THEN seq[i] ELSE seq[i + 1]]

Touch(e) == agentsOrder' = Append(Spliced(agentsOrder, e), e) /\ UNCHANGED agents

BuildAgent(e) ==
  LET order == Append(agentsOrder, e)
  IN  IF Len(order) > AgentLruCap
      THEN agentsOrder' = Tail(order) /\ agents' = (agents \cup {e}) \ {Head(order)}
      ELSE agentsOrder' = order /\ agents' = agents \cup {e}

\* agentFor returns an agent for e.
AgentFor(e) ==
  IF e \in agents THEN Touch(e)
  ELSE e \in DOMAIN pool.nodes /\ e \notin Unbuildable /\ BuildAgent(e)

HasAgent(e) == e \in agents \/ (e \in DOMAIN pool.nodes /\ e \notin Unbuildable)

RejectClosed(r) ==
  /\ closed
  /\ req' = [req EXCEPT ![r].phase = "over", ![r].errors = @ + 1]
  /\ UNCHANGED <<pool, agents, agentsOrder>>

SendDirect(r) ==
  /\ req' = [req EXCEPT ![r].phase = "direct"]
  /\ UNCHANGED <<agents, agentsOrder>>

SendThrough(r, e) ==
  /\ AgentFor(e)
  /\ req' = [req EXCEPT ![r] = [FreshObserver EXCEPT !.phase = "waiting", !.exit = e,
                                                     !.timer = "connect"]]

Dispatch(r) ==
  /\ req[r].phase = "idle"
  /\ \/ RejectClosed(r)
     \/ /\ ~closed
        /\ \E e \in PickResults(pool, SessionOf[r], ModelOf[r], now) :
             /\ pool' = AfterPick(pool, SessionOf[r], ModelOf[r], e, now)
             /\ IF e # NoExit /\ HasAgent(e) THEN SendThrough(r, e) ELSE SendDirect(r)
  /\ UNCHANGED <<now, closed>>

(***************************************************************************)
(* The observer's callbacks.                                               *)
(***************************************************************************)
Observes(r, rec) ==
  /\ req' = [req EXCEPT ![r] = rec]
  /\ UNCHANGED <<now, agents, agentsOrder, closed>>

\* recordPassive's verdict decides whether the session is moved.
Classify(r, status) ==
  LET p == RecordPassive(pool, req[r].exit, status, ModelOf[r], now)
  IN  pool' = IF req[r].classified THEN pool
              ELSE IF status = "2xx" \/ req[r].exit \notin DOMAIN pool.nodes THEN p
              ELSE RerouteSession(p, SessionOf[r])

\* Slip: no `if (classified) return`.
ClassifyTransportAgain(r) ==
  pool' = RerouteSession(RecordPassiveTransport(pool, req[r].exit), SessionOf[r])

ClassifyTransport(r) ==
  pool' = IF req[r].classified THEN pool
          ELSE RerouteSession(RecordPassiveTransport(pool, req[r].exit), SessionOf[r])

\* What classifyTransport does to the request itself: it hands the handler
\* an error and aborts the controller, once.
TornDown(rec) ==
  IF rec.classified THEN rec
  ELSE [rec EXCEPT !.classified = TRUE, !.errors = @ + 1, !.aborted = rec.controller]

\* Slip: the second window is not armed.
OnRequestStartDisarming(r) ==
  /\ req[r].phase = "waiting"
  /\ Observes(r, [req[r] EXCEPT !.phase = "started", !.controller = TRUE, !.timer = "off"])
  /\ UNCHANGED pool

OnRequestStart(r) ==
  /\ req[r].phase = "waiting"
  /\ Observes(r, [req[r] EXCEPT !.phase = "started", !.controller = TRUE, !.timer = "headers"])
  /\ UNCHANGED pool

OnResponseStarted(r) ==
  /\ req[r].phase = "started" /\ ~req[r].aborted
  /\ Observes(r, [req[r] EXCEPT !.phase = "answering", !.timer = "off"])
  /\ UNCHANGED pool

OnResponseStart(r) ==
  /\ req[r].phase \in {"started", "answering"} /\ ~req[r].aborted
  /\ \E status \in Statuses \ {"region"} :
       /\ Classify(r, status)
       /\ Observes(r, [req[r] EXCEPT !.phase = "streaming", !.timer = "off",
                                     !.classified = TRUE, !.status = status])

OnResponseEnd(r) ==
  /\ req[r].phase = "streaming"
  /\ Observes(r, [req[r] EXCEPT !.phase = "over", !.timer = "off"])
  /\ UNCHANGED pool

\* A broken connection, a destroyed agent, or the answer to an abort.
OnResponseError(r) ==
  /\ req[r].phase \in {"waiting", "started", "answering", "streaming"}
  /\ ClassifyTransport(r)
  /\ LET rec == TornDown([req[r] EXCEPT !.controller = TRUE, !.timer = "off"])
     IN  Observes(r, [rec EXCEPT !.phase = "over", !.errors = @ + 1])

SentinelFires(r) ==
  /\ req[r].timer # "off"
  /\ ClassifyTransport(r)
  /\ Observes(r, TornDown([req[r] EXCEPT !.timer = "off"]))

\* Without the pool there is no observer, only an answer or an error.
DirectEnds(r) ==
  /\ req[r].phase = "direct"
  /\ \/ \E status \in Statuses : Observes(r, [req[r] EXCEPT !.phase = "over", !.status = status])
     \/ Observes(r, [req[r] EXCEPT !.phase = "over", !.errors = @ + 1])
  /\ UNCHANGED pool

(***************************************************************************)
(* The rest of the plugin, and time.                                       *)
(***************************************************************************)
Elsewhere(p) == pool' = p /\ UNCHANGED <<now, agents, agentsOrder, closed, req>>

ProbeOk(e) == e \in DOMAIN pool.nodes \ Steady /\ Elsewhere(MarkOk(pool, e))

Evict(e) == e \in WorstFree(pool) \ Steady /\ Elsewhere(Remove(pool, e))

Tick ==
  /\ now < MaxClock
  /\ now' = now + 1
  /\ UNCHANGED <<pool, agents, agentsOrder, closed, req>>

Close == closed' = TRUE /\ UNCHANGED <<pool, now, agents, agentsOrder, req>>

Destroy ==
  /\ closed' = TRUE
  /\ agents' = {}
  /\ agentsOrder' = << >>
  /\ UNCHANGED <<pool, now, req>>

RequestStep(r) ==
  \/ OnRequestStart(r) \/ OnResponseStarted(r) \/ OnResponseStart(r)
  \/ OnResponseEnd(r) \/ OnResponseError(r) \/ SentinelFires(r) \/ DirectEnds(r)

EnvironmentStep ==
  \/ \E e \in Exits : ProbeOk(e) \/ Evict(e)
  \/ Tick \/ Close \/ Destroy

\* An armed timer fires.
Fairness == \A r \in Requests : WF_dispatcherVars(SentinelFires(r))

(***************************************************************************)
(* Properties.                                                             *)
(***************************************************************************)

\* The cache and its usage order hold the same exits, each once, and never
\* more than the cap: an evicted agent is one that nobody can find any more.
AgentsMatchOrder ==
  /\ Elements(agentsOrder) = agents
  /\ Cardinality(agents) = Len(agentsOrder)
  /\ Len(agentsOrder) <= AgentLruCap

\* A request gives its exit at most one signal: no sentinel that races a late
\* answer, no stream that dies half-way, speaks a second time.
OneSignalPerRequest ==
  [][\A r \in Requests :
       (req[r].classified /\ req'[r] # req[r]) => pool' = pool]_dispatcherVars

\* After a request died in transport or was rate limited, its session is not
\* sent to the same exit again (until another signal revives that exit).
FailureLeavesExit ==
  [][\A r \in Requests :
       (~req[r].classified /\ req'[r].classified /\ req'[r].status \in {"none", "429"}) =>
         req[r].exit \notin PickResults(pool', SessionOf[r], ModelOf[r], now)]_dispatcherVars

\* A request whose exit says nothing is not left hanging: the sentinel hands
\* its handler an error, before the tunnel stands and after.
Silent(r) == req[r].phase \in {"waiting", "started"} /\ req[r].errors = 0

SilenceIsBroken == \A r \in Requests : Silent(r) ~> ~Silent(r)
=============================================================================
