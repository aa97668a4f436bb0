---------------------------- MODULE Subscriptions ----------------------------
(***************************************************************************)
(* The subscription layer (packages/plugin/src/pool/subscription-fetcher   *)
(* .ts) on the sing-box supervisor: a refresh fetches the subscription     *)
(* URLs one after the other, has the encrypted nodes converted to local    *)
(* ports, smokes those and the plaintext nodes, and puts them into the     *)
(* pool. The trusted admission keeps every node; only the exit IP of       *)
(* another exit makes the pool refuse it.                                  *)
(***************************************************************************)
EXTENDS SingBox

CONSTANTS
  NumUrls,    \* length of #urls
  Bodies,     \* lists of encrypted nodes a subscription may answer with
  Plaintext,  \* addresses of plaintext nodes
  CrashKinds  \* how a child may end unasked: "exited", "signalled"

ASSUME SubscriptionsAssumption ==
  /\ MaxChildren \in Nat /\ NumUrls \in Nat \ {0}
  /\ Bodies \subseteq Seq(Nodes)
  /\ CrashKinds \subseteq {"exited", "signalled"}

VARIABLES
  box,     \* the supervisor
  stopped, \* #stopped: the fetcher was disposed of
  refresh, \* the refresh under way
  report,  \* what #state says: [pending, failed]
  pool     \* the addresses in the pool -> the node they were admitted for

fetcherVars == <<box, stopped, refresh, report, pool>>

\* todo: URLs to fetch; nodes, plain: what was fetched; tasks: smokes to run.
NoRefresh == [phase |-> "idle", todo |-> 0, nodes |-> << >>, plain |-> {}, failed |-> FALSE,
              tasks |-> {}]

Ports == Nat \ {0}

Tasks == [port: Ports, node: Nodes] \cup [port: Plaintext]

FetcherTypeOK ==
  /\ IsBox(box) /\ stopped \in BOOLEAN
  /\ refresh.phase \in {"idle", "fetch", "convert", "smoke", "plain"}
  /\ refresh.todo \in 0 .. NumUrls /\ refresh.nodes \in Seq(Nodes)
  /\ refresh.plain \subseteq Plaintext /\ refresh.failed \in BOOLEAN /\ refresh.tasks \subseteq Tasks
  /\ report.pending \subseteq Nodes /\ report.failed \in BOOLEAN
  /\ DOMAIN pool \subseteq Ports \cup Plaintext

FetcherInit ==
  /\ box = NewBox
  /\ stopped = FALSE
  /\ refresh = NoRefresh
  /\ report = [pending |-> {}, failed |-> FALSE]
  /\ pool = << >>

\* The timer or a manual refresh; one that is under way is not overlapped.
Refresh ==
  /\ refresh.phase = "idle" /\ ~stopped /\ Cardinality(Spawned(box)) < MaxChildren
  /\ refresh' = [NoRefresh EXCEPT !.phase = "fetch", !.todo = NumUrls]
  /\ UNCHANGED <<box, stopped, report, pool>>

NodesOf(list) == {list[i] : i \in DOMAIN list}

\* After the last URL comes the conversion, if there is something to convert.
Fetched(list, plain, failed) ==
  LET nodes == refresh.nodes \o list
      last  == refresh.todo = 1
  IN  /\ refresh.phase = "fetch"
      /\ refresh' = [refresh EXCEPT !.todo = @ - 1, !.nodes = nodes, !.plain = @ \cup plain,
                       !.failed = @ \/ failed, !.phase = IF ~last THEN @ ELSE IF nodes = << >> THEN "smoke" ELSE "convert"]
      /\ report' = IF last THEN [pending |-> NodesOf(nodes), failed |-> refresh.failed \/ failed]
                   ELSE report
      /\ box' = IF last /\ nodes # << >> THEN Reload(box, nodes) ELSE box
      /\ UNCHANGED <<stopped, pool>>

FetchAnswers == \E list \in Bodies, plain \in SUBSET Plaintext : Fetched(list, plain, FALSE)

\* An HTTP error, a parse error, or the timeout of a URL.
FetchFails == Fetched(<< >>, {}, TRUE)

ReloadPrepares ==
  /\ box.reload.phase = "preparing"
  /\ box' = Prepared(box)
  /\ UNCHANGED <<stopped, refresh, report, pool>>

\* No binary, an unwritable directory, a configuration that fails its check.
ReloadFails ==
  /\ box.reload.phase = "preparing"
  /\ box' = Reloaded(box)
  /\ refresh' = [refresh EXCEPT !.phase = "smoke"]
  /\ report' = [report EXCEPT !.failed = TRUE]
  /\ UNCHANGED <<stopped, pool>>

\* Exits whose address is not in the pool yet.
NewExits(exits) == {exit \in exits : exit.port \notin DOMAIN pool}

\* A port answers, or the deadline has passed.
ReloadReturns ==
  /\ box.reload.phase = "waiting"
  /\ box' = Reloaded(box)
  /\ refresh' = [refresh EXCEPT !.phase = "smoke", !.tasks = NewExits(ConvertedExits(box.reload.nodes))]
  /\ UNCHANGED <<stopped, report, pool>>

\* The wait sees that the child is gone.
ReloadSeesExit ==
  /\ box.reload.phase = "waiting" /\ ~box.running
  /\ box' = Reloaded(box)
  /\ refresh' = [refresh EXCEPT !.phase = "smoke"]
  /\ report' = [report EXCEPT !.failed = TRUE]
  /\ UNCHANGED <<stopped, pool>>

\* A smoke ends, in any order.
Smoke(task) ==
  /\ task \in refresh.tasks
  /\ refresh' = [refresh EXCEPT !.tasks = @ \ {task}]
  /\ \/ UNCHANGED <<pool, report>>
     \/ /\ pool' = [a \in DOMAIN pool \cup {task.port} |->
                      IF a # task.port THEN pool[a]
                      ELSE IF refresh.phase = "plain" THEN a ELSE task.node]
        /\ report' = IF refresh.phase = "plain" THEN report
                     ELSE [report EXCEPT !.pending = @ \ {task.node}]
  /\ UNCHANGED <<box, stopped>>

\* All smokes of the converted nodes have ended: the plaintext nodes are next.
PlaintextNext ==
  /\ refresh.phase = "smoke" /\ refresh.tasks = {}
  /\ refresh' = [refresh EXCEPT !.phase = "plain", !.tasks = NewExits([port: refresh.plain])]
  /\ UNCHANGED <<box, stopped, report, pool>>

RefreshReturns ==
  /\ refresh.phase = "plain" /\ refresh.tasks = {}
  /\ refresh' = NoRefresh
  /\ UNCHANGED <<box, stopped, report, pool>>

ChildExits(c, kind) ==
  /\ Alive(box, c)
  /\ box' = Exited(box, c, kind)
  /\ UNCHANGED <<stopped, refresh, report, pool>>

Crash(c) == \E kind \in CrashKinds : ChildExits(c, kind)

\* A child that was told to ends: with a code, or by the signal.
Obeys(c) ==
  \E call \in Calls, kind \in {"exited", "signalled"} :
    box.stops[call].child = c /\ ChildExits(c, kind)

GraceEnds(call) ==
  /\ box.stops[call].phase = "waiting"
  /\ box' = Forced(box, call)
  /\ UNCHANGED <<stopped, refresh, report, pool>>

\* stop() of the fetcher; a refresh in flight goes on.
StopFetcher ==
  /\ ~stopped
  /\ stopped' = TRUE
  /\ box' = Stop(box, "byFetcher")
  /\ UNCHANGED <<refresh, report, pool>>

Conversion == ReloadPrepares \/ ReloadFails \/ ReloadReturns \/ ReloadSeesExit

FetcherNext ==
  \/ Refresh \/ FetchAnswers \/ FetchFails \/ Conversion
  \/ \E task \in refresh.tasks : Smoke(task)
  \/ PlaintextNext \/ RefreshReturns
  \/ \E c \in Children : Crash(c) \/ Obeys(c)
  \/ \E call \in Calls : GraceEnds(call)
  \/ StopFetcher

\* The interval fires, a fetch and a probe have timeouts, the check ends, a
\* killed child ends. A crash is nobody's duty.
FetcherFairness ==
  /\ WF_fetcherVars(Refresh)
  /\ WF_fetcherVars(FetchAnswers \/ FetchFails)
  /\ WF_fetcherVars(Conversion)
  /\ WF_fetcherVars(\E task \in refresh.tasks : Smoke(task))
  /\ WF_fetcherVars(PlaintextNext) /\ WF_fetcherVars(RefreshReturns)
  /\ \A c \in Children : WF_fetcherVars(box.process[c].killed /\ Obeys(c))
  /\ \A call \in Calls : WF_fetcherVars(GraceEnds(call))

FetcherSpec == FetcherInit /\ [][FetcherNext]_fetcherVars /\ FetcherFairness

(***************************************************************************)
(* Properties.                                                             *)
(***************************************************************************)

\* Until the disposal, a reload never starts a child beside another that still
\* runs: the ports of the old one are free when the new one binds them.
OneChildServes ==
  ~stopped => Cardinality({c \in Children : Alive(box, c)}) <= 1

\* Until the disposal, `running` says whether the current child runs, except
\* while reload stops the old one.
FlagTruthful ==
  ~stopped /\ box.reload.phase # "stopping" => (box.running <=> Alive(box, box.child))

\* The types, a flag that can be relied on, and one child at a time.
SubscriptionsInv == FetcherTypeOK /\ FlagTruthful /\ OneChildServes

\* A port that is being smoked leads, in the child that serves it, to a node
\* with the key of the one the exit is admitted for: with skipped nodes, with
\* repeated ones, and however the reload went.
SmokeSeesItsNode ==
  refresh.phase = "smoke" =>
    \A task \in refresh.tasks : KeyOf(RuleOf(refresh.nodes, task.port)) = KeyOf(task.node)

\* A refresh ends, so that the next one can start.
RefreshEnds == refresh.phase # "idle" ~> refresh.phase = "idle"

(***************************************************************************)
(* What a document says and the code does not do.                          *)
(***************************************************************************)

\* "kill the sing-box child: it is restarted and its nodes recover".
ChildComesBack ==
  (box.child # NoChild /\ ~box.running) ~>
    (box.running \/ report.failed \/ stopped \/ Cardinality(Spawned(box)) = MaxChildren)

\* An address in the pool leads to the node it was admitted for.
AddressMeansNode ==
  \A port \in DOMAIN pool \cap Ports :
    Alive(box, box.child) /\ box.reload.phase = "idle" /\ port \in DOMAIN refresh.nodes =>
      KeyOf(RuleOf(refresh.nodes, port)) = KeyOf(pool[port])
=============================================================================
