------------------------------- MODULE Probes -------------------------------
(***************************************************************************)
(* The probes of exits that are in the pool: probe-all and probe-exit of   *)
(* the settings page (packages/plugin/src/ip-pool.ts, probeAll and         *)
(* probeExitTask), the admission chain they run (pool/admission.ts) and    *)
(* what they write back. A probe reads the exit's node when it is          *)
(* enqueued, awaits three requests for each probe model, and then writes   *)
(* the node it read, with what it measured, over whatever the table holds. *)
(*                                                                         *)
(* The scheduler is reduced to what Prober.tla shows of it: a task waits   *)
(* for a worker and for the lock of its exit. One read of the clock is as  *)
(* good as another here, so that time stands still (Now).                  *)
(***************************************************************************)
EXTENDS ExitPoolOps, Sequences

CONSTANTS
  ProbeModels,   \* the models a probe smokes, in order
  Pinned,        \* exits whose manual entry is pinned
  Echoes,        \* what the echo service may report: [ip, latency, country]
  Blocked,       \* blockedCountries
  MaxResponse,   \* the latency a candidate must not exceed
  Workers,       \* maxConcurrentProbes
  Target,        \* poolTargetSize
  TrustedFacts,  \* source and exit IP of the trusted exits that join
  MaxProbes,     \* bound: probes of one exit
  MaxTasks,      \* bound: probes of all exits
  MaxJoins,      \* bound: exits that join the pool
  MaxSignals     \* bound: outcomes of real requests

ASSUME ProbesAssumption ==
  /\ ProbeModels \in Seq(Models) /\ ProbeModels # << >>
  /\ Pinned \subseteq Exits
  /\ Echoes \subseteq [ip: ExitIPs, latency: Nat, country: STRING]
  /\ {Workers, Target, MaxProbes} \subseteq Nat \ {0}
  /\ TrustedFacts \subseteq [source: Sources \ {"free"}, exitIP: ExitIPs \cup {NoIP}]

Now == 0

\* The n-th probe of an exit.
Tasks == Exits \X (1 .. MaxProbes)

VARIABLES
  pool,
  task,       \* task -> where it stands, and the node it read when enqueued
  answered,   \* exits through which upstream answered since they last failed
  joins,
  signals

vars == <<pool, task, answered, joins, signals>>

Bare == [source |-> "manual", exitIP |-> NoIP, latencyMs |-> 0, addedAt |-> Now]

Unused == [pc |-> "unused", entry |-> Bare, model |-> 1, facts |-> Bare]

TypeOK ==
  /\ IsPool(pool)
  /\ task \in [Tasks -> [pc: {"unused", "queued", "echo", "models", "smoke", "done"},
                         entry: Node, model: DOMAIN ProbeModels, facts: Node]]
  /\ answered \subseteq Exits
  /\ {joins, signals} \subseteq Nat

Init ==
  /\ pool = EmptyPool(Target)
  /\ task = [t \in Tasks |-> Unused]
  /\ answered = {}
  /\ joins = 0
  /\ signals = 0

Running == {t \in Tasks : task[t].pc \in {"echo", "models", "smoke"}}

(***************************************************************************)
(* Enqueueing, and the scheduler.                                          *)
(***************************************************************************)

\* The first probe of e that was not used yet, if there is one.
NextProbe(e) == {t \in Tasks : t[1] = e /\ task[t].pc = "unused"
                               /\ \A n \in 1 .. t[2] - 1 : task[<<e, n>>].pc # "unused"}

Enqueued(exits) ==
  /\ Cardinality({t \in Tasks : task[t].pc # "unused"} \cup exits) <= MaxTasks
  /\ task' = [t \in Tasks |-> IF t \in UNION {NextProbe(e) : e \in exits}
                              THEN [Unused EXCEPT !.pc = "queued", !.entry = pool.nodes[t[1]]]
                              ELSE task[t]]

ProbeAll ==
  /\ pool.nodes # << >>
  /\ \A e \in DOMAIN pool.nodes : NextProbe(e) # {}
  /\ Enqueued(DOMAIN pool.nodes)
  /\ UNCHANGED <<pool, answered, joins, signals>>

ProbeExit(e) ==
  /\ e \in DOMAIN pool.nodes /\ NextProbe(e) # {}
  /\ Enqueued({e})
  /\ UNCHANGED <<pool, answered, joins, signals>>

StartTask(t) ==
  /\ task[t].pc = "queued" /\ Cardinality(Running) < Workers
  /\ IF t[1] \in DOMAIN pool.nodes
     THEN LockFree(pool, t[1]) /\ pool' = TakeProbeLock(pool, t[1])
     ELSE UNCHANGED pool
  /\ task' = [task EXCEPT ![t].pc = "echo"]
  /\ UNCHANGED <<answered, joins, signals>>

(***************************************************************************)
(* The verdict on one model.                                               *)
(***************************************************************************)

\* Slip: the lock is not given back.
EndsLocked(t, p) ==
  /\ task' = [task EXCEPT ![t] = [Unused EXCEPT !.pc = "done", !.entry = task[t].entry]]
  /\ pool' = p

\* The run returns: runSlot releases the exit's lock.
Ends(t, p) ==
  /\ task' = [task EXCEPT ![t] = [Unused EXCEPT !.pc = "done", !.entry = task[t].entry]]
  /\ pool' = ReleaseProbeLock(p, t[1])

Continues(t, p) ==
  IF task[t].model = Len(ProbeModels) THEN Ends(t, p)
  ELSE /\ task' = [task EXCEPT ![t].pc = "echo", ![t].model = @ + 1, ![t].facts = Bare]
       /\ pool' = p

\* The source a node is probed as, and written back with: goproxy is an enum
\* value nothing adds, and would become a subscription.
ProbedAs(source) == IF source = "goproxy" THEN "subscription" ELSE source

\* pool.add of the probe's node; markLimited or markOk whether it was accepted or not.
Admit(t, node, limited) ==
  LET p == Add(pool, t[1], [node EXCEPT !.source = ProbedAs(task[t].entry.source)])
  IN  Continues(t, IF limited THEN MarkLimited(p, t[1], Now)
                   ELSE MarkOkFor(p, t[1], ProbeModels[task[t].model]))

\* Slip: what was known of the exit is not handed to admitTrusted.
FallbackUnknown(t) == Bare

\* admitTrusted's node for a smoke that failed: the facts read at enqueue.
Fallback(t) == [task[t].entry EXCEPT !.addedAt = Now]

\* Slip: a free exit is probed like the user's own.
RejectVouched(t) ==
  /\ Admit(t, Fallback(t), FALSE)
  /\ answered' = answered \ {t[1]}

\* A free exit is struck and the remaining models are skipped. A trusted one
\* is admitted all the same, and marked ok.
Reject(t) ==
  /\ IF task[t].entry.source = "free" THEN Ends(t, MarkDeadStrike(pool, t[1]))
     ELSE Admit(t, Fallback(t), FALSE)
  /\ answered' = answered \ {t[1]}

(***************************************************************************)
(* The admission chain: echo, models list, smoke. A request that times out *)
(* rejects; nothing aborts it.                                             *)
(***************************************************************************)

\* pinned is passed on for a trusted exit only.
ScreenPasses(t, echo) ==
  /\ echo.country \notin Blocked
  /\ \/ echo.latency <= MaxResponse
     \/ t[1] \in Pinned /\ task[t].entry.source # "free"

EchoAnswers(t) ==
  /\ task[t].pc = "echo"
  /\ \E echo \in Echoes :
       IF ScreenPasses(t, echo)
       THEN /\ task' = [task EXCEPT ![t].pc = "models",
                                    ![t].facts = [Bare EXCEPT !.exitIP = echo.ip,
                                                              !.latencyMs = echo.latency]]
            /\ UNCHANGED <<pool, answered>>
       ELSE Reject(t)
  /\ UNCHANGED <<joins, signals>>

ModelsAnswers(t) ==
  /\ task[t].pc = "models"
  /\ task' = [task EXCEPT ![t].pc = "smoke"]
  /\ UNCHANGED <<pool, answered, joins, signals>>

\* 200, or 429: the exit is alive and its quota is consumed.
SmokeAnswers(t) ==
  /\ task[t].pc = "smoke"
  /\ \E limited \in BOOLEAN : Admit(t, task[t].facts, limited)
  /\ answered' = answered \cup {t[1]}
  /\ UNCHANGED <<joins, signals>>

\* Any other status, no JSON, a broken connection or a timeout, at any step.
StepFails(t) ==
  /\ task[t].pc \in {"echo", "models", "smoke"}
  /\ Reject(t)
  /\ UNCHANGED <<joins, signals>>

ProbeStep(t) == EchoAnswers(t) \/ ModelsAnswers(t) \/ SmokeAnswers(t) \/ StepFails(t)

(***************************************************************************)
(* The rest of the plugin, on the same pool.                               *)
(***************************************************************************)
Joins ==
  /\ joins < MaxJoins
  /\ joins' = joins + 1
  /\ UNCHANGED <<task, signals>>

\* A refill round lands an exit that passed the screen and answered its smoke (a
\* slow one too: the limit is relaxed for a critical pool); a full pool makes room.
RefillAdmits(e) ==
  /\ Joins /\ e \notin DOMAIN pool.nodes
  /\ \E echo \in {seen \in Echoes : seen.country \notin Blocked},
        p \in IF IsFreeFull(pool) /\ FreeExits(pool) # {}
              THEN {Remove(pool, worst) : worst \in WorstFree(pool)} ELSE {pool} :
       LET node == [source |-> "free", exitIP |-> echo.ip, latencyMs |-> echo.latency,
                    addedAt |-> Now]
       IN  IF ~Accepts(p, e, node) THEN pool' = p
           ELSE \/ pool' = MarkOk(Add(p, e, node), e)
                \/ pool' = MarkLimited(Add(p, e, node), e, Now)
  /\ answered' = answered \cup {e}

\* A manual exit of the settings, or a subscription node, which its own smoke
\* may have measured; either is marked ok. A free exit may be upserted.
TrustedJoins(e) ==
  /\ Joins
  /\ e \in DOMAIN pool.nodes => pool.nodes[e].source = "free"
  /\ \E facts \in TrustedFacts :
       LET node == [Bare EXCEPT !.source = facts.source, !.exitIP = facts.exitIP]
       IN  pool' = IF Accepts(pool, e, node) THEN MarkOk(Add(pool, e, node), e) ELSE pool
  /\ UNCHANGED answered

\* The outcome of a request through e, or a connection that broke. (Which
\* model it was for only says whose ban record is reset.)
RequestAnswers(e) ==
  /\ signals < MaxSignals /\ signals' = signals + 1
  /\ e \in DOMAIN pool.nodes
  /\ \E status \in {"2xx", "429"} :
       pool' = RecordPassive(pool, e, status, Head(ProbeModels), Now)
  /\ answered' = answered \cup {e}
  /\ UNCHANGED <<task, joins>>

RequestBreaks(e) ==
  /\ signals < MaxSignals /\ signals' = signals + 1
  /\ e \in DOMAIN pool.nodes
  /\ pool' = RecordPassiveTransport(pool, e)
  /\ answered' = answered \ {e}
  /\ UNCHANGED <<task, joins>>

Next ==
  \/ ProbeAll
  \/ \E e \in Exits : ProbeExit(e)
  \/ \E t \in Tasks : StartTask(t)
  \/ \E t \in Tasks : ProbeStep(t)
  \/ \E e \in Exits : RefillAdmits(e)
  \/ \E e \in Exits : TrustedJoins(e)
  \/ \E e \in Exits : RequestAnswers(e)
  \/ \E e \in Exits : RequestBreaks(e)

\* Each request of the chain has a timeout of its own, and the scheduler pumps
\* its queue whenever a task ends.
Fairness == \A t \in Tasks : WF_vars(StartTask(t)) /\ WF_vars(ProbeStep(t))

Spec == Init /\ [][Next]_vars /\ Fairness

(***************************************************************************)
(* Properties.                                                             *)
(***************************************************************************)

Trusted(p) == DOMAIN p.nodes \ FreeExits(p)

Measured(p) == {e \in DOMAIN p.nodes : p.nodes[e].exitIP # NoIP}

\* Two addresses never share an exit IP, although a probe writes the IP it
\* measured long after the table was read, and a held lock belongs to a probe
\* that runs.
ProbesInv ==
  /\ TypeOK
  /\ \A e \in Measured(pool) : ~HasExitIP(pool, pool.nodes[e].exitIP, e)
  /\ \A e \in DOMAIN pool.health :
       pool.health[e].inflight => \E t \in Running : t[1] = e

\* Exits of which a probe, also one that is done, read a node of the user's.
ReadAsTrusted ==
  {e \in Exits : \E t \in Tasks :
     t[1] = e /\ task[t].pc # "unused" /\ task[t].entry.source # "free"}

\* A free exit counts as alive only if upstream answered through it since it
\* last failed, whatever probes and requests overlapped: also when it was
\* evicted while its probe ran and the probe put it back. Only a probe that
\* read it when it still was the user's may vouch for it (see FreeAnswered).
FreeServesOnSuccess ==
  \A e \in FreeExits(pool) :
    pool.health[e].state = "ok" => e \in answered \/ e \in ReadAsTrusted

\* The exits every pending probe of which read a measured node.
ReadMeasured ==
  {e \in Exits : \A t \in Tasks :
     t[1] = e /\ task[t].pc \notin {"unused", "done"} => task[t].entry.exitIP # NoIP}

\* A failed probe does not make the pool forget the exit IP of a trusted exit,
\* unless a pending probe read the node before the IP was measured.
MeasuredStays ==
  [][Trusted(pool) \cap Measured(pool) \cap ReadMeasured \cap DOMAIN pool'.nodes
       \subseteq Measured(pool')]_vars

\* Every probe ends, and frees its exit for the next one.
ProbesEnd == \A t \in Tasks : task[t].pc = "queued" ~> task[t].pc = "done"

(***************************************************************************)
(* What comments and documents say and the code does not do.               *)
(***************************************************************************)

\* The comment on admitTrusted: "a failed smoke wipes neither a previously
\* measured exitIP/latency nor the routing key". The second model of one probe
\* does, when the first measured an exit nobody had measured before.
KnownFactsSurvive ==
  [][Trusted(pool) \cap Measured(pool) \cap DOMAIN pool'.nodes \subseteq Measured(pool')]_vars

\* The same without the exception. An exit that joined as free and was then
\* subscribed has an older probe, which makes it free again, and a newer one,
\* which takes it for the user's: when that one fails, pool.add refuses the node
\* it read, if another exit has its exit IP by now, and the free exit is marked ok.
FreeAnswered == \A e \in FreeExits(pool) : pool.health[e].state = "ok" => e \in answered

\* "dead only disables, the next successful probe brings it back": a trusted
\* exit that is dead is alive again only once upstream answered through it.
RevivedByAnswer ==
  [][\A e \in Trusted(pool) \cap Trusted(pool') :
       pool.health[e].state = "dead" /\ pool'.health[e].state = "ok" => e \in answered']_vars
=============================================================================
