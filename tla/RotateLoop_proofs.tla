-------------------------- MODULE RotateLoop_proofs --------------------------
(***************************************************************************)
(* Proofs about RotateLoop and the dispatcher below it, for any exits,     *)
(* sessions and models, any number of turns and any limits.                *)
(***************************************************************************)
EXTENDS RotateLoop, ExitPoolOps_proofs, FiniteSetTheorems, SequenceTheorems

USE DispatcherAssumption, RotateAssumption

(***************************************************************************)
(* The inductive invariant.                                                *)
(***************************************************************************)

\* The usage order lists every cached agent once.
OrderOK ==
  /\ agentsOrder \in Seq(Exits) /\ agents \subseteq Exits
  /\ Elements(agentsOrder) = agents
  /\ \A i, j \in DOMAIN agentsOrder : agentsOrder[i] = agentsOrder[j] => i = j
  /\ Len(agentsOrder) <= AgentLruCap

\* An observer that may still speak speaks of an exit; a request not yet sent
\* has none.
ObserverOK(rec) ==
  /\ rec \in Observer
  /\ rec.phase = "idle" => ~rec.classified /\ rec.timer = "off"
  /\ rec.phase \in {"waiting", "started", "answering", "streaming"} \/ rec.timer # "off" =>
       rec.exit \in Exits

DispatcherInv ==
  /\ PoolInv(pool, now) /\ now \in Nat
  /\ OrderOK
  /\ closed \in BOOLEAN
  /\ req \in [Requests -> Observer] /\ \A r \in Requests : ObserverOK(req[r])

Turn == [phase: {"idle", "sending", "peeking", "live", "ended"},
         attempt: 0 .. MaxRotates, regions: SUBSET Exits]

\* The attempts of a turn are sent one after another, up to its limit.
AttemptOK(t) ==
  /\ turn[t].attempt <= MaxAttempts
  /\ \A k \in 0 .. MaxRotates : req[<<t, k>>].phase # "idle" =>
       \/ k < turn[t].attempt
       \/ k = turn[t].attempt /\ turn[t].phase \notin {"idle", "sending"}

TurnsOK == turn \in [Turns -> Turn] /\ \A t \in Turns : AttemptOK(t)

RotateInv == DispatcherInv /\ TurnsOK

(***************************************************************************)
(* The cache of agents.                                                    *)
(***************************************************************************)
LEMMA SplicedOut ==
  ASSUME NEW seq \in Seq(Exits), NEW e,
         \A i, j \in DOMAIN seq : seq[i] = seq[j] => i = j, e \in Elements(seq)
  PROVE  LET rest == Spliced(seq, e)
         IN  /\ rest \in Seq(Exits) /\ Len(rest) = Len(seq) - 1
             /\ Elements(rest) = Elements(seq) \ {e}
             /\ \A i, j \in DOMAIN rest : rest[i] = rest[j] => i = j
<1> DEFINE k == CHOOSE i \in DOMAIN seq : seq[i] = e
           rest == Spliced(seq, e)
<1>1. k \in DOMAIN seq /\ seq[k] = e
  BY DEF Elements
<1>2. rest = [i \in 1 .. (Len(seq) - 1) |-> IF i < k THEN seq[i] ELSE seq[i + 1]]
  BY DEF Spliced
<1>3. Len(seq) \in Nat /\ DOMAIN seq = 1 .. Len(seq) /\ k \in 1 .. Len(seq)
      /\ \A i \in 1 .. Len(seq) : seq[i] \in Exits
  BY <1>1
<1> HIDE DEF k, rest
<1>4. rest \in [1 .. (Len(seq) - 1) -> Exits]
  BY <1>2, <1>3
<1>5. Len(seq) - 1 \in Nat
  BY <1>3
<1>6. rest \in Seq(Exits) /\ Len(rest) = Len(seq) - 1 /\ DOMAIN rest = 1 .. (Len(seq) - 1)
  <2>1. rest \in Seq(Exits)
    <3> DEFINE n == Len(seq) - 1
    <3>1. n \in Nat /\ rest \in [1 .. n -> Exits]
      BY <1>4, <1>5
    <3> HIDE DEF n
    <3>2. Seq(Exits) = UNION {[1 .. l -> Exits] : l \in Nat}
      BY SeqDef
    <3> QED
      BY <3>1, <3>2
  <2>2. DOMAIN rest = 1 .. (Len(seq) - 1) /\ DOMAIN rest = 1 .. Len(rest) /\ Len(rest) \in Nat
    BY <1>4, <2>1, LenProperties
  <2> QED
    BY <1>5, <2>1, <2>2
<1>7. \A i, j \in DOMAIN rest : rest[i] = rest[j] => i = j
  <2> SUFFICES ASSUME NEW i \in 1 .. (Len(seq) - 1), NEW j \in 1 .. (Len(seq) - 1),
                      rest[i] = rest[j]
               PROVE  i = j
    BY <1>6
  <2> DEFINE place(x) == IF x < k THEN x ELSE x + 1
  <2>1. rest[i] = seq[place(i)] /\ rest[j] = seq[place(j)]
    BY <1>2
  <2>2. place(i) \in 1 .. Len(seq) /\ place(j) \in 1 .. Len(seq)
    BY <1>3
  <2>3. place(i) = place(j)
    BY <1>3, <2>1, <2>2
  <2> QED
    BY <1>3, <2>3
<1>8. Elements(rest) = Elements(seq) \ {e}
  <2>1. Elements(rest) \subseteq Elements(seq) \ {e}
    <3> SUFFICES ASSUME NEW i \in 1 .. (Len(seq) - 1)
                 PROVE  rest[i] \in Elements(seq) /\ rest[i] # e
      BY <1>6 DEF Elements
    <3>1. PICK j \in 1 .. Len(seq) : rest[i] = seq[j] /\ j # k
      BY <1>2, <1>3
    <3> QED
      BY <1>1, <1>3, <3>1 DEF Elements
  <2>2. Elements(seq) \ {e} \subseteq Elements(rest)
    <3> SUFFICES ASSUME NEW j \in 1 .. Len(seq), seq[j] # e
                 PROVE  seq[j] \in Elements(rest)
      BY <1>3 DEF Elements
    <3>1. j # k
      BY <1>1
    <3>2. PICK i \in 1 .. (Len(seq) - 1) : rest[i] = seq[j]
      <4>1. CASE j < k
        BY <1>2, <1>3, <4>1
      <4>2. CASE j > k
        <5>1. j - 1 \in 1 .. (Len(seq) - 1) /\ ~(j - 1 < k) /\ (j - 1) + 1 = j
          BY <1>3, <4>2
        <5> QED
          BY <1>2, <5>1
      <4> QED
        BY <1>3, <3>1, <4>1, <4>2
    <3> QED
      BY <1>6, <3>2 DEF Elements
  <2> QED
    BY <2>1, <2>2
<1> QED
  BY <1>6, <1>7, <1>8 DEF rest

\* A new most recently used entry.
LEMMA Appended ==
  ASSUME NEW seq \in Seq(Exits), NEW e \in Exits, e \notin Elements(seq),
         \A i, j \in DOMAIN seq : seq[i] = seq[j] => i = j
  PROVE  LET s == Append(seq, e)
         IN  /\ s \in Seq(Exits) /\ Len(s) = Len(seq) + 1
             /\ Elements(s) = Elements(seq) \cup {e}
             /\ \A i, j \in DOMAIN s : s[i] = s[j] => i = j
<1> DEFINE s == Append(seq, e)
<1>1. /\ s \in Seq(Exits) /\ Len(s) = Len(seq) + 1 /\ Len(seq) \in Nat
      /\ DOMAIN s = 1 .. (Len(seq) + 1) /\ DOMAIN seq = 1 .. Len(seq)
      /\ s[Len(seq) + 1] = e /\ \A i \in 1 .. Len(seq) : s[i] = seq[i]
  BY LenProperties
<1> HIDE DEF s
<1>2. Elements(s) = Elements(seq) \cup {e}
  <2>1. Elements(s) \subseteq Elements(seq) \cup {e}
    <3> SUFFICES ASSUME NEW i \in 1 .. (Len(seq) + 1) PROVE s[i] \in Elements(seq) \cup {e}
      BY <1>1 DEF Elements
    <3>1. i = Len(seq) + 1 \/ i \in 1 .. Len(seq)
      BY <1>1
    <3> QED
      BY <1>1, <3>1 DEF Elements
  <2>2. e \in Elements(s) /\ Elements(seq) \subseteq Elements(s)
    <3>1. Len(seq) + 1 \in DOMAIN s /\ DOMAIN seq \subseteq DOMAIN s
      BY <1>1
    <3>2. \A i \in DOMAIN seq : i \in DOMAIN s /\ seq[i] = s[i]
      BY <1>1, <3>1
    <3>3. e \in Elements(s)
      BY <1>1, <3>1 DEF Elements
    <3>4. Elements(seq) \subseteq Elements(s)
      BY <3>2 DEF Elements
    <3> QED
      BY <3>3, <3>4
  <2> QED
    BY <2>1, <2>2
<1>3. \A i \in 1 .. Len(seq) : s[i] # e
  BY <1>1 DEF Elements
<1>4. \A i, j \in DOMAIN s : s[i] = s[j] => i = j
  <2> SUFFICES ASSUME NEW i \in DOMAIN s, NEW j \in DOMAIN s, s[i] = s[j] PROVE i = j
    OBVIOUS
  <2>1. (i = Len(seq) + 1 \/ i \in 1 .. Len(seq)) /\ (j = Len(seq) + 1 \/ j \in 1 .. Len(seq))
    BY <1>1
  <2> QED
    BY <1>1, <1>3, <2>1
<1> QED
  BY <1>1, <1>2, <1>4 DEF s

LEMMA AgentForKeeps == ASSUME OrderOK, NEW e \in Exits, AgentFor(e) PROVE OrderOK'
<1> DEFINE distinct(s) == \A i, j \in DOMAIN s : s[i] = s[j] => i = j
<1>1. CASE e \in agents
  <2> DEFINE rest == Spliced(agentsOrder, e)
  <2>1. agentsOrder' = Append(rest, e) /\ agents' = agents
    BY <1>1 DEF AgentFor, Touch
  <2>2. /\ rest \in Seq(Exits) /\ Len(rest) = Len(agentsOrder) - 1
        /\ Elements(rest) = agents \ {e} /\ distinct(rest)
    BY <1>1, SplicedOut DEF OrderOK
  <2> HIDE DEF rest
  <2>3. /\ agentsOrder' \in Seq(Exits) /\ Len(agentsOrder') = Len(rest) + 1
        /\ Elements(agentsOrder') = (agents \ {e}) \cup {e} /\ distinct(agentsOrder')
    BY <2>1, <2>2, Appended
  <2>4. Len(agentsOrder') <= AgentLruCap
    BY <2>2, <2>3 DEF OrderOK
  <2> QED
    BY <1>1, <2>1, <2>3, <2>4 DEF OrderOK, Elements
<1>2. CASE e \notin agents
  <2> DEFINE order == Append(agentsOrder, e)
  <2>1. IF Len(order) > AgentLruCap
        THEN agentsOrder' = Tail(order) /\ agents' = (agents \cup {e}) \ {Head(order)}
        ELSE agentsOrder' = order /\ agents' = agents \cup {e}
    BY <1>2 DEF AgentFor, BuildAgent
  <2>2. /\ order \in Seq(Exits) /\ Len(order) = Len(agentsOrder) + 1
        /\ Elements(order) = agents \cup {e} /\ distinct(order)
    BY <1>2, Appended DEF OrderOK
  <2>3. Len(agentsOrder) \in Nat /\ Len(agentsOrder) <= AgentLruCap
    BY DEF OrderOK
  <2> HIDE DEF order
  <2>4. CASE Len(order) > AgentLruCap
    <3> DEFINE rest == Tail(order)
    <3>1. /\ rest \in Seq(Exits) /\ Len(rest) = Len(order) - 1
          /\ DOMAIN rest = 1 .. (Len(order) - 1) /\ DOMAIN order = 1 .. Len(order)
          /\ \A i \in 1 .. (Len(order) - 1) : rest[i] = order[i + 1]
          /\ Head(order) = order[1] /\ Len(order) \in Nat /\ Len(order) >= 1
      BY <2>2, <2>3
    <3>2. agentsOrder' = rest /\ agents' = (agents \cup {e}) \ {Head(order)}
      BY <2>1, <2>4
    <3> HIDE DEF rest
    <3>3. distinct(rest)
      <4> SUFFICES ASSUME NEW i \in 1 .. (Len(order) - 1), NEW j \in 1 .. (Len(order) - 1),
                          rest[i] = rest[j]
                   PROVE  i = j
        BY <3>1
      <4>1. i + 1 \in 1 .. Len(order) /\ j + 1 \in 1 .. Len(order)
            /\ order[i + 1] = order[j + 1]
        BY <3>1
      <4>2. i + 1 = j + 1
        BY <2>2, <3>1, <4>1
      <4> QED
        BY <4>2
    <3>4. Elements(rest) = Elements(order) \ {Head(order)}
      <4>1. Elements(rest) \subseteq Elements(order) \ {Head(order)}
        <5> SUFFICES ASSUME NEW i \in 1 .. (Len(order) - 1)
                     PROVE  rest[i] \in Elements(order) /\ rest[i] # order[1]
          BY <3>1 DEF Elements
        <5>1. i + 1 \in DOMAIN order /\ 1 \in DOMAIN order /\ i + 1 # 1
              /\ rest[i] = order[i + 1]
          BY <3>1
        <5>2. order[i + 1] # order[1]
          BY <2>2, <5>1
        <5> QED
          BY <5>1, <5>2 DEF Elements
      <4>2. Elements(order) \ {Head(order)} \subseteq Elements(rest)
        <5> SUFFICES ASSUME NEW i \in 1 .. Len(order), order[i] # order[1]
                     PROVE  order[i] \in Elements(rest)
          BY <3>1 DEF Elements
        <5>1. i - 1 \in 1 .. (Len(order) - 1) /\ (i - 1) + 1 = i
          BY <3>1
        <5>2. order[i] = rest[i - 1]
          BY <3>1, <5>1
        <5> QED
          BY <3>1, <5>1, <5>2 DEF Elements
      <4> QED
        BY <4>1, <4>2
    <3>5. agents' \subseteq Exits /\ Len(rest) <= AgentLruCap
      BY <2>2, <2>3, <3>1, <3>2 DEF OrderOK
    <3>6. Elements(agentsOrder') = agents'
      BY <2>2, <3>2, <3>4
    <3> QED
      BY <3>1, <3>2, <3>3, <3>5, <3>6 DEF OrderOK, Elements
  <2>5. CASE ~(Len(order) > AgentLruCap)
    <3>1. agentsOrder' = order /\ agents' = agents \cup {e} /\ Len(order) <= AgentLruCap
      BY <2>1, <2>2, <2>3, <2>5
    <3>2. agents' \subseteq Exits
      BY <3>1 DEF OrderOK
    <3> QED
      BY <2>2, <3>1, <3>2 DEF OrderOK, Elements
  <2> QED
    BY <2>4, <2>5
<1> QED
  BY <1>1, <1>2

\* An order without duplicates is as long as the set of its elements is large.
LEMMA OrderCounts == ASSUME OrderOK PROVE AgentsMatchOrder
<1>1. agentsOrder \in [1 .. Len(agentsOrder) -> agents] /\ Len(agentsOrder) \in Nat
  BY DEF OrderOK, Elements
<1>2. agentsOrder \in Bijection(1 .. Len(agentsOrder), agents)
  BY <1>1 DEF OrderOK, Elements, Bijection, Injection, Surjection, IsInjective
<1>3. Cardinality(agents) = Len(agentsOrder)
  BY <1>1, <1>2, FS_CountingElements DEF ExistsBijection
<1> QED
  BY <1>3 DEF OrderOK, AgentsMatchOrder

(***************************************************************************)
(* The dispatcher: each step keeps its invariant and says what it does to  *)
(* the requests.                                                           *)
(***************************************************************************)

\* Only request r moves, and it is not idle any more.
OnlyMoves(r) ==
  /\ req' \in [Requests -> Observer]
  /\ ObserverOK(req'[r]) /\ req'[r].phase # "idle"
  /\ \A q \in Requests \ {r} : req'[q] = req[q]

\* One more error handed to the handler of a request that ends with it.
LEMMA OneMore ==
  ASSUME NEW rec \in Observer
  PROVE  LET new == [rec EXCEPT !.phase = "over", !.errors = @ + 1]
         IN  /\ new \in Observer /\ new.phase = "over"
             /\ new.classified = rec.classified /\ new.timer = rec.timer
<1>1. rec.errors + 1 \in Nat
  BY DEF Observer
<1> QED
  BY <1>1 DEF Observer, Phases

\* A sentinel or an error that tears a request down.
LEMMA TornDownTyped ==
  ASSUME NEW rec \in Observer
  PROVE  LET new == TornDown(rec)
         IN  /\ new \in Observer /\ new.phase = rec.phase /\ new.exit = rec.exit
             /\ new.timer = rec.timer
<1>1. rec.errors + 1 \in Nat /\ rec.controller \in BOOLEAN
  BY DEF Observer
<1>2. CASE rec.classified
  BY <1>2 DEF TornDown
<1>3. CASE ~rec.classified
  <2> DEFINE new == [rec EXCEPT !.classified = TRUE, !.errors = @ + 1, !.aborted = rec.controller]
  <2>1. TornDown(rec) = new
    BY <1>3 DEF TornDown
  <2>2. new \in Observer /\ new.phase = rec.phase /\ new.exit = rec.exit /\ new.timer = rec.timer
    BY <1>1 DEF Observer
  <2> QED
    BY <2>1, <2>2
<1> QED
  BY <1>2, <1>3

LEMMA WriteOne ==
  ASSUME DispatcherInv, NEW r \in Requests, NEW rec, ObserverOK(rec), rec.phase # "idle",
         req' = [req EXCEPT ![r] = rec]
  PROVE  OnlyMoves(r) /\ req'[r] = rec
  BY DEF DispatcherInv, OnlyMoves, ObserverOK

LEMMA RequestsKeep ==
  ASSUME DispatcherInv, NEW r \in Requests, OnlyMoves(r)
  PROVE  req' \in [Requests -> Observer] /\ \A q \in Requests : ObserverOK(req'[q])
  BY DEF DispatcherInv, OnlyMoves

LEMMA Contexts ==
  ASSUME NEW r \in Requests PROVE SessionOf[r] \in Sessions /\ ModelOf[r] \in Models
  OBVIOUS

LEMMA DispatchStep ==
  ASSUME DispatcherInv, NEW r \in Requests, Dispatch(r)
  PROVE  DispatcherInv' /\ OnlyMoves(r) /\ ~req'[r].classified
<1>1. /\ PoolInv(pool, now) /\ now \in Nat /\ OrderOK /\ closed \in BOOLEAN
      /\ req \in [Requests -> Observer] /\ ObserverOK(req[r])
  BY DEF DispatcherInv
<1>2. req[r].phase = "idle" /\ ~req[r].classified /\ req[r].timer = "off" /\ UNCHANGED <<now, closed>>
  BY <1>1 DEF Dispatch, ObserverOK
<1>3. CASE RejectClosed(r)
  <2> DEFINE rec == [req[r] EXCEPT !.phase = "over", !.errors = @ + 1]
  <2>1. req' = [req EXCEPT ![r] = rec] /\ UNCHANGED <<pool, agents, agentsOrder>>
    BY <1>3 DEF RejectClosed
  <2>2. ObserverOK(rec) /\ rec.phase = "over" /\ ~rec.classified
    BY <1>1, <1>2, OneMore DEF ObserverOK
  <2> HIDE DEF rec
  <2>3. OnlyMoves(r) /\ req'[r] = rec
    BY <2>1, <2>2, WriteOne
  <2> QED
    BY <1>1, <1>2, <2>1, <2>2, <2>3, RequestsKeep DEF DispatcherInv, OrderOK, Elements
<1>4. CASE \E e \in PickResults(pool, SessionOf[r], ModelOf[r], now) :
             /\ pool' = AfterPick(pool, SessionOf[r], ModelOf[r], e, now)
             /\ IF e # NoExit /\ HasAgent(e) THEN SendThrough(r, e) ELSE SendDirect(r)
  <2>1. PICK e \in PickResults(pool, SessionOf[r], ModelOf[r], now) :
          /\ pool' = AfterPick(pool, SessionOf[r], ModelOf[r], e, now)
          /\ IF e # NoExit /\ HasAgent(e) THEN SendThrough(r, e) ELSE SendDirect(r)
    BY <1>4
  <2>2. PoolInv(pool', now)
    BY <1>1, <2>1, PickKeeps, Contexts
  <2>3. e # NoExit => e \in Exits
    BY <1>1, <2>1, PickInTable, Contexts DEF PoolInv, TableOK, IsPool, IsMap
  <2>4. CASE e # NoExit /\ HasAgent(e)
    <3> DEFINE rec == [FreshObserver EXCEPT !.phase = "waiting", !.exit = e, !.timer = "connect"]
    <3>1. AgentFor(e) /\ req' = [req EXCEPT ![r] = rec]
      BY <2>1, <2>4 DEF SendThrough
    <3>2. ObserverOK(rec) /\ rec.phase = "waiting" /\ ~rec.classified
      BY <2>3, <2>4 DEF ObserverOK, Observer, Phases, FreshObserver
    <3> HIDE DEF rec
    <3>3. OnlyMoves(r) /\ req'[r] = rec
      BY <3>1, <3>2, WriteOne
    <3>4. OrderOK'
      BY <1>1, <2>3, <2>4, <3>1, AgentForKeeps
    <3> QED
      BY <1>1, <1>2, <2>2, <3>2, <3>3, <3>4, RequestsKeep DEF DispatcherInv
  <2>5. CASE ~(e # NoExit /\ HasAgent(e))
    <3> DEFINE rec == [req[r] EXCEPT !.phase = "direct"]
    <3>1. req' = [req EXCEPT ![r] = rec] /\ UNCHANGED <<agents, agentsOrder>>
      BY <2>1, <2>5 DEF SendDirect
    <3>2. ObserverOK(rec) /\ rec.phase = "direct" /\ ~rec.classified
      BY <1>1, <1>2 DEF ObserverOK, Observer, Phases
    <3> HIDE DEF rec
    <3>3. OnlyMoves(r) /\ req'[r] = rec
      BY <3>1, <3>2, WriteOne
    <3> QED
      BY <1>1, <1>2, <2>2, <3>1, <3>2, <3>3, RequestsKeep DEF DispatcherInv, OrderOK, Elements
  <2> QED
    BY <2>4, <2>5
<1> QED
  BY <1>3, <1>4 DEF Dispatch

\* The pool after a verdict on request r, which is given at most once.
LEMMA VerdictKeeps ==
  ASSUME DispatcherInv, NEW r \in Requests, req[r].exit \in Exits
  PROVE  /\ ClassifyTransport(r) => PoolInv(pool', now)
         /\ \A status \in Statuses : Classify(r, status) => PoolInv(pool', now)
<1> DEFINE e == req[r].exit
<1>1. PoolInv(pool, now) /\ now \in Nat /\ e \in Exits
  BY DEF DispatcherInv
<1>2. ClassifyTransport(r) => PoolInv(pool', now)
  <2>1. PoolInv(RecordPassiveTransport(pool, e), now)
    BY <1>1, PassiveKeeps, Contexts
  <2>2. PoolInv(RerouteSession(RecordPassiveTransport(pool, e), SessionOf[r]), now)
    BY <1>1, <2>1, StickyWrite, Contexts
  <2> QED
    BY <1>1, <2>2 DEF ClassifyTransport
<1>3. ASSUME NEW status \in Statuses, Classify(r, status) PROVE PoolInv(pool', now)
  <2> DEFINE p == RecordPassive(pool, e, status, ModelOf[r], now)
  <2>1. PoolInv(p, now)
    BY <1>1, PassiveKeeps, Contexts
  <2>2. pool' \in {pool, p, RerouteSession(p, SessionOf[r])}
    BY <1>3 DEF Classify
  <2> HIDE DEF p
  <2>3. PoolInv(RerouteSession(p, SessionOf[r]), now)
    BY <1>1, <2>1, StickyWrite, Contexts
  <2> QED
    BY <1>1, <2>1, <2>2, <2>3
<1> QED
  BY <1>2, <1>3

LEMMA CallbackStep ==
  ASSUME DispatcherInv, NEW r \in Requests, RequestStep(r)
  PROVE  /\ DispatcherInv' /\ OnlyMoves(r) /\ req[r].phase # "idle"
         /\ UNCHANGED <<now, agents, agentsOrder, closed>>
<1>1. /\ PoolInv(pool, now) /\ now \in Nat /\ OrderOK /\ closed \in BOOLEAN
      /\ req \in [Requests -> Observer] /\ ObserverOK(req[r]) /\ req[r] \in Observer
  BY DEF DispatcherInv
<1>2. \E rec : /\ Observes(r, rec) /\ ObserverOK(rec) /\ rec.phase # "idle"
               /\ req[r].phase # "idle" /\ PoolInv(pool', now)
  <2>1. CASE OnRequestStart(r)
    <3> DEFINE rec == [req[r] EXCEPT !.phase = "started", !.controller = TRUE, !.timer = "headers"]
    <3>1. Observes(r, rec) /\ req[r].phase = "waiting" /\ pool' = pool
      BY <2>1 DEF OnRequestStart
    <3>2. ObserverOK(rec) /\ rec.phase = "started"
      BY <1>1, <3>1 DEF ObserverOK, Observer, Phases
    <3> HIDE DEF rec
    <3> QED
      BY <1>1, <3>1, <3>2
  <2>2. CASE OnResponseStarted(r)
    <3> DEFINE rec == [req[r] EXCEPT !.phase = "answering", !.timer = "off"]
    <3>1. Observes(r, rec) /\ req[r].phase = "started" /\ pool' = pool
      BY <2>2 DEF OnResponseStarted
    <3>2. ObserverOK(rec) /\ rec.phase = "answering"
      BY <1>1, <3>1 DEF ObserverOK, Observer, Phases
    <3> HIDE DEF rec
    <3> QED
      BY <1>1, <3>1, <3>2
  <2>3. CASE OnResponseStart(r)
    <3>1. PICK status \in Statuses \ {"region"} :
            /\ Classify(r, status)
            /\ Observes(r, [req[r] EXCEPT !.phase = "streaming", !.timer = "off",
                                          !.classified = TRUE, !.status = status])
      BY <2>3 DEF OnResponseStart
    <3> DEFINE rec == [req[r] EXCEPT !.phase = "streaming", !.timer = "off",
                                     !.classified = TRUE, !.status = status]
    <3>2. req[r].phase \in {"started", "answering"} /\ req[r].exit \in Exits
      BY <1>1, <2>3 DEF OnResponseStart, ObserverOK
    <3>3. ObserverOK(rec) /\ rec.phase = "streaming"
      BY <1>1, <3>2 DEF ObserverOK, Observer, Phases, Statuses
    <3>4. PoolInv(pool', now)
      BY <3>1, <3>2, VerdictKeeps
    <3>5. Observes(r, rec)
      BY <3>1
    <3> HIDE DEF rec
    <3> QED
      BY <3>2, <3>3, <3>4, <3>5
  <2>4. CASE OnResponseEnd(r)
    <3> DEFINE rec == [req[r] EXCEPT !.phase = "over", !.timer = "off"]
    <3>1. Observes(r, rec) /\ req[r].phase = "streaming" /\ pool' = pool
      BY <2>4 DEF OnResponseEnd
    <3>2. ObserverOK(rec) /\ rec.phase = "over"
      BY <1>1, <3>1 DEF ObserverOK, Observer, Phases
    <3> HIDE DEF rec
    <3> QED
      BY <1>1, <3>1, <3>2
  <2>5. CASE OnResponseError(r)
    <3> DEFINE torn == TornDown([req[r] EXCEPT !.controller = TRUE, !.timer = "off"])
               rec  == [torn EXCEPT !.phase = "over", !.errors = @ + 1]
    <3>1. Observes(r, rec) /\ ClassifyTransport(r) /\ req[r].exit \in Exits /\ req[r].phase # "idle"
      BY <1>1, <2>5 DEF OnResponseError, ObserverOK
    <3>2. torn \in Observer /\ torn.timer = "off"
      <4> DEFINE started == [req[r] EXCEPT !.controller = TRUE, !.timer = "off"]
      <4>1. started \in Observer /\ started.timer = "off"
        BY <1>1 DEF Observer
      <4> HIDE DEF started
      <4>2. TornDown(started) \in Observer /\ TornDown(started).timer = "off"
        BY <4>1, TornDownTyped
      <4> QED
        BY <4>2 DEF started
    <3> HIDE DEF torn
    <3>3. ObserverOK(rec) /\ rec.phase = "over"
      BY <3>2, OneMore DEF ObserverOK
    <3>4. PoolInv(pool', now)
      BY <3>1, VerdictKeeps
    <3> HIDE DEF rec
    <3> QED
      BY <3>1, <3>3, <3>4
  <2>6. CASE SentinelFires(r)
    <3> DEFINE rec == TornDown([req[r] EXCEPT !.timer = "off"])
    <3>1. Observes(r, rec) /\ ClassifyTransport(r) /\ req[r].exit \in Exits /\ req[r].phase # "idle"
      BY <1>1, <2>6 DEF SentinelFires, ObserverOK
    <3>2. ObserverOK(rec) /\ rec.phase # "idle"
      <4> DEFINE stopped == [req[r] EXCEPT !.timer = "off"]
      <4>1. /\ stopped \in Observer /\ stopped.timer = "off" /\ stopped.phase = req[r].phase
            /\ stopped.exit = req[r].exit
        BY <1>1 DEF Observer
      <4> HIDE DEF stopped
      <4>2. /\ TornDown(stopped) \in Observer /\ TornDown(stopped).timer = "off"
            /\ TornDown(stopped).phase = req[r].phase /\ TornDown(stopped).exit = req[r].exit
        BY <4>1, TornDownTyped
      <4>3. ObserverOK(TornDown(stopped)) /\ TornDown(stopped).phase # "idle"
        BY <3>1, <4>2 DEF ObserverOK
      <4> QED
        BY <4>3 DEF stopped
    <3>3. PoolInv(pool', now)
      BY <3>1, VerdictKeeps
    <3> HIDE DEF rec
    <3> QED
      BY <3>1, <3>2, <3>3
  <2>7. CASE DirectEnds(r)
    <3>1. PICK status \in Statuses \cup {"none"}, n \in {req[r].errors, req[r].errors + 1} :
            Observes(r, [req[r] EXCEPT !.phase = "over", !.status = status, !.errors = n])
      <4>1. CASE \E status \in Statuses :
                   Observes(r, [req[r] EXCEPT !.phase = "over", !.status = status])
        <5>1. PICK status \in Statuses :
                Observes(r, [req[r] EXCEPT !.phase = "over", !.status = status])
          BY <4>1
        <5>2. [req[r] EXCEPT !.phase = "over", !.status = status]
                = [req[r] EXCEPT !.phase = "over", !.status = status, !.errors = req[r].errors]
          BY <1>1 DEF Observer
        <5> QED
          BY <5>1, <5>2
      <4>2. CASE Observes(r, [req[r] EXCEPT !.phase = "over", !.errors = @ + 1])
        <5>1. [req[r] EXCEPT !.phase = "over", !.errors = @ + 1]
                = [req[r] EXCEPT !.phase = "over", !.status = req[r].status,
                                 !.errors = req[r].errors + 1]
          BY <1>1 DEF Observer
        <5>2. req[r].status \in Statuses \cup {"none"}
          BY <1>1 DEF Observer
        <5> QED
          BY <4>2, <5>1, <5>2
      <4> QED
        BY <2>7, <4>1, <4>2 DEF DirectEnds
    <3> DEFINE rec == [req[r] EXCEPT !.phase = "over", !.status = status, !.errors = n]
    <3>2. pool' = pool /\ req[r].phase = "direct" /\ n \in Nat
      <4>1. req[r].errors \in Nat /\ n \in {req[r].errors, req[r].errors + 1}
        BY <1>1, <3>1 DEF Observer
      <4>2. n \in Nat
        BY <4>1
      <4> QED
        BY <2>7, <4>2 DEF DirectEnds
    <3>3. ObserverOK(rec) /\ rec.phase = "over"
      BY <1>1, <3>2 DEF ObserverOK, Observer, Phases
    <3>4. Observes(r, rec)
      BY <3>1
    <3> HIDE DEF rec
    <3> QED
      BY <1>1, <3>2, <3>3, <3>4
  <2> QED
    BY <2>1, <2>2, <2>3, <2>4, <2>5, <2>6, <2>7 DEF RequestStep
<1>3. PICK rec : /\ Observes(r, rec) /\ ObserverOK(rec) /\ rec.phase # "idle"
                 /\ req[r].phase # "idle" /\ PoolInv(pool', now)
  BY <1>2
<1>4. req' = [req EXCEPT ![r] = rec] /\ UNCHANGED <<now, agents, agentsOrder, closed>>
  BY <1>3 DEF Observes
<1>5. OnlyMoves(r)
  BY <1>3, <1>4, WriteOne
<1> QED
  BY <1>1, <1>3, <1>4, <1>5, RequestsKeep DEF DispatcherInv, OrderOK, Elements

LEMMA EnvironmentKeeps ==
  ASSUME DispatcherInv, EnvironmentStep
  PROVE  DispatcherInv' /\ req' = req
<1>1. /\ PoolInv(pool, now) /\ now \in Nat /\ OrderOK /\ closed \in BOOLEAN
      /\ req \in [Requests -> Observer] /\ \A r \in Requests : ObserverOK(req[r])
  BY DEF DispatcherInv
<1>2. ASSUME NEW e \in Exits, ProbeOk(e) \/ Evict(e)
      PROVE  DispatcherInv' /\ req' = req
  <2>1. pool' \in {MarkOk(pool, e), Remove(pool, e)}
        /\ UNCHANGED <<now, agents, agentsOrder, closed, req>>
    BY <1>2 DEF ProbeOk, Evict, Elsewhere
  <2>2. PoolInv(pool', now)
    BY <1>1, <2>1, HealthMarksKeep, RemoveKeeps
  <2> QED
    BY <1>1, <2>1, <2>2 DEF DispatcherInv, OrderOK, Elements
<1>3. CASE Tick
  <2>1. /\ now' = now + 1 /\ now' \in Nat /\ UNCHANGED <<pool, agents, agentsOrder, closed, req>>
    BY <1>1, <1>3 DEF Tick
  <2>2. PoolInv(pool, now + 1)
    BY <1>1, TimePasses
  <2> QED
    BY <1>1, <2>1, <2>2 DEF DispatcherInv, OrderOK, Elements
<1>4. CASE Close
  BY <1>1, <1>4 DEF Close, DispatcherInv, OrderOK, Elements
<1>5. CASE Destroy
  <2>1. closed' = TRUE /\ agents' = {} /\ agentsOrder' = << >> /\ UNCHANGED <<pool, now, req>>
    BY <1>5 DEF Destroy
  <2>2. OrderOK'
    BY <2>1, EmptySeq DEF OrderOK, Elements
  <2> QED
    BY <1>1, <2>1, <2>2 DEF DispatcherInv
<1> QED
  BY <1>2, <1>3, <1>4, <1>5 DEF EnvironmentStep

LEMMA DispatcherInit == Init => DispatcherInv
<1> SUFFICES ASSUME Init PROVE DispatcherInv
  OBVIOUS
<1> DEFINE node(e) == [source |-> SourceOf[e], exitIP |-> NoIP, latencyMs |-> LatencyOf[e],
                       addedAt |-> 0]
           fresh == [FreshHealth EXCEPT !.state = "ok"]
<1>1. /\ pool.nodes = [e \in Exits |-> node(e)] /\ pool.health = [e \in Exits |-> fresh]
      /\ pool.bans = << >> /\ pool.sticky = << >> /\ pool.passive = {} /\ pool.pinned = Pinned
      /\ pool.target = 1
      /\ pool = [nodes |-> pool.nodes, health |-> pool.health, bans |-> pool.bans,
                 sticky |-> pool.sticky, passive |-> pool.passive, pinned |-> pool.pinned,
                 target |-> pool.target]
      /\ now = 0
  BY DEF Init, EmptyPool
<1>2. fresh \in Health /\ CoolingOK(fresh, 0) /\ \A e \in Exits : node(e) \in Node
  <2>1. fresh \in Health /\ fresh.consecutiveLimited = 0 /\ fresh.cooldownUntil = 0
    BY DEF FreshHealth, Health, ExitStates
  <2>2. CoolingOK(fresh, 0)
    BY <2>1, ConstantsAssumption DEF CoolingOK
  <2>3. \A e \in Exits : node(e) \in Node
    BY DEF Node
  <2> QED
    BY <2>1, <2>2, <2>3
<1>3. IsPool(pool)
  <2>1. IsMap(pool.nodes, Exits, Node)
    BY <1>1, <1>2 DEF IsMap
  <2>2. IsMap(pool.health, Exits, Health)
    BY <1>1, <1>2 DEF IsMap
  <2>3. DOMAIN << >> = {}
    OBVIOUS
  <2>4. IsMap(pool.bans, Exits \X Models, Ban) /\ IsMap(pool.sticky, Sessions, Exits)
    BY <1>1, <2>3 DEF IsMap
  <2> QED
    BY <1>1, <2>1, <2>2, <2>4 DEF IsPool
<1>4. \A e \in Exits : pool.nodes[e].exitIP = NoIP
  BY <1>1
<1>5. DOMAIN pool.nodes = Exits /\ DOMAIN pool.health = Exits /\ DOMAIN pool.sticky = {}
      /\ DOMAIN pool.bans = {} /\ \A e \in Exits : pool.health[e] = fresh
  <2>1. DOMAIN << >> = {}
    OBVIOUS
  <2> QED
    BY <1>1, <2>1
<1>6. PoolInv(pool, now)
  BY <1>1, <1>2, <1>3, <1>4, <1>5 DEF PoolInv, TableOK, SignalsOK
<1>7. OrderOK
  BY EmptySeq DEF Init, OrderOK, Elements
<1>8. FreshObserver \in Observer /\ ObserverOK(FreshObserver)
  BY DEF FreshObserver, Observer, Phases, ObserverOK
<1>9. req = [r \in Requests |-> FreshObserver] /\ closed = FALSE
  BY DEF Init
<1> QED
  BY <1>1, <1>6, <1>7, <1>8, <1>9 DEF DispatcherInv

(***************************************************************************)
(* The turns.                                                              *)
(***************************************************************************)

LEMMA TurnRequests ==
  ASSUME TurnsOK, NEW t \in Turns
  PROVE  /\ turn[t] \in Turn /\ turn[t].attempt \in 0 .. MaxRotates
         /\ Request(t) \in Requests /\ <<t, 0>> \in Requests
         /\ Session(t) \in Sessions /\ Model(t) \in Models
<1>1. turn[t].attempt \in 0 .. MaxRotates /\ 0 \in 0 .. MaxRotates
  BY DEF TurnsOK, Turn
<1>2. Request(t) \in Requests /\ <<t, 0>> \in Requests
  BY <1>1 DEF Request
<1> QED
  BY <1>1, <1>2, Contexts DEF TurnsOK, Session, Model

\* A step of turn t alone, which sends nothing.
LEMMA TurnMoves ==
  ASSUME RotateInv, NEW t \in Turns, NEW new \in Turn, turn' = [turn EXCEPT ![t] = new],
         req' = req, new.attempt <= MaxAttempts,
         \/ new.attempt = turn[t].attempt /\ (new.phase = "sending" => turn[t].phase = "idle")
              /\ new.phase # "idle"
         \/ new.attempt = turn[t].attempt + 1
  PROVE  TurnsOK'
<1>1. turn' \in [Turns -> Turn] /\ turn'[t] = new /\ \A u \in Turns \ {t} : turn'[u] = turn[u]
  BY DEF RotateInv, TurnsOK
<1>2. turn[t] \in Turn /\ turn[t].attempt \in Nat
  BY DEF RotateInv, TurnsOK, Turn
<1>3. AttemptOK(t) => AttemptOK(t)'
  BY <1>1, <1>2 DEF AttemptOK
<1>4. \A u \in Turns \ {t} : AttemptOK(u) => AttemptOK(u)'
  BY <1>1 DEF AttemptOK
<1> QED
  BY <1>1, <1>3, <1>4 DEF RotateInv, TurnsOK

LEMMA FailureKeeps ==
  ASSUME RotateInv, NEW t \in Turns, turn[t].phase = "peeking",
         NEW exitShaped, NEW deterministic, FailsBeforeContent(t, exitShaped, deterministic)
  PROVE  RotateInv' /\ req' = req
<1> DEFINE e       == req[Request(t)].exit
           regions == turn[t].regions \cup (IF deterministic THEN {e} \ {NoExit} ELSE {})
           asks    == exitShaped /\ turn[t].attempt < MaxRotates
           p       == IF asks THEN BanRegion(t, deterministic) ELSE pool
<1>1. /\ IF asks /\ Decides(t, p) THEN Rotate(t, p, regions) ELSE Surface(t, p, regions)
      /\ UNCHANGED <<now, agents, agentsOrder, closed, req>>
  BY DEF FailsBeforeContent
<1>2. /\ PoolInv(pool, now) /\ now \in Nat /\ OrderOK /\ closed \in BOOLEAN /\ TurnsOK
      /\ req \in [Requests -> Observer] /\ \A r \in Requests : ObserverOK(req[r])
  BY DEF RotateInv, DispatcherInv
<1>3. /\ turn[t] \in Turn /\ turn[t].attempt \in 0 .. MaxRotates /\ Request(t) \in Requests
      /\ Session(t) \in Sessions /\ Model(t) \in Models
  BY <1>2, TurnRequests
<1>4. PoolInv(p, now)
  <2>1. \A s \in DOMAIN pool.sticky : pool.sticky[s] \in Exits
    BY <1>2 DEF PoolInv, TableOK, IsPool, IsMap
  <2>2. Session(t) \in DOMAIN pool.sticky =>
          PoolInv(MarkModelBanned(pool, pool.sticky[Session(t)], Model(t)), now)
    BY <1>2, <1>3, <2>1, BanMarksKeep
  <2> QED
    BY <1>2, <2>2 DEF BanRegion
<1>5. regions \subseteq Exits
  <2>1. e \in Exits \cup {NoExit} /\ turn[t].regions \subseteq Exits
    BY <1>2, <1>3 DEF Observer, Turn
  <2> QED
    BY <2>1
<1> HIDE DEF e, regions, p
<1>6. CASE asks /\ Decides(t, p)
  <2> DEFINE new == [turn[t] EXCEPT !.phase = "sending", !.attempt = turn[t].attempt + 1,
                                    !.regions = regions]
  <2>1. pool' = RerouteSession(p, Session(t)) /\ turn' = [turn EXCEPT ![t] = new]
    BY <1>1, <1>2, <1>6 DEF Rotate, TurnsOK
  <2>2. turn[t].attempt + 1 \in 0 .. MaxRotates /\ turn[t].attempt + 1 <= MaxAttempts
    BY <1>3, <1>6 DEF Decides
  <2>3. new \in Turn /\ new.attempt = turn[t].attempt + 1 /\ new.attempt <= MaxAttempts
    BY <1>3, <1>5, <2>2 DEF Turn
  <2> HIDE DEF new
  <2>4. TurnsOK'
    BY <1>1, <2>1, <2>3, TurnMoves
  <2>5. PoolInv(pool', now)
    BY <1>2, <1>3, <1>4, <2>1, StickyWrite
  <2> QED
    BY <1>1, <1>2, <2>4, <2>5 DEF RotateInv, DispatcherInv, OrderOK, Elements
<1>7. CASE ~(asks /\ Decides(t, p))
  <2> DEFINE new == [turn[t] EXCEPT !.phase = "ended", !.regions = regions]
  <2>1. pool' = p /\ turn' = [turn EXCEPT ![t] = new]
    BY <1>1, <1>2, <1>7 DEF Surface, TurnsOK
  <2>2. /\ new \in Turn /\ new.attempt = turn[t].attempt /\ new.phase = "ended"
    BY <1>3, <1>5 DEF Turn
  <2>3. new.attempt <= MaxAttempts
    BY <1>2, <2>2 DEF TurnsOK, AttemptOK
  <2> HIDE DEF new
  <2>4. TurnsOK'
    BY <1>1, <2>1, <2>2, <2>3, TurnMoves
  <2> QED
    BY <1>1, <1>2, <1>4, <2>1, <2>4 DEF RotateInv, DispatcherInv, OrderOK, Elements
<1> QED
  BY <1>1, <1>6, <1>7

\* A turn goes on without a request and without touching what is below it.
LEMMA GoesKeeps ==
  ASSUME RotateInv, NEW t \in Turns, NEW phase \in {"sending", "live", "ended"},
         Goes(t, phase), UNCHANGED dispatcherVars,
         phase = "sending" => turn[t].phase = "idle"
  PROVE  RotateInv'
<1> DEFINE new == [turn[t] EXCEPT !.phase = phase]
<1>1. TurnsOK /\ turn[t] \in Turn /\ req' = req
  BY DEF RotateInv, TurnsOK, dispatcherVars
<1>2. turn' = [turn EXCEPT ![t] = new]
  BY DEF Goes
<1>3. new \in Turn /\ new.attempt = turn[t].attempt /\ new.phase = phase
  BY <1>1 DEF Turn
<1>4. new.attempt <= MaxAttempts
  BY <1>1, <1>3 DEF TurnsOK, AttemptOK
<1> HIDE DEF new
<1>5. TurnsOK'
  BY <1>1, <1>2, <1>3, <1>4, TurnMoves
<1> QED
  BY <1>5 DEF RotateInv, DispatcherInv, dispatcherVars, OrderOK, Elements

LEMMA SendKeeps == ASSUME RotateInv, NEW t \in Turns, Send(t) PROVE RotateInv'
<1> DEFINE r == Request(t)
           new == [turn[t] EXCEPT !.phase = "peeking"]
<1>1. /\ DispatcherInv /\ TurnsOK /\ turn[t] \in Turn /\ AttemptOK(t) /\ r \in Requests
      /\ turn[t].phase = "sending"
  BY TurnRequests DEF RotateInv, TurnsOK, Send
<1>2. DispatcherInv' /\ OnlyMoves(r)
  BY <1>1, DispatchStep DEF Send
<1>3. turn' = [turn EXCEPT ![t] = new]
  BY DEF Send, Goes
<1>4. new \in Turn /\ new.attempt = turn[t].attempt /\ new.phase = "peeking"
  BY <1>1 DEF Turn
<1> HIDE DEF new
<1>5. /\ turn' \in [Turns -> Turn] /\ turn'[t] = new
      /\ \A u \in Turns \ {t} : turn'[u] = turn[u]
  BY <1>1, <1>3, <1>4 DEF TurnsOK
<1>6. \A u \in Turns, k \in 0 .. MaxRotates :
        <<u, k>> # <<t, turn[t].attempt>> => req'[<<u, k>>] = req[<<u, k>>]
  BY <1>2 DEF OnlyMoves, Request
<1>7. AttemptOK(t)'
  BY <1>1, <1>4, <1>5, <1>6 DEF AttemptOK
<1>8. ASSUME NEW u \in Turns \ {t} PROVE AttemptOK(u)'
  <2>1. turn'[u] = turn[u] /\ AttemptOK(u)
    BY <1>1, <1>5 DEF TurnsOK
  <2>2. \A k \in 0 .. MaxRotates : req'[<<u, k>>] = req[<<u, k>>]
    BY <1>6
  <2> QED
    BY <2>1, <2>2 DEF AttemptOK
<1> QED
  BY <1>2, <1>5, <1>7, <1>8 DEF RotateInv, TurnsOK

LEMMA TurnStepKeeps == ASSUME RotateInv, NEW t \in Turns, TurnStep(t) PROVE RotateInv'
<1>1. CASE Begin(t)
  BY <1>1, GoesKeeps DEF Begin
<1>2. CASE Send(t)
  BY <1>2, SendKeeps
<1>3. CASE Content(t)
  BY <1>3, GoesKeeps DEF Content
<1>4. CASE EndEmpty(t)
  BY <1>4, GoesKeeps DEF EndEmpty
<1>5. CASE StreamError(t)
  BY <1>5, FailureKeeps DEF StreamError
<1>6. CASE Watchdog(t)
  BY <1>6, FailureKeeps DEF Watchdog
<1>7. CASE BodyEnds(t)
  BY <1>7, GoesKeeps DEF BodyEnds
<1> QED
  BY <1>1, <1>2, <1>3, <1>4, <1>5, <1>6, <1>7 DEF TurnStep

LEMMA RotateInductive == RotateInv /\ [RotateNext]_vars => RotateInv'
<1> SUFFICES ASSUME RotateInv, [RotateNext]_vars PROVE RotateInv'
  OBVIOUS
<1>1. ASSUME NEW t \in Turns, TurnStep(t) PROVE RotateInv'
  BY <1>1, TurnStepKeeps
<1>2. ASSUME NEW r \in Requests, RequestStep(r), UNCHANGED turn PROVE RotateInv'
  <2>1. DispatcherInv' /\ OnlyMoves(r) /\ req[r].phase # "idle"
    BY <1>2, CallbackStep DEF RotateInv
  <2>2. \A q \in Requests : req'[q].phase # "idle" => req[q].phase # "idle"
    BY <2>1 DEF OnlyMoves
  <2>3. \A t \in Turns, k \in 0 .. MaxRotates :
          req'[<<t, k>>].phase # "idle" => req[<<t, k>>].phase # "idle"
    BY <2>2
  <2>4. TurnsOK'
    BY <1>2, <2>3 DEF RotateInv, TurnsOK, AttemptOK
  <2> QED
    BY <2>1, <2>4 DEF RotateInv
<1>3. CASE EnvironmentStep /\ UNCHANGED turn
  BY <1>3, EnvironmentKeeps DEF RotateInv, TurnsOK, AttemptOK
<1>4. CASE UNCHANGED vars
  BY <1>4 DEF vars, dispatcherVars, RotateInv, DispatcherInv, OrderOK, Elements, TurnsOK,
     AttemptOK
<1> QED
  BY <1>1, <1>2, <1>3, <1>4 DEF RotateNext

LEMMA RotateInitInv == RotateInit => RotateInv
<1> SUFFICES ASSUME RotateInit PROVE RotateInv
  OBVIOUS
<1> DEFINE new == [phase |-> "idle", attempt |-> 0, regions |-> {}]
<1>1. DispatcherInv
  BY DispatcherInit DEF RotateInit
<1>2. turn = [t \in Turns |-> new] /\ \A r \in Requests : req[r].phase = "idle"
  BY DEF RotateInit, Init, FreshObserver
<1>3. new \in Turn /\ new.attempt = 0
  BY DEF Turn
<1> HIDE DEF new
<1>4. TurnsOK
  BY <1>2, <1>3 DEF TurnsOK, AttemptOK
<1> QED
  BY <1>1, <1>4 DEF RotateInv

\* The attempts sent are those up to the current one.
LEMMA AttemptsBound == ASSUME RotateInv PROVE TurnInv
<1>1. TurnsOK /\ DispatcherInv
  BY DEF RotateInv
<1>2. SendsBounded
  <2> SUFFICES ASSUME NEW t \in Turns
               PROVE  Cardinality({k \in 0 .. MaxRotates : req[<<t, k>>].phase # "idle"})
                        <= MaxAttempts + 1
    BY DEF SendsBounded
  <2> DEFINE sent == {k \in 0 .. MaxRotates : req[<<t, k>>].phase # "idle"}
             a    == turn[t].attempt
  <2>1. a \in Nat /\ a <= MaxAttempts /\ sent \subseteq 0 .. a
    <3>1. a \in 0 .. MaxRotates /\ AttemptOK(t)
      BY <1>1, TurnRequests DEF TurnsOK
    <3>2. \A k \in sent : k \in 0 .. MaxRotates /\ k <= a
      BY <3>1 DEF AttemptOK
    <3> HIDE DEF sent
    <3>3. a <= MaxAttempts
      BY <3>1 DEF AttemptOK
    <3> HIDE DEF a
    <3> QED
      BY <3>1, <3>2, <3>3
  <2> HIDE DEF sent, a
  <2>2. IsFiniteSet(0 .. a) /\ Cardinality(0 .. a) = a + 1
    BY <2>1, FS_Interval
  <2>3. Cardinality(sent) <= a + 1 /\ Cardinality(sent) \in Nat
    <3>1. IsFiniteSet(sent) /\ Cardinality(sent) <= Cardinality(0 .. a)
      BY <2>1, <2>2, FS_Subset
    <3> QED
      BY <2>2, <3>1, FS_CardinalityType
  <2>4. Cardinality(sent) <= MaxAttempts + 1
    BY <2>1, <2>3
  <2> QED
    BY <2>4 DEF sent
<1>3. TurnTypeOK
  BY <1>1 DEF DispatcherInv, OrderOK, PoolInv, TableOK, TurnsOK, Turn, TurnTypeOK, TypeOK
<1>4. AgentsMatchOrder
  BY <1>1, OrderCounts DEF DispatcherInv
<1> QED
  BY <1>2, <1>3, <1>4 DEF TurnInv

(***************************************************************************)
(* What a step may never do.                                               *)
(***************************************************************************)

\* Every step is a dispatch, a callback, a step that sends nothing, or one
\* that leaves the dispatcher alone.
LEMMA StepKinds ==
  ASSUME RotateInv, [RotateNext]_vars
  PROVE  \/ \E r \in Requests : Dispatch(r) \/ RequestStep(r)
         \/ req' = req
<1>1. ASSUME NEW t \in Turns, TurnStep(t)
      PROVE  req' = req \/ \E r \in Requests : Dispatch(r)
  <2>1. CASE Begin(t) \/ Content(t) \/ EndEmpty(t) \/ BodyEnds(t)
    BY <2>1 DEF Begin, Content, EndEmpty, BodyEnds, dispatcherVars
  <2>2. CASE Send(t)
    BY <2>2, TurnRequests DEF Send, RotateInv
  <2>3. CASE StreamError(t) \/ Watchdog(t)
    BY <2>3, FailureKeeps DEF StreamError, Watchdog
  <2> QED
    BY <1>1, <2>1, <2>2, <2>3 DEF TurnStep
<1>2. ASSUME EnvironmentStep PROVE req' = req
  BY <1>2, EnvironmentKeeps DEF RotateInv
<1>3. ASSUME UNCHANGED vars PROVE req' = req
  BY <1>3 DEF vars, dispatcherVars
<1> QED
  BY <1>1, <1>2, <1>3 DEF RotateNext

\* A request that was classified gives no second verdict.
LEMMA OneVerdict ==
  ASSUME DispatcherInv, NEW r \in Requests, Dispatch(r) \/ RequestStep(r),
         NEW q \in Requests, req[q].classified, req'[q] # req[q]
  PROVE  pool' = pool
<1>1. CASE Dispatch(r)
  <2>1. req[r].phase = "idle" /\ OnlyMoves(r)
    BY <1>1, DispatchStep DEF Dispatch
  <2>2. ~req[r].classified
    BY <2>1 DEF DispatcherInv, ObserverOK
  <2> QED
    BY <2>1, <2>2 DEF OnlyMoves
<1>2. CASE RequestStep(r)
  <2>1. q = r
    BY <1>2, CallbackStep DEF OnlyMoves
  <2>2. ClassifyTransport(r) => pool' = pool
    BY <2>1 DEF ClassifyTransport
  <2>3. \A status : Classify(r, status) => pool' = pool
    BY <2>1 DEF Classify
  <2> QED
    BY <1>2, <2>2, <2>3 DEF RequestStep, OnRequestStart, OnResponseStarted, OnResponseStart,
       OnResponseEnd, OnResponseError, SentinelFires, DirectEnds
<1> QED
  BY <1>1, <1>2

\* pick returns only exits that are not dormant.
LEMMA PicksAwake ==
  ASSUME NEW p, NEW s, NEW m, NEW t, NEW e \in PickResults(p, s, m, t), e # NoExit
  PROVE  ~Dormant(p, e, t)
  BY DEF PickResults, PinnedServes, StickyServes, Rotation, Best, UsableExits, IsUsable

\* An exit that failed in transport, or was rate limited, is dormant.
LEMMA FailureLaysDormant ==
  ASSUME NEW p, NEW t \in Nat, PoolInv(p, t), NEW e \in Exits, NEW m
  PROVE  /\ Dormant(RecordPassiveTransport(p, e), e, t)
         /\ Dormant(RecordPassive(p, e, "429", m, t), e, t)
<1>1. DOMAIN p.health = DOMAIN p.nodes /\ IsPool(p)
  BY DEF PoolInv, TableOK
<1>2. CASE e \notin DOMAIN p.nodes
  BY <1>1, <1>2 DEF RecordPassiveTransport, RecordPassive, Dormant
<1>3. CASE e \in DOMAIN p.nodes
  <2> DEFINE h == p.health[e]
  <2>1. h \in Health /\ e \in DOMAIN p.health
    BY <1>1, <1>3 DEF IsPool, IsMap
  <2>2. Dormant(MarkDeadStrike(p, e), e, t)
    <3>1. CASE Evicts(p, e)
      <4>1. MarkDeadStrike(p, e) = Remove(p, e) /\ e \notin DOMAIN Remove(p, e).health
        BY <1>3, <2>1, <3>1, RemoveEffect, RemoveKeeps DEF MarkDeadStrike, PoolInv, TableOK
      <4> QED
        BY <4>1 DEF Dormant
    <3>2. CASE ~Evicts(p, e)
      <4> DEFINE new == [h EXCEPT !.state = "dead", !.inflight = FALSE, !.deadStrikes = @ + 1]
      <4>1. MarkDeadStrike(p, e) = [p EXCEPT !.health[e] = new]
        BY <1>3, <2>1, <3>2 DEF MarkDeadStrike, UpdateHealth
      <4>2. new.state = "dead"
        BY <2>1 DEF Health
      <4> HIDE DEF new
      <4>3. MarkDeadStrike(p, e).health[e] = new
        BY <1>1, <2>1, <4>1 DEF IsPool
      <4> QED
        BY <4>2, <4>3 DEF Dormant
    <3> QED
      BY <3>1, <3>2
  <2>3. Dormant(MarkLimited(p, e, t), e, t)
    <3> DEFINE n == h.consecutiveLimited + 1
               b == Backoff(n)
               new == [h EXCEPT !.state = "ok", !.consecutiveLimited = n, !.cooldownUntil = t + b]
    <3>1. MarkLimited(p, e, t) = [p EXCEPT !.health[e] = new]
      BY <2>1 DEF MarkLimited, UpdateHealth
    <3>2. new.cooldownUntil = t + b
      BY <2>1 DEF Health
    <3>3. b \in 1 .. CooldownMax
      BY BackoffBounded
    <3> HIDE DEF new, n, b
    <3>4. t + b > t
      BY <3>3, ConstantsAssumption
    <3>5. MarkLimited(p, e, t).health[e] = new
      BY <1>1, <2>1, <3>1 DEF IsPool
    <3> QED
      BY <3>2, <3>4, <3>5 DEF Dormant
  <2>4. ASSUME NEW q, IsPool(q), Dormant(q, e, t) PROVE Dormant(CountPassive(q, e), e, t)
    <3>1. CountPassive(q, e).health = q.health
      BY <2>4 DEF CountPassive, IsPool
    <3> QED
      BY <2>4, <3>1 DEF Dormant
  <2>5. IsPool(MarkDeadStrike(p, e)) /\ IsPool(MarkLimited(p, e, t))
    BY StrikeKeeps, HealthMarksKeep DEF PoolInv, TableOK
  <2> QED
    BY <1>3, <2>2, <2>3, <2>4, <2>5 DEF RecordPassiveTransport, RecordPassive
<1> QED
  BY <1>2, <1>3

\* The verdict of a failure takes the request's exit out of its session's reach.
LEMMA FailureVerdict ==
  ASSUME DispatcherInv, NEW r \in Requests, req[r].exit \in Exits, ~req[r].classified
  PROVE  LET away == req[r].exit \notin PickResults(pool', SessionOf[r], ModelOf[r], now)
         IN  /\ ClassifyTransport(r) => away
             /\ Classify(r, "429") => away
<1> DEFINE e == req[r].exit
           struck  == RecordPassiveTransport(pool, e)
           limited == RecordPassive(pool, e, "429", ModelOf[r], now)
<1>1. PoolInv(pool, now) /\ now \in Nat /\ e \in Exits /\ e # NoExit
  BY ConstantsAssumption DEF DispatcherInv
<1>2. /\ PoolInv(struck, now) /\ Dormant(struck, e, now)
      /\ PoolInv(limited, now) /\ Dormant(limited, e, now)
  BY <1>1, PassiveKeeps, FailureLaysDormant, Contexts DEF Statuses
<1> HIDE DEF struck, limited
<1>3. ASSUME NEW q, PoolInv(q, now), Dormant(q, e, now)
      PROVE  Dormant(RerouteSession(q, SessionOf[r]), e, now)
  <2>1. RerouteSession(q, SessionOf[r]).health = q.health
    BY <1>3 DEF RerouteSession, PoolInv, TableOK, IsPool
  <2> QED
    BY <1>3, <2>1 DEF Dormant
<1>4. ClassifyTransport(r) => pool' = RerouteSession(struck, SessionOf[r])
  BY DEF ClassifyTransport, struck
<1>5. Classify(r, "429") => pool' \in {limited, RerouteSession(limited, SessionOf[r])}
  BY DEF Classify, limited
<1>6. ClassifyTransport(r) \/ Classify(r, "429") => Dormant(pool', e, now)
  BY <1>2, <1>3, <1>4, <1>5
<1>7. Dormant(pool', e, now) => e \notin PickResults(pool', SessionOf[r], ModelOf[r], now)
  BY <1>1, PicksAwake
<1> QED
  BY <1>6, <1>7

LEMMA FailureLeaves ==
  ASSUME DispatcherInv, NEW r \in Requests, Dispatch(r) \/ RequestStep(r),
         NEW q \in Requests, ~req[q].classified, req'[q].classified,
         req'[q].status \in {"none", "429"}
  PROVE  req[q].exit \notin PickResults(pool', SessionOf[q], ModelOf[q], now)
<1>1. OnlyMoves(r) /\ ~(Dispatch(r) /\ req'[r].classified)
  BY DispatchStep, CallbackStep
<1>2. q = r /\ RequestStep(r)
  BY <1>1 DEF OnlyMoves
<1>3. ObserverOK(req[r]) /\ req[r] \in Observer /\ req \in [Requests -> Observer]
  BY DEF DispatcherInv
<1>4. ASSUME NEW rec, Observes(r, rec) PROVE req'[r] = rec
  BY <1>3, <1>4 DEF Observes
<1>5. CASE OnRequestStart(r) \/ OnResponseStarted(r) \/ OnResponseEnd(r) \/ DirectEnds(r)
  <2> SUFFICES req'[r].classified = req[r].classified
    BY <1>2
  <2>1. \/ req'[r] = [req[r] EXCEPT !.phase = "started", !.controller = TRUE, !.timer = "headers"]
        \/ req'[r] = [req[r] EXCEPT !.phase = "answering", !.timer = "off"]
        \/ req'[r] = [req[r] EXCEPT !.phase = "over", !.timer = "off"]
        \/ \E status \in Statuses : req'[r] = [req[r] EXCEPT !.phase = "over", !.status = status]
        \/ req'[r] = [req[r] EXCEPT !.phase = "over", !.errors = @ + 1]
    BY <1>4, <1>5, Zenon DEF OnRequestStart, OnResponseStarted, OnResponseEnd, DirectEnds
  <2>2. req[r] \in Observer
    BY <1>3
  <2> QED
    BY ONLY <2>1, <2>2 DEF Observer
<1>6. CASE OnResponseStart(r)
  <2>1. PICK status \in Statuses \ {"region"} :
          /\ Classify(r, status)
          /\ Observes(r, [req[r] EXCEPT !.phase = "streaming", !.timer = "off",
                                        !.classified = TRUE, !.status = status])
    BY <1>6 DEF OnResponseStart
  <2>2. req'[r].status = status
    BY <1>3, <1>4, <2>1 DEF Observer
  <2>3. status = "429"
    BY <1>2, <2>1, <2>2 DEF Statuses
  <2>4. req[r].exit \in Exits
    BY <1>3, <1>6 DEF OnResponseStart, ObserverOK
  <2> QED
    BY <1>2, <2>1, <2>3, <2>4, FailureVerdict
<1>7. CASE OnResponseError(r) \/ SentinelFires(r)
  <2>1. ClassifyTransport(r) /\ req[r].exit \in Exits
    BY <1>3, <1>7 DEF OnResponseError, SentinelFires, ObserverOK
  <2> QED
    BY <1>2, <2>1, FailureVerdict
<1> QED
  BY <1>2, <1>5, <1>6, <1>7 DEF RequestStep

(***************************************************************************)
(* The theorems.                                                           *)
(***************************************************************************)

LEMMA RotateAlways == RotateSpec => []RotateInv
  BY RotateInitInv, RotateInductive, PTL DEF RotateSpec

\* No turn sends more requests than the setting allows, and the cache of
\* agents agrees with its usage order, whatever the limits are.
THEOREM TurnsSound == RotateSpec => []TurnInv
  BY RotateAlways, AttemptsBound, PTL

\* Once content has reached the consumer the turn is never sent again.
THEOREM ContentIsFinal == RotateSpec => NeverReplayed
<1> DEFINE stays == \A t \in Turns : turn[t].phase = "live" => turn'[t].attempt = turn[t].attempt
<1>1. RotateInv /\ [RotateNext]_vars => stays
  <2> SUFFICES ASSUME RotateInv, [RotateNext]_vars, NEW t \in Turns, turn[t].phase = "live"
               PROVE  turn'[t].attempt = turn[t].attempt
    OBVIOUS
  <2>1. turn \in [Turns -> Turn]
    BY DEF RotateInv, TurnsOK
  <2>2. ASSUME NEW u \in Turns, TurnStep(u)
        PROVE  \/ turn'[t] = turn[t]
               \/ \E phase : Goes(t, phase)
    <3>1. CASE u = t
      BY <2>2, <3>1 DEF TurnStep, Begin, Send, Content, EndEmpty, StreamError, Watchdog, BodyEnds
    <3>2. CASE u # t
      <4>1. \A phase : Goes(u, phase) => turn'[t] = turn[t]
        BY <2>1, <3>2 DEF Goes
      <4>2. \A a, b : FailsBeforeContent(u, a, b) => turn'[t] = turn[t]
        BY <2>1, <3>2 DEF FailsBeforeContent, Rotate, Surface
      <4> QED
        BY <2>2, <4>1, <4>2 DEF TurnStep, Begin, Send, Content, EndEmpty, StreamError, Watchdog,
           BodyEnds
    <3> QED
      BY <3>1, <3>2
  <2>3. \A phase : Goes(t, phase) => turn'[t].attempt = turn[t].attempt
    BY <2>1 DEF Goes, Turn
  <2>4. CASE \E u \in Turns : TurnStep(u)
    BY <2>2, <2>3, <2>4
  <2>5. CASE UNCHANGED turn
    BY <2>5
  <2> QED
    BY <2>4, <2>5 DEF RotateNext, vars
<1>2. RotateInv /\ [RotateNext]_vars => [stays]_vars
  BY <1>1
<1> QED
  BY <1>2, RotateAlways, PTL DEF RotateSpec, NeverReplayed

\* A request gives the pool at most one verdict on its exit, in whatever order
\* its callbacks and its sentinel come.
THEOREM OneVerdictPerRequest == RotateSpec => OneSignalPerRequest
<1> DEFINE once == \A r \in Requests : (req[r].classified /\ req'[r] # req[r]) => pool' = pool
<1>1. RotateInv /\ [RotateNext]_vars => once
  <2> SUFFICES ASSUME RotateInv, [RotateNext]_vars PROVE once
    OBVIOUS
  <2>1. CASE req' = req
    BY <2>1
  <2>2. CASE \E r \in Requests : Dispatch(r) \/ RequestStep(r)
    BY <2>2, OneVerdict DEF RotateInv
  <2> QED
    BY <2>1, <2>2, StepKinds
<1>2. RotateInv /\ [RotateNext]_vars => [once]_dispatcherVars
  BY <1>1
<1> QED
  BY <1>2, RotateAlways, PTL DEF RotateSpec, OneSignalPerRequest

\* The exit of a request that died in transport or was rate limited is not
\* what pick returns for its session afterwards.
THEOREM FailureMovesOn == RotateSpec => FailureLeavesExit
<1> DEFINE leaves == \A r \in Requests :
       (~req[r].classified /\ req'[r].classified /\ req'[r].status \in {"none", "429"}) =>
         req[r].exit \notin PickResults(pool', SessionOf[r], ModelOf[r], now)
<1>1. RotateInv /\ [RotateNext]_vars => leaves
  <2> SUFFICES ASSUME RotateInv, [RotateNext]_vars PROVE leaves
    OBVIOUS
  <2>1. CASE req' = req
    BY <2>1
  <2>2. CASE \E r \in Requests : Dispatch(r) \/ RequestStep(r)
    BY <2>2, FailureLeaves DEF RotateInv
  <2> QED
    BY <2>1, <2>2, StepKinds
<1>2. RotateInv /\ [RotateNext]_vars => [leaves]_dispatcherVars
  BY <1>1
<1> QED
  BY <1>2, RotateAlways, PTL DEF RotateSpec, FailureLeavesExit
=============================================================================
