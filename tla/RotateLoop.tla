----------------------------- MODULE RotateLoop -----------------------------
(***************************************************************************)
(* A turn of the chat: the adapter's stream() loop that restarts a stream  *)
(* which died before any content (packages/plugin/src/adapter/             *)
(* zen-adapter.ts), the delegate that decides whether to restart           *)
(* (packages/plugin/src/pool/rotate.ts), and the dispatcher and pool below *)
(* them. Attempt k of turn t is the dispatcher's request <<t, k>>.         *)
(*                                                                         *)
(* The adapter sees a request only through pi-ai: its events follow what   *)
(* the handler was given, later, and a watchdog gives up on an attempt     *)
(* without stopping its request.                                           *)
(***************************************************************************)
EXTENDS Dispatcher

CONSTANTS
  Turns,
  MaxRotates,   \* MAX_ROTATES
  MaxAttempts   \* the delegate's maxAttempts (setting maxRotateAttempts)

ASSUME RotateAssumption ==
  /\ MaxRotates \in Nat
  /\ MaxAttempts \in Nat
  /\ Requests = Turns \X (0 .. MaxRotates)
  /\ \A t \in Turns, k \in 0 .. MaxRotates :
       /\ SessionOf[<<t, k>>] = SessionOf[<<t, 0>>]
       /\ ModelOf[<<t, k>>] = ModelOf[<<t, 0>>]

VARIABLE turn  \* turn -> [phase, attempt, regions]

vars == <<dispatcherVars, turn>>

\* sending: the stream is being set up, its request not yet dispatched;
\* peeking: waiting for the first event; live: content has been passed on;
\* ended: the consumer has the terminator. regions (history): the exits that
\* answered this turn with a RegionError.
TurnTypeOK ==
  /\ TypeOK
  /\ turn \in [Turns -> [phase: {"idle", "sending", "peeking", "live", "ended"},
                         attempt: 0 .. MaxRotates, regions: SUBSET Exits]]

RotateInit ==
  /\ Init
  /\ turn = [t \in Turns |-> [phase |-> "idle", attempt |-> 0, regions |-> {}]]

Request(t) == <<t, turn[t].attempt>>

Session(t) == SessionOf[<<t, 0>>]

Model(t) == ModelOf[<<t, 0>>]

Goes(t, phase) == turn' = [turn EXCEPT ![t].phase = phase]

Begin(t) ==
  /\ turn[t].phase = "idle"
  /\ Goes(t, "sending")
  /\ UNCHANGED dispatcherVars

Send(t) ==
  /\ turn[t].phase = "sending"
  /\ Dispatch(Request(t))
  /\ Goes(t, "peeking")

\* The first content event: from here on the stream is passed through.
Content(t) ==
  /\ turn[t].phase = "peeking"
  /\ req[Request(t)].status = "2xx"
  /\ Goes(t, "live")
  /\ UNCHANGED dispatcherVars

\* A stream that ends without content and without an error is passed through.
EndEmpty(t) ==
  /\ turn[t].phase = "peeking"
  /\ req[Request(t)].phase = "over" /\ req[Request(t)].status = "2xx"
  /\ Goes(t, "ended")
  /\ UNCHANGED dispatcherVars

(***************************************************************************)
(* decide of the delegate, on the pool: what it marks, whether it rotates. *)
(***************************************************************************)
BanRegion(t, deterministic) ==
  IF deterministic /\ Session(t) \in DOMAIN pool.sticky
  THEN MarkModelBanned(pool, pool.sticky[Session(t)], Model(t))
  ELSE pool

\* attempt is 1-based in the code.
Decides(t, p) ==
  /\ turn[t].attempt + 1 <= MaxAttempts
  /\ UsableExits(p, Model(t), now) # {}

Surface(t, p, regions) ==
  /\ pool' = p
  /\ turn' = [turn EXCEPT ![t].phase = "ended", ![t].regions = regions]

Rotate(t, p, regions) ==
  /\ pool' = RerouteSession(p, Session(t))
  /\ turn' = [turn EXCEPT ![t].phase = "sending", ![t].attempt = @ + 1,
                          ![t].regions = regions]

\* A failure before content; one that is not exit-shaped never asks.
FailsBeforeContent(t, exitShaped, deterministic) ==
  LET e       == req[Request(t)].exit
      regions == turn[t].regions \cup (IF deterministic THEN {e} \ {NoExit} ELSE {})
      asks    == exitShaped /\ turn[t].attempt < MaxRotates
      p       == IF asks THEN BanRegion(t, deterministic) ELSE pool
  IN  /\ IF asks /\ Decides(t, p) THEN Rotate(t, p, regions) ELSE Surface(t, p, regions)
      /\ UNCHANGED <<now, agents, agentsOrder, closed, req>>

\* The stream's error event: the status pi-ai reports, or a broken connection.
StreamError(t) ==
  /\ turn[t].phase = "peeking"
  /\ \/ req[Request(t)].errors > 0 /\ FailsBeforeContent(t, TRUE, FALSE)
     \/ req[Request(t)].status = "429" /\ FailsBeforeContent(t, TRUE, FALSE)
     \/ /\ req[Request(t)].status = "refused"
        /\ \E deterministic \in BOOLEAN : FailsBeforeContent(t, TRUE, deterministic)
     \/ /\ req[Request(t)].status = "5xx"
        /\ \E exitShaped \in BOOLEAN : FailsBeforeContent(t, exitShaped, FALSE)

\* Slip: a deadline that only content re-arms also cuts a live stream off.
WatchdogAlways(t) ==
  /\ turn[t].phase \in {"peeking", "live"}
  /\ FailsBeforeContent(t, TRUE, FALSE)

\* Slip: the deadline trusts the sentinel to have ended the request.
WatchdogAfterError(t) ==
  /\ turn[t].phase = "peeking"
  /\ req[Request(t)].errors > 0
  /\ FailsBeforeContent(t, TRUE, FALSE)

\* No event within the window, which is longer than both of the sentinel's:
\* none of them is running any more. The message says timeout, which
\* classifies as a transport failure.
Watchdog(t) ==
  /\ turn[t].phase = "peeking"
  /\ req[Request(t)].timer = "off"
  /\ FailsBeforeContent(t, TRUE, FALSE)

\* done, an error, or the idle watchdog after content: surfaced, not retried.
BodyEnds(t) ==
  /\ turn[t].phase = "live"
  /\ Goes(t, "ended")
  /\ UNCHANGED dispatcherVars

TurnStep(t) ==
  Begin(t) \/ Send(t) \/ Content(t) \/ EndEmpty(t) \/ StreamError(t) \/ Watchdog(t) \/ BodyEnds(t)

RotateNext ==
  \/ \E t \in Turns : TurnStep(t)
  \/ (\E r \in Requests : RequestStep(r)) /\ UNCHANGED turn
  \/ EnvironmentStep /\ UNCHANGED turn

\* The consumer pulls the generator, and every pull races a deadline.
TurnFairness ==
  \A t \in Turns : WF_vars(Send(t)) /\ WF_vars(Watchdog(t)) /\ WF_vars(BodyEnds(t))

RotateSpec == RotateInit /\ [][RotateNext]_vars /\ Fairness /\ TurnFairness

(***************************************************************************)
(* Properties.                                                             *)
(***************************************************************************)

\* A turn always ends, with an answer or with an error, though nothing else
\* guards a request that is sent direct or stops after its headers.
EveryTurnEnds == \A t \in Turns : turn[t].phase = "sending" ~> turn[t].phase = "ended"

\* Once content has reached the consumer the turn is never replayed.
NeverReplayed ==
  [][\A t \in Turns : turn[t].phase = "live" => turn'[t].attempt = turn[t].attempt]_vars

\* No turn sends more requests than the setting allows, however its attempts
\* fail; late outcomes of abandoned attempts send none.
SendsBounded ==
  \A t \in Turns :
    Cardinality({k \in 0 .. MaxRotates : req[<<t, k>>].phase # "idle"}) <= MaxAttempts + 1

\* The dispatcher's cache and its usage order agree while turns come and go,
\* and no turn exceeds its attempts.
TurnInv == TurnTypeOK /\ SendsBounded /\ AgentsMatchOrder

(***************************************************************************)
(* What comments say and the code does not do.                             *)
(***************************************************************************)

\* "ban the pairing on sight": an exit that answered a turn with RegionError
\* is banned for the turn's model when the turn is restarted.
RegionBanned ==
  \A t \in Turns : \A e \in turn[t].regions \cap DOMAIN pool.nodes :
    turn[t].phase = "sending" => BanOf(pool, e, Model(t)).state = "banned"
=============================================================================
