------------------------------ MODULE Sidecar -------------------------------
(***************************************************************************)
(* The legacy sidecar mode of the plugin (applySidecar in                  *)
(* packages/plugin/src/index.ts): startOnce prepares token and config,     *)
(* creates the agent process, starts it, registers the provider route at   *)
(* the port of the handshake and refreshes it; teardown disposes.          *)
(***************************************************************************)
EXTENDS AgentProcess

CONSTANT teardownCall  \* the one stop() call: dispose() by teardown

ASSUME SidecarAssumption == Stops = {teardownCall}

VARIABLES
  stage,  \* of startOnce: preparing, starting, registering, running, failed
  gone,   \* the plugin was torn down
  info,   \* the child whose handshake startOnce got, or NoChild
  route   \* the child whose port the provider route holds, or NoChild

vars == <<agentVars, stage, gone, info, route>>

TypeOK ==
  /\ AgentTypeOK
  /\ stage \in {"preparing", "starting", "registering", "running", "failed"}
  /\ gone \in BOOLEAN
  /\ info \in Children \cup {NoChild}
  /\ route \in Children \cup {NoChild}

Init ==
  /\ AgentInit
  /\ stage = "preparing"
  /\ gone = FALSE
  /\ info = NoChild
  /\ route = NoChild

\* new AgentProcess and its start(), after the two awaits before them.
StartOnce ==
  /\ stage = "preparing"
  /\ Start
  /\ stage' = "starting"
  /\ UNCHANGED <<gone, info, route>>

\* An event of the agent; the first handshake's outcome continues startOnce.
AgentEvent ==
  /\ Events
  /\ IF stage # "starting" THEN UNCHANGED <<stage, info>>
     ELSE CASE state' = "ready"    -> stage' = "registering" /\ info' = readyInfo'
            [] state' = "stopped"  -> stage' = "failed" /\ UNCHANGED info
            [] OTHER               -> UNCHANGED <<stage, info>>
  /\ UNCHANGED <<gone, route>>

\* refreshModels with the port it was called with; a refresh is scheduled
\* once by startOnce and then again while the agent is ready.
Register ==
  /\ stage = "registering" \/ (stage = "running" /\ ~gone /\ state = "ready")
  /\ stage' = "running"
  /\ route' = info
  /\ UNCHANGED <<agentVars, gone, info>>

\* There may be no agent yet to dispose of.
Teardown ==
  /\ ~gone
  /\ gone' = TRUE
  /\ IF stage = "preparing" THEN UNCHANGED agentVars ELSE CallStop(teardownCall, TRUE)
  /\ UNCHANGED <<stage, info, route>>

Next == StartOnce \/ AgentEvent \/ Register \/ Teardown

Fairness ==
  /\ WF_vars(StartOnce)
  /\ WF_vars(Register)
  /\ WF_vars(HandshakeFails /\ AgentEvent)
  /\ \A c \in Children :
       /\ WF_vars(TimerFires(c) /\ AgentEvent)
       /\ WF_vars(process[c].killed /\ ChildExits(c) /\ AgentEvent)
  /\ WF_vars(GraceEnds(teardownCall) /\ AgentEvent)

Spec == Init /\ [][Next]_vars /\ Fairness

(***************************************************************************)
(* Properties.                                                             *)
(***************************************************************************)

\* The handle that dispose() clears is the only restart under way, so the
\* plugin's own use of the class never leaves a timer that nobody can cancel.
OneRestartTimer == timers = IF restartTimer = NoChild THEN {} ELSE {restartTimer}

\* One child, one restart timer, and a port that answers, through starts,
\* crashes and stops at every point.
SidecarInv == TypeOK /\ OneLiveChild /\ ReadyInfoLive /\ OneRestartTimer

\* When dispose() has returned, every child has ended or been told to.
DisposeLeavesNone ==
  stops[teardownCall].phase = "returned" =>
    \A c \in Children : Running(c) => process[c].killed

\* An unexpected exit of a ready agent is answered: with a new child, with the
\* breaker, or by a teardown. Bounded by the number of children of the model.
CrashAnswered ==
  (state = "ready" /\ readyInfo = NoChild) ~>
    (state \in {"starting", "tripped"} \/ gone \/ Cardinality(Spawned) = MaxSpawns)

(***************************************************************************)
(* What comments and documents say and the code does not do.               *)
(***************************************************************************)

\* "Graceful stop: terminate, wait, then force-kill": dispose() returns.
StopReturns == stops[teardownCall].phase = "waiting" ~> stops[teardownCall].phase = "returned"

\* After an automatic restart the provider route works again.
RouteRecovers ==
  (stage = "running" /\ state = "ready" /\ readyInfo # NoChild) ~>
    (route = readyInfo \/ state # "ready" \/ readyInfo = NoChild)

\* Unloading the plugin reaps the agent: "no orphans".
NoOrphan == gone ~> \A c \in Children : ~Running(c)
=============================================================================
