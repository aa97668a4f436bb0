---------------------------- MODULE AgentProcess ----------------------------
(***************************************************************************)
(* Class AgentProcess (packages/plugin/src/agent-process.ts): one child    *)
(* process at a time, a READY handshake, restarts with backoff after an    *)
(* unexpected exit, a breaker, and a graceful stop.                        *)
(*                                                                         *)
(* A step is a call, or an event that node delivers: the READY line, the   *)
(* failure of the handshake, a child's exit, a timer. What a promise       *)
(* continues with at once is part of the step that settles it. Left out:   *)
(* log lines and the length of the backoff (a pending timer may fire at    *)
(* any time). Children are numbered in the order of their spawn.           *)
(***************************************************************************)
EXTENDS Integers, FiniteSets

CONSTANTS
  MaxSpawns,             \* bound on the number of children
  MaxConsecutiveCrashes,
  ExitKinds,             \* how a child may end: "signal" as well, but not on Windows
  Stops                  \* calls of stop() or dispose()

ASSUME AgentAssumption ==
  /\ MaxSpawns \in Nat \ {0}
  /\ MaxConsecutiveCrashes \in Nat \ {0}
  /\ ExitKinds \subseteq {"code", "signal"}

Children == 1 .. MaxSpawns

NoChild == 0

VARIABLES
  state,         \* what getState returns
  child,         \* this.child, or NoChild
  readyInfo,     \* #ready: the child whose port it is, or NoChild
  crashes,       \* consecutiveCrashes
  timers,        \* children whose crash armed a restart that is still to fire
  restartTimer,  \* the one of them the field remembers, or NoChild
  stopping, disposed,
  process,       \* child -> the operating system's view and its listeners
  stops          \* call -> progress of a stop() that was called

agentVars == <<state, child, readyInfo, crashes, timers, restartTimer, stopping, disposed,
               process, stops>>

\* onExit: the exit handler of a ready child is attached. told and killed:
\* SIGTERM and SIGKILL (taskkill without and with /F) were sent.
Process == [status: {"none", "running", "exited", "signalled"},
            told: BOOLEAN, killed: BOOLEAN, onExit: BOOLEAN]

\* listening: the promise `exited` of terminate still has its listener.
StopCall == [phase: {"none", "waiting", "forced", "returned"},
             child: Children \cup {NoChild}, listening: BOOLEAN]

AgentTypeOK ==
  /\ state \in {"starting", "ready", "stopped", "tripped"}
  /\ child \in Children \cup {NoChild}
  /\ readyInfo \in Children \cup {NoChild}
  /\ crashes \in 0 .. MaxConsecutiveCrashes
  /\ timers \subseteq Children
  /\ restartTimer \in Children \cup {NoChild}
  /\ stopping \in BOOLEAN /\ disposed \in BOOLEAN
  /\ process \in [Children -> Process]
  /\ stops \in [Stops -> StopCall]

AgentInit ==
  /\ state = "stopped"
  /\ child = NoChild
  /\ readyInfo = NoChild
  /\ crashes = 0
  /\ timers = {}
  /\ restartTimer = NoChild
  /\ stopping = FALSE /\ disposed = FALSE
  /\ process = [c \in Children |->
       [status |-> "none", told |-> FALSE, killed |-> FALSE, onExit |-> FALSE]]
  /\ stops = [i \in Stops |-> [phase |-> "none", child |-> NoChild, listening |-> FALSE]]

Running(c) == c # NoChild /\ process[c].status = "running"

Spawned == {c \in Children : process[c].status # "none"}

(***************************************************************************)
(* start.                                                                  *)
(***************************************************************************)

\* Slip: a crashed agent that is still called ready is taken for one that runs.
MaySpawnStopped == state = "stopped"

\* start() spawns only when no start is under way and the agent is neither
\* ready nor tripped; during a backoff the state still says ready.
MaySpawn == state = "stopped" \/ (state = "ready" /\ readyInfo = NoChild)

Spawn(c) ==
  /\ MaySpawn
  /\ c = Cardinality(Spawned) + 1
  /\ stopping' = FALSE
  /\ state' = "starting"
  /\ child' = c
  /\ process' = [process EXCEPT ![c].status = "running"]

Start ==
  \E c \in Children :
    /\ Spawn(c)
    /\ UNCHANGED <<readyInfo, crashes, timers, restartTimer, disposed, stops>>

ReadyLine ==
  /\ state = "starting" /\ Running(child)
  /\ state' = "ready"
  /\ readyInfo' = child
  /\ process' = [process EXCEPT ![child].onExit = TRUE]
  /\ UNCHANGED <<child, crashes, timers, restartTimer, stopping, disposed, stops>>

\* detach: every exit listener of the child goes, a stop()'s as well.
Detached(c) ==
  [i \in Stops |-> IF stops[i].child = c THEN [stops[i] EXCEPT !.listening = FALSE] ELSE stops[i]]

\* Slip: the child of a failed handshake is left alone.
HandshakeFailsAlive ==
  /\ state = "starting" /\ Running(child)
  /\ process' = [process EXCEPT ![child].onExit = FALSE]
  /\ stops' = Detached(child)
  /\ child' = NoChild
  /\ state' = "stopped"
  /\ UNCHANGED <<readyInfo, crashes, timers, restartTimer, stopping, disposed>>

\* A timeout, a malformed READY payload, or a closed stdout.
HandshakeFails ==
  /\ state = "starting" /\ Running(child)
  /\ process' = [process EXCEPT ![child].killed = TRUE]
  /\ stops' = Detached(child)
  /\ child' = NoChild
  /\ state' = "stopped"
  /\ UNCHANGED <<readyInfo, crashes, timers, restartTimer, stopping, disposed>>

\* A restart timer fires. Its callback clears the field, whichever timer the
\* field stands for, and a start that may not spawn is given up.
TimerFires(c) ==
  /\ c \in timers
  /\ timers' = timers \ {c}
  /\ restartTimer' = NoChild
  /\ IF MaySpawn
     THEN \E d \in Children : Spawn(d)
     ELSE UNCHANGED <<stopping, state, child, process>>
  /\ UNCHANGED <<readyInfo, crashes, disposed, stops>>

(***************************************************************************)
(* A child's exit.                                                         *)
(***************************************************************************)
Heard(c) == {i \in Stops : stops[i].child = c /\ stops[i].listening}

Returned(calls) ==
  [i \in Stops |-> IF i \in calls
                   THEN [stops[i] EXCEPT !.phase = "returned", !.listening = FALSE] ELSE stops[i]]

\* Before READY: start() fails, and a stop() that waits for this exit returns.
EarlyExit(c) ==
  /\ state = "starting" /\ c = child
  /\ child' = NoChild
  /\ state' = "stopped"
  /\ stops' = Returned(Heard(c))
  /\ UNCHANGED <<readyInfo, crashes, timers, restartTimer, stopping, disposed>>

\* The crash count after this exit: a stable run starts it anew.
CrashCounts == {crashes + 1, 1}

Crash(c, n) ==
  IF n >= MaxConsecutiveCrashes
  THEN state' = "tripped" /\ UNCHANGED <<timers, restartTimer>>
  ELSE /\ timers' = timers \cup {c}
       /\ restartTimer' = c
       /\ UNCHANGED state

\* Slip: the handshake result outlives its child.
KeepReady == UNCHANGED readyInfo

ForgetReady == readyInfo' = NoChild

\* onExit, and then the stop() calls that were waiting.
ReadyExit(c) ==
  /\ process[c].onExit
  /\ stops' = Returned(Heard(c))
  /\ IF c # child \/ disposed
     THEN /\ state' = IF Heard(c) # {} THEN "stopped" ELSE state
          /\ UNCHANGED <<readyInfo, crashes, timers, restartTimer>>
     ELSE /\ ForgetReady
          /\ IF stopping
             THEN state' = "stopped" /\ UNCHANGED <<crashes, timers, restartTimer>>
             ELSE \E n \in CrashCounts : crashes' = n /\ Crash(c, n)
  /\ UNCHANGED <<child, stopping, disposed>>

\* Nobody listens: the child was detached.
SilentExit(c) ==
  /\ ~process[c].onExit
  /\ ~(state = "starting" /\ c = child)
  /\ UNCHANGED <<state, child, readyInfo, crashes, timers, restartTimer, stopping, disposed, stops>>

\* exitCode is set after an exit with a code and stays null after a signal.
ChildExits(c) ==
  /\ Running(c)
  /\ \E how \in ExitKinds :
       process' = [process EXCEPT ![c].status = IF how = "code" THEN "exited" ELSE "signalled"]
  /\ EarlyExit(c) \/ ReadyExit(c) \/ SilentExit(c)

(***************************************************************************)
(* stop and dispose.                                                       *)
(***************************************************************************)

CancelRestart ==
  /\ timers' = timers \ {restartTimer}
  /\ restartTimer' = NoChild

\* A child whose exitCode is set is gone; any other one is terminated, a
\* child that a signal ended included.
CallStop(i, dispose) ==
  /\ stops[i].phase = "none"
  /\ stopping' = TRUE
  /\ disposed' = (disposed \/ dispose)
  /\ CancelRestart
  /\ IF child = NoChild \/ process[child].status = "exited"
     THEN /\ state' = "stopped"
          /\ stops' = [stops EXCEPT ![i].phase = "returned"]
          /\ UNCHANGED process
     ELSE /\ process' = [process EXCEPT ![child].told = TRUE]
          /\ stops' = [stops EXCEPT ![i] =
               [phase |-> "waiting", child |-> child, listening |-> Running(child)]]
          /\ UNCHANGED state
  /\ UNCHANGED <<child, readyInfo, crashes>>

GraceEnds(i) ==
  /\ stops[i].phase = "waiting"
  /\ stops' = [stops EXCEPT ![i].phase = "forced"]
  /\ process' = [process EXCEPT ![stops[i].child].killed = TRUE]
  /\ UNCHANGED <<state, child, readyInfo, crashes, timers, restartTimer, stopping, disposed>>

\* What happens to the process without a call.
Events ==
  \/ ReadyLine \/ HandshakeFails
  \/ \E c \in Children : TimerFires(c) \/ ChildExits(c)
  \/ \E i \in Stops : GraceEnds(i)

AgentNext ==
  \/ Start
  \/ Events
  \/ \E i \in Stops, dispose \in BOOLEAN : CallStop(i, dispose)

\* Timers fire, the handshake has a timeout, and a killed process ends.
EventFairness ==
  /\ WF_agentVars(HandshakeFails)
  /\ \A c \in Children : WF_agentVars(TimerFires(c)) /\ WF_agentVars(process[c].killed /\ ChildExits(c))
  /\ \A i \in Stops : WF_agentVars(GraceEnds(i))

AgentSpec == AgentInit /\ [][AgentNext]_agentVars

(***************************************************************************)
(* Properties of the class, however it is used.                            *)
(***************************************************************************)

\* At most one child runs that has not been told to end: a failed handshake,
\* a restart and a second start() never leave a second agent behind.
OneLiveChild ==
  Cardinality({c \in Children : Running(c) /\ ~process[c].told /\ ~process[c].killed}) <= 1

\* Until dispose(), the port that start() hands out at once belongs to a child
\* that is still running.
ReadyInfoLive ==
  (~disposed /\ state = "ready" /\ readyInfo # NoChild) => Running(readyInfo)
=============================================================================
