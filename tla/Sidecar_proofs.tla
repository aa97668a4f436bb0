---------------------------- MODULE Sidecar_proofs ----------------------------
(***************************************************************************)
(* Proofs about AgentProcess, for any caller and any number of children    *)
(* and stops, about Sidecar, the plugin's own use of it, and about         *)
(* Catalog, the models that the agent reports.                             *)
(***************************************************************************)
EXTENDS Sidecar, Catalog, FiniteSetTheorems, TLAPS

USE AgentAssumption DEF NoChild

(***************************************************************************)
(* The class, however it is used.                                          *)
(***************************************************************************)

\* The types; the bound of the crash count is the plugin's (see SidecarIInv).
AgentTypes ==
  /\ state \in {"starting", "ready", "stopped", "tripped"}
  /\ child \in Children \cup {NoChild}
  /\ readyInfo \in Children \cup {NoChild}
  /\ crashes \in Nat
  /\ timers \subseteq Children
  /\ restartTimer \in Children \cup {NoChild}
  /\ stopping \in BOOLEAN /\ disposed \in BOOLEAN
  /\ process \in [Children -> Process]
  /\ stops \in [Stops -> StopCall]

\* Children are numbered as they are spawned; the others are untouched.
InOrder ==
  /\ Spawned = 1 .. Cardinality(Spawned)
  /\ child \in Spawned \cup {NoChild}
  /\ \A c \in Children \ Spawned : ~process[c].onExit /\ ~process[c].told

\* Children that run and have not been told to end.
Live == {c \in Children : Running(c) /\ ~process[c].told /\ ~process[c].killed}

\* When the class would spawn, no child is live; a live one is this.child.
LiveOK ==
  /\ Live \subseteq {child}
  /\ MaySpawn => Live = {}
  /\ state = "starting" => Running(child) /\ ~process[child].onExit

\* A running child with an exit handler is the ready one, and the info that
\* start() hands out is the ready child's until dispose().
ReadyOK ==
  /\ \A c \in Children : Running(c) /\ process[c].onExit =>
       state = "ready" /\ child = c /\ readyInfo = c
  /\ state = "ready" /\ readyInfo # NoChild =>
       process[readyInfo].onExit /\ (Running(readyInfo) \/ disposed)

AgentInv == AgentTypes /\ InOrder /\ LiveOK /\ ReadyOK

LEMMA Numbers ==
  /\ \A c \in Children : c # NoChild /\ c \in Nat
  /\ Stops \in SUBSET Stops
  BY DEF Children

LEMMA AgentInitInv == AgentInit => AgentInv
<1> SUFFICES ASSUME AgentInit PROVE AgentInv
  OBVIOUS
<1> DEFINE first == [status |-> "none", told |-> FALSE, killed |-> FALSE, onExit |-> FALSE]
           call  == [phase |-> "none", child |-> NoChild, listening |-> FALSE]
<1>1. process = [c \in Children |-> first] /\ stops = [i \in Stops |-> call]
  BY DEF AgentInit
<1>2. first \in Process /\ call \in StopCall
  BY DEF Process, StopCall
<1>3. \A c \in Children : process[c].status = "none" /\ ~process[c].onExit /\ ~process[c].told
  BY <1>1
<1> HIDE DEF first, call
<1>4. AgentTypes
  BY <1>1, <1>2 DEF AgentInit, AgentTypes
<1>5. Spawned = {} /\ Live = {}
  BY <1>3 DEF Spawned, Live, Running
<1>6. InOrder
  BY <1>3, <1>5, FS_EmptySet DEF AgentInit, InOrder
<1>7. LiveOK /\ ReadyOK
  BY <1>3, <1>5 DEF AgentInit, LiveOK, ReadyOK, Running
<1> QED
  BY <1>4, <1>6, <1>7 DEF AgentInv

\* A spawn takes a child that was never used.
LEMMA SpawnStep ==
  ASSUME AgentInv, NEW c \in Children, Spawn(c),
         UNCHANGED <<readyInfo, crashes, disposed, stops>>,
         timers' \subseteq Children, restartTimer' \in Children \cup {NoChild}
  PROVE  AgentInv'
<1> DEFINE k == Cardinality(Spawned)
           new == [process[c] EXCEPT !.status = "running"]
<1>1. /\ MaySpawn /\ c = k + 1 /\ stopping' = FALSE /\ state' = "starting" /\ child' = c
      /\ process' = [process EXCEPT ![c] = new]
  BY DEF Spawn
<1>2. process \in [Children -> Process] /\ Spawned = 1 .. k
  BY DEF AgentInv, AgentTypes, InOrder
<1>3. k \in Nat
  <2>1. IsFiniteSet(Spawned)
    <3>1. IsFiniteSet(Children)
      BY FS_Interval DEF Children
    <3> QED
      BY <3>1, FS_Subset DEF Spawned
  <2> QED
    BY <2>1, FS_CardinalityType
<1>4. c \notin Spawned /\ ~process[c].onExit
  BY <1>1, <1>2, <1>3 DEF AgentInv, InOrder
<1>5. /\ new \in Process /\ new.status = "running" /\ ~new.onExit
      /\ new.told = process[c].told /\ new.killed = process[c].killed
  BY <1>2, <1>4 DEF Process
<1> HIDE DEF new, k
<1>6. /\ process' \in [Children -> Process] /\ process'[c] = new
      /\ \A d \in Children \ {c} : process'[d] = process[d]
  BY <1>1, <1>2, <1>5
<1>7. AgentTypes'
  BY <1>1, <1>6 DEF AgentInv, AgentTypes
<1>8. InOrder'
  <2>1. Spawned' = Spawned \cup {c}
    BY <1>5, <1>6 DEF Spawned
  <2>2. Spawned' = 1 .. (k + 1)
    BY <1>1, <1>2, <1>3, <2>1
  <2>3. Cardinality(1 .. (k + 1)) = k + 1
    BY <1>3, FS_Interval
  <2> QED
    BY <1>1, <1>6, <2>1, <2>2, <2>3 DEF AgentInv, InOrder
<1>9. Live' \subseteq {c}
  BY <1>1, <1>6 DEF AgentInv, LiveOK, Live, Running
<1>10. \A d \in Children : ~(Running(d)' /\ process'[d].onExit)
  <2>1. \A d \in Children : ~(Running(d) /\ process[d].onExit)
    BY <1>1, Numbers DEF AgentInv, ReadyOK, MaySpawn
  <2> QED
    BY <1>5, <1>6, <2>1 DEF Running
<1>11. LiveOK' /\ ReadyOK'
  BY <1>1, <1>5, <1>6, <1>9, <1>10, Numbers DEF LiveOK, ReadyOK, MaySpawn, Running
<1> QED
  BY <1>7, <1>8, <1>11 DEF AgentInv

\* A step that spawns nothing: the children keep their numbers.
LEMMA InOrderKept ==
  ASSUME AgentInv, process' \in [Children -> Process], Spawned' = Spawned,
         \A c \in Children \ Spawned : process'[c].onExit = process[c].onExit
                                       /\ process'[c].told = process[c].told,
         child' \in {child, NoChild}
  PROVE  InOrder'
  BY DEF AgentInv, InOrder

LEMMA ReadyLineStep == ASSUME AgentInv, ReadyLine PROVE AgentInv'
<1> DEFINE c == child
           new == [process[c] EXCEPT !.onExit = TRUE]
<1>1. /\ state = "starting" /\ Running(c) /\ state' = "ready" /\ readyInfo' = c
      /\ process' = [process EXCEPT ![c] = new]
      /\ UNCHANGED <<child, crashes, timers, restartTimer, stopping, disposed, stops>>
  BY DEF ReadyLine
<1>2. process \in [Children -> Process] /\ c \in Children
  BY <1>1 DEF AgentInv, AgentTypes, Running
<1>3. /\ new \in Process /\ new.onExit /\ new.status = process[c].status
      /\ new.told = process[c].told /\ new.killed = process[c].killed
  BY <1>2 DEF Process
<1> HIDE DEF new
<1>4. /\ process' \in [Children -> Process] /\ process'[c] = new
      /\ \A d \in Children \ {c} : process'[d] = process[d]
  BY <1>1, <1>2, <1>3
<1>5. AgentTypes'
  BY <1>1, <1>2, <1>4 DEF AgentInv, AgentTypes
<1>6. \A d \in Children : Running(d)' = Running(d)
  BY <1>3, <1>4 DEF Running
<1>7. Live' = Live
  BY <1>3, <1>4, <1>6 DEF Live
<1>8. InOrder'
  <2>1. Spawned' = Spawned
    BY <1>3, <1>4 DEF Spawned
  <2>2. c \in Spawned
    BY <1>1, <1>2 DEF Running, Spawned
  <2> QED
    BY <1>1, <1>4, <2>1, <2>2, InOrderKept
<1>9. LiveOK'
  BY <1>1, <1>2, <1>7, Numbers DEF AgentInv, LiveOK, MaySpawn
<1>10. ReadyOK'
  BY <1>1, <1>2, <1>3, <1>4, <1>6 DEF AgentInv, ReadyOK
<1> QED
  BY <1>5, <1>8, <1>9, <1>10 DEF AgentInv

\* The calls that a detached child no longer ends keep their types.
LEMMA StopCalls ==
  ASSUME AgentTypes
  PROVE  /\ \A c \in Children : Detached(c) \in [Stops -> StopCall]
         /\ \A calls : Returned(calls) \in [Stops -> StopCall]
<1>1. \A i \in Stops : /\ [stops[i] EXCEPT !.listening = FALSE] \in StopCall
                       /\ [stops[i] EXCEPT !.phase = "returned", !.listening = FALSE] \in StopCall
                       /\ stops[i] \in StopCall
  BY DEF AgentTypes, StopCall
<1> QED
  BY <1>1 DEF Detached, Returned

LEMMA HandshakeFailsStep == ASSUME AgentInv, HandshakeFails PROVE AgentInv'
<1> DEFINE c == child
           new == [process[c] EXCEPT !.killed = TRUE]
<1>1. /\ state = "starting" /\ Running(c) /\ child' = NoChild /\ state' = "stopped"
      /\ process' = [process EXCEPT ![c] = new] /\ stops' = Detached(c)
      /\ UNCHANGED <<readyInfo, crashes, timers, restartTimer, stopping, disposed>>
  BY DEF HandshakeFails
<1>2. process \in [Children -> Process] /\ c \in Children
  BY <1>1 DEF AgentInv, AgentTypes, Running
<1>3. /\ new \in Process /\ new.killed /\ new.status = process[c].status
      /\ new.told = process[c].told /\ new.onExit = process[c].onExit
  BY <1>2 DEF Process
<1> HIDE DEF new
<1>4. /\ process' \in [Children -> Process] /\ process'[c] = new
      /\ \A d \in Children \ {c} : process'[d] = process[d]
  BY <1>1, <1>2, <1>3
<1>5. AgentTypes'
  BY <1>1, <1>2, <1>4, StopCalls DEF AgentInv, AgentTypes
<1>6. \A d \in Children : Running(d)' = Running(d)
  BY <1>3, <1>4 DEF Running
<1>7. Live' = {}
  BY <1>3, <1>4, <1>6 DEF AgentInv, LiveOK, Live
<1>8. InOrder'
  <2>1. Spawned' = Spawned
    BY <1>3, <1>4 DEF Spawned
  <2> QED
    BY <1>1, <1>3, <1>4, <2>1, InOrderKept
<1>9. LiveOK' /\ ReadyOK'
  <2>1. \A d \in Children : ~(Running(d) /\ process[d].onExit)
    BY <1>1 DEF AgentInv, ReadyOK
  <2>2. \A d \in Children : ~(Running(d)' /\ process'[d].onExit)
    BY <1>3, <1>4, <1>6, <2>1
  <2> QED
    BY <1>1, <1>7, <2>2 DEF LiveOK, ReadyOK
<1> QED
  BY <1>5, <1>8, <1>9 DEF AgentInv

\* What the operating system's part of an exit changes.
LEMMA ExitEffect ==
  ASSUME AgentInv, NEW c \in Children, ChildExits(c)
  PROVE  /\ process' \in [Children -> Process]
         /\ ~Running(c)' /\ Spawned' = Spawned /\ c \in Spawned
         /\ \A d \in Children : /\ process'[d].told = process[d].told
                                /\ process'[d].killed = process[d].killed
                                /\ process'[d].onExit = process[d].onExit
         /\ \A d \in Children \ {c} : process'[d] = process[d]
         /\ Live' = Live \ {c}
<1>1. PICK how \in ExitKinds :
        process' = [process EXCEPT ![c].status = IF how = "code" THEN "exited" ELSE "signalled"]
  BY DEF ChildExits
<1> DEFINE new == [process[c] EXCEPT !.status = IF how = "code" THEN "exited" ELSE "signalled"]
<1>2. process \in [Children -> Process] /\ process' = [process EXCEPT ![c] = new]
  BY <1>1 DEF AgentInv, AgentTypes
<1>3. /\ new \in Process /\ new.status # "running" /\ new.status # "none"
      /\ new.told = process[c].told /\ new.killed = process[c].killed
      /\ new.onExit = process[c].onExit
  BY <1>2 DEF Process
<1> HIDE DEF new
<1>4. /\ process' \in [Children -> Process] /\ process'[c] = new
      /\ \A d \in Children \ {c} : process'[d] = process[d]
  BY <1>2, <1>3
<1>5. ~Running(c)' /\ \A d \in Children \ {c} : Running(d)' = Running(d)
  BY <1>3, <1>4 DEF Running
<1>6. Running(c)
  BY DEF ChildExits
<1>7. Spawned' = Spawned /\ c \in Spawned
  BY <1>3, <1>4, <1>6 DEF Spawned, Running
<1>8. Live' = Live \ {c}
  BY <1>3, <1>4, <1>5 DEF Live
<1> QED
  BY <1>3, <1>4, <1>5, <1>7, <1>8

LEMMA ChildExitsStep == ASSUME AgentInv, NEW c \in Children, ChildExits(c) PROVE AgentInv'
<1> USE ExitEffect
<1>1. InOrder'
  BY InOrderKept DEF ChildExits, EarlyExit, ReadyExit, SilentExit
<1>2. Running(c)
  BY DEF ChildExits
<1>3. \A d \in Children \ {c} : Running(d)' = Running(d)
  BY DEF Running
<1>4. CASE EarlyExit(c)
  <2>1. /\ state = "starting" /\ c = child /\ child' = NoChild /\ state' = "stopped"
        /\ stops' = Returned(Heard(c))
        /\ UNCHANGED <<readyInfo, crashes, timers, restartTimer, stopping, disposed>>
    BY <1>4 DEF EarlyExit
  <2>2. AgentTypes'
    BY <2>1, StopCalls DEF AgentInv, AgentTypes
  <2>3. Live' = {}
    BY <2>1 DEF AgentInv, LiveOK
  <2>4. LiveOK' /\ ReadyOK'
    BY <2>1, <2>3, <1>3 DEF AgentInv, LiveOK, ReadyOK
  <2> QED
    BY <1>1, <2>2, <2>4 DEF AgentInv
<1>5. CASE ReadyExit(c)
  <2>1. state = "ready" /\ c = child /\ readyInfo = c
    BY <1>2, <1>5 DEF AgentInv, ReadyOK, ReadyExit
  <2>2. Live' = {}
    BY <2>1 DEF AgentInv, LiveOK
  <2>3. /\ stops' = Returned(Heard(c)) /\ UNCHANGED <<child, stopping, disposed>>
        /\ state' \in {"ready", "stopped", "tripped"}
    BY <1>5, <2>1 DEF ReadyExit, Crash
  <2>4. \A d \in Children : ~(Running(d)' /\ process'[d].onExit)
    BY <1>3, <2>1 DEF AgentInv, ReadyOK
  <2>5. LiveOK'
    BY <2>1, <2>2, <2>3 DEF LiveOK
  <2>6. CASE disposed
    <3>1. UNCHANGED <<readyInfo, crashes, timers, restartTimer>>
      BY <1>5, <2>6 DEF ReadyExit
    <3>2. AgentTypes'
      BY <2>3, <3>1, StopCalls DEF AgentInv, AgentTypes
    <3>3. ReadyOK'
      BY <1>5, <2>3, <2>4, <2>6, <2>1, <3>1 DEF ReadyOK, ReadyExit
    <3> QED
      BY <1>1, <2>5, <3>2, <3>3 DEF AgentInv
  <2>7. CASE ~disposed
    <3>1. /\ readyInfo' = NoChild /\ crashes' \in Nat
          /\ timers' \subseteq Children /\ restartTimer' \in Children \cup {NoChild}
      BY <1>5, <2>7, <2>1 DEF ReadyExit, ForgetReady, CrashCounts, Crash, AgentInv, AgentTypes
    <3>2. AgentTypes'
      BY <2>3, <3>1, StopCalls DEF AgentInv, AgentTypes
    <3>3. ReadyOK'
      BY <2>4, <3>1 DEF ReadyOK
    <3> QED
      BY <1>1, <2>5, <3>2, <3>3 DEF AgentInv
  <2> QED
    BY <2>6, <2>7
<1>6. CASE SilentExit(c)
  <2>1. UNCHANGED <<state, child, readyInfo, crashes, timers, restartTimer, stopping, disposed, stops>>
        /\ ~process[c].onExit /\ ~(state = "starting" /\ c = child)
    BY <1>6 DEF SilentExit
  <2>2. AgentTypes'
    BY <2>1 DEF AgentInv, AgentTypes
  <2>3. LiveOK'
    <3>1. Live' \subseteq {child} /\ (MaySpawn' => Live' = {})
      BY <2>1 DEF AgentInv, LiveOK, MaySpawn
    <3>2. state = "starting" => Running(child)' /\ ~process'[child].onExit
      <4>1. state = "starting" => child \in Children \ {c}
        BY <2>1 DEF AgentInv, AgentTypes, LiveOK, Running
      <4> QED
        BY <1>3, <2>1, <4>1 DEF AgentInv, LiveOK, Running
    <3> QED
      BY <2>1, <3>1, <3>2 DEF LiveOK
  <2>4. ReadyOK'
    <3>1. \A d \in Children : Running(d)' /\ process'[d].onExit =>
            state' = "ready" /\ child' = d /\ readyInfo' = d
      BY <1>3, <2>1 DEF AgentInv, ReadyOK
    <3>2. state = "ready" /\ readyInfo # NoChild => readyInfo \in Children \ {c}
      BY <2>1 DEF AgentInv, AgentTypes, ReadyOK
    <3>3. state = "ready" /\ readyInfo # NoChild =>
            process'[readyInfo].onExit /\ (Running(readyInfo)' \/ disposed)
      BY <1>3, <2>1, <3>2 DEF AgentInv, ReadyOK, Running
    <3> QED
      BY <2>1, <3>1, <3>3 DEF ReadyOK, Running
  <2> QED
    BY <1>1, <2>2, <2>3, <2>4 DEF AgentInv
<1> QED
  BY <1>4, <1>5, <1>6 DEF ChildExits

LEMMA TimerStep == ASSUME AgentInv, NEW c \in Children, TimerFires(c) PROVE AgentInv'
<1>1. /\ timers' = timers \ {c} /\ restartTimer' = NoChild
      /\ UNCHANGED <<readyInfo, crashes, disposed, stops>>
  BY DEF TimerFires
<1>2. timers' \subseteq Children /\ restartTimer' \in Children \cup {NoChild}
  BY <1>1 DEF AgentInv, AgentTypes
<1>3. CASE MaySpawn
  BY <1>1, <1>2, <1>3, SpawnStep DEF TimerFires
<1>4. CASE ~MaySpawn
  <2>1. UNCHANGED <<stopping, state, child, process>>
    BY <1>4 DEF TimerFires
  <2>2. AgentTypes'
    BY <1>1, <1>2, <2>1 DEF AgentInv, AgentTypes
  <2>3. InOrder' /\ LiveOK' /\ ReadyOK'
    BY <1>1, <2>1 DEF AgentInv, InOrder, LiveOK, ReadyOK, Live, Running, Spawned, MaySpawn
  <2> QED
    BY <2>2, <2>3 DEF AgentInv
<1> QED
  BY <1>3, <1>4

LEMMA CallStopStep ==
  ASSUME AgentInv, NEW i \in Stops, NEW dispose \in BOOLEAN, CallStop(i, dispose)
  PROVE  AgentInv'
<1>1. /\ stopping' = TRUE /\ disposed' = (disposed \/ dispose)
      /\ timers' = timers \ {restartTimer} /\ restartTimer' = NoChild
      /\ UNCHANGED <<child, readyInfo, crashes>>
  BY DEF CallStop, CancelRestart
<1>2. disposed => disposed'
  BY <1>1 DEF AgentInv, AgentTypes
<1>3. process \in [Children -> Process] /\ stops \in [Stops -> StopCall]
  BY DEF AgentInv, AgentTypes
<1>4. CASE child = NoChild \/ process[child].status = "exited"
  <2>1. state' = "stopped" /\ process' = process /\ stops' = [stops EXCEPT ![i].phase = "returned"]
    BY <1>4 DEF CallStop
  <2>2. stops' \in [Stops -> StopCall]
    <3> DEFINE new == [stops[i] EXCEPT !.phase = "returned"]
    <3>1. new \in StopCall /\ stops' = [stops EXCEPT ![i] = new]
      BY <1>3, <2>1 DEF StopCall
    <3> HIDE DEF new
    <3> QED
      BY <1>3, <3>1
  <2>3. AgentTypes'
    BY <1>1, <2>1, <2>2 DEF AgentInv, AgentTypes
  <2>4. Live = {} /\ \A d \in Children : ~(Running(d) /\ process[d].onExit)
    <3>1. ~Running(child)
      BY <1>4 DEF Running
    <3> QED
      BY <3>1 DEF AgentInv, LiveOK, ReadyOK, Live
  <2>5. InOrder' /\ LiveOK' /\ ReadyOK'
    BY <1>1, <2>1, <2>4 DEF AgentInv, InOrder, LiveOK, ReadyOK, Live, Running, Spawned, MaySpawn
  <2> QED
    BY <2>3, <2>5 DEF AgentInv
<1>5. CASE ~(child = NoChild \/ process[child].status = "exited")
  <2> DEFINE new == [process[child] EXCEPT !.told = TRUE]
             call == [phase |-> "waiting", child |-> child, listening |-> Running(child)]
  <2>1. /\ state' = state /\ child \in Children
        /\ process' = [process EXCEPT ![child] = new] /\ stops' = [stops EXCEPT ![i] = call]
    BY <1>5 DEF CallStop, AgentInv, AgentTypes
  <2>2. /\ new \in Process /\ new.told /\ new.status = process[child].status
        /\ new.killed = process[child].killed /\ new.onExit = process[child].onExit
    BY <1>3, <2>1 DEF Process
  <2>3. call \in StopCall
    BY <2>1 DEF StopCall, Running
  <2> HIDE DEF new, call
  <2>4. /\ process' \in [Children -> Process] /\ process'[child] = new
        /\ \A d \in Children \ {child} : process'[d] = process[d]
    BY <1>3, <2>1, <2>2
  <2>5. AgentTypes'
    BY <1>1, <1>3, <2>1, <2>3, <2>4 DEF AgentInv, AgentTypes
  <2>6. \A d \in Children : Running(d)' = Running(d) /\ process'[d].onExit = process[d].onExit
    BY <2>2, <2>4 DEF Running
  <2>7. Live' = {}
    BY <2>2, <2>4, <2>6 DEF AgentInv, LiveOK, Live
  <2>8. InOrder'
    <3>1. child \in Spawned
      BY <1>5 DEF AgentInv, InOrder
    <3>2. Spawned' = Spawned
      BY <2>2, <2>4 DEF Spawned
    <3> QED
      BY <1>1, <2>4, <2>6, <3>1, <3>2, InOrderKept
  <2>9. LiveOK' /\ ReadyOK'
    <3>1. Running(child)' = Running(child) /\ child' = child /\ readyInfo' = readyInfo
      BY <1>1, <2>1, <2>6 DEF Running
    <3>2. ReadyOK'
      BY <1>1, <1>2, <2>1, <2>6, Numbers DEF AgentInv, AgentTypes, ReadyOK, Running
    <3>3. LiveOK'
      BY <1>1, <2>1, <2>6, <2>7, <3>1 DEF AgentInv, LiveOK, MaySpawn
    <3> QED
      BY <3>2, <3>3
  <2> QED
    BY <2>5, <2>8, <2>9 DEF AgentInv
<1> QED
  BY <1>4, <1>5

LEMMA GraceStep == ASSUME AgentInv, NEW i \in Stops, GraceEnds(i) PROVE AgentInv'
<1> DEFINE c == stops[i].child
           new == [process[c] EXCEPT !.killed = TRUE]
           call == [stops[i] EXCEPT !.phase = "forced"]
<1>1. /\ stops' = [stops EXCEPT ![i] = call] /\ process' = [process EXCEPT ![c] = new]
      /\ UNCHANGED <<state, child, readyInfo, crashes, timers, restartTimer, stopping, disposed>>
  BY DEF GraceEnds
<1>2. /\ process \in [Children -> Process] /\ stops \in [Stops -> StopCall]
      /\ c \in Children \cup {NoChild} /\ call \in StopCall
  BY DEF AgentInv, AgentTypes, StopCall
<1>3. c \in Children => /\ new \in Process /\ new.status = process[c].status
                        /\ new.told = process[c].told /\ new.onExit = process[c].onExit
  <2> SUFFICES ASSUME c \in Children
               PROVE  /\ new \in Process /\ new.status = process[c].status
                      /\ new.told = process[c].told /\ new.onExit = process[c].onExit
    OBVIOUS
  <2>1. process[c] \in Process
    BY <1>2
  <2> HIDE DEF c
  <2> QED
    BY ONLY <2>1 DEF Process
<1> HIDE DEF new, call, c
<1>4. /\ process' \in [Children -> Process]
      /\ \A d \in Children : \/ process'[d] = process[d]
                             \/ d = c /\ process'[d] = new
  BY <1>1, <1>2, <1>3
<1>5. AgentTypes'
  BY <1>1, <1>2, <1>4 DEF AgentInv, AgentTypes
<1>6. \A d \in Children : /\ Running(d)' = Running(d) /\ process'[d].onExit = process[d].onExit
                          /\ process'[d].told = process[d].told
                          /\ process'[d].status = process[d].status
  BY <1>3, <1>4 DEF Running
<1>7. Live' \subseteq Live
  <2> SUFFICES ASSUME NEW d \in Children, Running(d)', ~process'[d].told, ~process'[d].killed
               PROVE  ~process[d].killed
    BY <1>6 DEF Live
  <2>1. CASE process'[d] = process[d]
    BY <2>1
  <2>2. CASE d = c /\ process'[d] = new
    BY <1>2, <2>2 DEF new, Process
  <2> QED
    BY <1>4, <2>1, <2>2
<1>8. InOrder'
  <2>1. Spawned' = Spawned
    BY <1>6 DEF Spawned
  <2> QED
    BY <1>1, <1>4, <1>6, <2>1, InOrderKept
<1>9. LiveOK' /\ ReadyOK'
  BY <1>1, <1>2, <1>6, <1>7 DEF AgentInv, AgentTypes, LiveOK, ReadyOK, MaySpawn, Running
<1> QED
  BY <1>5, <1>8, <1>9 DEF AgentInv

LEMMA StartStep == ASSUME AgentInv, Start PROVE AgentInv'
<1>1. timers' \subseteq Children /\ restartTimer' \in Children \cup {NoChild}
  BY DEF Start, AgentInv, AgentTypes
<1> QED
  BY <1>1, SpawnStep DEF Start

LEMMA EventsStep == ASSUME AgentInv, Events PROVE AgentInv'
  BY ReadyLineStep, HandshakeFailsStep, TimerStep, ChildExitsStep, GraceStep DEF Events

LEMMA AgentStutters == ASSUME AgentInv, UNCHANGED agentVars PROVE AgentInv'
  BY DEF agentVars, AgentInv, AgentTypes, InOrder, LiveOK, ReadyOK, MaySpawn, Live, Running,
         Spawned

\* What the invariant gives a caller of the class.
LEMMA AgentInvImplies == ASSUME AgentInv PROVE OneLiveChild /\ ReadyInfoLive
<1>1. Live \subseteq {child} /\ IsFiniteSet({child}) /\ Cardinality({child}) = 1
  BY FS_Singleton DEF AgentInv, LiveOK
<1>2. Cardinality(Live) <= 1
  BY <1>1, FS_Subset
<1>3. ReadyInfoLive
  BY DEF AgentInv, ReadyOK, ReadyInfoLive
<1> QED
  BY <1>2, <1>3 DEF OneLiveChild, Live

LEMMA AgentInductive == AgentSpec => []AgentInv
<1>1. AgentInv /\ [AgentNext]_agentVars => AgentInv'
  BY StartStep, EventsStep, CallStopStep, AgentStutters DEF AgentNext
<1> QED
  BY <1>1, AgentInitInv, PTL DEF AgentSpec

\* Class AgentProcess, whoever calls start(), stop() and dispose(), in any
\* order and any number of times: at most one child runs that was not told to
\* end, and the port of a finished handshake answers until dispose().
THEOREM OneAgent == AgentSpec => [](OneLiveChild /\ ReadyInfoLive)
  BY AgentInductive, AgentInvImplies, PTL

(***************************************************************************)
(* The plugin's use of the class: one start and at most one dispose.       *)
(***************************************************************************)

disposal == stops[teardownCall]

\* The restart timer is armed only during a backoff, and the field knows it.
TimersOK ==
  /\ OneRestartTimer
  /\ timers # {} => state = "ready" /\ readyInfo = NoChild

\* An agent that may still crash has crashes left to the breaker.
CrashesOK ==
  /\ crashes <= MaxConsecutiveCrashes
  /\ state \in {"starting", "ready"} => crashes < MaxConsecutiveCrashes

\* Before the first start there is nothing to stop.
PreparingOK ==
  stage = "preparing" => state = "stopped" /\ timers = {} /\ crashes = 0 /\ disposal.phase = "none"

\* Only the child of the call was told to end, and once the call was made
\* nothing is left that could spawn another.
StopOK ==
  /\ disposal.phase = "none" => disposal.child = NoChild
  /\ \A c \in Children : process[c].told => c = disposal.child
  /\ disposal.phase # "none" => disposed /\ Live = {} /\ timers = {} /\ stage # "preparing"

PluginTypes ==
  /\ stage \in {"preparing", "starting", "registering", "running", "failed"}
  /\ gone \in BOOLEAN
  /\ info \in Children \cup {NoChild}
  /\ route \in Children \cup {NoChild}

UseInv == TimersOK /\ CrashesOK /\ PreparingOK /\ StopOK /\ DisposeLeavesNone

SidecarIInv == AgentInv /\ UseInv /\ PluginTypes

\* A step that spawns nothing and tells nobody to end.
Fewer ==
  \A d \in Children : /\ process'[d].told = process[d].told
                      /\ process[d].killed => process'[d].killed
                      /\ Running(d)' => Running(d)

\* Such a step leaves the dispose call sound, unless it is the one that makes
\* the call return.
LEMMA FewerKeeps ==
  ASSUME AgentInv, UseInv, Fewer, UNCHANGED <<disposed, disposal.child>>,
         disposal.phase # "none" => timers' = {},
         (stage' = "preparing") <=> (stage = "preparing"),
         (disposal.phase = "none") <=> (disposal'.phase = "none"),
         disposal'.phase = "returned" =>
           \/ disposal.phase = "returned"
           \/ \A c \in Children : Running(c)' => process'[c].killed
  PROVE  StopOK' /\ DisposeLeavesNone'
<1>1. disposal'.child = disposal.child
  OBVIOUS
<1>2. Live' \subseteq Live
  BY DEF Fewer, Live
<1> HIDE DEF disposal
<1>3. StopOK'
  BY <1>1, <1>2 DEF UseInv, StopOK, Fewer
<1>4. DisposeLeavesNone'
  <2>1. disposal.phase = "returned" => \A c \in Children : Running(c) => process[c].killed
    BY DEF UseInv, DisposeLeavesNone, disposal
  <2>2. disposal'.phase = "returned" => \A c \in Children : Running(c)' => process'[c].killed
    BY <2>1 DEF Fewer
  <2> QED
    BY <2>2 DEF DisposeLeavesNone, disposal
<1> QED
  BY <1>3, <1>4

LEMMA SpawnUse ==
  ASSUME AgentInv, UseInv, NEW c \in Children, Spawn(c),
         timers' = {}, restartTimer' = NoChild, UNCHANGED <<crashes, stops>>,
         crashes < MaxConsecutiveCrashes, disposal.phase = "none", stage' # "preparing"
  PROVE  UseInv'
<1>1. state' = "starting" /\ process' = [process EXCEPT ![c].status = "running"]
  BY DEF Spawn
<1>2. process \in [Children -> Process]
  BY DEF AgentInv, AgentTypes
<1>3. \A d \in Children : process'[d].told = process[d].told
  BY <1>1, <1>2 DEF Process
<1>4. disposal' = disposal
  BY DEF disposal
<1>5. StopOK'
  BY <1>3, <1>4 DEF UseInv, StopOK
<1>6. DisposeLeavesNone'
  BY <1>4 DEF DisposeLeavesNone, disposal
<1>7. TimersOK' /\ CrashesOK' /\ PreparingOK'
  BY <1>1 DEF UseInv, TimersOK, OneRestartTimer, CrashesOK, PreparingOK
<1> QED
  BY <1>5, <1>6, <1>7 DEF UseInv

LEMMA StartOnceUse == ASSUME AgentInv, UseInv, StartOnce PROVE UseInv'
<1>1. /\ stage' = "starting" /\ timers' = timers /\ restartTimer' = restartTimer
      /\ UNCHANGED <<crashes, stops>>
  BY DEF StartOnce, Start
<1>2. timers = {} /\ crashes = 0 /\ disposal.phase = "none"
  BY DEF StartOnce, UseInv, PreparingOK
<1>3. restartTimer = NoChild
  BY <1>2 DEF UseInv, TimersOK, OneRestartTimer
<1>4. crashes < MaxConsecutiveCrashes
  BY <1>2
<1> QED
  BY <1>1, <1>2, <1>3, <1>4, SpawnUse DEF StartOnce, Start

LEMMA TimerUse ==
  ASSUME AgentInv, UseInv, NEW c \in Children, TimerFires(c),
         (stage' = "preparing") <=> (stage = "preparing")
  PROVE  UseInv'
<1>1. /\ c \in timers /\ timers' = timers \ {c} /\ restartTimer' = NoChild
      /\ UNCHANGED <<readyInfo, crashes, disposed, stops>>
  BY DEF TimerFires
<1>2. timers = {c} /\ state = "ready" /\ readyInfo = NoChild
  BY <1>1 DEF UseInv, TimersOK, OneRestartTimer
<1>3. disposal.phase = "none" /\ stage # "preparing" /\ crashes < MaxConsecutiveCrashes
  BY <1>2 DEF UseInv, StopOK, PreparingOK, CrashesOK
<1>4. PICK d \in Children : Spawn(d)
  BY <1>2 DEF TimerFires, MaySpawn
<1> QED
  BY <1>1, <1>2, <1>3, <1>4, SpawnUse

LEMMA ReadyLineUse ==
  ASSUME AgentInv, UseInv, ReadyLine, (stage' = "preparing") <=> (stage = "preparing")
  PROVE  UseInv'
<1>1. /\ state = "starting" /\ state' = "ready"
      /\ process' = [process EXCEPT ![child].onExit = TRUE]
      /\ UNCHANGED <<child, crashes, timers, restartTimer, stopping, disposed, stops>>
  BY DEF ReadyLine
<1>2. process \in [Children -> Process]
  BY DEF AgentInv, AgentTypes
<1>3. Fewer
  BY <1>1, <1>2 DEF Fewer, Process, Running
<1>4. timers = {}
  BY <1>1 DEF UseInv, TimersOK
<1>5. disposal' = disposal
  BY <1>1 DEF disposal
<1>6. StopOK' /\ DisposeLeavesNone'
  BY <1>1, <1>3, <1>4, <1>5, FewerKeeps
<1>7. TimersOK' /\ CrashesOK' /\ PreparingOK'
  BY <1>1, <1>4 DEF UseInv, TimersOK, OneRestartTimer, CrashesOK, PreparingOK
<1> QED
  BY <1>6, <1>7 DEF UseInv

\* The fields of the calls that a child's listeners touch.
LEMMA CallEffect ==
  ASSUME AgentInv, NEW c \in Children
  PROVE  /\ stops' = Detached(c) => /\ disposal'.child = disposal.child
                                    /\ disposal'.phase = disposal.phase
         /\ stops' = Returned(Heard(c)) =>
              /\ disposal'.child = disposal.child
              /\ \/ disposal'.phase = disposal.phase
                 \/ disposal.child = c /\ disposal'.phase = "returned"
<1>1. teardownCall \in Stops /\ stops \in [Stops -> StopCall]
  BY SidecarAssumption DEF AgentInv, AgentTypes
<1>2. ASSUME stops' = Detached(c)
      PROVE  disposal'.child = disposal.child /\ disposal'.phase = disposal.phase
  <2>1. stops'[teardownCall] = IF stops[teardownCall].child = c
                               THEN [stops[teardownCall] EXCEPT !.listening = FALSE]
                               ELSE stops[teardownCall]
    BY <1>1, <1>2 DEF Detached
  <2> QED
    BY <1>1, <2>1 DEF disposal, StopCall
<1>3. ASSUME stops' = Returned(Heard(c))
      PROVE  /\ disposal'.child = disposal.child
             /\ \/ disposal'.phase = disposal.phase
                \/ disposal.child = c /\ disposal'.phase = "returned"
  <2>1. stops'[teardownCall] =
          IF teardownCall \in Heard(c)
          THEN [stops[teardownCall] EXCEPT !.phase = "returned", !.listening = FALSE]
          ELSE stops[teardownCall]
    BY <1>1, <1>3 DEF Returned
  <2>2. teardownCall \in Heard(c) => stops[teardownCall].child = c
    BY DEF Heard
  <2>3. CASE teardownCall \in Heard(c)
    BY <1>1, <2>1, <2>2, <2>3 DEF disposal, StopCall
  <2>4. CASE teardownCall \notin Heard(c)
    <3>1. stops'[teardownCall] = stops[teardownCall]
      BY <2>1, <2>4
    <3> QED
      BY <3>1 DEF disposal
  <2> QED
    BY <2>3, <2>4
<1> QED
  BY <1>2, <1>3

LEMMA HandshakeFailsUse ==
  ASSUME AgentInv, UseInv, HandshakeFails, (stage' = "preparing") <=> (stage = "preparing")
  PROVE  UseInv'
<1>1. /\ state = "starting" /\ state' = "stopped" /\ child \in Children
      /\ process' = [process EXCEPT ![child].killed = TRUE] /\ stops' = Detached(child)
      /\ UNCHANGED <<readyInfo, crashes, timers, restartTimer, stopping, disposed>>
  BY DEF HandshakeFails, AgentInv, AgentTypes, Running
<1>2. process \in [Children -> Process]
  BY DEF AgentInv, AgentTypes
<1>3. Fewer
  BY <1>1, <1>2 DEF Fewer, Process, Running
<1>4. timers = {}
  BY <1>1 DEF UseInv, TimersOK
<1>5. disposal'.child = disposal.child /\ disposal'.phase = disposal.phase
  BY <1>1, CallEffect
<1>6. StopOK' /\ DisposeLeavesNone'
  BY <1>1, <1>3, <1>4, <1>5, FewerKeeps
<1>7. TimersOK' /\ CrashesOK' /\ PreparingOK'
  BY <1>1, <1>4, <1>5 DEF UseInv, TimersOK, OneRestartTimer, CrashesOK, PreparingOK
<1> QED
  BY <1>6, <1>7 DEF UseInv

LEMMA ChildExitsUse ==
  ASSUME AgentInv, UseInv, NEW c \in Children, ChildExits(c),
         (stage' = "preparing") <=> (stage = "preparing")
  PROVE  UseInv'
<1>1. Fewer
  BY ExitEffect DEF Fewer, Running
<1>2. Running(c)
  BY DEF ChildExits
<1>3. /\ disposal'.child = disposal.child /\ UNCHANGED disposed
      /\ \/ disposal'.phase = disposal.phase
         \/ disposal.child = c /\ disposal'.phase = "returned"
  BY CallEffect DEF ChildExits, EarlyExit, ReadyExit, SilentExit, disposal
<1>4. disposal.child = c => disposal.phase # "none"
  BY Numbers DEF UseInv, StopOK
\* When the call returns by this exit, the others were told or killed before.
<1>5. disposal'.phase = "returned" =>
        \/ disposal.phase = "returned"
        \/ \A d \in Children : Running(d)' => process'[d].killed
  <2> SUFFICES ASSUME disposal.child = c, NEW d \in Children, Running(d)' PROVE process'[d].killed
    BY <1>3
  <2>1. d # c /\ Running(d)
    BY <1>1, ExitEffect DEF Fewer
  <2>2. ~process[d].told /\ Live = {}
    BY <1>4, <2>1 DEF UseInv, StopOK
  <2>3. process[d].killed
    BY <2>1, <2>2 DEF Live
  <2> QED
    BY <1>1, <2>3 DEF Fewer
<1>6. /\ TimersOK' /\ CrashesOK' /\ PreparingOK'
      /\ disposal.phase # "none" => timers' = {}
  <2>1. stage = "preparing" => disposal.phase = "none" /\ disposal'.phase = "none"
    BY <1>3, <1>4 DEF UseInv, PreparingOK
  <2>2. CASE EarlyExit(c)
    BY <2>1, <2>2 DEF EarlyExit, UseInv, TimersOK, OneRestartTimer, CrashesOK, PreparingOK, StopOK
  <2>3. CASE SilentExit(c)
    BY <2>1, <2>3 DEF SilentExit, UseInv, TimersOK, OneRestartTimer, CrashesOK, PreparingOK, StopOK
  <2>4. CASE ReadyExit(c)
    <3>1. state = "ready" /\ c = child /\ readyInfo = c /\ timers = {} /\ stage # "preparing"
      BY <1>2, <2>4, Numbers DEF AgentInv, ReadyOK, ReadyExit, UseInv, TimersOK, PreparingOK
    <3>2. restartTimer = NoChild
      BY <3>1 DEF UseInv, TimersOK, OneRestartTimer
    <3>3. crashes \in Nat /\ crashes < MaxConsecutiveCrashes
      BY <3>1 DEF UseInv, CrashesOK, AgentInv, AgentTypes
    <3>4. CASE UNCHANGED <<crashes, timers, restartTimer>>
      BY <2>1, <3>1, <3>2, <3>3, <3>4
         DEF TimersOK, OneRestartTimer, CrashesOK, PreparingOK
    <3>5. CASE ~UNCHANGED <<crashes, timers, restartTimer>>
      <4>1. ~disposed /\ readyInfo' = NoChild
        BY <2>4, <3>1, <3>5 DEF ReadyExit, ForgetReady
      <4>2. PICK n \in {crashes + 1, 1} : crashes' = n /\ Crash(c, n)
        BY <2>4, <3>1, <3>5, <4>1 DEF ReadyExit, CrashCounts
      <4>3. CASE n >= MaxConsecutiveCrashes
        BY <2>1, <3>1, <3>2, <3>3, <4>2, <4>3
           DEF Crash, TimersOK, OneRestartTimer, CrashesOK, PreparingOK
      <4>4. CASE ~(n >= MaxConsecutiveCrashes)
        <5>1. timers' = {c} /\ restartTimer' = c /\ state' = "ready" /\ c # NoChild
          BY <3>1, <4>2, <4>4, Numbers DEF Crash
        <5>2. disposal.phase = "none"
          BY <4>1 DEF UseInv, StopOK
        <5>3. crashes' \in Nat /\ crashes' < MaxConsecutiveCrashes
          BY <3>3, <4>2, <4>4
        <5> QED
          BY <3>1, <4>1, <5>1, <5>2, <5>3
             DEF TimersOK, OneRestartTimer, CrashesOK, PreparingOK
      <4> QED
        BY <4>3, <4>4
    <3> QED
      BY <3>4, <3>5
  <2> QED
    BY <2>2, <2>3, <2>4 DEF ChildExits
<1>7. StopOK' /\ DisposeLeavesNone'
  BY <1>1, <1>3, <1>4, <1>5, <1>6, FewerKeeps
<1> QED
  BY <1>6, <1>7 DEF UseInv

LEMMA GraceUse ==
  ASSUME AgentInv, UseInv, NEW i \in Stops, GraceEnds(i),
         (stage' = "preparing") <=> (stage = "preparing")
  PROVE  UseInv'
<1>1. /\ i = teardownCall /\ disposal.phase = "waiting"
      /\ stops' = [stops EXCEPT ![i].phase = "forced"]
      /\ process' = [process EXCEPT ![stops[i].child].killed = TRUE]
      /\ UNCHANGED <<state, child, readyInfo, crashes, timers, restartTimer, stopping, disposed>>
  BY SidecarAssumption DEF GraceEnds, disposal
<1>2. process \in [Children -> Process] /\ stops \in [Stops -> StopCall]
  BY DEF AgentInv, AgentTypes
<1>3. disposal'.child = disposal.child /\ disposal'.phase = "forced"
  BY <1>1, <1>2 DEF disposal, StopCall
<1>4. Fewer
  BY <1>1, <1>2 DEF Fewer, Process, Running
<1>5. timers = {}
  BY <1>1 DEF UseInv, StopOK
<1>6. StopOK' /\ DisposeLeavesNone'
  BY <1>1, <1>3, <1>4, <1>5, FewerKeeps
<1>7. TimersOK' /\ CrashesOK' /\ PreparingOK'
  BY <1>1, <1>3 DEF UseInv, TimersOK, OneRestartTimer, CrashesOK, PreparingOK
<1> QED
  BY <1>6, <1>7 DEF UseInv

LEMMA TeardownUse == ASSUME AgentInv, UseInv, Teardown, UNCHANGED stage PROVE UseInv'
<1>1. CASE stage = "preparing"
  <2>1. UNCHANGED agentVars
    BY <1>1 DEF Teardown
  <2> QED
    BY <2>1 DEF agentVars, UseInv, TimersOK, OneRestartTimer, CrashesOK, PreparingOK, StopOK,
           DisposeLeavesNone, disposal, Live, Running
<1>2. CASE stage # "preparing"
  <2>1. /\ CallStop(teardownCall, TRUE) /\ stops[teardownCall].phase = "none"
        /\ disposed' = (disposed \/ TRUE) /\ timers' = timers \ {restartTimer}
        /\ restartTimer' = NoChild /\ UNCHANGED <<child, readyInfo, crashes>>
    BY <1>2 DEF Teardown, CallStop, CancelRestart
  <2>2. /\ process \in [Children -> Process] /\ stops \in [Stops -> StopCall]
        /\ teardownCall \in Stops /\ child \in Children \cup {NoChild}
    BY SidecarAssumption DEF AgentInv, AgentTypes
  <2>3. timers' = {} /\ disposed'
    BY <2>1 DEF UseInv, TimersOK, OneRestartTimer
  <2>4. /\ disposal.phase = "none" /\ disposal.child = NoChild
        /\ \A c \in Children : ~process[c].told
    BY <2>1, Numbers DEF UseInv, StopOK, disposal
  <2>5. CASE child = NoChild \/ process[child].status = "exited"
    <3>1. state' = "stopped" /\ process' = process
          /\ stops' = [stops EXCEPT ![teardownCall].phase = "returned"]
      BY <2>1, <2>5 DEF CallStop
    <3>2. disposal'.phase = "returned"
      BY <2>2, <3>1 DEF disposal, StopCall
    <3>3. Live = {}
      BY <2>5 DEF AgentInv, LiveOK, Live, Running
    <3>4. Live' = {}
      BY <3>1, <3>3 DEF Live, Running
    <3>5. StopOK'
      BY <1>2, <2>3, <2>4, <3>1, <3>2, <3>4 DEF StopOK, Teardown
    <3>6. \A c \in Children : Running(c)' => process'[c].killed
      BY <2>4, <3>1, <3>3 DEF Live, Running
    <3>7. DisposeLeavesNone'
      BY <3>6 DEF DisposeLeavesNone
    <3>8. TimersOK' /\ CrashesOK' /\ PreparingOK'
      BY <1>2, <2>1, <2>3, <3>1 DEF UseInv, TimersOK, OneRestartTimer, CrashesOK, PreparingOK
    <3> QED
      BY <3>5, <3>7, <3>8 DEF UseInv
  <2>6. CASE ~(child = NoChild \/ process[child].status = "exited")
    <3>1. /\ process' = [process EXCEPT ![child].told = TRUE] /\ state' = state
          /\ stops' = [stops EXCEPT ![teardownCall] =
               [phase |-> "waiting", child |-> child, listening |-> Running(child)]]
      BY <2>1, <2>6 DEF CallStop
    <3>2. disposal'.phase = "waiting" /\ disposal'.child = child
      BY <2>2, <3>1 DEF disposal
    <3>3. \A c \in Children : process'[c].told <=> c = child
      BY <2>2, <2>4, <3>1 DEF Process
    <3>4. Live' = {}
      <4>1. Live' \subseteq Live
        BY <2>2, <2>4, <3>1 DEF Live, Running, Process
      <4> QED
        BY <3>3, <4>1 DEF AgentInv, LiveOK, Live
    <3>5. StopOK'
      BY <1>2, <2>3, <3>2, <3>3, <3>4 DEF StopOK
    <3>6. DisposeLeavesNone'
      BY <3>2 DEF DisposeLeavesNone, disposal
    <3>7. TimersOK' /\ CrashesOK' /\ PreparingOK'
      BY <1>2, <2>1, <2>3, <3>1 DEF UseInv, TimersOK, OneRestartTimer, CrashesOK, PreparingOK
    <3> QED
      BY <3>5, <3>6, <3>7 DEF UseInv
  <2> QED
    BY <2>5, <2>6
<1> QED
  BY <1>1, <1>2

LEMMA SidecarInitInv == Init => SidecarIInv
<1> SUFFICES ASSUME Init PROVE SidecarIInv
  OBVIOUS
<1>1. AgentInv
  BY AgentInitInv DEF Init
<1>2. /\ disposal.phase = "none" /\ disposal.child = NoChild
      /\ \A c \in Children : ~process[c].told
  BY SidecarAssumption DEF Init, AgentInit, disposal
<1>3. /\ stage = "preparing" /\ state = "stopped" /\ crashes = 0 /\ timers = {}
      /\ restartTimer = NoChild
  BY DEF Init, AgentInit
<1>4. StopOK
  BY <1>2 DEF StopOK
<1>5. DisposeLeavesNone
  BY <1>2 DEF DisposeLeavesNone, disposal
<1>6. TimersOK /\ CrashesOK /\ PreparingOK
  BY <1>2, <1>3 DEF TimersOK, OneRestartTimer, CrashesOK, PreparingOK
<1>7. PluginTypes
  BY DEF Init, PluginTypes
<1> QED
  BY <1>1, <1>4, <1>5, <1>6, <1>7 DEF SidecarIInv, UseInv

LEMMA SidecarStep == SidecarIInv /\ [Next]_vars => SidecarIInv'
<1> SUFFICES ASSUME SidecarIInv, [Next]_vars PROVE SidecarIInv'
  OBVIOUS
<1>1. AgentInv /\ UseInv /\ PluginTypes
  BY DEF SidecarIInv
<1>2. CASE StartOnce
  <2>1. AgentInv'
    BY <1>1, <1>2, StartStep DEF StartOnce
  <2>2. UseInv'
    BY <1>1, <1>2, StartOnceUse
  <2>3. PluginTypes'
    BY <1>1, <1>2 DEF StartOnce, PluginTypes
  <2> QED
    BY <2>1, <2>2, <2>3 DEF SidecarIInv
<1>3. CASE AgentEvent
  <2>1. AgentInv'
    BY <1>1, <1>3, EventsStep DEF AgentEvent
  <2>2. /\ \/ stage' = stage
           \/ stage = "starting" /\ stage' \in {"registering", "failed"}
        /\ UNCHANGED <<gone, route>>
        /\ info' \in {info, readyInfo'}
    <3>1. CASE stage = "starting" /\ state' = "ready"
      BY <1>3, <3>1 DEF AgentEvent
    <3>2. CASE stage = "starting" /\ state' = "stopped"
      BY <1>3, <3>2 DEF AgentEvent
    <3>3. CASE stage = "starting" /\ state' # "ready" /\ state' # "stopped"
      BY <1>3, <3>3 DEF AgentEvent
    <3>4. CASE stage # "starting"
      BY <1>3, <3>4 DEF AgentEvent
    <3> QED
      BY <3>1, <3>2, <3>3, <3>4
  <2>3. (stage' = "preparing") <=> (stage = "preparing")
    BY <2>2
  <2>4. UseInv'
    BY <1>1, <1>3, <2>3, ReadyLineUse, HandshakeFailsUse, TimerUse, ChildExitsUse, GraceUse
       DEF AgentEvent, Events
  <2>5. PluginTypes'
    BY <1>1, <2>1, <2>2 DEF PluginTypes, AgentInv, AgentTypes
  <2> QED
    BY <2>1, <2>4, <2>5 DEF SidecarIInv
<1>4. CASE Register
  <2>1. /\ UNCHANGED <<agentVars, gone, info>> /\ stage # "preparing" /\ stage' = "running"
        /\ route' = info
    BY <1>4 DEF Register
  <2>2. AgentInv'
    BY <1>1, <2>1, AgentStutters
  <2>3. UseInv'
    BY <1>1, <2>1 DEF agentVars, UseInv, TimersOK, OneRestartTimer, CrashesOK, PreparingOK,
       StopOK, DisposeLeavesNone, disposal, Live, Running
  <2>4. PluginTypes'
    BY <1>1, <2>1 DEF PluginTypes
  <2> QED
    BY <2>2, <2>3, <2>4 DEF SidecarIInv
<1>5. CASE Teardown
  <2>1. UNCHANGED <<stage, info, route>> /\ gone' = TRUE
    BY <1>5 DEF Teardown
  <2>2. AgentInv'
    <3>1. teardownCall \in Stops
      BY SidecarAssumption
    <3> QED
      BY <1>1, <1>5, <3>1, AgentStutters, CallStopStep DEF Teardown
  <2>3. UseInv'
    BY <1>1, <1>5, <2>1, TeardownUse
  <2>4. PluginTypes'
    BY <1>1, <2>1 DEF PluginTypes
  <2> QED
    BY <2>2, <2>3, <2>4 DEF SidecarIInv
<1>6. CASE UNCHANGED vars
  <2>1. UNCHANGED <<agentVars, stage, gone, info, route>>
    BY <1>6 DEF vars
  <2>2. AgentInv'
    BY <1>1, <2>1, AgentStutters
  <2>3. UseInv' /\ PluginTypes'
    BY <1>1, <2>1 DEF agentVars, UseInv, TimersOK, OneRestartTimer, CrashesOK, PreparingOK,
       StopOK, DisposeLeavesNone, disposal, Live, Running, PluginTypes
  <2> QED
    BY <2>2, <2>3 DEF SidecarIInv
<1> QED
  BY <1>2, <1>3, <1>4, <1>5, <1>6 DEF Next

LEMMA SidecarInductive == Spec => []SidecarIInv
  BY SidecarInitInv, SidecarStep, PTL DEF Spec

\* The plugin's agent: one live child, an answering port, and never a restart
\* timer that dispose() could not cancel.
THEOREM AgentSound == Spec => []SidecarInv
<1>1. SidecarIInv => SidecarInv
  <2> SUFFICES ASSUME SidecarIInv PROVE SidecarInv
    OBVIOUS
  <2>1. AgentInv /\ UseInv /\ PluginTypes
    BY DEF SidecarIInv
  <2>2. OneLiveChild /\ ReadyInfoLive
    BY <2>1, AgentInvImplies
  <2>3. crashes \in 0 .. MaxConsecutiveCrashes
    BY <2>1 DEF UseInv, CrashesOK, AgentInv, AgentTypes
  <2>4. TypeOK
    BY <2>1, <2>3 DEF AgentInv, AgentTypes, PluginTypes, TypeOK, AgentTypeOK
  <2> QED
    BY <2>1, <2>2, <2>4 DEF UseInv, TimersOK, SidecarInv
<1> QED
  BY <1>1, SidecarInductive, PTL

\* When dispose() has returned, every child of the plugin has ended or was
\* killed, whenever in the agent's life the teardown came.
THEOREM NoneLeftBehind == Spec => []DisposeLeavesNone
<1>1. SidecarIInv => DisposeLeavesNone
  BY DEF SidecarIInv, UseInv
<1> QED
  BY <1>1, SidecarInductive, PTL

(***************************************************************************)
(* The catalog, for any models, lists and metadata, and any number of      *)
(* refreshes in flight.                                                    *)
(***************************************************************************)
USE CatalogAssumption

\* Metadata that is not what nothing-learned looks like says something.
LEMMA Learned ==
  ASSUME NEW data \in Metadata, data # Pending
  PROVE  \E m \in Models : data[m] # "absent"
<1> SUFFICES ASSUME \A m \in Models : data[m] = "absent" PROVE FALSE
  OBVIOUS
<1>1. data = [m \in Models |-> data[m]]
  BY DEF Metadata
<1> QED
  BY <1>1 DEF Pending

LEMMA NoRefreshTyped == Pending \in Metadata /\ NoRefresh \in Refresh /\ AnyRefresh \in Refreshes
<1>1. Pending \in Metadata
  BY DEF Pending, Metadata, Verdicts
<1> QED
  BY <1>1 DEF NoRefresh, Refresh, AnyRefresh

Boot == [phase: {"new", "refreshing", "waiting", "ended"}, attempts: 0 .. MaxAttempts,
         awaits: Refreshes]

\* A refresh that moves on stays typed; nobody else's is touched.
LEMMA MovesOn ==
  ASSUME CatalogTypeOK, NEW r \in Refreshes, NEW new \in Refresh,
         refresh' = [refresh EXCEPT ![r] = new]
  PROVE  refresh' \in [Refreshes -> Refresh]
  BY DEF CatalogTypeOK

LEMMA AsksTyped ==
  ASSUME CatalogTypeOK, NEW r \in Refreshes, Asks(r)
  PROVE  refresh' \in [Refreshes -> Refresh]
<1>1. [zen |-> "asked", meta |-> "asked", learned |-> Pending] \in Refresh
  BY NoRefreshTyped DEF Refresh
<1> QED
  BY <1>1, MovesOn DEF Asks

LEMMA SettlesTyped ==
  ASSUME CatalogTypeOK, NEW r \in Refreshes, NEW half \in {"zen", "meta"}, Settles(r, half)
  PROVE  refresh' \in [Refreshes -> Refresh]
<1> DEFINE new == [refresh[r] EXCEPT ![half] = "settled"]
<1>1. refresh[r] \in Refresh
  BY DEF CatalogTypeOK
<1>2. CASE half = "zen"
  <2>1. refresh' = [refresh EXCEPT ![r] = [refresh[r] EXCEPT !.zen = "settled"]]
    BY <1>2 DEF Settles
  <2>2. [refresh[r] EXCEPT !.zen = "settled"] \in Refresh
    BY ONLY <1>1 DEF Refresh
  <2> QED
    BY <2>1, <2>2, MovesOn
<1>3. CASE half = "meta"
  <2>1. refresh' = [refresh EXCEPT ![r] = [refresh[r] EXCEPT !.meta = "settled"]]
    BY <1>3 DEF Settles
  <2>2. [refresh[r] EXCEPT !.meta = "settled"] \in Refresh
    BY ONLY <1>1 DEF Refresh
  <2> QED
    BY <2>1, <2>2, MovesOn
<1> QED
  BY <1>2, <1>3

LEMMA MetaTyped ==
  ASSUME CatalogTypeOK, NEW r \in Refreshes,
         NEW meta \in {"asked", "writing", "removed", "loading", "settled"},
         NEW learned \in Metadata,
         refresh' = [refresh EXCEPT ![r].meta = meta, ![r].learned = learned]
  PROVE  refresh' \in [Refreshes -> Refresh]
<1> DEFINE new == [refresh[r] EXCEPT !.meta = meta, !.learned = learned]
<1>1. refresh[r] \in Refresh
  BY DEF CatalogTypeOK
<1>2. new \in Refresh
  BY <1>1 DEF Refresh
<1>3. refresh' = [refresh EXCEPT ![r] = new]
  OBVIOUS
<1> HIDE DEF new
<1> QED
  BY <1>2, <1>3, MovesOn

LEMMA CatalogInitInv == CatalogInit => CatalogInv /\ NoTimerAfterStop
<1> SUFFICES ASSUME CatalogInit PROVE CatalogInv /\ NoTimerAfterStop
  OBVIOUS
<1>1. Booting \in Boot
  BY NoRefreshTyped DEF Booting, Boot
<1>2. CatalogTypeOK
  BY <1>1, NoRefreshTyped DEF CatalogInit, CatalogTypeOK, Boot
<1> QED
  BY <1>2 DEF CatalogInit, CatalogInv, ReadyMeansLearned, NoTimerAfterStop

\* One half of a refresh goes on.
LEMMA SettlingKeeps ==
  ASSUME CatalogInv, NEW r \in Refreshes, Settling(r)
  PROVE  CatalogInv' /\ UNCHANGED <<timer, stopped>>
<1> USE DEF CatalogInv
<1>0. /\ zen \subseteq Models /\ prices \in Metadata /\ ready \in BOOLEAN /\ cache \in Metadata
      /\ boot \in Boot /\ timer \in BOOLEAN /\ stopped \in BOOLEAN
      /\ ~ready => prices = Pending
      /\ refresh[r] \in Refresh /\ refresh[r].learned \in Metadata
  BY DEF CatalogTypeOK, Boot, Refresh
<1>1. ASSUME UNCHANGED <<boot, timer, stopped>>, zen' \subseteq Models, cache' \in Metadata,
             refresh' \in [Refreshes -> Refresh],
             \/ UNCHANGED <<prices, ready>>
             \/ prices' \in Metadata /\ prices' # Pending /\ ready' = TRUE
      PROVE  CatalogInv' /\ UNCHANGED <<timer, stopped>>
  <2>1. prices' \in Metadata /\ ready' \in BOOLEAN /\ (~ready' => prices' = Pending)
    <3>1. CASE UNCHANGED <<prices, ready>>
      BY <1>0, <3>1
    <3>2. CASE prices' \in Metadata /\ ready' = TRUE
      BY <3>2, Zenon
    <3> QED
      BY <1>1, <3>1, <3>2
  <2>2. CatalogTypeOK'
    BY <1>0, <1>1, <2>1 DEF CatalogTypeOK, Boot
  <2>3. ReadyMeansLearned'
    BY <1>1, Learned DEF ReadyMeansLearned
  <2> QED
    BY <1>1, <2>2, <2>3
<1>2. ASSUME NEW list \in SUBSET Models, ZenAnswers(r, list)
      PROVE  CatalogInv' /\ UNCHANGED <<timer, stopped>>
  BY <1>0, <1>1, <1>2, SettlesTyped DEF ZenAnswers
<1>3. CASE ZenFails(r)
  BY <1>0, <1>1, <1>3, SettlesTyped DEF ZenFails
<1>4. ASSUME NEW answer \in Answers, MetadataAnswers(r, answer)
      PROVE  CatalogInv' /\ UNCHANGED <<timer, stopped>>
  <2>1. answer \in Metadata /\ answer # Pending
    BY DEF CatalogAssumption
  <2> QED
    BY <1>0, <1>1, <1>4, <2>1, MetaTyped DEF MetadataAnswers
<1>5. CASE SaveRemoves(r)
  <2>1. refresh' = [refresh EXCEPT ![r] = [refresh[r] EXCEPT !.meta = "removed"]]
    BY <1>5 DEF SaveRemoves
  <2>2. [refresh[r] EXCEPT !.meta = "removed"] \in Refresh
    BY <1>0 DEF Refresh
  <2> QED
    BY <1>0, <1>1, <1>5, <2>1, <2>2, MovesOn, NoRefreshTyped DEF SaveRemoves
<1>6. CASE SaveRenames(r) \/ SaveFails(r)
  BY <1>0, <1>1, <1>6, MetaTyped, NoRefreshTyped DEF SaveRenames, SaveFails
<1>7. CASE MetadataFails(r)
  <2> DEFINE meta == IF ready THEN "settled" ELSE "loading"
  <2>1. refresh' = [refresh EXCEPT ![r] = [refresh[r] EXCEPT !.meta = meta]]
    BY <1>7 DEF MetadataFails
  <2>2. [refresh[r] EXCEPT !.meta = meta] \in Refresh
    BY <1>0 DEF Refresh
  <2> QED
    BY <1>0, <1>1, <1>7, <2>1, <2>2, MovesOn DEF MetadataFails
<1>8. CASE Loads(r)
  BY <1>0, <1>1, <1>8, SettlesTyped DEF Loads
<1> QED
  BY <1>2, <1>3, <1>4, <1>5, <1>6, <1>7, <1>8 DEF Settling

LEMMA CatalogStep ==
  CatalogInv /\ NoTimerAfterStop /\ [CatalogNext]_catalogVars => (CatalogInv /\ NoTimerAfterStop)'
<1> SUFFICES ASSUME CatalogInv, NoTimerAfterStop, [CatalogNext]_catalogVars
             PROVE  (CatalogInv /\ NoTimerAfterStop)'
  OBVIOUS
<1>0. /\ CatalogTypeOK /\ ReadyMeansLearned /\ boot \in Boot /\ refresh \in [Refreshes -> Refresh]
      /\ timer \in BOOLEAN /\ stopped \in BOOLEAN /\ cache \in Metadata
  BY DEF CatalogInv, CatalogTypeOK, Boot
<1>1. ASSUME UNCHANGED <<zen, prices, ready, cache>>, refresh' \in [Refreshes -> Refresh],
             boot' \in Boot, timer' \in BOOLEAN, stopped' \in BOOLEAN
      PROVE  CatalogInv'
  BY <1>0, <1>1 DEF CatalogInv, CatalogTypeOK, ReadyMeansLearned, Boot
<1>2. ASSUME NEW r \in Refreshes, Settling(r) PROVE (CatalogInv /\ NoTimerAfterStop)'
  BY <1>2, SettlingKeeps DEF NoTimerAfterStop
<1>3. ASSUME NEW r \in Refreshes, CatalogStart(r) \/ Retries(r) \/ Tick(r)
      PROVE  (CatalogInv /\ NoTimerAfterStop)'
  <2>1. refresh' \in [Refreshes -> Refresh]
    BY <1>0, <1>3, AsksTyped DEF CatalogStart, Retries, Tick
  <2>2. boot' \in Boot
    <3>1. /\ [boot EXCEPT !.phase = "refreshing", !.awaits = r] \in Boot
          /\ [boot EXCEPT !.phase = "ended"] \in Boot
      BY ONLY <1>0, r \in Refreshes DEF Boot
    <3> QED
      BY <1>0, <1>3, <3>1 DEF CatalogStart, Retries, Tick
  <2>3. UNCHANGED <<zen, prices, ready, cache, timer, stopped>>
    BY <1>3 DEF CatalogStart, Retries, Tick
  <2> QED
    BY <1>0, <1>1, <2>1, <2>2, <2>3 DEF NoTimerAfterStop
<1>4. CASE Continues
  <2>1. boot' \in Boot
    <3>1. MaxAttempts \in Nat
      BY DEF CatalogAssumption
    <3>2. [boot EXCEPT !.phase = "ended"] \in Boot
      BY ONLY <1>0 DEF Boot
    <3>3. boot.attempts < MaxAttempts =>
            [boot EXCEPT !.phase = "waiting", !.attempts = @ + 1] \in Boot
      <4> SUFFICES ASSUME boot.attempts < MaxAttempts
                   PROVE  [boot EXCEPT !.phase = "waiting", !.attempts = boot.attempts + 1] \in Boot
        OBVIOUS
      <4>1. boot.attempts \in Nat
        BY <1>0, <3>1 DEF Boot
      <4>2. boot.attempts + 1 \in 0 .. MaxAttempts
        BY <3>1, <4>1
      <4> QED
        BY <1>0, <4>2 DEF Boot
    <3> QED
      BY <1>4, <3>2, <3>3 DEF Continues
  <2>2. /\ UNCHANGED <<zen, prices, ready, cache, refresh, stopped>>
        /\ timer' = timer \/ timer' = ~stopped
    BY <1>4 DEF Continues
  <2>3. CatalogInv'
    BY <1>0, <1>1, <2>1, <2>2
  <2>4. NoTimerAfterStop'
    <3>1. CASE timer' = timer
      BY <2>2, <3>1 DEF NoTimerAfterStop
    <3>2. CASE timer' = ~stopped
      BY <2>2, <3>2 DEF NoTimerAfterStop
    <3> QED
      BY <2>2, <3>1, <3>2
  <2> QED
    BY <2>3, <2>4
<1>5. CASE Stop
  BY <1>0, <1>1, <1>5 DEF Stop, NoTimerAfterStop
<1>6. CASE CacheExpires
  BY <1>6, NoRefreshTyped DEF CacheExpires, CatalogInv, CatalogTypeOK, ReadyMeansLearned,
                              NoTimerAfterStop
<1>7. CASE Restart
  <2>1. Booting \in Boot
    BY NoRefreshTyped DEF Booting, Boot
  <2>2. CatalogTypeOK'
    BY <1>0, <1>7, <2>1, NoRefreshTyped DEF Restart, CatalogTypeOK, Boot
  <2> QED
    BY <1>7, <2>2 DEF Restart, CatalogInv, ReadyMeansLearned, NoTimerAfterStop
<1>8. CASE UNCHANGED catalogVars
  BY <1>0, <1>1, <1>8 DEF catalogVars, NoTimerAfterStop
<1> QED
  BY <1>2, <1>3, <1>4, <1>5, <1>6, <1>7, <1>8 DEF CatalogNext

LEMMA CatalogInductive == CatalogSpec => [](CatalogInv /\ NoTimerAfterStop)
  BY CatalogInitInv, CatalogStep, PTL DEF CatalogSpec

\* Whatever refreshes overlap and wherever a crash cuts a save short, metadata
\* counts only when something was learned.
THEOREM CatalogSound == CatalogSpec => []CatalogInv
  BY CatalogInductive, PTL

\* A stop at any await of start() leaves no interval armed.
THEOREM StopIsFinal == CatalogSpec => []NoTimerAfterStop
  BY CatalogInductive, PTL

\* The layered verdict of decide() and decision() is the plain rule: no model
\* is offered that neither metadata, name nor verification vouch for.
THEOREM OfferSound == CatalogSpec => []OffersOnlyVouched
<1>1. CatalogInv => OffersOnlyVouched
  <2> SUFFICES ASSUME CatalogInv PROVE OffersOnlyVouched
    OBVIOUS
  <2>1. ASSUME NEW m \in Models PROVE Allowed(m) <=> Vouched(m)
    <3>0. prices[m] \in Verdicts /\ ready \in BOOLEAN
      BY DEF CatalogInv, CatalogTypeOK, Metadata
    <3>1. CASE m \in Unavailable
      BY <3>1 DEF Allowed, Decide, Decision, Vouched, CatalogAssumption
    <3>2. CASE m \notin Unavailable /\ Silent(m)
      <4>1. Decide(m) \in {Fallback(m, "metadata_pending"), Fallback(m, "metadata_model_missing")}
        BY <3>0, <3>2 DEF Decide, Silent
      <4> QED
        BY <3>0, <3>2, <4>1 DEF Allowed, Fallback, Decision, Vouched, Silent
    <3>3. CASE m \notin Unavailable /\ ready /\ prices[m] = "free"
      BY <3>3 DEF Allowed, Decide, Decision, Vouched
    <3>4. CASE m \notin Unavailable /\ ready /\ prices[m] = "paid"
      BY <3>4 DEF Allowed, Decide, Decision, Vouched, Silent
    <3>5. CASE m \notin Unavailable /\ ready /\ prices[m] = "unknown"
      BY <3>5 DEF Allowed, Decide, Decision, Vouched, Silent
    <3>6. CASE m \notin Unavailable /\ ready /\ prices[m] = "deprecated"
      BY <3>6 DEF Allowed, Decide, Decision, Vouched, Silent
    <3> QED
      BY <3>0, <3>1, <3>2, <3>3, <3>4, <3>5, <3>6 DEF Verdicts, Silent
  <2>2. zen \subseteq Models
    BY DEF CatalogInv, CatalogTypeOK
  <2> QED
    BY <2>1, <2>2 DEF OffersOnlyVouched, List
<1> QED
  BY <1>1, CatalogInductive, PTL
=============================================================================
