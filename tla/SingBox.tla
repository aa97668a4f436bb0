------------------------------- MODULE SingBox -------------------------------
(***************************************************************************)
(* SingBoxSupervisor (packages/plugin/src/pool/singbox.ts): the child      *)
(* process that serves every encrypted node of the subscriptions on a      *)
(* local port of its own. reload() prepares a configuration, stops the     *)
(* child there is, spawns a new one and waits for its ports; stop() may be *)
(* called at any time as well.                                             *)
(*                                                                         *)
(* The supervisor is a value b = [child, running, process, stops, reload], *)
(* its methods are operators on it, and what a promise continues with at   *)
(* once belongs to the step that settles it. Only the signals of posix are *)
(* modelled. Of a configuration what counts is which node each port leads  *)
(* to; the credentials, the config file and the log are left out.          *)
(***************************************************************************)
EXTENDS Integers, Sequences, FiniteSets

CONSTANTS
  MaxChildren, \* bound on the children spawned
  Servers      \* host and port of an encrypted node

Children == 1 .. MaxChildren

NoChild == 0

\* The types buildOutbound knows, and one of those it does not.
SupportedTypes == {"vmess", "vless", "trojan", "shadowsocks", "hysteria2", "tuic", "anytls"}

Supported(node) == node.type \in SupportedTypes

\* What the key of a node tells apart; a subscription may name a key twice.
Nodes == [type: SupportedTypes \cup {"shadowsocksr"}, server: Servers]

(***************************************************************************)
(* generateConfig: node i of the list gets port i, used or not.            *)
(***************************************************************************)
KeyOf(node) == <<node.type, node.server>>

\* Slip: the rule of a port is numbered over the supported nodes only.
RuleOfPacked(nodes, port) ==
  LET served == SelectSeq(nodes, Supported)
  IN  IF port <= Len(served) THEN served[port] ELSE [type |-> "direct", server |-> "direct"]

\* The node that traffic into an inbound is routed to.
RuleOf(nodes, port) == nodes[port]

\* A later node with the same key takes the entry; an unsupported one has none.
PortMap(nodes) ==
  [key \in {KeyOf(nodes[i]) : i \in {j \in DOMAIN nodes : Supported(nodes[j])}} |->
     CHOOSE i \in DOMAIN nodes :
       KeyOf(nodes[i]) = key /\ \A j \in DOMAIN nodes : KeyOf(nodes[j]) = key => j <= i]

\* The exits reload returns: nodes with an entry, a repeated one at one address.
ConvertedExits(nodes) ==
  {[port |-> PortMap(nodes)[KeyOf(nodes[i])], node |-> nodes[i]] :
     i \in {j \in DOMAIN nodes : KeyOf(nodes[j]) \in DOMAIN PortMap(nodes)}}

(***************************************************************************)
(* The supervisor.                                                         *)
(***************************************************************************)
\* byReload is the stop() inside reload(), byFetcher the one at disposal.
Calls == {"byReload", "byFetcher"}

NewBox == [child |-> NoChild, running |-> FALSE,
           process |-> [c \in Children |-> [status |-> "none", killed |-> FALSE]],
           stops |-> [call \in Calls |-> [phase |-> "none", child |-> NoChild, heard |-> FALSE]],
           reload |-> [phase |-> "idle", nodes |-> << >>, spawned |-> NoChild]]

IsBox(b) ==
  /\ b.child \in Children \cup {NoChild} /\ b.running \in BOOLEAN
  /\ b.process \in [Children -> [status: {"none", "running", "exited", "signalled"},
                                 killed: BOOLEAN]]
  /\ b.stops \in [Calls -> [phase: {"none", "waiting", "forced", "returned"},
                            child: Children \cup {NoChild}, heard: BOOLEAN]]
  /\ b.reload.phase \in {"idle", "preparing", "stopping", "waiting"}
  /\ b.reload.nodes \in Seq(Nodes) /\ b.reload.spawned \in Children \cup {NoChild}

Alive(b, c) == c # NoChild /\ b.process[c].status = "running"

Spawned(b) == {c \in Children : b.process[c].status # "none"}

Reload(b, nodes) == [b EXCEPT !.reload = [phase |-> "preparing", nodes |-> nodes, spawned |-> NoChild]]

\* A reload that throws or has returned.
Reloaded(b) == [b EXCEPT !.reload = NewBox.reload]

\* Once its stop() has returned, reload spawns the next child.
SpawnNext(b) ==
  LET c == Cardinality(Spawned(b)) + 1
  IN  IF b.reload.phase = "stopping" /\ b.stops["byReload"].phase = "returned"
      THEN [b EXCEPT !.child = c, !.running = TRUE, !.process[c].status = "running",
                     !.reload.phase = "waiting", !.reload.spawned = c,
                     !.stops["byReload"] = NewBox.stops["byReload"]]
      ELSE b

\* The field is cleared first. A child that a signal ended has no exit code:
\* stop() goes on to wait for an exit that nobody will report any more.
Stop(b, call) ==
  IF b.child = NoChild \/ b.process[b.child].status = "exited"
  THEN [b EXCEPT !.running = FALSE, !.stops[call].phase = "returned"]
  ELSE [b EXCEPT !.child = NoChild,
                 !.stops[call] = [phase |-> "waiting", child |-> b.child, heard |-> Alive(b, b.child)]]

\* The configuration is written and checked; the child there is goes.
Prepared(b) == SpawnNext(Stop([b EXCEPT !.reload.phase = "stopping"], "byReload"))

\* Slip: the second signal is not sent.
ForcedPolitely(b, call) == [b EXCEPT !.stops[call].phase = "forced"]

\* The grace of a stop() is over.
Forced(b, call) ==
  LET c == b.stops[call].child
  IN  [b EXCEPT !.stops[call].phase = "forced", !.process[c].killed = TRUE]

\* The stop() calls that hear the exit of c return.
Returned(b, c) ==
  [call \in Calls |-> IF b.stops[call].child = c /\ b.stops[call].heard
                      THEN [phase |-> "returned", child |-> NoChild, heard |-> FALSE]
                      ELSE b.stops[call]]

\* Slip: the exit of a child is not watched.
ExitedUnwatched(b, c, kind) ==
  SpawnNext([b EXCEPT !.process[c].status = kind, !.stops = Returned(b, c),
                      !.running = IF Returned(b, c) # b.stops THEN FALSE ELSE @])

\* A child ends: its own watcher counts only while it is the current one.
Exited(b, c, kind) ==
  SpawnNext([b EXCEPT !.process[c].status = kind, !.stops = Returned(b, c),
                      !.running = IF b.child = c \/ Returned(b, c) # b.stops THEN FALSE ELSE @])
=============================================================================
