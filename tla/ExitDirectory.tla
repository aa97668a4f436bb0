---------------------------- MODULE ExitDirectory ---------------------------
(***************************************************************************)
(* What the exit table promises its callers, without health, bans, locks   *)
(* or clocks: a directory of exits in which no two addresses share an exit *)
(* IP (one exit IP is one quota bucket), and in which the exit a session   *)
(* is bound to and the primary exit are always entries. Leaving unbinds    *)
(* everything that points at the entry in the same step. Module ExitPool   *)
(* is shown to implement it.                                               *)
(***************************************************************************)
CONSTANTS Exits, Sessions, ExitIPs, NoIP, NoExit

VARIABLES
  ip,       \* entry -> its exit IP, or NoIP
  route,    \* session -> the entry it is bound to
  primary   \* an entry, or NoExit

vars == <<ip, route, primary>>

Entries == DOMAIN ip

Set(f, k, v) == [x \in DOMAIN f \cup {k} |-> IF x = k THEN v ELSE f[x]]

Init ==
  /\ ip = << >>
  /\ route = << >>
  /\ primary = NoExit

\* A new entry, or new facts about one; the exit IP must not be another's.
Join(e, x) ==
  /\ x = NoIP \/ \A other \in Entries \ {e} : ip[other] # x
  /\ ip' = Set(ip, e, x)
  /\ UNCHANGED <<route, primary>>

Leave(e) ==
  /\ e \in Entries
  /\ ip' = [other \in Entries \ {e} |-> ip[other]]
  /\ route' = [s \in {r \in DOMAIN route : route[r] # e} |-> route[s]]
  /\ primary' = IF primary = e THEN NoExit ELSE primary

Bind(s, e) ==
  /\ e \in Entries
  /\ route' = Set(route, s, e)
  /\ UNCHANGED <<ip, primary>>

Unbind(s) ==
  /\ route' = [r \in DOMAIN route \ {s} |-> route[r]]
  /\ UNCHANGED <<ip, primary>>

Promote(e) ==
  /\ e \in Entries \cup {NoExit}
  /\ primary' = e
  /\ UNCHANGED <<ip, route>>

Next ==
  \/ \E e \in Exits : \E x \in ExitIPs \cup {NoIP} : Join(e, x)
  \/ \E e \in Exits : Leave(e)
  \/ \E s \in Sessions : Unbind(s) \/ \E e \in Exits : Bind(s, e)
  \/ \E e \in Exits \cup {NoExit} : Promote(e)

Spec == Init /\ [][Next]_vars
=============================================================================
