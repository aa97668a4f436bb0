------------------------------- MODULE Plugin --------------------------------
(***************************************************************************)
(* The plugin entry (apply in packages/plugin/src/index.ts): the mode of   *)
(* the configuration decides what runs, the legacy sidecar with its agent  *)
(* process or the adapter with its model catalog. The other of the two is  *)
(* never created, so its state stays as it was.                            *)
(***************************************************************************)
EXTENDS Sidecar, Catalog

VARIABLE mode  \* resolveConfig(config).mode

pluginVars == <<vars, catalogVars, mode>>

Modes == {"adapter", "sidecar"}

PluginInit == Init /\ CatalogInit /\ mode \in Modes

InSidecar == mode = "sidecar" /\ UNCHANGED <<catalogVars, mode>>

InAdapter == mode = "adapter" /\ UNCHANGED <<vars, mode>>

PluginNext == (InSidecar /\ Next) \/ (InAdapter /\ CatalogNext)

\* The fairness of the two, each in its mode.
PluginFairness ==
  /\ WF_pluginVars(InSidecar /\ StartOnce)
  /\ WF_pluginVars(InSidecar /\ Register)
  /\ WF_pluginVars(InSidecar /\ HandshakeFails /\ AgentEvent)
  /\ \A c \in Children :
       /\ WF_pluginVars(InSidecar /\ TimerFires(c) /\ AgentEvent)
       /\ WF_pluginVars(InSidecar /\ process[c].killed /\ ChildExits(c) /\ AgentEvent)
  /\ WF_pluginVars(InSidecar /\ GraceEnds(teardownCall) /\ AgentEvent)
  /\ \A r \in Refreshes : WF_pluginVars(InAdapter /\ Settling(r))
  /\ WF_pluginVars(InAdapter /\ Continues)
  /\ WF_pluginVars(InAdapter /\ \E r \in Refreshes : Retries(r))

PluginSpec == PluginInit /\ [][PluginNext]_pluginVars /\ PluginFairness
=============================================================================
