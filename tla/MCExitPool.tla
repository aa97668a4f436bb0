----------------------------- MODULE MCExitPool -----------------------------
(***************************************************************************)
(* Small instances of ExitPool. The exits (and sessions) are model values  *)
(* that only equality tells apart, so permuting them is sound for the      *)
(* invariants and action properties these runs check.                      *)
(***************************************************************************)
EXTENDS ExitPool, TLC

ExitSymmetry == Permutations(Exits)

FreeAndManual == {"free", "manual"}

AllSources == {"free", "manual", "subscription"}
=============================================================================
