------------------------------ MODULE MCProber ------------------------------
(***************************************************************************)
(* Small instances of Prober: one steady exit with two tasks, one exit     *)
(* that comes and goes with two.                                           *)
(***************************************************************************)
EXTENDS Prober

CONSTANTS e1, e2, t1, t2, t3, t4

TwoTasksEach == [t \in Tasks |-> IF t \in {t1, t2} THEN e1 ELSE e2]
=============================================================================
