---------------------------- MODULE MCRotateLoop ----------------------------
(***************************************************************************)
(* Small instances of RotateLoop: turns of one session and model over      *)
(* exits of different quality.                                             *)
(***************************************************************************)
EXTENDS RotateLoop

CONSTANTS e1, e2, m1, s1

TurnRequests == Turns \X (0 .. MaxRotates)

OneModel == [r \in Requests |-> m1]

OneSession == [r \in Requests |-> s1]

OneManual == [e \in Exits |-> IF e = e1 THEN "manual" ELSE "free"]

\* e1 is the best exit, the others tie.
Quality == [e \in Exits |-> IF e = e1 THEN 100 ELSE 900]
=============================================================================
