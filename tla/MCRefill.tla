------------------------------ MODULE MCRefill ------------------------------
(***************************************************************************)
(* Small instances of Refill: lists that name some of the exits.           *)
(***************************************************************************)
EXTENDS Refill

CONSTANTS e1, e2, e3, fast, slow

OneList == <<fast>>

TwoLists == <<fast, slow>>

TwoOfTwo == [src \in {fast} |-> {e1, e2}]

Overlapping == [src \in {fast, slow} |-> IF src = fast THEN {e1, e2} ELSE {e2, e3}]
=============================================================================
