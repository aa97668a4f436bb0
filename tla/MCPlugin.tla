------------------------------ MODULE MCPlugin -------------------------------
(* Models and metadata for Plugin: each model has one reason to be told    *)
(* from the others.                                                        *)
EXTENDS Plugin

CONSTANTS verified, free, broken

MCAnswers ==
  {[m \in Models |-> v] : v \in {"deprecated"}} \cup
  {[m \in Models |-> IF m = verified THEN "paid" ELSE "absent"],
   [m \in Models |-> IF m = verified THEN "unknown" ELSE "free"]}
=============================================================================
