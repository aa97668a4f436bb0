---------------------------- MODULE MCPoolRuntime ----------------------------
(* Settings for PoolRuntime.                                               *)
EXTENDS PoolRuntime

CONSTANTS m1, u1

Off == [enabled |-> FALSE, free |-> TRUE, manual |-> {}, urls |-> {}]
Lists == [enabled |-> TRUE, free |-> TRUE, manual |-> {}, urls |-> {}]
Mixed == [enabled |-> TRUE, free |-> FALSE, manual |-> {m1}, urls |-> {u1}]

MCValues == {Off, Lists, Mixed}
=============================================================================
