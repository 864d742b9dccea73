---------------------------- MODULE MCVisitorLimits ----------------------------
(* The limits on a visitor, before and after the door: the matchmaking guard  *)
(* and the guard of one session in the room. They share no variable and no    *)
(* time, so a step of one says nothing about the other: each is followed from *)
(* its start to its end with the other at its start, not in all mixtures.     *)
(*                                                                            *)
(* The session has a ground to walk on which a full budget spans both steps   *)
(* and an empty one none, with one step of height; its clock runs far enough  *)
(* for two windows on messages to meet.                                       *)
EXTENDS SessionGuard, MatchmakingGuard, TLC

CONSTANTS q1, q2, q3, i1, i2, i3

MCAxis == {"horizontal", "vertical"}
MCSpeed == [horizontal |-> 1, vertical |-> 1]
MCCap == [horizontal |-> 2, vertical |-> 1]
MCSpawn == [horizontal |-> 0, vertical |-> 0]
MCPosition == [horizontal : 0..2, vertical : 0..1]

MCRequest == {q1, q2, q3}
MCIp == {i1, i2, i3}
Symmetry == Permutations(MCRequest) \union Permutations(MCIp)

LimitsInit == Init /\ GuardInit

LimitsNext ==
    \/ GuardInit /\ Next /\ UNCHANGED guardVars
    \/ Init /\ GuardNext /\ UNCHANGED vars

LimitsSpec == LimitsInit /\ [][LimitsNext]_<<vars, guardVars>>
================================================================================
