----------------------------- MODULE MCRaidLedger -----------------------------
(* Three processes on one database file and three runs to record: enough   *)
(* for one process to lose its first attempt and its retry to the two      *)
(* others.                                                                 *)
EXTENDS RaidLedger, TLC

CONSTANTS p1, p2, p3, r1, r2, r3

MCProcess == {p1, p2, p3}
MCRun == {r1, r2, r3}
Symmetry == Permutations(MCProcess) \union Permutations(MCRun)
===============================================================================
