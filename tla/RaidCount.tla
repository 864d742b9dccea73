------------------------------- MODULE RaidCount ------------------------------
(***************************************************************************)
(* What the raid ledger promises the palace: a log of completed runs that  *)
(* only grows, in which no run appears twice, and totals shown to players  *)
(* that never run ahead of the log and never go back, whatever crashes,    *)
(* restarts and conflicts happen underneath.                               *)
(***************************************************************************)
EXTENDS Integers, Sequences

CONSTANTS Process, Run, Seed

VARIABLES
    log,     \* the completed runs in the order they were recorded
    shown    \* shown[p]: the total the room of p shows

Init ==
    /\ log = <<>>
    /\ shown = [p \in Process |-> 0]

Complete(r) ==
    /\ \A i \in 1..Len(log) : log[i] # r
    /\ log' = Append(log, r)
    /\ UNCHANGED shown

Show(p) ==
    /\ \E n \in shown[p]..(Seed + Len(log)) : shown' = [shown EXCEPT ![p] = n]
    /\ UNCHANGED log

Next ==
    \/ \E r \in Run : Complete(r)
    \/ \E p \in Process : Show(p)

Spec == Init /\ [][Next]_<<log, shown>>
===============================================================================
