----------------------------- MODULE OrderedSaves -----------------------------
(***************************************************************************)
(* What saving promises a builder: the snapshots a tab takes reach the     *)
(* store in the order they were taken, each at most once; a snapshot may   *)
(* be lost, and tabs overwrite one another.                                *)
(***************************************************************************)
EXTENDS Integers, Sequences

CONSTANTS Tab, MaxSaves

VARIABLES
    log,    \* the stored snapshots <<tab, number>>
    asked   \* asked[t]: how many snapshots t has taken

Init ==
    /\ log = <<>>
    /\ asked = [t \in Tab |-> 0]

Ask(t) ==
    /\ asked' = [asked EXCEPT ![t] = @ + 1]
    /\ UNCHANGED log

Keep(t, n) ==
    /\ n <= asked[t]
    /\ \A i \in 1..Len(log) : log[i][1] = t => log[i][2] < n
    /\ log' = Append(log, <<t, n>>)
    /\ UNCHANGED asked

Next == \E t \in Tab : Ask(t) \/ \E n \in 1..MaxSaves : Keep(t, n)

Spec == Init /\ [][Next]_<<log, asked>>
===============================================================================
