------------------------------ MODULE MCFirstRaid ------------------------------
(* One panel with its sessions, its fresh joins among them, and the other players': three. *)
EXTENDS FirstRaid

CONSTANTS s1, s2, s3

ThreeSessions == {s1, s2, s3}
================================================================================
