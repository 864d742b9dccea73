-------------------------------- MODULE MCVisit --------------------------------
(* Two tabs of a profile; in one of them two characters may be chosen. *)
EXTENDS Visit

CONSTANTS t1, t2

MCTab == {t1, t2}
MCMaxCreated == [t \in MCTab |-> IF t = t1 THEN 2 ELSE 1]
================================================================================
