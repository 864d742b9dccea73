----------------------------- MODULE MCPhase1Scene -----------------------------
(* One device, the guest, opens the invite of an outsider; a third key answers too. *)
EXTENDS Phase1Scene, TLC

CONSTANTS g, o, x

MCInvited == {[by |-> x, at |-> 0, nth |-> 0]}
================================================================================
