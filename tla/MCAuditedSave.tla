----------------------------- MODULE MCAuditedSave -----------------------------
(***************************************************************************)
(* Two tabs: one can lose all three attempts of a write to the three       *)
(* writes of the other, and a tab's third write follows one that failed or *)
(* was given up.                                                           *)
(***************************************************************************)
EXTENDS AuditedSave

CONSTANTS t1, t2

MCTab == {t1, t2}
===============================================================================
