------------------------------ MODULE Phase1Relay ------------------------------
(* The reducer of the Phase 1 relay (meaningverse/phase1Relay.ts): the truth  *)
(* one scene keeps about the lamp its player is invited to.  Every operator   *)
(* takes the state and gives the next one, the same one when a guard refuses  *)
(* the action.                                                                *)
(*                                                                            *)
(* A signed event is what its id hashes: who signed it, when, and what it     *)
(* names.  The list of accepted event ids is the witness and the lens         *)
(* themselves, and so is the count of accepted evidence.  The workbench is    *)
(* left out: PalaceScene creates the reducer without the two facts its gate   *)
(* asks for, so every action of it is refused.                                *)
EXTENDS Naturals

CONSTANT None      \* null

CreateState ==
    [accepted |-> FALSE, activation |-> None, creator |-> None,
     witness |-> None, lens |-> None]

(******************************** Activation ********************************)

\* A bug: the last activation wins.
MayHoldAny(s, id) == TRUE

(* Another activation than the one held is refused, whoever signed it.        *)
MayHold(s, id) == s.activation = None \/ s.activation.id = id

Hold(s, id, source) ==
    [s EXCEPT !.activation = [id |-> id, source |-> source],
              !.creator = IF @ = None THEN id.by ELSE @]

(* The verified capability of an invite lights the relay without a bench.     *)
ImportActivation(s, id) ==
    IF MayHold(s, id)
    THEN [Hold(s, id, "verified-invite-capability")
             EXCEPT !.accepted = TRUE]
    ELSE s

AcceptLocalActivation(s, id) ==
    IF s.accepted /\ MayHold(s, id)
    THEN Hold(s, id, "local-signed-activation")
    ELSE s

(********************************* Evidence *********************************)

\* A bug: a later witness replaces the first.
AcceptWitnessAgain(s, e) ==
    IF s.activation # None /\ e.by # s.activation.id.by
    THEN [s EXCEPT !.witness = e]
    ELSE s

AcceptWitness(s, e) ==
    IF /\ s.activation # None
       /\ s.witness = None
       /\ e.by # s.activation.id.by
    THEN [s EXCEPT !.witness = e]
    ELSE s

AcceptLens(s, e) ==
    IF /\ s.activation # None
       /\ s.witness # None
       /\ s.lens = None
       /\ e.w = s.witness
       /\ e.by = s.witness.by
    THEN [s EXCEPT !.lens = e]
    ELSE s

(* The actions the scene dispatches outside a click.                          *)
Reduce(s, action) ==
    CASE action.type = "activation_signed" ->
             AcceptLocalActivation(s, action.fact)
      [] action.type = "activation_imported" ->
             ImportActivation(s, action.fact)
      [] action.type = "accepted_witness_delta" ->
             AcceptWitness(s, action.fact)
      [] action.type = "accepted_lens_delta" ->
             AcceptLens(s, action.fact)
================================================================================
