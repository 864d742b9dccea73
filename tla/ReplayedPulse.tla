----------------------------- MODULE ReplayedPulse -----------------------------
(* The Phase 1 scene with a history of its own: the witnesses each device has *)
(* rendered as accepted, in this scene or in one before it, also before the   *)
(* page was loaded again. The history changes nothing the scenes do.          *)
EXTENDS MCPhase1Scene

VARIABLE accepted     \* accepted[d]: witnesses a scene of d has rendered

Rendered(d) == {state[d].witness} \ {None}

HistoryInit ==
    /\ Init
    /\ accepted = [d \in Device |-> Rendered(d)]

HistoryNext ==
    /\ Next
    /\ accepted' = [d \in Device |-> accepted[d] \union Rendered(d)']

HistorySpec == HistoryInit /\ [][HistoryNext]_<<vars, accepted>>

(* phase1RelayTransport.ts:519 calls reconnect history presentation-silent:   *)
(* a witness a device had accepted before is history to it, and no pulse      *)
(* shows it again.                                                            *)
HistoryIsSilent ==
    [][\A d \in Device :
          shown'[d] # shown[d] /\ shown'[d] # None =>
              shown'[d] \notin accepted[d]]_<<vars, accepted>>

================================================================================
