----------------------------- MODULE MCPalaceRoom -----------------------------
(* Three sessions for two places, a second room to be refused, a ship of   *)
(* two modules. Liveness is checked, so there is no symmetry.              *)
EXTENDS PalaceRoom

CONSTANTS s1, s2, s3

ThreeSessions == {s1, s2, s3}
===============================================================================
