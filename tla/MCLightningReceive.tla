------------------------- MODULE MCLightningReceive -------------------------
(* Instance of LightningReceive for TLC. *)
EXTENDS LightningReceive

CONSTANTS m1, m2
=============================================================================
