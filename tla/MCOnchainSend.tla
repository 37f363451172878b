---------------------------- MODULE MCOnchainSend ----------------------------
(* Instance of OnchainSend for TLC: one tick looks at fewer mappings than   *)
(* there are.                                                               *)
EXTENDS OnchainSend

CONSTANTS m1, m2
=============================================================================
