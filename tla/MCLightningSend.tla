-------------------------- MODULE MCLightningSend --------------------------
(* Instances of LightningSend for TLC. *)
EXTENDS LightningSend

(* The first hash fits the quote's budget, the second is refused there. *)
CONSTANTS h1, h2
MCFinalDelta == [h \in Hash |-> IF h = h1 THEN 1 ELSE 3]
=============================================================================
