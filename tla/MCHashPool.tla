----------------------------- MODULE MCHashPool -----------------------------
(* Instance of HashPool for TLC: hashes and requests are interchangeable.   *)
EXTENDS HashPool, TLC

CONSTANTS p1, p2, p3, p4, p5, r1, r2
MCSymmetry == Permutations(PaymentHash) \union Permutations(Request)
=============================================================================
