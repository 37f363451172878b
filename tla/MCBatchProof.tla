---------------------------- MODULE MCBatchProof ----------------------------
EXTENDS BatchProof, TLC

Symmetry == Permutations(PaymentHash) \cup Permutations(BatchIds) \cup Permutations(Orders)

(* The tree against a reference: on up to nine leaves the path of every     *)
(* position leads to the root and that of no other leaf does, and trees of  *)
(* one size with one root have the same leaves.                             *)
Numbered(n) == [i \in 1 .. n |-> LeafHash("r", "b", i, i)]
ASSUME PathsLeadToTheRoot ==
    \A n \in 1 .. 9 : \A p, q \in 1 .. n :
        MerkleVerify(Numbered(n)[q], MerkleProof(Numbered(n), p), MerkleRoot(Numbered(n)))
            <=> p = q
ASSUME RootsBindLeaves ==
    \A n \in 1 .. 5 : \A s, t \in [1 .. n -> {LeafHash("r", "b", 1, h) : h \in 1 .. 2}] :
        MerkleRoot(s) = MerkleRoot(t) => s = t
=============================================================================
