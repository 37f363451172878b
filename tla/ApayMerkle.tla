----------------------------- MODULE ApayMerkle -----------------------------
(***************************************************************************)
(* The Merkle tree over the payment hashes of a batch.  SHA-256 is taken   *)
(* to be injective and domain-separated: a hash is the tuple of what was   *)
(* hashed, with its prefix.  A level is a sequence; an odd one pairs its   *)
(* last node with itself.                                                  *)
(***************************************************************************)
EXTENDS Naturals, Sequences

LeafHash(recipient, batch, index, hash) == <<"leaf", recipient, batch, index, hash>>
NodeHash(left, right) == <<"node", left, right>>

NextLevel(level) ==
    [i \in 1 .. (Len(level) + 1) \div 2 |->
        NodeHash(level[2*i - 1],
                 level[IF 2*i <= Len(level) THEN 2*i ELSE 2*i - 1])]

(* Levels above n leaves. *)
Depth[n \in Nat] == IF n <= 1 THEN 0 ELSE 1 + Depth[(n + 1) \div 2]

(* The levels of the tree: its leaves, then one level after another. *)
Levels(leaves) ==
    LET level[k \in Nat] == IF k = 0 THEN leaves ELSE NextLevel(level[k - 1])
    IN  [k \in 0 .. Depth[Len(leaves)] |-> level[k]]

MerkleRoot(leaves) == Levels(leaves)[Depth[Len(leaves)]][1]

(* Where the path of a leaf passes level k. *)
Above(position, k) ==
    LET above[j \in Nat] == IF j = 0 THEN position ELSE (above[j - 1] + 1) \div 2
    IN  above[k]

SiblingOf(level, p) ==
    IF p % 2 = 0 THEN [side |-> "left", sibling |-> level[p - 1]]
    ELSE [side |-> "right", sibling |-> level[IF p < Len(level) THEN p + 1 ELSE p]]

MerkleProof(leaves, position) ==
    [k \in 1 .. Depth[Len(leaves)] |->
        SiblingOf(Levels(leaves)[k - 1], Above(position, k - 1))]

MerkleVerify(leaf, proof, root) ==
    LET climbed[k \in 0 .. Len(proof)] ==
            IF k = 0 THEN leaf
            ELSE IF proof[k].side = "left"
                 THEN NodeHash(proof[k].sibling, climbed[k - 1])
                 ELSE NodeHash(climbed[k - 1], proof[k].sibling)
    IN  climbed[Len(proof)] = root
=============================================================================
