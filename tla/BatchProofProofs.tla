-------------------------- MODULE BatchProofProofs --------------------------
(***************************************************************************)
(* Proofs about the Merkle tree, for trees of any size, and about          *)
(* BatchProof, for any orders, ids and hashes.                             *)
(*                                                                         *)
(* The tree is a recursive function; its equations and what follows from   *)
(* them by induction rest on Induction, which takes a set for the property *)
(* and comes from the well-foundedness of inclusion on finite sets.  The   *)
(* invariant of BatchProof relates an id that was used once to what is     *)
(* kept of its batch (Kept): the commitment, and its id on all rows of its *)
(* hashes or on none.  The rows a request reads are then the leaves of     *)
(* the signed root, in their order.                                        *)
(***************************************************************************)
EXTENDS BatchProof, FiniteSetTheorems, SequenceTheorems, WellFoundedInduction, TLAPS

-----------------------------------------------------------------------------
(* Induction.                                                              *)

(* A set of numbers that is not empty has a least one.                     *)
LEMMA LeastNumber ==
    ASSUME NEW T, T \subseteq Nat, T # {}
    PROVE  \E m \in T : \A k \in T : m <= k
<1>. DEFINE S == {1 .. k : k \in T}
<1>1. S \subseteq FiniteSubsetsOf(Nat) /\ S # {}
  <2>1. ASSUME NEW k \in T PROVE 1 .. k \in FiniteSubsetsOf(Nat)
    BY FS_Interval DEF FiniteSubsetsOf
  <2>. QED BY <2>1
<1>2. PICK s \in S : \A y \in S : ~(<<y, s>> \in StrictSubsetOrdering(Nat))
  BY <1>1, WFMin, FS_StrictSubsetOrderingWellFounded
<1>3. PICK m \in T : s = 1 .. m
  OBVIOUS
<1>4. ASSUME NEW k \in T, k < m PROVE FALSE
  <2>1. <<1 .. k, 1 .. m>> \in StrictSubsetOrdering(Nat)
    BY <1>4 DEF StrictSubsetOrdering
  <2>. QED BY <1>2, <1>3, <2>1
<1>. QED BY <1>4

(* Induction, with a set for the property.                                 *)
LEMMA Induction ==
    ASSUME NEW T, 0 \in T, \A n \in Nat : n \in T => n + 1 \in T
    PROVE  Nat \subseteq T
<1>. DEFINE S == Nat \ T
<1>1. SUFFICES ASSUME S # {} PROVE FALSE
  OBVIOUS
<1>2. PICK m \in S : \A k \in S : m <= k
  BY <1>1, LeastNumber
<1>3. m - 1 \in Nat /\ m - 1 \notin S
  BY <1>2
<1>. QED BY <1>2, <1>3

(* Induction on all smaller numbers.                                       *)
LEMMA StrongInduction ==
    ASSUME NEW T, \A n \in Nat : 0 .. n - 1 \subseteq T => n \in T
    PROVE  Nat \subseteq T
<1>. DEFINE S == Nat \ T
<1>1. SUFFICES ASSUME S # {} PROVE FALSE
  OBVIOUS
<1>2. PICK m \in S : \A k \in S : m <= k
  BY <1>1, LeastNumber
<1>. QED BY <1>2

-----------------------------------------------------------------------------
(* The functions of ApayMerkle are defined by recursion.  ValueAt is what  *)
(* each of them is at k, if f is what it is before.                        *)

ValueAt(what, k, f) ==
    CASE what[1] = "depth" -> IF k <= 1 THEN 0 ELSE 1 + f[(k + 1) \div 2]
      [] what[1] = "level" -> IF k = 0 THEN what[2] ELSE NextLevel(f[k - 1])
      [] what[1] = "above" -> IF k = 0 THEN what[2] ELSE (f[k - 1] + 1) \div 2
      [] OTHER -> IF k = 0 THEN what[2]
                  ELSE IF what[3][k].side = "left" THEN NodeHash(what[3][k].sibling, f[k - 1])
                  ELSE NodeHash(f[k - 1], what[3][k].sibling)

Computes(f, D, what) == f = [k \in D |-> ValueAt(what, k, f)]

(* It depends on smaller arguments only.                                   *)
LEMMA ValueAtDepends ==
    ASSUME NEW what, NEW k \in Nat, NEW f, NEW g, \A j \in 0 .. k - 1 : f[j] = g[j]
    PROVE  ValueAt(what, k, f) = ValueAt(what, k, g)
<1>1. k > 1 => f[(k + 1) \div 2] = g[(k + 1) \div 2]
  OBVIOUS
<1>2. k # 0 => f[k - 1] = g[k - 1]
  OBVIOUS
<1>. QED BY <1>1, <1>2 DEF ValueAt

(* Two functions that compute the same agree as far as both go.            *)
LEMMA ComputesAgree ==
    ASSUME NEW what, NEW f, NEW g, NEW m \in Nat, NEW n \in Nat,
           Computes(f, 0 .. m, what), Computes(g, 0 .. n, what)
    PROVE  \A k \in Nat : k <= m /\ k <= n => f[k] = g[k]
<1>. DEFINE T == {k \in Nat : k <= m /\ k <= n => f[k] = g[k]}
<1>1. ASSUME NEW k \in Nat, 0 .. k - 1 \subseteq T PROVE k \in T
  <2>1. SUFFICES ASSUME k <= m, k <= n PROVE f[k] = g[k]
    OBVIOUS
  <2>2. ValueAt(what, k, f) = ValueAt(what, k, g)
    BY <1>1, <2>1, ValueAtDepends
  <2>. QED BY <2>1, <2>2 DEF Computes
<1>2. Nat \subseteq T
  <2>. HIDE DEF T
  <2>. QED BY <1>1, StrongInduction
<1>. QED BY <1>2

(* Up to any number there is one.                                          *)
LEMMA ComputesUpTo ==
    ASSUME NEW what
    PROVE  \A n \in Nat : \E f : Computes(f, 0 .. n, what)
<1>. DEFINE T == {n \in Nat : \E f : Computes(f, 0 .. n, what)}
<1>1. 0 \in T
  <2>. DEFINE f == [k \in 0 .. 0 |-> ValueAt(what, 0, <<>>)]
  <2>1. ValueAt(what, 0, f) = ValueAt(what, 0, <<>>)
    BY ValueAtDepends
  <2>2. Computes(f, 0 .. 0, what)
    BY <2>1 DEF Computes
  <2>. QED BY <2>2
<1>2. ASSUME NEW n \in Nat, n \in T PROVE n + 1 \in T
  <2>1. PICK f : Computes(f, 0 .. n, what)
    BY <1>2
  <2>. DEFINE g == [k \in 0 .. n + 1 |-> IF k = n + 1 THEN ValueAt(what, k, f) ELSE f[k]]
  <2>2. ASSUME NEW k \in 0 .. n + 1 PROVE ValueAt(what, k, g) = ValueAt(what, k, f)
    <3>1. \A j \in 0 .. k - 1 : g[j] = f[j]
      OBVIOUS
    <3>. HIDE DEF g
    <3>. QED BY <3>1, ValueAtDepends
  <2>3. \A k \in 0 .. n : f[k] = ValueAt(what, k, f)
    BY <2>1 DEF Computes
  <2>4. Computes(g, 0 .. n + 1, what)
    BY <2>2, <2>3 DEF Computes
  <2>. QED BY <2>4
<1>3. Nat \subseteq T
  <2>. HIDE DEF T
  <2>. QED BY <1>1, <1>2, Induction
<1>. QED BY <1>3

(* What is defined by recursion on Nat or a prefix of it is there.         *)
LEMMA Recursion ==
    ASSUME NEW what, NEW D \in {Nat} \union {0 .. n : n \in Nat}
    PROVE  \E f : Computes(f, D, what)
<1>. DEFINE F(n) == CHOOSE f : Computes(f, 0 .. n, what)
            f == [n \in D |-> F(n)[n]]
<1>1. \A n \in Nat : Computes(F(n), 0 .. n, what)
  BY ComputesUpTo
<1>. HIDE DEF F
<1>2. ASSUME NEW k \in D PROVE f[k] = ValueAt(what, k, f)
  <2>1. k \in Nat /\ 0 .. k - 1 \subseteq D
    OBVIOUS
  <2>2. F(k)[k] = ValueAt(what, k, F(k))
    BY <1>1, <2>1 DEF Computes
  <2>3. ASSUME NEW j \in 0 .. k - 1 PROVE F(k)[j] = f[j]
    <3>1. Computes(F(k), 0 .. k, what) /\ Computes(F(j), 0 .. j, what) /\ j \in Nat
      BY <1>1, <2>1
    <3>2. F(k)[j] = F(j)[j]
      BY <2>1, <3>1, ComputesAgree
    <3>. QED BY <2>1, <3>2
  <2>. HIDE DEF f
  <2>4. ValueAt(what, k, F(k)) = ValueAt(what, k, f)
    BY <2>1, <2>3, ValueAtDepends
  <2>. QED BY <2>2, <2>4 DEF f
<1>3. Computes(f, D, what)
  BY <1>2 DEF Computes
<1>. QED BY <1>3

-----------------------------------------------------------------------------
(* The equations of the functions.                                         *)

(* Half the nodes, rounded up, are a level higher.                         *)
LEMMA DepthValue ==
    \A n \in Nat : Depth[n] = IF n <= 1 THEN 0 ELSE 1 + Depth[(n + 1) \div 2]
<1>1. \E f : f = [n \in Nat |-> IF n <= 1 THEN 0 ELSE 1 + f[(n + 1) \div 2]]
  <2>. DEFINE what == <<"depth">>
  <2>1. PICK f : Computes(f, Nat, what)
    BY Recursion
  <2>2. \A n \in Nat : ValueAt(what, n, f) = IF n <= 1 THEN 0 ELSE 1 + f[(n + 1) \div 2]
    BY DEF ValueAt
  <2>. QED BY <2>1, <2>2 DEF Computes
<1>2. Depth = [n \in Nat |-> IF n <= 1 THEN 0 ELSE 1 + Depth[(n + 1) \div 2]]
  BY <1>1 DEF Depth
<1>. QED BY <1>2

LevelOf(leaves) ==
    LET level[k \in Nat] == IF k = 0 THEN leaves ELSE NextLevel(level[k - 1])
    IN  level

(* The leaves, and above each level the next.                              *)
LEMMA LevelValue ==
    ASSUME NEW leaves
    PROVE  \A k \in Nat : LevelOf(leaves)[k] =
               IF k = 0 THEN leaves ELSE NextLevel(LevelOf(leaves)[k - 1])
<1>1. \E f : f = [k \in Nat |-> IF k = 0 THEN leaves ELSE NextLevel(f[k - 1])]
  <2>. DEFINE what == <<"level", leaves>>
  <2>1. PICK f : Computes(f, Nat, what)
    BY Recursion
  <2>2. \A k \in Nat : ValueAt(what, k, f) = IF k = 0 THEN leaves ELSE NextLevel(f[k - 1])
    BY DEF ValueAt
  <2>. QED BY <2>1, <2>2 DEF Computes
<1>2. LevelOf(leaves) = [k \in Nat |-> IF k = 0 THEN leaves ELSE NextLevel(LevelOf(leaves)[k - 1])]
  BY <1>1 DEF LevelOf
<1>. QED BY <1>2

AboveOf(position) ==
    LET above[j \in Nat] == IF j = 0 THEN position ELSE (above[j - 1] + 1) \div 2
    IN  above

(* The path of a leaf passes the parent of where it passed before.         *)
LEMMA AboveValue ==
    ASSUME NEW p
    PROVE  \A k \in Nat : Above(p, k) = IF k = 0 THEN p ELSE (Above(p, k - 1) + 1) \div 2
<1>1. \E f : f = [k \in Nat |-> IF k = 0 THEN p ELSE (f[k - 1] + 1) \div 2]
  <2>. DEFINE what == <<"above", p>>
  <2>1. PICK f : Computes(f, Nat, what)
    BY Recursion
  <2>2. \A k \in Nat : ValueAt(what, k, f) = IF k = 0 THEN p ELSE (f[k - 1] + 1) \div 2
    BY DEF ValueAt
  <2>. QED BY <2>1, <2>2 DEF Computes
<1>2. AboveOf(p) = [k \in Nat |-> IF k = 0 THEN p ELSE (AboveOf(p)[k - 1] + 1) \div 2]
  BY <1>1 DEF AboveOf
<1>3. \A k : Above(p, k) = AboveOf(p)[k]
  BY DEF Above, AboveOf
<1>. QED BY <1>2, <1>3

ClimbOf(leaf, proof) ==
    LET climbed[k \in 0 .. Len(proof)] ==
            IF k = 0 THEN leaf
            ELSE IF proof[k].side = "left"
                 THEN NodeHash(proof[k].sibling, climbed[k - 1])
                 ELSE NodeHash(climbed[k - 1], proof[k].sibling)
    IN  climbed

(* What a payer computes from its leaf and the path.                       *)
LEMMA ClimbValue ==
    ASSUME NEW leaf, NEW proof, Len(proof) \in Nat
    PROVE  \A k \in 0 .. Len(proof) : ClimbOf(leaf, proof)[k] =
               IF k = 0 THEN leaf
               ELSE IF proof[k].side = "left"
                    THEN NodeHash(proof[k].sibling, ClimbOf(leaf, proof)[k - 1])
                    ELSE NodeHash(ClimbOf(leaf, proof)[k - 1], proof[k].sibling)
<1>. DEFINE D == 0 .. Len(proof)
            V(f, k) == IF k = 0 THEN leaf
                       ELSE IF proof[k].side = "left"
                            THEN NodeHash(proof[k].sibling, f[k - 1])
                            ELSE NodeHash(f[k - 1], proof[k].sibling)
<1>1. \E f : f = [k \in D |-> V(f, k)]
  <2>. DEFINE what == <<"climb", leaf, proof>>
  <2>1. PICK f : Computes(f, D, what)
    BY Recursion
  <2>2. \A k \in D : ValueAt(what, k, f) = V(f, k)
    BY DEF ValueAt
  <2>. QED BY <2>1, <2>2 DEF Computes
<1>2. ClimbOf(leaf, proof) = [k \in D |-> V(ClimbOf(leaf, proof), k)]
  BY <1>1 DEF ClimbOf
<1>. QED BY <1>2

(* A tree has a number of levels.                                          *)
LEMMA DepthIsNat == \A n \in Nat : Depth[n] \in Nat
<1>. DEFINE T == {n \in Nat : Depth[n] \in Nat}
<1>1. ASSUME NEW n \in Nat, 0 .. n - 1 \subseteq T PROVE n \in T
  <2>1. n > 1 => (n + 1) \div 2 \in 0 .. n - 1
    OBVIOUS
  <2>2. n > 1 => Depth[(n + 1) \div 2] \in Nat
    BY <1>1, <2>1
  <2>. QED BY <2>2, DepthValue
<1>2. Nat \subseteq T
  <2>. HIDE DEF T
  <2>. QED BY <1>1, StrongInduction
<1>. QED BY <1>2

-----------------------------------------------------------------------------
(* The tree.                                                               *)

(* A level has half as many nodes as the one below it, rounded up.         *)
LEMMA LengthOfNext ==
    ASSUME NEW level, Len(level) \in Nat
    PROVE  Len(NextLevel(level)) = (Len(level) + 1) \div 2
BY DEF NextLevel

(* A path stays within the levels, which shrink to one node.               *)
LEMMA PathStays ==
    ASSUME NEW leaves, Len(leaves) \in Nat, NEW p \in 1 .. Len(leaves)
    PROVE  \A k \in 0 .. Depth[Len(leaves)] :
              /\ Len(LevelOf(leaves)[k]) \in Nat
              /\ Above(p, k) \in 1 .. Len(LevelOf(leaves)[k])
              /\ Depth[Len(LevelOf(leaves)[k])] = Depth[Len(leaves)] - k
<1>. DEFINE d == Depth[Len(leaves)]
            level(k) == LevelOf(leaves)[k]
            Stays(k) == /\ Len(level(k)) \in Nat
                        /\ Above(p, k) \in 1 .. Len(level(k))
                        /\ Depth[Len(level(k))] = d - k
            T == {k \in Nat : k <= d => Stays(k)}
<1>1. d \in Nat
  BY DepthIsNat
<1>. HIDE DEF d
<1>2. level(0) = leaves /\ Above(p, 0) = p
  BY LevelValue, AboveValue
<1>3. 0 \in T
  BY <1>1, <1>2 DEF d
<1>4. ASSUME NEW k \in Nat, k \in T PROVE k + 1 \in T
  <2>1. SUFFICES ASSUME k + 1 <= d PROVE Stays(k + 1)
    OBVIOUS
  <2>2. Stays(k)
    BY <1>1, <1>4, <2>1
  <2>3. level(k + 1) = NextLevel(level(k)) /\ Above(p, k + 1) = (Above(p, k) + 1) \div 2
    BY LevelValue, AboveValue
  <2>. HIDE DEF level
  <2>4. Len(level(k + 1)) = (Len(level(k)) + 1) \div 2
    BY <2>2, <2>3, LengthOfNext
  <2>5. Len(level(k)) > 1 /\ Depth[Len(level(k))] = 1 + Depth[(Len(level(k)) + 1) \div 2]
    BY <1>1, <2>1, <2>2, DepthValue
  <2>6. Depth[Len(level(k + 1))] \in Nat
    BY <2>2, <2>4, DepthIsNat
  <2>7. (Above(p, k) + 1) \div 2 \in 1 .. (Len(level(k)) + 1) \div 2
    BY <2>2, <2>5
  <2>8. Above(p, k + 1) \in 1 .. Len(level(k + 1)) /\ Len(level(k + 1)) \in Nat
    BY <2>2, <2>3, <2>4, <2>7
  <2>9. Depth[Len(level(k + 1))] = d - (k + 1)
    BY <1>1, <2>2, <2>4, <2>5, <2>6
  <2>. QED BY <2>8, <2>9
<1>5. Nat \subseteq T
  <2>. HIDE DEF T
  <2>. QED BY <1>3, <1>4, Induction
<1>. QED BY <1>1, <1>5 DEF d

(* One step up the path is one level higher.                               *)
LEMMA OneUp ==
    ASSUME NEW level, Len(level) \in Nat, NEW q \in 1 .. Len(level)
    PROVE  LET step == SiblingOf(level, q)
           IN  NextLevel(level)[(q + 1) \div 2] =
                  IF step.side = "left" THEN NodeHash(step.sibling, level[q])
                  ELSE NodeHash(level[q], step.sibling)
<1>1. (q + 1) \div 2 \in 1 .. (Len(level) + 1) \div 2
  OBVIOUS
<1>2. CASE q % 2 = 0
  <2>1. 2 * ((q + 1) \div 2) = q /\ q <= Len(level)
    BY <1>2
  <2>. QED BY <1>1, <1>2, <2>1 DEF NextLevel, SiblingOf
<1>3. CASE q % 2 # 0
  <2>1. 2 * ((q + 1) \div 2) = q + 1 /\ (q + 1 <= Len(level) <=> q < Len(level))
    BY <1>3
  <2>. QED BY <1>1, <1>3, <2>1 DEF NextLevel, SiblingOf
<1>. QED BY <1>2, <1>3

(* The levels as MerkleRoot and MerkleProof see them.                      *)
LEMMA LevelsAre ==
    ASSUME NEW leaves, NEW k \in 0 .. Depth[Len(leaves)]
    PROVE  Levels(leaves)[k] = LevelOf(leaves)[k]
BY DEF Levels, LevelOf

(* The path climbs through the tree.                                       *)
LEMMA PathClimbs ==
    ASSUME NEW leaves, Len(leaves) \in Nat, NEW p \in 1 .. Len(leaves)
    PROVE  \A k \in 0 .. Depth[Len(leaves)] :
              ClimbOf(leaves[p], MerkleProof(leaves, p))[k] = LevelOf(leaves)[k][Above(p, k)]
<1>. DEFINE d == Depth[Len(leaves)]
            path == MerkleProof(leaves, p)
            climb(k) == ClimbOf(leaves[p], path)[k]
            T == {k \in Nat : k <= d => climb(k) = LevelOf(leaves)[k][Above(p, k)]}
<1>1. d \in Nat
  BY DepthIsNat
<1>2. Len(path) = d /\ \A k \in 1 .. d : path[k] = SiblingOf(LevelOf(leaves)[k - 1], Above(p, k - 1))
  BY <1>1, LevelsAre DEF MerkleProof
<1>. HIDE DEF path, d
<1>3. \A k \in 0 .. d : climb(k) =
         IF k = 0 THEN leaves[p]
         ELSE IF path[k].side = "left" THEN NodeHash(path[k].sibling, climb(k - 1))
         ELSE NodeHash(climb(k - 1), path[k].sibling)
  BY <1>1, <1>2, ClimbValue
<1>. HIDE DEF climb
<1>4. 0 \in T
  BY <1>1, <1>3, LevelValue, AboveValue
<1>5. ASSUME NEW k \in Nat, k \in T PROVE k + 1 \in T
  <2>1. SUFFICES ASSUME k + 1 <= d PROVE climb(k + 1) = LevelOf(leaves)[k + 1][Above(p, k + 1)]
    OBVIOUS
  <2>. DEFINE level == LevelOf(leaves)[k]
              q == Above(p, k)
  <2>2. Len(level) \in Nat /\ q \in 1 .. Len(level)
    BY <1>1, <2>1, PathStays DEF d
  <2>3. LevelOf(leaves)[k + 1] = NextLevel(level) /\ Above(p, k + 1) = (q + 1) \div 2
    BY LevelValue, AboveValue
  <2>4. climb(k) = level[q] /\ path[k + 1] = SiblingOf(level, q)
    BY <1>1, <1>2, <1>5, <2>1
  <2>. HIDE DEF level, q
  <2>5. NextLevel(level)[(q + 1) \div 2] =
          IF path[k + 1].side = "left" THEN NodeHash(path[k + 1].sibling, level[q])
          ELSE NodeHash(level[q], path[k + 1].sibling)
    BY <2>2, <2>4, OneUp
  <2>6. climb(k + 1) =
          IF path[k + 1].side = "left" THEN NodeHash(path[k + 1].sibling, climb(k))
          ELSE NodeHash(climb(k), path[k + 1].sibling)
    <3>1. k + 1 \in 0 .. d /\ k + 1 # 0 /\ (k + 1) - 1 = k
      BY <1>1, <2>1
    <3>. QED BY <1>3, <3>1
  <2>. QED BY <2>3, <2>4, <2>5, <2>6
<1>6. Nat \subseteq T
  <2>. HIDE DEF T
  <2>. QED BY <1>4, <1>5, Induction
<1>. QED BY <1>1, <1>6 DEF climb, path, d

(* The root is the only node of the last level.                            *)
LEMMA TopIsTheRoot ==
    ASSUME NEW leaves, Len(leaves) \in Nat \ {0}
    PROVE  /\ Len(LevelOf(leaves)[Depth[Len(leaves)]]) = 1
           /\ MerkleRoot(leaves) = LevelOf(leaves)[Depth[Len(leaves)]][1]
<1>. DEFINE d == Depth[Len(leaves)]
            top == LevelOf(leaves)[d]
<1>1. d \in Nat /\ Len(leaves) \in Nat /\ 1 \in 1 .. Len(leaves)
  BY DepthIsNat
<1>2. \A k \in 0 .. d :
         /\ Len(LevelOf(leaves)[k]) \in Nat
         /\ Above(1, k) \in 1 .. Len(LevelOf(leaves)[k])
         /\ Depth[Len(LevelOf(leaves)[k])] = d - k
  BY <1>1, PathStays
<1>3. MerkleRoot(leaves) = top[1]
  BY <1>1, LevelsAre DEF MerkleRoot
<1>. HIDE DEF d
<1>4. Len(top) \in Nat \ {0} /\ Depth[Len(top)] = 0
  BY <1>1, <1>2
<1>5. Len(top) <= 1
  <2>. HIDE DEF top
  <2>1. (Len(top) + 1) \div 2 \in Nat
    BY <1>4
  <2>2. Depth[(Len(top) + 1) \div 2] \in Nat
    BY <2>1, DepthIsNat
  <2>. QED BY <1>4, <2>2, DepthValue
<1>6. Len(top) = 1
  <2>. HIDE DEF top
  <2>. QED BY <1>4, <1>5
<1>. QED BY <1>3, <1>6 DEF d

(* The path from every leaf of every tree leads to its root.               *)
THEOREM PathLeadsToTheRoot ==
    ASSUME NEW leaves, Len(leaves) \in Nat, NEW p \in 1 .. Len(leaves)
    PROVE  MerkleVerify(leaves[p], MerkleProof(leaves, p), MerkleRoot(leaves))
<1>. DEFINE d == Depth[Len(leaves)]
            top == LevelOf(leaves)[d]
<1>1. d \in Nat /\ Len(leaves) \in Nat \ {0}
  BY DepthIsNat
<1>2. Len(MerkleProof(leaves, p)) = d
  BY <1>1 DEF MerkleProof
<1>3. \A k \in 0 .. d : Above(p, k) \in 1 .. Len(LevelOf(leaves)[k])
  BY PathStays
<1>4. Len(top) = 1 /\ MerkleRoot(leaves) = top[1]
  BY <1>1, TopIsTheRoot
<1>. HIDE DEF d
<1>5. Above(p, d) = 1
  <2>1. Above(p, d) \in 1 .. Len(top)
    BY <1>1, <1>3
  <2>. HIDE DEF top
  <2>. QED BY <1>4, <2>1
<1>6. ClimbOf(leaves[p], MerkleProof(leaves, p))[d] = top[1]
  BY <1>1, <1>5, PathClimbs DEF d
<1>. QED BY <1>2, <1>4, <1>6 DEF MerkleVerify, ClimbOf

-----------------------------------------------------------------------------
(* Hashes tell what was hashed, so that a root tells its leaves.           *)

(* A node tells its two children.                                          *)
LEMMA NodeHashIsInjective ==
    ASSUME NEW a, NEW b, NEW c, NEW d, NodeHash(a, b) = NodeHash(c, d)
    PROVE  a = c /\ b = d
BY DEF NodeHash

(* The path of a leaf leads to the root from that leaf only.               *)
THEOREM PathProvesOneLeaf ==
    ASSUME NEW leaves, Len(leaves) \in Nat, NEW p \in 1 .. Len(leaves), NEW leaf,
           MerkleVerify(leaf, MerkleProof(leaves, p), MerkleRoot(leaves))
    PROVE  leaf = leaves[p]
<1>. DEFINE d == Depth[Len(leaves)]
            path == MerkleProof(leaves, p)
            climb(k) == ClimbOf(leaf, path)[k]
            right(k) == ClimbOf(leaves[p], path)[k]
            T == {k \in Nat : k <= d => climb(d - k) = right(d - k)}
<1>1. d \in Nat /\ Len(path) = d
  BY DepthIsNat DEF MerkleProof
<1>2. climb(d) = right(d)
  BY <1>1, PathLeadsToTheRoot DEF MerkleVerify, ClimbOf
<1>. HIDE DEF d, path
<1>3. ASSUME NEW k \in 1 .. d, climb(k) = right(k) PROVE climb(k - 1) = right(k - 1)
  <2>1. k \in 0 .. Len(path) /\ k # 0
    BY <1>1
  <2>2. CASE path[k].side = "left"
    <3>1. climb(k) = NodeHash(path[k].sibling, climb(k - 1))
      BY <1>1, <2>1, <2>2, ClimbValue
    <3>2. right(k) = NodeHash(path[k].sibling, right(k - 1))
      BY <1>1, <2>1, <2>2, ClimbValue
    <3>. HIDE DEF climb, right
    <3>3. NodeHash(path[k].sibling, climb(k - 1)) = NodeHash(path[k].sibling, right(k - 1))
      BY <1>3, <3>1, <3>2
    <3>. QED BY <3>3, NodeHashIsInjective
  <2>3. CASE path[k].side # "left"
    <3>1. climb(k) = NodeHash(climb(k - 1), path[k].sibling)
      BY <1>1, <2>1, <2>3, ClimbValue
    <3>2. right(k) = NodeHash(right(k - 1), path[k].sibling)
      BY <1>1, <2>1, <2>3, ClimbValue
    <3>. HIDE DEF climb, right
    <3>3. NodeHash(climb(k - 1), path[k].sibling) = NodeHash(right(k - 1), path[k].sibling)
      BY <1>3, <3>1, <3>2
    <3>. QED BY <3>3, NodeHashIsInjective
  <2>. QED BY <2>2, <2>3
<1>4. climb(0) = leaf /\ right(0) = leaves[p]
  BY <1>1, ClimbValue
<1>. HIDE DEF climb, right
<1>5. 0 \in T
  BY <1>1, <1>2
<1>6. ASSUME NEW k \in Nat, k \in T PROVE k + 1 \in T
  <2>1. SUFFICES ASSUME k + 1 <= d PROVE climb(d - (k + 1)) = right(d - (k + 1))
    OBVIOUS
  <2>2. d - k \in 1 .. d /\ climb(d - k) = right(d - k) /\ (d - k) - 1 = d - (k + 1)
    BY <1>1, <1>6, <2>1
  <2>. QED BY <1>3, <2>2
<1>7. Nat \subseteq T
  <2>. HIDE DEF T
  <2>. QED BY <1>5, <1>6, Induction
<1>8. climb(0) = right(0)
  <2>1. d \in T /\ d - d = 0
    BY <1>1, <1>7
  <2>. QED BY <1>1, <2>1
<1>. QED BY <1>4, <1>8

(* A node is hashed from two nodes of the level below.                     *)
LEMMA NodeHasChildren ==
    ASSUME NEW level, Len(level) \in Nat, NEW i \in 1 .. Len(NextLevel(level))
    PROVE  \E j, k \in 1 .. Len(level) : NextLevel(level)[i] = NodeHash(level[j], level[k])
<1>1. i \in 1 .. (Len(level) + 1) \div 2
  BY LengthOfNext
<1>2. 2*i - 1 \in 1 .. Len(level) /\ (2*i <= Len(level) => 2*i \in 1 .. Len(level))
  BY <1>1
<1>. QED BY <1>1, <1>2 DEF NextLevel

(* A leaf hash that any path at all leads to the root is one of the leaves: *)
(* leaves and nodes are hashed apart, so that a path that is too short or   *)
(* too long starts at no leaf.                                              *)
THEOREM VerifiedLeafIsCommitted ==
    ASSUME NEW leaves, Len(leaves) \in Nat \ {0}, \A i \in 1 .. Len(leaves) : leaves[i][1] = "leaf",
           NEW leaf, leaf[1] = "leaf", NEW proof, Len(proof) \in Nat,
           MerkleVerify(leaf, proof, MerkleRoot(leaves))
    PROVE  \E i \in 1 .. Len(leaves) : leaf = leaves[i]
<1>. DEFINE d == Depth[Len(leaves)]
            n == Len(proof)
            climb(k) == ClimbOf(leaf, proof)[k]
            level(k) == LevelOf(leaves)[k]
            OnLevel(j) == \E i \in 1 .. Len(level(d - j)) : climb(n - j) = level(d - j)[i]
            T == {j \in Nat : j <= d /\ j <= n => OnLevel(j)}
<1>1. d \in Nat /\ n \in Nat /\ 1 \in 1 .. Len(leaves) /\ Len(leaves) \in Nat
  BY DepthIsNat
<1>2. \A k \in 0 .. d : Len(level(k)) \in Nat
  BY <1>1, PathStays
<1>3. Len(level(d)) = 1 /\ MerkleRoot(leaves) = level(d)[1]
  BY <1>1, TopIsTheRoot
<1>4. climb(n) = MerkleRoot(leaves)
  BY DEF MerkleVerify, ClimbOf
<1>5. level(0) = leaves /\ climb(0) = leaf
  BY <1>1, LevelValue, ClimbValue
<1>6. \A k \in 1 .. n : \E a, b : climb(k) = NodeHash(a, b) /\ climb(k - 1) \in {a, b}
  <2>1. SUFFICES ASSUME NEW k \in 1 .. n
                 PROVE  \E a, b : climb(k) = NodeHash(a, b) /\ climb(k - 1) \in {a, b}
    OBVIOUS
  <2>2. k \in 0 .. Len(proof) /\ k # 0
    BY <1>1
  <2>3. climb(k) = IF proof[k].side = "left" THEN NodeHash(proof[k].sibling, climb(k - 1))
                   ELSE NodeHash(climb(k - 1), proof[k].sibling)
    BY <1>1, <2>2, ClimbValue
  <2>. QED BY <2>3
<1>7. \A k \in 1 .. d : \A i \in 1 .. Len(level(k)) :
         \E j, m \in 1 .. Len(level(k - 1)) : level(k)[i] = NodeHash(level(k - 1)[j], level(k - 1)[m])
  <2>1. SUFFICES ASSUME NEW k \in 1 .. d, NEW i \in 1 .. Len(level(k))
                 PROVE  \E j, m \in 1 .. Len(level(k - 1)) :
                           level(k)[i] = NodeHash(level(k - 1)[j], level(k - 1)[m])
    OBVIOUS
  <2>2. level(k) = NextLevel(level(k - 1)) /\ Len(level(k - 1)) \in Nat
    BY <1>1, <1>2, LevelValue
  <2>. HIDE DEF level
  <2>. QED BY <2>1, <2>2, NodeHasChildren
<1>. HIDE DEF d, n, climb, level
<1>8. 0 \in T
  <2>1. d - 0 = d /\ n - 0 = n
    BY <1>1
  <2>2. 1 \in 1 .. Len(level(d)) /\ climb(n) = level(d)[1]
    BY <1>3, <1>4
  <2>3. OnLevel(0)
    BY <2>1, <2>2
  <2>. QED BY <2>3
<1>9. ASSUME NEW j \in Nat, j \in T PROVE j + 1 \in T
  <2>1. SUFFICES ASSUME j + 1 <= d, j + 1 <= n PROVE OnLevel(j + 1)
    OBVIOUS
  <2>2. PICK i \in 1 .. Len(level(d - j)) : climb(n - j) = level(d - j)[i]
    BY <1>1, <1>9, <2>1
  <2>3. PICK a, b : climb(n - j) = NodeHash(a, b) /\ climb((n - j) - 1) \in {a, b}
    BY <1>1, <1>6, <2>1
  <2>4. PICK l, m \in 1 .. Len(level((d - j) - 1)) :
           level(d - j)[i] = NodeHash(level((d - j) - 1)[l], level((d - j) - 1)[m])
    BY <1>1, <1>7, <2>1, <2>2
  <2>5. climb((n - j) - 1) \in {level((d - j) - 1)[l], level((d - j) - 1)[m]}
    BY <2>2, <2>3, <2>4, NodeHashIsInjective
  <2>6. (n - j) - 1 = n - (j + 1) /\ (d - j) - 1 = d - (j + 1)
    BY <1>1
  <2>. QED BY <2>5, <2>6
<1>10. Nat \subseteq T
  <2>. HIDE DEF T
  <2>. QED BY <1>8, <1>9, Induction
<1>11. ASSUME n < d PROVE FALSE
  <2>. n \in T
    BY <1>1, <1>10
  <2>1. OnLevel(n) /\ n - n = 0 /\ d - n \in 1 .. d
    BY <1>1, <1>11
  <2>2. PICK i \in 1 .. Len(level(d - n)) : climb(0) = level(d - n)[i]
    BY <2>1
  <2>3. PICK a, b : level(d - n)[i] = NodeHash(a, b)
    BY <1>7, <2>1
  <2>. QED BY <1>5, <2>2, <2>3 DEF NodeHash
<1>12. ASSUME d < n PROVE FALSE
  <2>. d \in T
    BY <1>1, <1>10
  <2>1. OnLevel(d) /\ d - d = 0 /\ n - d \in 1 .. n
    BY <1>1, <1>12
  <2>2. PICK i \in 1 .. Len(level(0)) : climb(n - d) = level(0)[i]
    BY <2>1
  <2>3. PICK a, b : climb(n - d) = NodeHash(a, b)
    BY <1>6, <2>1
  <2>. QED BY <1>5, <2>2, <2>3 DEF NodeHash
<1>13. CASE n = d
  <2>. d \in T
    BY <1>1, <1>10
  <2>1. OnLevel(d) /\ d - d = 0 /\ n - d = 0
    BY <1>1, <1>13
  <2>. QED BY <1>5, <2>1
<1>. QED BY <1>1, <1>11, <1>12, <1>13

(* A level tells the one below it.                                         *)
LEMMA NextLevelBinds ==
    ASSUME NEW a, NEW b, Len(a) \in Nat, Len(b) = Len(a), NEW i \in 1 .. Len(a),
           NextLevel(a)[(i + 1) \div 2] = NextLevel(b)[(i + 1) \div 2]
    PROVE  a[i] = b[i]
<1>. DEFINE q == (i + 1) \div 2
<1>1. q \in 1 .. (Len(a) + 1) \div 2 /\ (i = 2*q - 1 \/ (i = 2*q /\ 2*q <= Len(a)))
  OBVIOUS
<1>. HIDE DEF q
<1>2. \A l \in {a, b} : NextLevel(l)[q] = NodeHash(l[2*q - 1], l[IF 2*q <= Len(l) THEN 2*q ELSE 2*q - 1])
  BY <1>1 DEF NextLevel
<1>3. NextLevel(a)[q] = NextLevel(b)[q]
  BY DEF q
<1>4. /\ a[2*q - 1] = b[2*q - 1]
      /\ a[IF 2*q <= Len(a) THEN 2*q ELSE 2*q - 1] = b[IF 2*q <= Len(b) THEN 2*q ELSE 2*q - 1]
  BY <1>2, <1>3, NodeHashIsInjective
<1>. QED BY <1>1, <1>4

(* A signed root and size bind every payment hash of the batch.            *)
THEOREM RootBindsLeaves ==
    ASSUME NEW s, NEW t, Len(s) \in Nat \ {0}, Len(t) = Len(s), MerkleRoot(s) = MerkleRoot(t)
    PROVE  \A i \in 1 .. Len(s) : s[i] = t[i]
<1>. DEFINE d == Depth[Len(s)]
            S(k) == LevelOf(s)[k]
            U(k) == LevelOf(t)[k]
            Same(k) == \A i \in 1 .. Len(S(k)) : S(k)[i] = U(k)[i]
            L == {k \in Nat : k <= d => Len(U(k)) = Len(S(k))}
            T == {k \in Nat : k <= d => Same(d - k)}
<1>1. d \in Nat /\ 1 \in 1 .. Len(s) /\ Len(s) \in Nat
  BY DepthIsNat
<1>2. \A k \in 0 .. d : Len(S(k)) \in Nat /\ Len(U(k)) \in Nat
  BY <1>1, PathStays
<1>3. Len(S(d)) = 1 /\ S(d)[1] = U(d)[1]
  BY <1>1, TopIsTheRoot
<1>4. S(0) = s /\ U(0) = t
  BY LevelValue
<1>5. \A k \in 1 .. d : S(k) = NextLevel(S(k - 1)) /\ U(k) = NextLevel(U(k - 1))
  BY LevelValue
<1>. HIDE DEF d, S, U
<1>6. 0 \in L /\ 0 \in T
  <2>1. d - 0 = d /\ Same(d)
    BY <1>1, <1>3
  <2>2. Same(d - 0)
    BY <2>1
  <2>. QED BY <1>4, <2>2
<1>7. ASSUME NEW k \in Nat, k \in L PROVE k + 1 \in L
  <2>1. SUFFICES ASSUME k + 1 <= d PROVE Len(U(k + 1)) = Len(S(k + 1))
    OBVIOUS
  <2>2. S(k + 1) = NextLevel(S(k)) /\ U(k + 1) = NextLevel(U(k))
    BY <1>1, <1>5, <2>1
  <2>3. Len(S(k)) \in Nat /\ Len(U(k)) = Len(S(k))
    BY <1>1, <1>2, <1>7, <2>1
  <2>. QED BY <2>2, <2>3, LengthOfNext
<1>8. Nat \subseteq L
  <2>. HIDE DEF L
  <2>. QED BY <1>6, <1>7, Induction
<1>9. ASSUME NEW k \in Nat, k \in T PROVE k + 1 \in T
  <2>1. SUFFICES ASSUME k + 1 <= d, NEW i \in 1 .. Len(S(d - (k + 1)))
                 PROVE  S(d - (k + 1))[i] = U(d - (k + 1))[i]
    OBVIOUS
  <2>. DEFINE m == d - (k + 1)
  <2>2. m \in 0 .. d - 1 /\ d - k = m + 1
    BY <1>1, <2>1
  <2>. HIDE DEF m
  <2>3. S(m + 1) = NextLevel(S(m)) /\ U(m + 1) = NextLevel(U(m))
    <3>1. m + 1 \in 1 .. d /\ (m + 1) - 1 = m
      BY <1>1, <2>2
    <3>. QED BY <1>5, <3>1
  <2>4. Len(S(m)) \in Nat /\ Len(U(m)) = Len(S(m)) /\ m \in Nat
    BY <1>1, <1>2, <1>8, <2>2
  <2>5. Same(m + 1)
    BY <1>9, <1>1, <2>1, <2>2
  <2>6. i \in 1 .. Len(S(m))
    BY DEF m
  <2>7. (i + 1) \div 2 \in 1 .. Len(S(m + 1))
    <3>1. Len(S(m + 1)) = (Len(S(m)) + 1) \div 2
      BY <2>3, <2>4, LengthOfNext
    <3>2. (i + 1) \div 2 \in 1 .. (Len(S(m)) + 1) \div 2
      BY <2>4, <2>6
    <3>. QED BY <3>1, <3>2
  <2>8. NextLevel(S(m))[(i + 1) \div 2] = NextLevel(U(m))[(i + 1) \div 2]
    BY <2>3, <2>5, <2>7
  <2>9. S(m)[i] = U(m)[i]
    BY <2>4, <2>6, <2>8, NextLevelBinds
  <2>. QED BY <2>9 DEF m
<1>10. Nat \subseteq T
  <2>. HIDE DEF T
  <2>. QED BY <1>6, <1>9, Induction
<1>11. Same(0)
  <2>1. d \in T /\ d - d = 0
    BY <1>1, <1>10
  <2>. QED BY <1>1, <2>1
<1>. QED BY <1>4, <1>11
-----------------------------------------------------------------------------
(* What the transactions and queries work with.                            *)

(* A batch has at least one hash.                                          *)
LEMMA HashesAre ==
    ASSUME NEW hs \in Hashes
    PROVE  /\ hs \in Seq(PaymentHash) /\ Len(hs) \in Nat \ {0}
           /\ DOMAIN hs = 1 .. Len(hs)
<1>1. PICK n \in 1 .. MaxIndex : hs \in [1 .. n -> PaymentHash]
  BY DEF Hashes
<1>2. n \in Nat \ {0}
  BY ConstantsAssumption
<1>. QED BY <1>1, <1>2

(* The leaves of a batch are as many as its hashes.                        *)
LEMMA LeavesAre ==
    ASSUME NEW o, NEW b, NEW first, NEW hs \in Hashes
    PROVE  /\ Len(Leaves(o, b, first, hs)) = Len(hs)
           /\ DOMAIN Leaves(o, b, first, hs) = 1 .. Len(hs)
           /\ \A i \in 1 .. Len(hs) :
                 Leaves(o, b, first, hs)[i] = LeafHash(o, b, first + i - 1, hs[i])
BY HashesAre DEF Leaves

(* The rows of a batch, one by one.                                        *)
LEMMA RowsOfAre ==
    ASSUME NEW b, NEW r
    PROVE  r \in RowsOf(b) <=> \E o \in Orders : \E i \in DOMAIN pool[o] :
                                  r = <<o, i>> /\ pool[o][i].batch = b
BY DEF RowsOf

(* Consecutive rows of one order have one listing.                         *)
LEMMA ListingOfInterval ==
    ASSUME NEW o, NEW a \in Nat, NEW n \in Nat, NEW s \in Listings({o} \X (a .. a + n - 1))
    PROVE  s = [k \in 1 .. n |-> <<o, a + k - 1>>]
<1>. DEFINE S == {o} \X (a .. a + n - 1)
<1>1. Cardinality(S) = n
  <2>. DEFINE f == [k \in 1 .. n |-> <<o, a + k - 1>>]
  <2>1. f \in Bijection(1 .. n, S)
    <3>1. \A k \in 1 .. n : a + k - 1 \in a .. a + n - 1
      OBVIOUS
    <3>2. f \in [1 .. n -> S] /\ \A j, k \in 1 .. n : f[j] = f[k] => j = k
      BY <3>1
    <3>3. ASSUME NEW r \in S PROVE \E k \in 1 .. n : f[k] = r
      <4>1. PICK i \in a .. a + n - 1 : r = <<o, i>>
        OBVIOUS
      <4>2. i - a + 1 \in 1 .. n /\ f[i - a + 1] = r
        BY <4>1
      <4>. QED BY <4>2
    <3>. HIDE DEF f, S
    <3>. QED BY <3>2, <3>3 DEF Bijection, Injection, Surjection, IsInjective
  <2>2. IsFiniteSet(1 .. n) /\ Cardinality(1 .. n) = n
    BY FS_Interval
  <2>. HIDE DEF f, S
  <2>. QED BY <2>1, <2>2, FS_Bijection DEF ExistsBijection
<1>2. /\ s \in [1 .. n -> S]
      /\ \A j, k \in 1 .. n : s[j] = s[k] => j = k
      /\ \A j, k \in 1 .. n : j <= k => s[j][2] <= s[k][2]
  <2>. HIDE DEF S
  <2>1. s \in Listings(S)
    BY DEF S
  <2>. QED BY <1>1, <2>1 DEF Listings, Bijection, Injection, IsInjective
<1>. DEFINE at == [k \in 1 .. n |-> s[k][2]]
<1>3. \A k \in 1 .. n : s[k] = <<o, at[k]>> /\ at[k] \in a .. a + n - 1
  BY <1>2
<1>. HIDE DEF S
<1>4. \A j, k \in 1 .. n : j < k => at[j] < at[k]
  <2>1. SUFFICES ASSUME NEW j \in 1 .. n, NEW k \in 1 .. n, j < k PROVE at[j] < at[k]
    OBVIOUS
  <2>2. at[j] <= at[k]
    BY <1>2, <2>1
  <2>3. at[j] # at[k]
    BY <1>2, <1>3, <2>1
  <2>. HIDE DEF at
  <2>4. at[j] \in Int /\ at[k] \in Int
    BY <1>3
  <2>. QED BY <2>2, <2>3, <2>4
<1>. HIDE DEF at
<1>5. \A k \in 1 .. n : at[k] >= a + k - 1
  <2>. DEFINE T == {k \in Nat : k + 1 \in 1 .. n => at[k + 1] >= a + k}
  <2>1. 0 \in T
    BY <1>3
  <2>2. ASSUME NEW k \in Nat, k \in T PROVE k + 1 \in T
    <3>1. SUFFICES ASSUME k + 2 \in 1 .. n PROVE at[k + 2] >= a + k + 1
      OBVIOUS
    <3>2. at[k + 1] >= a + k /\ at[k + 1] < at[k + 2] /\ at[k + 1] \in Int /\ at[k + 2] \in Int
      BY <1>3, <1>4, <2>2, <3>1
    <3>. QED BY <3>2
  <2>3. Nat \subseteq T
    <3>. HIDE DEF T
    <3>. QED BY <2>1, <2>2, Induction
  <2>4. ASSUME NEW k \in 1 .. n PROVE at[k] >= a + k - 1
    <3>1. k - 1 \in T /\ (k - 1) + 1 = k
      BY <2>3
    <3>. QED BY <3>1
  <2>. QED BY <2>4
<1>6. \A k \in 1 .. n : at[k] <= a + k - 1
  <2>. DEFINE T == {k \in Nat : n - k \in 1 .. n => at[n - k] <= a + (n - k) - 1}
  <2>1. 0 \in T
    <3>1. n - 0 = n
      OBVIOUS
    <3>. QED BY <1>3, <3>1
  <2>2. ASSUME NEW k \in Nat, k \in T PROVE k + 1 \in T
    <3>1. SUFFICES ASSUME n - (k + 1) \in 1 .. n
                   PROVE  at[n - (k + 1)] <= a + (n - (k + 1)) - 1
      OBVIOUS
    <3>2. n - k \in 1 .. n /\ n - (k + 1) < n - k
      BY <3>1
    <3>3. at[n - k] <= a + (n - k) - 1 /\ at[n - (k + 1)] < at[n - k]
      BY <1>4, <2>2, <3>1, <3>2
    <3>4. at[n - k] \in Int /\ at[n - (k + 1)] \in Int
      BY <1>3, <3>1, <3>2
    <3>. QED BY <3>3, <3>4
  <2>3. Nat \subseteq T
    <3>. HIDE DEF T
    <3>. QED BY <2>1, <2>2, Induction
  <2>4. ASSUME NEW k \in 1 .. n PROVE at[k] <= a + k - 1
    <3>1. n - k \in T /\ n - (n - k) = k
      BY <2>3
    <3>. QED BY <3>1
  <2>. QED BY <2>4
<1>7. \A k \in 1 .. n : s[k] = <<o, a + k - 1>>
  <2>1. ASSUME NEW k \in 1 .. n PROVE at[k] = a + k - 1
    BY <1>3, <1>5, <1>6
  <2>. QED BY <1>3, <2>1
<1>. QED BY <1>2, <1>7
-----------------------------------------------------------------------------
(* The invariant.                                                          *)

Row == [hash : PaymentHash, batch : BatchIds \union {None}]

TypeInv ==
    /\ pool \in [Orders -> Seq(Row)]
    /\ DOMAIN batches = BatchIds
    /\ used \in [BatchIds -> SUBSET (Orders \X (1 .. MaxIndex) \X Hashes)]

(* What is kept of a batch: the commitment, the hashes it is about, and its *)
(* id on all of their rows or, of a batch whose hashes were there, on none. *)
Kept(b, o, first, hs) ==
    /\ batches[b] = [recipient |-> o, size |-> Len(hs),
                     root |-> MerkleRoot(Leaves(o, b, first, hs))]
    /\ first + Len(hs) - 1 <= Highest(o)
    /\ \A i \in 1 .. Len(hs) : pool[o][first + i - 1].hash = hs[i]
    /\ RowsOf(b) \in {{}, {o} \X (first .. first + Len(hs) - 1)}

BatchInv ==
    \A b \in BatchIds :
        /\ IsFiniteSet(used[b])
        /\ used[b] = {} => batches[b] = <<>> /\ RowsOf(b) = {}
        /\ used[b] # {} => batches[b] # <<>>
        /\ \A u \in used[b] : used[b] = {u} => Kept(b, u[1], u[2], u[3])

(* A request for a proof knows the batch of a row that will keep it.       *)
BuilderInv ==
    /\ pc \in {"idle", "batch", "rows", "answered"}
    /\ pc # "idle" =>
        /\ batchId \in BatchIds
        /\ ask[1] \in Orders /\ ask[2] \in DOMAIN pool[ask[1]]
        /\ pool[ask[1]][ask[2]].batch = batchId
    /\ pc = "rows" => batch = batches[batchId]
    /\ pc = "answered" => answer.batch = batchId

IInv == TypeInv /\ BatchInv /\ BuilderInv /\ ProofVerifies

-----------------------------------------------------------------------------
(* Rows are appended and never change.                                     *)

AppendRows(o, hs, b) == pool' = [pool EXCEPT ![o] = @ \o Stamped(hs, b)]

(* The old rows of every pool stay, the new ones come after them.          *)
LEMMA AppendedRows ==
    ASSUME TypeInv, NEW o \in Orders, NEW hs \in Hashes, NEW b \in BatchIds \union {None},
           AppendRows(o, hs, b)
    PROVE  /\ pool' \in [Orders -> Seq(Row)]
           /\ \A p \in Orders : /\ Highest(p)' = Highest(p) + IF p = o THEN Len(hs) ELSE 0
                                /\ \A i \in 1 .. Highest(p) : pool'[p][i] = pool[p][i]
           /\ \A i \in 1 .. Len(hs) :
                 pool'[o][Highest(o) + i] = [hash |-> hs[i], batch |-> b]
<1>. DEFINE new == Stamped(hs, b)
<1>1. new \in Seq(Row) /\ Len(new) = Len(hs) /\ \A i \in 1 .. Len(hs) : new[i] = [hash |-> hs[i], batch |-> b]
  <2>1. new = [i \in 1 .. Len(hs) |-> [hash |-> hs[i], batch |-> b]]
    BY HashesAre DEF Stamped
  <2>2. \A i \in 1 .. Len(hs) : [hash |-> hs[i], batch |-> b] \in Row
    BY HashesAre DEF Row
  <2>. QED BY <2>1, <2>2, HashesAre
<1>2. pool[o] \in Seq(Row)
  BY DEF TypeInv
<1>. HIDE DEF new
<1>3. /\ pool[o] \o new \in Seq(Row)
      /\ Len(pool[o] \o new) = Len(pool[o]) + Len(new)
      /\ \A i \in 1 .. Len(pool[o]) + Len(new) :
            (pool[o] \o new)[i] = IF i <= Len(pool[o]) THEN pool[o][i] ELSE new[i - Len(pool[o])]
  <2>1. new \in Seq(Row)
    BY <1>1
  <2>. QED BY <1>2, <2>1, ConcatProperties, Zenon
<1>4. pool' = [pool EXCEPT ![o] = pool[o] \o new]
  BY DEF AppendRows, new
<1>5. pool' \in [Orders -> Seq(Row)]
  <2>1. pool \in [Orders -> Seq(Row)] /\ pool[o] \o new \in Seq(Row)
    BY <1>3 DEF TypeInv
  <2>. QED BY <1>4, <2>1
<1>6. ASSUME NEW p \in Orders
      PROVE  /\ Highest(p)' = Highest(p) + IF p = o THEN Len(hs) ELSE 0
             /\ \A i \in 1 .. Highest(p) : pool'[p][i] = pool[p][i]
  <2>1. pool[p] \in Seq(Row) /\ Len(pool[p]) \in Nat /\ Len(hs) \in Nat
    BY HashesAre DEF TypeInv
  <2>2. CASE p = o
    <3>1. pool'[p] = pool[o] \o new
      BY <1>4, <2>2 DEF TypeInv
    <3>. QED BY <1>1, <1>3, <2>1, <2>2, <3>1 DEF Highest
  <2>3. CASE p # o
    <3>1. pool'[p] = pool[p]
      BY <1>4, <2>3 DEF TypeInv
    <3>. QED BY <2>1, <2>3, <3>1 DEF Highest
  <2>. QED BY <2>2, <2>3
<1>7. ASSUME NEW i \in 1 .. Len(hs)
      PROVE  pool'[o][Highest(o) + i] = [hash |-> hs[i], batch |-> b]
  <2>1. pool'[o] = pool[o] \o new
    BY <1>4 DEF TypeInv
  <2>2. Len(pool[o]) \in Nat /\ Len(hs) \in Nat
    BY <1>2, HashesAre
  <2>3. Len(pool[o]) + i \in 1 .. Len(pool[o]) + Len(new) /\ ~(Len(pool[o]) + i <= Len(pool[o]))
        /\ (Len(pool[o]) + i) - Len(pool[o]) = i
    BY <1>1, <2>2
  <2>. QED BY <1>1, <1>3, <2>1, <2>3 DEF Highest
<1>. QED BY <1>5, <1>6, <1>7

(* The new rows are in the batch they were stamped with, the others in     *)
(* theirs.                                                                 *)
LEMMA AppendedRowsOf ==
    ASSUME TypeInv, NEW o \in Orders, NEW hs \in Hashes, NEW b \in BatchIds \union {None},
           AppendRows(o, hs, b), NEW c \in BatchIds
    PROVE  RowsOf(c)' = RowsOf(c) \union
              IF c = b THEN {o} \X (Highest(o) + 1 .. Highest(o) + Len(hs)) ELSE {}
<1>. DEFINE n == Highest(o)
<1>1. /\ \A p \in Orders : /\ Highest(p)' = Highest(p) + IF p = o THEN Len(hs) ELSE 0
                           /\ \A i \in 1 .. Highest(p) : pool'[p][i] = pool[p][i]
      /\ \A i \in 1 .. Len(hs) : pool'[o][n + i] = [hash |-> hs[i], batch |-> b]
  BY AppendedRows
<1>2. /\ n \in Nat /\ Len(hs) \in Nat
      /\ \A p \in Orders : DOMAIN pool[p] = 1 .. Highest(p) /\ Highest(p) \in Nat
      /\ \A p \in Orders : DOMAIN pool'[p] = 1 .. Highest(p)'
  <2>1. pool' \in [Orders -> Seq(Row)]
    BY AppendedRows
  <2>. QED BY <2>1, HashesAre DEF TypeInv, Highest
<1>. HIDE DEF n
<1>3. ASSUME NEW p \in Orders, NEW i, p # o
      PROVE  i \in DOMAIN pool'[p] /\ pool'[p][i].batch = c
                <=> i \in DOMAIN pool[p] /\ pool[p][i].batch = c
  <2>1. DOMAIN pool'[p] = 1 .. Highest(p) /\ DOMAIN pool[p] = 1 .. Highest(p)
    BY <1>1, <1>2, <1>3
  <2>. QED BY <1>1, <2>1
<1>4. ASSUME NEW i
      PROVE  i \in DOMAIN pool'[o] /\ pool'[o][i].batch = c
                <=> \/ i \in DOMAIN pool[o] /\ pool[o][i].batch = c
                    \/ c = b /\ i \in n + 1 .. n + Len(hs)
  <2>1. DOMAIN pool'[o] = 1 .. n + Len(hs) /\ DOMAIN pool[o] = 1 .. n
    BY <1>1, <1>2 DEF n
  <2>2. CASE i \in 1 .. n
    <3>1. pool'[o][i] = pool[o][i]
      BY <1>1, <2>2 DEF n
    <3>. QED BY <1>2, <2>1, <2>2, <3>1
  <2>3. CASE i \in n + 1 .. n + Len(hs)
    <3>1. i - n \in 1 .. Len(hs) /\ n + (i - n) = i
      BY <1>2, <2>3
    <3>2. pool'[o][i] = [hash |-> hs[i - n], batch |-> b]
      BY <1>1, <3>1
    <3>. QED BY <1>2, <2>1, <2>3, <3>2
  <2>4. CASE i \notin 1 .. n + Len(hs)
    <3>1. i \notin 1 .. n /\ i \notin n + 1 .. n + Len(hs)
      BY <1>2, <2>4
    <3>. QED BY <2>1, <2>4, <3>1
  <2>5. i \in 1 .. n + Len(hs) => i \in 1 .. n \/ i \in n + 1 .. n + Len(hs)
    BY <1>2
  <2>. QED BY <2>2, <2>3, <2>4, <2>5
<1>5. \A r : r \in RowsOf(c)' <=> \E p \in Orders : \E i \in DOMAIN pool'[p] :
                                     r = <<p, i>> /\ pool'[p][i].batch = c
  BY DEF RowsOf
<1>6. ASSUME NEW r
      PROVE  r \in RowsOf(c)' <=>
                \/ r \in RowsOf(c)
                \/ c = b /\ \E i \in n + 1 .. n + Len(hs) : r = <<o, i>>
  BY <1>3, <1>4, <1>5, RowsOfAre
<1>7. \A r : r \in {o} \X (n + 1 .. n + Len(hs)) <=> \E i \in n + 1 .. n + Len(hs) : r = <<o, i>>
  OBVIOUS
<1>. QED BY <1>6, <1>7 DEF n
(* A pool only grows at its end.                                           *)
Grows(p) ==
    /\ Highest(p) \in Nat /\ Highest(p)' \in Nat /\ Highest(p) <= Highest(p)'
    /\ DOMAIN pool[p] = 1 .. Highest(p) /\ DOMAIN pool'[p] = 1 .. Highest(p)'
    /\ \A i \in 1 .. Highest(p) : pool'[p][i] = pool[p][i]

(* Every request lets the pools grow and puts no row into another batch.   *)
LEMMA PoolsGrow ==
    ASSUME TypeInv, NEW o \in Orders, NEW first \in 1 .. MaxIndex, NEW hs \in Hashes,
           NEW b \in BatchIds \union {None}, OrderNew(o, first, hs, b)
    PROVE  /\ pool' \in [Orders -> Seq(Row)]
           /\ \A p \in Orders : Grows(p)
           /\ \A c \in BatchIds : c # b => RowsOf(c)' = RowsOf(c)
<1>1. CASE AppendRows(o, hs, b)
  <2>1. /\ pool' \in [Orders -> Seq(Row)]
        /\ \A p \in Orders : /\ Highest(p)' = Highest(p) + IF p = o THEN Len(hs) ELSE 0
                             /\ \A i \in 1 .. Highest(p) : pool'[p][i] = pool[p][i]
    BY <1>1, AppendedRows
  <2>2. \A c \in BatchIds : c # b => RowsOf(c)' = RowsOf(c)
    BY <1>1, AppendedRowsOf
  <2>3. Len(hs) \in Nat /\ \A p \in Orders :
           /\ Highest(p) \in Nat /\ Highest(p)' \in Nat
           /\ DOMAIN pool[p] = 1 .. Highest(p) /\ DOMAIN pool'[p] = 1 .. Highest(p)'
    BY <2>1, HashesAre DEF TypeInv, Highest
  <2>. QED BY <2>1, <2>2, <2>3 DEF Grows
<1>2. CASE UNCHANGED pool
  BY <1>2 DEF TypeInv, Highest, RowsOf, Grows
<1>. QED BY <1>1, <1>2 DEF OrderNew, AppendRows

(* What is kept of a batch stays while no row gets its id.                 *)
LEMMA KeptStays ==
    ASSUME TypeInv, NEW o \in Orders, NEW first \in 1 .. MaxIndex, NEW hs \in Hashes,
           NEW b \in BatchIds \union {None}, OrderNew(o, first, hs, b),
           NEW c \in BatchIds, NEW p \in Orders, NEW from \in 1 .. MaxIndex, NEW ks \in Hashes,
           Kept(c, p, from, ks), batches'[c] = batches[c], RowsOf(c)' = RowsOf(c)
    PROVE  Kept(c, p, from, ks)'
<1>1. /\ Highest(p) \in Nat /\ Highest(p)' \in Nat /\ Highest(p) <= Highest(p)'
      /\ \A i \in 1 .. Highest(p) : pool'[p][i] = pool[p][i]
  BY PoolsGrow DEF Grows
<1>2. Len(ks) \in Nat /\ from \in Nat \ {0} /\ from + Len(ks) - 1 <= Highest(p)
  BY HashesAre DEF Kept
<1>3. ASSUME NEW i \in 1 .. Len(ks) PROVE pool'[p][from + i - 1].hash = ks[i]
  <2>1. from + i - 1 \in 1 .. Highest(p)
    BY <1>1, <1>2
  <2>. QED BY <1>1, <2>1 DEF Kept
<1>4. from + Len(ks) - 1 <= Highest(p)'
  BY <1>1, <1>2
<1>. QED BY <1>3, <1>4 DEF Kept

(* Requests insert rows and batches of their types.                        *)
LEMMA OrderNewKeepsTypes ==
    ASSUME TypeInv, NEW o \in Orders, NEW first \in 1 .. MaxIndex, NEW hs \in Hashes,
           NEW b \in BatchIds \union {None}, OrderNew(o, first, hs, b)
    PROVE  TypeInv'
<1>1. pool' \in [Orders -> Seq(Row)]
  BY PoolsGrow
<1>2. DOMAIN batches' = BatchIds
  BY DEF TypeInv, OrderNew, Persisted
<1>3. <<o, first, hs>> \in Orders \X (1 .. MaxIndex) \X Hashes
  OBVIOUS
<1>4. used' \in [BatchIds -> SUBSET (Orders \X (1 .. MaxIndex) \X Hashes)]
  BY <1>3 DEF TypeInv, OrderNew, UsedFor
<1>. QED BY <1>1, <1>2, <1>4 DEF TypeInv

(* Only the batch of the request changes, and a batch that is stored is    *)
(* not replaced.                                                           *)
Changes(o, first, hs, b, c) ==
    /\ c # b => used'[c] = used[c] /\ batches'[c] = batches[c]
    /\ c = b => used'[c] = used[c] \union {<<o, first, hs>>} /\ batches'[c] # <<>>
    /\ c = b /\ batches[c] = <<>> => batches'[c] =
          [recipient |-> o, size |-> Len(hs), root |-> MerkleRoot(Leaves(o, c, first, hs))]
    /\ batches[c] # <<>> => batches'[c] = batches[c]

(* Every request changes batches so.                                       *)
LEMMA OneBatch ==
    ASSUME TypeInv, NEW o \in Orders, NEW first \in 1 .. MaxIndex, NEW hs \in Hashes,
           NEW b \in BatchIds \union {None}, OrderNew(o, first, hs, b), NEW c \in BatchIds
    PROVE  Changes(o, first, hs, b, c)
<1>. DEFINE kept == [recipient |-> o, size |-> Len(hs), root |-> MerkleRoot(Leaves(o, b, first, hs))]
<1>1. kept # <<>>
  <2>1. "size" \in DOMAIN kept /\ "size" \notin DOMAIN <<>>
    OBVIOUS
  <2>. QED BY <2>1
<1>2. batches' = IF b # None /\ batches[b] = <<>> THEN [batches EXCEPT ![b] = kept] ELSE batches
  BY DEF OrderNew, Persisted
<1>3. used' = IF b = None THEN used ELSE [used EXCEPT ![b] = @ \union {<<o, first, hs>>}]
  BY DEF OrderNew, UsedFor
<1>4. c # None /\ c \in DOMAIN batches /\ c \in DOMAIN used
  BY ConstantsAssumption DEF TypeInv
<1>5. c = b /\ batches[c] = <<>> => batches'[c] = kept
  BY <1>2, <1>4
<1>. HIDE DEF kept
<1>6. batches[c] # <<>> => batches'[c] = batches[c]
  BY <1>2, <1>4
<1>7. c # b => used'[c] = used[c] /\ batches'[c] = batches[c]
  BY <1>2, <1>3, <1>4
<1>8. c = b => used'[c] = used[c] \union {<<o, first, hs>>}
  BY <1>3, <1>4
<1>. QED BY <1>1, <1>5, <1>6, <1>7, <1>8 DEF kept, Changes

(* A request keeps its own batch and leaves the others as they were.       *)
LEMMA OrderNewKeepsBatches ==
    ASSUME TypeInv, BatchInv, NEW o \in Orders, NEW first \in 1 .. MaxIndex, NEW hs \in Hashes,
           NEW b \in BatchIds \union {None}, OrderNew(o, first, hs, b)
    PROVE  BatchInv'
<1>. SUFFICES ASSUME NEW c \in BatchIds
              PROVE  /\ IsFiniteSet(used'[c])
                     /\ used'[c] = {} => batches'[c] = <<>> /\ RowsOf(c)' = {}
                     /\ used'[c] # {} => batches'[c] # <<>>
                     /\ \A u \in used'[c] : used'[c] = {u} => Kept(c, u[1], u[2], u[3])'
  BY DEF BatchInv
<1>1. /\ IsFiniteSet(used[c])
      /\ used[c] = {} => batches[c] = <<>> /\ RowsOf(c) = {}
      /\ used[c] # {} => batches[c] # <<>>
      /\ \A u \in used[c] : used[c] = {u} => Kept(c, u[1], u[2], u[3])
  BY DEF BatchInv
<1>2. CASE c # b
  <2>1. used'[c] = used[c] /\ batches'[c] = batches[c] /\ RowsOf(c)' = RowsOf(c)
    <3>1. Changes(o, first, hs, b, c)
      BY OneBatch
    <3>2. RowsOf(c)' = RowsOf(c)
      BY <1>2, PoolsGrow
    <3>. QED BY <1>2, <3>1, <3>2 DEF Changes
  <2>2. ASSUME NEW u \in used[c], used[c] = {u} PROVE Kept(c, u[1], u[2], u[3])'
    <3>1. u[1] \in Orders /\ u[2] \in 1 .. MaxIndex /\ u[3] \in Hashes
      BY DEF TypeInv
    <3>2. Kept(c, u[1], u[2], u[3])
      BY <1>1, <2>2
    <3>. QED BY <2>1, <3>1, <3>2, KeptStays
  <2>. QED BY <1>1, <2>1, <2>2
<1>3. CASE c = b
  <2>. DEFINE new == <<o, first, hs>>
  <2>1. /\ used'[c] = used[c] \union {new}
        /\ batches'[c] # <<>>
        /\ batches[c] = <<>> => batches'[c] = [recipient |-> o, size |-> Len(hs),
                                               root |-> MerkleRoot(Leaves(o, c, first, hs))]
        /\ batches[c] # <<>> => batches'[c] = batches[c]
    <3>1. Changes(o, first, hs, b, c)
      BY OneBatch
    <3>. QED BY <1>3, <3>1 DEF Changes
  <2>2. IsFiniteSet(used'[c])
    BY <1>1, <2>1, FS_AddElement
  <2>3. Highest(o) \in Nat /\ Len(hs) \in Nat \ {0} /\ first \in Nat \ {0}
    BY HashesAre, PoolsGrow DEF Grows
  <2>4. ASSUME used[c] = {} PROVE Kept(c, o, first, hs)'
    <3>1. batches'[c] = [recipient |-> o, size |-> Len(hs),
                         root |-> MerkleRoot(Leaves(o, c, first, hs))]
      BY <1>1, <2>1, <2>4
    <3>2. CASE Appends(o, first, hs) /\ AppendRows(o, hs, b)
      <4>1. first = Highest(o) + 1
        BY <3>2 DEF Appends
      <4>2. /\ Highest(o)' = Highest(o) + Len(hs)
            /\ \A i \in 1 .. Len(hs) : pool'[o][Highest(o) + i] = [hash |-> hs[i], batch |-> b]
        BY <3>2, AppendedRows
      <4>3. RowsOf(c)' = {o} \X (Highest(o) + 1 .. Highest(o) + Len(hs))
        BY <1>1, <1>3, <2>4, <3>2, AppendedRowsOf
      <4>4. ASSUME NEW i \in 1 .. Len(hs) PROVE pool'[o][first + i - 1].hash = hs[i]
        <5>1. first + i - 1 = Highest(o) + i
          BY <2>3, <4>1
        <5>2. pool'[o][Highest(o) + i] = [hash |-> hs[i], batch |-> b]
          BY <4>2, Zenon
        <5>. QED BY <5>1, <5>2
      <4>5. first + Len(hs) - 1 = Highest(o) + Len(hs)
        BY <2>3, <4>1
      <4>6. first + Len(hs) - 1 <= Highest(o)'
        BY <2>3, <4>2, <4>5
      <4>7. RowsOf(c)' = {o} \X (first .. first + Len(hs) - 1)
        BY <4>1, <4>3, <4>5
      <4>. QED BY <3>1, <4>4, <4>6, <4>7 DEF Kept
    <3>3. CASE Repeats(o, first, hs) /\ UNCHANGED pool
      <4>1. RowsOf(c)' = {}
        BY <1>1, <2>4, <3>3 DEF RowsOf
      <4>2. /\ first + Len(hs) - 1 <= Highest(o)'
            /\ \A i \in 1 .. Len(hs) : pool'[o][first + i - 1].hash = hs[i]
        BY <3>3, HashesAre DEF Repeats, Highest
      <4>. QED BY <3>1, <4>1, <4>2 DEF Kept
    <3>. QED BY <3>2, <3>3 DEF OrderNew, AppendRows
  <2>5. ASSUME used[c] = {new} PROVE Kept(c, o, first, hs)'
    <3>1. Kept(c, o, first, hs) /\ batches'[c] = batches[c]
      BY <1>1, <2>1, <2>5
    <3>2. ~Appends(o, first, hs)
      BY <2>3, <3>1 DEF Kept, Appends
    <3>3. RowsOf(c)' = RowsOf(c)
      BY <3>2 DEF OrderNew, RowsOf
    <3>. QED BY <3>1, <3>3, KeptStays
  <2>6. ASSUME NEW u \in used'[c], used'[c] = {u} PROVE Kept(c, u[1], u[2], u[3])'
    <3>1. u = new /\ (used[c] = {} \/ used[c] = {new})
      BY <2>1, <2>6
    <3>2. Kept(c, o, first, hs)'
      BY <2>4, <2>5, <3>1
    <3>. QED BY <3>1, <3>2
  <2>. QED BY <2>1, <2>2, <2>6
<1>. QED BY <1>2, <1>3

-----------------------------------------------------------------------------
(* The request for a proof.                                                *)

(* The batch of a stamped row was accepted and is stored.                  *)
LEMMA StampedIsUsed ==
    ASSUME BatchInv, NEW o \in Orders, NEW i \in DOMAIN pool[o], NEW b \in BatchIds,
           pool[o][i].batch = b
    PROVE  used[b] # {} /\ batches[b] # <<>> /\ <<o, i>> \in RowsOf(b)
<1>1. <<o, i>> \in RowsOf(b)
  BY RowsOfAre
<1>. QED BY <1>1 DEF BatchInv

(* An id that is used for one batch now was used for no other before.      *)
LEMMA OnceUsed ==
    ASSUME TypeInv, BatchInv, NEW b \in BatchIds, used[b] # {}, NEW x,
           used'[b] = used[b] \union {x} \/ used'[b] = used[b], Cardinality(used'[b]) = 1
    PROVE  Cardinality(used[b]) = 1
<1>1. IsFiniteSet(used[b])
  BY DEF BatchInv
<1>2. IsFiniteSet(used'[b])
  BY <1>1, FS_AddElement
<1>3. PICK y : used'[b] = {y}
  BY <1>2, FS_Singleton
<1>4. used[b] = {y}
  BY <1>3
<1>. QED BY <1>4, FS_Singleton

(* A request that is accepted while a proof is built changes neither the   *)
(* row nor the batch it is about.                                          *)
LEMMA OrderNewKeepsBuilder ==
    ASSUME IInv, NEW o \in Orders, NEW first \in 1 .. MaxIndex, NEW hs \in Hashes,
           NEW b \in BatchIds \union {None}, OrderNew(o, first, hs, b)
    PROVE  BuilderInv' /\ ProofVerifies'
<1>. TypeInv /\ BatchInv /\ BuilderInv /\ ProofVerifies
  BY DEF IInv
<1>1. UNCHANGED builder
  BY DEF OrderNew
<1>2. CASE pc = "idle"
  BY <1>1, <1>2 DEF builder, BuilderInv, ProofVerifies
<1>3. CASE pc # "idle"
  <2>. DEFINE p == ask[1]
              i == ask[2]
  <2>1. batchId \in BatchIds /\ p \in Orders /\ i \in DOMAIN pool[p] /\ pool[p][i].batch = batchId
    BY <1>3 DEF BuilderInv
  <2>2. i \in DOMAIN pool'[p] /\ pool'[p][i] = pool[p][i]
    <3>. HIDE DEF p, i
    <3>1. Grows(p)
      BY <2>1, PoolsGrow
    <3>. QED BY <2>1, <3>1 DEF Grows
  <2>3. used[batchId] # {} /\ batches[batchId] # <<>>
    BY <2>1, StampedIsUsed
  <2>. HIDE DEF p, i
  <2>4. batches'[batchId] = batches[batchId]
        /\ \/ used'[batchId] = used[batchId] \union {<<o, first, hs>>}
           \/ used'[batchId] = used[batchId]
    <3>1. Changes(o, first, hs, b, batchId)
      BY <2>1, OneBatch
    <3>. QED BY <2>3, <3>1 DEF Changes
  <2>5. BuilderInv'
    <3>1. UNCHANGED <<pc, ask, batchId, batch, answer>>
      BY <1>1 DEF builder
    <3>. QED BY <2>1, <2>2, <2>4, <3>1 DEF BuilderInv, p, i
  <2>7. Cardinality(used'[batchId]) = 1 => Cardinality(used[batchId]) = 1
    BY <2>1, <2>3, <2>4, OnceUsed
  <2>8. ProofVerifies'
    <3>1. UNCHANGED <<pc, ask, batchId, batch, answer>>
      BY <1>1 DEF builder
    <3>2. pc = "answered" => answer.batch = batchId
      BY DEF BuilderInv
    <3>. QED BY <2>2, <2>7, <3>1, <3>2 DEF ProofVerifies, p, i
  <2>. QED BY <2>5, <2>8
<1>. QED BY <1>2, <1>3

(* The tables do not change while a proof is built.                        *)
LEMMA TablesStay ==
    ASSUME TypeInv, BatchInv, UNCHANGED tables
    PROVE  TypeInv' /\ BatchInv'
<1>1. UNCHANGED <<pool, batches, used>>
  BY DEF tables
<1>2. \A b : RowsOf(b)' = RowsOf(b)
  BY <1>1 DEF RowsOf
<1>3. \A b, o, first, hs : Kept(b, o, first, hs)' <=> Kept(b, o, first, hs)
  BY <1>1, <1>2 DEF Kept, Highest
<1>4. TypeInv'
  BY <1>1 DEF TypeInv
<1>5. BatchInv'
  BY <1>1, <1>2, <1>3 DEF BatchInv
<1>. QED BY <1>4, <1>5

(* The row's stamp is a batch.                                             *)
LEMMA ReadStampKeeps ==
    ASSUME IInv, NEW o \in Orders, NEW i \in 1 .. MaxIndex, ReadStamp(o, i)
    PROVE  BuilderInv' /\ ProofVerifies'
<1>1. pool[o][i] \in Row /\ pool[o][i].batch # None
  BY DEF ReadStamp, IInv, TypeInv
<1>2. pool[o][i].batch \in BatchIds
  BY <1>1 DEF Row
<1>. QED BY <1>2 DEF ReadStamp, BuilderInv, ProofVerifies, tables

(* The batch is read as it is stored.                                      *)
LEMMA ReadBatchKeeps ==
    ASSUME IInv, ReadBatch
    PROVE  BuilderInv' /\ ProofVerifies'
BY DEF IInv, ReadBatch, BuilderInv, ProofVerifies, tables

(* An answer ends the request.                                             *)
LEMMA AnsweredKeeps ==
    ASSUME IInv, Answered
    PROVE  BuilderInv' /\ ProofVerifies'
BY DEF Answered, BuilderInv, ProofVerifies

(* The rows of a batch that is the only one of its id are its leaves, in    *)
(* their order.                                                             *)
LEMMA RowsAreLeaves ==
    ASSUME TypeInv, NEW b \in BatchIds, NEW o \in Orders, NEW first \in 1 .. MaxIndex,
           NEW hs \in Hashes, Kept(b, o, first, hs), RowsOf(b) # {},
           NEW rows \in Listings(RowsOf(b))
    PROVE  /\ rows = [k \in 1 .. Len(hs) |-> <<o, first + k - 1>>]
           /\ [j \in DOMAIN rows |-> LeafHash(o, b, rows[j][2], pool[rows[j][1]][rows[j][2]].hash)]
                 = Leaves(o, b, first, hs)
<1>1. Len(hs) \in Nat /\ first \in Nat
  BY HashesAre
<1>2. RowsOf(b) = {o} \X (first .. first + Len(hs) - 1)
  BY DEF Kept
<1>3. rows = [k \in 1 .. Len(hs) |-> <<o, first + k - 1>>]
  BY <1>1, <1>2, ListingOfInterval
<1>4. ASSUME NEW j \in 1 .. Len(hs)
      PROVE  LeafHash(o, b, rows[j][2], pool[rows[j][1]][rows[j][2]].hash)
                = LeafHash(o, b, first + j - 1, hs[j])
  <2>1. rows[j][1] = o /\ rows[j][2] = first + j - 1
    BY <1>3
  <2>2. pool[o][first + j - 1].hash = hs[j]
    BY DEF Kept
  <2>. QED BY <2>1, <2>2
<1>5. DOMAIN rows = 1 .. Len(hs) /\ DOMAIN hs = 1 .. Len(hs)
  BY <1>3, HashesAre
<1>6. Leaves(o, b, first, hs) = [j \in 1 .. Len(hs) |-> LeafHash(o, b, first + j - 1, hs[j])]
  BY <1>5 DEF Leaves
<1>. HIDE DEF Leaves
<1>. QED BY <1>3, <1>4, <1>5, <1>6

(* The rows and the batch make a proof that verifies.                      *)
LEMMA ReadRowsKeeps ==
    ASSUME IInv, ReadRows
    PROVE  BuilderInv' /\ ProofVerifies'
<1>. DEFINE b == batchId
            o == ask[1]
            i == ask[2]
            HashOf(r) == pool[r[1]][r[2]].hash
            leavesOf(rows) == [j \in DOMAIN rows |->
                                 LeafHash(batch.recipient, b, rows[j][2], HashOf(rows[j]))]
<1>1. /\ pc = "rows" /\ b \in BatchIds /\ o \in Orders /\ i \in DOMAIN pool[o]
      /\ pool[o][i].batch = b /\ batch = batches[b]
  BY DEF IInv, ReadRows, BuilderInv
<1>2. PICK rows \in Listings(RowsOf(b)) :
         answer' = [batch |-> b, recipient |-> batch.recipient,
                    index |-> i, hash |-> HashOf(rows[Target(rows, i)]),
                    root |-> batch.root, size |-> batch.size,
                    proof |-> MerkleProof(leavesOf(rows), Target(rows, i))]
  BY DEF ReadRows
<1>3. pc' = "answered" /\ UNCHANGED <<pool, batches, used, requests, ask, batchId, batch>>
  BY DEF ReadRows, tables
<1>4. answer'.batch = b
  BY <1>2
<1>5. BuilderInv'
  BY <1>1, <1>3, <1>4 DEF BuilderInv
<1>6. ASSUME Cardinality(used[b]) = 1
      PROVE  /\ answer'.hash = pool[o][i].hash
             /\ MerkleVerify(LeafHash(o, b, i, answer'.hash), answer'.proof, answer'.root)
  <2>1. PICK u \in used[b] : used[b] = {u}
    BY <1>1, <1>6, FS_Singleton DEF IInv, BatchInv
  <2>. DEFINE first == u[2]
              hs == u[3]
  <2>2. u[1] \in Orders /\ first \in 1 .. MaxIndex /\ hs \in Hashes /\ Kept(b, u[1], first, hs)
    BY <1>1, <2>1 DEF IInv, TypeInv, BatchInv
  <2>3. Len(hs) \in Nat /\ first \in Nat \ {0}
    BY <2>2, HashesAre
  <2>. HIDE DEF first, hs
  <2>4. <<o, i>> \in RowsOf(b)
    BY <1>1, StampedIsUsed DEF IInv
  <2>5. u[1] = o /\ i \in first .. first + Len(hs) - 1
    BY <2>2, <2>4 DEF Kept
  <2>6. batch.recipient = o /\ batch.root = MerkleRoot(Leaves(o, b, first, hs))
    BY <1>1, <2>2, <2>5 DEF Kept
  <2>7. /\ rows = [k \in 1 .. Len(hs) |-> <<o, first + k - 1>>]
        /\ leavesOf(rows) = Leaves(o, b, first, hs)
    BY <1>1, <1>2, <2>2, <2>4, <2>5, <2>6, RowsAreLeaves DEF IInv
  <2>. DEFINE k == i - first + 1
  <2>8. k \in 1 .. Len(hs) /\ first + k - 1 = i
    BY <2>3, <2>5
  <2>9. Target(rows, i) = k
    <3>1. \A j \in DOMAIN rows : rows[j][2] = i <=> j = k
      BY <2>3, <2>7, <2>8
    <3>2. k \in DOMAIN rows
      BY <2>7, <2>8
    <3>3. k <= k
      BY <2>8
    <3>. HIDE DEF k
    <3>. QED BY <3>1, <3>2, <3>3 DEF Target
  <2>10. HashOf(rows[k]) = pool[o][i].hash /\ hs[k] = pool[o][i].hash
    <3>1. rows[k] = <<o, i>>
      BY <2>7, <2>8
    <3>2. pool[o][first + k - 1].hash = hs[k]
      BY <2>2, <2>5, <2>8 DEF Kept
    <3>. QED BY <2>8, <3>1, <3>2
  <2>. HIDE DEF k
  <2>. DEFINE leaves == Leaves(o, b, first, hs)
  <2>11. /\ answer'.hash = pool[o][i].hash /\ answer'.root = MerkleRoot(leaves)
         /\ answer'.proof = MerkleProof(leaves, k)
    BY <1>2, <2>6, <2>7, <2>9, <2>10
  <2>12. Len(leaves) = Len(hs) /\ leaves[k] = LeafHash(o, b, i, pool[o][i].hash)
    <3>1. Len(leaves) = Len(hs) /\ leaves[k] = LeafHash(o, b, first + k - 1, hs[k])
      BY <2>2, <2>8, LeavesAre
    <3>. QED BY <2>8, <2>10, <3>1
  <2>. HIDE DEF leaves
  <2>13. MerkleVerify(leaves[k], MerkleProof(leaves, k), MerkleRoot(leaves))
    BY <2>3, <2>8, <2>12, PathLeadsToTheRoot
  <2>. QED BY <2>11, <2>12, <2>13
<1>7. ProofVerifies'
  <2>1. b' = b /\ o' = o /\ i' = i
    BY <1>3
  <2>. QED BY <1>3, <1>4, <1>6, <2>1 DEF ProofVerifies
<1>. QED BY <1>5, <1>7

-----------------------------------------------------------------------------

(* No rows, no batches.                                                    *)
LEMMA InitKeeps == Init => IInv
<1>. SUFFICES ASSUME Init PROVE IInv
  OBVIOUS
<1>1. TypeInv
  BY DEF Init, TypeInv
<1>2. \A b \in BatchIds : RowsOf(b) = {}
  BY DEF Init, RowsOf
<1>3. BatchInv
  BY <1>2, FS_EmptySet DEF Init, BatchInv
<1>4. BuilderInv /\ ProofVerifies
  BY DEF Init, BuilderInv, ProofVerifies
<1>. QED BY <1>1, <1>3, <1>4 DEF IInv

(* Every transaction and every query keeps the invariant.                  *)
LEMMA NextKeeps == IInv /\ [Next]_vars => IInv'
<1>. SUFFICES ASSUME IInv, [Next]_vars PROVE IInv'
  OBVIOUS
<1>1. ASSUME NEW o \in Orders, NEW first \in 1 .. MaxIndex, NEW hs \in Hashes,
             NEW b \in BatchIds \union {None}, OrderNew(o, first, hs, b)
      PROVE  IInv'
  <2>1. TypeInv' /\ BatchInv'
    BY <1>1, OrderNewKeepsTypes, OrderNewKeepsBatches DEF IInv
  <2>2. BuilderInv' /\ ProofVerifies'
    BY <1>1, OrderNewKeepsBuilder
  <2>. QED BY <2>1, <2>2 DEF IInv
<1>2. ASSUME UNCHANGED tables, BuilderInv' /\ ProofVerifies' PROVE IInv'
  BY <1>2, TablesStay DEF IInv
<1>3. ASSUME NEW o \in Orders, NEW i \in 1 .. MaxIndex, ReadStamp(o, i) PROVE IInv'
  BY <1>2, <1>3, ReadStampKeeps DEF ReadStamp
<1>4. CASE ReadBatch
  BY <1>2, <1>4, ReadBatchKeeps DEF ReadBatch
<1>5. CASE ReadRows
  BY <1>2, <1>5, ReadRowsKeeps DEF ReadRows
<1>6. CASE Answered
  BY <1>2, <1>6, AnsweredKeeps DEF Answered
<1>7. CASE UNCHANGED vars
  <2>1. BuilderInv' /\ ProofVerifies' /\ UNCHANGED tables
    BY <1>7 DEF IInv, BuilderInv, ProofVerifies, vars, tables, builder
  <2>. QED BY <1>2, <2>1
<1>. QED BY <1>1, <1>3, <1>4, <1>5, <1>6, <1>7 DEF Next, BuildApayInvoiceProof

(* What the tables keep of a batch and what a request knows of it hold     *)
(* after every transaction and query, in every interleaving.               *)
THEOREM Invariance == Spec => []IInv
BY InitKeeps, NextKeeps, PTL DEF Spec

(* Every proof given out for an id that was used for one batch verifies    *)
(* against the signed root, for any number of orders, batches and hashes.  *)
THEOREM EveryProofVerifies == Spec => []ProofVerifies
<1>1. IInv => ProofVerifies
  BY DEF IInv
<1>. QED BY <1>1, Invariance, PTL

(* The batch of a stamped hash is stored, belongs to its order and has as   *)
(* many leaves as rows are stamped with its id.                             *)
THEOREM EveryBatchIsWhole == Spec => []BatchIsWhole
<1>1. ASSUME IInv PROVE BatchIsWhole
  <2>. SUFFICES ASSUME NEW o \in Orders, NEW i \in DOMAIN pool[o],
                       pool[o][i].batch # None, Cardinality(used[pool[o][i].batch]) = 1
                PROVE  LET b == pool[o][i].batch
                       IN  /\ batches[b] # <<>> /\ batches[b].recipient = o
                           /\ batches[b].size =
                                 Cardinality({j \in DOMAIN pool[o] : pool[o][j].batch = b})
    BY DEF BatchIsWhole
  <2>. DEFINE b == pool[o][i].batch
  <2>1. b = pool[o][i].batch /\ b # None /\ Cardinality(used[b]) = 1
    OBVIOUS
  <2>2. b \in BatchIds
    <3>1. pool[o][i] \in Row
      BY <1>1 DEF IInv, TypeInv
    <3>. QED BY <2>1, <3>1 DEF Row
  <2>. HIDE DEF b
  <2>3. batches[b] # <<>> /\ <<o, i>> \in RowsOf(b)
    BY <1>1, <2>1, <2>2, StampedIsUsed DEF IInv
  <2>4. PICK u \in used[b] : used[b] = {u}
    BY <1>1, <2>1, <2>2, FS_Singleton DEF IInv, BatchInv
  <2>. DEFINE first == u[2]
              hs == u[3]
  <2>5. u[1] \in Orders /\ first \in 1 .. MaxIndex /\ hs \in Hashes /\ Kept(b, u[1], first, hs)
    BY <1>1, <2>2, <2>4 DEF IInv, TypeInv, BatchInv
  <2>6. Len(hs) \in Nat \ {0} /\ first \in Nat \ {0}
    BY <2>5, HashesAre
  <2>. HIDE DEF first, hs
  <2>7. u[1] = o /\ RowsOf(b) = {o} \X (first .. first + Len(hs) - 1)
    BY <2>3, <2>5 DEF Kept
  <2>8. {j \in DOMAIN pool[o] : pool[o][j].batch = b} = first .. first + Len(hs) - 1
    <3>1. \A j : j \in DOMAIN pool[o] /\ pool[o][j].batch = b <=> <<o, j>> \in RowsOf(b)
      BY RowsOfAre
    <3>. QED BY <2>7, <3>1
  <2>9. Cardinality(first .. first + Len(hs) - 1) = Len(hs)
    <3>1. first \in Int /\ first + Len(hs) - 1 \in Int /\ ~(first > first + Len(hs) - 1)
          /\ (first + Len(hs) - 1) - first + 1 = Len(hs)
      BY <2>6
    <3>. QED BY <3>1, FS_Interval
  <2>10. batches[b].recipient = o /\ batches[b].size = Len(hs)
    BY <2>5, <2>7 DEF Kept
  <2>. QED BY <2>3, <2>8, <2>9, <2>10 DEF b
<1>. QED BY <1>1, Invariance, PTL

(* No proof of any shape verifies, against a root that is stored, a hash    *)
(* that is not in the pool of that receiver at that index: a payer cannot   *)
(* be told another hash, index or receiver than the batch was signed for.   *)
OnlyCommittedHashesVerify ==
    \A b \in BatchIds : Cardinality(used[b]) = 1 =>
        \A o, i, hash, proof :
            Len(proof) \in Nat /\ MerkleVerify(LeafHash(o, b, i, hash), proof, batches[b].root) =>
                o \in Orders /\ i \in DOMAIN pool[o] /\ pool[o][i].hash = hash

THEOREM NoOtherHashVerifies == Spec => []OnlyCommittedHashesVerify
<1>1. ASSUME IInv PROVE OnlyCommittedHashesVerify
  <2>. SUFFICES ASSUME NEW b \in BatchIds, Cardinality(used[b]) = 1,
                       NEW o, NEW i, NEW hash, NEW proof, Len(proof) \in Nat,
                       MerkleVerify(LeafHash(o, b, i, hash), proof, batches[b].root)
                PROVE  o \in Orders /\ i \in DOMAIN pool[o] /\ pool[o][i].hash = hash
    BY DEF OnlyCommittedHashesVerify
  <2>1. PICK u \in used[b] : used[b] = {u}
    BY <1>1, FS_Singleton DEF IInv, BatchInv
  <2>. DEFINE p == u[1]
              first == u[2]
              hs == u[3]
              leaves == Leaves(p, b, first, hs)
  <2>2. p \in Orders /\ first \in 1 .. MaxIndex /\ hs \in Hashes /\ Kept(b, p, first, hs)
    BY <1>1, <2>1 DEF IInv, TypeInv, BatchInv
  <2>. HIDE DEF p, first, hs
  <2>3. Len(hs) \in Nat \ {0} /\ first \in Nat \ {0}
    BY <2>2, HashesAre
  <2>4. /\ Len(leaves) = Len(hs)
        /\ \A k \in 1 .. Len(hs) : leaves[k] = LeafHash(p, b, first + k - 1, hs[k])
    BY <2>2, LeavesAre
  <2>5. batches[b].root = MerkleRoot(leaves)
    BY <2>2 DEF Kept
  <2>. HIDE DEF leaves
  <2>6. \A k \in 1 .. Len(leaves) : leaves[k][1] = "leaf"
    BY <2>4 DEF LeafHash
  <2>7. LeafHash(o, b, i, hash)[1] = "leaf"
    BY DEF LeafHash
  <2>8. PICK k \in 1 .. Len(leaves) : LeafHash(o, b, i, hash) = leaves[k]
    BY <2>3, <2>4, <2>5, <2>6, <2>7, VerifiedLeafIsCommitted
  <2>9. LeafHash(o, b, i, hash) = LeafHash(p, b, first + k - 1, hs[k])
    BY <2>4, <2>8
  <2>10. o = p /\ i = first + k - 1 /\ hash = hs[k]
    BY <2>9 DEF LeafHash
  <2>11. Highest(p) \in Nat /\ DOMAIN pool[p] = 1 .. Highest(p) /\ k \in 1 .. Len(hs)
    BY <1>1, <2>2, <2>4 DEF IInv, TypeInv, Highest
  <2>12. first + Len(hs) - 1 <= Highest(p) /\ pool[p][first + k - 1].hash = hs[k]
    BY <2>2, <2>11 DEF Kept
  <2>13. first + k - 1 \in 1 .. Highest(p)
    BY <2>3, <2>11, <2>12
  <2>. QED BY <2>2, <2>10, <2>11, <2>12, <2>13
<1>. QED BY <1>1, Invariance, PTL
=============================================================================
