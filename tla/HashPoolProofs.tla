--------------------------- MODULE HashPoolProofs ---------------------------
(***************************************************************************)
(* Proofs about HashPool, for every pool, every bound on a batch and on    *)
(* the pool, any number of concurrent requests and any number of faults.   *)
(*                                                                         *)
(* The reservation of a slot is what serializes the requests: the row of   *)
(* slot current + 1 is taken by one of them (ReqInv), and until it is      *)
(* active nobody else can reserve.  MaxIndex bounds the invoices, as each  *)
(* active one has used up an index of its own (CurrentIsBounded).          *)
(***************************************************************************)
EXTENDS HashPool, FiniteSetTheorems, TLAPS

Held(s) == row[s] \in {"reserved", "active"}

(* The pool and the order row that is a copy of it.                        *)
PoolInv ==
    /\ \A i \in Known : hashAt[i] \in PaymentHash
    /\ OrderMatchesPool
    /\ HashesAreDistinct
    /\ LiveHashesAreBounded

(* The rows of the slots and the hashes they stand for.                    *)
RowInv ==
    /\ \A s \in Slot : row[s] = "active" <=> s <= current
    /\ \A s \in Slot : row[s] # "none" => s <= current + 1
    /\ \A s \in Slot : Held(s) => rowIndex[s] \in Index
    /\ \A s \in Slot : row[s] = "reserved" => pool[rowIndex[s]] = "reserved"
    /\ \A s \in Slot : row[s] = "active" => pool[rowIndex[s]] = "consumed"
    /\ \A s, t \in Slot : Held(s) /\ Held(t) /\ rowIndex[s] = rowIndex[t] => s = t
    /\ \A i \in Index : pool[i] \in {"reserved", "consumed"} =>
                            \E s \in Slot : Held(s) /\ rowIndex[s] = i

(* The reservation a request works for is there, and there is only one.    *)
ReqInv ==
    /\ \A r \in Request : pc[r] # "idle" => slotOf[r] \in Slot /\ row[slotOf[r]] = "reserved"
    /\ \A q, r \in Request : pc[q] # "idle" /\ pc[r] # "idle" => q = r

IInv == TypeOK /\ PoolInv /\ RowInv /\ ReqInv

-----------------------------------------------------------------------------
(* Facts about the operators.                                              *)

(* The indices and the hashes known are finitely many.                     *)
LEMMA IndexFinite ==
    ASSUME NEW S \in SUBSET Index
    PROVE  IsFiniteSet(S) /\ Cardinality(S) \in Nat
<1>1. IsFiniteSet(Index)
  BY FS_Interval, ConstantsAssumption DEF Index
<1>. QED BY <1>1, FS_Subset, FS_CardinalityType

(* MAX(hash_index) of a pool without gaps.                                 *)
LEMMA HighestIsAccepted ==
    ASSUME TypeOK, AcceptedIsTheWatermark PROVE Highest = accepted
<1>1. accepted \in Nat
  BY DEF TypeOK
<1>2. CASE accepted = 0
  BY <1>1, <1>2 DEF AcceptedIsTheWatermark, Highest
<1>3. CASE accepted # 0
  <2>1. accepted \in Known /\ \A j \in Known : accepted >= j
    BY <1>1, <1>3 DEF AcceptedIsTheWatermark
  <2>2. \A i \in Known : (\A j \in Known : i >= j) => i = accepted
    BY <1>1, <2>1 DEF AcceptedIsTheWatermark
  <2>. QED BY <2>1, <2>2 DEF Highest
<1>. QED BY <1>2, <1>3

(* A batch is an interval of indices.                                      *)
LEMMA BatchIsInterval ==
    ASSUME NEW b \in Batch, FitsBatch(b)
    PROVE  \E first, last \in Index : first <= last /\ b \in [first..last -> PaymentHash]
<1>1. PICK first \in Index, last \in Index : b \in [first..last -> PaymentHash]
  BY DEF Batch
<1>2. first <= last
  BY <1>1, ConstantsAssumption DEF FitsBatch, Index
<1>. QED BY <1>1, <1>2

(* Indices with rows of their own are at least as many as the rows.        *)
LEMMA RowsAreBounded ==
    ASSUME TypeOK, RowInv, NEW n \in Nat, \A s \in 1..n : s \in Slot /\ Held(s)
    PROVE  n <= MaxIndex
<1>. DEFINE f == [s \in 1..n |-> rowIndex[s]]
<1>1. f \in [1..n -> Index]
  BY DEF RowInv
<1>2. \A s, t \in 1..n : f[s] = f[t] => s = t
  BY DEF RowInv
<1>3. IsFiniteSet(1..n) /\ Cardinality(1..n) = n
  BY FS_Interval
<1>4. IsFiniteSet(Index) /\ Cardinality(Index) = MaxIndex
  BY FS_Interval, ConstantsAssumption DEF Index
<1>. HIDE DEF f
<1>5. ~(Cardinality(Index) < Cardinality(1..n))
  BY <1>1, <1>2, <1>3, <1>4, FS_PigeonHole
<1>. QED BY <1>3, <1>4, <1>5, ConstantsAssumption

(* The reservation in progress is the slot after the last active one.      *)
LEMMA ReservedIsNext ==
    ASSUME TypeOK, RowInv, NEW s \in Slot, row[s] = "reserved"
    PROVE  s = current + 1
BY ConstantsAssumption DEF TypeOK, RowInv, Slot

(* A finalization finds an index left: no slot beyond MaxIndex is active.  *)
LEMMA CurrentIsBounded ==
    ASSUME TypeOK, RowInv, NEW s \in Slot, row[s] = "reserved"
    PROVE  s \in 0..MaxIndex
<1>1. s = current + 1 /\ current \in 0..MaxIndex /\ MaxIndex \in Nat
  BY ReservedIsNext, ConstantsAssumption DEF TypeOK
<1>2. \A t \in 1..s : t \in Slot /\ Held(t)
  BY <1>1 DEF RowInv, Held, Slot
<1>3. s <= MaxIndex
  BY <1>1, <1>2, RowsAreBounded
<1>. QED BY <1>1, <1>3

-----------------------------------------------------------------------------
(* Every action preserves the invariant.                                   *)

(* A repeated batch changes nothing: its watermark is the one there is.    *)
LEMMA RepeatBatchInv ==
    ASSUME IInv, NEW b \in Batch, RepeatBatch(b)
    PROVE  IInv'
<1>. USE DEF IInv, poolVars, rowVars, reqVars, RepeatBatch
<1>1. accepted' = accepted
  BY HighestIsAccepted DEF PoolInv, OrderMatchesPool
<1>2. order' = Refreshed(pool) /\ order' \in {"active", "exhausted"}
  BY DEF Refreshed
<1>3. TypeOK'
  BY <1>1, <1>2 DEF TypeOK
<1>4. PoolInv'
  BY <1>1, <1>2 DEF PoolInv, OrderMatchesPool, AcceptedIsTheWatermark, ExhaustedWhenEmpty,
     HashesAreDistinct, LiveHashesAreBounded, Known, Live, Refreshed, Available
<1>5. RowInv' /\ ReqInv'
  BY DEF RowInv, ReqInv, Held
<1>. QED BY <1>3, <1>4, <1>5

(* An appended batch continues the pool without a gap, with hashes that    *)
(* are new, as many as fit.                                                *)
LEMMA AppendBatchInv ==
    ASSUME IInv, NEW b \in Batch, AppendBatch(b)
    PROVE  IInv'
<1>. USE DEF IInv, rowVars, reqVars, AppendBatch, Merge
<1>1. PICK first \in Index, last \in Index : first <= last /\ b \in [first..last -> PaymentHash]
  BY BatchIsInterval
<1>2. first \in Nat /\ last \in Nat /\ first >= 1 /\ last <= MaxIndex /\ MaxIndex \in Nat
  BY ConstantsAssumption DEF Index
<1>d. DOMAIN b = first..last /\ DOMAIN b \subseteq Index
  BY <1>1, <1>2 DEF Index
<1>3. Highest = accepted /\ accepted \in Nat /\ Known = 1..accepted
  BY HighestIsAccepted DEF PoolInv, OrderMatchesPool, AcceptedIsTheWatermark, TypeOK
<1>4. first = accepted + 1
  BY <1>1, <1>2, <1>d, <1>3 DEF StartsAfterHighest
<1>5. accepted' = last
  <2>1. last \in DOMAIN b /\ \A j \in DOMAIN b : last >= j
    BY <1>1, <1>2, <1>d
  <2>2. ASSUME NEW i \in DOMAIN b, \A j \in DOMAIN b : i >= j PROVE i = last
    <3>1. i >= last /\ i \in first..last
      BY <1>d, <2>1, <2>2
    <3>. QED BY <1>2, <3>1
  <2>. QED BY <2>1, <2>2
<1>6. \A i \in Index : /\ pool'[i] = IF i \in DOMAIN b THEN "available" ELSE pool[i]
                       /\ hashAt'[i] = IF i \in DOMAIN b THEN b[i] ELSE hashAt[i]
  OBVIOUS
<1>7. Known' = Known \union DOMAIN b
  BY <1>d, <1>6 DEF Known
<1>8. TypeOK'
  <2>1. hashAt' \in [Index -> PaymentHash \union {NoHash}]
    BY <1>1, <1>d DEF TypeOK
  <2>2. pool' \in [Index -> {"absent", "available", "reserved", "consumed"}]
    BY DEF TypeOK
  <2>3. accepted' \in 0..MaxIndex
    <3>1. last \in 0..MaxIndex
      BY <1>2
    <3>. QED BY <1>5, <3>1, Zenon
  <2>4. order' \in {"none", "active", "exhausted"}
    BY DEF Refreshed
  <2>. QED BY <2>1, <2>2, <2>3, <2>4 DEF TypeOK
<1>9. AcceptedIsTheWatermark'
  <2>1. Known' = (1..accepted) \union ((accepted + 1)..last)
    BY <1>3, <1>4, <1>7, <1>d
  <2>2. accepted + 1 <= last
    BY <1>1, <1>4
  <2>3. (1..accepted) \union ((accepted + 1)..last) = 1..last
    BY <1>2, <1>3, <2>2
  <2>. QED BY <1>5, <2>1, <2>3 DEF AcceptedIsTheWatermark
<1>10. ExhaustedWhenEmpty'
  BY DEF ExhaustedWhenEmpty, Refreshed, Available
<1>11. (\A i \in Known : hashAt[i] \in PaymentHash)'
  BY <1>1, <1>d, <1>6, <1>7 DEF PoolInv, Known
<1>12. HashesAreDistinct'
  <2>. SUFFICES ASSUME NEW i \in Known', NEW j \in Known', hashAt'[i] = hashAt'[j] PROVE i = j
    BY DEF HashesAreDistinct
  <2>1. i \in Index /\ j \in Index /\ i \in Known \union DOMAIN b /\ j \in Known \union DOMAIN b
    BY <1>7 DEF Known
  <2>. QED
    BY <1>6, <2>1 DEF PoolInv, HashesAreDistinct, NoConflict, StartsAfterHighest
<1>13. LiveHashesAreBounded'
  <2>1. Live' = Live \union (DOMAIN b \ Known)
    BY <1>d, <1>6 DEF Live, Known, StartsAfterHighest
  <2>2. Live \subseteq Index /\ (DOMAIN b \ Known) \subseteq Index /\ Live \cap (DOMAIN b \ Known) = {}
    BY <1>d DEF Live, Known
  <2>3. Cardinality(Live') = Cardinality(Live) + Cardinality(DOMAIN b \ Known)
    <3>1. /\ IsFiniteSet(Live) /\ Cardinality(Live) \in Nat
          /\ IsFiniteSet(DOMAIN b \ Known) /\ Cardinality(DOMAIN b \ Known) \in Nat
      BY <2>2, IndexFinite
    <3>2. Cardinality(Live \union (DOMAIN b \ Known)) =
            Cardinality(Live) + Cardinality(DOMAIN b \ Known) - Cardinality({})
      BY <2>2, <3>1, FS_Union
    <3>. QED BY <2>1, <3>1, <3>2, FS_EmptySet
  <2>. QED BY <2>3 DEF LiveHashesAreBounded, FitsPool
<1>14. RowInv'
  <2>1. \A i \in DOMAIN b : pool[i] = "absent"
    BY <1>d DEF StartsAfterHighest, Known
  <2>. QED BY <1>6, <2>1 DEF RowInv, Held
<1>15. ReqInv'
  BY DEF ReqInv
<1>. QED BY <1>8, <1>9, <1>10, <1>11, <1>12, <1>13, <1>14, <1>15 DEF PoolInv, OrderMatchesPool
(* A reservation takes an available hash and the next slot, which no       *)
(* request had.                                                            *)
LEMMA ReserveInv ==
    ASSUME IInv, NEW r \in Request, Reserve(r)
    PROVE  IInv'
<1>. USE DEF IInv, Reserve
<1>1. PICK i \in Index : /\ FirstAvailable(i)
                         /\ pool' = [pool EXCEPT ![i] = "reserved"]
                         /\ rowIndex' = [rowIndex EXCEPT ![NextSlot] = i]
  OBVIOUS
<1>2. pool[i] = "available" /\ i \in 0..MaxIndex
  BY <1>1 DEF FirstAvailable, Available, Index
<1>3. NextSlot \in Slot /\ NextSlot = current + 1 /\ current \in Nat /\ NextSlot \in 0..(MaxIndex + 1)
  BY ConstantsAssumption DEF TypeOK, NextSlot, Slot
<1>4. \A j \in Index : pool'[j] = IF j = i THEN "reserved" ELSE pool[j]
  BY <1>1 DEF TypeOK
<1>5. \A s \in Slot : /\ row'[s] = IF s = NextSlot THEN "reserved" ELSE row[s]
                      /\ rowIndex'[s] = IF s = NextSlot THEN i ELSE rowIndex[s]
  BY <1>1, <1>3 DEF TypeOK
<1>6. TypeOK'
  <2>1. pool' \in [Index -> {"absent", "available", "reserved", "consumed"}]
    BY <1>1 DEF TypeOK
  <2>2. row' \in [Slot -> {"none", "reserved", "active", "failed"}] /\ rowIndex' \in [Slot -> 0..MaxIndex]
    BY <1>1, <1>2 DEF TypeOK
  <2>3. pc' \in [Request -> {"idle", "hodl", "finalize", "release"}]
    BY DEF TypeOK
  <2>4. slotOf' \in [Request -> 0..(MaxIndex + 1)]
    BY <1>3 DEF TypeOK
  <2>. QED BY <2>1, <2>2, <2>3, <2>4 DEF TypeOK, Refreshed
<1>7. PoolInv'
  <2>1. Known' = Known /\ Live' = Live
    BY <1>2, <1>4 DEF Known, Live
  <2>. QED
    BY <2>1 DEF PoolInv, OrderMatchesPool, AcceptedIsTheWatermark, ExhaustedWhenEmpty, Refreshed,
       Available, HashesAreDistinct, LiveHashesAreBounded
<1>8. RowInv'
  <2>0. row[NextSlot] = "none"
    BY DEF InsertsRow
  <2>1. \A s \in Slot : Held(s)' <=> s = NextSlot \/ Held(s)
    BY <1>5 DEF Held
  <2>2. \A s \in Slot : Held(s) => rowIndex[s] # i
    BY <1>2 DEF RowInv, Held
  <2>3. \A s \in Slot : row'[s] # "none" => s <= current + 1
    BY <1>3, <1>5 DEF RowInv
  <2>4. \A s \in Slot : row'[s] = "active" <=> s <= current
    BY <1>3, <1>5, <2>0 DEF RowInv
  <2>5. \A s \in Slot : Held(s)' => rowIndex'[s] \in Index
    BY <1>5, <2>1 DEF RowInv
  <2>6. \A s \in Slot : row'[s] = "reserved" => pool'[rowIndex'[s]] = "reserved"
    BY <1>4, <1>5, <2>2 DEF RowInv, Held
  <2>7. \A s \in Slot : row'[s] = "active" => pool'[rowIndex'[s]] = "consumed"
    BY <1>4, <1>5, <2>2 DEF RowInv, Held
  <2>8. \A s, t \in Slot : Held(s)' /\ Held(t)' /\ rowIndex'[s] = rowIndex'[t] => s = t
    BY <1>5, <2>1, <2>2 DEF RowInv
  <2>9. \A j \in Index : pool'[j] \in {"reserved", "consumed"} =>
                             \E s \in Slot : Held(s)' /\ rowIndex'[s] = j
    <3>. SUFFICES ASSUME NEW j \in Index, pool'[j] \in {"reserved", "consumed"}
                  PROVE  \E s \in Slot : Held(s)' /\ rowIndex'[s] = j
      OBVIOUS
    <3>1. CASE j = i
      BY <1>3, <1>5, <2>1, <3>1
    <3>2. CASE j # i
      <4>1. PICK s \in Slot : Held(s) /\ rowIndex[s] = j
        BY <1>4, <3>2 DEF RowInv
      <4>2. s # NextSlot
        BY <2>0, <4>1 DEF Held
      <4>. QED BY <1>5, <2>1, <4>1, <4>2
    <3>. QED BY <3>1, <3>2
  <2>. QED BY <2>3, <2>4, <2>5, <2>6, <2>7, <2>8, <2>9 DEF RowInv
<1>9. ReqInv'
  <2>1. \A q \in Request : pc[q] = "idle"
    BY <1>3, ReservedIsNext DEF ReqInv, InsertsRow
  <2>. QED BY <1>3, <1>5, <2>1 DEF ReqInv, TypeOK
<1>. QED BY <1>6, <1>7, <1>8, <1>9

(* A step of a request that leaves the tables alone and answers nothing    *)
(* new.                                                                    *)
LEMMA TablesSame ==
    ASSUME IInv, UNCHANGED <<poolVars, order, rowVars>>
    PROVE  PoolInv' /\ RowInv'
<1>. USE DEF IInv, poolVars, rowVars
<1>1. PoolInv'
  BY DEF PoolInv, OrderMatchesPool, AcceptedIsTheWatermark, ExhaustedWhenEmpty, Refreshed,
     Available, HashesAreDistinct, LiveHashesAreBounded, Known, Live
<1>2. RowInv'
  BY DEF RowInv, Held
<1>. QED BY <1>1, <1>2

(* The node gives the invoice.                                             *)
LEMMA RequestHodlInvoiceInv ==
    ASSUME IInv, NEW r \in Request, RequestHodlInvoice(r)
    PROVE  IInv'
<1>. USE DEF IInv, poolVars, rowVars, RequestHodlInvoice, Goto
<1>1. HashOf(r) \in PaymentHash
  BY DEF HashOf, PoolInv, RowInv, ReqInv, Held, Known
<1>2. TypeOK'
  BY <1>1 DEF TypeOK
<1>3. ReqInv'
  BY DEF ReqInv, TypeOK
<1>. QED BY <1>2, <1>3, TablesSame

(* The node does not give it, or gives it and the answer is lost.          *)
LEMMA HodlInvoiceFailsInv ==
    ASSUME IInv, NEW r \in Request, HodlInvoiceFails(r)
    PROVE  IInv'
<1>. USE DEF IInv, poolVars, rowVars, HodlInvoiceFails, Goto
<1>1. HashOf(r) \in PaymentHash
  BY DEF HashOf, PoolInv, RowInv, ReqInv, Held, Known
<1>2. TypeOK'
  BY <1>1, ConstantsAssumption DEF TypeOK, Fault
<1>3. ReqInv'
  BY DEF ReqInv, TypeOK
<1>. QED BY <1>2, <1>3, TablesSame

(* What Finalize and Release find: the reservation of the request is the   *)
(* one that is open.                                                       *)
LEMMA ReservationFound ==
    ASSUME IInv, NEW r \in Request, pc[r] # "idle"
    PROVE  /\ slotOf[r] \in Slot /\ row[slotOf[r]] = "reserved"
           /\ slotOf[r] = current + 1 /\ slotOf[r] \in 0..MaxIndex
           /\ rowIndex[slotOf[r]] \in Index /\ pool[rowIndex[slotOf[r]]] = "reserved"
           /\ \A s \in Slot : Held(s) /\ s # slotOf[r] => rowIndex[s] # rowIndex[slotOf[r]]
           /\ \A q \in Request : pc[q] # "idle" => q = r
<1>1. slotOf[r] \in Slot /\ row[slotOf[r]] = "reserved" /\ \A q \in Request : pc[q] # "idle" => q = r
  BY DEF IInv, ReqInv
<1>2. Held(slotOf[r])
  BY <1>1 DEF Held
<1>. QED BY <1>1, <1>2, ReservedIsNext, CurrentIsBounded DEF IInv, RowInv

(* The slot becomes active and its hash consumed, together.                *)
LEMMA FinalizeInv ==
    ASSUME IInv, NEW r \in Request, Finalize(r)
    PROVE  IInv'
<1>. USE DEF IInv, Finalize, Answer
<1>. DEFINE slot == slotOf[r]
            index == rowIndex[slotOf[r]]
<1>1. /\ slot \in Slot /\ row[slot] = "reserved" /\ slot = current + 1 /\ slot \in 0..MaxIndex
      /\ index \in Index /\ pool[index] = "reserved"
      /\ \A s \in Slot : Held(s) /\ s # slot => rowIndex[s] # index
      /\ \A q \in Request : pc[q] # "idle" => q = r
  BY ReservationFound
<1>2. \A j \in Index : pool'[j] = IF j = index THEN "consumed" ELSE pool[j]
  BY <1>1 DEF TypeOK
<1>3. \A s \in Slot : row'[s] = IF s = slot THEN "active" ELSE row[s]
  BY <1>1 DEF TypeOK
<1>4. TypeOK'
  <2>1. pool' \in [Index -> {"absent", "available", "reserved", "consumed"}]
    BY DEF TypeOK
  <2>2. row' \in [Slot -> {"none", "reserved", "active", "failed"}]
    BY DEF TypeOK
  <2>3. pc' \in [Request -> {"idle", "hodl", "finalize", "release"}]
    BY DEF TypeOK
  <2>4. slotOf' \in [Request -> 0..(MaxIndex + 1)]
    BY ConstantsAssumption DEF TypeOK
  <2>5. order' \in {"none", "active", "exhausted"}
    BY DEF Refreshed
  <2>. QED BY <1>1, <2>1, <2>2, <2>3, <2>4, <2>5 DEF TypeOK
<1>5. PoolInv'
  <2>1. Known' = Known /\ Live' \subseteq Live
    BY <1>1, <1>2 DEF Known, Live
  <2>2. Live \subseteq Index /\ Live' \subseteq Index
    BY DEF Live
  <2>3. Cardinality(Live') <= Cardinality(Live)
    BY <2>1, <2>2, IndexFinite, FS_Subset
  <2>4. LiveHashesAreBounded'
    BY <2>2, <2>3, IndexFinite, ConstantsAssumption DEF PoolInv, LiveHashesAreBounded
  <2>. QED
    BY <2>1, <2>4 DEF PoolInv, OrderMatchesPool, AcceptedIsTheWatermark, ExhaustedWhenEmpty,
       Refreshed, Available, HashesAreDistinct
<1>6. RowInv'
  <2>1. \A s \in Slot : Held(s)' <=> Held(s)
    BY <1>1, <1>3 DEF Held
  <2>2. \A s \in Slot : (row'[s] = "active" <=> s <= current')
    BY <1>1, <1>3, ConstantsAssumption DEF RowInv, TypeOK, Slot
  <2>3. \A s \in Slot : row'[s] # "none" => s <= current' + 1
    BY <1>1, <1>3, ConstantsAssumption DEF RowInv, TypeOK, Slot
  <2>4. \A s \in Slot : row'[s] = "reserved" => pool'[rowIndex'[s]] = "reserved"
    BY <1>1, <1>2, <1>3 DEF RowInv, Held
  <2>5. \A s \in Slot : row'[s] = "active" => pool'[rowIndex'[s]] = "consumed"
    BY <1>1, <1>2, <1>3 DEF RowInv, Held
  <2>6. \A i \in Index : pool'[i] \in {"reserved", "consumed"} =>
                             \E s \in Slot : Held(s) /\ rowIndex[s] = i
    BY <1>1, <1>2 DEF RowInv
  <2>. QED BY <2>1, <2>2, <2>3, <2>4, <2>5, <2>6 DEF RowInv
<1>7. ReqInv'
  BY <1>1 DEF ReqInv, TypeOK
<1>. QED BY <1>4, <1>5, <1>6, <1>7

(* The hash is available again; the row keeps its slot.                    *)
LEMMA ReleaseInv ==
    ASSUME IInv, NEW r \in Request, Release(r)
    PROVE  IInv'
<1>. USE DEF IInv, Release, Answer
<1>. DEFINE slot == slotOf[r]
            index == rowIndex[slotOf[r]]
<1>1. /\ slot \in Slot /\ row[slot] = "reserved" /\ slot = current + 1 /\ slot \in 0..MaxIndex
      /\ index \in Index /\ pool[index] = "reserved"
      /\ \A s \in Slot : Held(s) /\ s # slot => rowIndex[s] # index
      /\ \A q \in Request : pc[q] # "idle" => q = r
  BY ReservationFound
<1>2. \A j \in Index : pool'[j] = IF j = index THEN "available" ELSE pool[j]
  BY <1>1 DEF TypeOK
<1>3. \A s \in Slot : row'[s] = IF s = slot THEN "failed" ELSE row[s]
  BY <1>1 DEF TypeOK
<1>4. TypeOK'
  <2>1. pool' \in [Index -> {"absent", "available", "reserved", "consumed"}]
    BY DEF TypeOK
  <2>2. row' \in [Slot -> {"none", "reserved", "active", "failed"}]
    BY DEF TypeOK
  <2>3. pc' \in [Request -> {"idle", "hodl", "finalize", "release"}]
    BY DEF TypeOK
  <2>4. slotOf' \in [Request -> 0..(MaxIndex + 1)]
    BY ConstantsAssumption DEF TypeOK
  <2>5. order' \in {"none", "active", "exhausted"}
    BY DEF Refreshed
  <2>. QED BY <1>1, <2>1, <2>2, <2>3, <2>4, <2>5 DEF TypeOK
<1>5. PoolInv'
  <2>1. Known' = Known /\ Live' = Live
    BY <1>1, <1>2 DEF Known, Live
  <2>. QED
    BY <2>1 DEF PoolInv, OrderMatchesPool, AcceptedIsTheWatermark, ExhaustedWhenEmpty, Refreshed,
       Available, HashesAreDistinct, LiveHashesAreBounded
<1>6. RowInv'
  <2>1. \A s \in Slot : Held(s)' <=> Held(s) /\ s # slot
    BY <1>1, <1>3 DEF Held
  <2>2. \A s \in Slot : row'[s] = "active" <=> s <= current
    BY <1>1, <1>3 DEF RowInv
  <2>3. \A s \in Slot : row'[s] # "none" => s <= current + 1
    BY <1>1, <1>3 DEF RowInv
  <2>4. \A s \in Slot : row'[s] = "reserved" => pool'[rowIndex'[s]] = "reserved"
    BY <1>1, <1>2, <1>3 DEF RowInv, Held
  <2>5. \A s \in Slot : row'[s] = "active" => pool'[rowIndex'[s]] = "consumed"
    BY <1>1, <1>2, <1>3 DEF RowInv, Held
  <2>6. ASSUME NEW i \in Index, pool'[i] \in {"reserved", "consumed"}
        PROVE  \E s \in Slot : Held(s)' /\ rowIndex'[s] = i
    <3>1. i # index /\ pool[i] \in {"reserved", "consumed"}
      BY <1>2, <2>6
    <3>2. PICK s \in Slot : Held(s) /\ rowIndex[s] = i
      BY <3>1 DEF RowInv
    <3>. QED BY <2>1, <3>1, <3>2
  <2>. QED BY <2>1, <2>2, <2>3, <2>4, <2>5, <2>6 DEF RowInv
<1>7. ReqInv'
  BY <1>1 DEF ReqInv, TypeOK
<1>. QED BY <1>4, <1>5, <1>6, <1>7

(* A request gives up and leaves its reservation behind.                   *)
LEMMA TransactionFailsInv ==
    ASSUME IInv, NEW r \in Request, TransactionFails(r)
    PROVE  IInv'
<1>. USE DEF IInv, poolVars, rowVars, TransactionFails, Answer
<1>1. TypeOK'
  BY ConstantsAssumption DEF TypeOK, Fault
<1>2. ReqInv'
  BY DEF ReqInv, TypeOK
<1>. QED BY <1>1, <1>2, TablesSame

(* A restart leaves all of them behind.                                    *)
LEMMA RestartInv ==
    ASSUME IInv, Restart
    PROVE  IInv'
<1>. USE DEF IInv, poolVars, rowVars, Restart
<1>1. TypeOK'
  BY ConstantsAssumption DEF TypeOK, Fault
<1>2. ReqInv'
  BY DEF ReqInv, TypeOK
<1>. QED BY <1>1, <1>2, TablesSame

-----------------------------------------------------------------------------
(* The invariant.                                                          *)

(* The empty database satisfies it.                                        *)
LEMMA InitInv == Init => IInv
<1>. SUFFICES ASSUME Init PROVE IInv
  OBVIOUS
<1>. USE DEF Init
<1>1. TypeOK
  BY ConstantsAssumption DEF TypeOK
<1>2. Known = {} /\ Live = {}
  BY DEF Known, Live
<1>3. PoolInv
  BY <1>2, FS_EmptySet, ConstantsAssumption DEF PoolInv, OrderMatchesPool,
     AcceptedIsTheWatermark, ExhaustedWhenEmpty, HashesAreDistinct, LiveHashesAreBounded
<1>4. RowInv /\ ReqInv
  BY ConstantsAssumption DEF RowInv, ReqInv, Held, Slot
<1>. QED BY <1>1, <1>3, <1>4 DEF IInv

(* Every step preserves it, by the lemmas about the actions.               *)
LEMMA NextInv == IInv /\ [Next]_vars => IInv'
<1>. SUFFICES ASSUME IInv, [Next]_vars PROVE IInv'
  OBVIOUS
<1>1. CASE UNCHANGED vars
  BY <1>1, TablesSame DEF IInv, TypeOK, ReqInv, vars, poolVars, rowVars, reqVars
<1>2. ASSUME NEW r \in Request, Callback(r) PROVE IInv'
  BY <1>2, ReserveInv, RequestHodlInvoiceInv, HodlInvoiceFailsInv, FinalizeInv, ReleaseInv,
     TransactionFailsInv DEF Callback
<1>. QED BY <1>1, <1>2, RepeatBatchInv, AppendBatchInv, RestartInv DEF Next

(* The invariant holds in every reachable state.                           *)
THEOREM Invariance == Spec => []IInv
BY InitInv, NextInv, PTL DEF Spec

(* Every variable keeps its type; no index but MaxIndex bounds the slots. *)
THEOREM TypeCorrect == Spec => []TypeOK
BY Invariance, PTL DEF IInv

(* No payment hash is in the pool twice. *)
THEOREM HashesDiffer == Spec => []HashesAreDistinct
BY Invariance, PTL DEF IInv, PoolInv

(* The order row says what the pool holds. *)
THEOREM OrderIsRight == Spec => []OrderMatchesPool
BY Invariance, PTL DEF IInv, PoolInv

(* The pool stays within asyncHashPoolMaxSize. *)
THEOREM PoolIsBounded == Spec => []LiveHashesAreBounded
BY Invariance, PTL DEF IInv, PoolInv

(* One row for a reserved or consumed hash, none for an available one. *)
THEOREM PoolIsConsistent == Spec => []PoolMatchesInvoices
<1>1. ASSUME IInv, NEW i \in Known
      PROVE  Cardinality({s \in Slot : rowIndex[s] = i /\ row[s] \in {"reserved", "active"}})
                 = IF pool[i] = "available" THEN 0 ELSE 1
  <2>. DEFINE R == {s \in Slot : rowIndex[s] = i /\ row[s] \in {"reserved", "active"}}
  <2>1. CASE pool[i] = "available"
    <3>1. R = {}
      BY <1>1, <2>1 DEF IInv, RowInv
    <3>. QED BY <2>1, <3>1, FS_EmptySet
  <2>2. CASE pool[i] # "available"
    <3>1. pool[i] \in {"reserved", "consumed"} /\ i \in Index
      BY <1>1, <2>2 DEF IInv, TypeOK, Known
    <3>2. PICK s \in Slot : Held(s) /\ rowIndex[s] = i
      BY <1>1, <3>1 DEF IInv, RowInv
    <3>3. R = {s}
      BY <1>1, <3>2 DEF IInv, RowInv, Held
    <3>. QED BY <2>2, <3>3, FS_Singleton
  <2>. QED BY <2>1, <2>2
<1>2. IInv => PoolMatchesInvoices
  BY <1>1 DEF PoolMatchesInvoices
<1>. QED BY <1>2, Invariance, PTL

(* Slots are finalized one after the other, without a gap. *)
THEOREM SlotsInOrder == Spec => []SlotsAreFinalizedInOrder
<1>1. IInv => SlotsAreFinalizedInOrder
  <2>. SUFFICES ASSUME IInv PROVE SlotsAreFinalizedInOrder
    OBVIOUS
  <2>1. current \in 0..MaxIndex /\ MaxIndex \in Nat
    BY ConstantsAssumption DEF IInv, TypeOK
  <2>2. {s \in Slot : row[s] = "active"} = 1..current
    BY <2>1 DEF IInv, RowInv, Slot
  <2>3. {s \in Slot : row[s] # "none"} \subseteq 1..NextSlot
    BY <2>1 DEF IInv, RowInv, Slot, NextSlot
  <2>. QED BY <2>2, <2>3 DEF SlotsAreFinalizedInOrder
<1>. QED BY <1>1, Invariance, PTL

(* An index that is known keeps its hash, and a consumed one its status.   *)
Kept(i) ==
    /\ hashAt'[i] = hashAt[i]
    /\ pool'[i] # "absent"
    /\ pool[i] = "consumed" => pool'[i] = "consumed"

(* What an index was accepted with stays; a consumed hash stays consumed. *)
THEOREM AcceptedIsKept == Spec => AcceptedStays
<1>1. ASSUME IInv, [Next]_vars, NEW i \in Known
      PROVE  Kept(i)
  <2>0. i \in Index /\ pool[i] # "absent"
    BY DEF Known
  <2>1. CASE UNCHANGED <<hashAt, pool>>
    BY <2>0, <2>1 DEF Kept
  <2>2. ASSUME NEW b \in Batch, AppendBatch(b) PROVE Kept(i)
    BY <2>0, <2>2 DEF AppendBatch, Merge, StartsAfterHighest, Kept
  <2>3. ASSUME NEW r \in Request, Reserve(r) PROVE Kept(i)
    <3>1. PICK j \in Index : pool[j] = "available" /\ pool' = [pool EXCEPT ![j] = "reserved"]
      BY <2>3 DEF Reserve, FirstAvailable, Available
    <3>2. hashAt' = hashAt
      BY <2>3 DEF Reserve
    <3>. QED BY <1>1, <2>0, <3>1, <3>2 DEF IInv, TypeOK, Kept
  <2>4. ASSUME NEW r \in Request, Finalize(r) \/ Release(r) PROVE Kept(i)
    <3>1. pc[r] # "idle" /\ hashAt' = hashAt
      BY <2>4 DEF Finalize, Release
    <3>2. rowIndex[slotOf[r]] \in Index /\ pool[rowIndex[slotOf[r]]] = "reserved"
      BY <1>1, <3>1, ReservationFound
    <3>3. PICK to \in {"available", "consumed"} : pool' = [pool EXCEPT ![rowIndex[slotOf[r]]] = to]
      BY <2>4 DEF Finalize, Release
    <3>. QED BY <1>1, <2>0, <3>1, <3>2, <3>3 DEF IInv, TypeOK, Kept
  <2>5. CASE UNCHANGED vars
    BY <2>1, <2>5 DEF vars, poolVars
  <2>6. ASSUME NEW b \in Batch, RepeatBatch(b) PROVE Kept(i)
    BY <2>1, <2>6 DEF RepeatBatch
  <2>7. ASSUME NEW r \in Request, Callback(r) PROVE Kept(i)
    BY <2>1, <2>3, <2>4, <2>7
       DEF Callback, RequestHodlInvoice, HodlInvoiceFails, TransactionFails, poolVars
  <2>8. CASE Restart
    BY <2>1, <2>8 DEF Restart, poolVars
  <2>. QED BY <1>1, <2>2, <2>5, <2>6, <2>7, <2>8 DEF Next
<1>2. IInv /\ [Next]_vars =>
        [\A i \in Known :
            /\ hashAt'[i] = hashAt[i]
            /\ pool'[i] # "absent"
            /\ pool[i] = "consumed" => pool'[i] = "consumed"]_vars
  BY <1>1 DEF Kept
<1>. QED BY <1>2, Invariance, PTL DEF Spec, AcceptedStays
-----------------------------------------------------------------------------
(* What is true of ActiveOrderIsPayable, which does not hold: the order     *)
(* stays payable until a call fails or the process stops, and from the      *)
(* first invoice that is given up it never is again.                        *)

(* Without a fault every reservation is worked for, none is released, and   *)
(* the node has no invoice for a hash that is still to be given out.        *)
FaultFree ==
    faults = 0 =>
        /\ \A s \in Slot : row[s] # "failed"
        /\ \A s \in Slot : row[s] = "reserved" => \E r \in Request : pc[r] # "idle" /\ slotOf[r] = s
        /\ \A r \in Request : pc[r] # "release"
        /\ hodl \subseteq {hashAt[i] : i \in Known}
        /\ \A i \in Known : hashAt[i] \in hodl =>
              \/ pool[i] = "consumed"
              \/ \E r \in Request : pc[r] = "finalize" /\ rowIndex[slotOf[r]] = i

(* The node refuses no invoice without a fault: the hash is a new one.      *)
LEMMA HashIsFresh ==
    ASSUME IInv, FaultFree, faults = 0, NEW r \in Request, pc[r] = "hodl"
    PROVE  HashOf(r) \notin hodl
<1>. DEFINE i == rowIndex[slotOf[r]]
<1>1. i \in Known /\ pool[i] = "reserved" /\ \A q \in Request : pc[q] # "idle" => q = r
  BY ReservationFound DEF Known
<1>. QED BY <1>1 DEF FaultFree, HashOf

(* A batch brings hashes that no index had.                                 *)
LEMMA AppendBatchFaultFree ==
    ASSUME IInv, FaultFree, faults = 0, NEW b \in Batch, AppendBatch(b)
    PROVE  FaultFree'
<1>1. PICK first \in Index, last \in Index : b \in [first..last -> PaymentHash]
  BY DEF Batch
<1>2. \A i \in DOMAIN b : pool[i] = "absent" \/ i \notin Index
  BY DEF AppendBatch, StartsAfterHighest, Known
<1>3. DOMAIN b \subseteq Index
  BY <1>1, ConstantsAssumption DEF Index
<1>4. \A i \in Known : i \in Known' /\ hashAt'[i] = hashAt[i] /\ pool'[i] = pool[i]
  BY <1>2 DEF AppendBatch, Merge, Known
<1>5. \A i \in Known' \ Known : i \in DOMAIN b /\ hashAt'[i] = b[i]
  BY DEF AppendBatch, Merge, Known
<1>6. \A i \in DOMAIN b : b[i] \notin hodl
  BY <1>2, <1>3 DEF AppendBatch, NoConflict, FaultFree, Known
<1>7. hodl' = hodl /\ UNCHANGED <<row, rowIndex, pc, slotOf>>
  BY DEF AppendBatch, rowVars, reqVars
<1>. QED BY <1>4, <1>5, <1>6, <1>7 DEF FaultFree

(* A reservation is worked for by the request that made it; the hash it     *)
(* takes was available.                                                     *)
LEMMA ReserveFaultFree ==
    ASSUME IInv, FaultFree, faults = 0, NEW r \in Request, Reserve(r)
    PROVE  FaultFree'
<1>1. PICK i \in Index : /\ FirstAvailable(i)
                         /\ pool' = [pool EXCEPT ![i] = "reserved"]
                         /\ rowIndex' = [rowIndex EXCEPT ![NextSlot] = i]
  BY DEF Reserve
<1>2. pool[i] = "available" /\ Known' = Known /\ UNCHANGED <<hashAt, hodl>>
  BY <1>1 DEF FirstAvailable, Available, Known, Reserve, IInv, TypeOK
<1>3. NextSlot \in Slot /\ row[NextSlot] = "none"
  BY ConstantsAssumption DEF IInv, TypeOK, NextSlot, Slot, Reserve, InsertsRow
<1>4. \A q \in Request : pc[q] = "idle"
  BY <1>3, ReservedIsNext, ConstantsAssumption DEF IInv, TypeOK, ReqInv, NextSlot
<1>5. /\ row' = [row EXCEPT ![NextSlot] = "reserved"]
      /\ pc' = [pc EXCEPT ![r] = "hodl"] /\ slotOf' = [slotOf EXCEPT ![r] = NextSlot]
  BY DEF Reserve
<1>6. \A s \in Slot : row'[s] # "failed" /\ (row'[s] = "reserved" => s = NextSlot)
  BY <1>4, <1>5 DEF FaultFree, IInv, TypeOK
<1>7. pc'[r] = "hodl" /\ slotOf'[r] = NextSlot /\ \A q \in Request : q # r => pc'[q] = "idle"
  BY <1>4, <1>5 DEF IInv, TypeOK
<1>8. \A k \in Known : hashAt[k] \in hodl => pool'[k] = "consumed"
  BY <1>1, <1>2, <1>4 DEF FaultFree, IInv, TypeOK, Known
<1>. QED BY <1>2, <1>6, <1>7, <1>8 DEF FaultFree

(* The invoice is the reservation's, until it is finalized.                 *)
LEMMA RequestHodlInvoiceFaultFree ==
    ASSUME IInv, FaultFree, faults = 0, NEW r \in Request, RequestHodlInvoice(r)
    PROVE  FaultFree'
<1>. DEFINE i == rowIndex[slotOf[r]]
<1>1. pc[r] = "hodl" /\ i \in Known
  BY ReservationFound DEF RequestHodlInvoice, Known
<1>2. hodl' = hodl \union {hashAt[i]} /\ pc' = [pc EXCEPT ![r] = "finalize"]
  BY DEF RequestHodlInvoice, Goto, HashOf
<1>3. UNCHANGED <<hashAt, pool, row, rowIndex, slotOf>> /\ Known' = Known
  BY DEF RequestHodlInvoice, Goto, poolVars, rowVars, Known
<1>4. pc'[r] = "finalize" /\ \A q \in Request : q # r => pc'[q] = pc[q]
  BY <1>2 DEF IInv, TypeOK
<1>5. \A k \in Known : hashAt[k] = hashAt[i] => k = i
  BY <1>1 DEF IInv, PoolInv, HashesAreDistinct
<1>. QED BY <1>1, <1>2, <1>3, <1>4, <1>5 DEF FaultFree

(* A finalized hash is consumed, and its reservation gone with its request. *)
LEMMA FinalizeFaultFree ==
    ASSUME IInv, FaultFree, faults = 0, NEW r \in Request, Finalize(r)
    PROVE  FaultFree'
<1>. DEFINE i == rowIndex[slotOf[r]]
<1>1. /\ slotOf[r] \in Slot /\ i \in Known /\ pool[i] = "reserved"
      /\ slotOf[r] = current + 1
      /\ \A q \in Request : pc[q] # "idle" => q = r
  BY ReservationFound DEF Finalize, Known
<1>2. /\ pool' = [pool EXCEPT ![i] = "consumed"] /\ row' = [row EXCEPT ![slotOf[r]] = "active"]
      /\ UNCHANGED <<hashAt, rowIndex, hodl>>
      /\ pc' = [pc EXCEPT ![r] = "idle"]
  BY DEF Finalize, Answer
<1>3. Known' = Known /\ \A k \in Known : pool'[k] = IF k = i THEN "consumed" ELSE pool[k]
  BY <1>1, <1>2 DEF Known, IInv, TypeOK
<1>4. \A s \in Slot : row'[s] # "failed" /\ row'[s] # "reserved"
  BY <1>1, <1>2, ReservedIsNext DEF FaultFree, IInv, TypeOK
<1>5. \A q \in Request : pc'[q] = "idle"
  BY <1>1, <1>2 DEF IInv, TypeOK
<1>. QED BY <1>1, <1>2, <1>3, <1>4, <1>5 DEF FaultFree

(* Every step preserves it.                                                 *)
LEMMA NextFaultFree ==
    ASSUME IInv, FaultFree, [Next]_vars
    PROVE  FaultFree'
<1>. SUFFICES ASSUME faults' = 0 PROVE FaultFree'
  BY DEF FaultFree
<1>1. faults \in Nat
  BY ConstantsAssumption DEF IInv, TypeOK
<1>2. ~Fault
  BY <1>1 DEF Fault
<1>3. CASE UNCHANGED vars
  BY <1>3 DEF vars, poolVars, rowVars, reqVars, FaultFree, Known
<1>4. ASSUME NEW b \in Batch, RepeatBatch(b) \/ AppendBatch(b) PROVE FaultFree'
  <2>1. CASE RepeatBatch(b)
    BY <2>1 DEF RepeatBatch, rowVars, reqVars, FaultFree, Known
  <2>2. CASE AppendBatch(b)
    BY <2>2, AppendBatchFaultFree DEF AppendBatch
  <2>. QED BY <1>4, <2>1, <2>2
<1>5. ASSUME NEW r \in Request, Callback(r) PROVE FaultFree'
  <2>1. faults = 0
    BY <1>2, <1>5 DEF Callback, Reserve, RequestHodlInvoice, HodlInvoiceFails, Finalize, Release,
       TransactionFails
  <2>2. ~HodlInvoiceFails(r)
    BY <1>2, <2>1, HashIsFresh DEF HodlInvoiceFails
  <2>3. ~Release(r) /\ ~TransactionFails(r)
    BY <1>2, <2>1 DEF Release, TransactionFails, FaultFree
  <2>. QED
    BY <1>5, <2>1, <2>2, <2>3, ReserveFaultFree, RequestHodlInvoiceFaultFree, FinalizeFaultFree
       DEF Callback
<1>6. ~Restart
  BY <1>2 DEF Restart
<1>. QED BY <1>3, <1>4, <1>5, <1>6 DEF Next

(* No call has failed and the process has not stopped: an order that says   *)
(* active, with no request in progress, gives an invoice for the next one.  *)
THEOREM PayableWithoutFault == Spec => [](faults = 0 => ActiveOrderIsPayable)
<1>1. Init => FaultFree
  BY ConstantsAssumption DEF Init, FaultFree, Known
<1>2. IInv /\ FaultFree /\ faults = 0 => ActiveOrderIsPayable
  <2>. SUFFICES ASSUME IInv, FaultFree, faults = 0, \A r \in Request : pc[r] = "idle"
                PROVE  InsertsRow(NextSlot)
    BY DEF ActiveOrderIsPayable
  <2>1. NextSlot \in Slot /\ ~(NextSlot <= current)
    BY ConstantsAssumption DEF IInv, TypeOK, NextSlot, Slot
  <2>2. row[NextSlot] \notin {"failed", "reserved", "active"}
    BY <2>1 DEF IInv, RowInv, FaultFree
  <2>. QED BY <2>1, <2>2 DEF IInv, TypeOK, InsertsRow
<1>. QED BY <1>1, <1>2, NextFaultFree, Invariance, PTL DEF Spec

(* Every request has been answered, and the row in the way of the next one  *)
(* (UNIQUE(order_id, invoice_slot)) belongs to nobody.                      *)
Blocked == ~InsertsRow(NextSlot) /\ \A r \in Request : pc[r] = "idle"

(* A request ends and has not finalized an invoice.                         *)
GivesUp == current' = current /\ \E r \in Request : pc[r] # "idle" /\ pc'[r] = "idle"

(* An invoice that is given up, because the node refused it, a transaction  *)
(* failed or the process stopped, is the last one of its order: no batch,   *)
(* restart or later request makes the next slot free.                       *)
THEOREM NoSecondChance == Spec => [][GivesUp \/ Blocked => Blocked']_vars
<1>1. ASSUME IInv, [Next]_vars, GivesUp PROVE Blocked'
  <2>1. PICK r \in Request : pc[r] # "idle" /\ pc'[r] = "idle"
    BY <1>1 DEF GivesUp
  <2>2. /\ slotOf[r] = NextSlot /\ NextSlot \in Slot /\ row[NextSlot] = "reserved"
        /\ \A q \in Request : pc[q] # "idle" => q = r
    BY <1>1, <2>1, ReservationFound DEF NextSlot
  <2>3. NextSlot' = NextSlot
    BY <1>1 DEF GivesUp, NextSlot
  <2>4. ASSUME NEW q \in Request, Callback(q) PROVE Blocked'
    <3>1. ~Reserve(q)
      BY <2>2 DEF Reserve, InsertsRow
    <3>2. pc[q] # "idle" /\ q = r
      BY <2>2, <2>4, <3>1 DEF Callback, RequestHodlInvoice, HodlInvoiceFails, Finalize, Release,
         TransactionFails
    <3>3. pc' = [pc EXCEPT ![r] = "idle"]
      BY <1>1, <2>1, <2>4, <3>1, <3>2 DEF Callback, RequestHodlInvoice, HodlInvoiceFails, Finalize,
         Release, TransactionFails, Answer, Goto, IInv, TypeOK
    <3>4. row'[NextSlot] # "none"
      BY <1>1, <2>2, <2>4, <3>1, <3>2 DEF Callback, RequestHodlInvoice, HodlInvoiceFails, Finalize,
         Release, TransactionFails, rowVars, IInv, TypeOK
    <3>. QED BY <1>1, <2>2, <2>3, <3>3, <3>4 DEF Blocked, InsertsRow, IInv, TypeOK
  <2>5. CASE Restart
    BY <2>2, <2>3, <2>5 DEF Restart, rowVars, Blocked, InsertsRow
  <2>6. CASE UNCHANGED pc
    BY <2>1, <2>6
  <2>. QED
    BY <1>1, <2>4, <2>5, <2>6 DEF Next, RepeatBatch, AppendBatch, reqVars, vars
<1>2. ASSUME [Next]_vars, Blocked PROVE Blocked'
  <2>1. \A r \in Request : ~Callback(r)
    BY <1>2 DEF Blocked, Callback, Reserve, RequestHodlInvoice, HodlInvoiceFails, Finalize, Release,
       TransactionFails
  <2>2. UNCHANGED <<row, current>> /\ \A r \in Request : pc'[r] = "idle"
    BY <1>2, <2>1 DEF Next, Blocked, RepeatBatch, AppendBatch, Restart, rowVars, reqVars, vars
  <2>. QED BY <1>2, <2>2 DEF Blocked, InsertsRow, NextSlot
<1>. QED BY <1>1, <1>2, Invariance, PTL DEF Spec
=============================================================================
