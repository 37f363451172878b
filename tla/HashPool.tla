------------------------------ MODULE HashPool ------------------------------
(***************************************************************************)
(* The payment hashes a receiver has handed to the LSP for its lightning   *)
(* address, and the invoices issued from them: POST                        *)
(* /internal/async_order/new fills the pool of one order, and              *)
(* GET /pay/callback/{username} takes a hash out of it in three steps, a   *)
(* reservation, a HODL invoice of the node and the finalization.           *)
(*                                                                         *)
(* Every handler runs in its own goroutine, each database transaction is   *)
(* one action, and any call may fail or the process stop between two of    *)
(* them.                                                                   *)
(***************************************************************************)
EXTENDS Naturals, FiniteSets

CONSTANTS
    PaymentHash,   \* payment hashes
    NoHash,        \* no hash at an index
    MaxIndex,      \* bound on hash_index
    BatchMaxSize,  \* asyncHashBatchMaxSize
    PoolMaxSize,   \* asyncHashPoolMaxSize
    Request,       \* callback requests that may run at the same time
    MaxFaults      \* bound on failed calls and crashes

ASSUME ConstantsAssumption ==
    /\ NoHash \notin PaymentHash
    /\ MaxIndex \in Nat /\ BatchMaxSize \in Nat /\ PoolMaxSize \in Nat /\ MaxFaults \in Nat

Index == 1..MaxIndex

(* nextInt64FromCurrent gives slots beyond the last finalized one, and a   *)
(* finalization uses up an index, so no slot exceeds MaxIndex + 1.         *)
Slot == 1..(MaxIndex + 1)

VARIABLES
    hashAt,      \* async_hash_pool.payment_hash of each index
    pool,        \* async_hash_pool.status of each index
    accepted,    \* async_orders.accepted_through_index (0: NULL)
    order,       \* async_orders.status, "none" when there is no order
    current,     \* async_orders.current_invoice_slot (0: NULL)
    row,         \* async_rotating_invoices: status of the row of each slot
    rowIndex,    \* and its hash_index
    pc, slotOf,  \* where each callback request stands, and its reservation
    hodl,        \* payment hashes the node has a HODL invoice for
    faults

poolVars == <<hashAt, pool, accepted>>
rowVars  == <<row, rowIndex, current>>
reqVars  == <<pc, slotOf>>
vars     == <<poolVars, order, rowVars, reqVars, hodl, faults>>

Known == {i \in Index : pool[i] # "absent"}
Available(p) == {i \in Index : p[i] = "available"}
Live == {i \in Index : pool[i] \notin {"absent", "consumed"}}

(* MAX(hash_index), 0 for an empty pool. *)
Highest == IF Known = {} THEN 0 ELSE CHOOSE i \in Known : \A j \in Known : i >= j

(* refreshAsyncOrderStatusTx *)
Refreshed(p) == IF Available(p) = {} THEN "exhausted" ELSE "active"

Init ==
    /\ hashAt = [i \in Index |-> NoHash]
    /\ pool = [i \in Index |-> "absent"]
    /\ accepted = 0
    /\ order = "none"
    /\ current = 0
    /\ row = [s \in Slot |-> "none"]
    /\ rowIndex = [s \in Slot |-> 0]
    /\ pc = [r \in Request |-> "idle"]
    /\ slotOf = [r \in Request |-> 0]
    /\ hodl = {}
    /\ faults = 0

Fault == faults < MaxFaults /\ faults' = faults + 1

Goto(r, l) == pc' = [pc EXCEPT ![r] = l] /\ UNCHANGED slotOf

Answer(r) == pc' = [pc EXCEPT ![r] = "idle"] /\ slotOf' = [slotOf EXCEPT ![r] = 0]

-----------------------------------------------------------------------------
(* POST /internal/async_order/new: a batch is a function from consecutive   *)
(* indices to payment hashes; parseAsyncOrderHashBatch refuses any other.   *)

Batch == UNION {[first..last -> PaymentHash] : first \in Index, last \in Index}

FitsBatch(b) == DOMAIN b # {} /\ Cardinality(DOMAIN b) <= BatchMaxSize

(* mergeAsyncHashPoolTx: no hash twice, no other hash at a known index, no *)
(* known hash at another index.                                            *)
NoConflict(b) ==
    /\ \A i, j \in DOMAIN b : b[i] = b[j] => i = j
    /\ \A i \in DOMAIN b \cap Known : hashAt[i] = b[i]
    /\ \A i \in DOMAIN b, j \in Known : hashAt[j] = b[i] => i = j

FitsPoolCountingAvailable(b) ==
    Cardinality(Available(pool)) + Cardinality(DOMAIN b \ Known) <= PoolMaxSize
FitsPool(b) == Cardinality(Live) + Cardinality(DOMAIN b \ Known) <= PoolMaxSize

(* A batch all of whose indices are known is the repetition of an earlier  *)
(* request: nothing is inserted.                                           *)

RepeatBatch(b) ==
    /\ FitsBatch(b) /\ NoConflict(b) /\ FitsPool(b)
    /\ DOMAIN b \subseteq Known
    /\ accepted' = Highest
    /\ order' = Refreshed(pool)
    /\ UNCHANGED <<hashAt, pool, rowVars, reqVars, hodl, faults>>

StartsAfterHighest(b) == Highest + 1 \in DOMAIN b /\ DOMAIN b \cap Known = {}

Merge(b) ==
    /\ hashAt' = [i \in Index |-> IF i \in DOMAIN b THEN b[i] ELSE hashAt[i]]
    /\ pool' = [i \in Index |-> IF i \in DOMAIN b THEN "available" ELSE pool[i]]
    /\ accepted' = CHOOSE i \in DOMAIN b : \A j \in DOMAIN b : i >= j
    /\ order' = Refreshed(pool')

AppendBatchWithoutConflictCheck(b) ==
    /\ FitsBatch(b) /\ FitsPool(b)
    /\ StartsAfterHighest(b)
    /\ Merge(b)
    /\ UNCHANGED <<rowVars, reqVars, hodl, faults>>

AppendBatchReplacing(b) ==
    /\ FitsBatch(b) /\ NoConflict(b) /\ FitsPool(b)
    /\ Highest + 1 \in DOMAIN b
    /\ Merge(b)
    /\ UNCHANGED <<rowVars, reqVars, hodl, faults>>

AppendBatch(b) ==
    /\ FitsBatch(b) /\ NoConflict(b) /\ FitsPool(b)
    /\ StartsAfterHighest(b)
    /\ Merge(b)
    /\ UNCHANGED <<rowVars, reqVars, hodl, faults>>

-----------------------------------------------------------------------------
(* GET /pay/callback/{username}                                            *)

NextSlot == current + 1

FirstAvailable(i) == i \in Available(pool) /\ \A j \in Available(pool) : i <= j

(* ReserveLightningAddressInvoiceSlot.  A row that holds the slot already  *)
(* fails the insert (UNIQUE(order_id, invoice_slot)) and with it the       *)
(* transaction.                                                            *)
InsertsRow(s) == row[s] = "none"

Reserve(r) ==
    /\ pc[r] = "idle"
    /\ InsertsRow(NextSlot)
    /\ \E i \in Index :
          /\ FirstAvailable(i)
          /\ pool' = [pool EXCEPT ![i] = "reserved"]
          /\ rowIndex' = [rowIndex EXCEPT ![NextSlot] = i]
    /\ row' = [row EXCEPT ![NextSlot] = "reserved"]
    /\ order' = Refreshed(pool')
    /\ pc' = [pc EXCEPT ![r] = "hodl"]
    /\ slotOf' = [slotOf EXCEPT ![r] = NextSlot]
    /\ UNCHANGED <<hashAt, accepted, current, hodl, faults>>

HashOf(r) == hashAt[rowIndex[slotOf[r]]]

(* requestHodlInvoice; the node (external) refuses a second invoice for a  *)
(* hash.                                                                   *)
RequestHodlInvoice(r) ==
    /\ pc[r] = "hodl"
    /\ HashOf(r) \notin hodl
    /\ hodl' = hodl \union {HashOf(r)}
    /\ Goto(r, "finalize")
    /\ UNCHANGED <<poolVars, order, rowVars, faults>>

(* The node refuses, or the call fails before or after it had its effect.  *)
HodlInvoiceFails(r) ==
    /\ pc[r] = "hodl"
    /\ \/ HashOf(r) \in hodl /\ UNCHANGED <<hodl, faults>>
       \/ Fault /\ hodl' \in {hodl, hodl \union {HashOf(r)}}
    /\ Goto(r, "release")
    /\ UNCHANGED <<poolVars, order, rowVars>>

(* FinalizeLightningAddressInvoiceSlot: one transaction.                   *)
FinalizeWithoutCurrent(r) ==
    /\ pc[r] = "finalize"
    /\ row[slotOf[r]] # "failed"
    /\ row' = [row EXCEPT ![slotOf[r]] = "active"]
    /\ pool' = [pool EXCEPT ![rowIndex[slotOf[r]]] = "consumed"]
    /\ order' = Refreshed(pool')
    /\ Answer(r)
    /\ UNCHANGED <<hashAt, accepted, rowIndex, current, hodl, faults>>

Finalize(r) ==
    /\ pc[r] = "finalize"
    /\ row[slotOf[r]] # "failed"
    /\ row' = [row EXCEPT ![slotOf[r]] = "active"]
    /\ pool' = [pool EXCEPT ![rowIndex[slotOf[r]]] = "consumed"]
    /\ current' = slotOf[r]
    /\ order' = Refreshed(pool')
    /\ Answer(r)
    /\ UNCHANGED <<hashAt, accepted, rowIndex, hodl, faults>>

(* ReleaseLightningAddressInvoiceSlot: one transaction; the row keeps its  *)
(* slot.                                                                   *)
ReleaseWithoutRefresh(r) ==
    /\ pc[r] = "release"
    /\ row[slotOf[r]] \notin {"active", "failed"}
    /\ row' = [row EXCEPT ![slotOf[r]] = "failed"]
    /\ pool' = [pool EXCEPT ![rowIndex[slotOf[r]]] = "available"]
    /\ Answer(r)
    /\ UNCHANGED <<hashAt, accepted, order, rowIndex, current, hodl, faults>>

ReleaseHashOnly(r) ==
    /\ pc[r] = "release"
    /\ row[slotOf[r]] \notin {"active", "failed"}
    /\ pool' = [pool EXCEPT ![rowIndex[slotOf[r]]] = "available"]
    /\ order' = Refreshed(pool')
    /\ Answer(r)
    /\ UNCHANGED <<hashAt, accepted, row, rowIndex, current, hodl, faults>>

Release(r) ==
    /\ pc[r] = "release"
    /\ row[slotOf[r]] \notin {"active", "failed"}
    /\ row' = [row EXCEPT ![slotOf[r]] = "failed"]
    /\ pool' = [pool EXCEPT ![rowIndex[slotOf[r]]] = "available"]
    /\ order' = Refreshed(pool')
    /\ Answer(r)
    /\ UNCHANGED <<hashAt, accepted, rowIndex, current, hodl, faults>>

(* The transaction fails (the payer has gone and its context with it, the  *)
(* database is busy): the handler answers an error and leaves the          *)
(* reservation as it is.                                                   *)
TransactionFails(r) ==
    /\ pc[r] \in {"finalize", "release"}
    /\ Fault
    /\ Answer(r)
    /\ UNCHANGED <<poolVars, order, rowVars, hodl>>

(* The process stops and starts again: every request is lost.  The startup *)
(* migration moves no row here, as a reserved or failed row has no         *)
(* invoice_string and an active one stays active.                          *)
Restart ==
    /\ Fault
    /\ pc' = [r \in Request |-> "idle"]
    /\ slotOf' = [r \in Request |-> 0]
    /\ UNCHANGED <<poolVars, order, rowVars, hodl>>

Callback(r) ==
    \/ Reserve(r) \/ RequestHodlInvoice(r) \/ HodlInvoiceFails(r)
    \/ Finalize(r) \/ Release(r) \/ TransactionFails(r)

Next ==
    \/ \E b \in Batch : RepeatBatch(b) \/ AppendBatch(b)
    \/ \E r \in Request : Callback(r)
    \/ Restart

Spec == Init /\ [][Next]_vars

-----------------------------------------------------------------------------
(* Properties of the pool.                                                 *)

TypeOK ==
    /\ hashAt \in [Index -> PaymentHash \union {NoHash}]
    /\ pool \in [Index -> {"absent", "available", "reserved", "consumed"}]
    /\ accepted \in 0..MaxIndex
    /\ order \in {"none", "active", "exhausted"}
    /\ current \in 0..MaxIndex
    /\ row \in [Slot -> {"none", "reserved", "active", "failed"}]
    /\ rowIndex \in [Slot -> 0..MaxIndex]
    /\ pc \in [Request -> {"idle", "hodl", "finalize", "release"}]
    /\ slotOf \in [Request -> 0..(MaxIndex + 1)]
    /\ hodl \subseteq PaymentHash
    /\ faults \in 0..MaxFaults

(* accepted_through_index, which the client extends its next batch from, is *)
(* the highest index, and no index below it is missing.                     *)
AcceptedIsTheWatermark == Known = 1..accepted

(* A payment hash is in the pool once (duplicate_hash_conflict).           *)
HashesAreDistinct == \A i, j \in Known : hashAt[i] = hashAt[j] => i = j

(* What an index was accepted with stays (duplicate_index_conflict), and a *)
(* consumed hash is never offered again.                                   *)
AcceptedStays ==
    [][\A i \in Known :
        /\ hashAt'[i] = hashAt[i]
        /\ pool'[i] # "absent"
        /\ pool[i] = "consumed" => pool'[i] = "consumed"]_vars

(* The pool agrees with the invoices, whichever of the two tables a         *)
(* transaction of a concurrent request read: a hash is reserved for exactly *)
(* one row, consumed by exactly one, and an available one has none.         *)
PoolMatchesInvoices ==
    \A i \in Known :
        Cardinality({s \in Slot : rowIndex[s] = i /\ row[s] \in {"reserved", "active"}})
            = IF pool[i] = "available" THEN 0 ELSE 1

(* A slot is finalized after the one before it: the current invoice is the  *)
(* only one that follows the active ones.                                   *)
SlotsAreFinalizedInOrder ==
    /\ {s \in Slot : row[s] = "active"} = 1..current
    /\ {s \in Slot : row[s] # "none"} \subseteq 1..NextSlot

(* The pool never holds more than asyncHashPoolMaxSize hashes that were not *)
(* consumed, released ones included.                                        *)
LiveHashesAreBounded == Cardinality(Live) <= PoolMaxSize

(* The status reported to the client is exhausted exactly while no hash is  *)
(* available.                                                               *)
ExhaustedWhenEmpty == order = "none" \/ order = Refreshed(pool)

(* The order row, a copy of what the pool says, is right after every        *)
(* transaction.                                                             *)
OrderMatchesPool == AcceptedIsTheWatermark /\ ExhaustedWhenEmpty

(* Statement of the code that it does not keep: releasing a reservation     *)
(* "releases" its slot, so that an order which is "active", with hashes to  *)
(* spare and no request in progress, gives an invoice for the next one.     *)
ActiveOrderIsPayable ==
    order = "active" /\ (\A r \in Request : pc[r] = "idle") => InsertsRow(NextSlot)
=============================================================================
