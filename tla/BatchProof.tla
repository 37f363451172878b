----------------------------- MODULE BatchProof -----------------------------
(***************************************************************************)
(* Batch commitments of the receivers and the proofs handed to payers.  A  *)
(* receiver signs the Merkle root of a batch of payment hashes; the rows   *)
(* of the pool are stamped with the batch's id; a payer is given the path  *)
(* from the hash of its invoice to the signed root.                        *)
(*                                                                         *)
(* One order per receiver.  What becomes of a hash (HashPool) does not     *)
(* matter here: a pool is the sequence of its rows by hash_index.  An id   *)
(* is the key of its batch over all orders, and INSERT OR IGNORE keeps the *)
(* row that is there; ids are meant to be used once, and nothing enforces  *)
(* it.                                                                     *)
(***************************************************************************)
EXTENDS Naturals, FiniteSets, Functions, ApayMerkle

CONSTANTS
    Orders,       \* orders, and the receivers they belong to
    BatchIds,
    PaymentHash,
    MaxIndex,     \* bound on hash_index
    MaxRequests,  \* bound on accepted requests
    None          \* no batch

ASSUME ConstantsAssumption ==
    /\ IsFiniteSet(Orders) /\ None \notin BatchIds
    /\ MaxIndex \in Nat /\ MaxRequests \in Nat

VARIABLES
    pool,      \* async_hash_pool, by order: hash and batch_id of each index
    batches,   \* apay_hash_batch, by id
    used,      \* the commitments accepted under an id (history)
    requests,  \* number of accepted requests (bound)
    pc,        \* BuildApayInvoiceProof: "idle", "batch", "rows" or "answered"
    ask,       \* the <<order, hash_index>> it is for
    batchId,   \* what it read of the pool
    batch,     \* what it read of the batch
    answer     \* the proof

tables == <<pool, batches, used, requests>>
builder == <<pc, ask, batchId, batch, answer>>
vars == <<tables, builder>>

Init ==
    /\ pool = [o \in Orders |-> <<>>]
    /\ batches = [b \in BatchIds |-> <<>>]
    /\ used = [b \in BatchIds |-> {}]
    /\ requests = 0
    /\ pc = "idle" /\ ask = <<>> /\ batchId = None /\ batch = <<>> /\ answer = <<>>

-----------------------------------------------------------------------------
(* POST /internal/async_order/new with the hashes of the indices first,     *)
(* first + 1, ... and perhaps a commitment to them under the id b.          *)

Hashes == UNION {[1 .. n -> PaymentHash] : n \in 1 .. MaxIndex}

Highest(o) == Len(pool[o])

(* mergeAsyncHashPoolTx, as in HashPool: a batch follows the highest index *)
(* with hashes the order does not have, or repeats rows that are there.     *)
Appends(o, first, hs) ==
    /\ first = Highest(o) + 1
    /\ \A i, j \in DOMAIN hs : hs[i] = hs[j] => i = j
    /\ \A i \in DOMAIN hs, j \in DOMAIN pool[o] : pool[o][j].hash # hs[i]

Repeats(o, first, hs) ==
    /\ first + Len(hs) - 1 <= Highest(o)
    /\ \A i \in DOMAIN hs : pool[o][first + i - 1].hash = hs[i]

Leaves(o, b, first, hs) ==
    [i \in DOMAIN hs |-> LeafHash(o, b, first + i - 1, hs[i])]

(* persistApayBatchTx *)
Persisted(o, b, first, hs) ==
    IF b # None /\ batches[b] = <<>>
    THEN [batches EXCEPT ![b] =
            [recipient |-> o, size |-> Len(hs),
             root |-> MerkleRoot(Leaves(o, b, first, hs))]]
    ELSE batches

Stamped(hs, b) == [i \in DOMAIN hs |-> [hash |-> hs[i], batch |-> b]]

UsedFor(o, b, first, hs) ==
    IF b = None THEN used ELSE [used EXCEPT ![b] = @ \cup {<<o, first, hs>>}]

(* The commitment is checked (validateApayBatchCommitment: its root is the  *)
(* root of these hashes) and inserted before the hashes are merged; what    *)
(* the merge refuses rolls all of it back.                                  *)
OrderNewKeepsCommitment(o, first, hs, b) ==
    /\ requests < MaxRequests
    /\ requests' = requests + 1
    /\ pool' = IF Appends(o, first, hs)
               THEN [pool EXCEPT ![o] = @ \o Stamped(hs, b)] ELSE pool
    /\ batches' = Persisted(o, b, first, hs)
    /\ used' = IF Appends(o, first, hs) \/ Repeats(o, first, hs)
               THEN UsedFor(o, b, first, hs) ELSE used
    /\ UNCHANGED builder

OrderNewAppendsTheRest(o, first, hs, b) ==
    /\ requests < MaxRequests
    /\ requests' = requests + 1
    /\ LET known == Highest(o) + 1 - first
           rest == SubSeq(hs, known + 1, Len(hs))
       IN  /\ known \in 0 .. Len(hs)
           /\ Appends(o, Highest(o) + 1, rest)
           /\ Repeats(o, first, SubSeq(hs, 1, known))
           /\ pool' = [pool EXCEPT ![o] = @ \o Stamped(rest, b)]
    /\ batches' = Persisted(o, b, first, hs)
    /\ used' = UsedFor(o, b, first, hs)
    /\ UNCHANGED builder

OrderNew(o, first, hs, b) ==
    /\ requests < MaxRequests
    /\ requests' = requests + 1
    /\ \/ /\ Appends(o, first, hs)
          /\ pool' = [pool EXCEPT ![o] = @ \o Stamped(hs, b)]
       \/ Repeats(o, first, hs) /\ UNCHANGED pool
    /\ batches' = Persisted(o, b, first, hs)
    /\ used' = UsedFor(o, b, first, hs)
    /\ UNCHANGED builder

-----------------------------------------------------------------------------
(* BuildApayInvoiceProof for the invoice of an index: three queries, no     *)
(* transaction.                                                             *)

ReadStamp(o, i) ==
    /\ pc = "idle"
    /\ i \in DOMAIN pool[o] /\ pool[o][i].batch # None
    /\ pc' = "batch" /\ ask' = <<o, i>> /\ batchId' = pool[o][i].batch
    /\ UNCHANGED <<tables, batch, answer>>

ReadBatch ==
    /\ pc = "batch"
    /\ pc' = "rows" /\ batch' = batches[batchId]
    /\ UNCHANGED <<tables, ask, batchId, answer>>

(* The rows stamped with the id, of whatever order, by hash_index; ties in  *)
(* any order.                                                               *)
RowsOf(b) ==
    {r \in UNION {{o} \X DOMAIN pool[o] : o \in Orders} : pool[r[1]][r[2]].batch = b}

Listings(S) ==
    {s \in Bijection(1 .. Cardinality(S), S) :
        \A j, k \in 1 .. Cardinality(S) : j <= k => s[j][2] <= s[k][2]}

(* The last row with the hash_index is the one the proof is for. *)
Target(rows, i) ==
    CHOOSE k \in DOMAIN rows :
        rows[k][2] = i /\ \A j \in DOMAIN rows : rows[j][2] = i => j <= k

ReadRows ==
    /\ pc = "rows"
    /\ \E rows \in Listings(RowsOf(batchId)) :
        LET k == Target(rows, ask[2])
            HashOf(r) == pool[r[1]][r[2]].hash
            leaves == [j \in DOMAIN rows |->
                        LeafHash(batch.recipient, batchId, rows[j][2], HashOf(rows[j]))]
        IN  answer' = [batch |-> batchId, recipient |-> batch.recipient,
                       index |-> ask[2], hash |-> HashOf(rows[k]),
                       root |-> batch.root, size |-> batch.size,
                       proof |-> MerkleProof(leaves, k)]
    /\ pc' = "answered"
    /\ UNCHANGED <<tables, ask, batchId, batch>>

Answered ==
    /\ pc = "answered"
    /\ pc' = "idle" /\ ask' = <<>> /\ batchId' = None /\ batch' = <<>> /\ answer' = <<>>
    /\ UNCHANGED tables

BuildApayInvoiceProof ==
    \/ \E o \in Orders, i \in 1 .. MaxIndex : ReadStamp(o, i)
    \/ ReadBatch \/ ReadRows \/ Answered

Next ==
    \/ \E o \in Orders, first \in 1 .. MaxIndex, hs \in Hashes, b \in BatchIds \cup {None} :
          first + Len(hs) - 1 <= MaxIndex /\ OrderNew(o, first, hs, b)
    \/ BuildApayInvoiceProof

Spec == Init /\ [][Next]_vars

-----------------------------------------------------------------------------
(* A payer that checks the path it was given, from the hash of its own      *)
(* invoice and its receiver to the signed root, finds it right: for every   *)
(* batch id that was used for one batch only, whatever was refused, sent    *)
(* twice or appended while the proof was built.                             *)
ProofVerifies ==
    pc = "answered" /\ Cardinality(used[answer.batch]) = 1 =>
        LET o == ask[1]  i == ask[2]
        IN  /\ answer.hash = pool[o][i].hash
            /\ MerkleVerify(LeafHash(o, answer.batch, i, answer.hash), answer.proof, answer.root)

(* The batch of a stamped hash is there, and its leaves are exactly the     *)
(* rows stamped with it: no proof comes out short of a row or finds no      *)
(* batch, and the size that is reported is the number of rows.              *)
BatchIsWhole ==
    \A o \in Orders : \A i \in DOMAIN pool[o] :
        LET b == pool[o][i].batch
        IN  b # None /\ Cardinality(used[b]) = 1 =>
                /\ batches[b] # <<>> /\ batches[b].recipient = o
                /\ batches[b].size = Cardinality({j \in DOMAIN pool[o] : pool[o][j].batch = b})
=============================================================================
