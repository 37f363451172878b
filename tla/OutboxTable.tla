---------------------------- MODULE OutboxTable ----------------------------
(***************************************************************************)
(* The table async_rotating_invoice_outbox: at most one row per            *)
(* <<payment_hash, action>>, written in the transaction that changes the   *)
(* state it belongs to, and worked off by the cron goroutine.  A table is  *)
(* a function from every possible <<hash, action>> to the state of its     *)
(* row, "absent" when there is none.                                       *)
(***************************************************************************)

JobStates == {"absent", "pending", "processing", "done"}

(* INSERT OR IGNORE: a row that exists, whatever its state, stays as it is. *)
Enqueued(table, keys) ==
    [k \in DOMAIN table |->
        IF k \in keys /\ table[k] = "absent" THEN "pending" ELSE table[k]]

(* Rows the claim query may return.  available_at and locked_until are     *)
(* abstracted: a pending row becomes due again and the lease of a          *)
(* processing row runs out some time after a worker has dropped it.        *)
Claimable(table) == {k \in DOMAIN table : table[k] \in {"pending", "processing"}}

Taken(table, k) == [table EXCEPT ![k] = "processing"]
MarkedDone(table, k) == [table EXCEPT ![k] = "done"]
MarkedRetry(table, k) == [table EXCEPT ![k] = "pending"]
=============================================================================
