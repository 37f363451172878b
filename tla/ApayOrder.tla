----------------------------- MODULE ApayOrder -----------------------------
(***************************************************************************)
(* An asynchronous payment (APay): a payer pays the HODL invoice of a      *)
(* lightning address while its receiver may be offline.  Once the payer's  *)
(* HTLC is held the outbox asks the receiver for an invoice with the same  *)
(* payment hash, pays it, and claims the HTLC with the preimage.           *)
(*                                                                         *)
(* Modelled: the two webhooks of the node, the three jobs of the outbox    *)
(* between their calls, failing calls, crashes, the startup migration of   *)
(* the invoices table, and the node as far as the LSP sees it (external).  *)
(* HashPool models how an invoice comes about; here it is issued in one    *)
(* step, the finalization.                                                 *)
(***************************************************************************)
EXTENDS Naturals, OutboxTable

CONSTANTS
    Hash,            \* payment hashes
    NoJob,           \* the cron goroutine works on no job
    InboundDelta,    \* APAY_INBOUND_MIN_FINAL_CLTV_EXPIRY_DELTA
    OutboundDelta,   \* APAY_OUTBOUND_MIN_FINAL_CLTV_EXPIRY_DELTA
    FailBackBuffer,  \* ldkHtlcFailBackBuffer
    CltvBuffer,      \* ldkMinFinalCltvBuffer
    Margin,          \* claimMarginBlocks()
    JobBlocks,       \* blocks that can arrive within one job (HTTPTimeout)
    MaxHeight,       \* bound on the chain's height
    MaxFaults        \* bound on failed calls and crashes

Action == {"request", "send", "claim"}
Job == Hash \X Action

ASSUME ConstantsAssumption ==
    /\ NoJob \notin Job
    /\ InboundDelta \in Nat /\ OutboundDelta \in Nat
    /\ FailBackBuffer \in Nat /\ CltvBuffer \in Nat
    /\ FailBackBuffer + CltvBuffer <= InboundDelta
    /\ Margin \in Nat /\ JobBlocks \in Nat
    /\ MaxHeight \in Nat /\ MaxFaults \in Nat

VARIABLES
    status,     \* async_rotating_invoices.status, "none" before it is active
    stamped,    \* the last status that left a timestamp or a preimage behind
    jobs,       \* the outbox table
    pc, job,    \* where the cron goroutine stands, and in which job
    seen,       \* the height the running job last read
    inbound,    \* the node's HODL invoice of each hash
    deadline,   \* claim deadline of the held HTLC, as LDK reports it
    outbound,   \* the node's payment to the receiver
    acked,      \* hashes whose payment_sent webhook was answered 200
    height,     \* the chain
    faults      \* faults so far

db   == <<status, stamped, jobs>>
cron == <<pc, job, seen>>
node == <<inbound, deadline, outbound, acked>>
vars == <<db, cron, node, height, faults>>

States == {"active", "claimable", "outbound_requested", "outbound_pending",
           "outbound_paid", "outbound_claimed", "inbound_claimed", "failed"}

Rank(s) ==
    CASE s = "none"               -> 0
      [] s = "active"             -> 20
      [] s = "claimable"          -> 30
      [] s = "outbound_requested" -> 40
      [] s = "outbound_pending"   -> 50
      [] s = "outbound_paid"      -> 60
      [] s = "outbound_claimed"   -> 70
      [] s = "inbound_claimed"    -> 80
      [] s = "failed"             -> 100

AtOrBeyond(s, t) == Rank(s) >= Rank(t)

-----------------------------------------------------------------------------
Init ==
    /\ status = [h \in Hash |-> "none"]
    /\ stamped = [h \in Hash |-> "none"]
    /\ jobs = [j \in Job |-> "absent"]
    /\ pc = "idle" /\ job = NoJob /\ seen = 0
    /\ inbound = [h \in Hash |-> "none"]
    /\ deadline = [h \in Hash |-> 0]
    /\ outbound = [h \in Hash |-> "none"]
    /\ acked = {}
    /\ height = 0 /\ faults = 0

(* A database or node call fails, or the process crashes. *)
Fault == faults < MaxFaults /\ faults' = faults + 1

(* MarkAsyncRotatingInvoice*: compare-and-set of the status, the timestamp  *)
(* of the transition, and the outbox row in the same transaction.           *)
Moved(h, to, enqueue) ==
    /\ status' = [status EXCEPT ![h] = to]
    /\ stamped' = [stamped EXCEPT ![h] = to]
    /\ jobs' = Enqueued(jobs, enqueue)

Mark(h, from, to, enqueue) ==
    IF status[h] = from THEN Moved(h, to, enqueue) ELSE UNCHANGED db

-----------------------------------------------------------------------------
(* The payer, the receiver, the node and the chain (external).             *)

HoldBlocks == InboundDelta + CltvBuffer - FailBackBuffer

(* FinalizeLightningAddressInvoiceSlot: the HODL invoice is handed out.     *)
IssueInvoice(h) ==
    /\ status[h] = "none"
    /\ status' = [status EXCEPT ![h] = "active"]
    /\ inbound' = [inbound EXCEPT ![h] = "open"]
    /\ UNCHANGED <<stamped, jobs, cron, deadline, outbound, acked, height, faults>>

PayerPays(h) ==
    /\ inbound[h] = "open"
    /\ inbound' = [inbound EXCEPT ![h] = "held"]
    /\ deadline' = [deadline EXCEPT ![h] = height + HoldBlocks]
    /\ UNCHANGED <<db, cron, outbound, acked, height, faults>>

ReceiverClaims(h) ==
    /\ outbound[h] = "inflight"
    /\ outbound' = [outbound EXCEPT ![h] = "paid"]
    /\ UNCHANGED <<db, cron, inbound, deadline, acked, height, faults>>

DeliveryFails(h) ==
    /\ outbound[h] = "inflight"
    /\ outbound' = [outbound EXCEPT ![h] = "failed"]
    /\ UNCHANGED <<db, cron, inbound, deadline, acked, height, faults>>

(* A block arrives; at most JobBlocks of them between the check of the      *)
(* deadline and the write that follows it in the same job.                  *)
NewBlock ==
    /\ height < MaxHeight
    /\ pc \in {"request_mark", "request_ask", "request_persist"} => height < seen + JobBlocks
    /\ height' = height + 1
    /\ inbound' = [h \in Hash |->
                     IF inbound[h] = "held" /\ deadline[h] <= height + 1
                     THEN "timedout" ELSE inbound[h]]
    /\ UNCHANGED <<db, cron, deadline, outbound, acked, faults>>

-----------------------------------------------------------------------------
(* Webhooks.  The node may deliver one late, again, or both out of order.   *)

(* validateAsyncOrderClaimDeadlineWithinPolicy *)
BlocksLeft(h, n) == deadline[h] > height /\ deadline[h] - height > n

(* /internal/async_order/claimable; too late a notification is answered 400 *)
(* and changes nothing.                                                     *)
ClaimableWebhook(h) ==
    /\ inbound[h] \notin {"none", "open"}
    /\ BlocksLeft(h, InboundDelta - FailBackBuffer - CltvBuffer)
    /\ Mark(h, "active", "claimable", {<<h, "request">>})
    /\ UNCHANGED <<cron, node, height, faults>>

(* /internal/async_order/payment_sent; before outbound_paid it is answered  *)
(* 503 and changes nothing.                                                 *)
PaymentSentWebhookEarly(h) ==
    /\ outbound[h] = "paid"
    /\ Mark(h, "outbound_paid", "outbound_claimed", {<<h, "claim">>})
    /\ acked' = acked \union {h}
    /\ UNCHANGED <<cron, inbound, deadline, outbound, height, faults>>

PaymentSentWebhook(h) ==
    /\ outbound[h] = "paid"
    /\ AtOrBeyond(status[h], "outbound_paid")
    /\ Mark(h, "outbound_paid", "outbound_claimed", {<<h, "claim">>})
    /\ acked' = acked \union {h}
    /\ UNCHANGED <<cron, inbound, deadline, outbound, height, faults>>

-----------------------------------------------------------------------------
(* The cron goroutine: one outbox job at a time (runAsyncOrderOutbox).      *)

hash == job[1]

Goto(l) == pc' = l /\ UNCHANGED <<job, seen>>

ClaimOutboxJob(j) ==
    /\ pc = "idle"
    /\ j \in Claimable(jobs)
    /\ jobs' = Taken(jobs, j)
    /\ job' = j
    /\ pc' = CASE j[2] = "request" -> "request_load"
               [] j[2] = "send"    -> "send_load"
               [] j[2] = "claim"   -> "claim_load"
    /\ UNCHANGED <<status, stamped, seen, node, height, faults>>

FinishWithoutRetry ==
    /\ pc \in {"done", "retry"}
    /\ jobs' = MarkedDone(jobs, job)
    /\ pc' = "idle" /\ job' = NoJob
    /\ UNCHANGED <<status, stamped, seen, node, height, faults>>

FinishJob ==
    /\ pc \in {"done", "retry"}
    /\ jobs' = IF pc = "done" THEN MarkedDone(jobs, job) ELSE MarkedRetry(jobs, job)
    /\ pc' = "idle" /\ job' = NoJob
    /\ UNCHANGED <<status, stamped, seen, node, height, faults>>

(* A call fails without effect: the job returns the error.                  *)
JobError ==
    /\ pc \notin {"idle", "done", "retry"}
    /\ Fault
    /\ Goto("retry")
    /\ UNCHANGED <<db, node, height>>

(* The process stops and starts again.  The startup migration (db.go) gives *)
(* a failed invoice the status its timestamps tell.                         *)
Restart ==
    /\ Fault
    /\ pc' = "idle" /\ job' = NoJob /\ seen' = 0
    /\ status' = [h \in Hash |-> IF status[h] = "failed" THEN stamped[h] ELSE status[h]]
    /\ UNCHANGED <<stamped, jobs, node, height>>

-----------------------------------------------------------------------------
(* aPayRequestOutboundInvoiceJob                                           *)

LoadForRequest ==
    /\ pc = "request_load"
    /\ Goto(IF status[hash] \in {"claimable", "outbound_requested"} THEN "request_check" ELSE "done")
    /\ UNCHANGED <<db, node, height, faults>>

CheckDeadline ==
    /\ pc = "request_check"
    /\ pc' = IF BlocksLeft(hash, OutboundDelta + Margin) THEN "request_mark" ELSE "request_fail"
    /\ seen' = height
    /\ UNCHANGED <<job, db, node, height, faults>>

(* MarkAsyncRotatingInvoiceFailed sets no timestamp and leaves the HODL     *)
(* invoice alone.                                                           *)
MarkFailed ==
    /\ pc = "request_fail"
    /\ status' = IF status[hash] \in {"claimable", "outbound_requested"}
                 THEN [status EXCEPT ![hash] = "failed"] ELSE status
    /\ Goto("done")
    /\ UNCHANGED <<stamped, jobs, node, height, faults>>

(* With the reload that follows it.                                         *)
MarkOutboundRequested ==
    /\ pc = "request_mark"
    /\ Mark(hash, "claimable", "outbound_requested", {})
    /\ Goto(IF status[hash] \in {"claimable", "outbound_requested"} THEN "request_ask" ELSE "done")
    /\ UNCHANGED <<node, height, faults>>

(* AsyncOrderOutboundInvoice and the validation of its answer, which ends   *)
(* in a second look at the deadline.  A receiver that is offline, or whose  *)
(* invoice is not the one asked for, is asked again later.                  *)
RequestWithoutSecondLook ==
    /\ pc = "request_ask"
    /\ seen' = height
    /\ pc' \in {"request_persist", "retry"}
    /\ UNCHANGED <<job, db, node, height, faults>>

RequestOutboundInvoice ==
    /\ pc = "request_ask"
    /\ seen' = height
    /\ \/ pc' = "retry"
       \/ BlocksLeft(hash, OutboundDelta + CltvBuffer + Margin) /\ pc' = "request_persist"
    /\ UNCHANGED <<job, db, node, height, faults>>

MarkOutboundPending ==
    /\ pc = "request_persist"
    /\ Mark(hash, "outbound_requested", "outbound_pending", {<<hash, "send">>})
    /\ Goto(IF AtOrBeyond(status[hash], "outbound_requested") THEN "done" ELSE "retry")
    /\ UNCHANGED <<node, height, faults>>

-----------------------------------------------------------------------------
(* aPaySendOutboundPaymentJob: no look at the deadline any more.           *)

LoadForSend ==
    /\ pc = "send_load"
    /\ Goto(IF AtOrBeyond(status[hash], "outbound_paid") THEN "done"
            ELSE IF status[hash] = "outbound_pending" THEN "send_pay" ELSE "retry")
    /\ UNCHANGED <<db, node, height, faults>>

(* A payment whose hash is in flight or paid is not started again; how the  *)
(* node answers then is its own affair.                                     *)
Started == outbound[hash] \in {"inflight", "paid"}

(* Both an accepted payment and a reported failure are taken for a          *)
(* delivery; an error of the call is retried.                               *)
SendPayment(result) ==
    /\ pc = "send_pay"
    /\ outbound' = IF Started THEN outbound ELSE [outbound EXCEPT ![hash] = result]
    /\ UNCHANGED <<db, inbound, deadline, acked, height>>

SendAnswered(result) == SendPayment(result) /\ Goto("send_persist") /\ UNCHANGED faults

SendRefused == SendPayment(outbound[hash]) /\ Started /\ Goto("retry") /\ UNCHANGED faults

SendLostGivenUp(result) ==
    /\ pc = "send_pay"
    /\ outbound' = IF Started THEN outbound ELSE [outbound EXCEPT ![hash] = result]
    /\ status' = [status EXCEPT ![hash] = "failed"]
    /\ Goto("done")
    /\ Fault
    /\ UNCHANGED <<stamped, jobs, inbound, deadline, acked, height>>

(* The answer is lost, and with it whether the payment has started.         *)
SendLost(result) == SendPayment(result) /\ Goto("retry") /\ Fault

MarkOutboundPaid ==
    /\ pc = "send_persist"
    /\ Mark(hash, "outbound_pending", "outbound_paid", {})
    /\ Goto("done")
    /\ UNCHANGED <<node, height, faults>>

-----------------------------------------------------------------------------
(* aPayClaimInboundInvoiceJob                                              *)

LoadForClaim ==
    /\ pc = "claim_load"
    /\ Goto(IF AtOrBeyond(status[hash], "inbound_claimed") THEN "done"
            ELSE IF status[hash] = "outbound_claimed" THEN "claim_hodl" ELSE "retry")
    /\ UNCHANGED <<db, node, height, faults>>

ClaimHodl ==
    /\ pc = "claim_hodl"
    /\ inbound[hash] = "held"
    /\ inbound' = [inbound EXCEPT ![hash] = "claimed"]
    /\ \/ Goto("claim_persist") /\ UNCHANGED faults
       \/ Goto("retry") /\ Fault
    /\ UNCHANGED <<db, deadline, outbound, acked, height>>

ClaimHodlIgnoringError ==
    /\ pc = "claim_hodl"
    /\ inbound[hash] # "held"
    /\ Goto("claim_persist")
    /\ UNCHANGED <<db, node, height, faults>>

ClaimHodlUntilAnswered ==
    /\ pc = "claim_hodl"
    /\ inbound[hash] # "held"
    /\ Goto(IF inbound[hash] = "claimed" THEN "claim_persist" ELSE pc)
    /\ UNCHANGED <<db, node, height, faults>>

ClaimHodlAgain ==
    /\ pc = "claim_hodl"
    /\ inbound[hash] # "held"
    /\ \/ Goto("retry")
       \/ inbound[hash] = "claimed" /\ Goto("claim_persist")
    /\ UNCHANGED <<db, node, height, faults>>

MarkInboundClaimed ==
    /\ pc = "claim_persist"
    /\ Mark(hash, "outbound_claimed", "inbound_claimed", {})
    /\ Goto("done")
    /\ UNCHANGED <<node, height, faults>>

-----------------------------------------------------------------------------
RequestJob ==
    \/ LoadForRequest \/ CheckDeadline \/ MarkFailed \/ MarkOutboundRequested
    \/ RequestOutboundInvoice \/ MarkOutboundPending

SendJob ==
    \/ LoadForSend
    \/ SendAnswered("inflight") \/ SendAnswered("failed")
    \/ SendRefused \/ SendLost(outbound[hash]) \/ SendLost("inflight")
    \/ MarkOutboundPaid

ClaimJob == LoadForClaim \/ ClaimHodl \/ ClaimHodlAgain \/ MarkInboundClaimed

Cron ==
    \/ \E j \in Job : ClaimOutboxJob(j)
    \/ FinishJob \/ JobError \/ RequestJob \/ SendJob \/ ClaimJob

Webhooks(h) == ClaimableWebhook(h) \/ PaymentSentWebhook(h)

Environment(h) == IssueInvoice(h) \/ PayerPays(h) \/ ReceiverClaims(h) \/ DeliveryFails(h)

Next ==
    \/ Cron
    \/ \E h \in Hash : Webhooks(h) \/ Environment(h)
    \/ NewBlock
    \/ Restart

Spec == Init /\ [][Next]_vars

(* The node repeats payment_sent until it is answered 200, and the cron     *)
(* tick comes back to every due job.  Neither the payer, the receiver nor   *)
(* the chain has to do anything.                                            *)
Fairness ==
    /\ \A h \in Hash : WF_vars(h \notin acked /\ PaymentSentWebhook(h))
    /\ \A j \in Job : SF_vars(ClaimOutboxJob(j))
    /\ WF_vars(FinishJob) /\ WF_vars(RequestJob) /\ WF_vars(SendJob) /\ WF_vars(ClaimJob)

FairSpec == Spec /\ Fairness

-----------------------------------------------------------------------------
(* Properties of an asynchronous payment.                                  *)

RequestPCs == {"request_load", "request_check", "request_mark", "request_fail",
               "request_ask", "request_persist"}
SendPCs == {"send_load", "send_pay", "send_persist"}
ClaimPCs == {"claim_load", "claim_hodl", "claim_persist"}

TypeOK ==
    /\ status \in [Hash -> States \union {"none"}]
    /\ stamped \in [Hash -> (States \ {"active", "failed"}) \union {"none"}]
    /\ jobs \in [Job -> JobStates]
    /\ pc \in RequestPCs \union SendPCs \union ClaimPCs \union {"idle", "done", "retry"}
    /\ job \in Job \union {NoJob}
    /\ seen \in Nat
    /\ inbound \in [Hash -> {"none", "open", "held", "claimed", "timedout"}]
    /\ deadline \in [Hash -> Nat]
    /\ outbound \in [Hash -> {"none", "inflight", "paid", "failed"}]
    /\ acked \subseteq Hash
    /\ height \in Nat /\ faults \in Nat

(* Work that is due is never lost: an invoice that waits for its payment,   *)
(* or for the claim of the payer's HTLC, has its job in the outbox, whatever *)
(* failed, was leased twice or restarted.                                   *)
WorkKeepsItsJob ==
    \A h \in Hash :
        /\ status[h] = "outbound_pending" => jobs[<<h, "send">>] \in {"pending", "processing"}
        /\ status[h] = "outbound_claimed" => jobs[<<h, "claim">>] \in {"pending", "processing"}

(* The node may forget a payment_sent it was answered 200 for: by then its  *)
(* preimage is recorded.                                                    *)
AckedMeansRecorded ==
    \A h \in acked : AtOrBeyond(status[h], "outbound_claimed") /\ status[h] # "failed"

(* An order given up for its deadline was not paid out, and never is.       *)
FailedMeansUnpaid == \A h \in Hash : status[h] = "failed" => outbound[h] = "none"

(* The receiver's invoice is accepted only while the payer's HTLC leaves    *)
(* the delivery its own delta and the margin.  No such bound holds later,   *)
(* when the invoice is paid.                                                *)
RequestLeavesRoom ==
    [][\A h \in Hash :
        status[h] # "outbound_pending" /\ status'[h] = "outbound_pending" =>
            deadline[h] + JobBlocks > height + OutboundDelta + CltvBuffer + Margin]_vars

(* No step takes an invoice back, the startup migration of a failed one     *)
(* excepted.                                                                *)
ForwardOnly ==
    [][\A h \in Hash : status[h] # "failed" => Rank(status'[h]) >= Rank(status[h])]_vars

(* Once the preimage is recorded the held HTLC is collected, unless its     *)
(* deadline passes first.                                                   *)
CollectsWhileHeld ==
    \A h \in Hash : status[h] = "outbound_claimed" /\ inbound[h] = "held" ~> inbound[h] # "held"

(* The preimage of a payment the LSP knows it made is recorded.             *)
PreimageIsRecorded ==
    \A h \in Hash :
        status[h] = "outbound_paid" /\ outbound[h] = "paid" ~> AtOrBeyond(status[h], "outbound_claimed")

-----------------------------------------------------------------------------
(* The refinement: inbound_claimed is the one final answer, as failed may   *)
(* be undone by a restart.                                                  *)

PayerSees(h) ==
    CASE inbound[h] \in {"none", "open"} -> "free"
      [] inbound[h] = "held"             -> "held"
      [] inbound[h] = "claimed"          -> "charged"
      [] inbound[h] = "timedout"         -> "released"

Abstract == INSTANCE AtomicRelay WITH
    caller <- [h \in Hash |-> PayerSees(h)],
    payee  <- [h \in Hash |-> IF outbound[h] = "paid" THEN "paid" ELSE "unpaid"],
    answer <- [h \in Hash |-> IF status[h] = "inbound_claimed" THEN "settled" ELSE "open"]

(* An asynchronous payment charges its payer only after the receiver was    *)
(* paid.                                                                    *)
PaymentIsAtomic == Abstract!Spec

-----------------------------------------------------------------------------
(* The outbox: one job is held at a time, every held job is let go of, and  *)
(* one that is due again and again has its turn.                            *)

Outbox == INSTANCE FairOutbox WITH Ids <- Job, None <- NoJob, held <- job

(* Nothing but the outbox changes its rows, whatever enqueues, fails or     *)
(* restarts, and no job is held for ever.                                   *)
UsesOutbox == Outbox!Spec
=============================================================================
