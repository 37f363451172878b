--------------------------- MODULE LightningSend ---------------------------
(***************************************************************************)
(* POST /lightning_send: the LSP pays a third party's invoice out of an    *)
(* asset the caller does not hold.  A HODL invoice carrying the third      *)
(* party's payment hash collects from the caller (inbound leg); once its   *)
(* HTLC is held the outbox pays the third party (outbound leg), and the    *)
(* preimage that payment releases claims the held HTLC.                    *)
(*                                                                         *)
(* Modelled: the HTTP handler that quotes, the two webhooks of the node,   *)
(* the pay and claim jobs of the outbox step by step between their calls,  *)
(* a database or node call that fails, a crash with a restart under other  *)
(* settings, and the node itself as far as the LSP observes it (external). *)
(***************************************************************************)
EXTENDS Naturals, OutboxTable

CONSTANTS
    Hash,             \* payment hashes
    NoJob,            \* the cron goroutine works on no job
    FinalDelta,       \* min_final_cltv_expiry_delta of the invoice of each hash
    InboundDelta,     \* APAY_INBOUND_MIN_FINAL_CLTV_EXPIRY_DELTA
    FailBackBuffer,   \* ldkHtlcFailBackBuffer
    CltvBuffer,       \* ldkMinFinalCltvBuffer
    Margin,           \* claimMarginBlocks()
    JobBlocks,        \* blocks that can arrive within one job (HTTPTimeout)
    RestartSettings,  \* values LIGHTNING_SEND_ENABLED may have after a restart
    MaxHeight,        \* bound on the chain's height
    MaxFaults         \* bound on failed calls and crashes

Job == Hash \X {"pay", "claim"}

ASSUME ConstantsAssumption ==
    /\ NoJob \notin Job
    /\ FinalDelta \in [Hash -> Nat]
    /\ InboundDelta \in Nat /\ FailBackBuffer \in Nat /\ CltvBuffer \in Nat \ {0}
    /\ FailBackBuffer + CltvBuffer <= InboundDelta
    /\ Margin \in Nat /\ JobBlocks \in Nat
    /\ RestartSettings \subseteq BOOLEAN
    /\ MaxHeight \in Nat /\ MaxFaults \in Nat

VARIABLES
    status,      \* lightning_send_mappings.status, "none" when there is no row
    jobs,        \* the outbox table
    pc, job,     \* where the cron goroutine stands, and in which job
    seen,        \* the height lightningSendCanPay last read
    quoting,     \* requests whose HODL invoice exists and whose row does not yet
    enabled,     \* LIGHTNING_SEND_ENABLED of the running process
    inbound,     \* the node's HODL invoice of each hash
    deadline,    \* claim deadline of the held HTLC, as LDK reports it
    outbound,    \* the node's payment to the third party
    outExpiry,   \* height by which the outbound HTLC has resolved
    acked,       \* hashes whose payment_sent webhook was answered 200
    height,      \* the chain
    faults,      \* faults so far
    calls        \* history: how often SendPayment was called for each hash

db    == <<status, jobs>>
cron  == <<pc, job, seen>>
node  == <<inbound, deadline, outbound, outExpiry, acked>>
vars  == <<db, cron, quoting, enabled, node, height, faults, calls>>

States == {"quoted", "claimable", "outbound_pending", "outbound_paid",
           "outbound_claimed", "settled", "cancelled", "failed"}
PayPCs == {"pay_load", "pay_check", "pay_own", "pay_send", "pay_persist",
           "fail_cancel", "fail_mark", "refund_cancel", "refund_mark"}
ClaimPCs == {"claim_load", "claim_send", "claim_persist"}

Rank(s) ==
    CASE s = "none"             -> 0
      [] s = "quoted"           -> 1
      [] s = "claimable"        -> 2
      [] s = "outbound_pending" -> 3
      [] s = "outbound_paid"    -> 4
      [] s = "outbound_claimed" -> 5
      [] s = "settled"          -> 6
      [] s = "cancelled"        -> 7
      [] s = "failed"           -> 8

AtOrBeyond(s, t) == Rank(s) >= Rank(t)
Terminal == {"settled", "cancelled", "failed"}
Refundable == {"quoted", "claimable", "outbound_pending"}

-----------------------------------------------------------------------------
Init ==
    /\ status = [h \in Hash |-> "none"]
    /\ jobs = [j \in Job |-> "absent"]
    /\ pc = "idle" /\ job = NoJob /\ seen = 0
    /\ quoting = {}
    /\ enabled = TRUE
    /\ inbound = [h \in Hash |-> "none"]
    /\ outbound = [h \in Hash |-> "none"]
    /\ deadline = [h \in Hash |-> 0]
    /\ outExpiry = [h \in Hash |-> 0]
    /\ acked = {}
    /\ height = 0 /\ faults = 0
    /\ calls = [h \in Hash |-> 0]

(* A database or node call fails, or the process crashes. *)
Fault == faults < MaxFaults /\ faults' = faults + 1

(* AdvanceLightningSend: compare-and-set of the status, with the outbox    *)
(* rows it enqueues in the same transaction; no change when the status is  *)
(* not one of from.                                                        *)

Advance(h, from, to, enqueue) ==
    IF status[h] \in from
    THEN /\ status' = [status EXCEPT ![h] = to]
         /\ jobs' = Enqueued(jobs, enqueue)
    ELSE UNCHANGED db

-----------------------------------------------------------------------------
(* The HTTP handler.                                                       *)

(* Blocks a held HTLC is sure to leave, and blocks the quote plans with.   *)
HoldBlocks == InboundDelta + CltvBuffer - FailBackBuffer
Budget == InboundDelta - FailBackBuffer - CltvBuffer

QuoteFitsWithoutMargin(h) == FinalDelta[h] <= Budget
QuoteFits(h) == FinalDelta[h] + Margin <= Budget

(* handleLightningSend up to /lninvoice.  The node refuses a second invoice *)
(* for a hash, which is what keeps two requests for one hash apart.         *)
QuoteAndRequestHodl(h) ==
    /\ enabled
    /\ QuoteFits(h)
    /\ status[h] = "none"
    /\ inbound[h] = "none"
    /\ inbound' = [inbound EXCEPT ![h] = "open"]
    /\ quoting' = quoting \union {h}
    /\ UNCHANGED <<db, cron, enabled, deadline, outbound, outExpiry, acked, height, faults, calls>>

InsertLightningSend(h) ==
    /\ h \in quoting
    /\ status' = [status EXCEPT ![h] = "quoted"]
    /\ quoting' = quoting \ {h}
    /\ UNCHANGED <<jobs, cron, enabled, node, height, faults, calls>>

(* The insert fails: the handler cancels the HODL invoice, and only logs an *)
(* error of that call.                                                      *)
InsertFails(h) ==
    /\ h \in quoting
    /\ Fault
    /\ quoting' = quoting \ {h}
    /\ inbound' \in {inbound, [inbound EXCEPT ![h] = "cancelled"]}
    /\ UNCHANGED <<db, cron, enabled, deadline, outbound, outExpiry, acked, height, calls>>

-----------------------------------------------------------------------------
(* The node and the chain (external).                                      *)

(* The caller pays the invoice the handler returned: its HTLC is held until *)
(* the claim deadline, when LDK fails it back.                              *)
CallerPays(h) ==
    /\ status[h] # "none"
    /\ inbound[h] = "open"
    /\ inbound' = [inbound EXCEPT ![h] = "held"]
    /\ deadline' = [deadline EXCEPT ![h] = height + HoldBlocks]
    /\ UNCHANGED <<db, cron, quoting, enabled, outbound, outExpiry, acked, height, faults, calls>>

PayeeClaims(h) ==
    /\ outbound[h] = "inflight"
    /\ outbound' = [outbound EXCEPT ![h] = "paid"]
    /\ UNCHANGED <<db, cron, quoting, enabled, inbound, deadline, outExpiry, acked, height, faults, calls>>

DeliveryFails(h) ==
    /\ outbound[h] = "inflight"
    /\ outbound' = [outbound EXCEPT ![h] = "failed"]
    /\ UNCHANGED <<db, cron, quoting, enabled, inbound, deadline, outExpiry, acked, height, faults, calls>>

(* A block arrives.  An HTLC in flight has resolved by its expiry, and at   *)
(* most JobBlocks blocks arrive between the check of the deadline and the   *)
(* call that acts on it.                                                    *)
NewBlock ==
    /\ height < MaxHeight
    /\ pc \in {"pay_own", "pay_send"} => height < seen + JobBlocks
    /\ \A h \in Hash : outbound[h] = "inflight" => height < outExpiry[h]
    /\ height' = height + 1
    /\ inbound' = [h \in Hash |->
                     IF inbound[h] = "held" /\ deadline[h] <= height + 1
                     THEN "timedout" ELSE inbound[h]]
    /\ UNCHANGED <<db, cron, quoting, enabled, deadline, outbound, outExpiry, acked, faults, calls>>

(* The effect of /cancelhodlinvoice when it has one.                        *)
CancelTakesEffect(h) ==
    /\ inbound[h] \in {"open", "held"}
    /\ inbound' = [inbound EXCEPT ![h] = "cancelled"]

-----------------------------------------------------------------------------
(* Webhooks.  The node may deliver one late, again, or both out of order.   *)

(* /internal/async_order/claimable for an owned hash. *)
ClaimableWebhook(h) ==
    /\ enabled /\ status[h] # "none"
    /\ inbound[h] \notin {"none", "open"} /\ deadline[h] > 0
    /\ Advance(h, {"quoted"}, "claimable", {<<h, "pay">>})
    /\ UNCHANGED <<cron, quoting, enabled, node, height, faults, calls>>

(* /internal/async_order/payment_sent for an owned hash.  In a state before *)
(* outbound_pending it is answered 500 and changes nothing.                 *)
PaymentSentWebhookEarly(h) ==
    /\ enabled /\ outbound[h] = "paid"
    /\ Advance(h, {"outbound_paid"}, "outbound_claimed", {<<h, "claim">>})
    /\ acked' = acked \union {h}
    /\ UNCHANGED <<cron, quoting, enabled, inbound, deadline, outbound, outExpiry, height, faults, calls>>

PaymentSentWebhook(h) ==
    /\ enabled /\ outbound[h] = "paid"
    /\ AtOrBeyond(status[h], "outbound_pending")
    /\ Advance(h, {"outbound_pending", "outbound_paid"}, "outbound_claimed", {<<h, "claim">>})
    /\ acked' = acked \union {h}
    /\ UNCHANGED <<cron, quoting, enabled, inbound, deadline, outbound, outExpiry, height, faults, calls>>

(* With the feature off the relay owns no hash, and as no APay invoice has  *)
(* this one the webhook is answered 200 and ignored.                        *)
PaymentSentIgnored(h) ==
    /\ ~enabled /\ outbound[h] = "paid"
    /\ acked' = acked \union {h}
    /\ UNCHANGED <<db, cron, quoting, enabled, inbound, deadline, outbound, outExpiry, height, faults, calls>>

-----------------------------------------------------------------------------
(* The cron goroutine: one outbox job at a time (runAsyncOrderOutbox).      *)

hash == job[1]

Goto(l) == pc' = l /\ UNCHANGED <<job, seen>>

ClaimOutboxJob(j) ==
    /\ pc = "idle"
    /\ j \in Claimable(jobs)
    /\ jobs' = Taken(jobs, j)
    /\ job' = j
    /\ pc' = IF j[2] = "pay" THEN "pay_load" ELSE "claim_load"
    /\ UNCHANGED <<status, seen, quoting, enabled, node, height, faults, calls>>

(* A job that returned an error is due again, any other is done.  When this *)
(* write fails the row stays leased, as after a crash here.                 *)
FinishWithoutRetry ==
    /\ pc \in {"done", "retry"}
    /\ jobs' = MarkedDone(jobs, job)
    /\ pc' = "idle" /\ job' = NoJob
    /\ UNCHANGED <<status, seen, quoting, enabled, node, height, faults, calls>>

FinishJob ==
    /\ pc \in {"done", "retry"}
    /\ jobs' = IF pc = "done" THEN MarkedDone(jobs, job) ELSE MarkedRetry(jobs, job)
    /\ pc' = "idle" /\ job' = NoJob
    /\ UNCHANGED <<status, seen, quoting, enabled, node, height, faults, calls>>

(* A call fails without effect: the job returns the error.                  *)
JobError ==
    /\ pc \in {"pay_load", "pay_own", "pay_persist", "claim_load", "claim_send", "claim_persist"}
    /\ Fault
    /\ Goto("retry")
    /\ UNCHANGED <<db, quoting, enabled, node, height, calls>>

(* The process stops and starts again: leases and records survive.          *)
Restart(setting) ==
    /\ Fault
    /\ pc' = "idle" /\ job' = NoJob /\ seen' = 0
    /\ quoting' = {}
    /\ enabled' = setting
    /\ UNCHANGED <<db, node, height, calls>>

-----------------------------------------------------------------------------
(* lightningSendPayOutboundJob                                             *)

LoadForPay ==
    /\ pc = "pay_load"
    /\ Goto(IF AtOrBeyond(status[hash], "outbound_paid") THEN "done" ELSE "pay_check")
    /\ UNCHANGED <<db, quoting, enabled, node, height, faults, calls>>

(* lightningSendCanPay reads the height from the node.                      *)
DeadlineFitsWithoutMargin(h) == deadline[h] > height
DeadlineFits(h) == deadline[h] > height /\ deadline[h] - height > Margin + FinalDelta[h]

CanPay ==
    /\ pc = "pay_check"
    /\ DeadlineFits(hash)
    /\ pc' = "pay_own" /\ seen' = height
    /\ UNCHANGED <<job, db, quoting, enabled, node, height, faults, calls>>

(* Too late, or any error of its two calls: a delivery invoice that has     *)
(* expired and a node that did not answer are refused alike.                *)
RefusePay ==
    /\ pc = "pay_check"
    /\ \/ ~DeadlineFits(hash) /\ UNCHANGED faults
       \/ Fault
    /\ Goto("fail_cancel")
    /\ UNCHANGED <<db, quoting, enabled, node, height, calls>>

OwnWithoutCheck ==
    /\ pc = "pay_own"
    /\ Advance(hash, {"claimable"}, "outbound_pending", {})
    /\ Goto("pay_send")
    /\ UNCHANGED <<quoting, enabled, node, height, faults, calls>>

(* Take ownership before touching the node.                                 *)
OwnDelivery ==
    /\ pc = "pay_own"
    /\ Advance(hash, {"claimable"}, "outbound_pending", {})
    /\ Goto(IF status[hash] = "claimable" THEN "pay_send"
            ELSE IF AtOrBeyond(status[hash], "outbound_pending") THEN "done" ELSE "retry")
    /\ UNCHANGED <<quoting, enabled, node, height, faults, calls>>

SendPayment(result) ==
    /\ pc = "pay_send"
    /\ calls' = [calls EXCEPT ![hash] = @ + 1]
    /\ outbound' = [outbound EXCEPT ![hash] = result]
    /\ outExpiry' = [outExpiry EXCEPT ![hash] = height + FinalDelta[hash]]
    /\ UNCHANGED <<db, quoting, enabled, inbound, deadline, acked, height>>

SendAccepted == SendPayment("inflight") /\ Goto("pay_persist") /\ UNCHANGED faults

SendReportedFailed == SendPayment("failed") /\ Goto("refund_cancel") /\ UNCHANGED faults

(* Transport error: the payment may have started or not.                    *)

SendLost(result) == SendPayment(result) /\ Goto("retry") /\ Fault

MarkOutboundPaid ==
    /\ pc = "pay_persist"
    /\ Advance(hash, {"outbound_pending"}, "outbound_paid", {})
    /\ Goto("done")
    /\ UNCHANGED <<quoting, enabled, node, height, faults, calls>>

(* failLightningSend and refundLightningSend: cancel the HODL invoice, then *)
(* record it.  An error of either call is only logged.                      *)
CancelHodl ==
    /\ pc \in {"fail_cancel", "refund_cancel"}
    /\ \/ CancelTakesEffect(hash) /\ UNCHANGED faults
       \/ inbound[hash] = "held" /\ Fault /\ UNCHANGED inbound
       \/ inbound[hash] # "held" /\ UNCHANGED <<inbound, faults>>
    /\ Goto(IF pc = "fail_cancel" THEN "fail_mark" ELSE "refund_mark")
    /\ UNCHANGED <<db, quoting, enabled, deadline, outbound, outExpiry, acked, height, calls>>

MarkTerminal ==
    /\ pc \in {"fail_mark", "refund_mark"}
    /\ \/ /\ Advance(hash, Refundable, IF pc = "fail_mark" THEN "failed" ELSE "cancelled", {})
          /\ UNCHANGED faults
       \/ Fault /\ UNCHANGED db
    /\ Goto("done")
    /\ UNCHANGED <<quoting, enabled, node, height, calls>>

-----------------------------------------------------------------------------
(* lightningSendClaimInboundJob                                            *)

LoadForClaim ==
    /\ pc = "claim_load"
    /\ Goto(IF AtOrBeyond(status[hash], "settled") THEN "done"
            ELSE IF status[hash] # "outbound_claimed" THEN "retry" ELSE "claim_send")
    /\ UNCHANGED <<db, quoting, enabled, node, height, faults, calls>>

(* /claimhodlinvoice on a held HTLC, its answer arriving or lost.           *)
ClaimHodl ==
    /\ pc = "claim_send"
    /\ inbound[hash] = "held"
    /\ inbound' = [inbound EXCEPT ![hash] = "claimed"]
    /\ \/ Goto("claim_persist") /\ UNCHANGED faults
       \/ Goto("retry") /\ Fault
    /\ UNCHANGED <<db, quoting, enabled, deadline, outbound, outExpiry, acked, height, calls>>

(* Nothing is held any more: an HTLC claimed before may be answered either  *)
(* way, one that was failed back is an error.                               *)
ClaimHodlIgnoringError ==
    /\ pc = "claim_send"
    /\ inbound[hash] # "held"
    /\ Goto("claim_persist")
    /\ UNCHANGED <<db, quoting, enabled, node, height, faults, calls>>

ClaimHodlAgain ==
    /\ pc = "claim_send"
    /\ inbound[hash] # "held"
    /\ \/ Goto("retry")
       \/ inbound[hash] = "claimed" /\ Goto("claim_persist")
    /\ UNCHANGED <<db, quoting, enabled, node, height, faults, calls>>

MarkSettled ==
    /\ pc = "claim_persist"
    /\ Advance(hash, {"outbound_claimed"}, "settled", {})
    /\ Goto("done")
    /\ UNCHANGED <<quoting, enabled, node, height, faults, calls>>

-----------------------------------------------------------------------------
PayJob ==
    \/ LoadForPay \/ CanPay \/ RefusePay \/ OwnDelivery
    \/ SendAccepted \/ SendReportedFailed \/ SendLost("none") \/ SendLost("inflight")
    \/ MarkOutboundPaid \/ CancelHodl \/ MarkTerminal

ClaimJob == LoadForClaim \/ ClaimHodl \/ ClaimHodlAgain \/ MarkSettled

Cron ==
    \/ \E j \in Job : ClaimOutboxJob(j)
    \/ FinishJob \/ JobError \/ PayJob \/ ClaimJob

Handlers(h) ==
    \/ QuoteAndRequestHodl(h) \/ InsertLightningSend(h) \/ InsertFails(h)
    \/ ClaimableWebhook(h) \/ PaymentSentWebhook(h) \/ PaymentSentIgnored(h)

Environment(h) == CallerPays(h) \/ PayeeClaims(h) \/ DeliveryFails(h)

Next ==
    \/ Cron
    \/ \E h \in Hash : Handlers(h) \/ Environment(h)
    \/ NewBlock
    \/ \E setting \in RestartSettings : Restart(setting)

Spec == Init /\ [][Next]_vars

(* The node repeats a webhook until it is answered 200, and the cron tick   *)
(* comes back to every due job: a tick takes ten, more than are ever due    *)
(* here.  Neither the caller, the payee nor the chain has to do anything.   *)
Fairness ==
    /\ \A h \in Hash : WF_vars(InsertLightningSend(h))
    /\ \A h \in Hash : WF_vars(ClaimableWebhook(h))
    /\ \A h \in Hash : WF_vars(h \notin acked /\ PaymentSentWebhook(h))
    /\ \A j \in Job : SF_vars(ClaimOutboxJob(j))
    /\ WF_vars(FinishJob) /\ WF_vars(PayJob) /\ WF_vars(ClaimJob)

FairSpec == Spec /\ Fairness

-----------------------------------------------------------------------------
(* Properties of the relay.                                                *)

TypeOK ==
    /\ status \in [Hash -> States \union {"none"}]
    /\ jobs \in [Job -> JobStates]
    /\ pc \in PayPCs \union ClaimPCs \union {"idle", "done", "retry"}
    /\ job \in Job \union {NoJob}
    /\ seen \in Nat
    /\ quoting \subseteq Hash
    /\ enabled \in BOOLEAN
    /\ inbound \in [Hash -> {"none", "open", "held", "claimed", "cancelled", "timedout"}]
    /\ deadline \in [Hash -> Nat]
    /\ outbound \in [Hash -> {"none", "inflight", "paid", "failed"}]
    /\ outExpiry \in [Hash -> Nat]
    /\ acked \subseteq Hash
    /\ height \in Nat /\ faults \in Nat
    /\ calls \in [Hash -> Nat]

(* "A concurrent job must not pay the same invoice twice"                   *)
(* (lightning_send.go:425): whatever is retried, leased again or restarted, *)
(* SendPayment is called at most once for a hash.                           *)
PayAtMostOnce == \A h \in Hash : calls[h] <= 1

(* cancelled is "failed back before any delivery" (models.go:546): once it  *)
(* is recorded, no payment to the third party runs or has arrived.          *)
CancelledMeansUndelivered ==
    \A h \in Hash : status[h] = "cancelled" => outbound[h] = "failed"

(* A preimage in hand is not forgotten: until the HTLC is settled the claim *)
(* job is in the outbox and not done (lightning_send_store.go:126).         *)
PreimageKeepsItsJob ==
    \A h \in Hash : status[h] = "outbound_claimed" => jobs[<<h, "claim">>] \in {"pending", "processing"}

(* A payment to the third party resolves while there is still time to claim *)
(* the caller's HTLC: what is left is the margin less the blocks that came  *)
(* in between lightningSendCanPay and SendPayment.                          *)
DeliveryResolvesInTime ==
    \A h \in Hash :
        outbound[h] = "inflight" => deadline[h] + JobBlocks > outExpiry[h] + Margin

(* A HODL invoice the quote accepted leaves, at the moment its HTLC is      *)
(* held, the blocks lightningSendCanPay asks for: the quote and the gate    *)
(* before the payment use different formulas.                               *)
QuoteLeavesRoomToPay ==
    \A h \in Hash :
        inbound[h] = "held" /\ deadline[h] = height + HoldBlocks => DeadlineFits(h)

(* A terminal status stays, and no step takes a record back.                *)
ForwardOnly ==
    [][\A h \in Hash :
        /\ Rank(status'[h]) >= Rank(status[h])
        /\ status[h] \in Terminal => status'[h] = status[h]]_vars

(* Once the preimage is recorded the held HTLC is collected, unless its     *)
(* deadline passes first.                                                   *)
CollectsWhileHeld ==
    \A h \in Hash : status[h] = "outbound_claimed" /\ inbound[h] = "held" ~> inbound[h] # "held"

(* While the feature stays on, a payment that reached the third party is    *)
(* recorded, unless the relay had been given up before.                     *)
PreimageIsRecorded ==
    []enabled => \A h \in Hash :
                    outbound[h] = "paid" ~> AtOrBeyond(status[h], "outbound_claimed")

-----------------------------------------------------------------------------
(* The inductive invariant behind the safety properties, by what each part  *)
(* is about.                                                                *)

(* The cron goroutine works on a leased job of the kind its position says.  *)
CronInv ==
    /\ pc = "idle" <=> job = NoJob
    /\ job # NoJob => jobs[job] = "processing"
    /\ \A h \in Hash : jobs[<<h, "pay">>] # "absent" => AtOrBeyond(status[h], "claimable")
    /\ pc \in PayPCs => job[2] = "pay"
    /\ pc \in ClaimPCs => job[2] = "claim"

(* A request between /lninvoice and its insert is alone with its hash.      *)
QuotingInv == \A h \in quoting : status[h] = "none" /\ inbound[h] = "open"

(* SendPayment is called by the owner of a delivery, and only once.         *)
DeliveryInv ==
    /\ \A h \in Hash :
        /\ calls[h] = 0 => outbound[h] = "none"
        /\ calls[h] # 0 => calls[h] = 1 /\ AtOrBeyond(status[h], "outbound_pending") /\ deadline[h] > 0
        /\ status[h] \in {"outbound_claimed", "settled"} => outbound[h] = "paid"
        /\ status[h] = "cancelled" => outbound[h] = "failed"
    /\ pc = "pay_send" => status[hash] = "outbound_pending" /\ calls[hash] = 0
    /\ pc \in {"refund_cancel", "refund_mark"} => outbound[hash] = "failed"

(* The claim job exists from the preimage to the settlement.                *)
ClaimInv ==
    /\ \A h \in Hash :
        /\ status[h] = "outbound_claimed" => jobs[<<h, "claim">>] \in {"pending", "processing"}
        /\ jobs[<<h, "claim">>] # "absent" => status[h] \in {"outbound_claimed", "settled"}
        /\ status[h] = "settled" => inbound[h] = "claimed"
        /\ inbound[h] = "claimed" => outbound[h] = "paid"
    /\ pc = "claim_persist" => inbound[hash] = "claimed"
    /\ pc = "done" /\ job[2] = "claim" => status[hash] = "settled"

(* The heights: a deadline is set once, and what lightningSendCanPay saw    *)
(* still holds when the payment goes out.                                   *)
DeadlineInv ==
    /\ \A h \in Hash :
        /\ inbound[h] \in {"none", "open"} => deadline[h] = 0
        /\ inbound[h] # "none" => QuoteFits(h)
        /\ outbound[h] = "inflight" => deadline[h] + JobBlocks > outExpiry[h] + Margin
    /\ pc \in {"pay_own", "pay_send"} =>
        /\ seen <= height /\ height <= seen + JobBlocks
        /\ deadline[hash] > seen + (Margin + FinalDelta[hash])

IInv == TypeOK /\ CronInv /\ QuotingInv /\ DeliveryInv /\ ClaimInv /\ DeadlineInv

-----------------------------------------------------------------------------
(* The refinement: the caller sees its HTLC, the third party its payment,   *)
(* and GET /lightning_send/{payment_hash} the terminal statuses.            *)

CallerSees(h) ==
    CASE inbound[h] \in {"none", "open"}          -> "free"
      [] inbound[h] = "held"                      -> "held"
      [] inbound[h] = "claimed"                   -> "charged"
      [] inbound[h] \in {"cancelled", "timedout"} -> "released"

Abstract == INSTANCE AtomicRelay WITH
    caller <- [h \in Hash |-> CallerSees(h)],
    payee  <- [h \in Hash |-> IF outbound[h] = "paid" THEN "paid" ELSE "unpaid"],
    answer <- [h \in Hash |-> IF status[h] \in Terminal THEN status[h] ELSE "open"]

(* The relay implements the promise to the caller.                          *)
RelayIsAtomic == Abstract!Spec

-----------------------------------------------------------------------------
(* The outbox: one job is held at a time, every held job is let go of, and  *)
(* one that is due again and again has its turn.                            *)

Outbox == INSTANCE FairOutbox WITH Ids <- Job, None <- NoJob, held <- job

(* Nothing but the outbox changes its rows, whatever enqueues, fails or     *)
(* restarts, and no job is held for ever.                                   *)
UsesOutbox == Outbox!Spec

-----------------------------------------------------------------------------
(* A statement of the documentation that the code does not keep.            *)

(* "failed is a relay refused before delivery" (README.md:206).             *)
FailedMeansUndelivered ==
    \A h \in Hash : status[h] = "failed" => outbound[h] \in {"none", "failed"}
=============================================================================
