-------------------------- MODULE ApayOrderProofs --------------------------
(***************************************************************************)
(* Proofs about ApayOrder, for every set of hashes, every setting of the   *)
(* deltas and margins and any number of faults.                            *)
(*                                                                         *)
(* One lemma per action shows that it preserves the inductive invariant    *)
(* IInv; the theorems follow it.  MaxHeight and MaxFaults only bound the   *)
(* instances TLC explores: no proof uses them.                             *)
(*                                                                         *)
(* The last section is about OutboxSchedule, the schedule by which the     *)
(* outbox that ApayOrder assumes hands out its jobs.                       *)
(***************************************************************************)
EXTENDS ApayOrder, TLAPS

Sent == {"outbound_pending", "outbound_paid", "outbound_claimed", "inbound_claimed"}
Paid == {"outbound_paid", "outbound_claimed", "inbound_claimed"}
Preimage == {"outbound_claimed", "inbound_claimed"}

(* An invoice, what its row remembers, the payer's HTLC and the delivery.  *)
OrderOf(h) ==
    /\ inbound[h] = "none" <=> status[h] = "none"
    /\ inbound[h] = "open" => status[h] = "active"
    /\ status[h] \in {"none", "active"} => stamped[h] = "none"
    /\ status[h] \notin {"none", "active", "failed"} => stamped[h] = status[h]
    /\ status[h] = "failed" => stamped[h] \in {"claimable", "outbound_requested"}
    /\ outbound[h] # "none" => status[h] \in Sent
    /\ status[h] \in Preimage => outbound[h] = "paid"
    /\ inbound[h] = "claimed" => status[h] \in Preimage
    /\ status[h] = "inbound_claimed" => inbound[h] = "claimed"
    /\ h \in acked => status[h] \in Preimage

OrderInv == \A h \in Hash : OrderOf(h)

(* Which jobs an invoice has in the outbox.                                *)
JobsOf(h) ==
    /\ jobs[<<h, "request">>] # "absent" => status[h] \notin {"none", "active"}
    /\ jobs[<<h, "send">>] # "absent" <=> status[h] \in Sent
    /\ jobs[<<h, "send">>] = "done" => status[h] \in Paid
    /\ jobs[<<h, "claim">>] # "absent" <=> status[h] \in Preimage
    /\ jobs[<<h, "claim">>] = "done" => status[h] = "inbound_claimed"

JobInv == \A h \in Hash : JobsOf(h)

(* What the cron goroutine knows at each of its steps.                     *)
CronInv ==
    /\ pc # "idle" => job \in Job /\ jobs[job] # "absent"
    /\ pc \in RequestPCs => job[2] = "request"
    /\ pc \in SendPCs => job[2] = "send"
    /\ pc \in ClaimPCs => job[2] = "claim"
    /\ pc \in {"send_pay", "send_persist"} => status[hash] = "outbound_pending"
    /\ pc \in {"claim_hodl", "claim_persist"} => status[hash] = "outbound_claimed"
    /\ pc = "claim_persist" => inbound[hash] = "claimed"
    /\ pc = "done" /\ job[2] = "send" => status[hash] \in Paid
    /\ pc = "done" /\ job[2] = "claim" => status[hash] = "inbound_claimed"

(* The receiver's invoice that is about to be recorded left room when it   *)
(* was looked at, at most JobBlocks ago.                                   *)
DeadlineInv ==
    pc = "request_persist" =>
        /\ seen <= height /\ height <= seen + JobBlocks
        /\ deadline[hash] > seen + OutboundDelta + CltvBuffer + Margin

IInv == TypeOK /\ OrderInv /\ JobInv /\ CronInv /\ DeadlineInv

-----------------------------------------------------------------------------
(* Facts about the operators.                                              *)

(* A job is a hash and one of the three actions of the outbox.             *)
LEMMA JobFacts ==
    /\ \A h \in Hash : <<h, "request">> \in Job /\ <<h, "send">> \in Job /\ <<h, "claim">> \in Job
    /\ \A j \in Job : j[1] \in Hash /\ j[2] \in {"request", "send", "claim"} /\ j = <<j[1], j[2]>>
BY DEF Job, Action

(* models.go numbers the statuses of an asynchronous payment.              *)
LEMMA RankValues ==
    /\ Rank("none") = 0 /\ Rank("active") = 20 /\ Rank("claimable") = 30
    /\ Rank("outbound_requested") = 40 /\ Rank("outbound_pending") = 50
    /\ Rank("outbound_paid") = 60 /\ Rank("outbound_claimed") = 70
    /\ Rank("inbound_claimed") = 80 /\ Rank("failed") = 100
BY DEF Rank

(* What a comparison of statuses with AtOrBeyond means.                    *)
LEMMA RankFacts ==
    \A s \in States \union {"none"} :
        /\ Rank(s) \in 0..100
        /\ AtOrBeyond(s, "outbound_requested") <=> s \notin {"none", "active", "claimable"}
        /\ AtOrBeyond(s, "outbound_paid") <=> s \in Paid \union {"failed"}
        /\ AtOrBeyond(s, "outbound_claimed") <=> s \in Preimage \union {"failed"}
        /\ AtOrBeyond(s, "inbound_claimed") <=> s \in {"inbound_claimed", "failed"}
BY RankValues DEF States, AtOrBeyond, Paid, Preimage

(* What a compare-and-set does: it moves one invoice, stamps it and enqueues *)
(* its jobs.                                                               *)
Marked(h, from, to, rows) ==
    /\ status' \in [Hash -> States \union {"none"}]
    /\ stamped' \in [Hash -> (States \ {"active", "failed"}) \union {"none"}]
    /\ jobs' \in [Job -> JobStates]
    /\ \A g \in Hash : status'[g] = IF g = h /\ status[h] = from THEN to ELSE status[g]
    /\ \A g \in Hash : stamped'[g] = IF g = h /\ status[h] = from THEN to ELSE stamped[g]
    /\ \A j \in Job : jobs'[j] = IF status[h] = from /\ j \in rows /\ jobs[j] = "absent"
                                 THEN "pending" ELSE jobs[j]

(* Mark is one.                                                            *)
LEMMA MarkFacts ==
    ASSUME TypeOK, NEW h \in Hash, NEW from, NEW to \in States \ {"active", "failed"},
           NEW rows \in SUBSET Job, Mark(h, from, to, rows)
    PROVE  Marked(h, from, to, rows)
<1>. USE DEF Marked
<1>1. CASE status[h] = from
  <2>1. /\ status' = [status EXCEPT ![h] = to] /\ stamped' = [stamped EXCEPT ![h] = to]
        /\ jobs' = Enqueued(jobs, rows)
    BY <1>1 DEF Mark, Moved
  <2>2. DOMAIN jobs = Job
    BY DEF TypeOK
  <2>3. jobs' = [j \in Job |-> IF j \in rows /\ jobs[j] = "absent" THEN "pending" ELSE jobs[j]]
    BY <2>1, <2>2 DEF Enqueued
  <2>4. jobs' \in [Job -> JobStates]
    BY <2>3 DEF TypeOK, JobStates
  <2>5. /\ status' \in [Hash -> States \union {"none"}]
        /\ stamped' \in [Hash -> (States \ {"active", "failed"}) \union {"none"}]
    BY <2>1 DEF TypeOK
  <2>. QED BY <1>1, <2>1, <2>3, <2>4, <2>5 DEF TypeOK
<1>2. CASE status[h] # from
  BY <1>2 DEF Mark, db, TypeOK
<1>. QED BY <1>1, <1>2

(* The hash and the action of a job, for the outbox of each invoice.       *)
LEMMA JobsDiffer ==
    ASSUME NEW g \in Hash, NEW h \in Hash, NEW a \in Action, NEW b \in Action
    PROVE  <<g, a>> = <<h, b>> <=> g = h /\ a = b
OBVIOUS

-----------------------------------------------------------------------------
(* Every action preserves the invariant.                                   *)

(* The HODL invoice is handed out for a hash without a row.                *)
LEMMA IssueInvoiceInv ==
    ASSUME NEW h \in Hash, IInv, IssueInvoice(h)
    PROVE  IInv'
<1>. USE DEF IInv, cron, IssueInvoice
<1>1. TypeOK'
  BY DEF TypeOK, States
<1>2. OrderInv'
  BY DEF OrderInv, OrderOf, TypeOK, Sent, Preimage
<1>3. \A g \in Hash : status'[g] = IF g = h THEN "active" ELSE status[g]
  BY DEF TypeOK
<1>4. JobInv'
  <2>. SUFFICES ASSUME NEW g \in Hash PROVE JobsOf(g)'
    BY DEF JobInv
  <2>1. JobsOf(g)
    BY DEF JobInv
  <2>. QED
    BY <2>1, <1>3 DEF JobsOf, Sent, Preimage
<1>5. CronInv'
  BY <1>3 DEF CronInv, Paid, hash
<1>6. DeadlineInv'
  BY DEF DeadlineInv, hash
<1>. QED BY <1>1, <1>2, <1>4, <1>5, <1>6

(* The deadline is set here, before the receiver was asked for anything.   *)
LEMMA PayerPaysInv ==
    ASSUME NEW h \in Hash, IInv, PayerPays(h)
    PROVE  IInv'
<1>. USE DEF IInv, db, cron, node, PayerPays
<1>1. TypeOK'
  BY ConstantsAssumption DEF TypeOK, HoldBlocks
<1>2. OrderInv'
  BY DEF OrderInv, OrderOf, TypeOK, Sent, Preimage
<1>3. JobInv' /\ CronInv'
  BY JobFacts DEF JobInv, JobsOf, CronInv, OrderInv, OrderOf, TypeOK, hash
<1>4. status[h] = "active"
  BY DEF OrderInv, OrderOf
<1>5. pc = "request_persist" => hash \in Hash /\ hash # h
  BY <1>4, JobFacts DEF CronInv, JobInv, JobsOf, RequestPCs, hash
<1>6. DeadlineInv'
  BY <1>5 DEF DeadlineInv, TypeOK, hash
<1>. QED BY <1>1, <1>2, <1>3, <1>6

(* The receiver claims a payment in flight.                                *)
LEMMA ReceiverClaimsInv ==
    ASSUME NEW h \in Hash, IInv, ReceiverClaims(h)
    PROVE  IInv'
<1>. USE DEF IInv, db, cron, node, ReceiverClaims, Goto, hash
<1>1. TypeOK'
  BY DEF TypeOK
<1>2. OrderInv'
  BY DEF OrderInv, OrderOf
<1>3. JobInv'
  BY DEF JobInv, JobsOf
<1>4. CronInv'
  BY DEF CronInv
<1>5. DeadlineInv'
  BY DEF DeadlineInv
<1>. QED BY <1>1, <1>2, <1>3, <1>4, <1>5

(* A payment in flight fails.                                              *)
LEMMA DeliveryFailsInv ==
    ASSUME NEW h \in Hash, IInv, DeliveryFails(h)
    PROVE  IInv'
<1>. USE DEF IInv, db, cron, node, DeliveryFails, Goto, hash
<1>1. TypeOK'
  BY DEF TypeOK
<1>2. OrderInv'
  BY DEF OrderInv, OrderOf
<1>3. JobInv'
  BY DEF JobInv, JobsOf
<1>4. CronInv'
  BY DEF CronInv
<1>5. DeadlineInv'
  BY DEF DeadlineInv
<1>. QED BY <1>1, <1>2, <1>3, <1>4, <1>5

(* A block may time HTLCs out, and may not run past JobBlocks.             *)
LEMMA NewBlockInv ==
    ASSUME IInv, NewBlock
    PROVE  IInv'
<1>. USE DEF IInv, db, cron, node, NewBlock, Goto, hash
<1>1. TypeOK'
  BY DEF TypeOK
<1>2. OrderInv'
  BY DEF OrderInv, OrderOf
<1>3. JobInv'
  BY DEF JobInv, JobsOf
<1>4. CronInv'
  BY JobFacts DEF CronInv
<1>5. DeadlineInv'
  BY ConstantsAssumption DEF DeadlineInv, TypeOK
<1>. QED BY <1>1, <1>2, <1>3, <1>4, <1>5

(* The claimable webhook moves an invoice and enqueues its request job.    *)
LEMMA ClaimableWebhookInv ==
    ASSUME NEW h \in Hash, IInv, ClaimableWebhook(h)
    PROVE  IInv'
<1>. USE DEF IInv, cron, node, ClaimableWebhook
<1>0. "claimable" \in States \ {"active", "failed"} /\ {<<h, "request">>} \in SUBSET Job
  BY JobFacts DEF States
<1>m. Marked(h, "active", "claimable", {<<h, "request">>})
  BY <1>0, MarkFacts
<1>. USE <1>m DEF Marked
<1>1. TypeOK'
  BY DEF TypeOK
<1>2. OrderInv'
  <2>. SUFFICES ASSUME NEW g \in Hash PROVE OrderOf(g)'
    BY DEF OrderInv
  <2>1. OrderOf(g)
    BY DEF OrderInv
  <2>. QED
    BY <2>1 DEF OrderOf, Sent, Preimage
<1>3. JobInv'
  <2>. SUFFICES ASSUME NEW g \in Hash PROVE JobsOf(g)'
    BY DEF JobInv
  <2>1. JobsOf(g)
    BY DEF JobInv
  <2>. QED
    BY <2>1, JobFacts DEF JobsOf, Sent, Preimage
<1>4. CronInv'
  BY JobFacts DEF CronInv, Paid, hash
<1>5. DeadlineInv'
  BY DEF DeadlineInv, hash
<1>. QED BY <1>1, <1>2, <1>3, <1>4, <1>5

(* The payment_sent webhook records the preimage with its claim job.       *)
LEMMA PaymentSentWebhookInv ==
    ASSUME NEW h \in Hash, IInv, PaymentSentWebhook(h)
    PROVE  IInv'
<1>. USE DEF IInv, cron, PaymentSentWebhook
<1>0. "outbound_claimed" \in States \ {"active", "failed"} /\ {<<h, "claim">>} \in SUBSET Job
  BY JobFacts DEF States
<1>a. status[h] \in Paid
  BY RankFacts DEF OrderInv, OrderOf, TypeOK, Sent
<1>m. Marked(h, "outbound_paid", "outbound_claimed", {<<h, "claim">>})
  BY <1>0, MarkFacts
<1>. USE <1>m DEF Marked
<1>1. TypeOK'
  BY DEF TypeOK
<1>2. OrderInv'
  <2>. SUFFICES ASSUME NEW g \in Hash PROVE OrderOf(g)'
    BY DEF OrderInv
  <2>1. OrderOf(g)
    BY DEF OrderInv
  <2>. QED
    BY <2>1, <1>a DEF OrderOf, Sent, Paid, Preimage
<1>3. JobInv'
  <2>. SUFFICES ASSUME NEW g \in Hash PROVE JobsOf(g)'
    BY DEF JobInv
  <2>1. JobsOf(g)
    BY DEF JobInv
  <2>. QED
    BY <2>1, JobFacts DEF JobsOf, Sent, Paid, Preimage
<1>4. CronInv'
  BY JobFacts DEF CronInv, Paid, hash
<1>5. DeadlineInv'
  BY DEF DeadlineInv, hash
<1>. QED BY <1>1, <1>2, <1>3, <1>4, <1>5

(* The cron goroutine leases a job.                                        *)
LEMMA ClaimOutboxJobInv ==
    ASSUME NEW j \in Job, IInv, ClaimOutboxJob(j)
    PROVE  IInv'
<1>. USE DEF IInv, db, cron, node, ClaimOutboxJob
<1>0. /\ jobs' = [jobs EXCEPT ![j] = "processing"] /\ jobs[j] \in {"pending", "processing"}
      /\ jobs \in [Job -> JobStates]
  BY DEF Claimable, Taken, TypeOK
<1>1. TypeOK'
  BY <1>0, JobFacts DEF TypeOK, JobStates, RequestPCs, SendPCs, ClaimPCs
<1>2. \A k \in Job : jobs'[k] = IF k = j THEN "processing" ELSE jobs[k]
  BY <1>0
<1>3. JobInv'
  BY <1>0, <1>2, JobFacts DEF JobInv, JobsOf
<1>4. CronInv'
  BY <1>0, <1>2, JobFacts DEF CronInv, RequestPCs, SendPCs, ClaimPCs
<1>5. OrderInv' /\ DeadlineInv'
  BY JobFacts DEF OrderInv, OrderOf, DeadlineInv
<1>. QED BY <1>1, <1>3, <1>4, <1>5

(* A job is marked done or due again.                                      *)
LEMMA FinishJobInv ==
    ASSUME IInv, FinishJob
    PROVE  IInv'
<1>. USE DEF IInv, node, FinishJob
<1>0. job \in Job /\ hash \in Hash /\ job = <<hash, job[2]>> /\ job[2] \in Action
  BY JobFacts DEF CronInv, hash, Action
<1>1. \A k \in Job : jobs'[k] = IF k = job THEN IF pc = "done" THEN "done" ELSE "pending" ELSE jobs[k]
  BY DEF MarkedDone, MarkedRetry, TypeOK
<1>2. TypeOK'
  BY <1>0 DEF TypeOK, JobStates, MarkedDone, MarkedRetry
<1>3. JobInv'
  <2>. SUFFICES ASSUME NEW h \in Hash PROVE JobsOf(h)'
    BY DEF JobInv
  <2>. QED
    BY <1>0, <1>1, JobFacts DEF JobInv, JobsOf, CronInv
<1>4. OrderInv' /\ CronInv' /\ DeadlineInv'
  BY DEF OrderInv, OrderOf, CronInv, DeadlineInv, RequestPCs, SendPCs, ClaimPCs
<1>. QED BY <1>2, <1>3, <1>4

(* A call fails and the job returns its error.                             *)
LEMMA JobErrorInv ==
    ASSUME IInv, JobError
    PROVE  IInv'
<1>. USE DEF IInv, db, cron, node, JobError, Goto, hash
<1>1. TypeOK'
  BY DEF TypeOK, Fault
<1>2. OrderInv'
  BY DEF OrderInv, OrderOf
<1>3. JobInv'
  BY DEF JobInv, JobsOf
<1>4. CronInv'
  BY DEF CronInv, RequestPCs, SendPCs, ClaimPCs
<1>5. DeadlineInv'
  BY DEF DeadlineInv
<1>. QED BY <1>1, <1>2, <1>3, <1>4, <1>5

(* The startup migration gives a failed invoice its stamped status.        *)
LEMMA RestartInv ==
    ASSUME IInv, Restart
    PROVE  IInv'
<1>. USE DEF IInv, db, cron, node, Restart, Goto, hash
<1>1. TypeOK'
  BY DEF TypeOK, Fault
<1>2. OrderInv'
  BY DEF OrderInv, OrderOf, Sent, Preimage
<1>3. JobInv'
  <2>1. SUFFICES ASSUME NEW h \in Hash PROVE JobsOf(h)'
    BY DEF JobInv
  <2>2. JobsOf(h) /\ OrderOf(h)
    BY DEF JobInv, OrderInv
  <2>3. jobs' = jobs /\ status'[h] = IF status[h] = "failed" THEN stamped[h] ELSE status[h]
    OBVIOUS
  <2>. HIDE DEF IInv, Restart
  <2>. QED BY <2>2, <2>3 DEF JobsOf, OrderOf, Sent, Paid, Preimage
<1>4. CronInv'
  BY DEF CronInv, RequestPCs, SendPCs, ClaimPCs
<1>5. DeadlineInv'
  BY DEF DeadlineInv
<1>. QED BY <1>1, <1>2, <1>3, <1>4, <1>5

(* The request job ends early for an invoice it is not about.              *)
LEMMA LoadForRequestInv ==
    ASSUME IInv, LoadForRequest
    PROVE  IInv'
<1>. USE DEF IInv, db, cron, node, LoadForRequest, Goto, hash
<1>1. TypeOK'
  BY DEF TypeOK, RequestPCs
<1>2. OrderInv'
  BY DEF OrderInv, OrderOf
<1>3. JobInv'
  BY DEF JobInv, JobsOf
<1>4. CronInv'
  BY DEF CronInv, RequestPCs, SendPCs, ClaimPCs
<1>5. DeadlineInv'
  BY DEF DeadlineInv
<1>. QED BY <1>1, <1>2, <1>3, <1>4, <1>5

(* The first look at the deadline.                                         *)
LEMMA CheckDeadlineInv ==
    ASSUME IInv, CheckDeadline
    PROVE  IInv'
<1>. USE DEF IInv, db, cron, node, CheckDeadline, Goto, hash
<1>1. TypeOK'
  BY DEF TypeOK, RequestPCs
<1>2. OrderInv'
  BY DEF OrderInv, OrderOf
<1>3. JobInv'
  BY DEF JobInv, JobsOf
<1>4. CronInv'
  BY DEF CronInv, RequestPCs, SendPCs, ClaimPCs
<1>5. DeadlineInv'
  BY DEF DeadlineInv
<1>. QED BY <1>1, <1>2, <1>3, <1>4, <1>5

(* An invoice is given up before anything was paid for it.                 *)
LEMMA MarkFailedInv ==
    ASSUME IInv, MarkFailed
    PROVE  IInv'
<1>. USE DEF IInv, node, MarkFailed, Goto
<1>0. hash \in Hash /\ job[2] = "request"
  BY JobFacts DEF CronInv, RequestPCs, hash
<1>1. TypeOK'
  BY DEF TypeOK, States
<1>2. \A g \in Hash : status'[g] = IF g = hash /\ status[g] \in {"claimable", "outbound_requested"}
                                   THEN "failed" ELSE status[g]
  BY <1>0 DEF TypeOK
<1>3. OrderInv'
  <2>. SUFFICES ASSUME NEW g \in Hash PROVE OrderOf(g)'
    BY DEF OrderInv
  <2>1. OrderOf(g)
    BY DEF OrderInv
  <2>. QED
    BY <2>1, <1>2 DEF OrderOf, Sent, Preimage
<1>4. JobInv'
  <2>. SUFFICES ASSUME NEW g \in Hash PROVE JobsOf(g)'
    BY DEF JobInv
  <2>1. JobsOf(g)
    BY DEF JobInv
  <2>. QED
    BY <2>1, <1>2 DEF JobsOf, Sent, Preimage
<1>5. CronInv' /\ DeadlineInv'
  BY <1>0, <1>2 DEF CronInv, DeadlineInv, SendPCs, ClaimPCs
<1>. QED BY <1>1, <1>3, <1>4, <1>5

(* The invoice is about to be asked for.                                   *)
LEMMA MarkOutboundRequestedInv ==
    ASSUME IInv, MarkOutboundRequested
    PROVE  IInv'
<1>. USE DEF IInv, node, MarkOutboundRequested, Goto
<1>0. /\ "outbound_requested" \in States \ {"active", "failed"} /\ {} \in SUBSET Job
      /\ hash \in Hash /\ job[2] = "request"
  BY JobFacts DEF States, CronInv, RequestPCs, hash
<1>m. Marked(hash, "claimable", "outbound_requested", {})
  BY <1>0, MarkFacts
<1>. USE <1>m DEF Marked
<1>1. TypeOK'
  BY DEF TypeOK, RequestPCs
<1>2. OrderInv'
  <2>. SUFFICES ASSUME NEW g \in Hash PROVE OrderOf(g)'
    BY DEF OrderInv
  <2>1. OrderOf(g)
    BY DEF OrderInv
  <2>. QED
    BY <2>1 DEF OrderOf, Sent, Preimage
<1>3. JobInv'
  <2>. SUFFICES ASSUME NEW g \in Hash PROVE JobsOf(g)'
    BY DEF JobInv
  <2>1. JobsOf(g)
    BY DEF JobInv
  <2>. QED
    BY <2>1, JobFacts DEF JobsOf, Sent, Preimage
<1>4. CronInv' /\ DeadlineInv'
  BY DEF CronInv, DeadlineInv, RequestPCs, SendPCs, ClaimPCs
<1>. QED BY <1>1, <1>2, <1>3, <1>4

(* The second look at the deadline leaves seen behind for DeadlineInv.     *)
LEMMA RequestOutboundInvoiceInv ==
    ASSUME IInv, RequestOutboundInvoice
    PROVE  IInv'
<1>. USE DEF IInv, db, cron, node, RequestOutboundInvoice, Goto, hash
<1>1. TypeOK'
  BY DEF TypeOK, RequestPCs
<1>2. OrderInv'
  BY DEF OrderInv, OrderOf
<1>3. JobInv'
  BY DEF JobInv, JobsOf
<1>4. CronInv'
  BY DEF CronInv, RequestPCs, SendPCs, ClaimPCs
<1>5. DeadlineInv'
  BY JobFacts, ConstantsAssumption DEF DeadlineInv, TypeOK, CronInv, BlocksLeft
<1>. QED BY <1>1, <1>2, <1>3, <1>4, <1>5

(* The receiver's invoice is recorded with its send job.                   *)
LEMMA MarkOutboundPendingInv ==
    ASSUME IInv, MarkOutboundPending
    PROVE  IInv'
<1>. USE DEF IInv, node, MarkOutboundPending, Goto
<1>0. /\ "outbound_pending" \in States \ {"active", "failed"} /\ {<<hash, "send">>} \in SUBSET Job
      /\ hash \in Hash /\ job[2] = "request"
  BY JobFacts DEF States, CronInv, RequestPCs, hash
<1>m. Marked(hash, "outbound_requested", "outbound_pending", {<<hash, "send">>})
  BY <1>0, MarkFacts
<1>. USE <1>m DEF Marked
<1>1. TypeOK'
  BY DEF TypeOK
<1>2. OrderInv'
  <2>. SUFFICES ASSUME NEW g \in Hash PROVE OrderOf(g)'
    BY DEF OrderInv
  <2>1. OrderOf(g)
    BY DEF OrderInv
  <2>. QED
    BY <2>1 DEF OrderOf, Sent, Preimage
<1>3. JobInv'
  <2>. SUFFICES ASSUME NEW g \in Hash PROVE JobsOf(g)'
    BY DEF JobInv
  <2>1. JobsOf(g)
    BY DEF JobInv
  <2>. QED
    BY <2>1, JobFacts DEF JobsOf, Sent, Preimage
<1>4. CronInv' /\ DeadlineInv'
  BY DEF CronInv, DeadlineInv, RequestPCs, SendPCs, ClaimPCs
<1>. QED BY <1>1, <1>2, <1>3, <1>4

(* The send job ends early for an order that is paid.                      *)
LEMMA LoadForSendInv ==
    ASSUME IInv, LoadForSend
    PROVE  IInv'
<1>. USE DEF IInv, db, node, LoadForSend, Goto
<1>0. hash \in Hash /\ job = <<hash, "send">> /\ jobs[<<hash, "send">>] # "absent"
  BY JobFacts DEF CronInv, SendPCs, hash
<1>1. status[hash] \in Sent
  BY <1>0 DEF JobInv, JobsOf
<1>2. AtOrBeyond(status[hash], "outbound_paid") <=> status[hash] \in Paid
  BY <1>0, <1>1, RankFacts DEF TypeOK, Sent
<1>3. TypeOK'
  BY DEF TypeOK, SendPCs
<1>4. CronInv'
  BY <1>0, <1>2 DEF CronInv, RequestPCs, ClaimPCs, hash
<1>5. OrderInv' /\ JobInv' /\ DeadlineInv'
  BY DEF OrderInv, OrderOf, JobInv, JobsOf, DeadlineInv
<1>. QED BY <1>3, <1>4, <1>5

(* SendPayment is answered.                                                *)
LEMMA SendAnsweredInv ==
    ASSUME NEW result \in {"inflight", "failed"}, IInv, SendAnswered(result)
    PROVE  IInv'
<1>. USE DEF IInv, db, cron, node, SendAnswered, SendPayment, Started, Goto, hash
<1>1. TypeOK'
  BY DEF TypeOK, SendPCs
<1>2. OrderInv'
  BY DEF OrderInv, OrderOf, CronInv, Sent
<1>3. JobInv'
  BY DEF JobInv, JobsOf
<1>4. CronInv'
  BY DEF CronInv, RequestPCs, SendPCs, ClaimPCs
<1>5. DeadlineInv'
  BY DEF DeadlineInv
<1>. QED BY <1>1, <1>2, <1>3, <1>4, <1>5

(* The node refuses a payment it has started already.                      *)
LEMMA SendRefusedInv ==
    ASSUME IInv, SendRefused
    PROVE  IInv'
<1>. USE DEF IInv, db, cron, node, SendRefused, SendPayment, Started, Goto, hash
<1>1. TypeOK'
  BY DEF TypeOK
<1>2. OrderInv'
  BY DEF OrderInv, OrderOf
<1>3. JobInv'
  BY DEF JobInv, JobsOf
<1>4. CronInv'
  BY DEF CronInv, RequestPCs, SendPCs, ClaimPCs
<1>5. DeadlineInv'
  BY DEF DeadlineInv
<1>. QED BY <1>1, <1>2, <1>3, <1>4, <1>5

(* The answer of SendPayment is lost.                                      *)
LEMMA SendLostInv ==
    ASSUME NEW result \in {"none", "inflight", "paid", "failed"},
           result \in {"inflight", outbound[hash]}, IInv, SendLost(result)
    PROVE  IInv'
<1>. USE DEF IInv, db, cron, node, SendLost, SendPayment, Started, Goto, hash
<1>1. TypeOK'
  BY JobFacts DEF TypeOK, CronInv, Fault
<1>2. OrderInv'
  BY DEF OrderInv, OrderOf, CronInv, Sent
<1>3. JobInv'
  BY DEF JobInv, JobsOf
<1>4. CronInv'
  BY DEF CronInv, RequestPCs, SendPCs, ClaimPCs
<1>5. DeadlineInv'
  BY DEF DeadlineInv
<1>. QED BY <1>1, <1>2, <1>3, <1>4, <1>5

(* The accepted payment is recorded.                                       *)
LEMMA MarkOutboundPaidInv ==
    ASSUME IInv, MarkOutboundPaid
    PROVE  IInv'
<1>. USE DEF IInv, node, MarkOutboundPaid, Goto
<1>0. /\ "outbound_paid" \in States \ {"active", "failed"} /\ {} \in SUBSET Job
      /\ hash \in Hash /\ job[2] = "send" /\ status[hash] = "outbound_pending"
  BY JobFacts DEF States, CronInv, SendPCs, hash
<1>m. Marked(hash, "outbound_pending", "outbound_paid", {})
  BY <1>0, MarkFacts
<1>. USE <1>m DEF Marked
<1>1. TypeOK'
  BY DEF TypeOK
<1>2. OrderInv'
  <2>. SUFFICES ASSUME NEW g \in Hash PROVE OrderOf(g)'
    BY DEF OrderInv
  <2>1. OrderOf(g)
    BY DEF OrderInv
  <2>. QED
    BY <2>1 DEF OrderOf, Sent, Preimage
<1>3. JobInv'
  <2>. SUFFICES ASSUME NEW g \in Hash PROVE JobsOf(g)'
    BY DEF JobInv
  <2>1. JobsOf(g)
    BY DEF JobInv
  <2>. QED
    BY <2>1, JobFacts DEF JobsOf, Sent, Paid, Preimage
<1>4. CronInv' /\ DeadlineInv'
  BY <1>0 DEF CronInv, DeadlineInv, RequestPCs, ClaimPCs, Paid, hash
<1>. QED BY <1>1, <1>2, <1>3, <1>4

(* The claim job ends early for a claimed invoice only.                    *)
LEMMA LoadForClaimInv ==
    ASSUME IInv, LoadForClaim
    PROVE  IInv'
<1>. USE DEF IInv, db, node, LoadForClaim, Goto
<1>0. hash \in Hash /\ job = <<hash, "claim">> /\ jobs[<<hash, "claim">>] # "absent"
  BY JobFacts DEF CronInv, ClaimPCs, hash
<1>1. status[hash] \in Preimage
  BY <1>0 DEF JobInv, JobsOf
<1>2. AtOrBeyond(status[hash], "inbound_claimed") <=> status[hash] = "inbound_claimed"
  BY <1>0, <1>1, RankFacts DEF TypeOK, Preimage
<1>3. TypeOK'
  BY DEF TypeOK, ClaimPCs
<1>4. CronInv'
  BY <1>0, <1>2 DEF CronInv, RequestPCs, SendPCs, hash
<1>5. OrderInv' /\ JobInv' /\ DeadlineInv'
  BY DEF OrderInv, OrderOf, JobInv, JobsOf, DeadlineInv
<1>. QED BY <1>3, <1>4, <1>5

(* The held HTLC is claimed.                                               *)
LEMMA ClaimHodlInv ==
    ASSUME IInv, ClaimHodl
    PROVE  IInv'
<1>. USE DEF IInv, db, cron, node, ClaimHodl, Goto
<1>0. hash \in Hash /\ job[2] = "claim" /\ status[hash] = "outbound_claimed"
  BY JobFacts DEF CronInv, ClaimPCs, hash
<1>1. TypeOK'
  BY <1>0 DEF TypeOK, ClaimPCs, Fault
<1>2. \A g \in Hash : inbound'[g] = IF g = hash THEN "claimed" ELSE inbound[g]
  BY DEF TypeOK
<1>3. OrderInv'
  BY <1>0, <1>2 DEF OrderInv, OrderOf, Preimage
<1>4. CronInv'
  BY <1>0, <1>2 DEF CronInv, RequestPCs, SendPCs, ClaimPCs, hash
<1>5. JobInv' /\ DeadlineInv'
  BY DEF JobInv, JobsOf, DeadlineInv
<1>. QED BY <1>1, <1>3, <1>4, <1>5

(* A repeated claim finds the HTLC claimed or gone.                        *)
LEMMA ClaimHodlAgainInv ==
    ASSUME IInv, ClaimHodlAgain
    PROVE  IInv'
<1>. USE DEF IInv, db, cron, node, ClaimHodlAgain, Goto, hash
<1>1. TypeOK'
  BY DEF TypeOK, ClaimPCs
<1>2. OrderInv'
  BY DEF OrderInv, OrderOf
<1>3. JobInv'
  BY DEF JobInv, JobsOf
<1>4. CronInv'
  BY DEF CronInv, TypeOK, RequestPCs, SendPCs
<1>5. DeadlineInv'
  BY DEF DeadlineInv
<1>. QED BY <1>1, <1>2, <1>3, <1>4, <1>5

(* The claim is recorded.                                                  *)
LEMMA MarkInboundClaimedInv ==
    ASSUME IInv, MarkInboundClaimed
    PROVE  IInv'
<1>. USE DEF IInv, cron, node, MarkInboundClaimed, Goto
<1>0. /\ "inbound_claimed" \in States \ {"active", "failed"} /\ {} \in SUBSET Job
      /\ hash \in Hash /\ job[2] = "claim" /\ status[hash] = "outbound_claimed"
      /\ inbound[hash] = "claimed"
  BY JobFacts DEF States, CronInv, ClaimPCs, hash
<1>m. Marked(hash, "outbound_claimed", "inbound_claimed", {})
  BY <1>0, MarkFacts
<1>. USE <1>m DEF Marked
<1>1. TypeOK'
  BY DEF TypeOK
<1>2. OrderInv'
  <2>. SUFFICES ASSUME NEW g \in Hash PROVE OrderOf(g)'
    BY DEF OrderInv
  <2>1. OrderOf(g)
    BY DEF OrderInv
  <2>. QED
    BY <1>0, <2>1 DEF OrderOf, Sent, Preimage
<1>3. JobInv'
  <2>. SUFFICES ASSUME NEW g \in Hash PROVE JobsOf(g)'
    BY DEF JobInv
  <2>1. JobsOf(g)
    BY DEF JobInv
  <2>. QED
    BY <2>1, JobFacts DEF JobsOf, Sent, Paid, Preimage
<1>4. CronInv' /\ DeadlineInv'
  BY <1>0 DEF CronInv, DeadlineInv, RequestPCs, SendPCs, ClaimPCs, hash
<1>. QED BY <1>1, <1>2, <1>3, <1>4

-----------------------------------------------------------------------------
(* The invariant.                                                          *)

(* The empty database satisfies the invariant.                             *)
LEMMA InitInv == Init => IInv
<1>. SUFFICES ASSUME Init PROVE IInv
  OBVIOUS
<1>1. TypeOK /\ OrderInv
  BY DEF Init, TypeOK, OrderInv, OrderOf, JobStates, States, Preimage
<1>2. JobInv
  BY JobFacts DEF Init, JobInv, JobsOf, Sent, Preimage
<1>3. CronInv /\ DeadlineInv
  BY DEF Init, CronInv, DeadlineInv, RequestPCs, SendPCs, ClaimPCs
<1>. QED BY <1>1, <1>2, <1>3 DEF IInv

(* A stuttering step preserves it.                                         *)
LEMMA StutterInv == IInv /\ UNCHANGED vars => IInv'
<1>. SUFFICES ASSUME IInv, UNCHANGED vars PROVE IInv'
  OBVIOUS
<1>. USE DEF IInv, vars, db, cron, node
<1>1. TypeOK'
  BY DEF TypeOK
<1>2. OrderInv' /\ JobInv'
  BY DEF OrderInv, OrderOf, JobInv, JobsOf
<1>3. CronInv' /\ DeadlineInv'
  BY DEF CronInv, DeadlineInv, hash
<1>. QED BY <1>1, <1>2, <1>3

(* The jobs of the outbox preserve it.                                     *)
LEMMA CronPreserves == IInv /\ Cron => IInv'
<1>. SUFFICES ASSUME IInv, Cron PROVE IInv'
  OBVIOUS
<1>1. CASE RequestJob
  BY <1>1, LoadForRequestInv, CheckDeadlineInv, MarkFailedInv, MarkOutboundRequestedInv,
     RequestOutboundInvoiceInv, MarkOutboundPendingInv DEF RequestJob
<1>2. CASE SendJob
  <2>1. ASSUME SendLost(outbound[hash]) PROVE IInv'
    <3>1. hash \in Hash
      BY <2>1, JobFacts DEF SendLost, SendPayment, IInv, CronInv, SendPCs, hash
    <3>2. outbound[hash] \in {"none", "inflight", "paid", "failed"}
      BY <3>1 DEF IInv, TypeOK
    <3>. QED BY <2>1, <3>2, SendLostInv
  <2>. QED
    BY <1>2, <2>1, LoadForSendInv, SendAnsweredInv, SendRefusedInv, SendLostInv,
       MarkOutboundPaidInv DEF SendJob
<1>3. CASE ClaimJob
  BY <1>3, LoadForClaimInv, ClaimHodlInv, ClaimHodlAgainInv, MarkInboundClaimedInv DEF ClaimJob
<1>. QED BY <1>1, <1>2, <1>3, ClaimOutboxJobInv, FinishJobInv, JobErrorInv DEF Cron

(* Every step preserves it, by the lemmas about the actions.               *)
LEMMA NextInv == IInv /\ [Next]_vars => IInv'
<1>. SUFFICES ASSUME IInv, Next PROVE IInv'
  BY StutterInv
<1>1. ASSUME NEW h \in Hash, Webhooks(h) PROVE IInv'
  BY <1>1, ClaimableWebhookInv, PaymentSentWebhookInv DEF Webhooks
<1>2. ASSUME NEW h \in Hash, Environment(h) PROVE IInv'
  BY <1>2, IssueInvoiceInv, PayerPaysInv, ReceiverClaimsInv, DeliveryFailsInv DEF Environment
<1>. QED BY <1>1, <1>2, CronPreserves, NewBlockInv, RestartInv DEF Next

(* The invariant holds in every reachable state.                           *)
THEOREM Invariance == Spec => []IInv
BY InitInv, NextInv, PTL DEF Spec

(* Every variable keeps its type. *)
THEOREM TypeCorrect == Spec => []TypeOK
BY Invariance, PTL DEF IInv

(* An invoice that waits for its payment or its claim has the job for it. *)
THEOREM WorkIsNotLost == Spec => []WorkKeepsItsJob
<1>1. IInv => WorkKeepsItsJob
  <2>. SUFFICES ASSUME IInv, NEW h \in Hash
                PROVE  /\ status[h] = "outbound_pending" => jobs[<<h, "send">>] \in {"pending", "processing"}
                       /\ status[h] = "outbound_claimed" => jobs[<<h, "claim">>] \in {"pending", "processing"}
    BY DEF WorkKeepsItsJob
  <2>1. JobsOf(h) /\ jobs[<<h, "send">>] \in JobStates /\ jobs[<<h, "claim">>] \in JobStates
    BY JobFacts DEF IInv, JobInv, TypeOK
  <2>. QED BY <2>1 DEF JobsOf, JobStates, Sent, Paid, Preimage
<1>. QED BY <1>1, Invariance, PTL

(* A payment_sent that was answered 200 has its preimage recorded. *)
THEOREM AckedIsRecorded == Spec => []AckedMeansRecorded
<1>1. IInv => AckedMeansRecorded
  BY RankFacts DEF IInv, TypeOK, OrderInv, OrderOf, Preimage, States, AckedMeansRecorded
<1>. QED BY <1>1, Invariance, PTL

(* An order given up for its deadline was not paid out. *)
THEOREM FailedIsUnpaid == Spec => []FailedMeansUnpaid
<1>1. IInv => FailedMeansUnpaid
  BY DEF IInv, OrderInv, OrderOf, Sent, FailedMeansUnpaid
<1>. QED BY <1>1, Invariance, PTL

-----------------------------------------------------------------------------
(* The steps of an invoice.                                                *)

(* A compare-and-set moves only its own invoice, and only from its guard.  *)
LEMMA MarkMoves ==
    ASSUME TypeOK, NEW g \in Hash, NEW from, NEW to, NEW rows, Mark(g, from, to, rows),
           NEW h \in Hash, status'[h] # status[h]
    PROVE  g = h /\ status[h] = from /\ status'[h] = to
BY DEF Mark, Moved, db, TypeOK

(* Every way in which the status of an invoice may change.                 *)
LEMMA StatusSteps ==
    ASSUME IInv, [Next]_vars, NEW h \in Hash, status'[h] # status[h]
    PROVE  \/ status[h] = "none" /\ status'[h] = "active"
           \/ status[h] = "active" /\ status'[h] = "claimable"
           \/ status[h] = "claimable" /\ status'[h] = "outbound_requested"
           \/ status[h] = "outbound_requested" /\ status'[h] = "outbound_pending"
                 /\ MarkOutboundPending /\ hash = h
           \/ status[h] = "outbound_pending" /\ status'[h] = "outbound_paid"
           \/ status[h] = "outbound_paid" /\ status'[h] = "outbound_claimed"
           \/ status[h] = "outbound_claimed" /\ status'[h] = "inbound_claimed"
                 /\ MarkInboundClaimed /\ hash = h
           \/ status[h] \in {"claimable", "outbound_requested"} /\ status'[h] = "failed"
           \/ status[h] = "failed" /\ status'[h] = stamped[h]
<1>. USE DEF IInv
<1>0. pc # "idle" => hash \in Hash
  BY JobFacts DEF CronInv, hash
<1>1. ASSUME NEW g \in Hash, IssueInvoice(g) PROVE status[h] = "none" /\ status'[h] = "active"
  BY <1>1 DEF IssueInvoice, TypeOK
<1>2. ASSUME NEW g \in Hash, ClaimableWebhook(g)
      PROVE  status[h] = "active" /\ status'[h] = "claimable"
  BY <1>2, MarkMoves DEF ClaimableWebhook
<1>3. ASSUME NEW g \in Hash, PaymentSentWebhook(g)
      PROVE  status[h] = "outbound_paid" /\ status'[h] = "outbound_claimed"
  BY <1>3, MarkMoves DEF PaymentSentWebhook
<1>4. CASE Restart
  BY <1>4 DEF Restart
<1>5. CASE MarkFailed
  BY <1>0, <1>5 DEF MarkFailed, TypeOK
<1>6. CASE MarkOutboundRequested
  BY <1>0, <1>6, MarkMoves DEF MarkOutboundRequested
<1>7. CASE MarkOutboundPending
  BY <1>0, <1>7, MarkMoves DEF MarkOutboundPending
<1>8. CASE MarkOutboundPaid
  BY <1>0, <1>8, MarkMoves DEF MarkOutboundPaid
<1>9. CASE MarkInboundClaimed
  BY <1>0, <1>9, MarkMoves DEF MarkInboundClaimed
<1>10. status' # status
  OBVIOUS
<1>. QED
  BY <1>1, <1>2, <1>3, <1>4, <1>5, <1>6, <1>7, <1>8, <1>9, <1>10
     DEF Next, Cron, Webhooks, Environment, RequestJob, SendJob, ClaimJob, vars, db, PayerPays,
         ReceiverClaims, DeliveryFails, NewBlock, ClaimOutboxJob, FinishJob, JobError,
         LoadForRequest, CheckDeadline, RequestOutboundInvoice, LoadForSend, SendAnswered,
         SendRefused, SendLost, SendPayment, LoadForClaim, ClaimHodl, ClaimHodlAgain

(* The receiver's invoice is recorded only while the HTLC leaves room. *)
THEOREM RequestIsInTime == Spec => RequestLeavesRoom
<1>1. ASSUME IInv, [Next]_vars, NEW h \in Hash, status[h] # "outbound_pending",
             status'[h] = "outbound_pending"
      PROVE  deadline[h] + JobBlocks > height + OutboundDelta + CltvBuffer + Margin
  <2>1. MarkOutboundPending /\ hash = h
    BY <1>1, StatusSteps DEF IInv, OrderInv, OrderOf
  <2>2. /\ seen <= height /\ height <= seen + JobBlocks
        /\ deadline[h] > seen + OutboundDelta + CltvBuffer + Margin
    BY <1>1, <2>1 DEF MarkOutboundPending, IInv, DeadlineInv
  <2>3. deadline[h] \in Nat /\ seen \in Nat /\ height \in Nat
    BY <1>1 DEF IInv, TypeOK
  <2>. QED BY <2>2, <2>3, ConstantsAssumption
<1>2. IInv /\ [Next]_vars =>
        [\A h \in Hash :
            status[h] # "outbound_pending" /\ status'[h] = "outbound_pending" =>
                deadline[h] + JobBlocks > height + OutboundDelta + CltvBuffer + Margin]_vars
  BY <1>1
<1>. QED BY <1>2, Invariance, PTL DEF Spec, RequestLeavesRoom

(* No step but the startup migration takes an invoice back. *)
THEOREM MovesForward == Spec => ForwardOnly
<1>1. ASSUME IInv, [Next]_vars, NEW h \in Hash, status[h] # "failed"
      PROVE  Rank(status'[h]) >= Rank(status[h])
  <2>1. status[h] \in States \union {"none"}
    BY <1>1 DEF IInv, TypeOK
  <2>2. Rank(status[h]) \in 0..100
    BY <2>1, RankFacts
  <2>3. CASE status'[h] = status[h]
    BY <2>2, <2>3
  <2>4. CASE status'[h] # status[h]
    BY <1>1, <2>4, StatusSteps, RankValues
  <2>. QED BY <2>3, <2>4
<1>2. IInv /\ [Next]_vars =>
        [\A h \in Hash : status[h] # "failed" => Rank(status'[h]) >= Rank(status[h])]_vars
  BY <1>1
<1>. QED BY <1>2, Invariance, PTL DEF Spec, ForwardOnly

-----------------------------------------------------------------------------
(* An asynchronous payment implements AtomicRelay.                         *)

SeenCaller == [h \in Hash |-> PayerSees(h)]
SeenPayee == [h \in Hash |-> IF outbound[h] = "paid" THEN "paid" ELSE "unpaid"]
SeenAnswer == [h \in Hash |-> IF status[h] = "inbound_claimed" THEN "settled" ELSE "open"]

(* The payer sees nothing of a step that leaves the HODL invoices alone.   *)
LEMMA CallerSame ==
    ASSUME UNCHANGED inbound PROVE UNCHANGED SeenCaller
BY DEF SeenCaller, PayerSees

(* The receiver sees nothing of a step without a payment.                  *)
LEMMA PayeeSame ==
    ASSUME UNCHANGED outbound PROVE UNCHANGED SeenPayee
BY DEF SeenPayee

(* Only the step that records the claim is an answer.                      *)
LEMMA AnswerSame ==
    ASSUME IInv, [Next]_vars, ~MarkInboundClaimed PROVE UNCHANGED SeenAnswer
<1>1. ASSUME NEW h \in Hash PROVE status'[h] = "inbound_claimed" <=> status[h] = "inbound_claimed"
  <2>1. CASE status'[h] = status[h]
    BY <2>1
  <2>2. CASE status'[h] # status[h]
    BY <2>2, StatusSteps DEF IInv, OrderInv, OrderOf
  <2>. QED BY <2>1, <2>2
<1>. QED BY <1>1 DEF SeenAnswer

(* The initial states of an asynchronous payment are those of its promise. *)
LEMMA InitAbstract == Init => Abstract!Init
BY DEF Init, Abstract!Init, PayerSees

(* The payer pays: its HTLC is held.                                       *)
LEMMA PayerPaysAbstract ==
    ASSUME IInv, [Next]_vars, NEW h \in Hash, PayerPays(h)
    PROVE  Abstract!Next
<1>. USE DEF IInv
<1>1. UNCHANGED <<SeenPayee, SeenAnswer>>
  BY PayeeSame, AnswerSame DEF PayerPays, MarkInboundClaimed, Goto, db, cron, CronInv, ClaimPCs
<1>2. PayerSees(h) = "free" /\ status[h] # "inbound_claimed"
  BY DEF PayerPays, PayerSees, OrderInv, OrderOf
<1>3. \A g \in Hash : PayerSees(g)' = IF g = h THEN "held" ELSE PayerSees(g)
  BY DEF PayerPays, PayerSees, TypeOK
<1>4. Abstract!Hold(h)
  BY <1>1, <1>2, <1>3 DEF Abstract!Hold, SeenPayee, SeenAnswer
<1>. QED BY <1>4 DEF Abstract!Next

(* The receiver is paid.                                                   *)
LEMMA ReceiverClaimsAbstract ==
    ASSUME IInv, [Next]_vars, NEW h \in Hash, ReceiverClaims(h)
    PROVE  Abstract!Next
<1>. USE DEF IInv
<1>1. UNCHANGED <<SeenCaller, SeenAnswer>>
  BY CallerSame, AnswerSame DEF ReceiverClaims, MarkInboundClaimed, Goto, db, cron
<1>2. status[h] # "inbound_claimed" /\ outbound[h] # "paid"
  BY DEF ReceiverClaims, OrderInv, OrderOf, Preimage
<1>3. outbound' = [outbound EXCEPT ![h] = "paid"]
  BY DEF ReceiverClaims
<1>4. Abstract!Deliver(h)
  BY <1>1, <1>2, <1>3 DEF Abstract!Deliver, SeenCaller, SeenAnswer, TypeOK
<1>. QED BY <1>4 DEF Abstract!Next

(* A block releases the payers whose deadline it reaches.                  *)
LEMMA NewBlockAbstract ==
    ASSUME IInv, [Next]_vars, NewBlock
    PROVE  Abstract!Next
<1>. DEFINE S == {h \in Hash : inbound[h] = "held" /\ deadline[h] <= height + 1}
<1>1. UNCHANGED <<SeenPayee, SeenAnswer>>
  BY PayeeSame, AnswerSame DEF NewBlock, MarkInboundClaimed, Goto, db, cron
<1>2. \A h \in Hash : inbound'[h] = IF h \in S THEN "timedout" ELSE inbound[h]
  BY DEF NewBlock
<1>3. \A h \in Hash : PayerSees(h)' = IF h \in S THEN "released" ELSE PayerSees(h)
  BY <1>2 DEF PayerSees, IInv, TypeOK
<1>4. \A h \in S : PayerSees(h) = "held"
  BY DEF PayerSees
<1>5. Abstract!Release(S)
  BY <1>1, <1>3, <1>4 DEF Abstract!Release, SeenPayee, SeenAnswer
<1>. QED BY <1>5 DEF Abstract!Next

(* The payer is charged for what the receiver got.                         *)
LEMMA ClaimHodlAbstract ==
    ASSUME IInv, [Next]_vars, ClaimHodl
    PROVE  Abstract!Next
<1>. USE DEF IInv
<1>0. hash \in Hash /\ status[hash] = "outbound_claimed" /\ outbound[hash] = "paid"
  BY JobFacts DEF ClaimHodl, CronInv, OrderInv, OrderOf, Preimage, hash
<1>1. UNCHANGED <<SeenPayee, SeenAnswer>>
  BY PayeeSame, AnswerSame DEF ClaimHodl, MarkInboundClaimed
<1>2. PayerSees(hash) = "held"
  BY DEF ClaimHodl, PayerSees
<1>3. \A g \in Hash : PayerSees(g)' = IF g = hash THEN "charged" ELSE PayerSees(g)
  BY <1>0 DEF ClaimHodl, PayerSees, TypeOK
<1>4. Abstract!Charge(hash)
  BY <1>0, <1>1, <1>2, <1>3 DEF Abstract!Charge, SeenPayee, SeenAnswer
<1>. QED BY <1>0, <1>4 DEF Abstract!Next

(* The recorded claim is the final answer.                                 *)
LEMMA MarkInboundClaimedAbstract ==
    ASSUME IInv, MarkInboundClaimed
    PROVE  Abstract!Next
<1>. USE DEF IInv
<1>0. hash \in Hash /\ status[hash] = "outbound_claimed" /\ inbound[hash] = "claimed"
  BY JobFacts DEF MarkInboundClaimed, CronInv, hash
<1>1. UNCHANGED <<SeenCaller, SeenPayee>>
  BY PayeeSame, CallerSame DEF MarkInboundClaimed, node
<1>2. status' = [status EXCEPT ![hash] = "inbound_claimed"]
  BY <1>0 DEF MarkInboundClaimed, Mark, Moved
<1>3. SeenAnswer' = [SeenAnswer EXCEPT ![hash] = "settled"] /\ SeenAnswer[hash] = "open"
  BY <1>0, <1>2 DEF SeenAnswer, TypeOK
<1>4. PayerSees(hash) = "charged"
  BY <1>0 DEF PayerSees
<1>5. Abstract!Answer(hash, "settled")
  BY <1>0, <1>1, <1>3, <1>4 DEF Abstract!Answer, SeenCaller, SeenPayee, SeenAnswer
<1>. QED BY <1>0, <1>5 DEF Abstract!Next

(* Every step is a step of the promise or a stutter.                       *)
LEMMA NextAbstract ==
    ASSUME IInv, [Next]_vars
    PROVE  [Abstract!Next]_(Abstract!vars)
<1>. USE DEF IInv
<1>1. CASE UNCHANGED <<SeenCaller, SeenPayee, SeenAnswer>>
  BY <1>1 DEF SeenCaller, SeenPayee, SeenAnswer, Abstract!vars
<1>2. CASE MarkInboundClaimed
  BY <1>2, MarkInboundClaimedAbstract
<1>3. ASSUME ~MarkInboundClaimed, UNCHANGED <<inbound, outbound>>
      PROVE  [Abstract!Next]_(Abstract!vars)
  BY <1>1, <1>3, CallerSame, PayeeSame, AnswerSame
<1>4. ASSUME NEW h \in Hash, IssueInvoice(h) PROVE [Abstract!Next]_(Abstract!vars)
  <2>1. UNCHANGED SeenCaller
    BY <1>4 DEF IssueInvoice, SeenCaller, PayerSees, OrderInv, OrderOf, TypeOK
  <2>2. UNCHANGED SeenPayee
    BY <1>4, PayeeSame DEF IssueInvoice
  <2>. QED BY <1>1, <1>2, <2>1, <2>2, AnswerSame
<1>5. ASSUME NEW h \in Hash, DeliveryFails(h) PROVE [Abstract!Next]_(Abstract!vars)
  <2>1. UNCHANGED SeenPayee
    BY <1>5 DEF DeliveryFails, SeenPayee, TypeOK
  <2>2. UNCHANGED SeenCaller
    BY <1>5, CallerSame DEF DeliveryFails
  <2>. QED BY <1>1, <1>2, <2>1, <2>2, AnswerSame
<1>6. ASSUME NEW result \in {"none", "inflight", "failed", "paid"},
             result \in {"inflight", "failed", outbound[hash]}, SendPayment(result)
      PROVE  [Abstract!Next]_(Abstract!vars)
  <2>0. hash \in Hash
    BY <1>6, JobFacts DEF SendPayment, CronInv, hash
  <2>1. UNCHANGED SeenPayee
    BY <1>6, <2>0 DEF SendPayment, Started, SeenPayee, TypeOK
  <2>2. UNCHANGED SeenCaller
    BY <1>6, CallerSame DEF SendPayment
  <2>. QED BY <1>1, <1>2, <2>1, <2>2, AnswerSame
<1>7. CASE SendJob
  <2>1. ASSUME SendPayment(outbound[hash]) PROVE [Abstract!Next]_(Abstract!vars)
    <3>1. outbound[hash] \in {"none", "inflight", "paid", "failed"}
      BY <2>1, JobFacts DEF SendPayment, CronInv, TypeOK, hash
    <3>. QED BY <1>6, <2>1, <3>1
  <2>. QED
    BY <1>2, <1>3, <1>6, <1>7, <2>1
       DEF SendJob, LoadForSend, SendAnswered, SendRefused, SendLost, MarkOutboundPaid, node
<1>8. CASE UNCHANGED vars
  BY <1>2, <1>3, <1>8 DEF vars, node
<1>9. CASE RequestJob \/ ClaimJob
  BY <1>2, <1>3, <1>9, ClaimHodlAbstract
     DEF RequestJob, ClaimJob, LoadForRequest, CheckDeadline, MarkFailed, MarkOutboundRequested,
         RequestOutboundInvoice, MarkOutboundPending, LoadForClaim, ClaimHodlAgain, node
<1>10. ASSUME NEW h \in Hash, Webhooks(h) \/ Environment(h) PROVE [Abstract!Next]_(Abstract!vars)
  BY <1>2, <1>3, <1>4, <1>5, <1>10, PayerPaysAbstract, ReceiverClaimsAbstract
     DEF Webhooks, Environment, ClaimableWebhook, PaymentSentWebhook, node
<1>11. CASE Cron
  BY <1>2, <1>3, <1>7, <1>9, <1>11 DEF Cron, ClaimOutboxJob, FinishJob, JobError, node
<1>12. CASE Restart \/ NewBlock
  BY <1>2, <1>3, <1>12, NewBlockAbstract DEF Restart, node
<1>. QED BY <1>8, <1>10, <1>11, <1>12 DEF Next

(* A payer is charged only for a payment that arrived. *)
THEOREM ImplementsAtomicRelay == Spec => PaymentIsAtomic
BY InitAbstract, NextAbstract, Invariance, PTL DEF Spec, PaymentIsAtomic, Abstract!Spec

-----------------------------------------------------------------------------
(* The payments and the outbox.                                            *)

(* An idle goroutine holds no job.                                         *)
HeldInv == pc = "idle" => job = NoJob

(* A row is added, or is there already and stays as it is.                 *)
LEMMA EnqueueOutbox ==
    ASSUME TypeOK, NEW i \in Job, jobs' = Enqueued(jobs, {i}), UNCHANGED job
    PROVE  [Outbox!Next]_(Outbox!vars)
<1>1. CASE jobs[i] = "absent"
  BY <1>1 DEF Outbox!Next, Outbox!Enqueue, Outbox!Enqueued, Enqueued
<1>2. CASE jobs[i] # "absent"
  <2>1. jobs' = jobs
    BY <1>2 DEF TypeOK, Enqueued
  <2>. QED BY <2>1 DEF Outbox!vars
<1>. QED BY <1>1, <1>2

(* A webhook changes the rows only by what it enqueues.                    *)
LEMMA WebhooksOutbox ==
    ASSUME IInv, HeldInv, NEW h \in Hash, Webhooks(h)
    PROVE  HeldInv' /\ [Outbox!Next]_(Outbox!vars)
<1>1. UNCHANGED <<pc, job>>
  BY DEF Webhooks, ClaimableWebhook, PaymentSentWebhook, cron
<1>2. \/ jobs' = jobs
      \/ jobs' = Enqueued(jobs, {<<h, "request">>}) \/ jobs' = Enqueued(jobs, {<<h, "claim">>})
  BY DEF Webhooks, ClaimableWebhook, PaymentSentWebhook, Mark, Moved, db
<1>3. CASE jobs' = jobs
  BY <1>1, <1>3 DEF HeldInv, Outbox!vars
<1>. QED BY <1>1, <1>2, <1>3, JobFacts, EnqueueOutbox DEF IInv, HeldInv

(* The request job enqueues the send job while it is held itself.          *)
LEMMA PendingOutbox ==
    ASSUME IInv, HeldInv, MarkOutboundPending
    PROVE  HeldInv' /\ [Outbox!Next]_(Outbox!vars)
<1>1. UNCHANGED job /\ pc # "idle" /\ pc' # "idle"
  BY DEF MarkOutboundPending, Goto
<1>2. jobs' = jobs \/ jobs' = Enqueued(jobs, {<<hash, "send">>})
  BY DEF MarkOutboundPending, Mark, Moved, db
<1>3. hash \in Hash
  BY <1>1, JobFacts DEF IInv, CronInv, hash
<1>4. CASE jobs' = jobs
  BY <1>1, <1>4 DEF HeldInv, Outbox!vars
<1>. QED BY <1>1, <1>2, <1>3, <1>4, JobFacts, EnqueueOutbox DEF IInv, HeldInv

(* A job is taken when none is held.                                       *)
LEMMA ClaimOutbox ==
    ASSUME HeldInv, NEW j \in Job, ClaimOutboxJob(j)
    PROVE  HeldInv' /\ Outbox!Next
<1>1. job = NoJob /\ jobs' = Taken(jobs, j) /\ job' = j /\ j \in Claimable(jobs)
  BY DEF HeldInv, ClaimOutboxJob
<1>2. pc' # "idle"
  BY JobFacts DEF ClaimOutboxJob
<1>. QED
  BY <1>1, <1>2 DEF HeldInv, Outbox!Next, Outbox!Take, Outbox!Taken, Taken, Outbox!Claimable, Claimable

(* The held job is let go of when it ends and when the process stops.      *)
LEMMA LetGoOutbox ==
    ASSUME IInv, HeldInv, FinishJob \/ Restart
    PROVE  HeldInv' /\ [Outbox!Next]_(Outbox!vars)
<1>1. job' = NoJob /\ jobs' \in {jobs, MarkedDone(jobs, job), MarkedRetry(jobs, job)}
  BY DEF FinishJob, Restart
<1>2. CASE job = NoJob
  <2>1. pc = "idle"
    BY <1>2, ConstantsAssumption DEF IInv, CronInv
  <2>2. UNCHANGED <<jobs, job>>
    BY <1>1, <1>2, <2>1 DEF FinishJob, Restart
  <2>. QED BY <1>1, <2>2 DEF HeldInv, Outbox!vars
<1>3. CASE job # NoJob
  BY <1>1, <1>3 DEF HeldInv, Outbox!Next, Outbox!LetGo, Outbox!MarkedDone, Outbox!MarkedRetry,
     MarkedDone, MarkedRetry
<1>. QED BY <1>2, <1>3

(* A step that leaves the rows and the held job alone.                     *)
LEMMA SameOutbox ==
    ASSUME HeldInv, UNCHANGED <<jobs, job>>, pc' = "idle" => pc = "idle"
    PROVE  HeldInv' /\ [Outbox!Next]_(Outbox!vars)
BY DEF HeldInv, Outbox!vars

(* The other statuses a job records enqueue nothing.                       *)
LEMMA JobsOutbox ==
    ASSUME IInv, HeldInv, JobError \/ RequestJob \/ SendJob \/ ClaimJob
    PROVE  HeldInv' /\ [Outbox!Next]_(Outbox!vars)
<1>1. Enqueued(jobs, {}) = jobs
  BY DEF IInv, TypeOK, Enqueued
<1>2. CASE LoadForRequest \/ CheckDeadline \/ MarkFailed \/ MarkOutboundRequested \/ RequestOutboundInvoice
  <2>1. UNCHANGED <<jobs, job>> /\ pc # "idle" /\ pc' # "idle"
    BY <1>1, <1>2 DEF LoadForRequest, CheckDeadline, MarkFailed, MarkOutboundRequested,
       RequestOutboundInvoice, Mark, Moved, Goto, db
  <2>. QED BY <2>1, SameOutbox
<1>3. CASE SendJob
  <2>1. UNCHANGED <<jobs, job>> /\ pc # "idle" /\ pc' # "idle"
    BY <1>1, <1>3 DEF SendJob, LoadForSend, SendAnswered, SendRefused, SendLost, SendPayment,
       MarkOutboundPaid, Mark, Moved, Goto, db
  <2>. QED BY <2>1, SameOutbox
<1>4. CASE ClaimJob
  <2>1. UNCHANGED <<jobs, job>> /\ pc # "idle" /\ pc' # "idle"
    BY <1>1, <1>4 DEF ClaimJob, LoadForClaim, ClaimHodl, ClaimHodlAgain, MarkInboundClaimed,
       Mark, Moved, Goto, db
  <2>. QED BY <2>1, SameOutbox
<1>5. CASE JobError
  BY <1>5, SameOutbox DEF JobError, Goto, db
<1>. QED BY <1>2, <1>3, <1>4, <1>5, PendingOutbox DEF RequestJob

(* The table of the payments changes only as an outbox does, although a    *)
(* job enqueues the next one while it is held itself, and although the     *)
(* startup migration takes statuses back.                                  *)
THEOREM KeepsToTheOutbox == Spec => Outbox!SafeSpec
<1>1. Init => HeldInv /\ Outbox!Init
  BY DEF Init, HeldInv, Outbox!Init
<1>2. IInv /\ HeldInv /\ [Next]_vars => HeldInv' /\ [Outbox!Next]_(Outbox!vars)
  <2>. SUFFICES ASSUME IInv, HeldInv, [Next]_vars
                PROVE  HeldInv' /\ [Outbox!Next]_(Outbox!vars)
    OBVIOUS
  <2>1. CASE UNCHANGED vars \/ NewBlock \/ \E h \in Hash : Environment(h)
    <3>1. UNCHANGED <<pc, job, jobs>>
      BY <2>1 DEF vars, NewBlock, Environment, IssueInvoice, PayerPays, ReceiverClaims,
         DeliveryFails, cron, db
    <3>. QED BY <3>1, SameOutbox
  <2>. QED
    BY <2>1, WebhooksOutbox, ClaimOutbox, LetGoOutbox, JobsOutbox DEF Next, Cron
<1>. QED BY <1>1, <1>2, Invariance, PTL DEF Spec, Outbox!SafeSpec
-----------------------------------------------------------------------------
(***************************************************************************)
(* The schedule behind the outbox.  ApayOrder takes jobs as FairOutbox     *)
(* lets them be taken; OutboxSchedule is the same cron goroutine with its  *)
(* ticks, delays and leases.  Its constants and its state have nothing to  *)
(* do with those above: they are declared here, and the theorems are about *)
(* every value of them.                                                    *)
(*                                                                         *)
(* The table of the schedule is FairOutbox's, row for row, and the job the *)
(* goroutine works on is the one FairOutbox holds; claiming a due row is   *)
(* Take, the end of a job and a restart in its midst are LetGo, and the    *)
(* clock and the ticks are stuttering steps.                               *)
(***************************************************************************)
CONSTANTS
    MaxId, Hopeless, Batch, RetryDelay, Lease, Interval, JobTime

VARIABLES
    entries, wait, turn, entry, left, ran, sleep, rang, failures

Schedule ==
    INSTANCE OutboxSchedule
    WITH jobs <- entries, pc <- turn, job <- entry, faults <- failures

(* What a row waits for fits its bound, whichever of the two is longer.    *)
LEMMA WaitBound ==
    ASSUME Schedule!ConstantsAssumption
    PROVE  LET Longest == IF Lease > RetryDelay THEN Lease ELSE RetryDelay
           IN  /\ {0, RetryDelay, Lease} \subseteq 0 .. Longest
               /\ \A n \in 0 .. Longest : n > 0 => n - 1 \in 0 .. Longest
BY DEF Schedule!ConstantsAssumption

(* No row, no lease: nothing is due in an empty table.                     *)
LEMMA ScheduleInit ==
    ASSUME Schedule!ConstantsAssumption, Schedule!Init
    PROVE  Schedule!TypeOK /\ Schedule!LeaseInv
BY DEF Schedule!ConstantsAssumption, Schedule!Init, Schedule!TypeOK, Schedule!LeaseInv,
   Schedule!Ids, Schedule!None, Schedule!JobStates

(* A webhook adds a row that is due at once.                               *)
LEMMA EnqueueSchedule ==
    ASSUME Schedule!ConstantsAssumption, Schedule!TypeOK, NEW i \in Schedule!Ids,
           Schedule!Enqueue(i)
    PROVE  /\ Schedule!TypeOK'
           /\ entries' = [entries EXCEPT ![i] = "pending"] /\ entries[i] = "absent"
           /\ Schedule!Outbox!Enqueue(i)
<1>1. DOMAIN entries = Schedule!Ids /\ entries[i] = "absent"
  BY DEF Schedule!TypeOK, Schedule!Enqueue
<1>2. entries' = [k \in DOMAIN entries |->
                     IF k \in {i} /\ entries[k] = "absent" THEN "pending" ELSE entries[k]]
  BY DEF Schedule!Enqueue, Schedule!Enqueued
<1>3. entries' = [entries EXCEPT ![i] = "pending"]
  BY <1>1, <1>2 DEF Schedule!TypeOK
<1>4. Schedule!TypeOK'
  <2>1. entries' \in [Schedule!Ids -> Schedule!JobStates]
    BY <1>3 DEF Schedule!TypeOK, Schedule!JobStates
  <2>2. wait' \in [Schedule!Ids -> 0 .. IF Lease > RetryDelay THEN Lease ELSE RetryDelay]
    BY WaitBound DEF Schedule!TypeOK, Schedule!Enqueue
  <2>. QED BY <2>1, <2>2 DEF Schedule!TypeOK, Schedule!Enqueue, Schedule!clock
<1>5. Schedule!Outbox!Enqueue(i)
  BY <1>1, <1>2 DEF Schedule!Enqueue, Schedule!Outbox!Enqueue, Schedule!Outbox!Enqueued
<1>. QED BY <1>1, <1>3, <1>4, <1>5

(* A due row is taken with a lease; the goroutine held none.               *)
LEMMA ClaimSchedule ==
    ASSUME Schedule!ConstantsAssumption, Schedule!TypeOK, NEW i \in Schedule!Ids,
           Schedule!Claim(i)
    PROVE  /\ Schedule!TypeOK'
           /\ entries' = [entries EXCEPT ![i] = "processing"]
           /\ entries[i] \in {"pending", "processing"} /\ wait[i] = 0
           /\ Schedule!Outbox!Take(i)
<1>1. /\ DOMAIN entries = Schedule!Ids
      /\ entries[i] \in {"pending", "processing"} /\ wait[i] = 0
  BY DEF Schedule!TypeOK, Schedule!Claim, Schedule!LowestDue, Schedule!Due, Schedule!Claimable
<1>2. entries' = [entries EXCEPT ![i] = "processing"]
  BY DEF Schedule!Claim, Schedule!Taken
<1>3. Schedule!TypeOK'
  <2>1. entries' \in [Schedule!Ids -> Schedule!JobStates]
    BY <1>2 DEF Schedule!TypeOK, Schedule!JobStates
  <2>2. wait' \in [Schedule!Ids -> 0 .. IF Lease > RetryDelay THEN Lease ELSE RetryDelay]
    BY WaitBound DEF Schedule!TypeOK, Schedule!Claim
  <2>3. /\ turn' = "work" /\ entry' = i /\ entry' # Schedule!None
        /\ left' \in 0 .. Batch /\ ran' \in 0 .. JobTime
    BY DEF Schedule!TypeOK, Schedule!Claim, Schedule!ConstantsAssumption, Schedule!Ids, Schedule!None
  <2>. QED BY <2>1, <2>2, <2>3 DEF Schedule!TypeOK, Schedule!Claim, Schedule!clock
<1>4. Schedule!Outbox!Take(i)
  BY <1>1, <1>2 DEF Schedule!TypeOK, Schedule!Claim, Schedule!Outbox!Take,
     Schedule!Outbox!Claimable, Schedule!Outbox!Taken
<1>. QED BY <1>1, <1>2, <1>3, <1>4

(* Time passes, and a tick begins or ends: table and held job stay.        *)
LEMMA ClockSchedule ==
    ASSUME Schedule!ConstantsAssumption, Schedule!TypeOK,
           \/ Schedule!Elapse
           \/ Schedule!StartTick
           \/ Schedule!NothingLeft
           \/ Schedule!ClaimFails
    PROVE  Schedule!TypeOK' /\ UNCHANGED <<entries, entry>>
<1>1. CASE Schedule!Elapse
  <2>1. wait' \in [Schedule!Ids -> 0 .. IF Lease > RetryDelay THEN Lease ELSE RetryDelay]
    BY <1>1, WaitBound DEF Schedule!TypeOK, Schedule!Elapse
  <2>2. ran' \in 0 .. JobTime /\ sleep' \in 1 .. Interval /\ rang' \in BOOLEAN
    BY <1>1 DEF Schedule!TypeOK, Schedule!Elapse, Schedule!ConstantsAssumption
  <2>. QED BY <1>1, <2>1, <2>2 DEF Schedule!TypeOK, Schedule!Elapse
<1>2. CASE Schedule!StartTick
  <2>1. left' \in 0 .. Batch
    BY <1>2 DEF Schedule!StartTick, Schedule!ConstantsAssumption
  <2>2. rang' \in BOOLEAN /\ turn = "idle" /\ turn' = "claim"
    BY <1>2 DEF Schedule!StartTick
  <2>3. UNCHANGED <<entries, wait, entry, ran, sleep, failures>>
    BY <1>2 DEF Schedule!StartTick, Schedule!rows
  <2>. QED BY <2>1, <2>2, <2>3 DEF Schedule!TypeOK
<1>3. CASE Schedule!NothingLeft
  BY <1>3 DEF Schedule!TypeOK, Schedule!NothingLeft, Schedule!EndTick, Schedule!rows, Schedule!clock
<1>4. CASE Schedule!ClaimFails
  BY <1>4 DEF Schedule!TypeOK, Schedule!ClaimFails, Schedule!EndTick, Schedule!Fault,
     Schedule!rows, Schedule!clock, Schedule!ConstantsAssumption
<1>. QED BY <1>1, <1>2, <1>3, <1>4

(* A job ends, whatever can be written: its row is let go of.              *)
LEMMA JobEndsSchedule ==
    ASSUME Schedule!ConstantsAssumption, Schedule!TypeOK, Schedule!JobEnds
    PROVE  /\ Schedule!TypeOK'
           /\ turn' = "claim" /\ entry \in Schedule!Ids
           /\ \/ /\ entries' = [entries EXCEPT ![entry] = "done"]
                 /\ wait' = [wait EXCEPT ![entry] = 0]
              \/ /\ entries' = [entries EXCEPT ![entry] = "pending"]
                 /\ wait' = [wait EXCEPT ![entry] = RetryDelay]
              \/ UNCHANGED <<entries, wait>>
           /\ Schedule!Outbox!LetGo
<1>1. /\ turn' = "claim" /\ entry' = Schedule!None /\ ran' = 0
      /\ entry \in Schedule!Ids /\ entry # Schedule!None
      /\ UNCHANGED <<left, sleep, rang>>
  BY DEF Schedule!TypeOK, Schedule!JobEnds, Schedule!MarkOutboxDone, Schedule!MarkOutboxRetry,
     Schedule!MarkFails, Schedule!NextJob, Schedule!clock
<1>2. \/ /\ entries' = [entries EXCEPT ![entry] = "done"]
         /\ wait' = [wait EXCEPT ![entry] = 0]
      \/ /\ entries' = [entries EXCEPT ![entry] = "pending"]
         /\ wait' = [wait EXCEPT ![entry] = RetryDelay]
      \/ UNCHANGED <<entries, wait>>
  BY DEF Schedule!JobEnds, Schedule!MarkOutboxDone, Schedule!MarkOutboxRetry, Schedule!MarkFails,
     Schedule!MarkedDone, Schedule!MarkedRetry, Schedule!DueAgain, Schedule!rows
<1>3. failures' \in 0 .. MaxFaults
  BY DEF Schedule!TypeOK, Schedule!JobEnds, Schedule!MarkOutboxDone, Schedule!MarkOutboxRetry,
     Schedule!MarkFails, Schedule!Fault, Schedule!ConstantsAssumption
<1>4. Schedule!TypeOK'
  <2>1. entries' \in [Schedule!Ids -> Schedule!JobStates]
    BY <1>1, <1>2 DEF Schedule!TypeOK, Schedule!JobStates
  <2>2. wait' \in [Schedule!Ids -> 0 .. IF Lease > RetryDelay THEN Lease ELSE RetryDelay]
    BY <1>1, <1>2, WaitBound DEF Schedule!TypeOK
  <2>3. ran' \in 0 .. JobTime
    BY <1>1 DEF Schedule!ConstantsAssumption
  <2>. QED BY <1>1, <1>3, <2>1, <2>2, <2>3 DEF Schedule!TypeOK
<1>5. Schedule!Outbox!LetGo
  BY <1>1, <1>2 DEF Schedule!Outbox!LetGo, Schedule!Outbox!MarkedDone, Schedule!Outbox!MarkedRetry
<1>. QED BY <1>1, <1>2, <1>4, <1>5

(* A restart forgets the job it was at, and starts with a tick.            *)
LEMMA RestartSchedule ==
    ASSUME Schedule!ConstantsAssumption, Schedule!TypeOK, Schedule!Restart
    PROVE  /\ Schedule!TypeOK'
           /\ UNCHANGED <<entries, wait>> /\ turn' = "idle"
           /\ [Schedule!Outbox!Next]_(Schedule!Outbox!vars)
<1>1. Schedule!TypeOK' /\ UNCHANGED <<entries, wait>> /\ turn' = "idle" /\ entry' = Schedule!None
  BY DEF Schedule!TypeOK, Schedule!Restart, Schedule!Fault, Schedule!rows, Schedule!ConstantsAssumption
<1>2. CASE entry = Schedule!None
  BY <1>1, <1>2 DEF Schedule!Outbox!vars
<1>3. CASE entry # Schedule!None
  BY <1>1, <1>3 DEF Schedule!Outbox!Next, Schedule!Outbox!LetGo
<1>. QED BY <1>1, <1>2, <1>3

(* No wait is longer than the longer of lease and delay, no job runs past  *)
(* its time limit, and a row is held exactly while one is worked on.       *)
THEOREM ScheduleTypes ==
    ASSUME Schedule!ConstantsAssumption
    PROVE  Schedule!Spec => []Schedule!TypeOK
<1>1. Schedule!TypeOK /\ [Schedule!Next]_(Schedule!vars) => Schedule!TypeOK'
  <2>. SUFFICES ASSUME Schedule!TypeOK, [Schedule!Next]_(Schedule!vars) PROVE Schedule!TypeOK'
    OBVIOUS
  <2>1. CASE UNCHANGED Schedule!vars
    BY <2>1 DEF Schedule!vars, Schedule!TypeOK
  <2>. QED BY <2>1, EnqueueSchedule, ClaimSchedule, ClockSchedule, JobEndsSchedule, RestartSchedule
       DEF Schedule!Next
<1>. QED BY <1>1, ScheduleInit, PTL DEF Schedule!Spec

(* What ApayOrder and LightningSend take the outbox to be: with the limit  *)
(* per tick, the order by id, delays and leases, a row still changes only  *)
(* as a row of FairOutbox, one job at a time.                              *)
THEOREM ScheduleKeepsToTheOutbox ==
    ASSUME Schedule!ConstantsAssumption
    PROVE  Schedule!Spec => Schedule!Outbox!SafeSpec
<1>1. Schedule!Init => Schedule!Outbox!Init
  BY DEF Schedule!Init, Schedule!Outbox!Init
<1>2. Schedule!TypeOK /\ [Schedule!Next]_(Schedule!vars)
      => [Schedule!Outbox!Next]_(Schedule!Outbox!vars)
  <2>. SUFFICES ASSUME Schedule!TypeOK, [Schedule!Next]_(Schedule!vars)
                PROVE  [Schedule!Outbox!Next]_(Schedule!Outbox!vars)
    OBVIOUS
  <2>1. CASE \E i \in Schedule!Ids : Schedule!Enqueue(i) \/ Schedule!Claim(i)
    BY <2>1, EnqueueSchedule, ClaimSchedule DEF Schedule!Outbox!Next
  <2>2. CASE \/ Schedule!Elapse \/ Schedule!StartTick
             \/ Schedule!NothingLeft \/ Schedule!ClaimFails
    BY <2>2, ClockSchedule DEF Schedule!Outbox!vars
  <2>3. CASE UNCHANGED Schedule!vars
    BY <2>3 DEF Schedule!vars, Schedule!Outbox!vars
  <2>4. CASE Schedule!JobEnds
    BY <2>4, JobEndsSchedule DEF Schedule!Outbox!Next
  <2>. QED BY <2>1, <2>2, <2>3, <2>4, RestartSchedule DEF Schedule!Next
<1>. QED BY <1>1, <1>2, ScheduleTypes, PTL DEF Schedule!Spec, Schedule!Outbox!SafeSpec

(* A step that leaves the rows and their waits alone, and no job running.  *)
LEMMA LeaseUntouched ==
    ASSUME Schedule!TypeOK, Schedule!LeaseInv, UNCHANGED <<entries, wait>>, turn' # "work"
    PROVE  Schedule!LeaseInv'
BY DEF Schedule!TypeOK, Schedule!LeaseInv, Schedule!Ids

(* While a job runs its row is not due: the lease the claim gave it shrinks *)
(* by no more than the job has taken.  Jobs shorter than the lease is what  *)
(* the defaults provide (HTTP_TIMEOUT 15 s per call, five minutes of lease). *)
THEOREM LeaseOutlivesEveryJob ==
    ASSUME Schedule!ConstantsAssumption, JobTime < Lease
    PROVE  Schedule!Spec => []Schedule!LeaseOutlivesJob
<1>1. Schedule!TypeOK /\ Schedule!LeaseInv /\ [Schedule!Next]_(Schedule!vars) => Schedule!LeaseInv'
  <2>. SUFFICES ASSUME Schedule!TypeOK, Schedule!LeaseInv, [Schedule!Next]_(Schedule!vars)
                PROVE  Schedule!LeaseInv'
    OBVIOUS
  <2>0. DOMAIN entries = Schedule!Ids /\ DOMAIN wait = Schedule!Ids
    BY DEF Schedule!TypeOK
  <2>1. ASSUME NEW i \in Schedule!Ids, Schedule!Enqueue(i) PROVE Schedule!LeaseInv'
    <3>1. /\ entries' = [entries EXCEPT ![i] = "pending"] /\ entries[i] = "absent"
          /\ wait' = [wait EXCEPT ![i] = 0] /\ UNCHANGED <<turn, entry, ran>>
      BY <2>1, EnqueueSchedule DEF Schedule!Enqueue
    <3>2. turn = "work" => entry # i /\ entry \in Schedule!Ids
      BY <3>1 DEF Schedule!LeaseInv, Schedule!TypeOK
    <3>. QED BY <3>1, <3>2, <2>0 DEF Schedule!LeaseInv, Schedule!ConstantsAssumption
  <2>2. ASSUME NEW i \in Schedule!Ids, Schedule!Claim(i) PROVE Schedule!LeaseInv'
    <3>1. /\ entries' = [entries EXCEPT ![i] = "processing"]
          /\ wait' = [wait EXCEPT ![i] = Lease] /\ turn' = "work" /\ entry' = i /\ ran' = 0
      BY <2>2, ClaimSchedule DEF Schedule!Claim
    <3>. QED BY <3>1, <2>0 DEF Schedule!LeaseInv, Schedule!ConstantsAssumption
  <2>3. CASE Schedule!Elapse
    <3>1. /\ UNCHANGED <<entries, turn, entry>>
          /\ wait' = [i \in Schedule!Ids |-> IF wait[i] > 0 THEN wait[i] - 1 ELSE 0]
          /\ turn = "work" => ran' = ran + 1
      BY <2>3 DEF Schedule!Elapse
    <3>2. /\ \A i \in Schedule!Ids : wait[i] \in Nat
          /\ ran \in Nat /\ Lease \in Nat /\ RetryDelay \in Nat
          /\ turn = "work" => entry \in Schedule!Ids
      BY DEF Schedule!TypeOK, Schedule!ConstantsAssumption
    <3>. QED BY <3>1, <3>2 DEF Schedule!LeaseInv
  <2>4. CASE Schedule!JobEnds
    BY <2>0, <2>4, JobEndsSchedule DEF Schedule!LeaseInv, Schedule!ConstantsAssumption
  <2>5. CASE Schedule!StartTick \/ Schedule!NothingLeft \/ Schedule!ClaimFails
    BY <2>5, LeaseUntouched DEF Schedule!StartTick, Schedule!NothingLeft, Schedule!ClaimFails,
       Schedule!EndTick, Schedule!rows
  <2>6. CASE Schedule!Restart
    BY <2>6, RestartSchedule, LeaseUntouched
  <2>7. CASE UNCHANGED Schedule!vars
    BY <2>7 DEF Schedule!vars, Schedule!LeaseInv
  <2>. QED BY <2>1, <2>2, <2>3, <2>4, <2>5, <2>6, <2>7 DEF Schedule!Next
<1>2. Schedule!TypeOK /\ Schedule!LeaseInv => Schedule!LeaseOutlivesJob
  BY DEF Schedule!TypeOK, Schedule!LeaseInv, Schedule!LeaseOutlivesJob, Schedule!Due,
     Schedule!ConstantsAssumption
<1>. QED BY <1>1, <1>2, ScheduleInit, ScheduleTypes, PTL DEF Schedule!Spec
=============================================================================
