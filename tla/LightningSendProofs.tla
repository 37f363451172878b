------------------------ MODULE LightningSendProofs ------------------------
(***************************************************************************)
(* Proofs about LightningSend, for every set of hashes, every setting of   *)
(* the deltas and margins and any number of faults.                        *)
(*                                                                         *)
(* One lemma per action shows that it preserves the inductive invariant    *)
(* IInv; the theorems follow it.  MaxHeight and MaxFaults only bound the   *)
(* instances TLC explores: no proof uses them.                             *)
(***************************************************************************)
EXTENDS LightningSend, TLAPS

-----------------------------------------------------------------------------
(* Facts about the operators.                                              *)

(* A job is a hash and one of the two actions of the outbox.               *)
LEMMA JobFacts ==
    /\ \A h \in Hash : <<h, "pay">> \in Job /\ <<h, "claim">> \in Job
    /\ \A j \in Job : j[1] \in Hash /\ j[2] \in {"pay", "claim"} /\ j = <<j[1], j[2]>>
BY DEF Job

(* models.go numbers the statuses of a relay.                              *)
LEMMA RankValues ==
    /\ Rank("none") = 0 /\ Rank("quoted") = 1 /\ Rank("claimable") = 2
    /\ Rank("outbound_pending") = 3 /\ Rank("outbound_paid") = 4
    /\ Rank("outbound_claimed") = 5 /\ Rank("settled") = 6
    /\ Rank("cancelled") = 7 /\ Rank("failed") = 8
BY DEF Rank

(* What a comparison of statuses with AtOrBeyond means.                    *)
LEMMA RankFacts ==
    \A s \in States \union {"none"} :
        /\ Rank(s) \in 0..8
        /\ AtOrBeyond(s, "claimable") <=> s \notin {"none", "quoted"}
        /\ AtOrBeyond(s, "outbound_pending") <=> s \notin {"none", "quoted", "claimable"}
        /\ AtOrBeyond(s, "outbound_paid") <=> s \notin {"none", "quoted", "claimable", "outbound_pending"}
        /\ AtOrBeyond(s, "settled") <=> s \in Terminal
BY RankValues DEF States, AtOrBeyond, Terminal

-----------------------------------------------------------------------------
(* Every action preserves the invariant.                                   *)

(* A quote touches a hash without a record and without an invoice.         *)
LEMMA QuoteAndRequestHodlInv ==
    ASSUME NEW h \in Hash, IInv, QuoteAndRequestHodl(h)
    PROVE  IInv'
<1>. USE DEF IInv, db, cron, node, QuoteAndRequestHodl, hash
<1>1. QuotingInv'
  BY DEF QuotingInv, TypeOK
<1>2. TypeOK' /\ CronInv' /\ DeliveryInv'
  BY DEF TypeOK, CronInv, DeliveryInv
<1>3. ClaimInv' /\ DeadlineInv'
  BY DEF ClaimInv, DeadlineInv
<1>. QED BY <1>1, <1>2, <1>3

(* The insert finds the request alone with its hash (QuotingInv).          *)
LEMMA InsertLightningSendInv ==
    ASSUME NEW h \in Hash, IInv, InsertLightningSend(h)
    PROVE  IInv'
<1>. USE DEF IInv, db, cron, node, InsertLightningSend, hash
<1>1. TypeOK'
  BY DEF TypeOK, States, ClaimInv
<1>2. CronInv'
  BY RankFacts DEF CronInv, QuotingInv
<1>3. DeliveryInv'
  BY RankFacts DEF DeliveryInv, QuotingInv
<1>4. ClaimInv'
  BY DEF ClaimInv, QuotingInv
<1>5. QuotingInv' /\ DeadlineInv'
  BY DEF QuotingInv, DeadlineInv
<1>. QED BY <1>1, <1>2, <1>3, <1>4, <1>5

(* A failed insert may cancel the invoice nobody was shown.                *)
LEMMA InsertFailsInv ==
    ASSUME NEW h \in Hash, IInv, InsertFails(h)
    PROVE  IInv'
<1>. USE DEF IInv, db, cron, node, InsertFails, hash
<1>1. TypeOK'
  BY DEF TypeOK, Fault
<1>2. QuotingInv'
  BY DEF QuotingInv, TypeOK
<1>3. ClaimInv'
  BY JobFacts DEF ClaimInv, TypeOK, CronInv, QuotingInv
<1>4. DeadlineInv'
  BY DEF DeadlineInv, TypeOK, QuotingInv
<1>5. CronInv' /\ DeliveryInv'
  BY DEF CronInv, DeliveryInv
<1>. QED BY <1>1, <1>2, <1>3, <1>4, <1>5

(* The deadline is set here, before anything could have been paid.         *)
LEMMA CallerPaysInv ==
    ASSUME NEW h \in Hash, IInv, CallerPays(h)
    PROVE  IInv'
<1>a. deadline[h] = 0 /\ outbound[h] = "none" /\ calls[h] = 0
  BY DEF IInv, TypeOK, DeliveryInv, DeadlineInv, CallerPays
<1>b. pc \in {"pay_own", "pay_send"} => hash # h
  BY <1>a, ConstantsAssumption, JobFacts DEF IInv, TypeOK, CronInv, DeadlineInv, PayPCs, hash
<1>c. HoldBlocks \in Nat
  BY ConstantsAssumption DEF HoldBlocks
<1>. USE DEF IInv, db, cron, node, CallerPays, hash
<1>1. TypeOK'
  BY <1>c DEF TypeOK
<1>2. DeliveryInv'
  BY <1>a DEF DeliveryInv
<1>3. DeadlineInv'
  BY <1>a, <1>b DEF DeadlineInv, TypeOK
<1>4. CronInv' /\ QuotingInv' /\ ClaimInv'
  BY DEF CronInv, QuotingInv, ClaimInv
<1>. QED BY <1>1, <1>2, <1>3, <1>4

(* The third party claims a payment in flight.                             *)
LEMMA PayeeClaimsInv ==
    ASSUME NEW h \in Hash, IInv, PayeeClaims(h)
    PROVE  IInv'
<1>. USE DEF IInv, db, cron, node, PayeeClaims, hash
<1>1. TypeOK' /\ CronInv' /\ QuotingInv'
  BY DEF TypeOK, CronInv, QuotingInv
<1>2. DeliveryInv' /\ ClaimInv' /\ DeadlineInv'
  BY DEF DeliveryInv, ClaimInv, DeadlineInv
<1>. QED BY <1>1, <1>2

(* A payment in flight fails.                                              *)
LEMMA DeliveryFailsInv ==
    ASSUME NEW h \in Hash, IInv, DeliveryFails(h)
    PROVE  IInv'
<1>. USE DEF IInv, db, cron, node, DeliveryFails, hash
<1>1. TypeOK' /\ CronInv' /\ QuotingInv'
  BY DEF TypeOK, CronInv, QuotingInv
<1>2. DeliveryInv' /\ ClaimInv' /\ DeadlineInv'
  BY DEF DeliveryInv, ClaimInv, DeadlineInv
<1>. QED BY <1>1, <1>2

(* A block may time HTLCs out, and may not run past JobBlocks.             *)
LEMMA NewBlockInv ==
    ASSUME IInv, NewBlock
    PROVE  IInv'
<1>. USE DEF IInv, db, cron, node, NewBlock, hash
<1>1. QuotingInv'
  BY DEF QuotingInv, TypeOK
<1>2. ClaimInv'
  BY JobFacts DEF ClaimInv, TypeOK, CronInv
<1>3. DeadlineInv'
  BY ConstantsAssumption DEF DeadlineInv, TypeOK
<1>4. TypeOK' /\ CronInv' /\ DeliveryInv'
  BY DEF TypeOK, CronInv, DeliveryInv
<1>. QED BY <1>1, <1>2, <1>3, <1>4

(* The claimable webhook moves a record and enqueues its pay job.          *)
LEMMA ClaimableWebhookInv ==
    ASSUME NEW h \in Hash, IInv, ClaimableWebhook(h)
    PROVE  IInv'
<1>. USE DEF IInv, db, cron, node, ClaimableWebhook, hash
<1>1. TypeOK'
  BY ConstantsAssumption DEF TypeOK, JobStates, States, ClaimInv, Enqueued, Advance
<1>2. CronInv'
  BY RankFacts DEF CronInv, TypeOK, ClaimInv, Job, Enqueued, States, Advance
<1>3. QuotingInv'
  BY DEF QuotingInv, TypeOK, Advance
<1>4. DeliveryInv'
  BY JobFacts, RankFacts DEF DeliveryInv, TypeOK, CronInv, Advance
<1>5. ClaimInv'
  BY DEF ClaimInv, TypeOK, CronInv, Job, Enqueued, Advance
<1>6. DeadlineInv'
  BY DEF DeadlineInv
<1>. QED BY <1>1, <1>2, <1>3, <1>4, <1>5, <1>6

(* The payment_sent webhook records the preimage with its claim job.       *)
LEMMA PaymentSentWebhookInv ==
    ASSUME NEW h \in Hash, IInv, PaymentSentWebhook(h)
    PROVE  IInv'
<1>. USE DEF IInv, db, cron, node, PaymentSentWebhook, hash
<1>1. TypeOK'
  BY DEF TypeOK, JobStates, States, ClaimInv, Enqueued, Advance
<1>2. CronInv'
  BY RankFacts DEF CronInv, TypeOK, ClaimInv, Job, Enqueued, JobStates, States, Advance
<1>3. QuotingInv'
  BY DEF QuotingInv, TypeOK, Advance
<1>4. DeliveryInv'
  BY JobFacts, RankFacts DEF DeliveryInv, TypeOK, CronInv, States, ClaimInv, Advance
<1>5. ClaimInv'
  BY DEF ClaimInv, TypeOK, CronInv, Job, Enqueued, Advance
<1>6. DeadlineInv'
  BY DEF DeadlineInv
<1>. QED BY <1>1, <1>2, <1>3, <1>4, <1>5, <1>6

(* With the feature off the webhook changes no record.                     *)
LEMMA PaymentSentIgnoredInv ==
    ASSUME NEW h \in Hash, IInv, PaymentSentIgnored(h)
    PROVE  IInv'
<1>. USE DEF IInv, db, cron, node, PaymentSentIgnored, hash
<1>1. TypeOK' /\ CronInv' /\ QuotingInv'
  BY DEF TypeOK, CronInv, QuotingInv
<1>2. DeliveryInv' /\ ClaimInv' /\ DeadlineInv'
  BY DEF DeliveryInv, ClaimInv, DeadlineInv
<1>. QED BY <1>1, <1>2

(* The cron goroutine leases a job.                                        *)
LEMMA ClaimOutboxJobInv ==
    ASSUME NEW j \in Job, IInv, ClaimOutboxJob(j)
    PROVE  IInv'
<1>. USE DEF IInv, db, cron, node, ClaimOutboxJob
<1>1. TypeOK'
  BY DEF TypeOK, JobStates, PayPCs, ClaimPCs, Taken
<1>2. CronInv'
  BY JobFacts, ConstantsAssumption DEF CronInv, PayPCs, ClaimPCs, Taken, Claimable
<1>3. ClaimInv'
  BY DEF ClaimInv, Taken, Claimable
<1>4. QuotingInv' /\ DeliveryInv' /\ DeadlineInv'
  BY DEF QuotingInv, DeliveryInv, DeadlineInv
<1>. QED BY <1>1, <1>2, <1>3, <1>4

(* A job is marked done or due again: CronInv and ClaimInv say that a      *)
(* claim job that is done has settled its relay.                           *)
LEMMA FinishJobInv ==
    ASSUME IInv, FinishJob
    PROVE  IInv'
<1>. USE DEF IInv, db, cron, node, FinishJob, hash
<1>1. TypeOK'
  BY DEF TypeOK, JobStates, MarkedDone, MarkedRetry
<1>2. CronInv'
  BY DEF CronInv, PayPCs, ClaimPCs, MarkedDone, MarkedRetry
<1>3. ClaimInv'
  BY DEF ClaimInv, CronInv, MarkedDone, MarkedRetry
<1>4. QuotingInv' /\ DeliveryInv' /\ DeadlineInv'
  BY DEF QuotingInv, DeliveryInv, DeadlineInv
<1>. QED BY <1>1, <1>2, <1>3, <1>4

(* A call fails and the job returns its error.                             *)
LEMMA JobErrorInv ==
    ASSUME IInv, JobError
    PROVE  IInv'
<1>. USE DEF IInv, db, cron, node, JobError, Goto
<1>1. TypeOK'
  BY DEF TypeOK, Fault
<1>2. CronInv'
  BY DEF CronInv, PayPCs, ClaimPCs
<1>3. QuotingInv' /\ DeliveryInv' /\ ClaimInv' /\ DeadlineInv'
  BY DEF QuotingInv, DeliveryInv, ClaimInv, DeadlineInv
<1>. QED BY <1>1, <1>2, <1>3

(* A restart forgets where the process stood, and nothing else.            *)
LEMMA RestartInv ==
    ASSUME NEW setting \in RestartSettings, IInv, Restart(setting)
    PROVE  IInv'
<1>. USE DEF IInv, db, cron, node, Restart
<1>1. TypeOK'
  BY ConstantsAssumption DEF TypeOK, Fault
<1>2. CronInv'
  BY DEF CronInv, PayPCs, ClaimPCs
<1>3. QuotingInv' /\ DeliveryInv' /\ ClaimInv' /\ DeadlineInv'
  BY DEF QuotingInv, DeliveryInv, ClaimInv, DeadlineInv
<1>. QED BY <1>1, <1>2, <1>3

(* The pay job ends early for a delivered relay.                           *)
LEMMA LoadForPayInv ==
    ASSUME IInv, LoadForPay
    PROVE  IInv'
<1>. USE DEF IInv, db, cron, node, LoadForPay, Goto
<1>1. TypeOK'
  BY DEF TypeOK, PayPCs
<1>2. CronInv'
  BY DEF CronInv, PayPCs, ClaimPCs
<1>3. ClaimInv'
  BY DEF ClaimInv, CronInv, PayPCs
<1>4. QuotingInv' /\ DeliveryInv' /\ DeadlineInv'
  BY DEF QuotingInv, DeliveryInv, DeadlineInv
<1>. QED BY <1>1, <1>2, <1>3, <1>4

(* The check of the deadline leaves seen behind for DeadlineInv.           *)
LEMMA CanPayInv ==
    ASSUME IInv, CanPay
    PROVE  IInv'
<1>. USE DEF IInv, db, cron, node, CanPay, hash
<1>1. TypeOK'
  BY DEF TypeOK, PayPCs
<1>2. CronInv'
  BY DEF CronInv, PayPCs, ClaimPCs
<1>3. DeadlineInv'
  BY JobFacts, ConstantsAssumption DEF DeadlineInv, TypeOK, CronInv, DeadlineFits
<1>4. QuotingInv' /\ DeliveryInv' /\ ClaimInv'
  BY DEF QuotingInv, DeliveryInv, ClaimInv
<1>. QED BY <1>1, <1>2, <1>3, <1>4

(* The pay job refuses the delivery.                                       *)
LEMMA RefusePayInv ==
    ASSUME IInv, RefusePay
    PROVE  IInv'
<1>. USE DEF IInv, db, cron, node, RefusePay, Goto
<1>1. TypeOK'
  BY DEF TypeOK, PayPCs, Fault
<1>2. CronInv'
  BY DEF CronInv, PayPCs, ClaimPCs
<1>3. QuotingInv' /\ DeliveryInv' /\ ClaimInv' /\ DeadlineInv'
  BY DEF QuotingInv, DeliveryInv, ClaimInv, DeadlineInv
<1>. QED BY <1>1, <1>2, <1>3

(* The compare-and-set that makes one job the owner of a delivery.         *)
LEMMA OwnDeliveryInv ==
    ASSUME IInv, OwnDelivery
    PROVE  IInv'
<1>. USE DEF IInv, db, cron, node, OwnDelivery, Goto, hash
<1>1. TypeOK'
  BY DEF TypeOK, ClaimInv, Enqueued, States, PayPCs, Advance
<1>2. CronInv'
  BY RankFacts DEF CronInv, TypeOK, ClaimInv, Enqueued, States, ClaimPCs, Advance
<1>3. QuotingInv'
  BY DEF QuotingInv, TypeOK, Advance
<1>4. DeliveryInv'
  BY JobFacts, RankFacts DEF DeliveryInv, TypeOK, CronInv, Advance
<1>5. ClaimInv'
  BY DEF ClaimInv, TypeOK, CronInv, Enqueued, ClaimPCs, Advance
<1>6. DeadlineInv'
  BY DEF DeadlineInv
<1>. QED BY <1>1, <1>2, <1>3, <1>4, <1>5, <1>6

(* The owner calls SendPayment for the first time and it is accepted.      *)
LEMMA SendAcceptedInv ==
    ASSUME IInv, SendAccepted
    PROVE  IInv'
<1>. USE DEF IInv, db, cron, node, SendAccepted, SendPayment, Goto
<1>a. job \in Job /\ hash \in Hash /\ pc = "pay_send"
  BY JobFacts DEF TypeOK, CronInv, PayPCs, hash
<1>b. calls[hash] = 0 /\ FinalDelta[hash] \in Nat
  BY <1>a, ConstantsAssumption DEF DeliveryInv
<1>1. TypeOK'
  BY <1>a, <1>b DEF TypeOK, PayPCs
<1>2. CronInv'
  BY DEF CronInv, PayPCs, ClaimPCs
<1>3. DeliveryInv'
  BY <1>a, <1>b, RankFacts, ConstantsAssumption DEF DeliveryInv, TypeOK, DeadlineInv
<1>4. ClaimInv'
  BY DEF ClaimInv, DeliveryInv
<1>5. DeadlineInv'
  BY <1>a, <1>b, ConstantsAssumption DEF DeadlineInv, TypeOK
<1>6. QuotingInv'
  BY DEF QuotingInv
<1>. QED BY <1>1, <1>2, <1>3, <1>4, <1>5, <1>6

(* The owner calls SendPayment for the first time and it fails.            *)
LEMMA SendReportedFailedInv ==
    ASSUME IInv, SendReportedFailed
    PROVE  IInv'
<1>. USE DEF IInv, db, cron, node, SendReportedFailed, SendPayment, Goto, hash
<1>a. job \in Job /\ hash \in Hash /\ pc = "pay_send"
  BY JobFacts DEF TypeOK, CronInv, PayPCs, hash
<1>b. calls[hash] = 0 /\ FinalDelta[hash] \in Nat
  BY <1>a, ConstantsAssumption DEF DeliveryInv
<1>1. TypeOK'
  BY <1>a, <1>b DEF TypeOK, PayPCs
<1>2. CronInv'
  BY DEF CronInv, PayPCs, ClaimPCs
<1>3. DeliveryInv'
  BY <1>a, <1>b, RankFacts, ConstantsAssumption DEF DeliveryInv, TypeOK, DeadlineInv
<1>4. ClaimInv'
  BY DEF ClaimInv, DeliveryInv
<1>5. DeadlineInv'
  BY DEF DeadlineInv, TypeOK
<1>6. QuotingInv'
  BY DEF QuotingInv
<1>. QED BY <1>1, <1>2, <1>3, <1>4, <1>5, <1>6

(* The owner calls SendPayment for the first time; the answer is lost.     *)
LEMMA SendLostInv ==
    ASSUME NEW result \in {"none", "inflight"}, IInv, SendLost(result)
    PROVE  IInv'
<1>. USE DEF IInv, db, cron, node, SendLost, SendPayment, Goto
<1>a. job \in Job /\ hash \in Hash /\ pc = "pay_send"
  BY JobFacts DEF TypeOK, CronInv, PayPCs, hash
<1>b. calls[hash] = 0 /\ FinalDelta[hash] \in Nat
  BY <1>a, ConstantsAssumption DEF DeliveryInv
<1>1. TypeOK'
  BY <1>a, <1>b DEF TypeOK, Fault
<1>2. CronInv'
  BY DEF CronInv, PayPCs, ClaimPCs
<1>3. DeliveryInv'
  BY <1>a, <1>b, RankFacts, ConstantsAssumption DEF DeliveryInv, TypeOK, ClaimInv,
     DeadlineInv
<1>4. ClaimInv'
  BY DEF ClaimInv, DeliveryInv
<1>5. DeadlineInv'
  BY <1>a, <1>b, ConstantsAssumption DEF DeadlineInv, TypeOK
<1>6. QuotingInv'
  BY DEF QuotingInv
<1>. QED BY <1>1, <1>2, <1>3, <1>4, <1>5, <1>6

(* The accepted delivery is recorded.                                      *)
LEMMA MarkOutboundPaidInv ==
    ASSUME IInv, MarkOutboundPaid
    PROVE  IInv'
<1>. USE DEF IInv, db, cron, node, MarkOutboundPaid, Goto
<1>1. TypeOK'
  BY DEF TypeOK, States, ClaimInv, Enqueued, Advance
<1>2. CronInv'
  BY RankFacts DEF CronInv, TypeOK, States, ClaimPCs, ClaimInv, Enqueued, Advance
<1>3. QuotingInv'
  BY DEF QuotingInv, TypeOK, Advance
<1>4. DeliveryInv'
  BY RankFacts DEF DeliveryInv, TypeOK, States, ClaimInv, Advance
<1>5. ClaimInv'
  BY DEF ClaimInv, TypeOK, CronInv, Enqueued, ClaimPCs, Advance
<1>6. DeadlineInv'
  BY DEF DeadlineInv
<1>. QED BY <1>1, <1>2, <1>3, <1>4, <1>5, <1>6

(* The HODL invoice is cancelled, or that call fails.                      *)
LEMMA CancelHodlInv ==
    ASSUME IInv, CancelHodl
    PROVE  IInv'
<1>. USE DEF IInv, db, cron, node, CancelHodl, Goto, hash
<1>1. TypeOK'
  BY DEF TypeOK, PayPCs, CancelTakesEffect, Fault
<1>2. CronInv'
  BY DEF CronInv, PayPCs, ClaimPCs
<1>3. QuotingInv'
  BY JobFacts, RankFacts DEF QuotingInv, TypeOK, CronInv, ClaimPCs, CancelTakesEffect
<1>4. ClaimInv'
  BY DEF ClaimInv, TypeOK, CancelTakesEffect
<1>5. DeadlineInv'
  BY DEF DeadlineInv, TypeOK, CancelTakesEffect
<1>6. DeliveryInv'
  BY DEF DeliveryInv
<1>. QED BY <1>1, <1>2, <1>3, <1>4, <1>5, <1>6

(* The relay is recorded as cancelled or failed, or that write fails.      *)
LEMMA MarkTerminalInv ==
    ASSUME IInv, MarkTerminal
    PROVE  IInv'
<1>. USE DEF IInv, db, cron, node, MarkTerminal, Goto, hash
<1>1. TypeOK'
  BY DEF TypeOK, ClaimInv, Enqueued, States, Advance, Fault
<1>2. CronInv'
  BY RankFacts DEF CronInv, TypeOK, ClaimInv, Enqueued, States, ClaimPCs, Advance
<1>3. QuotingInv'
  BY JobFacts, RankFacts DEF QuotingInv, TypeOK, CronInv, ClaimPCs, Advance
<1>4. DeliveryInv'
  BY RankFacts DEF DeliveryInv, TypeOK, States, ClaimInv, Advance
<1>5. ClaimInv'
  BY DEF ClaimInv, TypeOK, CronInv, Enqueued, ClaimPCs, Refundable, Advance
<1>6. DeadlineInv'
  BY DEF DeadlineInv
<1>. QED BY <1>1, <1>2, <1>3, <1>4, <1>5, <1>6

(* The claim job ends early for a settled relay only.                      *)
LEMMA LoadForClaimInv ==
    ASSUME IInv, LoadForClaim
    PROVE  IInv'
<1>. USE DEF IInv, db, cron, node, LoadForClaim, Goto, hash
<1>1. TypeOK'
  BY DEF TypeOK, ClaimPCs
<1>2. CronInv'
  BY DEF CronInv, PayPCs, ClaimPCs
<1>3. ClaimInv'
  BY JobFacts, RankFacts DEF ClaimInv, TypeOK, CronInv, Terminal
<1>4. QuotingInv' /\ DeliveryInv' /\ DeadlineInv'
  BY DEF QuotingInv, DeliveryInv, DeadlineInv
<1>. QED BY <1>1, <1>2, <1>3, <1>4

(* The held HTLC is claimed.                                               *)
LEMMA ClaimHodlInv ==
    ASSUME IInv, ClaimHodl
    PROVE  IInv'
<1>. USE DEF IInv, db, cron, node, ClaimHodl, Goto, hash
<1>1. TypeOK'
  BY JobFacts DEF TypeOK, CronInv, ClaimPCs, Fault
<1>2. CronInv'
  BY DEF CronInv, PayPCs, ClaimPCs
<1>3. ClaimInv'
  BY JobFacts DEF ClaimInv, TypeOK, CronInv, ClaimPCs, DeliveryInv
<1>4. QuotingInv' /\ DeliveryInv' /\ DeadlineInv'
  BY DEF QuotingInv, DeliveryInv, DeadlineInv
<1>. QED BY <1>1, <1>2, <1>3, <1>4

(* A repeated claim finds the HTLC claimed or gone.                        *)
LEMMA ClaimHodlAgainInv ==
    ASSUME IInv, ClaimHodlAgain
    PROVE  IInv'
<1>. USE DEF IInv, db, cron, node, ClaimHodlAgain, Goto, hash
<1>1. TypeOK'
  BY DEF TypeOK, ClaimPCs
<1>2. CronInv'
  BY DEF CronInv, PayPCs, ClaimPCs
<1>3. QuotingInv' /\ DeliveryInv' /\ ClaimInv' /\ DeadlineInv'
  BY DEF QuotingInv, DeliveryInv, ClaimInv, DeadlineInv
<1>. QED BY <1>1, <1>2, <1>3

(* The settlement is recorded.                                             *)
LEMMA MarkSettledInv ==
    ASSUME IInv, MarkSettled
    PROVE  IInv'
<1>. USE DEF IInv, db, cron, node, MarkSettled, Goto, hash
<1>1. TypeOK'
  BY DEF TypeOK, States, ClaimInv, Enqueued, Advance
<1>2. CronInv'
  BY RankFacts DEF CronInv, TypeOK, States, PayPCs, ClaimInv, Enqueued, Advance
<1>3. QuotingInv'
  BY DEF QuotingInv, TypeOK, Advance
<1>4. DeliveryInv'
  BY RankFacts DEF DeliveryInv, TypeOK, States, ClaimInv, Advance
<1>5. ClaimInv'
  BY JobFacts DEF ClaimInv, TypeOK, CronInv, Enqueued, Advance
<1>6. DeadlineInv'
  BY DEF DeadlineInv
<1>. QED BY <1>1, <1>2, <1>3, <1>4, <1>5, <1>6
-----------------------------------------------------------------------------
(* The invariant.                                                          *)

(* The empty database satisfies the invariant.                             *)
LEMMA InitInv == Init => IInv
<1>. SUFFICES ASSUME Init PROVE IInv
  OBVIOUS
<1>1. TypeOK /\ QuotingInv
  BY DEF Init, TypeOK, QuotingInv, JobStates, States, PayPCs, ClaimPCs
<1>2. CronInv /\ ClaimInv
  BY ConstantsAssumption, JobFacts DEF Init, CronInv, ClaimInv, PayPCs, ClaimPCs
<1>3. DeliveryInv /\ DeadlineInv
  BY DEF Init, DeliveryInv, DeadlineInv
<1>. QED BY <1>1, <1>2, <1>3 DEF IInv

(* A stuttering step preserves it.                                         *)
LEMMA StutterInv == IInv /\ UNCHANGED vars => IInv'
<1>. SUFFICES ASSUME IInv, UNCHANGED vars PROVE IInv'
  OBVIOUS
<1>. USE DEF IInv, vars, db, cron, node
<1>1. TypeOK' /\ QuotingInv'
  BY DEF TypeOK, QuotingInv
<1>2. CronInv'
  BY DEF CronInv, hash
<1>3. DeliveryInv'
  BY DEF DeliveryInv, hash
<1>4. ClaimInv'
  BY DEF ClaimInv, hash
<1>5. DeadlineInv'
  BY DEF DeadlineInv, hash, QuoteFits
<1>. QED BY <1>1, <1>2, <1>3, <1>4, <1>5

(* Every step preserves it, by the lemmas about the actions.               *)
LEMMA NextInv == IInv /\ [Next]_vars => IInv'
<1>. SUFFICES ASSUME IInv, Next PROVE IInv'
  BY StutterInv
<1>1. CASE Cron
  <2>1. ASSUME PayJob PROVE IInv'
    BY <2>1, LoadForPayInv, CanPayInv, RefusePayInv, OwnDeliveryInv, SendAcceptedInv,
       SendReportedFailedInv, SendLostInv, MarkOutboundPaidInv, CancelHodlInv, MarkTerminalInv
       DEF PayJob
  <2>2. ASSUME ClaimJob PROVE IInv'
    BY <2>2, LoadForClaimInv, ClaimHodlInv, ClaimHodlAgainInv, MarkSettledInv DEF ClaimJob
  <2>. QED
    BY <1>1, <2>1, <2>2, ClaimOutboxJobInv, FinishJobInv, JobErrorInv DEF Cron
<1>2. ASSUME NEW h \in Hash, Handlers(h) PROVE IInv'
  BY <1>2, QuoteAndRequestHodlInv, InsertLightningSendInv, InsertFailsInv, ClaimableWebhookInv,
     PaymentSentWebhookInv, PaymentSentIgnoredInv DEF Handlers
<1>3. ASSUME NEW h \in Hash, Environment(h) PROVE IInv'
  BY <1>3, CallerPaysInv, PayeeClaimsInv, DeliveryFailsInv DEF Environment
<1>. QED
  BY <1>1, <1>2, <1>3, NewBlockInv, RestartInv DEF Next

(* The invariant holds in every reachable state.                           *)
THEOREM Invariance == Spec => []IInv
BY InitInv, NextInv, PTL DEF Spec

(* Every variable keeps its type. *)
THEOREM TypeCorrect == Spec => []TypeOK
BY Invariance, PTL DEF IInv

(* SendPayment is called at most once for a payment hash. *)
THEOREM PaidAtMostOnce == Spec => []PayAtMostOnce
<1>1. IInv => PayAtMostOnce
  BY DEF IInv, DeliveryInv, PayAtMostOnce
<1>. QED BY <1>1, Invariance, PTL

(* A relay recorded as cancelled was not and will not be delivered. *)
THEOREM CancelledIsUndelivered == Spec => []CancelledMeansUndelivered
<1>1. IInv => CancelledMeansUndelivered
  BY DEF IInv, DeliveryInv, CancelledMeansUndelivered
<1>. QED BY <1>1, Invariance, PTL

(* A preimage in hand always has a claim job that will use it. *)
THEOREM PreimageIsNotForgotten == Spec => []PreimageKeepsItsJob
<1>1. IInv => PreimageKeepsItsJob
  BY DEF IInv, ClaimInv, PreimageKeepsItsJob
<1>. QED BY <1>1, Invariance, PTL

(* A delivery in flight resolves before the caller's HTLC is failed back. *)
THEOREM DeliveryInTime == Spec => []DeliveryResolvesInTime
<1>1. IInv => DeliveryResolvesInTime
  BY DEF IInv, DeadlineInv, DeliveryResolvesInTime
<1>. QED BY <1>1, Invariance, PTL

(* What the quote accepts, the check before the payment accepts at once. *)
THEOREM QuoteLeavesRoom == Spec => []QuoteLeavesRoomToPay
<1>1. ASSUME IInv, NEW h \in Hash, inbound[h] = "held", deadline[h] = height + HoldBlocks
      PROVE  DeadlineFits(h)
  <2>1. QuoteFits(h)
    BY <1>1 DEF IInv, DeadlineInv
  <2>2. FinalDelta[h] \in Nat /\ height \in Nat
    BY <1>1, ConstantsAssumption DEF IInv, TypeOK
  <2>. QED
    BY <1>1, <2>1, <2>2, ConstantsAssumption DEF QuoteFits, Budget, HoldBlocks, DeadlineFits
<1>2. IInv => QuoteLeavesRoomToPay
  BY <1>1 DEF QuoteLeavesRoomToPay
<1>. QED BY <1>2, Invariance, PTL

-----------------------------------------------------------------------------
(* Statuses only move forward.                                             *)

Forward(h) ==
    /\ Rank(status'[h]) >= Rank(status[h])
    /\ status[h] \in Terminal => status'[h] = status[h]

(* A compare-and-set from statuses before its target moves forward.        *)
LEMMA AdvanceForward ==
    ASSUME TypeOK, NEW g \in Hash, NEW from \in SUBSET States, NEW to \in States, NEW rows,
           Advance(g, from, to, rows),
           \A s \in from : Rank(to) >= Rank(s) /\ s \notin Terminal,
           NEW h \in Hash
    PROVE  Forward(h)
<1>1. Rank(status[h]) \in 0..8
  BY RankFacts DEF TypeOK
<1>2. CASE status[g] \in from
  <2>1. status' = [status EXCEPT ![g] = to]
    BY <1>2 DEF Advance
  <2>. QED BY <1>1, <1>2, <2>1 DEF Forward, TypeOK
<1>3. CASE status[g] \notin from
  <2>1. status' = status
    BY <1>3 DEF Advance, db
  <2>. QED BY <1>1, <2>1 DEF Forward
<1>. QED BY <1>2, <1>3

(* A step that leaves the statuses alone moves no record back.             *)
LEMMA UnchangedForward ==
    ASSUME TypeOK, UNCHANGED status, NEW h \in Hash PROVE Forward(h)
<1>1. Rank(status[h]) \in 0..8
  BY RankFacts DEF TypeOK
<1>. QED BY <1>1 DEF Forward

(* Every step moves every record forward or not at all.                    *)
LEMMA NextForward ==
    ASSUME IInv, [Next]_vars, NEW h \in Hash
    PROVE  Forward(h)
<1>. USE DEF IInv
<1>1. CASE UNCHANGED status
  BY <1>1, UnchangedForward
<1>2. ASSUME NEW g \in Hash, InsertLightningSend(g) PROVE Forward(h)
  <2>1. status[g] = "none" /\ status' = [status EXCEPT ![g] = "quoted"]
    BY <1>2 DEF InsertLightningSend, QuotingInv
  <2>2. Rank(status[h]) \in 0..8
    BY RankFacts DEF TypeOK
  <2>. QED BY <2>1, <2>2, RankValues DEF Forward, TypeOK, Terminal
<1>3. ASSUME NEW g \in Hash, ClaimableWebhook(g) PROVE Forward(h)
  BY <1>3, AdvanceForward, RankValues DEF ClaimableWebhook, States, Terminal
<1>4. ASSUME NEW g \in Hash, PaymentSentWebhook(g) PROVE Forward(h)
  BY <1>4, AdvanceForward, RankValues DEF PaymentSentWebhook, States, Terminal
<1>5. pc # "idle" => hash \in Hash
  BY JobFacts DEF TypeOK, CronInv, hash
<1>6. CASE OwnDelivery
  BY <1>5, <1>6, AdvanceForward, RankValues DEF OwnDelivery, States, Terminal
<1>7. CASE MarkOutboundPaid
  BY <1>5, <1>7, AdvanceForward, RankValues DEF MarkOutboundPaid, States, Terminal
<1>8. CASE MarkTerminal
  <2>. DEFINE to == IF pc = "fail_mark" THEN "failed" ELSE "cancelled"
  <2>1. CASE Advance(hash, Refundable, to, {})
    <3>1. to \in States /\ Rank(to) >= 7 /\ hash \in Hash
      BY <1>5, <1>8, RankValues DEF States, MarkTerminal
    <3>2. Refundable \subseteq States /\ Refundable \cap Terminal = {}
      BY DEF Refundable, States, Terminal
    <3>3. \A s \in Refundable : Rank(s) \in 0..7 /\ Rank(to) \in Nat
      BY RankValues DEF Refundable
    <3>4. \A s \in Refundable : Rank(to) >= Rank(s) /\ s \notin Terminal
      BY <3>1, <3>2, <3>3
    <3>. HIDE DEF to
    <3>. QED BY <2>1, <3>1, <3>2, <3>4, AdvanceForward
  <2>. QED
    BY <1>1, <1>8, <2>1 DEF MarkTerminal, db
<1>9. CASE MarkSettled
  BY <1>5, <1>9, AdvanceForward, RankValues DEF MarkSettled, States, Terminal
<1>. QED
  BY <1>1, <1>2, <1>3, <1>4, <1>6, <1>7, <1>8, <1>9
     DEF Next, Cron, Handlers, Environment, PayJob, ClaimJob, vars, db, cron, node,
         QuoteAndRequestHodl, InsertFails, CallerPays, PayeeClaims, DeliveryFails, NewBlock,
         PaymentSentIgnored, ClaimOutboxJob, FinishJob, JobError, Restart, LoadForPay, CanPay,
         RefusePay, SendAccepted, SendReportedFailed, SendLost, SendPayment, CancelHodl,
         LoadForClaim, ClaimHodl, ClaimHodlAgain

(* No step takes a relay back or out of a terminal status. *)
THEOREM MovesForward == Spec => ForwardOnly
<1>1. IInv /\ [Next]_vars => [\A h \in Hash :
                                  /\ Rank(status'[h]) >= Rank(status[h])
                                  /\ status[h] \in Terminal => status'[h] = status[h]]_vars
  BY NextForward DEF Forward
<1>. QED BY <1>1, Invariance, PTL DEF Spec, ForwardOnly
-----------------------------------------------------------------------------
(* The relay implements AtomicRelay.                                       *)

SeenCaller == [h \in Hash |-> CallerSees(h)]
SeenPayee == [h \in Hash |-> IF outbound[h] = "paid" THEN "paid" ELSE "unpaid"]
SeenAnswer == [h \in Hash |-> IF status[h] \in Terminal THEN status[h] ELSE "open"]

(* The caller sees nothing of a step that leaves the HODL invoices alone.  *)
LEMMA CallerSame ==
    ASSUME UNCHANGED inbound PROVE UNCHANGED SeenCaller
BY DEF SeenCaller, CallerSees

(* The third party sees nothing of a step without a payment.               *)
LEMMA PayeeSame ==
    ASSUME UNCHANGED outbound PROVE UNCHANGED SeenPayee
BY DEF SeenPayee

(* The status endpoint shows nothing of a step without a new status.       *)
LEMMA AnswerSame ==
    ASSUME UNCHANGED status PROVE UNCHANGED SeenAnswer
BY DEF SeenAnswer

(* A status that is not terminal before and after a step is not seen. *)
LEMMA AnswerStaysOpen ==
    ASSUME TypeOK, NEW h \in Hash, NEW to, to \notin Terminal, status[h] \notin Terminal,
           status' = [status EXCEPT ![h] = to]
    PROVE  UNCHANGED SeenAnswer
BY DEF SeenAnswer, TypeOK

(* A compare-and-set to a status that is not terminal is not seen.         *)
LEMMA AdvanceStaysOpen ==
    ASSUME TypeOK, NEW h \in Hash, NEW from, from \cap Terminal = {}, NEW to, to \notin Terminal,
           NEW rows, Advance(h, from, to, rows)
    PROVE  UNCHANGED SeenAnswer
<1>1. CASE status[h] \in from
  BY <1>1, AnswerStaysOpen DEF Advance
<1>2. CASE status[h] \notin from
  BY <1>2, AnswerSame DEF Advance, db
<1>. QED BY <1>1, <1>2

(* Cancelling an open or held HODL invoice releases its caller.            *)
LEMMA CallerReleased ==
    ASSUME TypeOK, NEW h \in Hash, inbound' = [inbound EXCEPT ![h] = "cancelled"],
           inbound[h] \in {"open", "held"}, UNCHANGED <<SeenPayee, SeenAnswer>>
    PROVE  Abstract!Release({h})
<1>2. CallerSees(h) \in {"free", "held"}
  BY DEF CallerSees
<1>3. \A g \in Hash : CallerSees(g)' = IF g = h THEN "released" ELSE CallerSees(g)
  BY DEF CallerSees, TypeOK
<1>. QED
  BY <1>2, <1>3 DEF Abstract!Release, SeenPayee, SeenAnswer

(* The initial states of the relay are those of its promise.               *)
LEMMA InitAbstract == Init => Abstract!Init
BY DEF Init, Abstract!Init, CallerSees, Terminal

(* The HTTP handler and the webhooks keep the promise.                     *)
LEMMA HandlersAbstract ==
    ASSUME IInv, NEW h \in Hash, Handlers(h)
    PROVE  [Abstract!Next]_(Abstract!vars)
<1>. USE DEF IInv
<1>1. CASE QuoteAndRequestHodl(h)
  <2>1. UNCHANGED SeenCaller
    BY <1>1 DEF QuoteAndRequestHodl, SeenCaller, CallerSees, TypeOK
  <2>. QED
    BY <1>1, <2>1, PayeeSame, AnswerSame
       DEF QuoteAndRequestHodl, db, SeenCaller, SeenPayee, SeenAnswer, Abstract!vars
<1>2. CASE InsertLightningSend(h)
  <2>1. UNCHANGED SeenAnswer
    BY <1>2, AnswerStaysOpen DEF InsertLightningSend, QuotingInv, Terminal
  <2>. QED
    BY <1>2, <2>1, PayeeSame, CallerSame
       DEF InsertLightningSend, node, SeenCaller, SeenPayee, SeenAnswer, Abstract!vars
<1>3. CASE InsertFails(h)
  <2>0. UNCHANGED <<SeenPayee, SeenAnswer>>
    BY <1>3, PayeeSame, AnswerSame DEF InsertFails, db
  <2>1. CASE UNCHANGED inbound
    BY <2>0, <2>1, CallerSame DEF SeenCaller, SeenPayee, SeenAnswer, Abstract!vars
  <2>2. CASE inbound' = [inbound EXCEPT ![h] = "cancelled"]
    <3>1. Abstract!Release({h})
      BY <1>3, <2>0, <2>2, CallerReleased DEF InsertFails, QuotingInv
    <3>. QED BY <3>1 DEF Abstract!Next
  <2>. QED BY <1>3, <2>1, <2>2 DEF InsertFails
<1>4. CASE ClaimableWebhook(h)
  <2>1. UNCHANGED SeenAnswer
    BY <1>4, AdvanceStaysOpen DEF ClaimableWebhook, Terminal
  <2>. QED
    BY <1>4, <2>1, PayeeSame, CallerSame
       DEF ClaimableWebhook, node, SeenCaller, SeenPayee, SeenAnswer, Abstract!vars
<1>5. CASE PaymentSentWebhook(h)
  <2>1. UNCHANGED SeenAnswer
    BY <1>5, AdvanceStaysOpen DEF PaymentSentWebhook, Terminal
  <2>. QED
    BY <1>5, <2>1, PayeeSame, CallerSame
       DEF PaymentSentWebhook, SeenCaller, SeenPayee, SeenAnswer, Abstract!vars
<1>6. CASE PaymentSentIgnored(h)
  BY <1>6, PayeeSame, CallerSame, AnswerSame
     DEF PaymentSentIgnored, db, SeenCaller, SeenPayee, SeenAnswer, Abstract!vars
<1>. QED BY <1>1, <1>2, <1>3, <1>4, <1>5, <1>6 DEF Handlers

(* The caller's and the third party's own steps keep it.                   *)
LEMMA EnvironmentAbstract ==
    ASSUME IInv, NEW h \in Hash, Environment(h)
    PROVE  [Abstract!Next]_(Abstract!vars)
<1>. USE DEF IInv
<1>1. CASE CallerPays(h)
  <2>1. UNCHANGED <<SeenPayee, SeenAnswer>>
    BY <1>1, PayeeSame, AnswerSame DEF CallerPays, db
  <2>2. CallerSees(h) = "free" /\ status[h] # "settled"
    BY <1>1 DEF CallerPays, CallerSees, ClaimInv
  <2>3. \A g \in Hash : CallerSees(g)' = IF g = h THEN "held" ELSE CallerSees(g)
    BY <1>1 DEF CallerPays, CallerSees, TypeOK
  <2>4. Abstract!Hold(h)
    BY <2>1, <2>2, <2>3 DEF Abstract!Hold, SeenPayee, SeenAnswer
  <2>. QED BY <2>4 DEF Abstract!Next
<1>2. CASE PayeeClaims(h)
  <2>1. UNCHANGED <<SeenCaller, SeenAnswer>>
    BY <1>2, CallerSame, AnswerSame DEF PayeeClaims, db
  <2>2. status[h] \notin {"settled", "cancelled"} /\ outbound[h] # "paid"
    BY <1>2 DEF PayeeClaims, DeliveryInv
  <2>3. outbound' = [outbound EXCEPT ![h] = "paid"]
    BY <1>2 DEF PayeeClaims
  <2>4. Abstract!Deliver(h)
    BY <2>1, <2>2, <2>3 DEF Abstract!Deliver, SeenCaller, SeenAnswer, TypeOK, Terminal
  <2>. QED BY <2>4 DEF Abstract!Next
<1>3. CASE DeliveryFails(h)
  <2>1. UNCHANGED SeenPayee
    BY <1>3 DEF DeliveryFails, SeenPayee, TypeOK
  <2>. QED
    BY <1>3, <2>1, CallerSame, AnswerSame
       DEF DeliveryFails, db, SeenCaller, SeenPayee, SeenAnswer, Abstract!vars
<1>. QED BY <1>1, <1>2, <1>3 DEF Environment

(* A block releases the callers whose deadline it reaches.                 *)
LEMMA NewBlockAbstract ==
    ASSUME IInv, NewBlock
    PROVE  [Abstract!Next]_(Abstract!vars)
<1>. DEFINE S == {h \in Hash : inbound[h] = "held" /\ deadline[h] <= height + 1}
<1>1. UNCHANGED <<SeenPayee, SeenAnswer>>
  BY PayeeSame, AnswerSame DEF NewBlock, db
<1>2. \A h \in Hash : inbound'[h] = IF h \in S THEN "timedout" ELSE inbound[h]
  BY DEF NewBlock
<1>3. \A h \in Hash : CallerSees(h)' = IF h \in S THEN "released" ELSE CallerSees(h)
  BY <1>2 DEF CallerSees, IInv, TypeOK
<1>4. \A h \in S : CallerSees(h) = "held"
  BY DEF CallerSees
<1>5. Abstract!Release(S)
  BY <1>1, <1>3, <1>4 DEF Abstract!Release, SeenPayee, SeenAnswer
<1>. QED BY <1>5 DEF Abstract!Next

(* The pay job keeps it: it cancels only what was not delivered.           *)
LEMMA PayJobAbstract ==
    ASSUME IInv, PayJob
    PROVE  [Abstract!Next]_(Abstract!vars)
<1>. USE DEF IInv
<1>0. hash \in Hash
  BY JobFacts DEF TypeOK, CronInv, hash, PayJob, LoadForPay, CanPay, RefusePay, OwnDelivery,
                  SendAccepted, SendReportedFailed, SendLost, SendPayment, MarkOutboundPaid,
                  CancelHodl, MarkTerminal
<1>1. CASE LoadForPay \/ CanPay \/ RefusePay
  BY <1>1, PayeeSame, CallerSame, AnswerSame
     DEF LoadForPay, CanPay, RefusePay, db, node, SeenCaller, SeenPayee, SeenAnswer, Abstract!vars
<1>2. CASE OwnDelivery
  <2>1. UNCHANGED SeenAnswer
    BY <1>0, <1>2, AdvanceStaysOpen DEF OwnDelivery, Terminal
  <2>. QED
    BY <1>2, <2>1, PayeeSame, CallerSame
       DEF OwnDelivery, node, SeenCaller, SeenPayee, SeenAnswer, Abstract!vars
<1>3. ASSUME NEW result \in {"none", "inflight", "failed"}, SendPayment(result)
      PROVE  [Abstract!Next]_(Abstract!vars)
  <2>1. UNCHANGED SeenPayee
    BY <1>0, <1>3 DEF SendPayment, SeenPayee, DeliveryInv, TypeOK
  <2>. QED
    BY <1>3, <2>1, CallerSame, AnswerSame
       DEF SendPayment, db, SeenCaller, SeenPayee, SeenAnswer, Abstract!vars
<1>4. CASE MarkOutboundPaid
  <2>1. UNCHANGED SeenAnswer
    BY <1>0, <1>4, AdvanceStaysOpen DEF MarkOutboundPaid, Terminal
  <2>. QED
    BY <1>4, <2>1, PayeeSame, CallerSame
       DEF MarkOutboundPaid, node, SeenCaller, SeenPayee, SeenAnswer, Abstract!vars
<1>5. CASE CancelHodl
  <2>0. UNCHANGED <<SeenPayee, SeenAnswer>>
    BY <1>5, PayeeSame, AnswerSame DEF CancelHodl, db
  <2>1. CASE UNCHANGED inbound
    BY <2>0, <2>1, CallerSame DEF SeenCaller, SeenPayee, SeenAnswer, Abstract!vars
  <2>2. CASE CancelTakesEffect(hash)
    <3>0. inbound' = [inbound EXCEPT ![hash] = "cancelled"] /\ inbound[hash] \in {"open", "held"}
      BY <2>2 DEF CancelTakesEffect
    <3>1. Abstract!Release({hash})
      BY <1>0, <2>0, <3>0, CallerReleased
    <3>2. {hash} \in SUBSET Hash
      BY <1>0
    <3>. QED BY <3>1, <3>2 DEF Abstract!Next
  <2>. QED BY <1>5, <2>1, <2>2 DEF CancelHodl
<1>6. CASE MarkTerminal
  <2>0. UNCHANGED <<SeenCaller, SeenPayee>>
    BY <1>6, PayeeSame, CallerSame DEF MarkTerminal, node
  <2>1. CASE UNCHANGED status
    BY <2>0, <2>1, AnswerSame DEF SeenCaller, SeenPayee, SeenAnswer, Abstract!vars
  <2>2. ASSUME NEW to \in {"failed", "cancelled"}, to = "cancelled" => pc = "refund_mark",
               status[hash] \in Refundable, status' = [status EXCEPT ![hash] = to]
        PROVE  [Abstract!Next]_(Abstract!vars)
    <3>1. to = "cancelled" => outbound[hash] # "paid"
      BY <2>2 DEF DeliveryInv
    <3>2. SeenAnswer' = [SeenAnswer EXCEPT ![hash] = to] /\ SeenAnswer[hash] = "open"
      BY <1>0, <2>2 DEF SeenAnswer, TypeOK, Terminal, Refundable
    <3>3. Abstract!Answer(hash, to)
      BY <1>0, <2>0, <3>1, <3>2 DEF Abstract!Answer, SeenCaller, SeenPayee, SeenAnswer, Terminal
    <3>. QED BY <1>0, <3>3 DEF Abstract!Next
  <2>. QED BY <1>6, <2>1, <2>2 DEF MarkTerminal, Advance, db
<1>. QED
  BY <1>1, <1>2, <1>3, <1>4, <1>5, <1>6 DEF PayJob, SendAccepted, SendReportedFailed, SendLost

(* The claim job keeps it: it charges only for what was delivered.         *)
LEMMA ClaimJobAbstract ==
    ASSUME IInv, ClaimJob
    PROVE  [Abstract!Next]_(Abstract!vars)
<1>. USE DEF IInv
<1>0. hash \in Hash /\ job = <<hash, "claim">> /\ jobs[<<hash, "claim">>] = "processing"
  BY JobFacts DEF TypeOK, CronInv, ClaimPCs, hash, ClaimJob, LoadForClaim, ClaimHodl, ClaimHodlAgain,
                  MarkSettled
<1>1. CASE LoadForClaim \/ ClaimHodlAgain
  BY <1>1, PayeeSame, CallerSame, AnswerSame
     DEF LoadForClaim, ClaimHodlAgain, db, node, SeenCaller, SeenPayee, SeenAnswer, Abstract!vars
<1>2. CASE ClaimHodl
  <2>1. UNCHANGED <<SeenPayee, SeenAnswer>>
    BY <1>2, PayeeSame, AnswerSame DEF ClaimHodl, db
  <2>2. status[hash] = "outbound_claimed" /\ outbound[hash] = "paid"
    BY <1>0, <1>2 DEF ClaimHodl, ClaimInv, DeliveryInv
  <2>3. CallerSees(hash) = "held"
    BY <1>2 DEF ClaimHodl, CallerSees
  <2>4. \A g \in Hash : CallerSees(g)' = IF g = hash THEN "charged" ELSE CallerSees(g)
    BY <1>0, <1>2 DEF ClaimHodl, CallerSees, TypeOK
  <2>5. Abstract!Charge(hash)
    BY <1>0, <2>1, <2>2, <2>3, <2>4 DEF Abstract!Charge, SeenPayee, SeenAnswer, Terminal
  <2>. QED BY <1>0, <2>5 DEF Abstract!Next
<1>3. CASE MarkSettled
  <2>0. UNCHANGED <<SeenCaller, SeenPayee>>
    BY <1>3, PayeeSame, CallerSame DEF MarkSettled, node
  <2>1. CASE UNCHANGED status
    BY <2>0, <2>1, AnswerSame DEF SeenCaller, SeenPayee, SeenAnswer, Abstract!vars
  <2>2. CASE status[hash] = "outbound_claimed" /\ status' = [status EXCEPT ![hash] = "settled"]
    <3>1. CallerSees(hash) = "charged"
      BY <1>3 DEF MarkSettled, ClaimInv, CallerSees
    <3>2. SeenAnswer' = [SeenAnswer EXCEPT ![hash] = "settled"] /\ SeenAnswer[hash] = "open"
      BY <1>0, <2>2 DEF SeenAnswer, TypeOK, Terminal
    <3>3. Abstract!Answer(hash, "settled")
      BY <1>0, <2>0, <2>2, <3>1, <3>2 DEF Abstract!Answer, SeenCaller, SeenPayee, SeenAnswer, Terminal
    <3>. QED BY <1>0, <3>3 DEF Abstract!Next
  <2>. QED BY <1>3, <2>1, <2>2 DEF MarkSettled, Advance, db
<1>. QED BY <1>1, <1>2, <1>3 DEF ClaimJob

(* Every step of the relay is a step of its promise or a stutter.          *)
LEMMA NextAbstract ==
    ASSUME IInv, [Next]_vars
    PROVE  [Abstract!Next]_(Abstract!vars)
<1>1. CASE UNCHANGED <<status, inbound, outbound>>
  BY <1>1, PayeeSame, CallerSame, AnswerSame DEF SeenCaller, SeenPayee, SeenAnswer, Abstract!vars
<1>2. CASE Cron
  BY <1>1, <1>2, PayJobAbstract, ClaimJobAbstract
     DEF Cron, ClaimOutboxJob, FinishJob, JobError, db, node
<1>. QED
  BY <1>1, <1>2, HandlersAbstract, EnvironmentAbstract, NewBlockAbstract
     DEF Next, Restart, vars, db, node

(* A caller is charged only for a payment that arrived, and a terminal      *)
(* status says what happened.                                               *)
THEOREM ImplementsAtomicRelay == Spec => RelayIsAtomic
BY InitAbstract, NextAbstract, Invariance, PTL DEF Spec, RelayIsAtomic, Abstract!Spec

-----------------------------------------------------------------------------
(* The relay and the outbox.                                               *)

(* A row is added, or is there already and stays as it is.                 *)
LEMMA EnqueueOutbox ==
    ASSUME TypeOK, NEW i \in Job, jobs' = Enqueued(jobs, {i}), UNCHANGED job
    PROVE  [Outbox!Next]_(Outbox!vars)
<1>1. CASE jobs[i] = "absent"
  BY <1>1 DEF Outbox!Next, Outbox!Enqueue, Outbox!Enqueued, Enqueued
<1>2. CASE jobs[i] # "absent"
  <2>1. jobs' = jobs
    BY <1>2 DEF TypeOK, Enqueued
  <2>. QED BY <2>1 DEF Outbox!vars
<1>. QED BY <1>1, <1>2

(* A webhook changes the rows only by what it enqueues.                    *)
LEMMA WebhooksOutbox ==
    ASSUME IInv, NEW h \in Hash, ClaimableWebhook(h) \/ PaymentSentWebhook(h)
    PROVE  [Outbox!Next]_(Outbox!vars)
<1>1. UNCHANGED job
  BY DEF ClaimableWebhook, PaymentSentWebhook, cron
<1>2. \/ jobs' = jobs
      \/ jobs' = Enqueued(jobs, {<<h, "pay">>}) \/ jobs' = Enqueued(jobs, {<<h, "claim">>})
  BY DEF ClaimableWebhook, PaymentSentWebhook, Advance, db
<1>3. CASE jobs' = jobs
  BY <1>1, <1>3 DEF Outbox!vars
<1>. QED BY <1>1, <1>2, <1>3, JobFacts, EnqueueOutbox DEF IInv

(* A job is taken when none is held.                                       *)
LEMMA ClaimOutbox ==
    ASSUME IInv, NEW j \in Job, ClaimOutboxJob(j)
    PROVE  Outbox!Next
<1>1. job = NoJob /\ jobs' = Taken(jobs, j) /\ job' = j /\ j \in Claimable(jobs)
  BY DEF IInv, CronInv, ClaimOutboxJob
<1>. QED
  BY <1>1 DEF Outbox!Next, Outbox!Take, Outbox!Taken, Taken, Outbox!Claimable, Claimable

(* The held job is let go of when it ends and when the process stops.      *)
LEMMA LetGoOutbox ==
    ASSUME IInv, FinishJob \/ \E setting \in RestartSettings : Restart(setting)
    PROVE  [Outbox!Next]_(Outbox!vars)
<1>1. job' = NoJob /\ jobs' \in {jobs, MarkedDone(jobs, job), MarkedRetry(jobs, job)}
  BY DEF FinishJob, Restart, db
<1>2. CASE job = NoJob
  <2>1. UNCHANGED <<jobs, job>>
    BY <1>1, <1>2 DEF IInv, CronInv, FinishJob, Restart, db
  <2>. QED BY <2>1 DEF Outbox!vars
<1>3. CASE job # NoJob
  BY <1>1, <1>3 DEF Outbox!Next, Outbox!LetGo, Outbox!MarkedDone, Outbox!MarkedRetry,
     MarkedDone, MarkedRetry
<1>. QED BY <1>2, <1>3

(* Every other step leaves the rows and the held job alone: the statuses a *)
(* job records enqueue nothing.                                            *)
LEMMA OtherOutbox ==
    ASSUME IInv,
           \/ JobError \/ PayJob \/ ClaimJob \/ NewBlock \/ UNCHANGED vars
           \/ \E h \in Hash : \/ Environment(h) \/ QuoteAndRequestHodl(h)
                              \/ InsertLightningSend(h) \/ InsertFails(h) \/ PaymentSentIgnored(h)
    PROVE  UNCHANGED <<jobs, job>>
<1>1. Enqueued(jobs, {}) = jobs
  BY DEF IInv, TypeOK, Enqueued
<1>2. CASE PayJob
  BY <1>1, <1>2 DEF PayJob, LoadForPay, CanPay, RefusePay, OwnDelivery, SendAccepted,
     SendReportedFailed, SendLost, SendPayment, MarkOutboundPaid, CancelHodl, MarkTerminal,
     Advance, Goto, db
<1>3. CASE ClaimJob
  BY <1>1, <1>3 DEF ClaimJob, LoadForClaim, ClaimHodl, ClaimHodlAgain, MarkSettled, Advance, Goto, db
<1>4. CASE JobError \/ NewBlock \/ UNCHANGED vars
  BY <1>4 DEF JobError, NewBlock, Goto, vars, db, cron
<1>5. ASSUME NEW h \in Hash,
             \/ Environment(h) \/ QuoteAndRequestHodl(h) \/ InsertLightningSend(h)
             \/ InsertFails(h) \/ PaymentSentIgnored(h)
      PROVE  UNCHANGED <<jobs, job>>
  BY <1>5 DEF Environment, CallerPays, PayeeClaims, DeliveryFails, QuoteAndRequestHodl,
     InsertLightningSend, InsertFails, PaymentSentIgnored, db, cron
<1>. QED BY <1>2, <1>3, <1>4, <1>5

(* The table of the relay changes only as an outbox does: rows are added,  *)
(* one is taken while none is held, and the held one is let go of, whatever *)
(* webhooks, failures and restarts come in between.                        *)
THEOREM KeepsToTheOutbox == Spec => Outbox!SafeSpec
<1>1. Init => Outbox!Init
  BY DEF Init, Outbox!Init
<1>2. IInv /\ [Next]_vars => [Outbox!Next]_(Outbox!vars)
  <2>. SUFFICES ASSUME IInv, [Next]_vars PROVE [Outbox!Next]_(Outbox!vars)
    OBVIOUS
  <2>1. CASE UNCHANGED <<jobs, job>>
    BY <2>1 DEF Outbox!vars
  <2>. QED
    BY <2>1, WebhooksOutbox, ClaimOutbox, LetGoOutbox, OtherOutbox DEF Next, Cron, Handlers
<1>. QED BY <1>1, <1>2, Invariance, PTL DEF Spec, Outbox!SafeSpec
-----------------------------------------------------------------------------
(* What is true of FailedMeansUndelivered, which does not hold: the relays  *)
(* that are given up are undelivered until a call fails or the process      *)
(* stops, when a pay job runs for the second time.                          *)

BeforeSend == {"pay_load", "pay_check", "pay_own", "pay_send", "fail_cancel", "fail_mark"}

(* Without a fault a pay job runs once: nothing was sent before it, it is   *)
(* leased while it runs and done when it ends, and only a claim job is      *)
(* tried again.                                                             *)
FaultFree ==
    faults = 0 =>
        /\ \A h \in Hash :
            /\ jobs[<<h, "pay">>] \in {"absent", "pending"} => calls[h] = 0
            /\ jobs[<<h, "pay">>] = "processing" => job = <<h, "pay">>
            /\ status[h] = "failed" => calls[h] = 0
        /\ pc \in BeforeSend => calls[hash] = 0
        /\ pc = "retry" => job[2] = "claim"

(* Webhooks enqueue what is not there, and record no failure.               *)
LEMMA WebhooksFaultFree ==
    ASSUME IInv, FaultFree, faults = 0, NEW h \in Hash, Handlers(h), ~InsertFails(h)
    PROVE  FaultFree'
<1>1. UNCHANGED <<pc, job, calls>>
  BY DEF Handlers, QuoteAndRequestHodl, InsertLightningSend, ClaimableWebhook,
     PaymentSentWebhook, PaymentSentIgnored, cron
<1>2. \A g \in Hash : status'[g] = "failed" => status[g] = "failed"
  BY DEF IInv, TypeOK, Handlers, QuoteAndRequestHodl, InsertLightningSend, ClaimableWebhook,
     PaymentSentWebhook, PaymentSentIgnored, Advance, db
<1>3. \A j \in Job : \/ jobs'[j] = jobs[j]
                     \/ jobs[j] = "absent" /\ jobs'[j] = "pending"
  <2>1. PICK keys : jobs' = jobs \/ jobs' = Enqueued(jobs, keys)
    BY DEF Handlers, QuoteAndRequestHodl, InsertLightningSend, ClaimableWebhook,
       PaymentSentWebhook, PaymentSentIgnored, Advance, db
  <2>. QED BY <2>1 DEF IInv, TypeOK, Enqueued
<1>. QED BY <1>1, <1>2, <1>3, JobFacts DEF FaultFree, hash

(* The caller, the third party and the chain touch nothing of it.           *)
LEMMA EnvironmentFaultFree ==
    ASSUME FaultFree, faults = 0,
           \/ NewBlock \/ UNCHANGED vars
           \/ \E h \in Hash : Environment(h)
    PROVE  FaultFree'
<1>1. UNCHANGED <<status, jobs, pc, job, calls>>
  BY DEF NewBlock, Environment, CallerPays, PayeeClaims, DeliveryFails, vars, db, cron
<1>. QED BY <1>1 DEF FaultFree, hash

(* The goroutine is idle, so that no row is leased: a pay job that is taken *)
(* was pending.                                                             *)
LEMMA ClaimFaultFree ==
    ASSUME IInv, FaultFree, faults = 0, NEW j \in Job, ClaimOutboxJob(j)
    PROVE  FaultFree'
<1>1. job = NoJob /\ j \in Claimable(jobs) /\ j = <<j[1], j[2]>> /\ j[1] \in Hash
  BY JobFacts DEF IInv, CronInv, ClaimOutboxJob
<1>2. \A g \in Hash : jobs[<<g, "pay">>] # "processing"
  BY <1>1, ConstantsAssumption, JobFacts DEF FaultFree
<1>3. /\ jobs' = [jobs EXCEPT ![j] = "processing"] /\ job' = j
      /\ pc' = IF j[2] = "pay" THEN "pay_load" ELSE "claim_load"
      /\ UNCHANGED <<status, calls>>
  BY DEF ClaimOutboxJob, Taken
<1>4. j[2] = "pay" => jobs[j] = "pending" /\ calls[j[1]] = 0
  BY <1>1, <1>2 DEF FaultFree, Claimable
<1>5. \A g \in Hash : jobs'[<<g, "pay">>] = IF j = <<g, "pay">> THEN "processing" ELSE jobs[<<g, "pay">>]
  BY <1>3, JobFacts DEF IInv, TypeOK
<1>. QED BY <1>2, <1>3, <1>4, <1>5 DEF FaultFree, hash, BeforeSend

(* A pay job that ends is done.                                             *)
LEMMA FinishFaultFree ==
    ASSUME IInv, FaultFree, faults = 0, FinishJob
    PROVE  FaultFree'
<1>1. job \in Job /\ job = <<job[1], job[2]>> /\ job[2] \in {"pay", "claim"} /\ job[1] \in Hash
  BY JobFacts DEF IInv, TypeOK, CronInv, FinishJob
<1>2. job[2] = "pay" => jobs' = [jobs EXCEPT ![job] = "done"]
  BY <1>1 DEF FaultFree, FinishJob, MarkedDone
<1>3. jobs' = [jobs EXCEPT ![job] = "done"] \/ jobs' = [jobs EXCEPT ![job] = "pending"]
  BY DEF FinishJob, MarkedDone, MarkedRetry
<1>4. \A g \in Hash : jobs'[<<g, "pay">>] = IF job = <<g, "pay">> THEN "done" ELSE jobs[<<g, "pay">>]
  BY <1>1, <1>2, <1>3, JobFacts DEF IInv, TypeOK
<1>5. pc' = "idle" /\ UNCHANGED <<status, calls>>
  BY DEF FinishJob
<1>. QED BY <1>4, <1>5 DEF FaultFree, BeforeSend

(* A pay job works on its own record, and calls SendPayment as the owner of *)
(* a delivery that was not given up; a job that gives up has sent nothing.  *)
LEMMA PayJobFaultFree ==
    ASSUME IInv, FaultFree, faults = 0, faults' = 0, PayJob
    PROVE  FaultFree'
<1>0. ~Fault /\ Enqueued(jobs, {}) = jobs
  BY DEF Fault, IInv, TypeOK, Enqueued
<1>1. /\ job \in Job /\ hash \in Hash /\ job = <<hash, "pay">>
      /\ jobs[<<hash, "pay">>] = "processing"
      /\ status[hash] \notin {"none", "quoted"}
  <2>1. pc \in PayPCs
    BY DEF PayJob, LoadForPay, CanPay, RefusePay, OwnDelivery, SendAccepted,
       SendReportedFailed, SendLost, SendPayment, MarkOutboundPaid, CancelHodl, MarkTerminal, PayPCs
  <2>2. job \in Job /\ job[2] = "pay" /\ job = <<hash, "pay">> /\ hash \in Hash
    BY <2>1, JobFacts DEF IInv, TypeOK, CronInv, PayPCs, hash
  <2>3. jobs[job] = "processing"
    BY <2>2, ConstantsAssumption DEF IInv, CronInv
  <2>. QED BY <2>2, <2>3, RankFacts DEF IInv, TypeOK, CronInv
<1>2. UNCHANGED <<jobs, job>> /\ hash' = hash
  BY <1>0 DEF PayJob, LoadForPay, CanPay, RefusePay, OwnDelivery, SendAccepted,
     SendReportedFailed, SendLost, SendPayment, MarkOutboundPaid, CancelHodl, MarkTerminal,
     Advance, Goto, db, hash
<1>3. ASSUME \A h \in Hash : /\ calls'[h] # calls[h] => h = hash /\ status'[h] # "failed"
                             /\ status'[h] = "failed" => status[h] = "failed" \/ calls'[h] = 0,
             pc' \in BeforeSend => calls'[hash] = 0,
             pc' # "retry"
      PROVE  FaultFree'
  BY <1>1, <1>2, <1>3 DEF FaultFree
<1>4. CASE LoadForPay \/ CanPay \/ RefusePay
  <2>1. UNCHANGED <<status, calls>> /\ pc' # "retry" /\ calls[hash] = 0
    BY <1>4 DEF LoadForPay, CanPay, RefusePay, Goto, db, FaultFree, BeforeSend
  <2>. QED BY <1>3, <2>1
<1>5. CASE OwnDelivery
  <2>1. pc' # "retry" /\ calls' = calls /\ calls[hash] = 0
    BY <1>1, <1>5, RankFacts DEF OwnDelivery, Goto, FaultFree, BeforeSend, IInv, TypeOK
  <2>2. \A h \in Hash : status'[h] = "failed" => status[h] = "failed"
    BY <1>1, <1>5 DEF OwnDelivery, Advance, db, IInv, TypeOK
  <2>. QED BY <1>3, <2>1, <2>2
<1>6. CASE SendAccepted \/ SendReportedFailed
  <2>1. /\ status' = status /\ status[hash] = "outbound_pending"
        /\ calls' = [calls EXCEPT ![hash] = @ + 1]
        /\ pc' \in {"pay_persist", "refund_cancel"}
    BY <1>6 DEF SendAccepted, SendReportedFailed, SendPayment, Goto, db, IInv, DeliveryInv
  <2>2. \A h \in Hash : h # hash => calls'[h] = calls[h]
    BY <1>1, <2>1 DEF IInv, TypeOK
  <2>. QED BY <1>3, <2>1, <2>2 DEF BeforeSend
<1>7. CASE MarkOutboundPaid \/ CancelHodl
  <2>1. calls' = calls /\ pc' \in {"done", "fail_mark", "refund_mark"}
    BY <1>7 DEF MarkOutboundPaid, CancelHodl, Goto
  <2>2. \A h \in Hash : status'[h] = "failed" => status[h] = "failed"
    BY <1>1, <1>7 DEF MarkOutboundPaid, CancelHodl, Advance, db, IInv, TypeOK
  <2>3. pc' = "fail_mark" => calls[hash] = 0
    BY <1>7 DEF MarkOutboundPaid, CancelHodl, Goto, FaultFree, BeforeSend
  <2>. QED BY <1>3, <2>1, <2>2, <2>3 DEF BeforeSend
<1>8. CASE MarkTerminal
  <2>1. calls' = calls /\ pc' = "done"
    BY <1>8 DEF MarkTerminal, Goto
  <2>2. \A h \in Hash : status'[h] = "failed" => status[h] = "failed" \/ calls[h] = 0
    BY <1>0, <1>1, <1>8 DEF MarkTerminal, Advance, db, IInv, TypeOK, FaultFree, BeforeSend
  <2>. QED BY <1>3, <2>1, <2>2 DEF BeforeSend
<1>9. ~SendLost("none") /\ ~SendLost("inflight")
  BY <1>0 DEF SendLost
<1>. QED BY <1>4, <1>5, <1>6, <1>7, <1>8, <1>9 DEF PayJob

(* A claim job sends nothing and gives nothing up.                          *)
LEMMA ClaimJobFaultFree ==
    ASSUME IInv, FaultFree, faults = 0, ClaimJob
    PROVE  FaultFree'
<1>1. Enqueued(jobs, {}) = jobs
  BY DEF IInv, TypeOK, Enqueued
<1>2. UNCHANGED <<jobs, job, calls>> /\ pc' \notin BeforeSend /\ job[2] = "claim"
  BY <1>1 DEF IInv, CronInv, ClaimPCs, ClaimJob, LoadForClaim, ClaimHodl, ClaimHodlAgain,
     MarkSettled, Advance, Goto, db, BeforeSend
<1>3. \A h \in Hash : status'[h] = "failed" => status[h] = "failed"
  BY DEF ClaimJob, LoadForClaim, ClaimHodl, ClaimHodlAgain, MarkSettled, Advance, db, IInv, TypeOK
<1>. QED BY <1>2, <1>3 DEF FaultFree

(* failed is a relay refused before delivery (README.md:206), for as long   *)
(* as no call has failed and the process has not stopped.                   *)
THEOREM FailedNeedsFault == Spec => [](faults = 0 => FailedMeansUndelivered)
<1>1. Init => FaultFree
  BY JobFacts DEF Init, FaultFree, BeforeSend
<1>2. IInv /\ FaultFree /\ [Next]_vars => FaultFree'
  <2>. SUFFICES ASSUME IInv, FaultFree, [Next]_vars, faults' = 0 PROVE FaultFree'
    BY DEF FaultFree
  <2>1. faults \in Nat /\ ~Fault
    BY DEF IInv, TypeOK, Fault
  <2>2. ~JobError /\ \A setting \in RestartSettings : ~Restart(setting)
    BY <2>1 DEF JobError, Restart
  <2>3. \A h \in Hash : ~InsertFails(h)
    BY <2>1 DEF InsertFails
  <2>4. faults = 0
    <3>1. CASE UNCHANGED vars \/ NewBlock \/ \E h \in Hash : Handlers(h) \/ Environment(h)
      BY <2>3, <3>1 DEF vars, NewBlock, Handlers, QuoteAndRequestHodl, InsertLightningSend,
         ClaimableWebhook, PaymentSentWebhook, PaymentSentIgnored, Environment, CallerPays,
         PayeeClaims, DeliveryFails
    <3>2. CASE FinishJob \/ PayJob \/ ClaimJob \/ \E j \in Job : ClaimOutboxJob(j)
      BY <2>1, <3>2 DEF FinishJob, ClaimOutboxJob, PayJob, LoadForPay, CanPay, RefusePay,
         OwnDelivery, SendAccepted, SendReportedFailed, SendLost, MarkOutboundPaid, CancelHodl,
         MarkTerminal, ClaimJob, LoadForClaim, ClaimHodl, ClaimHodlAgain, MarkSettled
    <3>. QED BY <2>2, <3>1, <3>2 DEF Next, Cron
  <2>. QED
    BY <2>2, <2>3, <2>4, WebhooksFaultFree, EnvironmentFaultFree, ClaimFaultFree, FinishFaultFree,
       PayJobFaultFree, ClaimJobFaultFree DEF Next, Cron
<1>3. IInv /\ FaultFree /\ faults = 0 => FailedMeansUndelivered
  BY DEF IInv, DeliveryInv, FaultFree, FailedMeansUndelivered
<1>. QED BY <1>1, <1>2, <1>3, Invariance, PTL DEF Spec
-----------------------------------------------------------------------------
(* What no retry repairs.                                                   *)

(* The payment to the third party is over without an arrival, and the relay *)
(* does not know: it was recorded as outbound_paid when it was accepted     *)
(* (lightning_send.go:458), or its answer was lost and the pay job, run     *)
(* again, was done with as somebody else's (lightning_send.go:428).         *)
Stranded(h) ==
    \/ status[h] = "outbound_paid" /\ outbound[h] = "failed"
    \/ /\ status[h] = "outbound_pending" /\ outbound[h] \in {"none", "failed"}
       /\ jobs[<<h, "pay">>] = "done"

(* Such a relay stays where it is, though "the outbox retries"              *)
(* (README.md:550): a pay job that is done does not come back, a refund     *)
(* starts from a job only, and the one webhook that moves the relay on      *)
(* brings a preimage.  The caller's HTLC is left to its deadline.           *)
THEOREM StrandedForEver == Spec => [][\A h \in Hash : Stranded(h) => Stranded(h)']_vars
<1>1. ASSUME IInv, [Next]_vars, NEW h \in Hash, Stranded(h) PROVE Stranded(h)'
  <2>. USE <1>1 DEF IInv, TypeOK, Stranded
  <2>0. /\ Enqueued(jobs, {}) = jobs
        /\ \A keys : jobs[<<h, "pay">>] = "done" => Enqueued(jobs, keys)[<<h, "pay">>] = "done"
    BY JobFacts DEF Enqueued
  <2>1. CASE PayJob
    <3>1. /\ pc \in PayPCs /\ job = <<hash, "pay">> /\ jobs[job] = "processing"
          /\ pc = "pay_send" => status[hash] = "outbound_pending"
      BY <2>1, JobFacts, ConstantsAssumption DEF PayJob, LoadForPay, CanPay, RefusePay, OwnDelivery,
         SendAccepted, SendReportedFailed, SendLost, SendPayment, MarkOutboundPaid, CancelHodl,
         MarkTerminal, CronInv, DeliveryInv, PayPCs, hash
    <3>2. status[h] = "outbound_paid" \/ h # hash
      BY <3>1
    <3>3. outbound'[h] = outbound[h]
      BY <2>1, <3>1, <3>2 DEF PayJob, LoadForPay, CanPay, RefusePay, OwnDelivery, SendAccepted,
         SendReportedFailed, SendLost, SendPayment, MarkOutboundPaid, CancelHodl, MarkTerminal, node
    <3>4. status'[h] = status[h] /\ jobs' = jobs
      BY <2>0, <2>1, <3>2 DEF PayJob, LoadForPay, CanPay, RefusePay, OwnDelivery, SendAccepted,
         SendReportedFailed, SendLost, SendPayment, MarkOutboundPaid, CancelHodl, MarkTerminal,
         Advance, Refundable, db
    <3>. QED BY <3>3, <3>4
  <2>2. CASE ClaimJob
    BY <2>0, <2>2 DEF ClaimJob, LoadForClaim, ClaimHodl, ClaimHodlAgain, MarkSettled, Advance, db, node
  <2>3. ASSUME NEW g \in Hash, Handlers(g) PROVE Stranded(h)'
    <3>1. outbound' = outbound /\ status'[h] = status[h]
      BY <2>3 DEF Handlers, QuoteAndRequestHodl, InsertLightningSend, InsertFails, ClaimableWebhook,
         PaymentSentWebhook, PaymentSentIgnored, QuotingInv, Advance, db, node
    <3>2. jobs' = jobs \/ \E keys : jobs' = Enqueued(jobs, keys)
      BY <2>3 DEF Handlers, QuoteAndRequestHodl, InsertLightningSend, InsertFails, ClaimableWebhook,
         PaymentSentWebhook, PaymentSentIgnored, Advance, db
    <3>. QED BY <2>0, <3>1, <3>2
  <2>4. ASSUME NEW g \in Hash, Environment(g) PROVE Stranded(h)'
    BY <2>4 DEF Environment, CallerPays, PayeeClaims, DeliveryFails, db
  <2>5. CASE NewBlock \/ UNCHANGED vars \/ JobError
    BY <2>5 DEF NewBlock, JobError, vars, db, node
  <2>6. CASE FinishJob \/ \E j \in Job : ClaimOutboxJob(j)
    <3>1. PICK j \in Job, s \in JobStates :
            jobs[j] \in {"pending", "processing"} /\ jobs' = [jobs EXCEPT ![j] = s]
      BY <2>6, JobFacts, ConstantsAssumption DEF FinishJob, ClaimOutboxJob, CronInv, Claimable, Taken,
         MarkedDone, MarkedRetry, JobStates
    <3>2. jobs[<<h, "pay">>] = "done" => jobs'[<<h, "pay">>] = "done"
      BY <3>1, JobFacts
    <3>. QED BY <2>6, <3>2 DEF FinishJob, ClaimOutboxJob, node
  <2>7. ASSUME NEW setting \in RestartSettings, Restart(setting) PROVE Stranded(h)'
    BY <2>7 DEF Restart, db, node
  <2>. QED BY <2>1, <2>2, <2>3, <2>4, <2>5, <2>6, <2>7 DEF Next, Cron
<1>2. IInv /\ [Next]_vars => [\A h \in Hash : Stranded(h) => Stranded(h)']_vars
  BY <1>1
<1>. QED BY <1>2, Invariance, PTL DEF Spec
=============================================================================
