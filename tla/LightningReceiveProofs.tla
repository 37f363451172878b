----------------------- MODULE LightningReceiveProofs -----------------------
(***************************************************************************)
(* Proofs about LightningReceive, for every set of mappings and any number *)
(* of faults.  One lemma per action shows that it preserves the inductive  *)
(* invariant IInv.                                                         *)
(***************************************************************************)
EXTENDS LightningReceive, TLAPS

-----------------------------------------------------------------------------
(* Every action preserves the invariant.                                   *)

(* A new mapping has neither a payment nor a hash.                          *)
LEMMA HandleLightningReceiveInv ==
    ASSUME NEW m \in Mapping, IInv, HandleLightningReceive(m)
    PROVE  IInv'
<1>. USE DEF IInv, HandleLightningReceive, cron, Working
<1>1. TypeOK'
  BY DEF TypeOK
<1>2. CronInv'
  BY DEF CronInv
<1>3. LegsInv'
  BY DEF LegsInv
<1>. QED BY <1>1, <1>2, <1>3

(* A transfer that has settled stays settled.                               *)
LEMMA TransferResolvesInv ==
    ASSUME NEW m \in Mapping, NEW result \in {"settled", "failed", "expired"}, IInv, TransferResolves(m, result)
    PROVE  IInv'
<1>. USE DEF IInv, TransferResolves, db, cron
<1>1. TypeOK'
  BY DEF TypeOK
<1>2. CronInv'
  BY DEF CronInv
<1>3. LegsInv'
  BY DEF LegsInv
<1>. QED BY <1>1, <1>2, <1>3

(* Only a payment in flight resolves, and none is when another is started.  *)
LEMMA PaymentResolvesInv ==
    ASSUME NEW m \in Mapping, NEW result \in {"paid", "failed"}, IInv, PaymentResolves(m, result)
    PROVE  IInv'
<1>. USE DEF IInv, PaymentResolves, db, cron
<1>1. TypeOK'
  BY DEF TypeOK
<1>2. CronInv'
  BY DEF CronInv
<1>3. LegsInv'
  BY DEF LegsInv
<1>. QED BY <1>1, <1>2, <1>3

(* The clock touches no row.                                                *)
LEMMA TimePassesInv ==
    ASSUME NEW m \in Mapping, IInv, TimePasses(m)
    PROVE  IInv'
<1>. USE DEF IInv, TimePasses, db, cron
<1>1. TypeOK'
  BY DEF TypeOK
<1>2. CronInv'
  BY DEF CronInv
<1>3. LegsInv'
  BY DEF LegsInv
<1>. QED BY <1>1, <1>2, <1>3

(* The expiry concludes a mapping the goroutine does not work on.           *)
LEMMA VisitExpiredInv ==
    ASSUME NEW m \in Mapping, IInv, VisitExpired(m)
    PROVE  IInv'
<1>. USE DEF IInv, VisitExpired, Write, Fault, db, cron, node, Concluded
<1>1. TypeOK'
  BY DEF TypeOK
<1>2. CronInv'
  BY DEF CronInv
<1>3. LegsInv'
  BY DEF TypeOK, LegsInv
<1>. QED BY <1>1, <1>2, <1>3

(* A transfer that failed concludes a mapping without a payment.            *)
LEMMA VisitUndeliveredInv ==
    ASSUME NEW m \in Mapping, IInv, VisitUndelivered(m)
    PROVE  IInv'
<1>. USE DEF IInv, VisitUndelivered, Write, Fault, db, cron, node, Concluded
<1>1. TypeOK'
  BY DEF TypeOK
<1>2. CronInv'
  BY DEF CronInv
<1>3. LegsInv'
  BY DEF TypeOK, LegsInv
<1>. QED BY <1>1, <1>2, <1>3

(* A delivery is worked on once its transfer has settled.                   *)
LEMMA VisitSettledInv ==
    ASSUME NEW m \in Mapping, IInv, VisitSettled(m)
    PROVE  IInv'
<1>. USE ConstantsAssumption DEF IInv, VisitSettled, db, node, Working
<1>1. TypeOK'
  BY DEF TypeOK
<1>2. CronInv'
  BY DEF CronInv, LegsInv
<1>3. LegsInv'
  BY DEF LegsInv
<1>. QED BY <1>1, <1>2, <1>3

(* A payment that is started again has failed, or is unknown to the node.   *)
LEMMA PollLightningDeliveryInv ==
    ASSUME IInv, PollLightningDelivery
    PROVE  IInv'
<1>. USE DEF IInv, PollLightningDelivery, Write, Fault, Goto, Leave, db, node, Concluded
<1>1. TypeOK'
  BY DEF TypeOK
<1>2. CronInv'
  BY DEF CronInv
<1>3. LegsInv'
  BY DEF TypeOK, LegsInv
<1>. QED BY <1>1, <1>2, <1>3

(* Without a decoded invoice nothing is recorded but the status.            *)
LEMMA CannotDecodeInv ==
    ASSUME IInv, CannotDecode
    PROVE  IInv'
<1>. USE DEF IInv, CannotDecode, Write, Fault, Leave, db, node, Working
<1>1. TypeOK'
  BY DEF TypeOK
<1>2. CronInv'
  BY DEF CronInv
<1>3. LegsInv'
  BY DEF TypeOK, CronInv, LegsInv
<1>. QED BY <1>1, <1>2, <1>3

(* The hash is recorded before the first payment: there is none to lose.    *)
LEMMA CannotDeliverNowInv ==
    ASSUME IInv, CannotDeliverNow
    PROVE  IInv'
<1>. USE DEF IInv, CannotDeliverNow, Write, Fault, Leave, db, node, Working
<1>1. TypeOK'
  BY DEF TypeOK, CronInv
<1>2. CronInv'
  BY DEF CronInv
<1>3. LegsInv'
  BY DEF TypeOK, CronInv, LegsInv
<1>. QED BY <1>1, <1>2, <1>3

(* On to the payment.                                                       *)
LEMMA CanDeliverNowInv ==
    ASSUME IInv, CanDeliverNow
    PROVE  IInv'
<1>. USE DEF IInv, CanDeliverNow, Goto, db, node
<1>1. TypeOK'
  BY DEF TypeOK
<1>2. CronInv'
  BY DEF CronInv
<1>3. LegsInv'
  BY DEF LegsInv
<1>. QED BY <1>1, <1>2, <1>3

(* A second call finds the hash unrecorded, so a write was lost before.     *)
LEMMA SendLNByInvoiceInv ==
    ASSUME IInv, SendLNByInvoice
    PROVE  IInv'
<1>. USE DEF IInv, SendLNByInvoice, Goto, Started, db, Working
<1>1. TypeOK'
  BY DEF TypeOK, CronInv
<1>2. CronInv'
  BY DEF CronInv
<1>3. LegsInv'
  BY DEF TypeOK, CronInv, LegsInv
<1>. QED BY <1>1, <1>2, <1>3

(* The hash is recorded, or the write is the fault.                         *)
LEMMA PersistDeliveryInv ==
    ASSUME IInv, PersistDelivery
    PROVE  IInv'
<1>. USE DEF IInv, PersistDelivery, Write, Fault, Leave, db, node, Working
<1>1. TypeOK'
  BY DEF TypeOK, CronInv
<1>2. CronInv'
  BY DEF CronInv
<1>3. LegsInv'
  BY DEF TypeOK, CronInv, LegsInv
<1>. QED BY <1>1, <1>2, <1>3

(* A restart between a payment and its write is a fault as well.            *)
LEMMA RestartInv ==
    ASSUME IInv, Restart
    PROVE  IInv'
<1>. USE DEF IInv, Restart, Fault, Leave, db, node
<1>1. TypeOK'
  BY DEF TypeOK
<1>2. CronInv'
  BY DEF CronInv
<1>3. LegsInv'
  BY DEF TypeOK, LegsInv
<1>. QED BY <1>1, <1>2, <1>3

-----------------------------------------------------------------------------
(* The invariant and what follows from it.                                 *)

(* No mapping and no payment at the start.                                 *)
LEMMA InitInv == Init => IInv
BY ConstantsAssumption DEF Init, IInv, TypeOK, CronInv, LegsInv

(* Every step preserves the invariant.                                     *)
LEMMA NextInv == IInv /\ [Next]_vars => IInv'
<1>. SUFFICES ASSUME IInv, [Next]_vars PROVE IInv'
  OBVIOUS
<1>1. ASSUME NEW m \in Mapping, HandleLightningReceive(m) PROVE IInv'
  BY <1>1, HandleLightningReceiveInv
<1>2. ASSUME NEW m \in Mapping, NEW result \in {"settled", "failed", "expired"},
                TransferResolves(m, result)
      PROVE  IInv'
  BY <1>2, TransferResolvesInv
<1>3. ASSUME NEW m \in Mapping, NEW result \in {"paid", "failed"},
                PaymentResolves(m, result)
      PROVE  IInv'
  BY <1>3, PaymentResolvesInv
<1>4. ASSUME NEW m \in Mapping, TimePasses(m) PROVE IInv'
  BY <1>4, TimePassesInv
<1>5. ASSUME NEW m \in Mapping, VisitExpired(m) PROVE IInv'
  BY <1>5, VisitExpiredInv
<1>6. ASSUME NEW m \in Mapping, VisitUndelivered(m) PROVE IInv'
  BY <1>6, VisitUndeliveredInv
<1>7. ASSUME NEW m \in Mapping, VisitSettled(m) PROVE IInv'
  BY <1>7, VisitSettledInv
<1>8. CASE PollLightningDelivery
  BY <1>8, PollLightningDeliveryInv
<1>9. CASE CannotDecode
  BY <1>9, CannotDecodeInv
<1>10. CASE CannotDeliverNow
  BY <1>10, CannotDeliverNowInv
<1>11. CASE CanDeliverNow
  BY <1>11, CanDeliverNowInv
<1>12. CASE SendLNByInvoice
  BY <1>12, SendLNByInvoiceInv
<1>13. CASE PersistDelivery
  BY <1>13, PersistDeliveryInv
<1>14. CASE Restart
  BY <1>14, RestartInv
<1>15. CASE UNCHANGED vars
  BY <1>15 DEF IInv, TypeOK, CronInv, LegsInv, vars, db, cron, node
<1>. QED BY <1>1, <1>2, <1>3, <1>4, <1>5, <1>6, <1>7, <1>8, <1>9,
            <1>10, <1>11, <1>12, <1>13, <1>14, <1>15 DEF Next, Visit, Delivery, Environment

(* The inductive invariant holds in every reachable state.                 *)
THEOREM Invariance == Spec => []IInv
BY InitInv, NextInv, PTL DEF Spec

(* Every variable of the deliveries keeps its type.                        *)
THEOREM TypeCorrect == Spec => []TypeOK
BY Invariance, PTL DEF IInv

(* Whatever is retried or restarted, no payment starts before the RGB      *)
(* transfer has settled.                                                   *)
THEOREM DeliversSettled == Spec => []DeliversOnlyWhatSettled
<1>1. IInv => DeliversOnlyWhatSettled
  BY DEF IInv, LegsInv, DeliversOnlyWhatSettled
<1>. QED BY <1>1, Invariance, PTL

(* completed is recorded only for a payment that has arrived.              *)
THEOREM CompletedIsDelivered == Spec => []CompletedMeansDelivered
<1>1. IInv => CompletedMeansDelivered
  BY DEF IInv, LegsInv, CompletedMeansDelivered
<1>. QED BY <1>1, Invariance, PTL

(* Only a lost write lets SendPayment be called while a payment is in      *)
(* flight or made.                                                         *)
THEOREM SecondCallIsALostWrite == Spec => []SecondCallNeedsLostWrite
<1>1. IInv => SecondCallNeedsLostWrite
  BY DEF IInv, LegsInv, SecondCallNeedsLostWrite
<1>. QED BY <1>1, Invariance, PTL

(* The step behind RecordedIsNotSentTwice: SendPayment is called only      *)
(* where the poll has found no payment, or no hash is recorded.            *)
LEMMA RecordedStep ==
    ASSUME IInv, [Next]_vars, NEW m \in hashKnown, m \notin doubled
    PROVE  m \notin doubled'
<1>. USE DEF IInv, node
<1>1. CASE SendLNByInvoice
  BY <1>1 DEF SendLNByInvoice, Started, CronInv
<1>2. ASSUME NEW n \in Mapping, Environment(n) PROVE m \notin doubled'
    BY <1>2 DEF Environment, HandleLightningReceive, TimePasses, TransferResolves,
       PaymentResolves
<1>3. ASSUME NEW n \in Mapping, Visit(n) PROVE m \notin doubled'
  BY <1>3 DEF Visit, VisitExpired, VisitUndelivered, VisitSettled
<1>4. CASE PollLightningDelivery \/ CannotDecode \/ CannotDeliverNow \/ CanDeliverNow
           \/ PersistDelivery \/ Restart \/ UNCHANGED vars
    BY <1>4 DEF PollLightningDelivery, CannotDecode, CannotDeliverNow, CanDeliverNow,
       PersistDelivery, Restart, vars
<1>. QED BY <1>1, <1>2, <1>3, <1>4 DEF Next, Delivery

(* Once the hash of a payment is recorded no retry calls SendPayment while *)
(* that payment is in flight or after it arrived.                          *)
THEOREM RecordedIsSentOnce == Spec => RecordedIsNotSentTwice
<1>1. IInv /\ [Next]_vars =>
        [\A m \in hashKnown : m \notin doubled => m \notin doubled']_vars
  BY RecordedStep
<1>. QED BY <1>1, Invariance, PTL DEF Spec, RecordedIsNotSentTwice

(* The step behind ConcludedStays: the goroutine works on no mapping that  *)
(* is concluded.                                                           *)
LEMMA ConcludedStep ==
    ASSUME IInv, [Next]_vars, NEW m \in Mapping, status[m] \in Concluded
    PROVE  /\ status'[m] = status[m]
           /\ outbound'[m] = "inflight" => outbound[m] = "inflight"
           /\ m \in doubled' => m \in doubled
<1>. USE DEF IInv, TypeOK, CronInv, Working, Concluded, db, node
<1>1. CASE SendLNByInvoice
  BY <1>1 DEF SendLNByInvoice
<1>2. ASSUME NEW n \in Mapping, Environment(n)
      PROVE  /\ status'[m] = status[m]
             /\ outbound'[m] = "inflight" => outbound[m] = "inflight"
             /\ m \in doubled' => m \in doubled
    BY <1>2 DEF Environment, HandleLightningReceive, TimePasses, TransferResolves,
       PaymentResolves
<1>3. ASSUME NEW n \in Mapping, Visit(n)
      PROVE  /\ status'[m] = status[m]
             /\ outbound'[m] = "inflight" => outbound[m] = "inflight"
             /\ m \in doubled' => m \in doubled
  BY <1>3 DEF Visit, VisitExpired, VisitUndelivered, VisitSettled, Write
<1>4. CASE PollLightningDelivery \/ CannotDecode \/ CannotDeliverNow \/ CanDeliverNow
           \/ PersistDelivery \/ Restart \/ UNCHANGED vars
    BY <1>4 DEF PollLightningDelivery, CannotDecode, CannotDeliverNow, CanDeliverNow,
       PersistDelivery, Restart, Write, vars
<1>. QED BY <1>1, <1>2, <1>3, <1>4 DEF Next, Delivery

(* A concluded mapping keeps its status, and nothing is sent for it.       *)
THEOREM ConcludedForGood == Spec => ConcludedStays
<1>1. IInv /\ [Next]_vars =>
        [\A m \in Mapping : status[m] \in Concluded =>
            /\ status'[m] = status[m]
            /\ outbound'[m] = "inflight" => outbound[m] = "inflight"
            /\ m \in doubled' => m \in doubled]_vars
  BY ConcludedStep
<1>. QED BY <1>1, Invariance, PTL DEF Spec, ConcludedStays
=============================================================================
