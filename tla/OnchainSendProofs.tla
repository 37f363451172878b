-------------------------- MODULE OnchainSendProofs --------------------------
(***************************************************************************)
(* Proofs about OnchainSend, for every finite set of mappings, any number  *)
(* of rows a tick looks at and any number of faults.  One lemma per action *)
(* shows that it preserves the inductive invariant IInv.                   *)
(***************************************************************************)
EXTENDS OnchainSend, FiniteSetTheorems, TLAPS

-----------------------------------------------------------------------------
(* The next id is a number, as the mappings are finitely many.             *)
LEMMA NextIdType == Cardinality({n \in Mapping : id[n] # 0}) + 1 \in Nat
<1>1. IsFiniteSet({n \in Mapping : id[n] # 0})
  BY ConstantsAssumption, FS_Subset
<1>. QED BY <1>1, FS_CardinalityType

-----------------------------------------------------------------------------
(* Every action preserves the invariant.                                   *)

(* A new mapping has no transfer yet, whatever its invoice becomes.         *)
LEMMA HandleOnchainSendInv ==
    ASSUME NEW m \in Mapping, IInv, HandleOnchainSend(m)
    PROVE  IInv'
<1>. USE DEF IInv, HandleOnchainSend, tick
<1>1. TypeOK'
  BY NextIdType DEF TypeOK
<1>2. TickInv'
  BY DEF TickInv
<1>3. TransferInv'
  BY DEF TypeOK, TickInv, TransferInv
<1>. QED BY <1>1, <1>2, <1>3

(* Only an open invoice resolves: a paid one stays paid.                    *)
LEMMA InvoiceResolvesInv ==
    ASSUME NEW m \in Mapping, NEW result \in {"succeeded", "failed", "expired"}, IInv, InvoiceResolves(m, result)
    PROVE  IInv'
<1>. USE DEF IInv, InvoiceResolves, db, tick
<1>1. TypeOK'
  BY DEF TypeOK
<1>2. TickInv'
  BY DEF TickInv
<1>3. TransferInv'
  BY DEF TransferInv
<1>. QED BY <1>1, <1>2, <1>3

(* The clock touches no mapping.                                            *)
LEMMA ExpiryPassesInv ==
    ASSUME NEW m \in Mapping, IInv, ExpiryPasses(m)
    PROVE  IInv'
<1>. USE DEF IInv, ExpiryPasses, db, tick
<1>1. TypeOK'
  BY DEF TypeOK
<1>2. TickInv'
  BY DEF TickInv
<1>3. TransferInv'
  BY DEF TransferInv
<1>. QED BY <1>1, <1>2, <1>3

(* A tick lists mappings that are pending, and nothing else writes them.    *)
LEMMA StartTickInv ==
    ASSUME IInv, StartTick
    PROVE  IInv'
<1>. USE DEF IInv, StartTick, ListOnchainPending, Oldest, db, node
<1>1. TypeOK'
  BY DEF TypeOK
<1>2. TickInv'
  BY DEF TickInv
<1>3. TransferInv'
  BY DEF TransferInv
<1>. QED BY <1>1, <1>2, <1>3

(* A mapping is taken out of the tick's list when it is visited.            *)
LEMMA VisitInv ==
    ASSUME IInv, Visit
    PROVE  IInv'
<1>. USE ConstantsAssumption DEF IInv, Visit, db, node
<1>1. TypeOK'
  BY DEF TypeOK
<1>2. TickInv'
  BY DEF TypeOK, TickInv
<1>3. TransferInv'
  BY DEF TransferInv
<1>. QED BY <1>1, <1>2, <1>3

(* An overdue mapping is about to be written expired.                       *)
LEMMA ClockSaysExpiredInv ==
    ASSUME IInv, ClockSaysExpired
    PROVE  IInv'
<1>. USE DEF IInv, ClockSaysExpired, Decide, db, node, Concluded
<1>1. TypeOK'
  BY DEF TypeOK
<1>2. TickInv'
  BY DEF TickInv
<1>3. TransferInv'
  BY DEF TransferInv
<1>. QED BY <1>1, <1>2, <1>3

(* A transfer is decided on a paid invoice only.                            *)
LEMMA AskInvoiceStatusInv ==
    ASSUME IInv, AskInvoiceStatus
    PROVE  IInv'
<1>. USE DEF IInv, AskInvoiceStatus, Decide, Proceed, db, node, Concluded
<1>1. TypeOK'
  BY DEF TypeOK
<1>2. TickInv'
  BY DEF TickInv
<1>3. TransferInv'
  BY DEF TransferInv
<1>. QED BY <1>1, <1>2, <1>3

(* An unknown status leaves the mapping to the next tick.                   *)
LEMMA InvoiceStatusFailsInv ==
    ASSUME IInv, InvoiceStatusFails
    PROVE  IInv'
<1>. USE DEF IInv, InvoiceStatusFails, Fault, Proceed, db, node
<1>1. TypeOK'
  BY DEF TypeOK
<1>2. TickInv'
  BY DEF TickInv
<1>3. TransferInv'
  BY DEF TypeOK, TransferInv
<1>. QED BY <1>1, <1>2, <1>3

(* The transfer of a pending mapping: every earlier one had its fault.      *)
LEMMA SendRGBInv ==
    ASSUME IInv, SendRGB
    PROVE  IInv'
<1>. USE DEF IInv, SendRGB, Fault, Decide, db, Concluded
<1>1. TypeOK'
  BY DEF TypeOK, TickInv
<1>2. TickInv'
  BY DEF TickInv
<1>3. TransferInv'
  BY DEF TypeOK, TickInv, TransferInv
<1>. QED BY <1>1, <1>2, <1>3

(* A refused transfer is recorded as failed.                                *)
LEMMA SendRGBFailsInv ==
    ASSUME IInv, SendRGBFails
    PROVE  IInv'
<1>. USE DEF IInv, SendRGBFails, Decide, db, node, Concluded
<1>1. TypeOK'
  BY DEF TypeOK
<1>2. TickInv'
  BY DEF TickInv
<1>3. TransferInv'
  BY DEF TransferInv
<1>. QED BY <1>1, <1>2, <1>3

(* The write concludes a mapping that is on no list any more.               *)
LEMMA UpdateOnchainStatusInv ==
    ASSUME IInv, UpdateOnchainStatus
    PROVE  IInv'
<1>. USE DEF IInv, UpdateOnchainStatus, Proceed, node, Concluded
<1>1. TypeOK'
  BY DEF TypeOK
<1>2. TickInv'
  BY DEF TickInv
<1>3. TransferInv'
  BY DEF TypeOK, TickInv, TransferInv
<1>. QED BY <1>1, <1>2, <1>3

(* A lost write is the fault that lets a transfer be repeated.              *)
LEMMA UpdateFailsInv ==
    ASSUME IInv, UpdateFails
    PROVE  IInv'
<1>. USE DEF IInv, UpdateFails, Fault, Proceed, db, node
<1>1. TypeOK'
  BY DEF TypeOK
<1>2. TickInv'
  BY DEF TickInv
<1>3. TransferInv'
  BY DEF TypeOK, TransferInv
<1>. QED BY <1>1, <1>2, <1>3

(* A restart between a transfer and its write is a fault as well.           *)
LEMMA RestartInv ==
    ASSUME IInv, Restart
    PROVE  IInv'
<1>. USE DEF IInv, Restart, Fault, db, node
<1>1. TypeOK'
  BY DEF TypeOK
<1>2. TickInv'
  BY DEF TickInv
<1>3. TransferInv'
  BY DEF TypeOK, TransferInv
<1>. QED BY <1>1, <1>2, <1>3

-----------------------------------------------------------------------------
(* The invariant and what follows from it.                                 *)

(* No mapping, no tick and no transfer at the start.                       *)
LEMMA InitInv == Init => IInv
BY ConstantsAssumption DEF Init, IInv, TypeOK, TickInv, TransferInv

(* Every step preserves the invariant.                                     *)
LEMMA NextInv == IInv /\ [Next]_vars => IInv'
<1>. SUFFICES ASSUME IInv, [Next]_vars PROVE IInv'
  OBVIOUS
<1>1. ASSUME NEW m \in Mapping, HandleOnchainSend(m) PROVE IInv'
  BY <1>1, HandleOnchainSendInv
<1>2. ASSUME NEW m \in Mapping, NEW result \in {"succeeded", "failed", "expired"}, InvoiceResolves(m, result) PROVE IInv'
  BY <1>2, InvoiceResolvesInv
<1>3. ASSUME NEW m \in Mapping, ExpiryPasses(m) PROVE IInv'
  BY <1>3, ExpiryPassesInv
<1>4. CASE StartTick
  BY <1>4, StartTickInv
<1>5. CASE Visit
  BY <1>5, VisitInv
<1>6. CASE ClockSaysExpired
  BY <1>6, ClockSaysExpiredInv
<1>7. CASE AskInvoiceStatus
  BY <1>7, AskInvoiceStatusInv
<1>8. CASE InvoiceStatusFails
  BY <1>8, InvoiceStatusFailsInv
<1>9. CASE SendRGB
  BY <1>9, SendRGBInv
<1>10. CASE SendRGBFails
  BY <1>10, SendRGBFailsInv
<1>11. CASE UpdateOnchainStatus
  BY <1>11, UpdateOnchainStatusInv
<1>12. CASE UpdateFails
  BY <1>12, UpdateFailsInv
<1>13. CASE Restart
  BY <1>13, RestartInv
<1>14. CASE UNCHANGED vars
  BY <1>14 DEF IInv, TypeOK, TickInv, TransferInv, vars, db, tick, node
<1>. QED BY <1>1, <1>2, <1>3, <1>4, <1>5, <1>6, <1>7, <1>8, <1>9, <1>10, <1>11, <1>12, <1>13,
            <1>14 DEF Next, Monitor, Environment

(* The inductive invariant holds in every reachable state.                 *)
THEOREM Invariance == Spec => []IInv
BY InitInv, NextInv, PTL DEF Spec

(* Every variable of the on-chain sends keeps its type.                    *)
THEOREM TypeCorrect == Spec => []TypeOK
BY Invariance, PTL DEF IInv

(* An asset leaves on chain only for a mapping whose Lightning invoice has *)
(* been paid, whatever fails or restarts in between.                       *)
THEOREM SentAgainstPayment == Spec => []SentOnlyAgainstPayment
<1>1. IInv => SentOnlyAgainstPayment
  BY DEF IInv, TransferInv, SentOnlyAgainstPayment
<1>. QED BY <1>1, Invariance, PTL

(* A transfer is repeated only through a failed call or a crash, at most   *)
(* once for each.                                                          *)
THEOREM RepeatsNeedFaults == Spec => []RepeatedSendNeedsFault
<1>1. IInv => RepeatedSendNeedsFault
  BY DEF IInv, TransferInv, RepeatedSendNeedsFault
<1>. QED BY <1>1, Invariance, PTL

(* The step behind ConcludedStays: a tick works on pending mappings only.  *)
LEMMA ConcludedStep ==
    ASSUME IInv, [Next]_vars, NEW m \in Mapping, status[m] \in Concluded
    PROVE  status'[m] = status[m] /\ transfers'[m] = transfers[m]
<1>. USE DEF IInv, TypeOK, Concluded
<1>1. CASE UpdateOnchainStatus
  BY <1>1 DEF UpdateOnchainStatus, TickInv, node
<1>2. CASE SendRGB
  BY <1>2 DEF SendRGB, TickInv, db
<1>3. ASSUME NEW n \in Mapping, Environment(n)
      PROVE  status'[m] = status[m] /\ transfers'[m] = transfers[m]
  BY <1>3 DEF Environment, HandleOnchainSend, ExpiryPasses, InvoiceResolves, db
<1>4. CASE StartTick \/ Visit \/ ClockSaysExpired \/ AskInvoiceStatus \/ InvoiceStatusFails
           \/ SendRGBFails \/ UpdateFails \/ Restart \/ UNCHANGED vars
    BY <1>4 DEF StartTick, Visit, ClockSaysExpired, AskInvoiceStatus, InvoiceStatusFails,
       SendRGBFails, UpdateFails, Restart, vars, db, node
<1>. QED BY <1>1, <1>2, <1>3, <1>4 DEF Next, Monitor

(* A concluded mapping keeps its status and gets no transfer, although the *)
(* UPDATE that writes a status looks at none.                              *)
THEOREM ConcludedForGood == Spec => ConcludedStays
<1>1. IInv /\ [Next]_vars =>
        [\A m \in Mapping : status[m] \in Concluded =>
            status'[m] = status[m] /\ transfers'[m] = transfers[m]]_vars
  BY ConcludedStep
<1>. QED BY <1>1, Invariance, PTL DEF Spec, ConcludedStays
-----------------------------------------------------------------------------
(* What the statuses of concluded mappings say, ExpiredMeansUnpaid being    *)
(* more than the code keeps.                                                *)

(* A tick decides expired by its own clock or by the node's answer, and     *)
(* writes completed only after a transfer.                                  *)
OutcomeInv ==
    /\ pc = "write" =>
        /\ outcome = "expired" => invoice[mapping] = "expired" \/ mapping \in pastExpiry
        /\ outcome = "completed" => transfers[mapping] # 0
        /\ faults = 0 => transfers[mapping] = IF outcome = "completed" THEN 1 ELSE 0
    /\ \A m \in Mapping :
        /\ status[m] = "expired" => invoice[m] = "expired" \/ m \in pastExpiry
        /\ status[m] = "completed" => transfers[m] # 0
        /\ status[m] \in Concluded /\ faults = 0
               => transfers[m] = IF status[m] = "completed" THEN 1 ELSE 0

(* Every step preserves it.                                                 *)
LEMMA OutcomeStep ==
    ASSUME IInv, OutcomeInv, [Next]_vars
    PROVE  OutcomeInv'
<1>. USE DEF IInv, TypeOK, TickInv, Concluded
<1>0. faults \in Nat
  OBVIOUS
<1>1. ASSUME NEW m \in Mapping, Environment(m) PROVE OutcomeInv'
  <2>1. CASE HandleOnchainSend(m)
    BY <2>1 DEF HandleOnchainSend, OutcomeInv, tick
  <2>2. CASE ExpiryPasses(m)
    BY <2>2 DEF ExpiryPasses, OutcomeInv, db, tick
  <2>3. ASSUME NEW result \in {"succeeded", "failed", "expired"}, InvoiceResolves(m, result)
        PROVE  OutcomeInv'
    BY <2>3 DEF InvoiceResolves, OutcomeInv, db, tick
  <2>. QED BY <1>1, <2>1, <2>2, <2>3 DEF Environment
<1>2. CASE StartTick \/ Visit \/ UNCHANGED vars
  BY <1>2 DEF StartTick, Visit, vars, tick, db, node, OutcomeInv
<1>3. CASE ClockSaysExpired \/ AskInvoiceStatus
  BY <1>3 DEF ClockSaysExpired, AskInvoiceStatus, Overdue, Decide, Proceed, db, node, OutcomeInv,
     TransferInv
<1>4. CASE SendRGB
  BY <1>0, <1>4 DEF SendRGB, Decide, Fault, db, OutcomeInv, TransferInv
<1>5. CASE SendRGBFails
  BY <1>5 DEF SendRGBFails, Decide, db, node, OutcomeInv, TransferInv
<1>6. CASE UpdateOnchainStatus
  BY <1>6 DEF UpdateOnchainStatus, Proceed, node, OutcomeInv
<1>7. CASE InvoiceStatusFails \/ UpdateFails \/ Restart
  BY <1>0, <1>7 DEF InvoiceStatusFails, UpdateFails, Restart, Fault, Proceed, db, node, OutcomeInv
<1>. QED BY <1>1, <1>2, <1>3, <1>4, <1>5, <1>6, <1>7 DEF Next, Monitor

(* It holds in every reachable state.                                       *)
THEOREM OutcomeInvariance == Spec => []OutcomeInv
<1>1. Init => OutcomeInv
  BY DEF Init, OutcomeInv, Concluded
<1>. QED BY <1>1, OutcomeStep, Invariance, PTL DEF Spec

(* completed always has a transfer behind it; and as long as no call has    *)
(* failed and the process has not stopped, exactly one, while a mapping     *)
(* that failed or expired has none.                                         *)
THEOREM ConcludedAsSent ==
    Spec => [](\A m \in Mapping :
                /\ status[m] = "completed" => transfers[m] # 0
                /\ status[m] \in Concluded /\ faults = 0
                       => transfers[m] = IF status[m] = "completed" THEN 1 ELSE 0)
<1>1. OutcomeInv =>
        \A m \in Mapping :
            /\ status[m] = "completed" => transfers[m] # 0
            /\ status[m] \in Concluded /\ faults = 0
                   => transfers[m] = IF status[m] = "completed" THEN 1 ELSE 0
  BY DEF OutcomeInv
<1>. QED BY <1>1, OutcomeInvariance, PTL

(* A mapping that was paid is marked expired by nothing but the LSP's own   *)
(* clock, whatever the node answers, fails to answer or answers late.       *)
THEOREM ExpiredIsOverdue ==
    Spec => [](\A m \in Mapping :
                status[m] = "expired" /\ invoice[m] = "succeeded" => m \in pastExpiry)
<1>1. OutcomeInv =>
        \A m \in Mapping : status[m] = "expired" /\ invoice[m] = "succeeded" => m \in pastExpiry
  BY DEF OutcomeInv
<1>. QED BY <1>1, OutcomeInvariance, PTL
=============================================================================
