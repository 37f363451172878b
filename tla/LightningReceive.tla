-------------------------- MODULE LightningReceive --------------------------
(***************************************************************************)
(* POST /lightning_receive: a sender who holds RGB on chain pays a user's  *)
(* Lightning invoice through the LSP.  Once the RGB transfer to the LSP's  *)
(* own RGB invoice has settled the cron goroutine delivers: it starts the  *)
(* Lightning payment, polls its outcome and starts it again when it failed *)
(* (monitorLightningReceive).                                              *)
(*                                                                         *)
(* Only that goroutine changes a mapping; the errors of its writes are     *)
(* dropped, any call may fail before or after it took effect, and the      *)
(* process may stop in between.  next_attempt_at and the backoff are       *)
(* abstracted to "due again some time".                                    *)
(***************************************************************************)
EXTENDS Naturals

CONSTANTS
    Mapping,     \* user_ln_invoice, UNIQUE: one mapping each
    NoMapping,   \* the cron goroutine looks at no mapping
    MaxFaults    \* bound on failed calls and crashes

ASSUME ConstantsAssumption ==
    /\ NoMapping \notin Mapping
    /\ MaxFaults \in Nat

VARIABLES
    status,       \* lightning_receive_mappings.status, "none" without a row
    hashKnown,    \* mappings whose row has a payment_hash
    pc, mapping,  \* where the cron goroutine stands, and with which mapping
    transfer,     \* the RGB transfer of each mapping, as /listtransfers has it
    rgbExpired,   \* mappings whose rgb_expires_at has passed
    lnExpired,    \* mappings whose Lightning invoice has expired
    outbound,     \* the node's payment of each Lightning invoice
    doubled,      \* history: SendPayment called with a payment under way or made
    faults        \* faults so far

db   == <<status, hashKnown>>
cron == <<pc, mapping>>
node == <<transfer, rgbExpired, lnExpired, outbound, doubled>>
vars == <<db, cron, node, faults>>

Concluded == {"completed", "failed", "expired"}

Init ==
    /\ status = [m \in Mapping |-> "none"]
    /\ hashKnown = {}
    /\ pc = "idle" /\ mapping = NoMapping
    /\ transfer = [m \in Mapping |-> "none"]
    /\ rgbExpired = {} /\ lnExpired = {}
    /\ outbound = [m \in Mapping |-> "none"]
    /\ doubled = {}
    /\ faults = 0

Fault == faults < MaxFaults /\ faults' = faults + 1

-----------------------------------------------------------------------------
(* The handler, the node, the sender and the clock.                        *)

(* An RGB invoice whose mapping could not be inserted is never handed out:  *)
(* the call to /rgbinvoice and the insert are one step.                     *)
HandleLightningReceive(m) ==
    /\ status[m] = "none" /\ m \notin lnExpired
    /\ status' = [status EXCEPT ![m] = "pending_rgb"]
    /\ transfer' = [transfer EXCEPT ![m] = "waiting"]
    /\ UNCHANGED <<hashKnown, cron, rgbExpired, lnExpired, outbound, doubled, faults>>

(* The RGB leg and the payment (external).                                  *)
TransferResolves(m, result) ==
    /\ transfer[m] = "waiting"
    /\ transfer' = [transfer EXCEPT ![m] = result]
    /\ UNCHANGED <<db, cron, rgbExpired, lnExpired, outbound, doubled, faults>>

PaymentResolves(m, result) ==
    /\ outbound[m] = "inflight"
    /\ outbound' = [outbound EXCEPT ![m] = result]
    /\ UNCHANGED <<db, cron, transfer, rgbExpired, lnExpired, doubled, faults>>

TimePasses(m) ==
    /\ status[m] # "none"
    /\ \/ rgbExpired' = rgbExpired \union {m} /\ UNCHANGED lnExpired
       \/ lnExpired' = lnExpired \union {m} /\ UNCHANGED rgbExpired
    /\ UNCHANGED <<db, cron, transfer, outbound, doubled, faults>>

-----------------------------------------------------------------------------
(* monitorLightningReceive                                                 *)

(* The statuses ListLightningPending selects. *)
WaitingOnly == {"pending_rgb"}
Working == {"pending_rgb", "delivering"}

Goto(l) == pc' = l /\ UNCHANGED mapping
Leave == pc' = "idle" /\ mapping' = NoMapping

(* The writes of the goroutine: UpdateLightningStatus and                   *)
(* UpdateLightningDelivery, of which an error has no consequence.           *)
Write(m, s, hashes) ==
    \/ status' = [status EXCEPT ![m] = s] /\ hashKnown' = hashes /\ UNCHANGED faults
    \/ Fault /\ UNCHANGED db

(* The expiry decides first, in whatever state the delivery is.             *)
VisitExpired(m) ==
    /\ pc = "idle" /\ status[m] \in Working
    /\ m \in rgbExpired
    /\ Write(m, "expired", hashKnown)
    /\ UNCHANGED <<cron, node>>

(* The RGB leg failed, or the node calls it expired.                        *)
VisitUndelivered(m) ==
    /\ pc = "idle" /\ status[m] = "pending_rgb"
    /\ m \notin rgbExpired
    /\ \/ transfer[m] = "failed" /\ Write(m, "failed", hashKnown)
       \/ transfer[m] = "expired" /\ Write(m, "expired", hashKnown)
    /\ UNCHANGED <<cron, node>>

(* Already delivering, the RGB status no longer decides anything.           *)
VisitSettled(m) ==
    /\ pc = "idle" /\ status[m] \in Working
    /\ m \notin rgbExpired
    /\ status[m] = "pending_rgb" => transfer[m] = "settled"
    /\ pc' = IF status[m] = "delivering" /\ m \in hashKnown THEN "poll" ELSE "start"
    /\ mapping' = m
    /\ UNCHANGED <<db, node, faults>>

(* outboundPaymentStatus.  A payment the node does not know counts as       *)
(* failed; an error leaves all as it is but the time of the next attempt.   *)
PollPaidOnly ==
    /\ pc = "poll"
    /\ \/ outbound[mapping] = "paid" /\ Write(mapping, "completed", hashKnown) /\ Leave
       \/ outbound[mapping] # "paid" /\ Goto("start") /\ UNCHANGED <<db, faults>>
    /\ UNCHANGED node

PollLightningDelivery ==
    /\ pc = "poll"
    /\ \/ outbound[mapping] = "paid" /\ Write(mapping, "completed", hashKnown) /\ Leave
       \/ outbound[mapping] = "inflight" /\ Leave /\ UNCHANGED <<db, faults>>
       \/ outbound[mapping] \in {"none", "failed"} /\ Goto("start") /\ UNCHANGED <<db, faults>>
       \/ Fault /\ Leave /\ UNCHANGED db
    /\ UNCHANGED node

(* startLightningDelivery and retryLightningDelivery up to the payment: an  *)
(* invoice that cannot be decoded, or has expired, is tried again without a *)
(* hash ...                                                                 *)
CannotDecode ==
    /\ pc = "start"
    /\ \/ mapping \in lnExpired /\ Write(mapping, "delivering", hashKnown)
       \/ Fault /\ status' = [status EXCEPT ![mapping] = "delivering"] /\ UNCHANGED hashKnown
    /\ Leave
    /\ UNCHANGED node

(* ... and one no channel can carry now, with its hash.                     *)
CannotDeliverNow ==
    /\ pc = "start" /\ mapping \notin lnExpired
    /\ Write(mapping, "delivering", hashKnown \union {mapping})
    /\ Leave
    /\ UNCHANGED node

CanDeliverNow ==
    /\ pc = "start" /\ mapping \notin lnExpired
    /\ Goto("send")
    /\ UNCHANGED <<db, node, faults>>

(* sendLNByInvoice: accepted, reported as failed, refused, or lost with or  *)
(* without effect: each is recorded as delivering.  The node (external)     *)
(* starts no second payment while one is in flight or made.                 *)
Started == outbound[mapping] \in {"inflight", "paid"}

SendLNByInvoice ==
    /\ pc = "send"
    /\ \E result \in {"none", "inflight", "failed"} :
          outbound' = IF Started THEN outbound ELSE [outbound EXCEPT ![mapping] = result]
    /\ doubled' = IF Started THEN doubled \union {mapping} ELSE doubled
    /\ Goto("persist")
    /\ UNCHANGED <<db, transfer, rgbExpired, lnExpired, faults>>

PersistAsCompleted ==
    /\ pc = "persist"
    /\ Write(mapping, "completed", hashKnown \union {mapping})
    /\ Leave
    /\ UNCHANGED node

PersistDelivery ==
    /\ pc = "persist"
    /\ Write(mapping, "delivering", hashKnown \union {mapping})
    /\ Leave
    /\ UNCHANGED node

Restart == Fault /\ Leave /\ UNCHANGED <<db, node>>

-----------------------------------------------------------------------------
Visit(m) == VisitExpired(m) \/ VisitUndelivered(m) \/ VisitSettled(m)

Delivery ==
    \/ PollLightningDelivery \/ CannotDecode \/ CannotDeliverNow \/ CanDeliverNow
    \/ SendLNByInvoice \/ PersistDelivery

Environment(m) ==
    \/ HandleLightningReceive(m) \/ TimePasses(m)
    \/ \E result \in {"settled", "failed", "expired"} : TransferResolves(m, result)
    \/ \E result \in {"paid", "failed"} : PaymentResolves(m, result)

Next ==
    \/ \E m \in Mapping : Visit(m) \/ Environment(m)
    \/ Delivery \/ Restart

Spec == Init /\ [][Next]_vars

(* A tick comes back to every mapping that is due; neither the sender, the  *)
(* payee nor the clock has to do anything.                                  *)
Fairness == WF_vars(Delivery) /\ \A m \in Mapping : SF_vars(Visit(m))

FairSpec == Spec /\ Fairness

-----------------------------------------------------------------------------
(* Properties of deliveries.                                               *)

TypeOK ==
    /\ status \in [Mapping -> Working \union Concluded \union {"none"}]
    /\ hashKnown \subseteq Mapping
    /\ pc \in {"idle", "poll", "start", "send", "persist"}
    /\ mapping \in Mapping \union {NoMapping}
    /\ transfer \in [Mapping -> {"none", "waiting", "settled", "failed", "expired"}]
    /\ rgbExpired \subseteq Mapping /\ lnExpired \subseteq Mapping
    /\ outbound \in [Mapping -> {"none", "inflight", "paid", "failed"}]
    /\ doubled \subseteq Mapping
    /\ faults \in Nat

(* The LSP pays out over Lightning only what it received on chain: whatever *)
(* is retried, no payment starts before the RGB transfer has settled.       *)
DeliversOnlyWhatSettled ==
    \A m \in Mapping : outbound[m] # "none" => transfer[m] = "settled"

(* A mapping is completed only once the payment has arrived, not when it    *)
(* was accepted (api.go:1396).                                              *)
CompletedMeansDelivered ==
    \A m \in Mapping : status[m] = "completed" => outbound[m] = "paid"

(* "In flight: never start a second payment for the same invoice"           *)
(* (api.go:1448): once the hash is recorded SendPayment is not called while *)
(* a payment is in flight or after it arrived, through any retry.           *)
RecordedIsNotSentTwice ==
    [][\A m \in hashKnown : m \notin doubled => m \notin doubled']_vars

(* Before that, only a write that was lost lets it be called again.         *)
SecondCallNeedsLostWrite == doubled # {} => faults > 0

(* A concluded mapping stays concluded, and nothing is sent for it.         *)
ConcludedStays ==
    [][\A m \in Mapping : status[m] \in Concluded =>
        /\ status'[m] = status[m]
        /\ outbound'[m] = "inflight" => outbound[m] = "inflight"
        /\ m \in doubled' => m \in doubled]_vars

(* A delivery that arrived is concluded, once its hash is recorded: without *)
(* a hash an expired invoice, which is not decoded any more, is never       *)
(* polled.                                                                  *)
DeliveredIsConcluded ==
    \A m \in Mapping :
        status[m] = "delivering" /\ m \in hashKnown /\ outbound[m] = "paid"
            ~> status[m] \in Concluded

-----------------------------------------------------------------------------
(* The inductive invariant behind the safety properties.                   *)

(* The goroutine works on a mapping that is waiting or delivering, and has  *)
(* looked for a payment before it starts another one.                       *)
CronInv ==
    /\ pc = "idle" <=> mapping = NoMapping
    /\ pc # "idle" => status[mapping] \in Working /\ transfer[mapping] = "settled"
    /\ pc = "poll" => mapping \in hashKnown
    /\ pc \in {"start", "send"} /\ mapping \in hashKnown => outbound[mapping] \in {"none", "failed"}

(* What a row says of the two legs.  A payment whose hash is not recorded   *)
(* is one whose write was lost, or is still to come.                        *)
LegsInv ==
    /\ \A m \in Mapping :
        /\ status[m] \in {"delivering", "completed"} \/ m \in hashKnown => transfer[m] = "settled"
        /\ status[m] = "none" => outbound[m] = "none"
        /\ status[m] \in {"none", "pending_rgb"} => m \notin hashKnown
        /\ outbound[m] # "none" => transfer[m] = "settled"
        /\ status[m] = "completed" => outbound[m] = "paid"
        /\ outbound[m] \in {"inflight", "paid"} /\ m \notin hashKnown
               => faults > 0 \/ (pc = "persist" /\ mapping = m)
    /\ doubled # {} => faults > 0

IInv == TypeOK /\ CronInv /\ LegsInv
=============================================================================
