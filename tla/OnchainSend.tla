----------------------------- MODULE OnchainSend -----------------------------
(***************************************************************************)
(* POST /onchain_send: a user who wants to be paid in RGB on chain gets a  *)
(* Lightning invoice of the LSP, and once it is paid the cron goroutine    *)
(* executes /sendrgb to the user's RGB invoice (monitorOnchainSend).       *)
(*                                                                         *)
(* Only that goroutine changes a mapping, by an UPDATE that looks at no    *)
(* earlier status and whose error is dropped; each of its calls may fail   *)
(* before or after it took effect, and the process may stop in between.    *)
(***************************************************************************)
EXTENDS Naturals, FiniteSets

CONSTANTS
    Mapping,     \* user_rgb_invoice, UNIQUE: one mapping each
    NoMapping,   \* the cron goroutine looks at no mapping
    Limit,       \* rows one tick looks at (200)
    MaxFaults    \* bound on failed calls and crashes

ASSUME ConstantsAssumption ==
    /\ IsFiniteSet(Mapping) /\ NoMapping \notin Mapping
    /\ Limit \in Nat \ {0}
    /\ MaxFaults \in Nat

VARIABLES
    id,          \* onchain_send_mappings.id, 0 when there is no row
    status,      \* its status, "none" when there is no row
    todo,        \* mappings the running tick has still to visit
    pc, mapping, \* what it does, and with which of them
    outcome,     \* the status it is about to write
    invoice,     \* the node's Lightning invoice of each mapping
    pastExpiry,  \* mappings whose ln_expires_at has passed
    transfers,   \* history: RGB transfers the node made for each mapping
    faults       \* faults so far

db   == <<id, status>>
tick == <<todo, pc, mapping, outcome>>
node == <<invoice, pastExpiry, transfers>>
vars == <<db, tick, node, faults>>

Concluded == {"completed", "failed", "expired"}

Init ==
    /\ id = [m \in Mapping |-> 0]
    /\ status = [m \in Mapping |-> "none"]
    /\ todo = {} /\ pc = "idle" /\ mapping = NoMapping /\ outcome = "none"
    /\ invoice = [m \in Mapping |-> "none"]
    /\ pastExpiry = {}
    /\ transfers = [m \in Mapping |-> 0]
    /\ faults = 0

Fault == faults < MaxFaults /\ faults' = faults + 1

-----------------------------------------------------------------------------
(* The handler, the payer and the clock.                                   *)

(* An invoice whose mapping could not be inserted is never handed out: the  *)
(* call to /lninvoice and the insert are one step.                          *)
HandleOnchainSend(m) ==
    /\ status[m] = "none"
    /\ id' = [id EXCEPT ![m] = Cardinality({n \in Mapping : id[n] # 0}) + 1]
    /\ status' = [status EXCEPT ![m] = "pending_ln"]
    /\ invoice' = [invoice EXCEPT ![m] = "open"]
    /\ UNCHANGED <<tick, pastExpiry, transfers, faults>>

(* The node (external): an open invoice is paid, fails or expires.          *)
InvoiceResolves(m, result) ==
    /\ invoice[m] = "open"
    /\ result = "succeeded" => m \notin pastExpiry
    /\ invoice' = [invoice EXCEPT ![m] = result]
    /\ UNCHANGED <<db, tick, pastExpiry, transfers, faults>>

(* The clock of the LSP passes ln_expires_at; the node may see it earlier   *)
(* or later.                                                                *)
ExpiryPasses(m) ==
    /\ status[m] # "none" /\ m \notin pastExpiry
    /\ pastExpiry' = pastExpiry \union {m}
    /\ UNCHANGED <<db, tick, invoice, transfers, faults>>

-----------------------------------------------------------------------------
(* monitorOnchainSend                                                      *)

(* ListOnchainPending: the oldest pending mappings.                         *)
Oldest(S) == {m \in S : Cardinality({n \in S : id[n] < id[m]}) < Limit}

ListOnchainPending == Oldest({m \in Mapping : status[m] = "pending_ln"})

StartTick ==
    /\ pc = "idle" /\ todo = {}
    /\ todo' = ListOnchainPending
    /\ UNCHANGED <<db, pc, mapping, outcome, node, faults>>

(* On to the next mapping of the tick, in the order of their ids.           *)
Visit ==
    /\ pc = "idle"
    /\ \E m \in todo :
        /\ \A n \in todo : id[m] <= id[n]
        /\ mapping' = m
        /\ todo' = todo \ {m}
    /\ pc' = "visit"
    /\ UNCHANGED <<db, outcome, node, faults>>

Proceed == pc' = "idle" /\ mapping' = NoMapping /\ outcome' = "none" /\ UNCHANGED todo

Decide(s) == pc' = "write" /\ outcome' = s /\ UNCHANGED <<todo, mapping>>

(* A mapping without ln_expires_at never expires. *)
OverdueNever(m) == FALSE
Overdue(m) == m \in pastExpiry

(* The local clock decides first.  cancelLNInvoice has no effect here: the  *)
(* decoder it asks refuses an invoice that has expired.                     *)
ClockSaysExpired ==
    /\ pc = "visit"
    /\ Overdue(mapping)
    /\ Decide("expired")
    /\ UNCHANGED <<db, node, faults>>

AskAnyOtherStatus ==
    /\ pc = "visit"
    /\ ~Overdue(mapping)
    /\ \/ invoice[mapping] \in {"failed", "expired"} /\ Decide(invoice[mapping])
       \/ invoice[mapping] \notin {"failed", "expired"}
          /\ pc' = "send" /\ UNCHANGED <<todo, mapping, outcome>>
    /\ UNCHANGED <<db, node, faults>>

(* lnInvoiceStatus, when it answers.  Cancelling an invoice that the node   *)
(* says has expired changes nothing.                                        *)
AskInvoiceStatus ==
    /\ pc = "visit"
    /\ ~Overdue(mapping)
    /\ \/ invoice[mapping] = "succeeded" /\ pc' = "send" /\ UNCHANGED <<todo, mapping, outcome>>
       \/ invoice[mapping] \in {"failed", "expired"} /\ Decide(invoice[mapping])
       \/ invoice[mapping] = "open" /\ Proceed
    /\ UNCHANGED <<db, node, faults>>

InvoiceStatusFails ==
    /\ pc = "visit"
    /\ ~Overdue(mapping)
    /\ Fault
    /\ Proceed
    /\ UNCHANGED <<db, node>>

(* sendRGBByInvoice.  An error of whatever kind, an expired RGB invoice, a  *)
(* refusal of the node or a lost answer, is recorded as failed.             *)
SendRGB ==
    /\ pc = "send"
    /\ transfers' = [transfers EXCEPT ![mapping] = @ + 1]
    /\ \/ Decide("completed") /\ UNCHANGED faults
       \/ Decide("failed") /\ Fault
    /\ UNCHANGED <<db, invoice, pastExpiry>>

SendRGBFails ==
    /\ pc = "send"
    /\ Decide("failed")
    /\ UNCHANGED <<db, node, faults>>

UpdateUnlessCompleted ==
    /\ pc = "write"
    /\ status' = IF outcome = "completed" THEN status ELSE [status EXCEPT ![mapping] = outcome]
    /\ Proceed
    /\ UNCHANGED <<id, node, faults>>

(* UpdateOnchainStatus; the mapping stays pending when the write fails.     *)
UpdateOnchainStatus ==
    /\ pc = "write"
    /\ status' = [status EXCEPT ![mapping] = outcome]
    /\ Proceed
    /\ UNCHANGED <<id, node, faults>>

UpdateFails ==
    /\ pc = "write"
    /\ Fault
    /\ Proceed
    /\ UNCHANGED <<db, node>>

Restart ==
    /\ Fault
    /\ todo' = {} /\ pc' = "idle" /\ mapping' = NoMapping /\ outcome' = "none"
    /\ UNCHANGED <<db, node>>

-----------------------------------------------------------------------------
Monitor ==
    \/ StartTick \/ Visit \/ ClockSaysExpired \/ AskInvoiceStatus \/ InvoiceStatusFails
    \/ SendRGB \/ SendRGBFails \/ UpdateOnchainStatus \/ UpdateFails

Environment(m) ==
    \/ HandleOnchainSend(m) \/ ExpiryPasses(m)
    \/ \E result \in {"succeeded", "failed", "expired"} : InvoiceResolves(m, result)

Next == Monitor \/ Restart \/ \E m \in Mapping : Environment(m)

Spec == Init /\ [][Next]_vars

(* The cron goroutine ticks and time passes; nobody has to pay.             *)
Fairness == WF_vars(Monitor) /\ \A m \in Mapping : WF_vars(ExpiryPasses(m))

FairSpec == Spec /\ Fairness

-----------------------------------------------------------------------------
(* Properties of on-chain sends.                                           *)

TypeOK ==
    /\ id \in [Mapping -> Nat]
    /\ status \in [Mapping -> Concluded \union {"none", "pending_ln"}]
    /\ todo \subseteq Mapping
    /\ pc \in {"idle", "visit", "send", "write"}
    /\ mapping \in Mapping \union {NoMapping}
    /\ outcome \in Concluded \union {"none"}
    /\ invoice \in [Mapping -> {"none", "open", "succeeded", "failed", "expired"}]
    /\ pastExpiry \subseteq Mapping
    /\ transfers \in [Mapping -> Nat]
    /\ faults \in Nat

(* "once paid, service executes sendrgb" (README.md:22), and not before: an *)
(* asset leaves on chain only against a Lightning invoice that was paid.    *)
SentOnlyAgainstPayment ==
    \A m \in Mapping : transfers[m] # 0 => invoice[m] = "succeeded"

(* A completed mapping has its transfer, and one that expired or failed     *)
(* before it was sent gets none afterwards: a concluded mapping is never    *)
(* visited again, although the UPDATE that writes its status looks at none. *)
ConcludedStays ==
    [][\A m \in Mapping : status[m] \in Concluded =>
        status'[m] = status[m] /\ transfers'[m] = transfers[m]]_vars

(* The code has no record of a transfer before it is made, so that a lost   *)
(* write or a crash repeats it; nothing else does.                          *)
RepeatedSendNeedsFault ==
    \A m \in Mapping : transfers[m] <= faults + 1

(* Every mapping is concluded, however many older ones stay unpaid and take *)
(* the places of a tick.                                                    *)
EveryMappingConcludes ==
    \A m \in Mapping : status[m] = "pending_ln" ~> status[m] \in Concluded

-----------------------------------------------------------------------------
(* The inductive invariant behind the safety properties.                   *)

(* A tick visits pending mappings only, each of them once.                  *)
TickInv ==
    /\ pc = "idle" <=> mapping = NoMapping
    /\ \A m \in todo : status[m] = "pending_ln"
    /\ pc # "idle" => status[mapping] = "pending_ln" /\ mapping \notin todo
    /\ pc = "write" => outcome \in Concluded

(* Every transfer has its payment, and every transfer but the last its      *)
(* fault.                                                                   *)
TransferInv ==
    /\ pc = "send" => invoice[mapping] = "succeeded"
    /\ \A m \in Mapping :
        /\ status[m] = "none" => transfers[m] = 0
        /\ transfers[m] # 0 => invoice[m] = "succeeded"
        /\ transfers[m] <= faults + 1
        /\ status[m] = "pending_ln" /\ ~(pc = "write" /\ mapping = m) => transfers[m] <= faults

IInv == TypeOK /\ TickInv /\ TransferInv

-----------------------------------------------------------------------------
(* "Mark expired unpaid invoices as expired" (README.md:238): a mapping     *)
(* that is marked expired has not been paid.  The code does not keep it.    *)
ExpiredMeansUnpaid ==
    \A m \in Mapping : status[m] = "expired" => invoice[m] # "succeeded"
=============================================================================
