---------------------------- MODULE AtomicRelay ----------------------------
(***************************************************************************)
(* What /lightning_send promises the caller of a relay, whatever the LSP's *)
(* records, jobs and webhooks do: it is charged only after the third party *)
(* was paid, "never theft"; the three final answers of the status endpoint *)
(* say what happened; and a relay reported cancelled is never delivered    *)
(* afterwards.  LightningSend implements it.                               *)
(*                                                                         *)
(* failed promises nothing about the third party, as the comment in        *)
(* models.go on lightningSendStateFailed has it.                           *)
(***************************************************************************)
CONSTANT Hash

VARIABLES
    caller,    \* "free", "held" (its HTLC is locked in), "charged", "released"
    payee,     \* "unpaid", "paid"
    answer     \* "open" or the terminal status that is reported

vars == <<caller, payee, answer>>

Init ==
    /\ caller = [h \in Hash |-> "free"]
    /\ payee = [h \in Hash |-> "unpaid"]
    /\ answer = [h \in Hash |-> "open"]

Hold(h) ==
    /\ caller[h] = "free" /\ answer[h] # "settled"
    /\ caller' = [caller EXCEPT ![h] = "held"]
    /\ UNCHANGED <<payee, answer>>

Deliver(h) ==
    /\ payee[h] = "unpaid" /\ answer[h] \notin {"settled", "cancelled"}
    /\ payee' = [payee EXCEPT ![h] = "paid"]
    /\ UNCHANGED <<caller, answer>>

Charge(h) ==
    /\ caller[h] = "held" /\ payee[h] = "paid" /\ answer[h] = "open"
    /\ caller' = [caller EXCEPT ![h] = "charged"]
    /\ UNCHANGED <<payee, answer>>

(* A block may release several callers at once. *)
Release(S) ==
    /\ \A h \in S : caller[h] \in {"free", "held"}
    /\ caller' = [h \in Hash |-> IF h \in S THEN "released" ELSE caller[h]]
    /\ UNCHANGED <<payee, answer>>

Answer(h, a) ==
    /\ answer[h] = "open"
    /\ a = "settled" => caller[h] = "charged"
    /\ a = "cancelled" => payee[h] = "unpaid"
    /\ answer' = [answer EXCEPT ![h] = a]
    /\ UNCHANGED <<caller, payee>>

Next ==
    \/ \E h \in Hash :
         \/ Hold(h) \/ Deliver(h) \/ Charge(h)
         \/ \E a \in {"settled", "cancelled", "failed"} : Answer(h, a)
    \/ \E S \in SUBSET Hash : Release(S)

Spec == Init /\ [][Next]_vars
=============================================================================
