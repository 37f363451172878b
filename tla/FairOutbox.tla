----------------------------- MODULE FairOutbox -----------------------------
(***************************************************************************)
(* What LightningSend and ApayOrder assume of the outbox: one job at a     *)
(* time is held, a held job is let go of, and a job that may be taken      *)
(* again and again is taken.  Times, the limit per tick and the order in   *)
(* which rows are looked at do not appear here; OutboxSchedule, which has  *)
(* them, implements this module.                                           *)
(***************************************************************************)
EXTENDS OutboxTable

CONSTANTS
    Ids,    \* the rows the table may hold
    None    \* not a row

VARIABLES
    jobs,   \* the table, by id
    held    \* the row the cron goroutine works on, or None

vars == <<jobs, held>>

Init ==
    /\ jobs = [i \in Ids |-> "absent"]
    /\ held = None

Enqueue(i) ==
    /\ jobs[i] = "absent"
    /\ jobs' = Enqueued(jobs, {i})
    /\ UNCHANGED held

Take(i) ==
    /\ held = None
    /\ i \in Claimable(jobs)
    /\ jobs' = Taken(jobs, i)
    /\ held' = i

(* Done, due again, or left to its lease because nothing could be written. *)
LetGo ==
    /\ held # None
    /\ jobs' \in {jobs, MarkedDone(jobs, held), MarkedRetry(jobs, held)}
    /\ held' = None

Next ==
    \/ \E i \in Ids : Enqueue(i) \/ Take(i)
    \/ LetGo

Fairness ==
    /\ \A i \in Ids : SF_vars(Take(i))
    /\ WF_vars(LetGo)

SafeSpec == Init /\ [][Next]_vars

Spec == SafeSpec /\ Fairness
=============================================================================
