--------------------------- MODULE OutboxSchedule ---------------------------
(***************************************************************************)
(* Who gets a turn: runAsyncOrderOutbox takes at most Batch jobs a tick,   *)
(* the lowest id among the due rows each time.  A failed job is due again  *)
(* after RetryDelay, a row whose worker was lost after its Lease.  Time is *)
(* counted down (available_at and locked_until less now), so that nothing  *)
(* grows and no clock needs a bound.                                       *)
(*                                                                         *)
(* Database statements take no time, jobs up to JobTime.  The jobs in      *)
(* Hopeless fail whenever they run (a peer that never answers); any other  *)
(* job fails only by a fault.                                              *)
(***************************************************************************)
EXTENDS Integers, FiniteSets, OutboxTable

CONSTANTS
    MaxId,       \* rows the instance enqueues: ids 1 .. MaxId
    Hopeless,    \* ids of the jobs that fail every time
    Batch,       \* jobs taken per tick (10)
    RetryDelay,  \* asked for by a failed job (15 s)
    Lease,       \* of a row in processing (5 min)
    Interval,    \* CRON_EVERY (30 s)
    JobTime,     \* longest time one job takes (HTTP_TIMEOUT per call, 15 s)
    MaxFaults    \* failures of statements and other jobs, and restarts

Ids == 1 .. MaxId
None == 0

ASSUME ConstantsAssumption ==
    /\ MaxId \in Nat /\ Hopeless \subseteq Ids /\ MaxFaults \in Nat
    /\ {Batch, RetryDelay, Lease, Interval, JobTime} \subseteq Nat \ {0}

VARIABLES
    jobs,    \* the table, by id
    wait,    \* time until a row is due, by id
    pc,      \* the cron goroutine: "idle", "claim" or "work"
    job,     \* the row it works on, or None
    left,    \* iterations left in this tick
    ran,     \* how long the job has taken so far
    sleep,   \* time until the ticker fires
    rang,    \* a tick waits in the ticker's channel, which holds one
    faults

vars == <<jobs, wait, pc, job, left, ran, sleep, rang, faults>>
rows == <<jobs, wait>>
clock == <<sleep, rang>>

TypeOK ==
    /\ jobs \in [Ids -> JobStates]
    /\ wait \in [Ids -> 0 .. IF Lease > RetryDelay THEN Lease ELSE RetryDelay]
    /\ pc \in {"idle", "claim", "work"}
    /\ job \in Ids \cup {None} /\ (job # None <=> pc = "work")
    /\ left \in 0 .. Batch
    /\ ran \in 0 .. JobTime
    /\ sleep \in 1 .. Interval /\ rang \in BOOLEAN
    /\ faults \in 0 .. MaxFaults

(* runCron runs a tick before it waits for the first one. *)
Init ==
    /\ jobs = [i \in Ids |-> "absent"]
    /\ wait = [i \in Ids |-> 0]
    /\ pc = "idle" /\ job = None /\ left = 0 /\ ran = 0
    /\ sleep = Interval /\ rang = TRUE
    /\ faults = 0

Fault == faults < MaxFaults /\ faults' = faults + 1

(* WHERE of the claim query: pending and available, or its lease over. *)
DuePendingOnly(table, w) == {i \in Ids : table[i] = "pending" /\ w[i] = 0}
Due(table, w) == {i \in Claimable(table) : w[i] = 0}

(* ORDER BY id ASC LIMIT 1 *)
LowestDue(i, table, w) ==
    /\ i \in Due(table, w)
    /\ \A k \in Due(table, w) : i <= k

(***************************************************************************)
(* Webhooks enqueue; ids grow.                                             *)
(***************************************************************************)
Enqueue(i) ==
    /\ jobs[i] = "absent" /\ \A k \in 1 .. i - 1 : jobs[k] # "absent"
    /\ jobs' = Enqueued(jobs, {i})
    /\ wait' = [wait EXCEPT ![i] = 0]
    /\ UNCHANGED <<pc, job, left, ran, clock, faults>>

(***************************************************************************)
(* Time passes while the goroutine waits and while a job runs.  A tick     *)
(* that the ticker finds no room for is dropped.                           *)
(***************************************************************************)
Elapse ==
    /\ \/ pc = "idle" /\ ~rang /\ UNCHANGED ran
       \/ pc = "work" /\ ran < JobTime /\ ran' = ran + 1
    /\ wait' = [i \in Ids |-> IF wait[i] > 0 THEN wait[i] - 1 ELSE 0]
    /\ sleep' = IF sleep = 1 THEN Interval ELSE sleep - 1
    /\ rang' = (rang \/ sleep = 1)
    /\ UNCHANGED <<jobs, pc, job, left, faults>>

(***************************************************************************)
(* runAsyncOrderOutbox                                                     *)
(***************************************************************************)
StartTick ==
    /\ pc = "idle" /\ rang
    /\ rang' = FALSE
    /\ pc' = "claim" /\ left' = Batch
    /\ UNCHANGED <<rows, job, ran, sleep, faults>>

Claim(i) ==
    /\ pc = "claim" /\ left > 0
    /\ LowestDue(i, jobs, wait)
    /\ jobs' = Taken(jobs, i)
    /\ wait' = [wait EXCEPT ![i] = Lease]
    /\ pc' = "work" /\ job' = i /\ left' = left - 1 /\ ran' = 0
    /\ UNCHANGED <<clock, faults>>

EndTick ==
    /\ pc = "claim"
    /\ pc' = "idle"
    /\ UNCHANGED <<rows, job, left, ran, clock>>

NothingLeft ==
    /\ left = 0 \/ Due(jobs, wait) = {}
    /\ EndTick
    /\ UNCHANGED faults

ClaimFails == Fault /\ EndTick

NextJob ==
    /\ pc = "work"
    /\ pc' = "claim" /\ job' = None /\ ran' = 0
    /\ UNCHANGED <<left, clock>>

MarkOutboxDone ==
    /\ NextJob
    /\ job \notin Hopeless
    /\ jobs' = MarkedDone(jobs, job)
    /\ wait' = [wait EXCEPT ![job] = 0]
    /\ UNCHANGED faults

DueAtOnce(w, i) == [w EXCEPT ![i] = 0]
DueAgain(w, i) == [w EXCEPT ![i] = RetryDelay]

MarkOutboxRetry ==
    /\ NextJob
    /\ IF job \in Hopeless THEN UNCHANGED faults ELSE Fault
    /\ jobs' = MarkedRetry(jobs, job)
    /\ wait' = DueAgain(wait, job)

(* The UPDATE after the job fails: the row is left to its lease. *)
MarkFails == Fault /\ NextJob /\ UNCHANGED rows

RestartKeepsJob ==
    /\ Fault
    /\ pc' = "idle" /\ left' = 0 /\ ran' = 0
    /\ sleep' = Interval /\ rang' = TRUE
    /\ UNCHANGED <<rows, job>>

Restart ==
    /\ Fault
    /\ pc' = "idle" /\ job' = None /\ left' = 0 /\ ran' = 0
    /\ sleep' = Interval /\ rang' = TRUE
    /\ UNCHANGED rows

JobEnds == MarkOutboxDone \/ MarkOutboxRetry \/ MarkFails

Next ==
    \/ \E i \in Ids : Enqueue(i) \/ Claim(i)
    \/ Elapse \/ StartTick \/ NothingLeft \/ ClaimFails \/ JobEnds \/ Restart

Fairness ==
    /\ WF_vars(Elapse) /\ WF_vars(StartTick) /\ WF_vars(JobEnds)
    /\ WF_vars(NothingLeft \/ \E i \in Ids : Claim(i))

Spec == Init /\ [][Next]_vars /\ Fairness

-----------------------------------------------------------------------------
(***************************************************************************)
(* When everybody gets a turn: fewer hopeless jobs than turns in a tick,   *)
(* and the first of them is not due again before the last of them is done  *)
(* with.  At the defaults the second is (n - 1) * HTTP_TIMEOUT < 15 s, and *)
(* HTTP_TIMEOUT is 15 s.                                                   *)
(***************************************************************************)
TurnsSuffice ==
    /\ Cardinality(Hopeless) < Batch
    /\ (Cardinality(Hopeless) - 1) * JobTime < RetryDelay

(* A job that can succeed is done in the end, however many jobs before it  *)
(* fail for ever, statements fail or the process restarts.                 *)
EveryJobIsDone ==
    \A i \in Ids \ Hopeless : (jobs[i] = "pending") ~> (jobs[i] = "done")

(* A running job's row is not due: its lease lasts longer than the job, so  *)
(* that no claim could hand it out a second time.                           *)
LeaseOutlivesJob == pc = "work" => job \notin Due(jobs, wait)

(* What a row waits for, and what is left of the running job's lease.       *)
LeaseInv ==
    /\ \A i \in Ids : jobs[i] \in {"absent", "done"} => wait[i] = 0
    /\ \A i \in Ids : jobs[i] = "pending" => wait[i] <= RetryDelay
    /\ pc = "work" =>
        /\ jobs[job] = "processing"
        /\ wait[job] = IF ran < Lease THEN Lease - ran ELSE 0

(* Limit, order, delays and leases together are as fair to every single    *)
(* row as LightningSend and ApayOrder take the outbox to be.               *)
Outbox == INSTANCE FairOutbox WITH held <- job
IsFairOutbox == Outbox!Spec
=============================================================================
