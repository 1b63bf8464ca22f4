--------------------------- MODULE WebhookOutbox ---------------------------
(***************************************************************************)
(* The durable webhook outbox (webhooks.rs): publish_event inserts rows, a *)
(* polling worker claims the due ones and hands each to a thread that      *)
(* POSTs it and stamps the outcome back, a retention task deletes          *)
(* finalized rows.  The process may crash at any time; rows survive.       *)
(*                                                                         *)
(* Time is modelled by countdowns.  A claim pushes next_attempt_at forward *)
(* by Lease and nothing else ties the row to the thread: the thread writes *)
(* its verdict whether or not the row has been claimed again.  A thread is *)
(* done Deadline ticks after the claim: the HTTP timeout plus whatever it  *)
(* waits for a blocking-pool slot, for name resolution and for a database  *)
(* connection.                                                             *)
(***************************************************************************)
EXTENDS Integers, FiniteSets

CONSTANTS MaxId,        \* bound on the rows enqueued
          MaxFlight,    \* bound on the threads that hold the same row
          MaxFaults,    \* bound on crashes and failed writes
          BatchLimit,   \* WORKER_BATCH_LIMIT
          MaxAttempts,  \* WORKER_MAX_ATTEMPTS
          Lease,        \* INFLIGHT_RESCHEDULE_SECS
          BackoffBase, BackoffMax,
          Deadline,     \* longest life of a delivery thread
          Retention     \* of finalized rows; 0: never pruned

ASSUME BoundsAssumption == MaxId \in Nat /\ MaxFlight \in Nat /\ MaxFaults \in Nat
ASSUME WorkerAssumption ==
    /\ BatchLimit \in Nat \ {0} /\ MaxAttempts \in Nat \ {0}
    /\ Lease \in Nat \ {0} /\ BackoffBase \in Nat \ {0} /\ BackoffMax \in Nat \ {0}
    /\ Deadline \in Nat /\ Retention \in Nat

VARIABLES rows,     \* webhook_deliveries, by id
          lastId,   \* its AUTOINCREMENT counter
          jobs,     \* delivery threads, by row and slot
          faults,   \* crashes and failed writes so far
          sends,    \* history: requests answered or timed out, by row
          acks      \* history: 2xx/3xx answers, by row

vars == <<rows, lastId, jobs, faults, sends, acks>>

Id == 1 .. MaxId
Slot == 1 .. MaxFlight
Outcome == {"none", "success", "client_error", "exhausted"}
Answer == {"ok", "client_error", "failure"}

Row == [st : {"absent", "pending", "final"}, attempts : Nat, wait : Nat, outcome : Outcome]
Job == [attempts : Nat, age : 0 .. Deadline, answer : Answer \cup {"no job", "unsent"}]

(* wait: ticks until a pending row is due, or a finalized one may be       *)
(* pruned.                                                                 *)
Absent == [st |-> "absent", attempts |-> 0, wait |-> 0, outcome |-> "none"]
NewDelivery == [Absent EXCEPT !.st = "pending"]
NoJob == [attempts |-> 0, age |-> 0, answer |-> "no job"]
NewJob(n) == [attempts |-> n, age |-> 0, answer |-> "unsent"]

Init ==
    /\ rows = [d \in Id |-> Absent]
    /\ lastId = 0
    /\ jobs = [d \in Id |-> [i \in Slot |-> NoJob]]
    /\ faults = 0
    /\ sends = [d \in Id |-> 0]
    /\ acks = [d \in Id |-> 0]

(* One transaction inserts a row for every matching subscription, due now. *)
(* AUTOINCREMENT never hands out an id twice.                              *)
EnqueueDelivery(n) ==
    /\ lastId + n <= MaxId
    /\ rows' = [d \in Id |-> IF d \in lastId + 1 .. lastId + n THEN NewDelivery ELSE rows[d]]
    /\ lastId' = lastId + n
    /\ UNCHANGED <<jobs, faults, sends, acks>>

----------------------------------------------------------------------------
ClaimWithoutLease(due) ==
    [d \in Id |-> IF d \in due
                  THEN [rows[d] EXCEPT !.attempts = @ + 1]
                  ELSE rows[d]]

(* UPDATE ... SET next_attempt_at = now + 60, attempts = attempts + 1      *)
Claimed(due) ==
    [d \in Id |-> IF d \in due
                  THEN [rows[d] EXCEPT !.attempts = @ + 1, !.wait = Lease]
                  ELSE rows[d]]

DueBelowMax ==
    {d \in Id : /\ rows[d].st = "pending" /\ rows[d].wait = 0
                /\ rows[d].attempts < MaxAttempts}

Due == {d \in Id : rows[d].st = "pending" /\ rows[d].wait = 0}
Live(d, i) == jobs[d][i].answer # "no job"
FreeSlot(d) == CHOOSE i \in Slot : ~Live(d, i)

(* ORDER BY id ASC LIMIT: the due rows with fewer than BatchLimit due rows *)
(* before them.                                                            *)
Batch == {d \in Due : Cardinality({e \in Due : e < d}) < BatchLimit}

(* One poll of the worker: claim a batch and spawn a thread for each row.  *)
ClaimPendingDeliveries ==
    /\ Batch # {}
    /\ \A d \in Batch : \E i \in Slot : ~Live(d, i)
    /\ rows' = Claimed(Batch)
    /\ jobs' = [d \in Id |-> IF d \in Batch
                             THEN [jobs[d] EXCEPT ![FreeSlot(d)] = NewJob(rows[d].attempts + 1)]
                             ELSE jobs[d]]
    /\ UNCHANGED <<lastId, faults, sends, acks>>

(* dispatch_row: POST.  A 2xx or 3xx answer is a success, a 4xx is final,  *)
(* a 5xx, a transport error or the timeout is worth another attempt.       *)
Post(d, i) ==
    /\ jobs[d][i].answer = "unsent"
    /\ \E a \in Answer :
          /\ jobs' = [jobs EXCEPT ![d][i].answer = a]
          /\ acks' = IF a = "ok" THEN [acks EXCEPT ![d] = @ + 1] ELSE acks
    /\ sends' = [sends EXCEPT ![d] = @ + 1]
    /\ UNCHANGED <<rows, lastId, faults>>

(* attempt.saturating_sub(1).min(20)                                       *)
BackoffShift(attempt) ==
    IF attempt = 0 THEN 0 ELSE IF attempt - 1 < 20 THEN attempt - 1 ELSE 20
BackoffSecs(attempt) ==
    LET secs == BackoffBase * 2 ^ BackoffShift(attempt)
    IN IF secs < BackoffMax THEN secs ELSE BackoffMax

(* mark_delivery_finalized; a row that was pruned meanwhile stays gone.    *)
MarkFinalized(row, outcome) ==
    IF row.st = "absent" THEN row
    ELSE [row EXCEPT !.st = "final", !.outcome = outcome, !.wait = Retention + 1]

(* mark_delivery_retry: it does not look at finalized_at, nor clear it.    *)
MarkRetry(row, attempts) ==
    IF row.st = "pending"
    THEN [row EXCEPT !.attempts = attempts, !.wait = BackoffSecs(attempts)]
    ELSE [row EXCEPT !.attempts = IF row.st = "absent" THEN 0 ELSE attempts]

Exhausted(n) == n >= MaxAttempts

StampedIgnoring5xx(row, job) ==
    MarkFinalized(row, IF job.answer = "client_error" THEN "client_error" ELSE "success")

Stamped(row, job) ==
    CASE job.answer = "ok" -> MarkFinalized(row, "success")
      [] job.answer = "client_error" -> MarkFinalized(row, "client_error")
      [] job.answer = "failure" /\ Exhausted(job.attempts) -> MarkFinalized(row, "exhausted")
      [] job.answer = "failure" /\ ~Exhausted(job.attempts) -> MarkRetry(row, job.attempts)

(* The thread stamps the outcome and ends.                                 *)
Mark(d, i) ==
    /\ jobs[d][i].answer \in Answer
    /\ rows' = [rows EXCEPT ![d] = Stamped(@, jobs[d][i])]
    /\ jobs' = [jobs EXCEPT ![d][i] = NoJob]
    /\ UNCHANGED <<lastId, faults, sends, acks>>

(* The UPDATE fails (`let _ =`): the outcome is forgotten, the row comes   *)
(* due again when its lease runs out.                                      *)
MarkFails(d, i) ==
    /\ jobs[d][i].answer \in Answer
    /\ faults < MaxFaults
    /\ faults' = faults + 1
    /\ jobs' = [jobs EXCEPT ![d][i] = NoJob]
    /\ UNCHANGED <<rows, lastId, sends, acks>>

(* The process dies, or is shut down (the threads are not waited for), and *)
(* starts again.                                                           *)
Crash ==
    /\ faults < MaxFaults
    /\ faults' = faults + 1
    /\ jobs' = [d \in Id |-> [i \in Slot |-> NoJob]]
    /\ UNCHANGED <<rows, lastId, sends, acks>>

PruneByDate ==
    /\ Retention > 0
    /\ rows' = [d \in Id |-> IF rows[d].wait = 0 THEN Absent ELSE rows[d]]
    /\ UNCHANGED <<lastId, jobs, faults, sends, acks>>

(* prune_finalized(now - retention).                                       *)
PruneFinalized ==
    /\ Retention > 0
    /\ rows' = [d \in Id |-> IF rows[d].st = "final" /\ rows[d].wait = 0
                             THEN Absent ELSE rows[d]]
    /\ UNCHANGED <<lastId, jobs, faults, sends, acks>>

(* Time passes; no thread outlives its deadline.                           *)
Tick ==
    /\ \A d \in Id, i \in Slot : Live(d, i) => jobs[d][i].age < Deadline
    /\ rows' = [d \in Id |-> [rows[d] EXCEPT !.wait = IF @ = 0 THEN 0 ELSE @ - 1]]
    /\ jobs' = [d \in Id |-> [i \in Slot |->
                  [jobs[d][i] EXCEPT !.age = IF Live(d, i) THEN @ + 1 ELSE @]]]
    /\ UNCHANGED <<lastId, faults, sends, acks>>

Next ==
    \/ \E n \in 1 .. MaxId : EnqueueDelivery(n)
    \/ ClaimPendingDeliveries
    \/ \E d \in Id, i \in Slot : Post(d, i) \/ Mark(d, i) \/ MarkFails(d, i)
    \/ Crash
    \/ PruneFinalized
    \/ Tick

(* The worker polls for ever, a thread makes progress, time passes.        *)
Fairness ==
    /\ WF_vars(ClaimPendingDeliveries)
    /\ \A d \in Id, i \in Slot : WF_vars(Post(d, i)) /\ WF_vars(Mark(d, i))
    /\ WF_vars(Tick)

Spec == Init /\ [][Next]_vars /\ Fairness

----------------------------------------------------------------------------
(* Rows and threads have their types, and a row has an outcome exactly     *)
(* when it is finalized.                                                   *)
TypeOK ==
    /\ rows \in [Id -> Row]
    /\ lastId \in 0 .. MaxId
    /\ jobs \in [Id -> [Slot -> Job]]
    /\ faults \in 0 .. MaxFaults
    /\ sends \in [Id -> Nat]
    /\ acks \in [Id -> Nat]
    /\ \A d \in Id : (rows[d].outcome = "none") <=> (rows[d].st # "final")

(* webhooks.rs, DeliveryOutbox: a claim pushes next_attempt_at forward "so *)
(* a slow worker can't double-deliver": two threads never hold the same    *)
(* delivery.                                                               *)
SingleFlight == \A d \in Id, i, j \in Slot : Live(d, i) /\ Live(d, j) => i = j

(* A subscriber whose answer was a success is not called again unless the  *)
(* server crashed or could not write the outcome down.                     *)
DeliveredOnce == \A d \in Id : acks[d] <= 1 + faults

(* A delivery is given up as exhausted only after MaxAttempts requests; a  *)
(* crash costs at most the attempt it interrupts.                          *)
ExhaustedWasTried ==
    \A d \in Id : rows[d].outcome = "exhausted" => sends[d] + faults >= MaxAttempts

(* The recorded outcome is what the subscriber answered: a success was     *)
(* accepted, and a delivery written off was not, unless a fault hid the    *)
(* answer.                                                                 *)
OutcomeIsTrue ==
    \A d \in Id : /\ rows[d].outcome = "success" => acks[d] > 0
                  /\ rows[d].outcome \in {"client_error", "exhausted"} => acks[d] <= faults

(* A delivery is pending, then finalized, then gone: no late thread        *)
(* re-opens a finalized row, nothing prunes a pending one, and no id comes *)
(* back, also when threads outlive their leases (mark_delivery_retry,      *)
(* prune_finalized).                                                       *)
Lifecycle ==
    [][\A d \in Id :
          /\ rows[d].st = "pending" => rows'[d].st # "absent"
          /\ rows[d].st = "final" => rows'[d].st # "pending"
          /\ d <= lastId /\ rows[d].st = "absent" => rows'[d].st = "absent"]_vars

(* With leases that outlive the threads the first verdict stands.          *)
VerdictStands ==
    [][\A d \in Id : rows[d].st = "final" /\ rows'[d].st = "final"
                        => rows'[d].outcome = rows[d].outcome]_vars

(* Every row that was enqueued is finalized in the end, whatever crashes,  *)
(* failed writes and unreachable subscribers it meets.                     *)
EventuallyFinalized == \A d \in Id : rows[d].st = "pending" ~> rows[d].st # "pending"
=============================================================================
