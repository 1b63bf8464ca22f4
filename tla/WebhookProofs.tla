--------------------------- MODULE WebhookProofs ---------------------------
(***************************************************************************)
(* Proofs about webhooks.  First the outbox when a claim's lease outlives  *)
(* the thread that holds it, for any number of rows, attempts, faults and  *)
(* ticks; then the master key, for any number of subscriptions and         *)
(* rotations.  The two components share no state.                          *)
(***************************************************************************)
EXTENDS WebhookOutbox, WebhookKeys, TLAPS


(* The invariant of one row, over the row r, its threads js, the requests  *)
(* s and the successes a so far, and the faults f of the whole system.     *)

Busy(js, i) == js[i].answer # "no job"

RowTyped(r, js, s, a, f) ==
    /\ r \in Row /\ js \in [Slot -> Job] /\ s \in Nat /\ a \in Nat /\ f \in Nat
    /\ (r.outcome = "none") <=> (r.st # "final")

(* A row that a thread works on is pending, not due before the thread's    *)
(* deadline, and has the attempt count the thread was given.               *)
RowHeld(r, js) ==
    \A i \in Slot : Busy(js, i) =>
        /\ r.st = "pending"
        /\ r.wait + js[i].age >= Lease
        /\ js[i].attempts = r.attempts

OneThread(js) == \A i, j \in Slot : Busy(js, i) /\ Busy(js, j) => i = j

(* Attempts that were claimed but not sent are the one under way and those *)
(* a fault has cost.                                                       *)
RowTries(r, js, s, f) ==
    r.st = "pending" =>
        /\ r.attempts <= s + f + 1
        /\ (\A i \in Slot : js[i].answer # "unsent") => r.attempts <= s + f

(* Successes that were not written down yet are the one under way and      *)
(* those a fault has hidden.                                               *)
RowAcks(r, js, a, f) ==
    /\ a <= f + 1
    /\ r.st = "pending" /\ (\A i \in Slot : js[i].answer # "ok") => a <= f
    /\ \A i \in Slot : js[i].answer = "ok" => a > 0

RowOutcome(r, s, a, f) ==
    /\ r.outcome = "exhausted" => s + f >= MaxAttempts
    /\ r.outcome = "success" => a > 0
    /\ r.outcome \in {"client_error", "exhausted"} => a <= f

RowOK(r, js, s, a, f) ==
    /\ RowTyped(r, js, s, a, f) /\ RowHeld(r, js) /\ OneThread(js)
    /\ RowTries(r, js, s, f) /\ RowAcks(r, js, a, f) /\ RowOutcome(r, s, a, f)

Functions ==
    /\ rows \in [Id -> Row] /\ jobs \in [Id -> [Slot -> Job]]
    /\ sends \in [Id -> Nat] /\ acks \in [Id -> Nat]
    /\ lastId \in 0 .. MaxId /\ faults \in 0 .. MaxFaults
RowsOK == \A d \in Id : RowOK(rows[d], jobs[d], sends[d], acks[d], faults)
Unused == \A d \in Id : d > lastId => rows[d].st = "absent" /\ sends[d] = 0 /\ acks[d] = 0

IInv == Functions /\ RowsOK /\ Unused

----------------------------------------------------------------------------
LEMMA PowersOfTwo == \A k \in 0 .. 20 : 2 ^ k \in Nat
<1>1. /\ 2 ^ 0 \in Nat /\ 2 ^ 1 \in Nat /\ 2 ^ 2 \in Nat /\ 2 ^ 3 \in Nat /\ 2 ^ 4 \in Nat
      /\ 2 ^ 5 \in Nat /\ 2 ^ 6 \in Nat /\ 2 ^ 7 \in Nat /\ 2 ^ 8 \in Nat /\ 2 ^ 9 \in Nat
      /\ 2 ^ 10 \in Nat /\ 2 ^ 11 \in Nat /\ 2 ^ 12 \in Nat /\ 2 ^ 13 \in Nat /\ 2 ^ 14 \in Nat
      /\ 2 ^ 15 \in Nat /\ 2 ^ 16 \in Nat /\ 2 ^ 17 \in Nat /\ 2 ^ 18 \in Nat /\ 2 ^ 19 \in Nat
      /\ 2 ^ 20 \in Nat
  OBVIOUS
<1>2. \A k \in 0 .. 20 :
         k \in {0, 1, 2, 3, 4, 5, 6, 7, 8, 9, 10, 11, 12, 13, 14, 15, 16, 17, 18, 19, 20}
  OBVIOUS
<1>3. \A k \in {0, 1, 2, 3, 4, 5, 6, 7, 8, 9, 10, 11, 12, 13, 14, 15, 16, 17, 18, 19, 20} : 2 ^ k \in Nat
  BY <1>1, Zenon
<1> QED  BY <1>2, <1>3, Zenon

LEMMA BackoffType == \A n \in Nat : BackoffSecs(n) \in Nat
<1> SUFFICES ASSUME NEW n \in Nat PROVE BackoffSecs(n) \in Nat
  OBVIOUS
<1> DEFINE k == BackoffShift(n)
<1>1. k \in 0 .. 20
  BY DEF BackoffShift
<1>2. 2 ^ k \in Nat
  BY <1>1, PowersOfTwo
<1> DEFINE p == 2 ^ k
<1>3. p \in Nat
  BY <1>2
<1>4. BackoffSecs(n) = IF BackoffBase * p < BackoffMax THEN BackoffBase * p ELSE BackoffMax
  BY DEF BackoffSecs
<1> HIDE DEF k, p
<1> DEFINE q == BackoffBase * p
<1>5. q \in Nat
  BY <1>3, WorkerAssumption
<1> QED  BY <1>4, <1>5, WorkerAssumption

----------------------------------------------------------------------------
(* What each operation does to a row.                                      *)

Idle == [i \in Slot |-> NoJob]

LEMMA WorkerTypes ==
    /\ MaxAttempts \in Nat /\ Lease \in Nat /\ Deadline \in Nat /\ Retention \in Nat
    /\ MaxAttempts > 0 /\ Lease > 0
BY WorkerAssumption

LEMMA Constants ==
    /\ Absent \in Row /\ Absent.st = "absent" /\ Absent.outcome = "none"
    /\ NewDelivery \in Row /\ NewDelivery.st = "pending" /\ NewDelivery.outcome = "none"
    /\ NewDelivery.attempts = 0
    /\ NoJob \in Job /\ NoJob.answer = "no job"
    /\ Idle \in [Slot -> Job] /\ \A i \in Slot : Idle[i].answer = "no job"
<1>1. /\ Absent \in Row /\ Absent.st = "absent" /\ Absent.outcome = "none"
      /\ NewDelivery \in Row /\ NewDelivery.st = "pending" /\ NewDelivery.outcome = "none"
      /\ NewDelivery.attempts = 0
  BY DEF Absent, NewDelivery, Row, Outcome
<1>2. NoJob.answer = "no job"
  BY DEF NoJob
<1>3. NoJob \in Job
  <2>1. 0 \in 0 .. Deadline
    BY WorkerTypes
  <2> QED  BY <2>1 DEF NoJob, Job
<1>4. Idle \in [Slot -> Job] /\ \A i \in Slot : Idle[i].answer = "no job"
  BY <1>2, <1>3 DEF Idle
<1> QED  BY <1>1, <1>2, <1>3, <1>4

LEMMA FieldTypes ==
    ASSUME NEW r \in Row, NEW js \in [Slot -> Job]
    PROVE  /\ r.attempts \in Nat /\ r.wait \in Nat /\ r.outcome \in Outcome
           /\ r.st \in {"absent", "pending", "final"}
           /\ \A i \in Slot : /\ js[i].attempts \in Nat /\ js[i].age \in Nat
                              /\ js[i].age <= Deadline
                              /\ js[i].answer \in Answer \cup {"no job", "unsent"}
<1>1. \A j \in Job : /\ j.attempts \in Nat /\ j.age \in 0 .. Deadline
                     /\ j.answer \in Answer \cup {"no job", "unsent"}
  BY DEF Job
<1>2. \A i \in Slot : js[i] \in Job
  OBVIOUS
<1>3. \A n \in 0 .. Deadline : n \in Nat /\ n <= Deadline
  BY WorkerTypes
<1> QED  BY <1>1, <1>2, <1>3 DEF Row

LEMMA FreshOK == RowOK(Absent, Idle, 0, 0, 0)
<1>1. RowTyped(Absent, Idle, 0, 0, 0)
  BY Constants DEF RowTyped
<1>2. RowHeld(Absent, Idle) /\ OneThread(Idle) /\ RowTries(Absent, Idle, 0, 0)
  BY Constants DEF RowHeld, OneThread, RowTries, Busy
<1>3. RowAcks(Absent, Idle, 0, 0)
  <2>1. 0 <= 0 + 1 /\ 0 <= 0
    OBVIOUS
  <2> QED  BY <2>1, Constants DEF RowAcks
<1>4. RowOutcome(Absent, 0, 0, 0)
  BY Constants DEF RowOutcome
<1> QED  BY <1>1, <1>2, <1>3, <1>4 DEF RowOK

(* enqueue_delivery: a new row has no thread.                              *)
LEMMA EnqueueOK ==
    ASSUME NEW r, NEW js, NEW f, RowOK(r, js, 0, 0, f), r.st = "absent"
    PROVE  RowOK(NewDelivery, js, 0, 0, f)
<1>1. RowTyped(NewDelivery, js, 0, 0, f)
  BY Constants DEF RowOK, RowTyped
<1>2. \A i \in Slot : ~Busy(js, i)
  BY DEF RowOK, RowHeld
<1>3. RowHeld(NewDelivery, js) /\ OneThread(js)
  BY <1>2 DEF RowHeld, OneThread
<1>4. f \in Nat
  BY DEF RowOK, RowTyped
<1>5. RowTries(NewDelivery, js, 0, f)
  <2>1. 0 <= 0 + f + 1 /\ 0 <= 0 + f
    BY <1>4
  <2> QED  BY <2>1, Constants DEF RowTries
<1>6. RowAcks(NewDelivery, js, 0, f)
  <2>1. 0 <= f + 1 /\ 0 <= f
    BY <1>4
  <2>2. \A i \in Slot : js[i].answer # "ok"
    BY <1>2 DEF Busy
  <2> QED  BY <2>1, <2>2 DEF RowAcks
<1>7. RowOutcome(NewDelivery, 0, 0, f)
  BY Constants DEF RowOutcome
<1> QED  BY <1>1, <1>3, <1>5, <1>6, <1>7 DEF RowOK

ClaimedRow(r) == [r EXCEPT !.attempts = @ + 1, !.wait = Lease]
WithThread(js, k, n) == [js EXCEPT ![k] = NewJob(n)]

(* claim_pending_deliveries: a due row has no thread, since its lease has  *)
(* run out and the thread is past its deadline.                            *)
LEMMA ClaimOK ==
    ASSUME Deadline < Lease, NEW r, NEW js, NEW s, NEW a, NEW f, NEW k \in Slot,
           RowOK(r, js, s, a, f), r.st = "pending", r.wait = 0
    PROVE  RowOK(ClaimedRow(r), WithThread(js, k, r.attempts + 1), s, a, f)
<1> DEFINE q == [r EXCEPT !.attempts = @ + 1, !.wait = Lease]
           ks == [js EXCEPT ![k] = NewJob(r.attempts + 1)]
<1>0. /\ r \in Row /\ js \in [Slot -> Job] /\ s \in Nat /\ a \in Nat /\ f \in Nat
      /\ (r.outcome = "none") <=> (r.st # "final")
  BY DEF RowOK, RowTyped
<1>1. r.attempts \in Nat /\ \A i \in Slot : js[i].age \in Nat /\ js[i].age <= Deadline
  BY <1>0, FieldTypes
<1>2. ASSUME NEW i \in Slot PROVE ~Busy(js, i)
  <2>1. Busy(js, i) => 0 + js[i].age >= Lease
    BY DEF RowOK, RowHeld
  <2> QED  BY <1>1, <2>1, WorkerTypes
<1>3. /\ q \in Row /\ q.st = "pending" /\ q.wait = Lease /\ q.outcome = r.outcome
      /\ q.attempts = r.attempts + 1
  <2>1. r.attempts + 1 \in Nat /\ Lease \in Nat
    BY <1>1, WorkerTypes
  <2> QED  BY <1>0, <2>1 DEF Row
<1>4. NewJob(r.attempts + 1) \in Job
  BY <1>1, WorkerTypes DEF NewJob, Job
<1>5. ks \in [Slot -> Job]
  BY <1>0, <1>4
<1>6. \A i \in Slot : ks[i] = IF i = k THEN NewJob(r.attempts + 1) ELSE js[i]
  BY <1>0
<1>7. /\ ks[k].answer = "unsent" /\ ks[k].attempts = r.attempts + 1 /\ ks[k].age = 0
      /\ \A i \in Slot : i # k => ks[i].answer = "no job"
  <2>1. ks[k] = NewJob(r.attempts + 1)
    BY <1>6
  <2>2. ASSUME NEW i \in Slot, i # k PROVE ks[i].answer = "no job"
    <3>1. ks[i] = js[i]
      BY <1>6, <2>2
    <3> QED  BY <1>2, <3>1 DEF Busy
  <2>3. ks[k].answer = "unsent" /\ ks[k].attempts = r.attempts + 1 /\ ks[k].age = 0
    BY <2>1 DEF NewJob
  <2> HIDE DEF ks
  <2> QED  BY <2>2, <2>3, Zenon
<1> HIDE DEF q, ks
<1>8. RowTyped(q, ks, s, a, f)
  BY <1>0, <1>3, <1>5 DEF RowTyped
<1>9. RowHeld(q, ks)
  <2> SUFFICES ASSUME NEW i \in Slot, Busy(ks, i)
               PROVE  q.st = "pending" /\ q.wait + ks[i].age >= Lease /\ ks[i].attempts = q.attempts
    BY DEF RowHeld
  <2>1. i = k
    BY <1>7 DEF Busy
  <2>2. q.wait = Lease /\ ks[k].age = 0
    BY <1>3, <1>7
  <2>3. Lease + 0 >= Lease
    BY WorkerTypes
  <2>4. q.wait + ks[k].age >= Lease
    BY <2>2, <2>3, Zenon
  <2> QED  BY <1>3, <1>7, <2>1, <2>4, Zenon
<1>10. OneThread(ks)
  BY <1>7 DEF OneThread, Busy
<1>11. RowTries(q, ks, s, f)
  <2>1. \A i \in Slot : js[i].answer # "unsent"
    BY <1>2 DEF Busy
  <2>2. r.attempts <= s + f
    BY <2>1 DEF RowOK, RowTries
  <2>3. q.attempts <= s + f + 1
    BY <1>0, <1>1, <1>3, <2>2
  <2> QED  BY <1>7, <2>3 DEF RowTries
<1>12. RowAcks(q, ks, a, f)
  <2>1. \A i \in Slot : js[i].answer # "ok" /\ ks[i].answer # "ok"
    BY <1>2, <1>7 DEF Busy
  <2> QED  BY <2>1 DEF RowOK, RowAcks
<1>13. RowOutcome(q, s, a, f)
  BY <1>3 DEF RowOK, RowOutcome
<1>14. RowOK(q, ks, s, a, f)
  BY <1>8, <1>9, <1>10, <1>11, <1>12, <1>13 DEF RowOK
<1> QED  BY <1>14 DEF q, ks, ClaimedRow, WithThread

Answered(js, k, ans) == [js EXCEPT ![k].answer = ans]
Successes(a, ans) == IF ans = "ok" THEN a + 1 ELSE a

(* dispatch_row, the request.                                              *)
LEMMA PostOK ==
    ASSUME NEW r, NEW js, NEW s, NEW a, NEW f, NEW k \in Slot, NEW ans \in Answer,
           RowOK(r, js, s, a, f), js[k].answer = "unsent"
    PROVE  RowOK(r, Answered(js, k, ans), s + 1, Successes(a, ans), f)
<1> DEFINE ks == [js EXCEPT ![k].answer = ans]
           b == IF ans = "ok" THEN a + 1 ELSE a
<1>0. /\ r \in Row /\ js \in [Slot -> Job] /\ s \in Nat /\ a \in Nat /\ f \in Nat
      /\ (r.outcome = "none") <=> (r.st # "final")
  BY DEF RowOK, RowTyped
<1>1. r.attempts \in Nat /\ js[k] \in Job
  BY <1>0, FieldTypes
<1>2. Busy(js, k)
  BY DEF Busy
<1>3. \A i \in Slot : i # k => js[i].answer = "no job"
  BY <1>2 DEF RowOK, OneThread, Busy
<1>4. /\ ks[k] \in Job /\ ks[k].answer = ans
      /\ ks[k].attempts = js[k].attempts /\ ks[k].age = js[k].age
  BY <1>0, <1>1 DEF Job
<1>5. \A i \in Slot : i # k => ks[i] = js[i]
  BY <1>0
<1>6. ks \in [Slot -> Job]
  BY <1>0, <1>4
<1>7. \A i \in Slot : i # k => ks[i].answer = "no job"
  BY <1>3, <1>5
<1>8. r.st = "pending" /\ r.wait + js[k].age >= Lease /\ js[k].attempts = r.attempts
  BY <1>2 DEF RowOK, RowHeld
<1>9. r.attempts <= s + f + 1 /\ a <= f
  <2>1. \A i \in Slot : js[i].answer # "ok"
    BY <1>3
  <2> QED  BY <1>8, <2>1 DEF RowOK, RowTries, RowAcks
<1>10. b \in Nat /\ b <= f + 1 /\ (ans = "ok" => b > 0) /\ (ans # "ok" => b <= f)
  BY <1>0, <1>9
<1>11. r.outcome = "none"
  BY <1>0, <1>8
<1> HIDE DEF ks, b
<1>12. RowTyped(r, ks, s + 1, b, f)
  BY <1>0, <1>6, <1>10 DEF RowTyped
<1>13. RowHeld(r, ks)
  BY <1>4, <1>7, <1>8 DEF RowHeld, Busy
<1>14. OneThread(ks)
  BY <1>7 DEF OneThread, Busy
<1>15. RowTries(r, ks, s + 1, f)
  <2>1. r.attempts <= (s + 1) + f + 1 /\ r.attempts <= (s + 1) + f
    BY <1>0, <1>1, <1>9
  <2> QED  BY <2>1 DEF RowTries
<1>16. RowAcks(r, ks, b, f)
  <2>1. ASSUME NEW i \in Slot, ks[i].answer = "ok" PROVE b > 0
    <3>1. i = k
      BY <1>7, <2>1
    <3> QED  BY <1>4, <1>10, <2>1, <3>1
  <2>2. ASSUME \A i \in Slot : ks[i].answer # "ok" PROVE b <= f
    BY <1>4, <1>10, <2>2
  <2> QED  BY <1>10, <2>1, <2>2 DEF RowAcks
<1>17. RowOutcome(r, s + 1, b, f)
  BY <1>11 DEF RowOutcome
<1>18. RowOK(r, ks, s + 1, b, f)
  BY <1>12, <1>13, <1>14, <1>15, <1>16, <1>17 DEF RowOK
<1> QED  BY <1>18 DEF ks, b, Answered, Successes

(* The row a thread works on, once the thread is gone.                     *)
AllIdle(js) == js \in [Slot -> Job] /\ \A i \in Slot : js[i].answer = "no job"
InHand(r, n) == r.st = "pending" /\ r.outcome = "none" /\ n = r.attempts

LEMMA ThreadEnds ==
    ASSUME NEW r, NEW js, NEW s, NEW a, NEW f, NEW k \in Slot,
           RowOK(r, js, s, a, f), Busy(js, k)
    PROVE  AllIdle([js EXCEPT ![k] = NoJob]) /\ InHand(r, js[k].attempts)
<1> DEFINE ks == [js EXCEPT ![k] = NoJob]
<1>0. /\ r \in Row /\ js \in [Slot -> Job]
      /\ (r.outcome = "none") <=> (r.st # "final")
  BY DEF RowOK, RowTyped
<1>1. \A i \in Slot : i # k => js[i].answer = "no job"
  BY DEF RowOK, OneThread, Busy
<1>2. \A i \in Slot : ks[i] = IF i = k THEN NoJob ELSE js[i]
  BY <1>0
<1>3. ks \in [Slot -> Job]
  BY <1>0, Constants
<1>4. InHand(r, js[k].attempts)
  BY <1>0 DEF RowOK, RowHeld, InHand
<1> HIDE DEF ks
<1>5. \A i \in Slot : ks[i].answer = "no job"
  BY <1>1, <1>2, Constants
<1>6. AllIdle(ks)
  BY <1>3, <1>5 DEF AllIdle
<1> QED  BY <1>4, <1>6 DEF ks

LEMMA SumFacts ==
    /\ \A x, y \in Nat : x + y \in Nat
    /\ \A x, y \in Nat : x <= y => x <= y + 1
OBVIOUS

(* A pending row without a thread.                                         *)
LEMMA QuietOK ==
    ASSUME NEW r \in Row, NEW js \in [Slot -> Job], NEW s \in Nat, NEW a \in Nat, NEW f \in Nat,
           \A i \in Slot : js[i].answer = "no job",
           (r.outcome = "none") <=> (r.st # "final"),
           a <= f + 1, r.st = "pending" => r.attempts <= s + f /\ a <= f,
           RowOutcome(r, s, a, f)
    PROVE  RowOK(r, js, s, a, f)
<1>1. RowTyped(r, js, s, a, f) /\ RowHeld(r, js) /\ OneThread(js)
  BY DEF RowTyped, RowHeld, OneThread, Busy
<1>2. RowTries(r, js, s, f)
  <2>1. r.attempts \in Nat
    BY FieldTypes
  <2>2. r.attempts <= s + f => r.attempts <= s + f + 1
    BY <2>1, SumFacts, Zenon
  <2> QED  BY <2>2 DEF RowTries
<1>3. RowAcks(r, js, a, f)
  BY DEF RowAcks
<1> QED  BY <1>1, <1>2, <1>3 DEF RowOK

(* dispatch_row, the verdict.                                              *)
LEMMA MarkOK ==
    ASSUME NEW r, NEW js, NEW s, NEW a, NEW f, NEW k \in Slot, NEW ks,
           RowOK(r, js, s, a, f), js[k].answer \in Answer,
           AllIdle(ks), InHand(r, js[k].attempts)
    PROVE  RowOK(Stamped(r, js[k]), ks, s, a, f)
<1> DEFINE n == js[k].attempts
<1>0. /\ r \in Row /\ js \in [Slot -> Job] /\ s \in Nat /\ a \in Nat /\ f \in Nat
  BY DEF RowOK, RowTyped
<1>1. Busy(js, k)
  BY DEF Busy, Answer
<1>2. /\ ks \in [Slot -> Job] /\ \A i \in Slot : ks[i].answer = "no job"
      /\ r.st = "pending" /\ r.outcome = "none" /\ n = r.attempts
  BY DEF AllIdle, InHand
<1>3. n \in Nat /\ r.attempts \in Nat
  BY <1>0, FieldTypes
<1>4. \A i \in Slot : i # k => js[i].answer = "no job"
  BY <1>1 DEF RowOK, OneThread, Busy
<1>5. a <= f + 1 /\ (js[k].answer # "ok" => a <= f) /\ (js[k].answer = "ok" => a > 0)
  <2>1. js[k].answer # "ok" => \A i \in Slot : js[i].answer # "ok"
    BY <1>4
  <2> QED  BY <1>2, <2>1 DEF RowOK, RowAcks
<1>6. r.attempts <= s + f
  <2>1. \A i \in Slot : js[i].answer # "unsent"
    BY <1>4 DEF Answer
  <2> QED  BY <1>2, <2>1 DEF RowOK, RowTries
<1>7. ASSUME NEW o \in {"success", "client_error", "exhausted"},
             o = "exhausted" => s + f >= MaxAttempts,
             o = "success" => a > 0,
             o # "success" => a <= f
      PROVE  RowOK(MarkFinalized(r, o), ks, s, a, f)
  <2> DEFINE q == MarkFinalized(r, o)
  <2>1. q \in Row /\ q.st = "final" /\ q.outcome = o
    <3>1. Retention + 1 \in Nat
      BY WorkerTypes
    <3> QED  BY <1>0, <1>2, <3>1 DEF MarkFinalized, Row, Outcome
  <2> HIDE DEF q
  <2>2. RowOutcome(q, s, a, f)
    BY <1>7, <2>1 DEF RowOutcome
  <2>3. q.outcome # "none" /\ q.st # "pending"
    BY <2>1
  <2>4. RowOK(q, ks, s, a, f)
    BY <1>0, <1>2, <1>5, <2>1, <2>2, <2>3, QuietOK
  <2> QED  BY <2>4 DEF q
<1>8. CASE js[k].answer = "ok"
  <2>1. Stamped(r, js[k]) = MarkFinalized(r, "success")
    BY <1>8 DEF Stamped
  <2> QED  BY <1>5, <1>7, <1>8, <2>1
<1>9. CASE js[k].answer = "client_error"
  <2>1. Stamped(r, js[k]) = MarkFinalized(r, "client_error")
    BY <1>9 DEF Stamped
  <2> QED  BY <1>5, <1>7, <1>9, <2>1
<1>10. CASE js[k].answer = "failure" /\ Exhausted(n)
  <2>1. Stamped(r, js[k]) = MarkFinalized(r, "exhausted")
    BY <1>10 DEF Stamped
  <2>2. s + f >= MaxAttempts
    <3>1. r.attempts >= MaxAttempts
      BY <1>2, <1>10 DEF Exhausted
    <3> QED  BY <1>0, <1>3, <1>6, <3>1, WorkerTypes
  <2> QED  BY <1>5, <1>7, <1>10, <2>1, <2>2
<1>11. CASE js[k].answer = "failure" /\ ~Exhausted(n)
  <2> DEFINE q == MarkRetry(r, n)
  <2>1. Stamped(r, js[k]) = q
    BY <1>11 DEF Stamped
  <2>2. BackoffSecs(n) \in Nat
    BY <1>3, BackoffType
  <2>3. q \in Row /\ q.st = "pending" /\ q.outcome = "none" /\ q.attempts = r.attempts
    BY <1>0, <1>2, <1>3, <2>2 DEF MarkRetry, Row
  <2> HIDE DEF q
  <2>4. RowOutcome(q, s, a, f)
    BY <2>3 DEF RowOutcome
  <2>5. RowOK(q, ks, s, a, f)
    BY <1>0, <1>2, <1>5, <1>6, <1>11, <2>3, <2>4, QuietOK
  <2> QED  BY <2>1, <2>5
<1> QED  BY <1>8, <1>9, <1>10, <1>11 DEF Answer

(* One more fault only weakens what is claimed of a row.                   *)
LEMMA FaultOK ==
    ASSUME NEW r, NEW js, NEW s, NEW a, NEW f, RowOK(r, js, s, a, f)
    PROVE  RowOK(r, js, s, a, f + 1)
<1>0. /\ r \in Row /\ js \in [Slot -> Job] /\ s \in Nat /\ a \in Nat /\ f \in Nat
      /\ (r.outcome = "none") <=> (r.st # "final")
  BY DEF RowOK, RowTyped
<1>1. r.attempts \in Nat /\ f + 1 \in Nat
  <2>1. f + 1 \in Nat
    BY <1>0
  <2> QED  BY <1>0, <2>1, FieldTypes
<1>2. RowTyped(r, js, s, a, f + 1)
  BY <1>0, <1>1 DEF RowTyped
<1>3. RowTries(r, js, s, f + 1)
  <2>1. /\ r.attempts <= s + f + 1 => r.attempts <= s + (f + 1) + 1
        /\ r.attempts <= s + f => r.attempts <= s + (f + 1)
    BY <1>0, <1>1
  <2> QED  BY <2>1 DEF RowOK, RowTries
<1>4. RowAcks(r, js, a, f + 1)
  <2>1. (a <= f + 1 => a <= (f + 1) + 1) /\ (a <= f => a <= f + 1)
    BY <1>0
  <2> QED  BY <2>1 DEF RowOK, RowAcks
<1>5. RowOutcome(r, s, a, f + 1)
  <2>1. (s + f >= MaxAttempts => s + (f + 1) >= MaxAttempts) /\ (a <= f => a <= f + 1)
    BY <1>0, WorkerTypes
  <2> QED  BY <2>1 DEF RowOK, RowOutcome
<1> QED  BY <1>2, <1>3, <1>4, <1>5 DEF RowOK

(* A crash, or a verdict that cannot be written: the row keeps its lease   *)
(* and its thread is gone.                                                 *)
LEMMA ForgetOK ==
    ASSUME NEW r, NEW js, NEW s, NEW a, NEW f, NEW ks, RowOK(r, js, s, a, f), AllIdle(ks)
    PROVE  RowOK(r, ks, s, a, f + 1)
<1>0. /\ r \in Row /\ js \in [Slot -> Job] /\ s \in Nat /\ a \in Nat /\ f \in Nat
      /\ (r.outcome = "none") <=> (r.st # "final")
  BY DEF RowOK, RowTyped
<1>1. r.attempts \in Nat /\ f + 1 \in Nat
  <2>1. f + 1 \in Nat
    BY <1>0
  <2> QED  BY <1>0, <2>1, FieldTypes
<1>2. ks \in [Slot -> Job] /\ \A i \in Slot : ks[i].answer = "no job"
  BY DEF AllIdle
<1>3. a <= (f + 1) + 1 /\ a <= f + 1
  <2>1. a <= f + 1
    BY DEF RowOK, RowAcks
  <2> QED  BY <1>0, <2>1
<1>4. r.st = "pending" => r.attempts <= s + (f + 1)
  <2>1. r.st = "pending" => r.attempts <= s + f + 1
    BY DEF RowOK, RowTries
  <2>2. s + f + 1 = s + (f + 1)
    BY <1>0
  <2> QED  BY <2>1, <2>2
<1>5. RowOutcome(r, s, a, f + 1)
  BY FaultOK DEF RowOK
<1> QED  BY <1>0, <1>1, <1>2, <1>3, <1>4, <1>5, QuietOK

(* prune_finalized.                                                        *)
LEMMA PruneOK ==
    ASSUME NEW r, NEW js, NEW s, NEW a, NEW f, RowOK(r, js, s, a, f), r.st = "final"
    PROVE  RowOK(Absent, js, s, a, f)
<1>0. /\ js \in [Slot -> Job] /\ s \in Nat /\ a \in Nat /\ f \in Nat
  BY DEF RowOK, RowTyped
<1>1. \A i \in Slot : js[i].answer = "no job"
  BY DEF RowOK, RowHeld, Busy
<1>2. a <= f + 1
  BY DEF RowOK, RowAcks
<1>3. RowOutcome(Absent, s, a, f)
  BY Constants DEF RowOutcome
<1>4. Absent \in Row /\ Absent.outcome = "none" /\ Absent.st # "final" /\ Absent.st # "pending"
  BY Constants
<1> QED  BY <1>0, <1>1, <1>2, <1>3, <1>4, QuietOK

(* A tick: lease and deadline shrink together.                             *)
Aged(js) == [i \in Slot |-> [js[i] EXCEPT !.age = IF Busy(js, i) THEN @ + 1 ELSE @]]
Sooner(r) == [r EXCEPT !.wait = IF @ = 0 THEN 0 ELSE @ - 1]

LEMMA TickOK ==
    ASSUME Deadline < Lease, NEW r, NEW js, NEW s, NEW a, NEW f, RowOK(r, js, s, a, f),
           \A i \in Slot : Busy(js, i) => js[i].age < Deadline
    PROVE  RowOK(Sooner(r), Aged(js), s, a, f)
<1> DEFINE q == Sooner(r)
           ks == Aged(js)
<1>0. /\ r \in Row /\ js \in [Slot -> Job] /\ s \in Nat /\ a \in Nat /\ f \in Nat
      /\ (r.outcome = "none") <=> (r.st # "final")
  BY DEF RowOK, RowTyped
<1>1. r.wait \in Nat /\ r.attempts \in Nat
  BY <1>0, FieldTypes
<1>2. /\ q \in Row /\ q.st = r.st /\ q.attempts = r.attempts /\ q.outcome = r.outcome
      /\ q.wait = IF r.wait = 0 THEN 0 ELSE r.wait - 1
  <2>1. (IF r.wait = 0 THEN 0 ELSE r.wait - 1) \in Nat
    BY <1>1
  <2> QED  BY <1>0, <2>1 DEF Sooner, Row
<1>3. ASSUME NEW i \in Slot
      PROVE  /\ ks[i] \in Job /\ ks[i].answer = js[i].answer /\ ks[i].attempts = js[i].attempts
             /\ Busy(js, i) => ks[i].age = js[i].age + 1
  <2>1. js[i] \in Job /\ js[i].age \in Nat
    BY <1>0, FieldTypes
  <2>2. (IF Busy(js, i) THEN js[i].age + 1 ELSE js[i].age) \in 0 .. Deadline
    <3>1. js[i].age <= Deadline
      BY <1>0, FieldTypes
    <3> QED  BY <2>1, <3>1, WorkerTypes
  <2>3. ks[i] = [js[i] EXCEPT !.age = IF Busy(js, i) THEN js[i].age + 1 ELSE js[i].age]
    BY DEF Aged
  <2> QED  BY <2>1, <2>2, <2>3 DEF Job
<1>4. ks \in [Slot -> Job]
  BY <1>3 DEF Aged
<1> HIDE DEF q, ks
<1>5. \A i \in Slot : Busy(ks, i) <=> Busy(js, i)
  BY <1>3 DEF Busy
<1>6. RowTyped(q, ks, s, a, f)
  BY <1>0, <1>2, <1>4 DEF RowTyped
<1>7. RowHeld(q, ks)
  <2> SUFFICES ASSUME NEW i \in Slot, Busy(ks, i)
               PROVE  q.st = "pending" /\ q.wait + ks[i].age >= Lease /\ ks[i].attempts = q.attempts
    BY DEF RowHeld
  <2>1. Busy(js, i)
    BY <1>5
  <2>2. r.st = "pending" /\ r.wait + js[i].age >= Lease /\ js[i].attempts = r.attempts
    BY <2>1 DEF RowOK, RowHeld
  <2>3. js[i].age \in Nat /\ js[i].age < Deadline
    BY <1>0, <2>1, FieldTypes
  <2>4. r.wait # 0
    BY <2>2, <2>3, WorkerTypes
  <2>5. q.wait = r.wait - 1 /\ ks[i].age = js[i].age + 1
    BY <1>2, <1>3, <2>1, <2>4
  <2>6. q.wait + ks[i].age >= Lease
    <3>1. (r.wait - 1) + (js[i].age + 1) >= Lease
      BY <1>1, <2>2, <2>3, WorkerTypes
    <3> QED  BY <2>5, <3>1
  <2> QED  BY <1>2, <1>3, <2>2, <2>6
<1>8. OneThread(ks)
  BY <1>5 DEF RowOK, OneThread
<1>9. RowTries(q, ks, s, f)
  BY <1>2, <1>3 DEF RowOK, RowTries
<1>10. RowAcks(q, ks, a, f)
  BY <1>2, <1>3 DEF RowOK, RowAcks
<1>11. RowOutcome(q, s, a, f)
  BY <1>2 DEF RowOK, RowOutcome
<1>12. RowOK(q, ks, s, a, f)
  BY <1>6, <1>7, <1>8, <1>9, <1>10, <1>11 DEF RowOK
<1> QED  BY <1>12 DEF q, ks

----------------------------------------------------------------------------
(* The steps of the specification.                                         *)

LEMMA InitIInv == Init => IInv
<1> SUFFICES ASSUME Init PROVE IInv
  OBVIOUS
<1>1. Functions
  <2>1. rows \in [Id -> Row] /\ jobs \in [Id -> [Slot -> Job]]
    BY Constants DEF Init, Idle
  <2>2. sends \in [Id -> Nat] /\ acks \in [Id -> Nat]
    BY DEF Init
  <2>3. faults \in 0 .. MaxFaults /\ lastId \in 0 .. MaxId
    BY BoundsAssumption DEF Init
  <2> QED  BY <2>1, <2>2, <2>3 DEF Functions
<1>2. \A d \in Id : rows[d] = Absent /\ jobs[d] = Idle /\ sends[d] = 0 /\ acks[d] = 0 /\ faults = 0
  BY DEF Init, Idle
<1>3. RowsOK
  BY <1>2, FreshOK DEF RowsOK
<1>4. Unused
  BY <1>2, Constants DEF Unused
<1> QED  BY <1>1, <1>3, <1>4 DEF IInv

LEMMA EnqueueIInv ==
    ASSUME IInv, NEW n \in 1 .. MaxId, EnqueueDelivery(n)
    PROVE  IInv'
<1> DEFINE new == lastId + 1 .. lastId + n
<1>0. /\ lastId \in 0 .. MaxId /\ lastId' = lastId + n /\ lastId + n <= MaxId
      /\ UNCHANGED <<jobs, faults, sends, acks>>
  BY DEF IInv, Functions, EnqueueDelivery
<1>1. \A d \in Id : rows'[d] = IF d \in new THEN NewDelivery ELSE rows[d]
  BY DEF EnqueueDelivery
<1>2. \A d \in Id : d \in new => rows[d].st = "absent" /\ sends[d] = 0 /\ acks[d] = 0
  <2>1. \A d \in Id : d \in new => d > lastId
    BY <1>0 DEF Id
  <2> QED  BY <2>1 DEF IInv, Unused
<1>3. Functions'
  <2>1. rows' \in [Id -> Row]
    BY Constants DEF IInv, Functions, EnqueueDelivery
  <2>2. lastId' \in 0 .. MaxId
    BY <1>0, BoundsAssumption
  <2> QED  BY <1>0, <2>1, <2>2 DEF IInv, Functions
<1>4. RowsOK'
  <2> SUFFICES ASSUME NEW d \in Id PROVE RowOK(rows'[d], jobs[d], sends[d], acks[d], faults)
    BY <1>0 DEF RowsOK
  <2>1. RowOK(rows[d], jobs[d], sends[d], acks[d], faults)
    BY DEF IInv, RowsOK
  <2>2. CASE d \in new
    <3>1. rows'[d] = NewDelivery /\ rows[d].st = "absent" /\ sends[d] = 0 /\ acks[d] = 0
      BY <1>1, <1>2, <2>2
    <3> HIDE DEF new
    <3> QED  BY <2>1, <3>1, EnqueueOK
  <2>3. CASE d \notin new
    BY <1>1, <2>1, <2>3
  <2> QED  BY <2>2, <2>3
<1>5. Unused'
  <2> SUFFICES ASSUME NEW d \in Id, d > lastId'
               PROVE  rows'[d].st = "absent" /\ sends[d] = 0 /\ acks[d] = 0
    BY <1>0 DEF Unused
  <2>1. d > lastId /\ d \notin new
    BY <1>0 DEF Id
  <2> QED  BY <1>1, <2>1 DEF IInv, Unused
<1> QED  BY <1>3, <1>4, <1>5 DEF IInv

LEMMA ClaimIInv ==
    ASSUME Deadline < Lease, IInv, ClaimPendingDeliveries
    PROVE  IInv'
<1>0. Functions /\ UNCHANGED <<lastId, faults, sends, acks>>
  BY DEF IInv, ClaimPendingDeliveries
<1>1. ASSUME NEW d \in Id, d \in Batch
      PROVE  /\ rows[d].st = "pending" /\ rows[d].wait = 0
             /\ FreeSlot(d) \in Slot
             /\ rows'[d] = ClaimedRow(rows[d])
             /\ jobs'[d] = WithThread(jobs[d], FreeSlot(d), rows[d].attempts + 1)
  <2>1. d \in Due
    BY <1>1 DEF Batch
  <2>2. FreeSlot(d) \in Slot
    BY <1>1 DEF ClaimPendingDeliveries, FreeSlot
  <2>3. rows'[d] = ClaimedRow(rows[d])
    BY <1>1 DEF ClaimPendingDeliveries, Claimed, ClaimedRow
  <2>4. jobs'[d] = WithThread(jobs[d], FreeSlot(d), rows[d].attempts + 1)
    BY <1>1 DEF ClaimPendingDeliveries, WithThread
  <2> QED  BY <2>1, <2>2, <2>3, <2>4 DEF Due
<1>2. ASSUME NEW d \in Id, d \notin Batch PROVE rows'[d] = rows[d] /\ jobs'[d] = jobs[d]
  BY <1>2 DEF ClaimPendingDeliveries, Claimed
<1>3. RowsOK'
  <2> SUFFICES ASSUME NEW d \in Id PROVE RowOK(rows'[d], jobs'[d], sends[d], acks[d], faults)
    BY <1>0 DEF RowsOK
  <2>1. RowOK(rows[d], jobs[d], sends[d], acks[d], faults)
    BY DEF IInv, RowsOK
  <2>2. CASE d \in Batch
    BY <1>1, <2>1, <2>2, ClaimOK
  <2>3. CASE d \notin Batch
    BY <1>2, <2>1, <2>3
  <2> QED  BY <2>2, <2>3
<1>4. Functions'
  <2>1. \A d \in Id : rows'[d] \in Row /\ jobs'[d] \in [Slot -> Job]
    BY <1>3 DEF RowsOK, RowOK, RowTyped
  <2>2. rows' = [d \in Id |-> rows'[d]] /\ jobs' = [d \in Id |-> jobs'[d]]
    BY DEF ClaimPendingDeliveries, Claimed
  <2>3. rows' \in [Id -> Row] /\ jobs' \in [Id -> [Slot -> Job]]
    BY <2>1, <2>2
  <2> QED  BY <1>0, <2>3 DEF Functions
<1>5. Unused'
  <2>1. \A d \in Id : rows[d].st = "absent" => rows'[d] = rows[d]
    BY <1>1, <1>2
  <2> QED  BY <1>0, <2>1 DEF IInv, Unused
<1> QED  BY <1>3, <1>4, <1>5 DEF IInv

(* A step of one thread.  Everything but its row is as before.             *)
LEMMA ThreadIInv ==
    ASSUME IInv, NEW d \in Id, NEW i \in Slot, Post(d, i) \/ Mark(d, i) \/ MarkFails(d, i)
    PROVE  IInv'
<1>0. Functions /\ RowsOK /\ Unused /\ RowOK(rows[d], jobs[d], sends[d], acks[d], faults)
  BY DEF IInv, RowsOK
<1>1. /\ \A e \in Id : e # d => /\ rows'[e] = rows[e] /\ jobs'[e] = jobs[e]
                                /\ sends'[e] = sends[e] /\ acks'[e] = acks[e]
      /\ lastId' = lastId
  BY <1>0 DEF Functions, Post, Mark, MarkFails
<1>2. /\ rows' \in [Id -> Row] => DOMAIN rows' = Id
      /\ rows' = [e \in Id |-> rows'[e]] /\ jobs' = [e \in Id |-> jobs'[e]]
      /\ sends' = [e \in Id |-> sends'[e]] /\ acks' = [e \in Id |-> acks'[e]]
  BY <1>0 DEF Functions, Post, Mark, MarkFails
<1>3. faults' \in 0 .. MaxFaults /\ (faults' = faults \/ faults' = faults + 1)
  BY <1>0, BoundsAssumption DEF Functions, Post, Mark, MarkFails
<1>4. jobs[d][i].answer # "no job" /\ Busy(jobs[d], i)
  BY DEF Post, Mark, MarkFails, Answer, Busy
<1>5. rows[d].st = "pending"
  BY <1>0, <1>4 DEF RowOK, RowHeld
<1>6. AllIdle([jobs[d] EXCEPT ![i] = NoJob]) /\ InHand(rows[d], jobs[d][i].attempts)
  BY <1>0, <1>4, ThreadEnds
<1>7. RowOK(rows'[d], jobs'[d], sends'[d], acks'[d], faults')
  <2>1. CASE Post(d, i)
    <3>1. PICK ans \in Answer : /\ jobs' = [jobs EXCEPT ![d][i].answer = ans]
                                /\ acks' = IF ans = "ok" THEN [acks EXCEPT ![d] = @ + 1] ELSE acks
      BY <2>1 DEF Post
    <3>2. jobs'[d] = Answered(jobs[d], i, ans)
      BY <1>0, <3>1 DEF Functions, Answered
    <3>3. acks'[d] = Successes(acks[d], ans)
      BY <1>0, <3>1 DEF Functions, Successes
    <3>4. rows'[d] = rows[d] /\ sends'[d] = sends[d] + 1 /\ faults' = faults
      BY <1>0, <2>1 DEF Functions, Post
    <3>5. jobs[d][i].answer = "unsent"
      BY <2>1 DEF Post
    <3>6. RowOK(rows[d], Answered(jobs[d], i, ans), sends[d] + 1, Successes(acks[d], ans), faults)
      BY <1>0, <3>5, PostOK
    <3> QED  BY <3>2, <3>3, <3>4, <3>6
  <2>2. CASE Mark(d, i)
    <3>1. /\ rows'[d] = Stamped(rows[d], jobs[d][i])
          /\ jobs'[d] = [jobs[d] EXCEPT ![i] = NoJob]
          /\ sends'[d] = sends[d] /\ acks'[d] = acks[d] /\ faults' = faults
      BY <1>0, <2>2 DEF Functions, Mark
    <3>2. jobs[d][i].answer \in Answer
      BY <2>2 DEF Mark
    <3>3. AllIdle(jobs'[d])
      BY <1>6, <3>1
    <3>4. RowOK(Stamped(rows[d], jobs[d][i]), jobs'[d], sends[d], acks[d], faults)
      BY <1>0, <1>6, <3>2, <3>3, MarkOK
    <3> QED  BY <3>1, <3>4
  <2>3. CASE MarkFails(d, i)
    <3>1. /\ rows'[d] = rows[d] /\ jobs'[d] = [jobs[d] EXCEPT ![i] = NoJob]
          /\ sends'[d] = sends[d] /\ acks'[d] = acks[d] /\ faults' = faults + 1
      BY <1>0, <2>3 DEF Functions, MarkFails
    <3>2. AllIdle(jobs'[d])
      BY <1>6, <3>1
    <3>3. RowOK(rows[d], jobs'[d], sends[d], acks[d], faults + 1)
      BY <1>0, <3>2, ForgetOK
    <3> QED  BY <3>1, <3>3
  <2> QED  BY <2>1, <2>2, <2>3
<1>8. RowsOK'
  <2> SUFFICES ASSUME NEW e \in Id PROVE RowOK(rows'[e], jobs'[e], sends'[e], acks'[e], faults')
    BY DEF RowsOK
  <2>1. CASE e = d
    BY <1>7, <2>1
  <2>2. CASE e # d
    <3>1. RowOK(rows[e], jobs[e], sends[e], acks[e], faults)
      BY <1>0 DEF RowsOK
    <3>2. RowOK(rows[e], jobs[e], sends[e], acks[e], faults')
      BY <1>3, <3>1, FaultOK
    <3> QED  BY <1>1, <2>2, <3>2
  <2> QED  BY <2>1, <2>2
<1>9. Functions'
  <2>1. \A e \in Id : /\ rows'[e] \in Row /\ jobs'[e] \in [Slot -> Job]
                      /\ sends'[e] \in Nat /\ acks'[e] \in Nat
    BY <1>8 DEF RowsOK, RowOK, RowTyped
  <2>2. rows' \in [Id -> Row] /\ jobs' \in [Id -> [Slot -> Job]]
    BY <1>2, <2>1
  <2>3. sends' \in [Id -> Nat] /\ acks' \in [Id -> Nat]
    BY <1>2, <2>1
  <2> QED  BY <1>0, <1>1, <1>3, <2>2, <2>3 DEF Functions
<1>10. Unused'
  <2>1. ~(d > lastId)
    BY <1>0, <1>5 DEF Unused
  <2> QED  BY <1>0, <1>1, <2>1 DEF Unused
<1> QED  BY <1>8, <1>9, <1>10 DEF IInv

LEMMA CrashIInv ==
    ASSUME IInv, Crash
    PROVE  IInv'
<1>0. Functions /\ RowsOK /\ Unused /\ UNCHANGED <<rows, lastId, sends, acks>>
  BY DEF IInv, Crash
<1>1. faults' = faults + 1 /\ faults' \in 0 .. MaxFaults
  BY <1>0, BoundsAssumption DEF Crash, Functions
<1>2. jobs' \in [Id -> [Slot -> Job]] /\ \A d \in Id : jobs'[d] = Idle
  BY Constants DEF Crash, Idle
<1>3. AllIdle(Idle)
  BY Constants DEF AllIdle
<1>4. RowsOK'
  <2> SUFFICES ASSUME NEW d \in Id PROVE RowOK(rows[d], jobs'[d], sends[d], acks[d], faults')
    BY <1>0 DEF RowsOK
  <2>1. RowOK(rows[d], jobs[d], sends[d], acks[d], faults)
    BY <1>0 DEF RowsOK
  <2>2. RowOK(rows[d], Idle, sends[d], acks[d], faults + 1)
    BY <1>3, <2>1, ForgetOK
  <2> QED  BY <1>1, <1>2, <2>2
<1>5. Functions'
  BY <1>0, <1>1, <1>2 DEF Functions
<1>6. Unused'
  BY <1>0 DEF Unused
<1> QED  BY <1>4, <1>5, <1>6 DEF IInv

LEMMA PruneIInv ==
    ASSUME IInv, PruneFinalized
    PROVE  IInv'
<1>0. Functions /\ RowsOK /\ Unused /\ UNCHANGED <<lastId, jobs, faults, sends, acks>>
  BY DEF IInv, PruneFinalized
<1>1. \A d \in Id : rows'[d] = rows[d] \/ (rows'[d] = Absent /\ rows[d].st = "final")
  BY DEF PruneFinalized
<1>2. RowsOK'
  <2> SUFFICES ASSUME NEW d \in Id PROVE RowOK(rows'[d], jobs[d], sends[d], acks[d], faults)
    BY <1>0 DEF RowsOK
  <2>1. RowOK(rows[d], jobs[d], sends[d], acks[d], faults)
    BY <1>0 DEF RowsOK
  <2> QED  BY <1>1, <2>1, PruneOK
<1>3. Functions'
  BY <1>0, Constants DEF Functions, PruneFinalized
<1>4. Unused'
  BY <1>0, <1>1, Constants DEF Unused
<1> QED  BY <1>2, <1>3, <1>4 DEF IInv

LEMMA TickIInv ==
    ASSUME Deadline < Lease, IInv, Tick
    PROVE  IInv'
<1>0. Functions /\ RowsOK /\ Unused /\ UNCHANGED <<lastId, faults, sends, acks>>
  BY DEF IInv, Tick
<1>1. \A d \in Id : rows'[d] = Sooner(rows[d]) /\ jobs'[d] = Aged(jobs[d])
  BY DEF Tick, Sooner, Aged, Busy, Live
<1>2. \A d \in Id, i \in Slot : Busy(jobs[d], i) => jobs[d][i].age < Deadline
  BY DEF Tick, Busy, Live
<1>3. RowsOK'
  <2> SUFFICES ASSUME NEW d \in Id PROVE RowOK(rows'[d], jobs'[d], sends[d], acks[d], faults)
    BY <1>0 DEF RowsOK
  <2>1. RowOK(rows[d], jobs[d], sends[d], acks[d], faults)
    BY <1>0 DEF RowsOK
  <2>2. RowOK(Sooner(rows[d]), Aged(jobs[d]), sends[d], acks[d], faults)
    BY <1>2, <2>1, TickOK
  <2> QED  BY <1>1, <2>2
<1>4. Functions'
  <2>1. \A d \in Id : rows'[d] \in Row /\ jobs'[d] \in [Slot -> Job]
    BY <1>3 DEF RowsOK, RowOK, RowTyped
  <2>2. rows' = [d \in Id |-> rows'[d]] /\ jobs' = [d \in Id |-> jobs'[d]]
    BY DEF Tick
  <2>3. rows' \in [Id -> Row] /\ jobs' \in [Id -> [Slot -> Job]]
    BY <2>1, <2>2
  <2> QED  BY <1>0, <2>3 DEF Functions
<1>5. Unused'
  <2>1. \A d \in Id : rows'[d].st = rows[d].st
    <3> SUFFICES ASSUME NEW d \in Id PROVE Sooner(rows[d]).st = rows[d].st
      BY <1>1
    <3>1. rows[d] \in Row
      BY <1>0 DEF Functions
    <3> QED  BY <3>1 DEF Sooner, Row
  <2> QED  BY <1>0, <2>1 DEF Unused
<1> QED  BY <1>3, <1>4, <1>5 DEF IInv

LEMMA NextIInv ==
    ASSUME Deadline < Lease, IInv, [Next]_vars
    PROVE  IInv'
<1>1. ASSUME NEW n \in 1 .. MaxId, EnqueueDelivery(n) PROVE IInv'
  BY <1>1, EnqueueIInv
<1>2. CASE ClaimPendingDeliveries
  BY <1>2, ClaimIInv
<1>3. ASSUME NEW d \in Id, NEW i \in Slot, Post(d, i) \/ Mark(d, i) \/ MarkFails(d, i) PROVE IInv'
  BY <1>3, ThreadIInv
<1>4. CASE Crash
  BY <1>4, CrashIInv
<1>5. CASE PruneFinalized
  BY <1>5, PruneIInv
<1>6. CASE Tick
  BY <1>6, TickIInv
<1>7. CASE UNCHANGED vars
  <2>1. Functions' /\ RowsOK' /\ Unused'
    BY <1>7 DEF vars, IInv, Functions, RowsOK, Unused
  <2> QED  BY <2>1 DEF IInv
<1> QED  BY <1>1, <1>2, <1>3, <1>4, <1>5, <1>6, <1>7 DEF Next

----------------------------------------------------------------------------
(* The inductive invariant holds as long as leases outlive threads.        *)
THEOREM Invariance == ASSUME Deadline < Lease PROVE Spec => []IInv
<1>1. IInv /\ [Next]_vars => IInv'
  BY NextIInv
<1> QED  BY <1>1, InitIInv, PTL DEF Spec

(* webhooks.rs: the outbox table and the delivery threads have their       *)
(* types, and exactly the finalized rows have an outcome.                  *)
THEOREM TypeCorrect == ASSUME Deadline < Lease PROVE Spec => []TypeOK
<1>1. IInv => TypeOK
  BY DEF IInv, Functions, RowsOK, RowOK, RowTyped, TypeOK
<1> QED  BY <1>1, Invariance, PTL

(* claim_pending_deliveries: no delivery is ever in the hands of two       *)
(* threads, provided that a thread ends before the lease runs out.         *)
THEOREM NoDoubleFlight == ASSUME Deadline < Lease PROVE Spec => []SingleFlight
<1>1. IInv => SingleFlight
  BY DEF IInv, RowsOK, RowOK, OneThread, Busy, SingleFlight, Live
<1> QED  BY <1>1, Invariance, PTL

(* dispatch_row: a subscriber that answered with success is called again   *)
(* only after a crash or a failed write, once for each.                    *)
THEOREM AtMostOncePerFault == ASSUME Deadline < Lease PROVE Spec => []DeliveredOnce
<1>1. ASSUME IInv, NEW d \in Id PROVE acks[d] <= 1 + faults
  <2>1. acks[d] <= faults + 1 /\ faults \in Nat
    BY <1>1 DEF IInv, RowsOK, RowOK, RowAcks, RowTyped
  <2> QED  BY <2>1
<1>2. IInv => DeliveredOnce
  BY <1>1 DEF DeliveredOnce
<1> QED  BY <1>2, Invariance, PTL

(* finalize_exhausted: no delivery is given up before MaxAttempts requests *)
(* were made, save those that faults have cost.                            *)
THEOREM NotGivenUpEarly == ASSUME Deadline < Lease PROVE Spec => []ExhaustedWasTried
<1>1. IInv => ExhaustedWasTried
  BY DEF IInv, RowsOK, RowOK, RowOutcome, ExhaustedWasTried
<1> QED  BY <1>1, Invariance, PTL

(* mark_delivery_finalized: the outcome of a row is the subscriber's       *)
(* answer.                                                                 *)
THEOREM OutcomesTrue == ASSUME Deadline < Lease PROVE Spec => []OutcomeIsTrue
<1>1. IInv => OutcomeIsTrue
  BY DEF IInv, RowsOK, RowOK, RowOutcome, OutcomeIsTrue
<1> QED  BY <1>1, Invariance, PTL

(* The verdict on a delivery is never written over.                        *)
THEOREM VerdictsStand == ASSUME Deadline < Lease PROVE Spec => VerdictStands
<1> DEFINE Stands == \A d \in Id : rows[d].st = "final" /\ rows'[d].st = "final"
                                      => rows'[d].outcome = rows[d].outcome
<1>1. ASSUME IInv, Next PROVE Stands
  <2> SUFFICES ASSUME NEW d \in Id, rows[d].st = "final", rows'[d].st = "final"
               PROVE  rows'[d].outcome = rows[d].outcome
    OBVIOUS
  <2>0. Functions /\ rows[d] \in Row /\ RowHeld(rows[d], jobs[d])
    BY <1>1 DEF IInv, Functions, RowsOK, RowOK
  <2>1. ASSUME NEW n \in 1 .. MaxId, EnqueueDelivery(n) PROVE rows'[d].outcome = rows[d].outcome
    BY <2>1, Constants DEF EnqueueDelivery
  <2>2. CASE ClaimPendingDeliveries
    <3>1. d \notin Batch
      BY DEF Batch, Due
    <3> QED  BY <2>2, <3>1 DEF ClaimPendingDeliveries, Claimed
  <2>3. ASSUME NEW e \in Id, NEW i \in Slot, Post(e, i) \/ Mark(e, i) \/ MarkFails(e, i)
        PROVE  rows'[d].outcome = rows[d].outcome
    <3>1. e = d => ~(jobs[e][i].answer \in Answer)
      BY <2>0 DEF RowHeld, Busy, Answer
    <3>2. rows'[d] = rows[d]
      BY <2>0, <2>3, <3>1 DEF Functions, Post, Mark, MarkFails
    <3> QED  BY <3>2
  <2>4. CASE Crash
    BY <2>4 DEF Crash
  <2>5. CASE PruneFinalized
    BY <2>5, Constants DEF PruneFinalized
  <2>6. CASE Tick
    <3>1. rows'[d] = Sooner(rows[d])
      BY <2>6 DEF Tick, Sooner
    <3> QED  BY <2>0, <3>1 DEF Sooner, Row
  <2> QED  BY <1>1, <2>1, <2>2, <2>3, <2>4, <2>5, <2>6 DEF Next
<1>2. IInv /\ [Next]_vars => [Stands]_vars
  BY <1>1
<1> QED  BY <1>2, Invariance, PTL DEF Spec, VerdictStands

----------------------------------------------------------------------------
(* The lifecycle of a row needs no assumption on the lease: it is proved   *)
(* for threads that outlive it as well, from a weaker invariant.           *)

Shapes ==
    /\ rows \in [Id -> Row] /\ jobs \in [Id -> [Slot -> Job]] /\ lastId \in 0 .. MaxId
    /\ \A d \in Id : d > lastId => rows[d].st = "absent"

(* What an operation other than enqueue_delivery may do to a row.          *)
Onward(r, q) ==
    /\ q \in Row
    /\ r.st = "absent" => q.st = "absent"
    /\ r.st = "pending" => q.st # "absent"
    /\ r.st = "final" => q.st # "pending"

LEMMA StampOnward ==
    ASSUME NEW r \in Row, NEW j \in Job, j.answer \in Answer
    PROVE  Onward(r, Stamped(r, j))
<1>1. r.st \in {"absent", "pending", "final"} /\ r.attempts \in Nat /\ r.wait \in Nat
  BY DEF Row
<1>2. j.attempts \in Nat /\ BackoffSecs(j.attempts) \in Nat /\ Retention + 1 \in Nat
  <2>1. j.attempts \in Nat
    BY DEF Job
  <2> QED  BY <2>1, BackoffType, WorkerTypes
<1>3. ASSUME NEW o \in {"success", "client_error", "exhausted"}
      PROVE  Onward(r, MarkFinalized(r, o))
  BY <1>1, <1>2 DEF MarkFinalized, Onward, Row, Outcome
<1>4. Onward(r, MarkRetry(r, j.attempts))
  <2>1. ASSUME NEW n \in Nat, NEW b \in Nat
        PROVE  /\ r.st = "pending" => Onward(r, [r EXCEPT !.attempts = n, !.wait = b])
               /\ r.st # "pending" => Onward(r, [r EXCEPT !.attempts = n])
    BY <1>1 DEF Onward, Row
  <2>2. CASE r.st = "pending"
    BY <1>2, <2>1, <2>2 DEF MarkRetry
  <2>3. CASE r.st # "pending"
    <3>1. (IF r.st = "absent" THEN 0 ELSE j.attempts) \in Nat
      BY <1>2
    <3> QED  BY <2>1, <2>3, <3>1 DEF MarkRetry
  <2> QED  BY <2>2, <2>3
<1>5. \/ \E o \in {"success", "client_error", "exhausted"} : Stamped(r, j) = MarkFinalized(r, o)
      \/ Stamped(r, j) = MarkRetry(r, j.attempts)
  BY DEF Stamped, Answer
<1> QED  BY <1>3, <1>4, <1>5

LEMMA ClaimOnward ==
    ASSUME NEW r \in Row
    PROVE  ClaimedRow(r) \in Row /\ ClaimedRow(r).st = r.st
<1>1. Lease \in Nat
  BY WorkerTypes
<1>2. r.attempts + 1 \in Nat
  BY DEF Row
<1> QED  BY <1>1, <1>2 DEF ClaimedRow, Row

LEMMA ShapesInit == Init => Shapes
<1> SUFFICES ASSUME Init PROVE Shapes
  OBVIOUS
<1>1. 0 \in 0 .. MaxId
  BY BoundsAssumption
<1>2. rows \in [Id -> Row] /\ \A d \in Id : rows[d].st = "absent"
  BY Constants DEF Init
<1>3. jobs \in [Id -> [Slot -> Job]]
  BY Constants DEF Init, Idle
<1> QED  BY <1>1, <1>2, <1>3 DEF Init, Shapes

(* Every step but an enqueue moves each row onward.                        *)
LEMMA StepOnward ==
    ASSUME Shapes, Next, ~\E n \in 1 .. MaxId : EnqueueDelivery(n)
    PROVE  /\ UNCHANGED lastId
           /\ \A d \in Id : Onward(rows[d], rows'[d])
           /\ rows' \in [Id -> Row]
           /\ jobs' \in [Id -> [Slot -> Job]]
<1> DEFINE Goal == /\ UNCHANGED lastId
                   /\ \A d \in Id : Onward(rows[d], rows'[d])
                   /\ rows' \in [Id -> Row]
                   /\ jobs' \in [Id -> [Slot -> Job]]
<1> USE DEF Shapes
<1>0. \A r \in Row : Onward(r, r)
  BY DEF Onward, Row
<1>1. ASSUME ClaimPendingDeliveries PROVE Goal
  <2>1. ASSUME NEW d \in Id PROVE rows'[d] \in Row /\ rows'[d].st = rows[d].st
    <3>1. rows'[d] = rows[d] \/ rows'[d] = ClaimedRow(rows[d])
      BY <1>1 DEF ClaimPendingDeliveries, Claimed, ClaimedRow
    <3>2. rows[d] \in Row
      OBVIOUS
    <3> QED  BY <3>1, <3>2, ClaimOnward
  <2>2. rows' \in [Id -> Row]
    BY <1>1, <2>1 DEF ClaimPendingDeliveries, Claimed
  <2>3. \A d \in Id : Onward(rows[d], rows'[d])
    BY <2>1 DEF Onward
  <2>4. \A n \in Nat : NewJob(n) \in Job
    <3>1. 0 \in 0 .. Deadline
      BY WorkerTypes
    <3> QED  BY <3>1 DEF NewJob, Job
  <2>5. ASSUME NEW d \in Id PROVE rows[d].attempts + 1 \in Nat
    BY DEF Row
  <2>6. jobs' \in [Id -> [Slot -> Job]]
    BY <1>1, <2>4, <2>5 DEF ClaimPendingDeliveries
  <2> QED  BY <1>1, <2>2, <2>3, <2>6 DEF ClaimPendingDeliveries
<1>2. ASSUME NEW e \in Id, NEW i \in Slot, Post(e, i) PROVE Goal
  <2>1. PICK a \in Answer : jobs' = [jobs EXCEPT ![e][i].answer = a]
    BY <1>2 DEF Post
  <2>2. [jobs[e][i] EXCEPT !.answer = a] \in Job
    <3>1. \A j \in Job : [j EXCEPT !.answer = a] \in Job
      BY DEF Job
    <3> QED  BY <3>1
  <2>3. jobs' \in [Id -> [Slot -> Job]]
    BY <2>1, <2>2
  <2> QED  BY <1>0, <1>2, <2>3 DEF Post
<1>3. ASSUME NEW e \in Id, NEW i \in Slot, Mark(e, i) PROVE Goal
  <2>1. Onward(rows[e], Stamped(rows[e], jobs[e][i]))
    BY <1>3, StampOnward DEF Mark
  <2>2. rows' = [rows EXCEPT ![e] = Stamped(rows[e], jobs[e][i])]
    BY <1>3 DEF Mark
  <2>3. \A d \in Id : Onward(rows[d], rows'[d])
    BY <1>0, <2>1, <2>2
  <2>4. rows' \in [Id -> Row]
    BY <2>1, <2>2 DEF Onward
  <2>5. jobs' \in [Id -> [Slot -> Job]]
    BY <1>3, Constants DEF Mark
  <2> QED  BY <1>3, <2>3, <2>4, <2>5 DEF Mark
<1>4. ASSUME NEW e \in Id, NEW i \in Slot, MarkFails(e, i) PROVE Goal
  BY <1>0, <1>4, Constants DEF MarkFails
<1>5. ASSUME Crash PROVE Goal
  BY <1>0, <1>5, Constants DEF Crash
<1>6. ASSUME PruneFinalized PROVE Goal
  <2>1. \A d \in Id : rows'[d] = IF rows[d].st = "final" /\ rows[d].wait = 0 THEN Absent ELSE rows[d]
    BY <1>6 DEF PruneFinalized
  <2>2. \A d \in Id : Onward(rows[d], rows'[d])
    BY <1>0, <2>1, Constants DEF Onward
  <2>3. rows' \in [Id -> Row]
    BY <1>6, Constants DEF PruneFinalized
  <2> QED  BY <1>6, <2>2, <2>3 DEF PruneFinalized
<1>7. ASSUME Tick PROVE Goal
  <2>1. ASSUME NEW d \in Id PROVE rows'[d] \in Row /\ rows'[d].st = rows[d].st
    <3>1. rows'[d] = [rows[d] EXCEPT !.wait = IF @ = 0 THEN 0 ELSE @ - 1]
      BY <1>7 DEF Tick
    <3>2. rows[d] \in Row
      OBVIOUS
    <3> QED  BY <3>1, <3>2 DEF Row
  <2>2. rows' \in [Id -> Row]
    BY <1>7, <2>1 DEF Tick
  <2>3. \A d \in Id : Onward(rows[d], rows'[d])
    BY <2>1 DEF Onward
  <2>4. ASSUME NEW d \in Id, NEW i \in Slot
        PROVE  [jobs[d][i] EXCEPT !.age = IF Live(d, i) THEN @ + 1 ELSE @] \in Job
    <3>1. Live(d, i) => jobs[d][i].age < Deadline
      BY <1>7 DEF Tick
    <3>2. jobs[d][i] \in Job
      OBVIOUS
    <3>3. jobs[d][i].age \in 0 .. Deadline
      BY <3>2 DEF Job
    <3>4. Live(d, i) => jobs[d][i].age + 1 \in 0 .. Deadline
      BY <3>1, <3>3, WorkerTypes
    <3> QED  BY <3>2, <3>3, <3>4 DEF Job
  <2>5. jobs' \in [Id -> [Slot -> Job]]
    BY <1>7, <2>4 DEF Tick
  <2> QED  BY <1>7, <2>2, <2>3, <2>5 DEF Tick
<1> QED  BY <1>1, <1>2, <1>3, <1>4, <1>5, <1>6, <1>7 DEF Next

(* Whatever the deadline of a thread: a pending row is not pruned, a       *)
(* finalized one is never re-opened by a late thread, and a row that is    *)
(* gone does not come back (webhooks.rs, mark_delivery_retry,              *)
(* mark_delivery_finalized, prune_finalized).                              *)
THEOREM RowsMoveOnward == Spec => Lifecycle
<1> DEFINE Kept == \A d \in Id :
              /\ rows[d].st = "pending" => rows'[d].st # "absent"
              /\ rows[d].st = "final" => rows'[d].st # "pending"
              /\ d <= lastId /\ rows[d].st = "absent" => rows'[d].st = "absent"
<1>1. ASSUME Shapes, NEW n \in 1 .. MaxId, EnqueueDelivery(n) PROVE Shapes' /\ Kept
  <2>1. /\ lastId' = lastId + n /\ lastId + n <= MaxId /\ UNCHANGED jobs
        /\ rows' = [d \in Id |-> IF d \in lastId + 1 .. lastId + n THEN NewDelivery ELSE rows[d]]
    BY <1>1 DEF EnqueueDelivery
  <2>2. lastId \in Nat /\ n \in Nat /\ MaxId \in Nat /\ lastId' \in 0 .. MaxId
    BY <1>1, <2>1, BoundsAssumption DEF Shapes
  <2>3. rows' \in [Id -> Row]
    BY <1>1, <2>1, Constants DEF Shapes
  <2>4. ASSUME NEW d \in Id PROVE d \in lastId + 1 .. lastId + n => d > lastId
    BY <2>2 DEF Id
  <2>5. ASSUME NEW d \in Id
        PROVE  d > lastId' => d > lastId /\ d \notin lastId + 1 .. lastId + n
    BY <2>1, <2>2 DEF Id
  <2>6. ASSUME NEW d \in Id
        PROVE  d \notin lastId + 1 .. lastId + n => rows'[d] = rows[d]
    BY <2>1
  <2>7. ASSUME NEW d \in Id
        PROVE  d \in lastId + 1 .. lastId + n => rows'[d] = NewDelivery /\ rows[d].st = "absent"
    BY <1>1, <2>1, <2>4 DEF Shapes
  <2>8. ASSUME NEW d \in Id PROVE d <= lastId => ~(d > lastId)
    BY <2>2 DEF Id
  <2>9. Shapes'
    BY <1>1, <2>1, <2>2, <2>3, <2>5, <2>6 DEF Shapes
  <2>10. Kept
    BY <2>4, <2>6, <2>7, <2>8, Constants
  <2> QED  BY <2>9, <2>10
<1>2. ASSUME Shapes, Next, ~\E n \in 1 .. MaxId : EnqueueDelivery(n) PROVE Shapes' /\ Kept
  <2>1. /\ UNCHANGED lastId /\ rows' \in [Id -> Row] /\ jobs' \in [Id -> [Slot -> Job]]
        /\ \A d \in Id : Onward(rows[d], rows'[d])
    BY <1>2, StepOnward
  <2>2. Shapes'
    BY <1>2, <2>1 DEF Shapes, Onward
  <2>3. Kept
    BY <2>1 DEF Onward
  <2> QED  BY <2>2, <2>3
<1>3. ASSUME Shapes, UNCHANGED vars PROVE Shapes'
  BY <1>3 DEF Shapes, vars
<1>4. ASSUME Shapes, [Next]_vars PROVE Shapes' /\ [Kept]_vars
  BY <1>1, <1>2, <1>3, <1>4
<1> QED  BY ShapesInit, <1>4, PTL DEF Spec, Lifecycle

-----------------------------------------------------------------------------
(* The master key: the secrets, the key file and the rotations.            *)

Active(r) == rot[r].pc \in {"read", "swap", "file"}
Ahead(r) == rot[r].pc \in {"read", "swap"}

\* The key of a rotation is its own: it is in nobody's hands before the swap.
KeysFresh ==
  \A r \in Rotators :
    /\ Active(r) => rot[r].new \in drawn /\ rot[r].old \in drawn /\ rot[r].rows \subseteq Rows
    /\ Ahead(r) => rot[r].new # current
    /\ \A s \in Rotators : Active(r) /\ Active(s) /\ s # r => rot[s].new # rot[r].new
    /\ \A s \in Rotators : Ahead(r) /\ Ahead(s) => rot[s].old # rot[r].new

\* A secret that is sealed and not inserted has no row; a delivery has one.
AddsSound ==
  /\ fresh \subseteq Rows
  /\ \A h \in Hook : sealed[h] # None => row[h] = NoRow

\* Between commit and swap the rows of a rotation wait for its key, and so
\* do the deliveries that were enqueued from them.
Resealed ==
  \A r \in Rotators : rot[r].pc = "swap" =>
    /\ \A h \in rot[r].rows : row[h].key = rot[r].new
    /\ \A h \in rot[r].rows \cap fresh : pending[h] = rot[r].new

\* With no rotation between commit and swap, rows and deliveries are under
\* the key in memory.
UnderKey ==
  (~torn /\ \A r \in Rotators : rot[r].pc # "swap") =>
    /\ \A h \in Rows \ raced : row[h].key = current
    /\ \A h \in fresh \ raced : pending[h] = current

FileAgrees ==
  (~torn /\ \A r \in Rotators : rot[r].pc \notin {"swap", "file"}) => keyFile = current

KeysIInv == KeysTypeOK /\ KeysFresh /\ AddsSound /\ Resealed /\ UnderKey /\ FileAgrees

LEMMA RotationType ==
  ASSUME KeysTypeOK, NEW r \in Rotators
  PROVE  /\ rot[r] \in RotType
         /\ rot[r].pc \in {"idle", "read", "swap", "file", "done"}
         /\ rot[r].old \in Key \cup {None} /\ rot[r].new \in Key \cup {None} /\ rot[r].rows \in SUBSET Hook
  BY DEF KeysTypeOK, RotType

LEMMA RowKeyType ==
  ASSUME KeysTypeOK, NEW h \in Hook
  PROVE  /\ row[h] \in [key : drawn \cup {None}, state : {"absent", "live", "revoked"}]
         /\ row[h].key \in drawn \cup {None} /\ row[h].state \in {"absent", "live", "revoked"}
         /\ (row[h].key = None) <=> (row[h].state = "absent")
         /\ h \in Rows <=> row[h].state # "absent"
  BY DEF KeysTypeOK, Rows

LEMMA NoRowIsAbsent ==
  /\ NoRow.state = "absent" /\ NoRow.key = None
  /\ NoRow \in [key : drawn \cup {None}, state : {"absent", "live", "revoked"}]
  BY DEF NoRow

LEMMA RotationUpdate ==
  ASSUME KeysTypeOK, NEW r \in Rotators, NEW x \in RotType, rot' = [rot EXCEPT ![r] = x]
  PROVE  /\ rot' \in [Rotators -> RotType]
         /\ rot'[r] = x
         /\ \A s \in Rotators \ {r} : rot'[s] = rot[s]
  BY DEF KeysTypeOK

\* A rotation goes on to the next stage.
LEMMA RotationGoes ==
  ASSUME KeysTypeOK, NEW r \in Rotators, NEW pc \in {"swap", "file"}, rot' = [rot EXCEPT ![r].pc = pc]
  PROVE  /\ rot' \in [Rotators -> RotType]
         /\ rot'[r].pc = pc /\ rot'[r].old = rot[r].old /\ rot'[r].new = rot[r].new
         /\ rot'[r].rows = rot[r].rows
         /\ \A s \in Rotators \ {r} : rot'[s] = rot[s]
<1> DEFINE x == [rot[r] EXCEPT !.pc = pc]
<1>1. /\ x \in RotType /\ x.pc = pc /\ x.old = rot[r].old /\ x.new = rot[r].new
      /\ x.rows = rot[r].rows
  BY RotationType DEF RotType
<1>2. rot' = [rot EXCEPT ![r] = x]
  OBVIOUS
<1> HIDE DEF x
<1>3. QED
  BY <1>1, <1>2, RotationUpdate

\* A rotation ends, refused or not.
LEMMA RotationEnds ==
  ASSUME KeysTypeOK, NEW r \in Rotators, NEW res \in {"ok", "error"},
         rot' = [rot EXCEPT ![r] = [NoRot EXCEPT !.pc = "done", !.result = res]]
  PROVE  /\ rot' \in [Rotators -> RotType]
         /\ rot'[r].pc = "done"
         /\ \A s \in Rotators \ {r} : rot'[s] = rot[s]
<1> DEFINE x == [NoRot EXCEPT !.pc = "done", !.result = res]
<1>1. x \in RotType /\ x.pc = "done"
  BY DEF NoRot, RotType
<1> HIDE DEF x
<1>2. QED
  BY <1>1, RotationUpdate DEF x

\* A rotation draws its key and reads the rows.
LEMMA BeginStep ==
  ASSUME KeysTypeOK, current # None, NEW r \in Rotators, BeginRotation(r)
  PROVE  /\ rot' \in [Rotators -> RotType] /\ drawn' \in SUBSET Key /\ drawn \subseteq drawn'
         /\ rot[r].pc = "idle" /\ rot'[r].pc = "read" /\ rot'[r].old = current /\ current \in drawn
         /\ rot'[r].new \in drawn' \ drawn /\ rot'[r].rows = Rows
         /\ \A s \in Rotators \ {r} : rot'[s] = rot[s]
<1>1. PICK k \in Key \ drawn :
        /\ drawn' = drawn \cup {k}
        /\ rot' = [rot EXCEPT ![r] = [pc |-> "read", old |-> current, new |-> k, rows |-> Rows,
                                      result |-> "none"]]
  BY DEF BeginRotation
<1>2. current \in drawn /\ current \in Key /\ Rows \in SUBSET Hook /\ rot[r].pc = "idle"
  BY DEF KeysTypeOK, Rows, BeginRotation
<1> DEFINE x == [pc |-> "read", old |-> current, new |-> k, rows |-> Rows, result |-> "none"]
<1>3. x \in RotType /\ x.pc = "read" /\ x.old = current /\ x.new = k /\ x.rows = Rows
  BY <1>2 DEF RotType
<1>4. rot' = [rot EXCEPT ![r] = x]
  BY <1>1
<1> HIDE DEF x
<1>5. drawn' \in SUBSET Key
  BY <1>1 DEF KeysTypeOK
<1>6. QED
  BY <1>1, <1>2, <1>3, <1>4, <1>5, RotationUpdate

\* The rows of the snapshot are re-sealed and the others stay, or it refuses.
LEMMA CommitStep ==
  ASSUME KeysTypeOK, KeysFresh, NEW r \in Rotators, CommitRotation(r)
  PROVE  /\ rot[r].pc = "read" /\ rot' \in [Rotators -> RotType]
         /\ \A s \in Rotators \ {r} : rot'[s] = rot[s]
         /\ \/ rot'[r].pc = "done" /\ UNCHANGED <<row, fresh>>
            \/ /\ rot'[r].pc = "swap" /\ rot'[r].old = rot[r].old /\ rot'[r].new = rot[r].new
               /\ rot'[r].rows = rot[r].rows /\ fresh' = {} /\ Unseals(r)
               /\ row' \in [Hook -> [key : drawn \cup {None}, state : {"absent", "live", "revoked"}]]
               /\ \A h \in Hook \ rot[r].rows : row'[h] = row[h]
               /\ \A h \in rot[r].rows : row'[h].key = rot[r].new /\ row'[h].state = row[h].state
<1>1. rot[r].pc = "read"
  BY DEF CommitRotation
<1>2. CASE Refuse(r) /\ UNCHANGED <<row, fresh>>
  BY <1>1, <1>2, RotationEnds DEF Refuse
<1>3. CASE /\ row' = [h \in Hook |-> IF h \in rot[r].rows THEN [row[h] EXCEPT !.key = rot[r].new] ELSE row[h]]
           /\ rot' = [rot EXCEPT ![r].pc = "swap"]
           /\ fresh' = {} /\ Unseals(r)
  <2>1. rot[r].new \in drawn /\ rot[r].rows \in SUBSET Hook
    BY <1>1, RotationType DEF KeysFresh, Active
  <2>2. ASSUME NEW h \in Hook
        PROVE  /\ [row[h] EXCEPT !.key = rot[r].new]
                     \in [key : drawn \cup {None}, state : {"absent", "live", "revoked"}]
               /\ [row[h] EXCEPT !.key = rot[r].new].key = rot[r].new
               /\ [row[h] EXCEPT !.key = rot[r].new].state = row[h].state
    BY <2>1, RowKeyType
  <2>3. row' \in [Hook -> [key : drawn \cup {None}, state : {"absent", "live", "revoked"}]]
    BY <1>3, <2>2, RowKeyType
  <2>4. /\ \A h \in Hook \ rot[r].rows : row'[h] = row[h]
        /\ \A h \in rot[r].rows : row'[h].key = rot[r].new /\ row'[h].state = row[h].state
    BY <1>3, <2>1, <2>2
  <2>5. QED
    BY <1>1, <1>3, <2>3, <2>4, RotationGoes
<1>4. QED
  BY <1>2, <1>3 DEF CommitRotation

LEMMA KeysCrashStep ==
  ASSUME KeysTypeOK, KeysCrash
  PROVE  /\ rot' \in [Rotators -> RotType] /\ keyFaults' \in 0 .. MaxKeyFaults
         /\ \A r \in Rotators : rot'[r].pc \in {"idle", "done"}
         /\ torn' \in BOOLEAN /\ current' = keyFile' /\ keyFile' \in {keyFile, None}
         /\ ~torn' => ~torn /\ keyFile' = keyFile /\ \A r \in Rotators : rot[r].pc \notin {"swap", "file"}
<1> DEFINE x == [NoRot EXCEPT !.pc = "done", !.result = "error"]
<1>1. x \in RotType /\ x.pc = "done"
  BY DEF NoRot, RotType
<1>2. rot' = [r \in Rotators |-> IF rot[r].pc \in {"idle", "done"} THEN rot[r] ELSE x]
  BY DEF KeysCrash
<1>3. /\ keyFaults' \in 0 .. MaxKeyFaults /\ torn' \in BOOLEAN
      /\ current' = keyFile' /\ keyFile' \in {keyFile, None}
  BY KeyAssumption DEF KeysCrash, KeysTypeOK
<1>4. ~torn' => ~torn /\ keyFile' = keyFile /\ \A r \in Rotators : rot[r].pc \notin {"swap", "file"}
  BY DEF KeysCrash, KeysTypeOK
<1> HIDE DEF x
<1>5. QED
  BY <1>1, <1>2, <1>3, <1>4, RotationType

\* One action of the registry; a step is taken only by a server that runs.
LEMMA KeysSteps ==
  ASSUME KeysNext
  PROVE  /\ current # None
         /\ \/ \E h \in Hook : SealSecret(h) \/ InsertRow(h) \/ RemoveHook(h) \/ EnqueueDeliverySealed(h)
                               \/ ClaimDelivery(h)
            \/ \E r \in Rotators : BeginRotation(r) \/ CommitRotation(r) \/ SwapKey(r) \/ WriteKeyFile(r)
            \/ KeysCrash
  BY DEF KeysNext, HookStep, RotationStep

\* The rows, for the steps that add one and revoke one.
LEMMA InsertStep ==
  ASSUME KeysTypeOK, NEW h \in Hook, InsertRow(h)
  PROVE  /\ row' \in [Hook -> [key : drawn \cup {None}, state : {"absent", "live", "revoked"}]]
         /\ row'[h].key = sealed[h] /\ row'[h].state = "live" /\ sealed[h] # None
         /\ sealed' = [sealed EXCEPT ![h] = None]
         /\ \A g \in Hook \ {h} : row'[g] = row[g]
<1> DEFINE x == [key |-> sealed[h], state |-> "live"]
<1>1. x \in [key : drawn \cup {None}, state : {"absent", "live", "revoked"}] /\ x.key = sealed[h] /\ x.state = "live"
  BY DEF KeysTypeOK
<1>2. row' = [row EXCEPT ![h] = x] /\ sealed[h] # None /\ sealed' = [sealed EXCEPT ![h] = None]
  BY DEF InsertRow
<1> HIDE DEF x
<1>3. QED
  BY <1>1, <1>2 DEF KeysTypeOK

LEMMA RemoveStep ==
  ASSUME KeysTypeOK, NEW h \in Hook, RemoveHook(h)
  PROVE  /\ row' \in [Hook -> [key : drawn \cup {None}, state : {"absent", "live", "revoked"}]]
         /\ \A g \in Hook : row'[g].key = row[g].key /\ (row'[g].state = "absent" <=> row[g].state = "absent")
         /\ \A g \in Hook \ {h} : row'[g] = row[g]
         /\ row[h].state # "absent"
<1> DEFINE x == [row[h] EXCEPT !.state = "revoked"]
<1>1. /\ x \in [key : drawn \cup {None}, state : {"absent", "live", "revoked"}]
      /\ x.key = row[h].key /\ x.state = "revoked"
  BY RowKeyType
<1>2. row' = [row EXCEPT ![h] = x] /\ row[h].state = "live"
  BY DEF RemoveHook, LiveHooks
<1> HIDE DEF x
<1>3. QED
  BY <1>1, <1>2 DEF KeysTypeOK

\* Rows are not removed from the table.
LEMMA RowsGrow ==
  ASSUME KeysTypeOK, KeysFresh, [KeysNext]_keysVars
  PROVE  Rows \subseteq Rows'
<1>1. CASE UNCHANGED row
  BY <1>1 DEF Rows
<1>2. ASSUME NEW h \in Hook, InsertRow(h) PROVE Rows \subseteq Rows'
  BY <1>2, InsertStep DEF Rows
<1>3. ASSUME NEW h \in Hook, RemoveHook(h) PROVE Rows \subseteq Rows'
  BY <1>3, RemoveStep DEF Rows
<1>4. ASSUME NEW r \in Rotators, CommitRotation(r) PROVE Rows \subseteq Rows'
  BY <1>4, CommitStep DEF Rows
<1>5. QED
  BY <1>1, <1>2, <1>3, <1>4, KeysSteps
     DEF keysVars, SealSecret, EnqueueDeliverySealed, ClaimDelivery, BeginRotation, SwapKey, WriteKeyFile, KeysCrash

LEMMA KeysTypeInit == KeysInit => KeysTypeOK
<1> SUFFICES ASSUME KeysInit PROVE KeysTypeOK
  OBVIOUS
<1>1. NoRot \in RotType
  BY DEF NoRot, RotType
<1>2. row \in [Hook -> [key : drawn \cup {None}, state : {"absent", "live", "revoked"}]]
      /\ \A h \in Hook : row[h].key = None /\ row[h].state = "absent"
  BY NoRowIsAbsent DEF KeysInit
<1>3. torn \in BOOLEAN /\ keyFaults \in 0 .. MaxKeyFaults
  <2>1. torn = FALSE /\ keyFaults = 0
    BY DEF KeysInit
  <2>2. torn \in BOOLEAN
    BY <2>1, Zenon
  <2>3. QED
    BY <2>1, <2>2, KeyAssumption
<1>4. drawn \in SUBSET Key /\ current \in drawn /\ keyFile \in drawn
  BY DEF KeysInit
<1>5. /\ sealed \in [Hook -> drawn \cup {None}] /\ pending \in [Hook -> drawn \cup {None}]
      /\ rot \in [Rotators -> RotType] /\ fresh = {} /\ stale = {} /\ raced = {}
  BY <1>1 DEF KeysInit
<1>6. QED
  BY <1>2, <1>3, <1>4, <1>5 DEF KeysTypeOK

LEMMA KeysTypeStep ==
  ASSUME KeysTypeOK, KeysFresh, AddsSound, [KeysNext]_keysVars
  PROVE  KeysTypeOK'
<1> USE KeyAssumption
<1>0. CASE UNCHANGED keysVars
  BY <1>0 DEF KeysTypeOK, keysVars
<1>1. ASSUME NEW h \in Hook, SealSecret(h) PROVE KeysTypeOK'
  BY <1>1 DEF KeysTypeOK, SealSecret
<1>2. ASSUME NEW h \in Hook, InsertRow(h) PROVE KeysTypeOK'
  <2>1. \A g \in Hook : row'[g].key = None <=> row'[g].state = "absent"
    BY <1>2, InsertStep, RowKeyType
  <2>2. /\ raced' \in SUBSET Hook /\ stale' \in SUBSET Rotators /\ sealed' \in [Hook -> drawn \cup {None}]
        /\ UNCHANGED <<current, keyFile, drawn, pending, fresh, rot, torn, keyFaults>>
    BY <1>2 DEF InsertRow, Commit, KeysTypeOK
  <2>3. QED
    BY <1>2, <2>1, <2>2, InsertStep DEF KeysTypeOK
<1>3. ASSUME NEW h \in Hook, RemoveHook(h) PROVE KeysTypeOK'
  <2>1. \A g \in Hook : row'[g].key = None <=> row'[g].state = "absent"
    BY <1>3, RemoveStep, RowKeyType
  <2>2. /\ stale' \in SUBSET Rotators
        /\ UNCHANGED <<current, keyFile, drawn, sealed, pending, fresh, rot, raced, torn, keyFaults>>
    BY <1>3 DEF RemoveHook, Commit
  <2>3. QED
    BY <1>3, <2>1, <2>2, RemoveStep DEF KeysTypeOK
<1>4. ASSUME NEW h \in Hook, EnqueueDeliverySealed(h) PROVE KeysTypeOK'
  <2>1. row[h].key \in drawn \cup {None}
    BY RowKeyType
  <2>2. QED
    BY <1>4, <2>1 DEF KeysTypeOK, EnqueueDeliverySealed, Commit
<1>5. ASSUME NEW h \in Hook, ClaimDelivery(h) PROVE KeysTypeOK'
  BY <1>5 DEF KeysTypeOK, ClaimDelivery, Commit
<1>6. ASSUME NEW r \in Rotators, BeginRotation(r), current # None PROVE KeysTypeOK'
  <2>1. /\ stale' \in SUBSET Rotators
        /\ UNCHANGED <<current, keyFile, row, sealed, pending, fresh, raced, torn, keyFaults>>
    BY <1>6 DEF BeginRotation, KeysTypeOK
  <2>2. /\ rot' \in [Rotators -> RotType] /\ drawn' \in SUBSET Key /\ drawn \subseteq drawn'
    BY <1>6, BeginStep
  <2>3. row \in [Hook -> [key : drawn' \cup {None}, state : {"absent", "live", "revoked"}]]
    BY <2>2 DEF KeysTypeOK
  <2>4. sealed \in [Hook -> drawn' \cup {None}] /\ pending \in [Hook -> drawn' \cup {None}]
    BY <2>2 DEF KeysTypeOK
  <2>5. QED
    BY <2>1, <2>2, <2>3, <2>4 DEF KeysTypeOK
<1>7. ASSUME NEW r \in Rotators, CommitRotation(r) PROVE KeysTypeOK'
  <2>1. /\ stale' \in SUBSET Rotators
        /\ UNCHANGED <<current, keyFile, drawn, sealed, pending, raced, torn, keyFaults>>
    BY <1>7 DEF CommitRotation, Commit, KeysTypeOK
  <2>2. CASE UNCHANGED <<row, fresh>>
    BY <1>7, <2>1, <2>2, CommitStep DEF KeysTypeOK
  <2>3. CASE ~UNCHANGED <<row, fresh>>
    <3>1. rot[r].new \in Key /\ rot[r].new # None /\ rot[r].rows \subseteq Rows
      BY <1>7, CommitStep DEF KeysFresh, Active, KeysTypeOK
    <3>2. \A g \in Hook : row'[g].key = None <=> row'[g].state = "absent"
      BY <1>7, <2>3, <3>1, CommitStep, RowKeyType
    <3>3. QED
      BY <1>7, <2>1, <2>3, <3>2, CommitStep DEF KeysTypeOK
  <2>4. QED
    BY <2>2, <2>3
<1>8. ASSUME NEW r \in Rotators, SwapKey(r) PROVE KeysTypeOK'
  <2>1. rot[r].new \in drawn
    BY <1>8 DEF SwapKey, KeysFresh, Active
  <2>2. rot' \in [Rotators -> RotType]
    BY <1>8, RotationGoes DEF SwapKey
  <2>3. raced' \in SUBSET Hook /\ torn' \in BOOLEAN /\ current' \in drawn
    BY <1>8, <2>1 DEF SwapKey, Rows, KeysTypeOK
  <2>4. QED
    BY <1>8, <2>2, <2>3 DEF SwapKey, KeysTypeOK
<1>9. ASSUME NEW r \in Rotators, WriteKeyFile(r) PROVE KeysTypeOK'
  <2>1. rot[r].new \in drawn
    BY <1>9 DEF WriteKeyFile, KeysFresh, Active
  <2>2. rot' \in [Rotators -> RotType]
    BY <1>9, RotationEnds DEF WriteKeyFile
  <2>3. keyFile' \in drawn \cup {None} /\ keyFaults' \in 0 .. MaxKeyFaults
    BY <1>9, <2>1 DEF WriteKeyFile, KeysTypeOK
  <2>4. torn' \in BOOLEAN
    BY <1>9, Zenon DEF WriteKeyFile, KeysTypeOK
  <2>5. UNCHANGED <<current, drawn, row, sealed, pending, fresh, stale, raced>>
    BY <1>9 DEF WriteKeyFile
  <2>6. QED
    BY <2>2, <2>3, <2>4, <2>5 DEF KeysTypeOK
<1>10. CASE KeysCrash
  <2>1. UNCHANGED <<drawn, row, pending, fresh, raced>> /\ stale' = {} /\ sealed' = [h \in Hook |-> None]
    BY <1>10 DEF KeysCrash
  <2>2. QED
    BY <1>10, <2>1, KeysCrashStep DEF KeysTypeOK
<1>11. QED
  BY <1>0, <1>1, <1>2, <1>3, <1>4, <1>5, <1>6, <1>7, <1>8, <1>9, <1>10, KeysSteps

LEMMA KeysFreshStep ==
  ASSUME KeysTypeOK, KeysFresh, [KeysNext]_keysVars
  PROVE  KeysFresh'
<1> USE DEF Active, Ahead
<1>a. Rows \subseteq Rows'
  BY RowsGrow
<1>1. CASE UNCHANGED <<rot, drawn, current>>
  BY <1>a, <1>1 DEF KeysFresh
<1>2. ASSUME NEW r \in Rotators, BeginRotation(r), current # None PROVE KeysFresh'
  <2>1. UNCHANGED current
    BY <1>2 DEF BeginRotation
  <2>2. ASSUME NEW s \in Rotators
        PROVE  Active(s)' => rot'[s].new \in drawn' /\ rot'[s].old \in drawn' /\ rot'[s].rows \subseteq Rows'
    BY <1>a, <1>2, <2>1, BeginStep DEF KeysFresh
  <2>3. ASSUME NEW s \in Rotators PROVE Ahead(s)' => rot'[s].new # current'
    BY <1>2, <2>1, BeginStep DEF KeysFresh
  <2>4. ASSUME NEW s \in Rotators, NEW t \in Rotators
        PROVE  /\ Active(s)' /\ Active(t)' /\ s # t => rot'[t].new # rot'[s].new
               /\ Ahead(s)' /\ Ahead(t)' => rot'[t].old # rot'[s].new
    BY <1>2, BeginStep DEF KeysFresh
  <2>5. QED
    BY <2>2, <2>3, <2>4 DEF KeysFresh
\* The rotations that go on keep what they have, and no key becomes current
\* that one of them has still to swap in.
<1>3. ASSUME NEW r \in Rotators, UNCHANGED drawn,
             \A s \in Rotators \ {r} : rot'[s] = rot[s],
             rot'[r].pc = "done" \/ (/\ Active(r) /\ Active(r)'
                                     /\ Ahead(r)' => Ahead(r)
                                     /\ rot'[r].old = rot[r].old /\ rot'[r].new = rot[r].new
                                     /\ rot'[r].rows = rot[r].rows),
             \/ UNCHANGED current
             \/ Active(r) /\ ~Ahead(r)' /\ current' = rot[r].new
      PROVE  KeysFresh'
  <2>1. ASSUME NEW s \in Rotators
        PROVE  /\ Active(s)' => Active(s) /\ rot'[s].old = rot[s].old /\ rot'[s].new = rot[s].new
                                /\ rot'[s].rows = rot[s].rows
               /\ Ahead(s)' => Ahead(s)
    BY <1>3
  <2>2. ASSUME NEW s \in Rotators PROVE Ahead(s)' => rot'[s].new # current'
    BY <1>3, <2>1 DEF KeysFresh
  <2>3. ASSUME NEW s \in Rotators
        PROVE  Active(s)' => rot'[s].new \in drawn' /\ rot'[s].old \in drawn' /\ rot'[s].rows \subseteq Rows'
    BY <1>a, <1>3, <2>1 DEF KeysFresh
  <2>4. ASSUME NEW s \in Rotators, NEW t \in Rotators
        PROVE  /\ Active(s)' /\ Active(t)' /\ s # t => rot'[t].new # rot'[s].new
               /\ Ahead(s)' /\ Ahead(t)' => rot'[t].old # rot'[s].new
    BY <2>1 DEF KeysFresh
  <2>5. QED
    BY <2>2, <2>3, <2>4 DEF KeysFresh
<1>4. ASSUME NEW r \in Rotators, CommitRotation(r) PROVE KeysFresh'
  <2>1. UNCHANGED <<drawn, current>>
    BY <1>4 DEF CommitRotation
  <2>2. QED
    BY <1>3, <1>4, <2>1, CommitStep
<1>5. ASSUME NEW r \in Rotators, SwapKey(r) PROVE KeysFresh'
  <2>1. UNCHANGED drawn /\ rot[r].pc = "swap" /\ current' = rot[r].new /\ rot' = [rot EXCEPT ![r].pc = "file"]
    BY <1>5 DEF SwapKey
  <2>2. QED
    BY <1>3, <2>1, RotationGoes
<1>6. ASSUME NEW r \in Rotators, WriteKeyFile(r) PROVE KeysFresh'
  <2>1. UNCHANGED <<drawn, current>>
    BY <1>6 DEF WriteKeyFile
  <2>2. rot'[r].pc = "done" /\ \A s \in Rotators \ {r} : rot'[s] = rot[s]
    BY <1>6, RotationEnds DEF WriteKeyFile
  <2>3. QED
    BY <1>3, <2>1, <2>2
<1>7. CASE KeysCrash
  BY <1>7, KeysCrashStep DEF KeysFresh
<1>8. ASSUME NEW h \in Hook, SealSecret(h) \/ InsertRow(h) \/ RemoveHook(h) \/ EnqueueDeliverySealed(h)
                             \/ ClaimDelivery(h)
      PROVE  UNCHANGED <<rot, drawn, current>>
  BY <1>8 DEF SealSecret, InsertRow, RemoveHook, EnqueueDeliverySealed, ClaimDelivery
<1>9. QED
  BY <1>1, <1>2, <1>4, <1>5, <1>6, <1>7, <1>8, KeysSteps DEF keysVars

LEMMA AddsStep ==
  ASSUME KeysTypeOK, KeysFresh, AddsSound, [KeysNext]_keysVars
  PROVE  AddsSound'
<1> USE RowKeyType, NoRowIsAbsent
<1>a. Rows \subseteq Rows'
  BY RowsGrow
<1>1. CASE UNCHANGED <<row, sealed, fresh>>
  BY <1>1 DEF AddsSound, Rows
<1>2. ASSUME NEW h \in Hook, SealSecret(h) PROVE AddsSound'
  BY <1>2 DEF AddsSound, SealSecret, Rows, KeysTypeOK
<1>3. ASSUME NEW h \in Hook, InsertRow(h) PROVE AddsSound'
  <2>1. UNCHANGED fresh
    BY <1>3 DEF InsertRow
  <2>2. QED
    BY <1>a, <1>3, <2>1, InsertStep DEF AddsSound, KeysTypeOK
<1>4. ASSUME NEW h \in Hook, RemoveHook(h) PROVE AddsSound'
  <2>1. UNCHANGED <<fresh, sealed>>
    BY <1>4 DEF RemoveHook
  <2>2. QED
    BY <1>a, <1>4, <2>1, RemoveStep DEF AddsSound
<1>5. ASSUME NEW h \in Hook, EnqueueDeliverySealed(h) PROVE AddsSound'
  BY <1>5 DEF AddsSound, EnqueueDeliverySealed, Rows, LiveHooks
<1>6. ASSUME NEW h \in Hook, ClaimDelivery(h) PROVE AddsSound'
  BY <1>6 DEF AddsSound, ClaimDelivery, Rows
<1>7. ASSUME NEW r \in Rotators, CommitRotation(r) PROVE AddsSound'
  <2>1. UNCHANGED sealed /\ rot[r].rows \subseteq Rows
    BY <1>7, CommitStep DEF CommitRotation, KeysFresh, Active
  <2>2. \A h \in Hook \ Rows : row'[h] = row[h]
    BY <1>7, <2>1, CommitStep
  <2>3. fresh' \subseteq fresh
    BY <1>7, CommitStep
  <2>4. QED
    BY <1>a, <2>1, <2>2, <2>3 DEF AddsSound
<1>8. CASE KeysCrash
  BY <1>8 DEF AddsSound, KeysCrash, Rows
<1>9. QED
  BY <1>1, <1>2, <1>3, <1>4, <1>5, <1>6, <1>7, <1>8, KeysSteps
     DEF keysVars, BeginRotation, SwapKey, WriteKeyFile

LEMMA ResealedStep ==
  ASSUME KeysTypeOK, KeysFresh, AddsSound, Resealed, [KeysNext]_keysVars
  PROVE  Resealed'
<1> USE RowKeyType, NoRowIsAbsent, RotationType
<1> SUFFICES ASSUME NEW r \in Rotators, rot'[r].pc = "swap"
             PROVE  /\ \A h \in rot'[r].rows : row'[h].key = rot'[r].new
                    /\ \A h \in rot'[r].rows \cap fresh' : pending'[h] = rot'[r].new
  BY DEF Resealed
<1> DEFINE Goal == /\ \A h \in rot'[r].rows : row'[h].key = rot'[r].new
                   /\ \A h \in rot'[r].rows \cap fresh' : pending'[h] = rot'[r].new
\* The rotation was there before, and nothing of it has changed.
<1>1. ASSUME rot'[r] = rot[r] PROVE /\ rot[r].rows \subseteq Rows /\ rot[r].rows \in SUBSET Hook
                                    /\ \A h \in rot[r].rows : row[h].key = rot[r].new
                                    /\ \A h \in rot[r].rows \cap fresh : pending[h] = rot[r].new
  BY <1>1 DEF Resealed, KeysFresh, Active
<1>2. ASSUME rot'[r] = rot[r], UNCHANGED <<row, pending, fresh>> PROVE Goal
  BY <1>1, <1>2
<1>3. ASSUME NEW h \in Hook, SealSecret(h) PROVE Goal
  BY <1>2, <1>3 DEF SealSecret
<1>4. ASSUME NEW h \in Hook, InsertRow(h) PROVE Goal
  <2>1. UNCHANGED <<rot, pending, fresh>> /\ h \notin Rows
    BY <1>4 DEF InsertRow, AddsSound
  <2>2. QED
    BY <1>1, <1>4, <2>1, InsertStep
<1>5. ASSUME NEW h \in Hook, RemoveHook(h) PROVE Goal
  <2>1. UNCHANGED <<rot, pending, fresh>>
    BY <1>5 DEF RemoveHook
  <2>2. QED
    BY <1>1, <1>5, <2>1, RemoveStep
<1>6. ASSUME NEW h \in Hook, EnqueueDeliverySealed(h) PROVE Goal
  <2>1. /\ UNCHANGED <<rot, row>> /\ fresh' = fresh \cup {h} /\ pending' = [pending EXCEPT ![h] = row[h].key]
    BY <1>6 DEF EnqueueDeliverySealed
  <2>2. QED
    BY <1>1, <2>1 DEF KeysTypeOK
<1>7. ASSUME NEW h \in Hook, ClaimDelivery(h) PROVE Goal
  <2>1. UNCHANGED <<rot, row>>
    BY <1>7 DEF ClaimDelivery
  <2>2. fresh' \subseteq fresh /\ \A g \in fresh' : pending'[g] = pending[g]
    BY <1>7 DEF ClaimDelivery, KeysTypeOK
  <2>3. QED
    BY <1>1, <2>1, <2>2
<1>8. ASSUME NEW s \in Rotators, BeginRotation(s), current # None PROVE Goal
  <2>1. UNCHANGED <<row, pending, fresh>> /\ rot'[r] = rot[r]
    BY <1>8, BeginStep DEF BeginRotation
  <2>2. QED
    BY <1>2, <2>1
\* A rotation that commits does not meet the rows of another one: they are
\* under a key that it has not read.
<1>9. ASSUME NEW s \in Rotators, CommitRotation(s) PROVE Goal
  <2>1. UNCHANGED pending
    BY <1>9 DEF CommitRotation
  <2>2. CASE UNCHANGED <<row, fresh>> /\ rot'[s].pc = "done"
    BY <1>2, <1>9, <2>1, <2>2, CommitStep
  <2>3. CASE r = s /\ rot'[s].pc # "done"
    BY <1>9, <2>3, CommitStep
  <2>4. CASE r # s /\ rot'[s].pc # "done"
    <3>1. rot'[r] = rot[r] /\ Unseals(s) /\ fresh' = {} /\ rot[s].pc = "read"
      BY <1>9, <2>4, CommitStep
    <3>2. rot[s].old # rot[r].new
      BY <3>1 DEF KeysFresh, Ahead
    <3>3. rot[s].rows \cap rot[r].rows = {}
      BY <1>1, <3>1, <3>2 DEF Unseals
    <3>4. \A h \in rot[r].rows : row'[h] = row[h]
      BY <1>1, <1>9, <2>4, <3>1, <3>3, CommitStep
    <3>5. QED
      BY <1>1, <3>1, <3>4
  <2>5. QED
    BY <1>9, <2>2, <2>3, <2>4, CommitStep
<1>10. ASSUME NEW s \in Rotators, SwapKey(s) PROVE Goal
  <2>1. UNCHANGED <<row, pending, fresh>> /\ rot' = [rot EXCEPT ![s].pc = "file"]
    BY <1>10 DEF SwapKey
  <2>2. rot'[r] = rot[r]
    BY <2>1, RotationGoes
  <2>3. QED
    BY <1>2, <2>1, <2>2
<1>11. ASSUME NEW s \in Rotators, WriteKeyFile(s) PROVE Goal
  <2>1. UNCHANGED <<row, pending, fresh>>
    BY <1>11 DEF WriteKeyFile
  <2>2. rot'[r] = rot[r]
    BY <1>11, RotationEnds DEF WriteKeyFile
  <2>3. QED
    BY <1>2, <2>1, <2>2
<1>12. CASE KeysCrash
  BY <1>12, KeysCrashStep
<1>13. CASE UNCHANGED keysVars
  BY <1>2, <1>13 DEF keysVars
<1>14. QED
  BY <1>3, <1>4, <1>5, <1>6, <1>7, <1>8, <1>9, <1>10, <1>11, <1>12, <1>13, KeysSteps

LEMMA UnderKeyStep ==
  ASSUME KeysTypeOK, KeysFresh, AddsSound, Resealed, UnderKey, FileAgrees, [KeysNext]_keysVars
  PROVE  UnderKey'
<1> USE RowKeyType, NoRowIsAbsent, RotationType
<1> SUFFICES ASSUME ~torn', \A r \in Rotators : rot'[r].pc # "swap"
             PROVE  /\ \A h \in Rows' \ raced' : row'[h].key = current'
                    /\ \A h \in fresh' \ raced' : pending'[h] = current'
  BY DEF UnderKey
<1> DEFINE Goal == /\ \A h \in Rows' \ raced' : row'[h].key = current'
                   /\ \A h \in fresh' \ raced' : pending'[h] = current'
<1>1. ASSUME ~torn, \A r \in Rotators : rot[r].pc # "swap"
      PROVE  /\ \A h \in Rows \ raced : row[h].key = current
             /\ \A h \in fresh \ raced : pending[h] = current
  BY <1>1 DEF UnderKey
<1>2. ASSUME ~torn, \A r \in Rotators : rot[r].pc # "swap", UNCHANGED <<row, pending, fresh, raced, current>>
      PROVE  Goal
  BY <1>1, <1>2 DEF Rows
<1>3. ASSUME NEW h \in Hook, SealSecret(h) PROVE Goal
  BY <1>2, <1>3 DEF SealSecret
<1>4. ASSUME NEW h \in Hook, InsertRow(h) PROVE Goal
  <2>1. /\ UNCHANGED <<rot, torn, pending, fresh, current>> /\ raced \subseteq raced'
        /\ sealed[h] = current \/ h \in raced'
    BY <1>4 DEF InsertRow
  <2>2. Rows' \subseteq Rows \cup {h} /\ Rows \subseteq Hook
    BY <1>4, InsertStep DEF Rows
  <2>3. QED
    <3>1. ~torn /\ \A r \in Rotators : rot[r].pc # "swap"
      BY <2>1
    <3>2. ASSUME NEW g \in Rows' \ raced' PROVE row'[g].key = current'
      BY <1>1, <1>4, <2>1, <2>2, <3>1, InsertStep
    <3>3. QED
      BY <1>1, <2>1, <3>1, <3>2
<1>5. ASSUME NEW h \in Hook, RemoveHook(h) PROVE Goal
  <2>1. UNCHANGED <<rot, torn, pending, fresh, current, raced>>
    BY <1>5 DEF RemoveHook
  <2>2. Rows' \subseteq Rows
    BY <1>5, RemoveStep DEF Rows
  <2>3. QED
    BY <1>1, <1>5, <2>1, <2>2, RemoveStep DEF AddsSound, Rows
<1>6. ASSUME NEW h \in Hook, EnqueueDeliverySealed(h) PROVE Goal
  <2>1. /\ UNCHANGED <<rot, torn, row, current, raced>> /\ fresh' = fresh \cup {h} /\ h \in Rows
        /\ pending' = [pending EXCEPT ![h] = row[h].key]
    BY <1>6 DEF EnqueueDeliverySealed, Rows, LiveHooks
  <2>2. QED
    BY <1>1, <2>1 DEF KeysTypeOK, Rows
<1>7. ASSUME NEW h \in Hook, ClaimDelivery(h) PROVE Goal
  <2>1. UNCHANGED <<rot, torn, row, current, raced>>
    BY <1>7 DEF ClaimDelivery
  <2>2. fresh' \subseteq fresh /\ \A g \in fresh' : pending'[g] = pending[g]
    BY <1>7 DEF ClaimDelivery, KeysTypeOK
  <2>3. QED
    BY <1>1, <2>1, <2>2 DEF Rows
<1>8. ASSUME NEW s \in Rotators, BeginRotation(s), current # None PROVE Goal
  <2>1. UNCHANGED <<row, pending, fresh, raced, current, torn>>
    BY <1>8 DEF BeginRotation
  <2>2. \A r \in Rotators : rot[r].pc # "swap"
    BY <1>8, BeginStep
  <2>3. QED
    BY <1>2, <2>1, <2>2
<1>9. ASSUME NEW s \in Rotators, CommitRotation(s) PROVE Goal
  <2>1. UNCHANGED <<pending, raced, current, torn>>
    BY <1>9 DEF CommitRotation
  <2>2. UNCHANGED <<row, fresh>> /\ \A r \in Rotators : rot[r].pc # "swap"
    BY <1>9, CommitStep
  <2>3. QED
    BY <1>2, <2>1, <2>2
\* After the swap the rows of the rotation are under the new key, and the
\* others are known to have raced it.
<1>10. ASSUME NEW s \in Rotators, SwapKey(s) PROVE Goal
  <2>1. /\ UNCHANGED <<row, pending, fresh>> /\ current' = rot[s].new /\ rot[s].pc = "swap"
        /\ raced' = raced \cup (Rows \ rot[s].rows)
    BY <1>10 DEF SwapKey
  <2>2. QED
    BY <2>1 DEF Resealed, AddsSound, Rows
<1>11. ASSUME NEW s \in Rotators, WriteKeyFile(s) PROVE Goal
  <2>1. UNCHANGED <<row, pending, fresh, raced, current>> /\ rot[s].pc = "file"
    BY <1>11 DEF WriteKeyFile
  <2>2. ~torn
    BY <1>11 DEF WriteKeyFile, KeysTypeOK
  <2>3. \A r \in Rotators : rot[r].pc # "swap"
    BY <1>11, <2>1, RotationEnds DEF WriteKeyFile
  <2>4. QED
    BY <1>2, <2>1, <2>2, <2>3
<1>12. CASE KeysCrash
  <2>1. UNCHANGED <<row, pending, fresh, raced>>
    BY <1>12 DEF KeysCrash
  <2>2. /\ ~torn /\ \A r \in Rotators : rot[r].pc \notin {"swap", "file"}
        /\ current' = keyFile
    BY <1>12, KeysCrashStep
  <2>3. current' = current
    BY <2>2 DEF FileAgrees
  <2>4. QED
    BY <1>2, <2>1, <2>2, <2>3
<1>13. CASE UNCHANGED keysVars
  BY <1>2, <1>13 DEF keysVars
<1>14. QED
  BY <1>3, <1>4, <1>5, <1>6, <1>7, <1>8, <1>9, <1>10, <1>11, <1>12, <1>13, KeysSteps

LEMMA FileAgreesStep ==
  ASSUME KeysTypeOK, KeysFresh, FileAgrees, [KeysNext]_keysVars
  PROVE  FileAgrees'
<1> USE RotationType
<1> SUFFICES ASSUME ~torn', \A r \in Rotators : rot'[r].pc \notin {"swap", "file"}
             PROVE  keyFile' = current'
  BY DEF FileAgrees
<1>1. ASSUME ~torn, \A r \in Rotators : rot[r].pc \notin {"swap", "file"}, UNCHANGED <<keyFile, current>>
      PROVE  keyFile' = current'
  BY <1>1 DEF FileAgrees
<1>2. ASSUME NEW h \in Hook, SealSecret(h) \/ InsertRow(h) \/ RemoveHook(h) \/ EnqueueDeliverySealed(h)
                             \/ ClaimDelivery(h)
      PROVE  UNCHANGED <<keyFile, current, torn, rot>>
  BY <1>2 DEF SealSecret, InsertRow, RemoveHook, EnqueueDeliverySealed, ClaimDelivery
<1>3. ASSUME NEW s \in Rotators, BeginRotation(s), current # None PROVE keyFile' = current'
  <2>1. UNCHANGED <<keyFile, current, torn>>
    BY <1>3 DEF BeginRotation
  <2>2. \A r \in Rotators : rot[r].pc \notin {"swap", "file"}
    BY <1>3, BeginStep
  <2>3. QED
    BY <1>1, <2>1, <2>2
<1>4. ASSUME NEW s \in Rotators, CommitRotation(s) PROVE keyFile' = current'
  <2>1. UNCHANGED <<keyFile, current, torn>>
    BY <1>4 DEF CommitRotation
  <2>2. \A r \in Rotators : rot[r].pc \notin {"swap", "file"}
    BY <1>4, CommitStep
  <2>3. QED
    BY <1>1, <2>1, <2>2
<1>5. ASSUME NEW s \in Rotators, SwapKey(s) PROVE FALSE
  BY <1>5, RotationGoes DEF SwapKey
<1>6. ASSUME NEW s \in Rotators, WriteKeyFile(s) PROVE keyFile' = current'
  BY <1>6 DEF WriteKeyFile
<1>7. CASE KeysCrash
  BY <1>7, KeysCrashStep
<1>8. QED
  BY <1>1, <1>2, <1>3, <1>4, <1>5, <1>6, <1>7, KeysSteps DEF keysVars

LEMMA KeysInitInvariant == KeysInit => KeysIInv
<1> SUFFICES ASSUME KeysInit PROVE KeysIInv
  OBVIOUS
<1>1. KeysTypeOK
  BY KeysTypeInit
<1>2. \A r \in Rotators : rot[r].pc = "idle"
  BY DEF KeysInit, NoRot
<1>3. Rows = {} /\ fresh = {} /\ keyFile = current /\ \A h \in Hook : sealed[h] = None
  BY NoRowIsAbsent DEF KeysInit, Rows
<1>4. QED
  BY <1>1, <1>2, <1>3
     DEF KeysIInv, KeysFresh, AddsSound, Resealed, UnderKey, FileAgrees, Active, Ahead

LEMMA KeysStepInvariant == KeysIInv /\ [KeysNext]_keysVars => KeysIInv'
  BY KeysTypeStep, KeysFreshStep, AddsStep, ResealedStep, UnderKeyStep, FileAgreesStep DEF KeysIInv

\* Keys, rows, deliveries and rotations agree in every state, for any number
\* of subscriptions, rotations that cross, refused writes and crashes.
THEOREM KeysInvariance == KeysSpec => []KeysIInv
  BY KeysInitInvariant, KeysStepInvariant, PTL DEF KeysSpec

\* Every variable of the keys keeps its type; no row, delivery or key file
\* ever holds a key that was not drawn.
THEOREM KeysTypeCorrect == KeysSpec => []KeysTypeOK
  BY KeysInvariance, PTL DEF KeysIInv

\* rotate_master_key: stored secrets open with the current key through any
\* number of rotations, but for the adds that raced a swap and a torn state.
THEOREM SecretsStayReadable == KeysSpec => []SecretsReadable
<1>1. KeysIInv => SecretsReadable
  BY DEF KeysIInv, UnderKey, SecretsReadable, Settled
<1>2. QED
  BY <1>1, KeysInvariance, PTL

\* admin_rotate_webhook_key and load_or_generate: unless torn, a restart
\* reads the key that is in memory.
THEOREM RestartsKeepKey == KeysSpec => []RestartKeepsKey
<1>1. KeysIInv => RestartKeepsKey
  BY DEF KeysIInv, FileAgrees, RestartKeepsKey, Settled
<1>2. QED
  BY <1>1, KeysInvariance, PTL

\* enqueue_delivery: what was enqueued since the last rotation committed is
\* signed, though rotation does not re-seal the deliveries.
THEOREM FreshDeliveriesSigned == KeysSpec => []DeliveriesSigned
<1>1. KeysIInv => DeliveriesSigned
  BY DEF KeysIInv, UnderKey, DeliveriesSigned, Settled
<1>2. QED
  BY <1>1, KeysInvariance, PTL
============================================================================
