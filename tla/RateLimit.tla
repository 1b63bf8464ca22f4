----------------------------- MODULE RateLimit ------------------------------
(***************************************************************************)
(* The rate limiters, rate_limit.rs (one bucket per subject and class of   *)
(* endpoint) and ip_rate_limit.rs (one per peer address); both are the     *)
(* same code over different keys.  A bucket is made on the first call,     *)
(* brought up to date lazily on every later one, and dropped by a cleanup  *)
(* task when it has not been touched for a while.                          *)
(*                                                                         *)
(* A call reads the clock and then waits for the lock of the map.  Others  *)
(* may get it first: the bucket is then dated back to the earlier reading, *)
(* and the time between the two is credited to the caller twice.           *)
(*                                                                         *)
(* Time is counted in units in which one unit of tokens comes back, so     *)
(* that refill_per_sec is 1 and one call costs Cost units.                 *)
(***************************************************************************)
EXTENDS Integers

CONSTANTS Caller,    \* (subject, class), or IP address
          Thread,    \* calls that run at the same time
          Cap,       \* capacity
          Cost,      \* what a call takes: one whole token
          Sec,       \* the length of a second, in which Retry-After is given
          Stale,     \* stale_after of the cleanup task
          MaxWait,   \* the longest a call waits between clock and bucket
          MaxTime,   \* bound on the clock
          None

\* Every budget refills within stale_after: the slowest, 20 tokens at 10 a
\* minute, takes 120 of the 3600 seconds.
ASSUME BudgetAssumption ==
  /\ Cap \in Nat /\ Cost \in Nat \ {0} /\ Cost <= Cap
  /\ Sec \in Nat \ {0}
  /\ Stale \in Nat /\ Cap <= Stale
  /\ MaxWait \in Nat /\ MaxTime \in Nat

\* `None` stands for an absent map entry, and for no call.
ASSUME NoneAssumption ==
  /\ None \notin Nat
  /\ None \notin [tokens : Nat, last_refill : Nat]
  /\ None \notin [who : Caller, clock : Nat]

VARIABLES
    bucket,   \* Caller -> the Bucket in the map, or None
    now,      \* the monotonic clock
    call,     \* Thread -> who calls and the clock it has read, or None
    win,      \* Caller -> a window of time and what was admitted in it
    retry     \* Caller -> when the last refusal said to come back, or None

vars == <<bucket, now, call, win, retry>>

Bucket == [tokens : 0 .. Cap, last_refill : Nat]
Call == [who : Caller, clock : Nat]
\* late: the waits of the calls in the window, summed up.
Window == [since : Nat, spent : Nat, late : Nat]

Smaller(a, b) == IF a <= b THEN a ELSE b
Larger(a, b) == IF a >= b THEN a ELSE b

Opened == [since |-> now, spent |-> 0, late |-> 0]

Init ==
  /\ bucket = [k \in Caller |-> None]
  /\ now = 0
  /\ call = [c \in Thread |-> None]
  /\ win = [k \in Caller |-> Opened]
  /\ retry = [k \in Caller |-> None]

\* The tokens of a bucket at time t; a caller without one gets a full one.
\* duration_since is zero when the bucket is dated after t.
TokensAt(k, t) ==
  IF bucket[k] = None THEN Cap
  ELSE Smaller(Cap, bucket[k].tokens + Larger(0, t - bucket[k].last_refill))

Refilled(k) == TokensAt(k, now)

\* A bug: the seconds to wait are rounded down.
WaitDown(t) == Larger(((Cost - t) \div Sec) * Sec, Sec)

\* The wait until one token is there, in whole seconds, at least one.
Wait(t) == Larger(((Cost - t + Sec - 1) \div Sec) * Sec, Sec)

\* `check`: the clock is read ...
ReadClock(c) ==
  /\ call[c] = None
  /\ \E k \in Caller : call' = [call EXCEPT ![c] = [who |-> k, clock |-> now]]
  /\ UNCHANGED <<bucket, now, win, retry>>

\* ... and when the call has the entry, the bucket holds n as of that clock.
Settle(c, n) ==
  /\ bucket' = [bucket EXCEPT ![call[c].who] = [tokens |-> n, last_refill |-> call[c].clock]]
  /\ call' = [call EXCEPT ![c] = None]
  /\ UNCHANGED now

Waited(c) == now - call[c].clock

\* A bug: the bucket is charged but the refill is not dated.
AdmitUndated(c) ==
  /\ call[c] # None
  /\ LET k == call[c].who
         n == TokensAt(k, call[c].clock)
     IN /\ n >= Cost
        /\ bucket' = [bucket EXCEPT ![k] =
             [tokens |-> n - Cost,
              last_refill |-> IF bucket[k] = None THEN call[c].clock ELSE bucket[k].last_refill]]
        /\ win' = [win EXCEPT ![k].spent = @ + Cost, ![k].late = @ + Waited(c)]
        /\ retry' = [retry EXCEPT ![k] = None]
  /\ call' = [call EXCEPT ![c] = None]
  /\ UNCHANGED now

\* With a token in the bucket.
Admit(c) ==
  /\ call[c] # None
  /\ LET k == call[c].who
         n == TokensAt(k, call[c].clock)
     IN /\ n >= Cost
        /\ Settle(c, n - Cost)
        /\ win' = [win EXCEPT ![k].spent = @ + Cost, ![k].late = @ + Waited(c)]
        /\ retry' = [retry EXCEPT ![k] = None]

\* Without: 429 and Retry-After; the refill is kept.
Refuse(c) ==
  /\ call[c] # None
  /\ LET k == call[c].who
         n == TokensAt(k, call[c].clock)
     IN /\ n < Cost
        /\ Settle(c, n)
        /\ win' = [win EXCEPT ![k].late = @ + Waited(c)]
        /\ retry' = [retry EXCEPT ![k] = now + Wait(n)]

\* A bug: the cleanup drops a bucket whatever its age.
StalledAnyway(k) == bucket[k] # None

Stalled(k) == bucket[k] # None /\ now - bucket[k].last_refill >= Stale

\* `evict_stale` at one key: `retain` visits the entries one at a time.
Evict(k) ==
  /\ Stalled(k)
  /\ bucket' = [bucket EXCEPT ![k] = None]
  /\ UNCHANGED <<now, call, win, retry>>

\* The buckets are in memory only.
Restart ==
  /\ bucket' = [k \in Caller |-> None]
  /\ call' = [c \in Thread |-> None]
  /\ win' = [k \in Caller |-> Opened]
  /\ retry' = [k \in Caller |-> None]
  /\ UNCHANGED now

Tick ==
  /\ now < MaxTime
  /\ \A c \in Thread : call[c] # None => Waited(c) < MaxWait
  /\ now' = now + 1
  /\ UNCHANGED <<bucket, call, win, retry>>

\* Any moment may be taken as the start of a window.
OpenWindow(k) ==
  /\ win' = [win EXCEPT ![k] = Opened]
  /\ UNCHANGED <<bucket, now, call, retry>>

Next ==
  \/ Tick \/ Restart
  \/ \E c \in Thread : ReadClock(c) \/ Admit(c) \/ Refuse(c)
  \/ \E k \in Caller : Evict(k) \/ OpenWindow(k)

Spec == Init /\ [][Next]_vars

-----------------------------------------------------------------------------
(* Properties.                                                             *)

\* The type invariant.
TypeOK ==
  /\ bucket \in [Caller -> Bucket \cup {None}]
  /\ now \in Nat
  /\ call \in [Thread -> Call \cup {None}]
  /\ win \in [Caller -> Window]
  /\ retry \in [Caller -> Nat \cup {None}]

\* Buckets and windows are not of the future, and calls wait no longer than
\* they may.
Dated ==
  /\ \A k \in Caller :
       /\ bucket[k] # None => bucket[k].last_refill <= now
       /\ win[k].since <= now
  /\ \A c \in Thread : call[c] # None => call[c].clock <= now /\ Waited(c) <= MaxWait

\* check and evict_stale together: in every window, however it lies to the
\* calls and to the cleanups, a caller gets at most a full bucket, what flowed
\* in meanwhile, and as much again as its calls waited for the lock.
WindowBounded ==
  \A k \in Caller : win[k].spent <= Cap + (now - win[k].since) + win[k].late

\* The strengthening: what is left in the bucket counts as well.
WindowAccount ==
  \A k \in Caller : win[k].spent + Refilled(k) <= Cap + (now - win[k].since) + win[k].late

\* What rate_limit.rs says of a Budget: "capacity is the burst allowance;
\* refill_per_sec is the sustained throughput".
BurstAndRefill ==
  \A k \in Caller : win[k].spent <= Cap + (now - win[k].since)

\* Retry-After is honest: a caller that waited as long as the last refusal
\* said, and was not admitted since, is admitted, though refusals of late
\* calls may have set its bucket back meanwhile.
RetryAfterHonest ==
  \A k \in Caller : (retry[k] # None /\ retry[k] <= now) => Refilled(k) >= Cost

\* The strengthening: every unit short of a token is a unit of waiting.
RetryCovers ==
  \A k \in Caller :
    retry[k] # None =>
      Refilled(k) >= Cost \/ Refilled(k) + (retry[k] - now) >= Cost

\* The limiter with its lazy refill, its late calls and its evictions admits
\* and refuses as a bucket does that refills all the time and never forgets a
\* caller, but gives back up to MaxWait with every call.
Levels == [k \in Caller |-> Refilled(k)]
Spent == [k \in Caller |-> win[k].spent]
Lenient == INSTANCE TokenBucket WITH level <- Levels, spent <- Spent, Credit <- MaxWait
LenientBucket == Lenient!Spec
=============================================================================
