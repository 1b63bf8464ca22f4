---------------------------- MODULE TokenBucket -----------------------------
(***************************************************************************)
(* What a rate limiter promises: one bucket for every caller, full at      *)
(* first, that fills by one unit per unit of time up to Cap, and out of    *)
(* which each admitted call takes Cost.  It forgets no caller.  With every *)
(* call it may be up to Credit too generous: with a Credit of zero it is   *)
(* the bucket of the textbook.                                             *)
(***************************************************************************)
EXTENDS Integers

CONSTANTS Caller, Cap, Cost, Credit

VARIABLES level,   \* Caller -> what is in the bucket
          spent    \* Caller -> what was let through since it was last counted

Smaller(a, b) == IF a <= b THEN a ELSE b

Init ==
  /\ level = [k \in Caller |-> Cap]
  /\ spent = [k \in Caller |-> 0]

Fill ==
  /\ level' = [k \in Caller |-> Smaller(Cap, level[k] + 1)]
  /\ UNCHANGED spent

\* The bucket of k holds n, or a credit more.
Leave(k, n) ==
  \E c \in 0 .. Credit : level' = [level EXCEPT ![k] = Smaller(Cap, n + c)]

\* A call is admitted only if the bucket holds its cost ...
Admit(k) ==
  /\ level[k] >= Cost
  /\ Leave(k, level[k] - Cost)
  /\ spent' = [spent EXCEPT ![k] = @ + Cost]

\* ... and refused only if it would not without the credit.
Refuse(k) ==
  /\ level[k] < Cost + Credit
  /\ Leave(k, level[k])
  /\ UNCHANGED spent

\* The count starts anew at any time.
Recount(k) == spent' = [spent EXCEPT ![k] = 0] /\ UNCHANGED level

\* A new process starts with full buckets.
Refill ==
  /\ level' = [k \in Caller |-> Cap]
  /\ spent' = [k \in Caller |-> 0]

Next ==
  \/ Fill \/ Refill
  \/ \E k \in Caller : Admit(k) \/ Refuse(k) \/ Recount(k)

Spec == Init /\ [][Next]_<<level, spent>>
=============================================================================
