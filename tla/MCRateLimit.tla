----------------------------- MODULE MCRateLimit ----------------------------
(***************************************************************************)
(* What a client or a load balancer is told: to wait, or to go elsewhere.  *)
(* The limiter and the readiness endpoint share no state: each behaviour   *)
(* runs one of the two and leaves the other as it starts.                  *)
(*                                                                         *)
(* Limiter: a bucket of two calls that fills in the time after which it is *)
(* evicted, and seconds that are no multiple of a token.  Readiness: two   *)
(* probes to take the server out, stores that fall ill and heal, checks    *)
(* that take longer than their deadline and a probe that gives up.         *)
(***************************************************************************)
EXTENDS RateLimit, Readiness, TLC

VARIABLE who

MCInit ==
    /\ who \in {"limiter", "probe"}
    /\ Init
    /\ ReadyInit /\ (who = "limiter" => writeCheck)

MCNext ==
    /\ UNCHANGED who
    /\ \/ who = "limiter" /\ Next /\ UNCHANGED readyVars
       \/ who = "probe" /\ ReadyNext /\ UNCHANGED vars

MCSpec == MCInit /\ [][MCNext]_<<vars, readyVars, who>>

Symmetry == Permutations(Caller) \cup Permutations(Thread)
=============================================================================
