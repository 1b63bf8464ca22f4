----------------------------- MODULE Readiness -----------------------------
(***************************************************************************)
(* GET /v1/health/ready, the stores it probes, the drain that SIGTERM      *)
(* starts, and the orchestrator that asks.                                 *)
(*                                                                         *)
(* Time passes in ticks.  A check of a store takes up to CheckMax of them, *)
(* the busy timeout of SQLite and the wait for a connection.  The deadline *)
(* that probe_stores sets does not cut it short: the SQLite stores never   *)
(* yield, so tokio's timeout sees a future that is ready when it first     *)
(* looks, however late.  A check that is sick fails.                       *)
(*                                                                         *)
(* The orchestrator is not in the repository: it asks every Period ticks,  *)
(* a probe without an answer after ProbeTimeout ticks has failed,          *)
(* Threshold failures in a row take the server out of rotation and one     *)
(* success puts it back (deploy/k8s/deployment.yaml).                      *)
(***************************************************************************)
EXTENDS Naturals, Sequences, Functions

CONSTANTS WriteChecks,   \* readiness_write_check: on, off
          CheckMax,      \* the longest a check takes
          CheckDeadline, \* deadline, one second
          DrainDelay,    \* drain_delay
          Period, ProbeTimeout, Threshold,
          MaxTurns       \* bound on the falling ill and healing of stores

ASSUME ReadinessAssumption ==
    /\ WriteChecks \subseteq BOOLEAN
    /\ CheckMax \in Nat
    /\ CheckDeadline \in Nat \ {0}
    /\ DrainDelay \in Nat
    /\ Threshold \in Nat \ {0}
    /\ ProbeTimeout \in Nat \ {0}
    /\ Period \in Nat /\ Period >= ProbeTimeout
    /\ MaxTurns \in Nat

VARIABLES
    writeCheck,  \* cfg.readiness_write_check
    sick,        \* the checks that do not succeed
    draining,    \* runtime.draining
    delay,       \* ticks until the listener closes, once draining
    probe,       \* the request in flight: the locals of probe_stores
    kubelet,     \* the orchestrator
    unfit,       \* history: for how long each cause has lasted
    turns        \* what is left of MaxTurns

readyVars == <<writeCheck, sick, draining, delay, probe, kubelet, unfit, turns>>

Op == {"read", "write"}
Check == {"tokens", "audit", "ownership"} \X Op
Drain == <<"drain", "flag">>
Cause == Check \cup {Drain}

(* Every read comes before any write.                                      *)
Checks(write) ==
    LET of(op) == <<<<"tokens", op>>, <<"audit", op>>, <<"ownership", op>>>>
    IN  IF write THEN of("read") \o of("write") ELSE of("read")

(* A cause the server can see takes it out of rotation within its window.  *)
PullWindow(cause) == Threshold * Period + (IF cause = Drain THEN 0 ELSE ProbeTimeout)
Forever == Threshold * Period + ProbeTimeout + 1

NoProbe == [on |-> FALSE, todo |-> <<>>, ok |-> TRUE, late |-> FALSE,
            spent |-> 0, age |-> 0]

ReadyTypeOK ==
    /\ writeCheck \in BOOLEAN
    /\ sick \subseteq Check
    /\ draining \in BOOLEAN
    /\ delay \in 0..DrainDelay
    /\ probe \in [on : BOOLEAN, todo : Seq(Check), ok : BOOLEAN, late : BOOLEAN,
                  spent : 0..CheckMax, age : 0..ProbeTimeout]
    /\ kubelet \in [routed : BOOLEAN, fails : 0..Threshold, wait : 0..Period]
    /\ unfit \in [Cause -> 0..Forever]
    /\ turns \in 0..MaxTurns

ReadyInit ==
    /\ writeCheck \in WriteChecks
    /\ sick = {}
    /\ draining = FALSE
    /\ delay = DrainDelay
    /\ probe = NoProbe
    /\ kubelet = [routed |-> FALSE, fails |-> 0, wait |-> 0]
    /\ unfit = [c \in Cause |-> 0]
    /\ turns = MaxTurns

Refusing == draining /\ delay = 0

(* The first success puts the server in rotation, too.                     *)
Report(ok, k) ==
    IF ok THEN [k EXCEPT !.fails = 0, !.routed = TRUE]
    ELSE LET n == IF k.fails < Threshold THEN k.fails + 1 ELSE Threshold
         IN  [k EXCEPT !.fails = n, !.routed = @ /\ n < Threshold]

(* A bug: the drain flag is not looked at.                                 *)
AskStores ==
    /\ ~probe.on /\ kubelet.wait = 0
    /\ LET k == [kubelet EXCEPT !.wait = Period]
       IN  IF Refusing
           THEN kubelet' = Report(FALSE, k) /\ UNCHANGED probe
           ELSE /\ kubelet' = k
                /\ probe' = [NoProbe EXCEPT !.on = TRUE, !.todo = Checks(writeCheck)]
    /\ UNCHANGED <<writeCheck, sick, draining, delay, unfit, turns>>

(* health_ready: a server that drains answers 503 before it looks at its   *)
(* stores; a listener that is closed refuses the connection.               *)
HealthReady ==
    /\ ~probe.on /\ kubelet.wait = 0
    /\ LET k == [kubelet EXCEPT !.wait = Period]
       IN  IF draining
           THEN kubelet' = Report(FALSE, k) /\ UNCHANGED probe
           ELSE /\ kubelet' = k
                /\ probe' = [NoProbe EXCEPT !.on = TRUE, !.todo = Checks(writeCheck)]
    /\ UNCHANGED <<writeCheck, sick, draining, delay, unfit, turns>>

(* probe_stores: one check after the other, and a failure does not end it. *)
CheckStore ==
    /\ probe.on /\ probe.todo # <<>>
    /\ probe' = [probe EXCEPT !.todo = Tail(@), !.spent = 0,
                              !.ok = @ /\ Head(probe.todo) \notin sick,
                              !.late = @ \/ probe.spent > CheckDeadline]
    /\ UNCHANGED <<writeCheck, sick, draining, delay, kubelet, unfit, turns>>

Answer ==
    /\ probe.on /\ probe.todo = <<>>
    /\ kubelet' = Report(probe.ok, kubelet)
    /\ probe' = NoProbe
    /\ UNCHANGED <<writeCheck, sick, draining, delay, unfit, turns>>

(* The orchestrator gives up: it counts a failure.                         *)
ProbeTimesOut ==
    /\ probe.on /\ probe.age = ProbeTimeout
    /\ kubelet' = Report(FALSE, kubelet)
    /\ probe' = NoProbe
    /\ UNCHANGED <<writeCheck, sick, draining, delay, unfit, turns>>

(* shutdown_signal, up to the moment the listener is told to stop.         *)
ShutdownSignal ==
    /\ ~draining
    /\ draining' = TRUE
    /\ UNCHANGED <<writeCheck, sick, delay, probe, kubelet, unfit, turns>>

FallIll(c) ==
    /\ turns > 0 /\ c \notin sick
    /\ sick' = sick \cup {c}
    /\ turns' = turns - 1
    /\ UNCHANGED <<writeCheck, draining, delay, probe, kubelet, unfit>>

Heal(c) ==
    /\ turns > 0 /\ c \in sick
    /\ sick' = sick \ {c}
    /\ unfit' = [unfit EXCEPT ![c] = 0]
    /\ turns' = turns - 1
    /\ UNCHANGED <<writeCheck, draining, delay, probe, kubelet>>

(* A tick waits for whatever is due: the next probe, the end of a check,   *)
(* an answer, the patience of the orchestrator.                            *)
PassTime ==
    /\ probe.on => /\ probe.todo # <<>>
                   /\ probe.spent < CheckMax
                   /\ probe.age < ProbeTimeout
    /\ ~probe.on => kubelet.wait > 0
    /\ probe' = IF probe.on THEN [probe EXCEPT !.spent = @ + 1, !.age = @ + 1] ELSE probe
    /\ kubelet' = [kubelet EXCEPT !.wait = IF @ > 0 THEN @ - 1 ELSE 0]
    /\ delay' = IF draining /\ delay > 0 THEN delay - 1 ELSE delay
    /\ unfit' = [c \in Cause |->
           IF (c = Drain /\ draining) \/ c \in sick
           THEN IF unfit[c] < Forever THEN unfit[c] + 1 ELSE Forever
           ELSE 0]
    /\ UNCHANGED <<writeCheck, sick, draining, turns>>

ReadyNext ==
    \/ HealthReady \/ CheckStore \/ Answer \/ ProbeTimesOut
    \/ ShutdownSignal \/ PassTime
    \/ \E c \in Check : FallIll(c) \/ Heal(c)

ReadySpec == ReadyInit /\ [][ReadyNext]_readyVars

-----------------------------------------------------------------------------

(* A server that drains, or one of whose checked stores has failed all     *)
(* along, is out of rotation by the end of its window, though a probe that *)
(* was in flight when it began may still succeed and start the count anew; *)
(* so, with a drain delay longer than the window, no request is routed to  *)
(* a listener that refuses it.                                             *)
PulledBeforeRefusal ==
    /\ \A c \in Range(Checks(writeCheck)) \cup {Drain} :
           unfit[c] > PullWindow(c) => ~kubelet.routed
    /\ Refusing /\ DrainDelay > PullWindow(Drain) => ~kubelet.routed

(* What the comment of health_ready says: a store that is slow but not     *)
(* broken fails closed.  The code does not do this.                        *)
SlowFailsClosed == probe.late => ~probe.ok

=============================================================================
