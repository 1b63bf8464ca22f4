----------------------------- MODULE EdgeProofs -----------------------------
(***************************************************************************)
(* Proofs about what clients and load balancers meet at the edge of the    *)
(* server: the readiness probe, for every timing of the orchestrator and   *)
(* of the stores; the event bus, for every number of events, clients and   *)
(* hooks and every capacity of the ring; and the rate limiters, for every  *)
(* capacity, cost and window of eviction, as long as a bucket refills      *)
(* before it may be evicted, and every wait of a call for its bucket.      *)
(***************************************************************************)
EXTENDS Readiness, EventBus, RateLimit, FiniteSetTheorems, TLAPS

(* The readiness probe.                                                    *)

Watched == Range(Checks(writeCheck)) \cup {Drain}

KubeletState == [routed : BOOLEAN, fails : 0 .. Threshold, wait : 0 .. Period]
ProbeState == [on : BOOLEAN, todo : Seq(Check), ok : BOOLEAN, late : BOOLEAN,
               spent : 0 .. CheckMax, age : 0 .. ProbeTimeout]

(* Ticks since the orchestrator asked, while it has no answer.             *)
Clocked == probe.on => kubelet.wait + probe.age = Period

Counted == kubelet.routed => kubelet.fails < Threshold

(* The probe in flight will fail unless the store heals.                   *)
Doomed(c) == c \in Range(probe.todo) \/ ~probe.ok

(* A cause that is not there has lasted for no time; one that the probe in *)
(* flight misses began after it.                                           *)
Seen ==
    /\ ~draining => unfit[Drain] = 0
    /\ \A c \in Check \ sick : unfit[c] = 0
    /\ probe.on => \A c \in Watched : c = Drain \/ ~Doomed(c) => unfit[c] <= probe.age

(* A server in rotation: a cause has lasted for one period more than it    *)
(* has made probes fail.                                                   *)
Periods(n) == n * Period

Due(c) ==
    IF probe.on THEN unfit[c] <= Periods(kubelet.fails + 1) + probe.age
    ELSE unfit[c] + kubelet.wait <= Periods(kubelet.fails + 1)

Pulled == kubelet.routed => \A c \in Watched : Due(c)

Delayed ==
    IF draining THEN unfit[Drain] >= Forever \/ unfit[Drain] + delay >= DrainDelay
    ELSE delay = DrainDelay

ReadyIInv == ReadyTypeOK /\ Clocked /\ Counted /\ Seen /\ Pulled /\ Delayed

----------------------------------------------------------------------------
LEMMA PeriodFacts ==
    /\ Period \in Nat /\ Threshold \in Nat \ {0}
    /\ \A n \in Nat : /\ Periods(n) \in Nat
                      /\ Periods(n + 1) = Periods(n) + Period
                      /\ Period <= Periods(n + 1)
    /\ \A n \in Nat : n < Threshold => Periods(n + 1) <= Periods(Threshold)
<1>1. Period \in Nat /\ Threshold \in Nat \ {0}
  BY ReadinessAssumption
<1>2. ASSUME NEW n \in Nat
      PROVE  Periods(n) \in Nat /\ Periods(n + 1) = Periods(n) + Period
  BY <1>1 DEF Periods
<1>3. ASSUME NEW n \in Nat PROVE Period <= Periods(n + 1)
  <2>1. Periods(n) \in Nat /\ Periods(n + 1) = Periods(n) + Period
    BY <1>2
  <2> QED  BY <1>1, <2>1
<1>4. ASSUME NEW n \in Nat, n < Threshold
      PROVE  Periods(n + 1) <= Periods(Threshold)
  <2>1. PICK d \in Nat : Threshold = (n + 1) + d
    <3>1. Threshold - (n + 1) \in Nat /\ Threshold = (n + 1) + (Threshold - (n + 1))
      BY <1>1, <1>4
    <3> QED  BY <3>1
  <2>2. ((n + 1) + d) * Period = (n + 1) * Period + d * Period
    BY <1>1
  <2>3. d * Period \in Nat /\ (n + 1) * Period \in Nat
    BY <1>1
  <2> QED  BY <2>1, <2>2, <2>3 DEF Periods
<1> QED  BY <1>1, <1>2, <1>3, <1>4

LEMMA ReportFacts ==
    ASSUME NEW ok \in BOOLEAN, NEW k \in KubeletState
    PROVE  /\ Report(ok, k) \in KubeletState
           /\ Report(ok, k).wait = k.wait
           /\ ok => Report(ok, k).fails = 0
           /\ ~ok /\ Report(ok, k).routed =>
                k.routed /\ Report(ok, k).fails = k.fails + 1 /\ Report(ok, k).fails < Threshold
<1>1. Threshold \in Nat \ {0}
  BY PeriodFacts
<1>2. k.fails \in 0 .. Threshold /\ k.routed \in BOOLEAN /\ k.wait \in 0 .. Period
  BY DEF KubeletState
<1>3. CASE ok
  <2>1. Report(ok, k) = [k EXCEPT !.fails = 0, !.routed = TRUE]
    BY <1>3 DEF Report
  <2>2. 0 \in 0 .. Threshold /\ TRUE \in BOOLEAN
    BY <1>1
  <2> QED  BY <1>3, <2>1, <2>2 DEF KubeletState
<1>4. CASE ~ok
  <2> DEFINE n == IF k.fails < Threshold THEN k.fails + 1 ELSE Threshold
             b == k.routed /\ n < Threshold
  <2>1. Report(ok, k) = [k EXCEPT !.fails = n, !.routed = b]
    BY <1>4 DEF Report, KubeletState
  <2>2. n \in 0 .. Threshold /\ (n < Threshold => n = k.fails + 1)
    BY <1>1, <1>2
  <2>3. b \in BOOLEAN
    OBVIOUS
  <2>4. b => k.routed /\ n < Threshold
    OBVIOUS
  <2> HIDE DEF n, b
  <2>5. /\ Report(ok, k) \in KubeletState /\ Report(ok, k).wait = k.wait
        /\ Report(ok, k).fails = n /\ Report(ok, k).routed = b
    BY <2>1, <2>2, <2>3 DEF KubeletState
  <2> QED  BY <1>4, <2>2, <2>4, <2>5
<1> QED  BY <1>3, <1>4

LEMMA ReadyFields ==
    ASSUME ReadyTypeOK
    PROVE  /\ probe \in ProbeState /\ kubelet \in KubeletState
           /\ probe.on \in BOOLEAN /\ probe.ok \in BOOLEAN /\ probe.todo \in Seq(Check)
           /\ probe.age \in Nat /\ probe.age <= ProbeTimeout
           /\ kubelet.fails \in Nat /\ kubelet.wait \in Nat /\ kubelet.wait <= Period
           /\ kubelet.routed \in BOOLEAN
           /\ \A c \in Cause : unfit[c] \in Nat /\ unfit[c] <= Forever
           /\ Forever \in Nat /\ ProbeTimeout \in Nat /\ ProbeTimeout <= Period
<1>1. /\ probe \in ProbeState /\ kubelet \in KubeletState
      /\ unfit \in [Cause -> 0 .. Forever]
  BY DEF ReadyTypeOK, ProbeState, KubeletState
<1>2. ProbeTimeout \in Nat /\ ProbeTimeout <= Period /\ Period \in Nat /\ Threshold \in Nat
  BY ReadinessAssumption
<1>3. Threshold * Period \in Nat
  BY PeriodFacts DEF Periods
<1>4. Forever \in Nat
  BY <1>2, <1>3 DEF Forever
<1> QED  BY <1>1, <1>2, <1>4 DEF ProbeState, KubeletState

LEMMA ChecksFacts ==
    ASSUME NEW w \in BOOLEAN
    PROVE  Checks(w) \in Seq(Check) /\ Range(Checks(w)) \subseteq Check
<1> DEFINE of(op) == <<<<"tokens", op>>, <<"audit", op>>, <<"ownership", op>>>>
<1>1. of("read") \in Seq(Check) /\ of("write") \in Seq(Check)
  BY DEF Check, Op
<1>2. Checks(w) = IF w THEN of("read") \o of("write") ELSE of("read")
  BY DEF Checks
<1> HIDE DEF of
<1>3. Checks(w) \in Seq(Check)
  BY <1>1, <1>2
<1>4. \A i \in DOMAIN Checks(w) : Checks(w)[i] \in Check
  BY <1>3
<1> QED  BY <1>3, <1>4 DEF Range

LEMMA WatchedAreCauses == ASSUME ReadyTypeOK PROVE Watched \subseteq Cause
BY ChecksFacts DEF Watched, Cause, ReadyTypeOK

(* The orchestrator counts an answer.                                      *)
LEMMA Reported ==
    ASSUME ReadyIInv, NEW k \in KubeletState, NEW ok \in BOOLEAN,
           k.routed = kubelet.routed, k.fails = kubelet.fails,
           kubelet' = Report(ok, k), probe' \in ProbeState, ~probe'.on,
           UNCHANGED <<writeCheck, sick, draining, delay, unfit, turns>>,
           kubelet.routed => \A c \in Watched :
               unfit[c] + k.wait <= Periods(kubelet.fails + 1) + Period,
           ok => \A c \in Watched : unfit[c] + k.wait <= Period
    PROVE  ReadyIInv'
<1>1. /\ kubelet' \in KubeletState /\ kubelet'.wait = k.wait
      /\ ok => kubelet'.fails = 0
      /\ ~ok /\ kubelet'.routed =>
           k.routed /\ kubelet'.fails = k.fails + 1 /\ kubelet'.fails < Threshold
  BY ReportFacts
<1>2. ReadyTypeOK'
  BY <1>1 DEF ReadyIInv, ReadyTypeOK, ProbeState, KubeletState
<1>3. Counted'
  BY <1>1, PeriodFacts DEF Counted
<1>4. Clocked' /\ Seen' /\ Delayed'
  BY DEF ReadyIInv, Clocked, Seen, Delayed
<1>5. Watched' = Watched
  BY DEF Watched
<1>6. ASSUME kubelet'.routed, NEW c \in Watched
      PROVE  unfit[c] + kubelet'.wait <= Periods(kubelet'.fails + 1)
  <2>1. kubelet.fails \in Nat
    BY ReadyFields DEF ReadyIInv
  <2>2. CASE ok
    <3>1. unfit[c] + k.wait <= Period /\ kubelet'.wait = k.wait /\ kubelet'.fails = 0
      BY <1>1, <1>6, <2>2
    <3>2. Periods(0 + 1) = Period
      BY PeriodFacts DEF Periods
    <3> QED  BY <3>1, <3>2
  <2>3. CASE ~ok
    <3>1. /\ unfit[c] + k.wait <= Periods(kubelet.fails + 1) + Period
          /\ kubelet'.wait = k.wait /\ kubelet'.fails = kubelet.fails + 1
      BY <1>1, <1>6, <2>3
    <3>2. Periods((kubelet.fails + 1) + 1) = Periods(kubelet.fails + 1) + Period
      BY <2>1, PeriodFacts
    <3> QED  BY <3>1, <3>2
  <2> QED  BY <2>2, <2>3
<1>7. Pulled'
  BY <1>5, <1>6 DEF Pulled, Due
<1> QED  BY <1>2, <1>3, <1>4, <1>7 DEF ReadyIInv

LEMMA NoProbeOff == NoProbe \in ProbeState /\ ~NoProbe.on /\ NoProbe.age = 0
<1>1. /\ FALSE \in BOOLEAN /\ TRUE \in BOOLEAN /\ <<>> \in Seq(Check)
      /\ 0 \in 0 .. CheckMax /\ 0 \in 0 .. ProbeTimeout
  BY ReadinessAssumption
<1> QED  BY <1>1 DEF NoProbe, ProbeState

LEMMA HealthReadySound ==
    ASSUME ReadyIInv, HealthReady
    PROVE  ReadyIInv'
<1> DEFINE k == [kubelet EXCEPT !.wait = Period]
<1>1. /\ ~probe.on /\ kubelet.wait = 0
      /\ UNCHANGED <<writeCheck, sick, draining, delay, unfit, turns>>
      /\ IF draining THEN kubelet' = Report(FALSE, k) /\ UNCHANGED probe
         ELSE /\ kubelet' = k
              /\ probe' = [NoProbe EXCEPT !.on = TRUE, !.todo = Checks(writeCheck)]
  BY DEF HealthReady
<1>2. /\ probe \in ProbeState /\ kubelet \in KubeletState /\ kubelet.fails \in Nat
      /\ \A c \in Cause : unfit[c] \in Nat
      /\ Period \in 0 .. Period /\ Period \in Nat
  <2>1. Period \in Nat
    BY PeriodFacts
  <2> QED  BY <2>1, ReadyFields DEF ReadyIInv
<1>3. /\ k \in KubeletState /\ k.wait = Period
      /\ k.routed = kubelet.routed /\ k.fails = kubelet.fails
  BY <1>2 DEF KubeletState
<1> HIDE DEF k
<1>4. Watched \subseteq Cause
  BY WatchedAreCauses DEF ReadyIInv
<1>5. kubelet.routed => \A c \in Watched : unfit[c] <= Periods(kubelet.fails + 1)
  BY <1>1, <1>2, <1>4 DEF ReadyIInv, Pulled, Due
<1>6. CASE draining
  <2>1. kubelet.routed => \A c \in Watched :
            unfit[c] + k.wait <= Periods(kubelet.fails + 1) + Period
    BY <1>2, <1>3, <1>4, <1>5, PeriodFacts
  <2>2. kubelet' = Report(FALSE, k) /\ probe' = probe
    BY <1>1, <1>6
  <2>3. FALSE \in BOOLEAN
    OBVIOUS
  <2> QED  BY <1>1, <1>2, <1>3, <2>1, <2>2, <2>3, Reported
<1>7. CASE ~draining
  <2>1. kubelet' = k /\ probe' = [NoProbe EXCEPT !.on = TRUE, !.todo = Checks(writeCheck)]
    BY <1>1, <1>7
  <2>2. Checks(writeCheck) \in Seq(Check)
    BY ChecksFacts DEF ReadyIInv, ReadyTypeOK
  <2>3. TRUE \in BOOLEAN
    OBVIOUS
  <2>4. probe' \in ProbeState /\ probe'.on /\ probe'.todo = Checks(writeCheck)
        /\ probe'.age = 0
    BY <2>1, <2>2, <2>3, NoProbeOff DEF ProbeState
  <2>5. ReadyTypeOK'
    BY <1>1, <1>3, <2>1, <2>4 DEF ReadyIInv, ReadyTypeOK, ProbeState, KubeletState
  <2>6. Clocked' /\ Counted' /\ Delayed'
    BY <1>1, <1>2, <1>3, <2>1, <2>4 DEF ReadyIInv, Clocked, Counted, Delayed
  <2>7. Watched' = Watched
    BY <1>1 DEF Watched
  <2>8. Pulled'
    <3>1. ASSUME kubelet.routed, NEW c \in Watched
          PROVE  unfit[c] <= Periods(kubelet.fails + 1) + 0
      BY <1>2, <1>4, <1>5, <3>1, PeriodFacts
    <3> QED  BY <1>1, <1>3, <2>1, <2>4, <2>7, <3>1 DEF Pulled, Due
  <2>9. Seen'
    <3>1. \A c \in Watched : c = Drain \/ c \in Range(probe'.todo)
      BY <2>4 DEF Watched
    <3>2. unfit[Drain] = 0
      BY <1>7 DEF ReadyIInv, Seen
    <3> QED  BY <1>1, <2>4, <2>7, <3>1, <3>2 DEF ReadyIInv, Seen, Doomed
  <2> QED  BY <2>5, <2>6, <2>8, <2>9 DEF ReadyIInv
<1> QED  BY <1>6, <1>7

(* The end of a probe: w more ticks until the next.                        *)
LEMMA ProbeEnds ==
    ASSUME ReadyIInv, probe.on
    PROVE  /\ kubelet.routed => \A c \in Watched :
                 unfit[c] + kubelet.wait <= Periods(kubelet.fails + 1) + Period
           /\ probe.todo = <<>> /\ probe.ok => \A c \in Watched :
                 unfit[c] + kubelet.wait <= Period
<1>1. /\ kubelet.fails \in Nat /\ kubelet.wait \in Nat /\ probe.age \in Nat
      /\ \A c \in Cause : unfit[c] \in Nat
      /\ Periods(kubelet.fails + 1) \in Nat /\ Period \in Nat
  <2>1. /\ kubelet.fails \in Nat /\ kubelet.wait \in Nat /\ probe.age \in Nat
        /\ \A c \in Cause : unfit[c] \in Nat
    BY ReadyFields DEF ReadyIInv
  <2> QED  BY <2>1, PeriodFacts
<1>2. Watched \subseteq Cause /\ kubelet.wait + probe.age = Period
  BY WatchedAreCauses DEF ReadyIInv, Clocked
<1>3. ASSUME kubelet.routed, NEW c \in Watched
      PROVE  unfit[c] + kubelet.wait <= Periods(kubelet.fails + 1) + Period
  <2>1. unfit[c] <= Periods(kubelet.fails + 1) + probe.age
    BY <1>3 DEF ReadyIInv, Pulled, Due
  <2> QED  BY <1>1, <1>2, <2>1
<1>4. ASSUME probe.todo = <<>>, probe.ok, NEW c \in Watched
      PROVE  unfit[c] + kubelet.wait <= Period
  <2>1. ~Doomed(c)
    BY <1>4 DEF Doomed, Range
  <2>2. unfit[c] <= probe.age
    BY <2>1 DEF ReadyIInv, Seen
  <2> QED  BY <1>1, <1>2, <2>2
<1> QED  BY <1>3, <1>4

LEMMA AnswerSound ==
    ASSUME ReadyIInv, Answer \/ ProbeTimesOut
    PROVE  ReadyIInv'
<1>1. /\ probe.on /\ probe' = NoProbe
      /\ UNCHANGED <<writeCheck, sick, draining, delay, unfit, turns>>
  BY DEF Answer, ProbeTimesOut
<1>2. kubelet \in KubeletState /\ probe.ok \in BOOLEAN /\ FALSE \in BOOLEAN
  BY ReadyFields DEF ReadyIInv
<1>3. \/ kubelet' = Report(probe.ok, kubelet) /\ probe.todo = <<>>
      \/ kubelet' = Report(FALSE, kubelet)
  BY DEF Answer, ProbeTimesOut
<1> QED  BY <1>1, <1>2, <1>3, NoProbeOff, ProbeEnds, Reported

LEMMA CheckStoreSound ==
    ASSUME ReadyIInv, CheckStore
    PROVE  ReadyIInv'
<1> DEFINE ok == probe.ok /\ Head(probe.todo) \notin sick
           late == probe.late \/ probe.spent > CheckDeadline
<1>1. /\ probe.on /\ probe.todo # <<>>
      /\ UNCHANGED <<writeCheck, sick, draining, delay, kubelet, unfit, turns>>
  BY DEF CheckStore
<1>2. probe \in ProbeState /\ probe.todo \in Seq(Check) /\ probe.age \in Nat
  BY ReadyFields DEF ReadyIInv
<1>3. probe' = [probe EXCEPT !.todo = Tail(@), !.spent = 0, !.ok = ok, !.late = late]
  BY <1>2 DEF CheckStore, ProbeState
<1>4. /\ Tail(probe.todo) \in Seq(Check) /\ Head(probe.todo) \in Check
      /\ 0 \in 0 .. CheckMax
  BY <1>1, <1>2, ReadinessAssumption
<1>5. ok \in BOOLEAN /\ late \in BOOLEAN
  OBVIOUS
<1>6. ~ok => ~probe.ok \/ Head(probe.todo) \in sick
  OBVIOUS
<1>7. ok => Head(probe.todo) \notin sick
  OBVIOUS
<1>8. ok => probe.ok
  OBVIOUS
<1> HIDE DEF ok, late
<1>9. /\ probe' \in ProbeState /\ probe'.on /\ probe'.todo = Tail(probe.todo)
      /\ probe'.ok = ok /\ probe'.age = probe.age
  BY <1>1, <1>2, <1>3, <1>4, <1>5 DEF ProbeState
<1>10. ReadyTypeOK'
  BY <1>1, <1>9 DEF ReadyIInv, ReadyTypeOK, ProbeState
<1>11. Clocked' /\ Counted' /\ Delayed' /\ Watched' = Watched
  BY <1>1, <1>9 DEF ReadyIInv, Clocked, Counted, Delayed, Watched
<1>12. Pulled'
  BY <1>1, <1>9, <1>11 DEF ReadyIInv, Pulled, Due
<1>13. Range(probe.todo) \subseteq Range(Tail(probe.todo)) \cup {Head(probe.todo)}
  <2> SUFFICES ASSUME NEW i \in DOMAIN probe.todo, probe.todo[i] # Head(probe.todo)
               PROVE  probe.todo[i] \in Range(Tail(probe.todo))
    BY DEF Range
  <2>1. i \in 2 .. Len(probe.todo)
    BY <1>1, <1>2
  <2>2. i - 1 \in DOMAIN Tail(probe.todo) /\ Tail(probe.todo)[i - 1] = probe.todo[i]
    BY <1>1, <1>2, <2>1
  <2> QED  BY <2>2 DEF Range
<1>14. Seen'
  <2>1. ASSUME NEW c \in Watched, c = Drain \/ ~Doomed(c)'
        PROVE  unfit[c] <= probe.age
    <3>1. CASE c = Drain \/ ~Doomed(c)
      BY <1>1, <3>1 DEF ReadyIInv, Seen
    <3>2. CASE c # Drain /\ Doomed(c)
      <4>1. ok /\ c \notin Range(Tail(probe.todo))
        BY <1>9, <2>1, <3>2 DEF Doomed
      <4>2. probe.ok /\ c \in Range(probe.todo)
        BY <1>8, <3>2, <4>1 DEF Doomed
      <4>3. c = Head(probe.todo)
        BY <1>13, <4>1, <4>2
      <4>4. c \in Check \ sick
        BY <1>4, <1>7, <4>1, <4>3
      <4>5. unfit[c] = 0
        BY <4>4 DEF ReadyIInv, Seen
      <4> QED  BY <1>2, <4>5
    <3> QED  BY <3>1, <3>2
  <2> QED  BY <1>1, <1>9, <1>11, <2>1 DEF ReadyIInv, Seen
<1> QED  BY <1>10, <1>11, <1>12, <1>14 DEF ReadyIInv

(* A store falls ill or heals, or the drain begins: what has lasted for no *)
(* time may begin, and what has lasted may end.                            *)
LEMMA CausesTurn ==
    ASSUME ReadyIInv, UNCHANGED <<writeCheck, delay, probe, kubelet>>,
           ReadyTypeOK',
           \A c \in Cause : unfit'[c] \in {0, unfit[c]},
           ~draining' => unfit'[Drain] = 0,
           \A c \in Check \ sick' : unfit'[c] = 0,
           draining => draining' /\ unfit'[Drain] = unfit[Drain]
    PROVE  ReadyIInv'
<1>1. /\ kubelet.fails \in Nat /\ kubelet.wait \in Nat /\ probe.age \in Nat
      /\ \A c \in Cause : unfit[c] \in Nat
  BY ReadyFields DEF ReadyIInv
<1>2. Periods(kubelet.fails + 1) \in Nat /\ Period \in Nat /\ Drain \in Cause
  BY <1>1, PeriodFacts DEF Cause
<1>3. Watched \subseteq Cause /\ Watched' = Watched
  BY WatchedAreCauses DEF ReadyIInv, Watched
<1>4. \A c \in Watched : unfit'[c] \in Nat /\ unfit'[c] <= unfit[c]
  BY <1>1, <1>3
<1>5. Clocked' /\ Counted'
  BY DEF ReadyIInv, Clocked, Counted
<1>6. Seen'
  <2>1. ASSUME probe.on, NEW c \in Watched, c = Drain \/ ~Doomed(c)
        PROVE  unfit'[c] <= probe.age
    <3>1. unfit[c] <= probe.age
      BY <2>1 DEF ReadyIInv, Seen
    <3> QED  BY <1>1, <1>3, <1>4, <3>1
  <2> QED  BY <1>3, <2>1 DEF Seen, Doomed
<1>7. Pulled'
  <2>1. ASSUME kubelet.routed, NEW c \in Watched PROVE Due(c)'
    <3>1. Due(c)
      BY <2>1 DEF ReadyIInv, Pulled
    <3> QED  BY <1>1, <1>2, <1>3, <1>4, <3>1 DEF Due
  <2> QED  BY <1>3, <2>1 DEF Pulled
<1>8. Delayed'
  <2>1. CASE draining
    BY <2>1 DEF ReadyIInv, Delayed
  <2>2. CASE ~draining
    <3>1. delay = DrainDelay /\ unfit'[Drain] \in Nat /\ DrainDelay \in Nat
      BY <1>1, <1>2, <2>2, ReadinessAssumption DEF ReadyIInv, Delayed
    <3> QED  BY <3>1 DEF Delayed
  <2> QED  BY <2>1, <2>2
<1> QED  BY <1>5, <1>6, <1>7, <1>8 DEF ReadyIInv

LEMMA DrainIsNoCheck == Drain \notin Check /\ Drain \in Cause /\ Check \subseteq Cause
BY DEF Drain, Check, Op, Cause

LEMMA PassTimeSound ==
    ASSUME ReadyIInv, PassTime
    PROVE  ReadyIInv'
<1>1. /\ UNCHANGED <<writeCheck, sick, draining, turns>>
      /\ probe.on => probe.spent < CheckMax /\ probe.age < ProbeTimeout
      /\ ~probe.on => kubelet.wait > 0
      /\ probe' = IF probe.on THEN [probe EXCEPT !.spent = @ + 1, !.age = @ + 1] ELSE probe
      /\ kubelet' = [kubelet EXCEPT !.wait = IF @ > 0 THEN @ - 1 ELSE 0]
      /\ delay' = IF draining /\ delay > 0 THEN delay - 1 ELSE delay
  BY DEF PassTime
<1>2. unfit' = [c \in Cause |->
           IF (c = Drain /\ draining) \/ c \in sick
           THEN IF unfit[c] < Forever THEN unfit[c] + 1 ELSE Forever
           ELSE 0]
  BY DEF PassTime
<1>3. /\ probe \in ProbeState /\ kubelet \in KubeletState /\ probe.on \in BOOLEAN
      /\ probe.age \in Nat /\ kubelet.fails \in Nat /\ kubelet.wait \in Nat
      /\ kubelet.wait <= Period /\ Forever \in Nat
      /\ ProbeTimeout \in Nat /\ ProbeTimeout <= Period
      /\ \A c \in Cause : unfit[c] \in Nat /\ unfit[c] <= Forever
  BY ReadyFields DEF ReadyIInv
<1>4. /\ Period \in Nat /\ Periods(kubelet.fails + 1) \in Nat
  BY <1>3, PeriodFacts
<1>5. CheckMax \in Nat /\ DrainDelay \in Nat /\ delay \in 0 .. DrainDelay /\ probe.spent \in 0 .. CheckMax
  BY <1>3, ReadinessAssumption DEF ReadyIInv, ReadyTypeOK, ProbeState
<1>6. \A c \in Cause : unfit'[c] \in 0 .. Forever /\ unfit'[c] <= unfit[c] + 1
  BY <1>2, <1>3
<1>7. kubelet.wait > 0
  BY <1>1, <1>3, <1>4 DEF ReadyIInv, Clocked
<1>8. /\ kubelet' \in KubeletState /\ kubelet'.wait = kubelet.wait - 1
      /\ kubelet'.fails = kubelet.fails /\ kubelet'.routed = kubelet.routed
  <2>1. kubelet' = [kubelet EXCEPT !.wait = kubelet.wait - 1]
    BY <1>1, <1>3, <1>7 DEF KubeletState
  <2>2. kubelet.wait - 1 \in 0 .. Period
    BY <1>3, <1>4, <1>7
  <2> QED  BY <1>3, <2>1, <2>2 DEF KubeletState
<1>9. /\ probe' \in ProbeState /\ probe'.on = probe.on /\ probe'.ok = probe.ok
      /\ probe'.todo = probe.todo
      /\ probe'.age = IF probe.on THEN probe.age + 1 ELSE probe.age
  <2>1. CASE probe.on
    <3>1. probe' = [probe EXCEPT !.spent = probe.spent + 1, !.age = probe.age + 1]
      BY <1>1, <1>3, <2>1 DEF ProbeState
    <3>2. probe.spent + 1 \in 0 .. CheckMax /\ probe.age + 1 \in 0 .. ProbeTimeout
      BY <1>1, <1>3, <1>5, <2>1
    <3> QED  BY <1>3, <2>1, <3>1, <3>2 DEF ProbeState
  <2>2. CASE ~probe.on
    BY <1>1, <1>3, <2>2
  <2> QED  BY <2>1, <2>2
<1>10. delay' \in 0 .. DrainDelay
  BY <1>1, <1>5
<1>11. ReadyTypeOK'
  <2>1. unfit' \in [Cause -> 0 .. Forever]
    BY <1>2, <1>6
  <2> QED  BY <1>1, <1>8, <1>9, <1>10, <2>1 DEF ReadyIInv, ReadyTypeOK, ProbeState, KubeletState
<1>12. Watched \subseteq Cause /\ Watched' = Watched
  BY <1>1, WatchedAreCauses DEF ReadyIInv, Watched
<1>13. Clocked'
  BY <1>3, <1>4, <1>8, <1>9 DEF ReadyIInv, Clocked
<1>14. Counted'
  BY <1>8 DEF ReadyIInv, Counted
<1>15. Seen'
  <2>1. ~draining => unfit'[Drain] = 0
    BY <1>2, DrainIsNoCheck DEF ReadyIInv, ReadyTypeOK
  <2>2. \A c \in Check \ sick : unfit'[c] = 0
    BY <1>2, DrainIsNoCheck
  <2>3. ASSUME probe.on, NEW c \in Watched, c = Drain \/ ~Doomed(c)
        PROVE  unfit'[c] <= probe.age + 1
    <3>1. unfit[c] <= probe.age /\ unfit[c] \in Nat /\ unfit'[c] \in Nat
          /\ unfit'[c] <= unfit[c] + 1
      BY <1>3, <1>6, <1>12, <2>3 DEF ReadyIInv, Seen
    <3> QED  BY <1>3, <3>1
  <2> QED  BY <1>1, <1>9, <1>12, <2>1, <2>2, <2>3 DEF Seen, Doomed
<1>16. Pulled'
  <2>1. ASSUME kubelet.routed, NEW c \in Watched PROVE Due(c)'
    <3>1. /\ unfit[c] \in Nat /\ unfit'[c] \in Nat /\ unfit'[c] <= unfit[c] + 1
      BY <1>3, <1>6, <1>12
    <3>2. Due(c)
      BY <2>1 DEF ReadyIInv, Pulled
    <3>3. CASE probe.on
      <4>1. unfit'[c] <= Periods(kubelet.fails + 1) + (probe.age + 1)
        BY <1>3, <1>4, <3>1, <3>2, <3>3 DEF Due
      <4> QED  BY <1>8, <1>9, <3>3, <4>1 DEF Due
    <3>4. CASE ~probe.on
      <4>1. unfit'[c] + (kubelet.wait - 1) <= Periods(kubelet.fails + 1)
        BY <1>3, <1>4, <3>1, <3>2, <3>4 DEF Due
      <4> QED  BY <1>8, <1>9, <3>4, <4>1 DEF Due
    <3> QED  BY <3>3, <3>4
  <2> QED  BY <1>8, <1>12, <2>1 DEF Pulled
<1>17. Delayed'
  <2>1. CASE ~draining
    BY <1>1, <2>1 DEF ReadyIInv, Delayed
  <2>2. CASE draining
    <3>1. unfit'[Drain] = IF unfit[Drain] < Forever THEN unfit[Drain] + 1 ELSE Forever
      BY <1>2, <2>2, DrainIsNoCheck
    <3>2. unfit[Drain] \in Nat /\ unfit[Drain] <= Forever
      BY <1>3, DrainIsNoCheck
    <3>3. unfit[Drain] >= Forever \/ unfit[Drain] + delay >= DrainDelay
      BY <2>2 DEF ReadyIInv, Delayed
    <3>4. delay' \in Nat /\ delay' + 1 >= delay /\ delay \in Nat
      BY <1>1, <1>5
    <3>5. unfit'[Drain] >= Forever \/ unfit'[Drain] + delay' >= DrainDelay
      <4>1. CASE unfit[Drain] >= Forever
        <5>1. unfit'[Drain] = Forever
          BY <1>3, <3>1, <3>2, <4>1
        <5> QED  BY <1>3, <5>1
      <4>2. CASE unfit[Drain] < Forever
        <5>1. unfit'[Drain] = unfit[Drain] + 1 /\ unfit[Drain] + delay >= DrainDelay
          BY <1>3, <3>1, <3>2, <3>3, <4>2
        <5>2. \A u, d, e, m \in Nat : u + d >= m /\ e + 1 >= d => (u + 1) + e >= m
          OBVIOUS
        <5> QED  BY <1>5, <3>2, <3>4, <5>1, <5>2
      <4> QED  BY <1>3, <3>2, <4>1, <4>2
    <3> QED  BY <1>1, <2>2, <3>5 DEF Delayed
  <2> QED  BY <2>1, <2>2
<1> QED  BY <1>11, <1>13, <1>14, <1>15, <1>16, <1>17 DEF ReadyIInv

(* The invariant of the readiness probe.                                   *)
THEOREM ReadyInvariance == ReadySpec => []ReadyIInv
<1>1. ReadyInit => ReadyIInv
  <2> SUFFICES ASSUME ReadyInit PROVE ReadyIInv
    OBVIOUS
  <2>1. /\ sick = {} /\ draining = FALSE /\ delay = DrainDelay /\ probe = NoProbe
        /\ kubelet = [routed |-> FALSE, fails |-> 0, wait |-> 0]
        /\ unfit = [c \in Cause |-> 0] /\ turns = MaxTurns
    BY DEF ReadyInit
  <2>2. writeCheck \in BOOLEAN
    BY ReadinessAssumption DEF ReadyInit
  <2>3. /\ 0 \in 0 .. Threshold /\ 0 \in 0 .. Period /\ FALSE \in BOOLEAN
        /\ DrainDelay \in 0 .. DrainDelay /\ MaxTurns \in 0 .. MaxTurns
    BY ReadinessAssumption
  <2>4. Forever \in Nat
    <3>1. Threshold * Period \in Nat /\ ProbeTimeout \in Nat
      BY PeriodFacts, ReadinessAssumption DEF Periods
    <3> QED  BY <3>1 DEF Forever
  <2>5. kubelet \in KubeletState /\ ~kubelet.routed
    BY <2>1, <2>3 DEF KubeletState
  <2>6. unfit \in [Cause -> 0 .. Forever]
    BY <2>1, <2>4
  <2>7. ReadyTypeOK
    BY <2>1, <2>2, <2>3, <2>5, <2>6, NoProbeOff DEF ReadyTypeOK, ProbeState, KubeletState
  <2>8. Clocked /\ Counted /\ Seen /\ Pulled /\ Delayed
    BY <2>1, <2>5, NoProbeOff, DrainIsNoCheck DEF Clocked, Counted, Seen, Pulled, Delayed
  <2> QED  BY <2>7, <2>8 DEF ReadyIInv
<1>2. ReadyIInv /\ [ReadyNext]_readyVars => ReadyIInv'
  <2> SUFFICES ASSUME ReadyIInv, [ReadyNext]_readyVars PROVE ReadyIInv'
    OBVIOUS
  <2>1. CASE HealthReady
    BY <2>1, HealthReadySound
  <2>2. CASE CheckStore
    BY <2>2, CheckStoreSound
  <2>3. CASE Answer \/ ProbeTimesOut
    BY <2>3, AnswerSound
  <2>4. CASE ShutdownSignal
    <3>1. /\ ~draining /\ draining' = TRUE
          /\ UNCHANGED <<writeCheck, sick, delay, probe, kubelet, unfit, turns>>
      BY <2>4 DEF ShutdownSignal
    <3>2. ReadyTypeOK'
      BY <3>1 DEF ReadyIInv, ReadyTypeOK
    <3>3. \A c \in Check \ sick' : unfit'[c] = 0
      BY <3>1 DEF ReadyIInv, Seen
    <3> QED  BY <3>1, <3>2, <3>3, CausesTurn
  <2>5. CASE \E c \in Check : FallIll(c)
    <3>1. PICK c \in Check : FallIll(c)
      BY <2>5
    <3>2. /\ sick' = sick \cup {c} /\ turns > 0 /\ turns' = turns - 1
          /\ UNCHANGED <<writeCheck, draining, delay, probe, kubelet, unfit>>
      BY <3>1 DEF FallIll
    <3>3. ReadyTypeOK'
      <4>1. turns' \in 0 .. MaxTurns
        BY <3>2, ReadinessAssumption DEF ReadyIInv, ReadyTypeOK
      <4> QED  BY <3>2, <4>1 DEF ReadyIInv, ReadyTypeOK
    <3>4. /\ \A d \in Check \ sick' : unfit'[d] = 0
          /\ ~draining' => unfit'[Drain] = 0
      BY <3>2 DEF ReadyIInv, Seen
    <3> QED  BY <3>2, <3>3, <3>4, CausesTurn
  <2>6. CASE \E c \in Check : Heal(c)
    <3>1. PICK c \in Check : Heal(c)
      BY <2>6
    <3>2. /\ sick' = sick \ {c} /\ turns > 0 /\ turns' = turns - 1
          /\ unfit' = [unfit EXCEPT ![c] = 0]
          /\ UNCHANGED <<writeCheck, draining, delay, probe, kubelet>>
      BY <3>1 DEF Heal
    <3>3. unfit \in [Cause -> 0 .. Forever] /\ Forever \in Nat
      BY ReadyFields DEF ReadyIInv, ReadyTypeOK
    <3>4. /\ unfit' \in [Cause -> 0 .. Forever]
          /\ \A d \in Cause : unfit'[d] = IF d = c THEN 0 ELSE unfit[d]
      BY <3>2, <3>3, DrainIsNoCheck
    <3>5. ReadyTypeOK'
      <4>1. turns' \in 0 .. MaxTurns
        BY <3>2, ReadinessAssumption DEF ReadyIInv, ReadyTypeOK
      <4> QED  BY <3>2, <3>4, <4>1 DEF ReadyIInv, ReadyTypeOK
    <3>6. /\ \A d \in Check \ sick' : unfit'[d] = 0
          /\ unfit'[Drain] = unfit[Drain]
      BY <3>1, <3>2, <3>4, DrainIsNoCheck DEF ReadyIInv, Seen
    <3>7. ~draining' => unfit'[Drain] = 0
      BY <3>2, <3>6 DEF ReadyIInv, Seen
    <3> QED  BY <3>2, <3>4, <3>5, <3>6, <3>7, CausesTurn
  <2>7. CASE PassTime
    BY <2>7, PassTimeSound
  <2>8. CASE UNCHANGED readyVars
    <3>1. UNCHANGED <<writeCheck, sick, draining, delay, probe, kubelet, unfit, turns>>
      BY <2>8 DEF readyVars
    <3>2. ReadyTypeOK'
      BY <3>1 DEF ReadyIInv, ReadyTypeOK
    <3> QED  BY <3>1, <3>2, CausesTurn DEF ReadyIInv, Seen
  <2> QED  BY <2>1, <2>2, <2>3, <2>4, <2>5, <2>6, <2>7, <2>8 DEF ReadyNext
<1> QED  BY <1>1, <1>2, PTL DEF ReadySpec

(* The probe, the orchestrator and the history keep their types.           *)
THEOREM ReadyTypeCorrect == ReadySpec => []ReadyTypeOK
<1>1. ReadyIInv => ReadyTypeOK
  BY DEF ReadyIInv
<1> QED  BY <1>1, ReadyInvariance, PTL

(* health_ready and shutdown_signal: a cause that lasts takes the server   *)
(* out of rotation within its window, and a drain delay longer than that   *)
(* window lets no request meet a closed listener, for every period,        *)
(* timeout and threshold of the orchestrator and however slow the stores.  *)
THEOREM PulledInTime == ReadySpec => []PulledBeforeRefusal
<1>1. ReadyIInv => PulledBeforeRefusal
  <2> SUFFICES ASSUME ReadyIInv PROVE PulledBeforeRefusal
    OBVIOUS
  <2>1. /\ probe.age \in Nat /\ probe.age <= ProbeTimeout
        /\ kubelet.fails \in Nat /\ kubelet.wait \in Nat
        /\ ProbeTimeout \in Nat /\ ProbeTimeout <= Period
        /\ \A c \in Cause : unfit[c] \in Nat
    BY ReadyFields DEF ReadyIInv
  <2>2. Watched \subseteq Cause
    BY WatchedAreCauses DEF ReadyIInv
  <2>3. ASSUME kubelet.routed
        PROVE  /\ Periods(kubelet.fails + 1) \in Nat /\ Periods(Threshold) \in Nat
               /\ Period \in Nat
               /\ Periods(kubelet.fails + 1) <= Periods(Threshold)
               /\ Period <= Periods(Threshold)
    <3>1. kubelet.fails < Threshold
      BY <2>3 DEF ReadyIInv, Counted
    <3>2. /\ Periods(kubelet.fails + 1) \in Nat /\ Periods(Threshold) \in Nat
          /\ Period \in Nat /\ Period <= Periods(kubelet.fails + 1)
          /\ Periods(kubelet.fails + 1) <= Periods(Threshold)
      BY <2>1, <3>1, PeriodFacts
    <3> QED  BY <3>2
  <2>4. ASSUME kubelet.routed, NEW c \in Watched
        PROVE  unfit[c] <= PullWindow(c)
    <3>1. Due(c) /\ unfit[c] \in Nat
      BY <2>1, <2>2, <2>4 DEF ReadyIInv, Pulled
    <3>2. CASE ~probe.on
      <4>1. unfit[c] <= Periods(Threshold)
        BY <2>1, <2>3, <2>4, <3>1, <3>2 DEF Due
      <4> QED  BY <2>1, <2>3, <2>4, <3>1, <4>1 DEF PullWindow, Periods
    <3>3. CASE probe.on /\ c = Drain
      <4>1. unfit[c] <= probe.age
        BY <3>3 DEF ReadyIInv, Seen
      <4>2. unfit[c] <= Periods(Threshold)
        BY <2>1, <2>3, <2>4, <3>1, <4>1
      <4> QED  BY <2>1, <2>3, <2>4, <3>1, <3>3, <4>2 DEF PullWindow, Periods
    <3>4. CASE probe.on /\ c # Drain
      <4>1. unfit[c] <= Periods(Threshold) + ProbeTimeout
        BY <2>1, <2>3, <2>4, <3>1, <3>4 DEF Due
      <4> QED  BY <3>4, <4>1 DEF PullWindow, Periods
    <3> QED  BY <3>2, <3>3, <3>4
  <2>5. \A c \in Watched : PullWindow(c) \in Nat
    <3>1. Threshold * Period \in Nat
      BY PeriodFacts DEF Periods
    <3> QED  BY <2>1, <3>1 DEF PullWindow
  <2>6. \A c \in Watched : unfit[c] > PullWindow(c) => ~kubelet.routed
    BY <2>1, <2>2, <2>4, <2>5
  <2>7. ASSUME Refusing, DrainDelay > PullWindow(Drain) PROVE ~kubelet.routed
    <3>1. Drain \in Watched /\ unfit[Drain] \in Nat /\ PullWindow(Drain) \in Nat
      BY <2>1, <2>2, <2>5 DEF Watched
    <3>2. unfit[Drain] >= Forever \/ unfit[Drain] >= DrainDelay
      <4>1. draining /\ delay = 0
        BY <2>7 DEF Refusing
      <4>2. unfit[Drain] >= Forever \/ unfit[Drain] + 0 >= DrainDelay
        BY <4>1 DEF ReadyIInv, Delayed
      <4> QED  BY <3>1, <4>2
    <3>3. Forever \in Nat /\ DrainDelay \in Nat /\ Forever > PullWindow(Drain)
      <4>1. Threshold * Period \in Nat
        BY PeriodFacts DEF Periods
      <4> QED  BY <2>1, <4>1, ReadinessAssumption DEF Forever, PullWindow
    <3>4. unfit[Drain] > PullWindow(Drain)
      BY <2>7, <3>1, <3>2, <3>3
    <3> QED  BY <2>6, <3>1, <3>4
  <2> QED  BY <2>6, <2>7 DEF PulledBeforeRefusal, Watched
<1> QED  BY <1>1, ReadyInvariance, PTL

-----------------------------------------------------------------------------
(* The event bus.                                                          *)

(* The dispatcher has handled or dropped what it has passed, and nothing   *)
(* else; the clients are behind the bus.                                   *)
Passed ==
    /\ \A c \in Client : stream[c].open => stream[c].pos <= Len(sent)
    /\ dispatcher.pos <= Len(sent)
    /\ handled \subseteq 1 .. dispatcher.pos

(* Jobs and deliveries are of handled events, and a job is the only one of *)
(* its delivery, which has not been made.                                  *)
JobsSound ==
    /\ \A j \in jobs : \E s \in Subscriptions, at \in handled :
           j = [for |-> <<s, at>>, signature |-> SignBody(s.secret, sent[at])]
    /\ posted \subseteq Subscriptions \X handled
    /\ \A j \in jobs : j.for \notin posted
    /\ IsFiniteSet(posted)

BusIInv == BusTypeOK /\ Passed /\ JobsSound /\ NothingLostSilently

BusItem == Published \cup [kind : {"lag"}, dropped : 1 .. MaxSent]

----------------------------------------------------------------------------
(* What recv gives: a lag notice up to the oldest event kept, or the event *)
(* that is due.                                                            *)
LEMMA RecvFacts ==
    ASSUME BusTypeOK, NEW pos \in Nat, pos < Len(sent)
    PROVE  /\ Recv(pos).pos \in Nat /\ pos < Recv(pos).pos /\ Recv(pos).pos <= Len(sent)
           /\ Recv(pos).item \in BusItem
           /\ \/ /\ Recv(pos).item.kind = "lag"
                 /\ Recv(pos).item.dropped = Recv(pos).pos - pos
                 /\ Recv(pos).pos = Oldest
              \/ /\ Recv(pos).item.kind # "lag"
                 /\ Recv(pos).pos = pos + 1 /\ Recv(pos).item = sent[pos + 1]
<1>1. Len(sent) \in Nat /\ Len(sent) <= MaxSent /\ MaxSent \in Nat /\ BusCapacity \in Nat \ {0}
  BY BusAssumption DEF BusTypeOK
<1>2. Oldest \in Nat /\ Oldest <= Len(sent)
  BY <1>1 DEF Oldest
<1>3. CASE pos < Oldest
  <2>1. Recv(pos) = [item |-> Lag(Oldest - pos), pos |-> Oldest]
    BY <1>3 DEF Recv
  <2>2. Oldest - pos \in 1 .. MaxSent
    BY <1>1, <1>2, <1>3
  <2> QED  BY <1>2, <1>3, <2>1, <2>2 DEF Lag, BusItem
<1>4. CASE ~(pos < Oldest)
  <2>1. Recv(pos).item = sent[pos + 1] /\ Recv(pos).pos = pos + 1
    BY <1>4 DEF Recv
  <2>2. sent[pos + 1] \in Published
    BY <1>1 DEF BusTypeOK
  <2>3. sent[pos + 1].kind # "lag"
    BY <2>2, BusAssumption DEF EventKind
  <2> QED  BY <1>1, <2>1, <2>2, <2>3 DEF BusItem
<1> QED  BY <1>3, <1>4

LEMMA FollowsPublish ==
    ASSUME BusTypeOK, NEW ev, sent' = Append(sent, ev),
           NEW out \in Seq(BusItem), NEW from, NEW pos, Follows(out, from, pos)
    PROVE  Follows(out, from, pos)'
<1>1. PICK at \in [0 .. Len(out) -> 0 .. Len(sent)] :
        /\ at[0] = from /\ at[Len(out)] = pos
        /\ \A i \in 1 .. Len(out) :
             IF out[i].kind = "lag"
             THEN at[i] = at[i - 1] + out[i].dropped
             ELSE at[i] = at[i - 1] + 1 /\ out[i] = sent[at[i]]
  BY DEF Follows
<1>2. Len(out) \in Nat /\ Len(sent) \in Nat /\ Len(sent') = Len(sent) + 1
      /\ \A k \in 1 .. Len(sent) : sent'[k] = sent[k]
  BY DEF BusTypeOK
<1>3. at \in [0 .. Len(out) -> 0 .. Len(sent')]
  BY <1>2
<1>4. ASSUME NEW i \in 1 .. Len(out)
      PROVE  IF out[i].kind = "lag"
             THEN at[i] = at[i - 1] + out[i].dropped
             ELSE at[i] = at[i - 1] + 1 /\ out[i] = sent'[at[i]]
  <2>1. at[i] \in 0 .. Len(sent) /\ at[i - 1] \in 0 .. Len(sent)
    BY <1>2
  <2> QED  BY <1>1, <1>2, <2>1
<1> QED  BY <1>1, <1>3, <1>4 DEF Follows

LEMMA FollowsSend ==
    ASSUME BusTypeOK, NEW out \in Seq(BusItem), NEW from, NEW pos \in Nat,
           pos < Len(sent), Follows(out, from, pos)
    PROVE  Follows(Append(out, Recv(pos).item), from, Recv(pos).pos)
<1> DEFINE n == Len(out)
           x == Recv(pos).item
           p == Recv(pos).pos
<1>1. PICK at \in [0 .. n -> 0 .. Len(sent)] :
        /\ at[0] = from /\ at[n] = pos
        /\ \A i \in 1 .. n :
             IF out[i].kind = "lag"
             THEN at[i] = at[i - 1] + out[i].dropped
             ELSE at[i] = at[i - 1] + 1 /\ out[i] = sent[at[i]]
  BY DEF Follows
<1>2. n \in Nat /\ Len(sent) \in Nat
  BY DEF BusTypeOK
<1>3. /\ p \in 0 .. Len(sent) /\ x \in BusItem
      /\ IF x.kind = "lag" THEN p = pos + x.dropped ELSE p = pos + 1 /\ x = sent[p]
  <2>1. /\ p \in Nat /\ p <= Len(sent) /\ x \in BusItem
        /\ \/ x.kind = "lag" /\ x.dropped = p - pos
           \/ x.kind # "lag" /\ p = pos + 1 /\ x = sent[pos + 1]
    BY RecvFacts
  <2> HIDE DEF x, p
  <2> QED  BY <1>2, <2>1
<1> HIDE DEF x, p
<1> DEFINE more == Append(out, x)
           to == [i \in 0 .. n + 1 |-> IF i = n + 1 THEN p ELSE at[i]]
<1>4. /\ Len(more) = n + 1 /\ more[n + 1] = x
      /\ \A i \in 1 .. n : more[i] = out[i]
  BY <1>2, <1>3
<1>5. /\ to \in [0 .. n + 1 -> 0 .. Len(sent)]
      /\ to[n + 1] = p /\ \A i \in 0 .. n : to[i] = at[i]
  BY <1>2, <1>3
<1> HIDE DEF more, to, n
<1>6. ASSUME NEW i \in 1 .. n + 1
      PROVE  IF more[i].kind = "lag"
             THEN to[i] = to[i - 1] + more[i].dropped
             ELSE to[i] = to[i - 1] + 1 /\ more[i] = sent[to[i]]
  <2>1. CASE i = n + 1
    <3>1. to[i - 1] = pos /\ to[i] = p /\ more[i] = x
      BY <1>1, <1>2, <1>4, <1>5, <2>1
    <3> QED  BY <1>3, <3>1
  <2>2. CASE i # n + 1
    <3>1. i \in 1 .. n /\ i - 1 \in 0 .. n /\ i \in 0 .. n
      BY <1>2, <2>2
    <3> QED  BY <1>1, <1>4, <1>5, <3>1
  <2> QED  BY <2>1, <2>2
<1>7. to[0] = from
  BY <1>1, <1>2, <1>5
<1>8. Follows(more, from, p)
  <2>1. /\ to \in [0 .. Len(more) -> 0 .. Len(sent)]
        /\ to[0] = from /\ to[Len(more)] = p
    BY <1>4, <1>5, <1>7
  <2>2. \A i \in 1 .. Len(more) :
          IF more[i].kind = "lag"
          THEN to[i] = to[i - 1] + more[i].dropped
          ELSE to[i] = to[i - 1] + 1 /\ more[i] = sent[to[i]]
    BY <1>4, <1>6
  <2> QED  BY <2>1, <2>2 DEF Follows
<1> QED  BY <1>8 DEF more, x, p

(* The invariant has two halves that share only what was published.        *)
StreamInv ==
    /\ stream \in [Client -> Stream]
    /\ \A c \in Client : stream[c].open =>
           stream[c].pos <= Len(sent) /\ Follows(stream[c].out, stream[c].from, stream[c].pos)

Underway == posted \cup {j.for : j \in jobs}

Served ==
    \A at \in handled, s \in hooks : born[s] <= at => (Owed(s, at) <=> <<s, at>> \in Underway)

DeliveryInv ==
    /\ hooks \subseteq Subscriptions
    /\ born \in [Subscriptions -> 0 .. MaxSent + 1]
    /\ dispatcher \in [alive : BOOLEAN, pos : 0 .. MaxSent, dropped : 0 .. MaxSent]
    /\ outcomes \in [{"success", "client_error", "exhausted"} -> Nat]
    /\ dispatcher.pos <= Len(sent)
    /\ handled \subseteq 1 .. dispatcher.pos
    /\ Cardinality(handled) + dispatcher.dropped = dispatcher.pos
    /\ JobsSound /\ Served
    /\ Cardinality(posted) =
           outcomes.success + outcomes.client_error + outcomes.exhausted

SentOK == sent \in Seq(Published) /\ Len(sent) <= MaxSent

LEMMA BusHalves == BusIInv <=> SentOK /\ StreamInv /\ DeliveryInv
<1>1. BusIInv => SentOK /\ StreamInv /\ DeliveryInv
  BY DEF BusIInv, BusTypeOK, Passed, NothingLostSilently, SentOK, StreamInv, DeliveryInv,
     Served, Underway
<1>2. ASSUME SentOK, StreamInv, DeliveryInv PROVE BusIInv
  <2>1. handled \subseteq 1 .. MaxSent
    BY <1>2, BusAssumption DEF DeliveryInv
  <2>2. {j.for : j \in jobs} \cup posted \subseteq Delivery
    <3>1. \A j \in jobs : j.for \in Subscriptions \X handled
      BY <1>2 DEF DeliveryInv, JobsSound
    <3> QED  BY <1>2, <2>1, <3>1 DEF DeliveryInv, JobsSound, Delivery
  <2>3. BusTypeOK
    BY <1>2, <2>1, <2>2 DEF BusTypeOK, SentOK, StreamInv, DeliveryInv
  <2>4. Passed /\ NothingLostSilently
    BY <1>2 DEF Passed, NothingLostSilently, StreamInv, DeliveryInv, Served, Underway
  <2> QED  BY <1>2, <2>3, <2>4 DEF BusIInv, DeliveryInv
<1> QED  BY <1>1, <1>2

LEMMA StreamFields ==
    ASSUME StreamInv, NEW c \in Client
    PROVE  /\ stream[c] \in Stream
           /\ stream[c].pos \in 0 .. MaxSent /\ stream[c].from \in 0 .. MaxSent
           /\ stream[c].out \in Seq(BusItem)
BY DEF StreamInv, Stream, BusItem

LEMMA StreamsConnect ==
    ASSUME SentOK, StreamInv, NEW c \in Client, SseConnect(c)
    PROVE  StreamInv'
<1> DEFINE fresh == [open |-> TRUE, from |-> Len(sent), pos |-> Len(sent), out |-> <<>>]
<1>1. Len(sent) \in 0 .. MaxSent
  BY BusAssumption DEF SentOK
<1>2. fresh \in Stream
  <2>1. TRUE \in BOOLEAN /\ <<>> \in Seq(BusItem)
    OBVIOUS
  <2> QED  BY <1>1, <2>1 DEF Stream, BusItem
<1>3. Follows(<<>>, Len(sent), Len(sent))
  <2> DEFINE at == [i \in 0 .. Len(<<>>) |-> Len(sent)]
  <2>1. at \in [0 .. Len(<<>>) -> 0 .. Len(sent)] /\ at[0] = Len(sent) /\ at[Len(<<>>)] = Len(sent)
    BY <1>1
  <2> HIDE DEF at
  <2> QED  BY <2>1 DEF Follows
<1>4. stream' = [stream EXCEPT ![c] = fresh] /\ sent' = sent
  BY DEF SseConnect
<1>5. stream' \in [Client -> Stream]
  BY <1>2, <1>4 DEF StreamInv
<1>6. \A o, f, p : Follows(o, f, p)' <=> Follows(o, f, p)
  BY <1>4 DEF Follows
<1>7. ASSUME NEW d \in Client, stream'[d].open
      PROVE  stream'[d].pos <= Len(sent') /\ Follows(stream[d].out, stream[d].from, stream[d].pos)'
  <2>1. CASE d = c
    <3>1. stream'[d].pos = Len(sent) /\ stream'[d].from = Len(sent) /\ stream'[d].out = <<>>
      BY <1>4, <2>1 DEF StreamInv
    <3> QED  BY <1>1, <1>3, <1>4, <1>6, <3>1
  <2>2. CASE d # c
    <3>1. stream'[d] = stream[d]
      BY <1>4, <2>2 DEF StreamInv
    <3> QED  BY <1>4, <1>6, <1>7, <3>1 DEF StreamInv
  <2> QED  BY <2>1, <2>2
<1> QED  BY <1>5, <1>7 DEF StreamInv

LEMMA StreamsDisconnect ==
    ASSUME SentOK, StreamInv, NEW c \in Client, SseDisconnect(c)
    PROVE  StreamInv'
<1>1. stream' = [stream EXCEPT ![c] = Closed] /\ sent' = sent
  BY DEF SseDisconnect
<1>2. Closed \in Stream
  <2>1. FALSE \in BOOLEAN /\ <<>> \in Seq(BusItem) /\ 0 \in 0 .. MaxSent
    BY BusAssumption
  <2> QED  BY <2>1 DEF Closed, Stream, BusItem
<1>3. stream' \in [Client -> Stream]
  BY <1>1, <1>2 DEF StreamInv
<1>4. \A o, f, p : Follows(o, f, p)' <=> Follows(o, f, p)
  BY <1>1 DEF Follows
<1>5. ASSUME NEW d \in Client, stream'[d].open PROVE stream'[d] = stream[d]
  BY <1>1, <1>5 DEF StreamInv, Closed
<1> QED  BY <1>1, <1>3, <1>4, <1>5 DEF StreamInv

LEMMA StreamsSend ==
    ASSUME SentOK, StreamInv, BusTypeOK, NEW c \in Client, SseSend(c)
    PROVE  StreamInv'
<1> DEFINE got == Recv(stream[c].pos)
           new == [stream[c] EXCEPT !.out = Append(@, got.item), !.pos = got.pos]
<1>1. /\ stream[c].open /\ stream[c].pos < Len(sent) /\ sent' = sent
      /\ stream' = [stream EXCEPT ![c].out = Append(@, got.item), ![c].pos = got.pos]
  BY DEF SseSend
<1>2. stream' = [stream EXCEPT ![c] = new]
  BY <1>1 DEF StreamInv
<1>3. /\ stream[c] \in Stream /\ stream[c].pos \in Nat
      /\ stream[c].from \in 0 .. MaxSent /\ stream[c].out \in Seq(BusItem)
      /\ Follows(stream[c].out, stream[c].from, stream[c].pos)
  BY <1>1, StreamFields DEF StreamInv
<1>4. /\ got.pos \in Nat /\ got.pos <= Len(sent) /\ got.item \in BusItem
  BY <1>1, <1>3, RecvFacts
<1>5. got.pos \in 0 .. MaxSent
  BY <1>4, BusAssumption DEF SentOK
<1>6. Follows(Append(stream[c].out, got.item), stream[c].from, got.pos)
  BY <1>1, <1>3, FollowsSend
<1> HIDE DEF got
<1>7. new \in Stream
  <2>1. Append(stream[c].out, got.item) \in Seq(BusItem)
    BY <1>3, <1>4
  <2> QED  BY <1>3, <1>5, <2>1 DEF Stream, BusItem
<1>8. /\ new.out = Append(stream[c].out, got.item)
      /\ new.from = stream[c].from /\ new.pos = got.pos
  BY <1>3 DEF Stream
<1> HIDE DEF new
<1>9. stream' \in [Client -> Stream]
  BY <1>2, <1>7 DEF StreamInv
<1>10. \A o, f, p : Follows(o, f, p)' <=> Follows(o, f, p)
  BY <1>1 DEF Follows
<1>11. ASSUME NEW d \in Client, stream'[d].open
       PROVE  stream'[d].pos <= Len(sent') /\ Follows(stream[d].out, stream[d].from, stream[d].pos)'
  <2>1. CASE d = c
    <3>1. stream'[d] = new
      BY <1>2, <2>1 DEF StreamInv
    <3> QED  BY <1>1, <1>4, <1>6, <1>8, <1>10, <3>1
  <2>2. CASE d # c
    <3>1. stream'[d] = stream[d]
      BY <1>2, <2>2 DEF StreamInv
    <3> QED  BY <1>1, <1>10, <1>11, <3>1 DEF StreamInv
  <2> QED  BY <2>1, <2>2
<1> QED  BY <1>9, <1>11 DEF StreamInv

LEMMA StreamsPublish ==
    ASSUME SentOK, StreamInv, BusTypeOK, NEW ev \in Published, Publish(ev)
    PROVE  SentOK' /\ StreamInv'
<1>1. sent' = Append(sent, ev) /\ stream' = stream /\ Len(sent) < MaxSent
  BY DEF Publish
<1>2. Len(sent) \in Nat /\ Len(sent') = Len(sent) + 1 /\ sent' \in Seq(Published)
  BY <1>1 DEF SentOK
<1>3. SentOK'
  BY <1>1, <1>2, BusAssumption DEF SentOK
<1>4. ASSUME NEW c \in Client, stream[c].open
      PROVE  stream[c].pos <= Len(sent') /\ Follows(stream[c].out, stream[c].from, stream[c].pos)'
  <2>1. /\ stream[c].pos \in 0 .. MaxSent /\ stream[c].pos <= Len(sent)
        /\ stream[c].out \in Seq(BusItem)
        /\ Follows(stream[c].out, stream[c].from, stream[c].pos)
    BY <1>4, StreamFields DEF StreamInv
  <2>2. \A o \in Seq(BusItem) : \A f, p : Follows(o, f, p) => Follows(o, f, p)'
    BY <1>1, FollowsPublish
  <2> QED  BY <1>1, <1>2, <2>1, <2>2
<1> QED  BY <1>1, <1>3, <1>4 DEF StreamInv

(* Publishing disturbs no delivery: what was sent before stays.            *)
LEMMA DeliveriesPublish ==
    ASSUME SentOK, DeliveryInv, NEW ev \in Published, Publish(ev)
    PROVE  DeliveryInv'
<1>1. sent' = Append(sent, ev) /\ UNCHANGED <<hooks, born, dispatcher, handled, jobs, posted, outcomes>>
  BY DEF Publish, delivery
<1>2. /\ Len(sent) \in Nat /\ Len(sent') = Len(sent) + 1
      /\ \A k \in 1 .. Len(sent) : sent'[k] = sent[k]
  BY <1>1 DEF SentOK
<1>3. \A at \in handled : sent'[at] = sent[at]
  <2>1. dispatcher.pos \in 0 .. MaxSent /\ dispatcher.pos <= Len(sent)
    BY DEF DeliveryInv
  <2>2. handled \subseteq 1 .. dispatcher.pos
    BY DEF DeliveryInv
  <2> QED  BY <1>2, <2>1, <2>2
<1>4. JobsSound'
  <2>1. ASSUME NEW j \in jobs
        PROVE  \E s \in Subscriptions, k \in handled :
                 j = [for |-> <<s, k>>, signature |-> SignBody(s.secret, sent'[k])]
    <3>1. PICK s \in Subscriptions, k \in handled :
             j = [for |-> <<s, k>>, signature |-> SignBody(s.secret, sent[k])]
      BY DEF DeliveryInv, JobsSound
    <3>2. sent'[k] = sent[k]
      BY <1>3
    <3> QED  BY <3>1, <3>2
  <2> QED  BY <1>1, <2>1 DEF DeliveryInv, JobsSound
<1>5. Served'
  <2>1. \A at \in handled, s \in hooks : Owed(s, at)' <=> Owed(s, at)
    BY <1>3 DEF Owed
  <2> QED  BY <1>1, <2>1 DEF DeliveryInv, Served, Underway
<1>6. dispatcher'.pos <= Len(sent')
  BY <1>1, <1>2 DEF DeliveryInv
<1> QED  BY <1>1, <1>4, <1>5, <1>6 DEF DeliveryInv

LEMMA DeliveriesAdd ==
    ASSUME SentOK, DeliveryInv, NEW s \in Subscriptions, MemAdd(s)
    PROVE  DeliveryInv'
<1>1. /\ hooks' = hooks \cup {s} /\ born' = [born EXCEPT ![s] = Len(sent) + 1]
      /\ UNCHANGED <<sent, dispatcher, handled, jobs, posted, outcomes>>
  BY DEF MemAdd, delivery
<1>2. Len(sent) + 1 \in 0 .. MaxSent + 1 /\ Len(sent) \in Nat
  BY BusAssumption DEF SentOK
<1>3. hooks' \subseteq Subscriptions /\ born' \in [Subscriptions -> 0 .. MaxSent + 1]
  BY <1>1, <1>2 DEF DeliveryInv
<1>4. \A at \in handled : at < Len(sent) + 1
  <2>1. dispatcher.pos \in 0 .. MaxSent /\ dispatcher.pos <= Len(sent)
    BY DEF DeliveryInv
  <2>2. handled \subseteq 1 .. dispatcher.pos
    BY DEF DeliveryInv
  <2> QED  BY <1>2, <2>1, <2>2
<1>5. Served'
  <2> SUFFICES ASSUME NEW at \in handled, NEW t \in hooks', born'[t] <= at
               PROVE  Owed(t, at) <=> <<t, at>> \in Underway
    BY <1>1 DEF Served, Owed, Underway
  <2>1. t # s
    <3>1. born \in [Subscriptions -> 0 .. MaxSent + 1] /\ at \in Nat
      BY DEF DeliveryInv
    <3>2. born'[s] = Len(sent) + 1 /\ at < Len(sent) + 1
      BY <1>1, <1>4, <3>1
    <3> QED  BY <1>2, <3>1, <3>2
  <2>2. t \in hooks /\ born[t] <= at
    BY <1>1, <2>1 DEF DeliveryInv
  <2> QED  BY <2>2 DEF DeliveryInv, Served
<1>6. JobsSound'
  BY <1>1 DEF DeliveryInv, JobsSound
<1> QED  BY <1>1, <1>3, <1>5, <1>6 DEF DeliveryInv

(* Steps that leave the dispatcher's side alone, or only forget hooks.     *)
LEMMA DeliveriesKept ==
    ASSUME DeliveryInv, hooks' \subseteq hooks,
           UNCHANGED <<sent, born, dispatcher, handled, jobs, posted, outcomes>>
    PROVE  DeliveryInv'
<1>1. JobsSound' /\ Served'
  BY DEF DeliveryInv, JobsSound, Served, Underway, Owed
<1> QED  BY <1>1 DEF DeliveryInv

LEMMA DispatcherFields ==
    ASSUME DeliveryInv
    PROVE  /\ dispatcher.pos \in 0 .. MaxSent /\ dispatcher.dropped \in 0 .. MaxSent
           /\ IsFiniteSet(handled) /\ Cardinality(handled) \in Nat
<1>1. dispatcher.pos \in 0 .. MaxSent /\ dispatcher.dropped \in 0 .. MaxSent
  BY DEF DeliveryInv
<1>2. IsFiniteSet(1 .. dispatcher.pos)
  BY <1>1, FS_Interval
<1>3. IsFiniteSet(handled)
  BY <1>2, FS_Subset DEF DeliveryInv
<1> QED  BY <1>1, <1>3, FS_CardinalityType

LEMMA DispatcherLags ==
    ASSUME SentOK, BusTypeOK, DeliveryInv, dispatcher.pos < Len(sent), Oldest \in Nat,
           dispatcher.pos < Oldest, Oldest <= Len(sent),
           RecordDispatcherLag(Oldest - dispatcher.pos),
           UNCHANGED <<sent, hooks, born, posted, outcomes>>
    PROVE  DeliveryInv'
<1> DEFINE n == Oldest - dispatcher.pos
<1>1. /\ dispatcher' = [dispatcher EXCEPT !.dropped = @ + n, !.pos = Oldest]
      /\ UNCHANGED <<handled, jobs>>
  BY DEF RecordDispatcherLag
<1>2. /\ dispatcher.pos \in 0 .. MaxSent /\ dispatcher.dropped \in 0 .. MaxSent
      /\ Cardinality(handled) \in Nat /\ Len(sent) \in Nat /\ Len(sent) <= MaxSent
      /\ Cardinality(handled) + dispatcher.dropped = dispatcher.pos
  BY DispatcherFields DEF SentOK, DeliveryInv
<1>3. dispatcher.dropped + n \in 0 .. MaxSent /\ Oldest \in 0 .. MaxSent
      /\ Cardinality(handled) + (dispatcher.dropped + n) = Oldest
  <2>1. MaxSent \in Nat
    BY BusAssumption
  <2>2. n \in Nat /\ dispatcher.pos + n = Oldest
    <3>1. dispatcher.pos \in Nat /\ Oldest \in Nat /\ dispatcher.pos < Oldest
      BY <1>2, <2>1
    <3> QED  BY <3>1
  <2> HIDE DEF n
  <2>3. Cardinality(handled) + (dispatcher.dropped + n) = Oldest
    BY <1>2, <2>1, <2>2
  <2>4. dispatcher.dropped + n \in Nat /\ dispatcher.dropped + n <= Oldest
    <3>1. \A c, d, m, o \in Nat : c + (d + m) = o => d + m \in Nat /\ d + m <= o
      OBVIOUS
    <3>2. dispatcher.dropped \in Nat /\ Cardinality(handled) \in Nat
      BY <1>2, <2>1
    <3> QED  BY <2>2, <2>3, <3>1, <3>2
  <2>5. Oldest <= MaxSent
    BY <1>2, <2>1
  <2> QED  BY <2>1, <2>3, <2>4, <2>5
<1> HIDE DEF n
<1>4. /\ dispatcher' \in [alive : BOOLEAN, pos : 0 .. MaxSent, dropped : 0 .. MaxSent]
      /\ dispatcher'.pos = Oldest /\ dispatcher'.dropped = dispatcher.dropped + n
  BY <1>1, <1>3 DEF DeliveryInv
<1>5. handled \subseteq 1 .. Oldest
  BY <1>2 DEF DeliveryInv
<1>6. JobsSound' /\ Served'
  BY <1>1 DEF DeliveryInv, JobsSound, Served, Underway, Owed
<1> QED  BY <1>1, <1>3, <1>4, <1>5, <1>6 DEF DeliveryInv

LEMMA DispatcherHandles ==
    ASSUME SentOK, BusTypeOK, DeliveryInv, dispatcher.pos < Len(sent),
           DispatchEvent(sent[dispatcher.pos + 1], dispatcher.pos + 1),
           UNCHANGED <<sent, hooks, born, posted, outcomes>>
    PROVE  DeliveryInv'
<1> DEFINE at == dispatcher.pos + 1
           about == RepoAndKind(sent[at])
           Sent == {[for |-> <<s, at>>, signature |-> SignBody(s.secret, sent[at])] :
                       s \in Matching(about.repo, about.kind)}
<1>1. /\ dispatcher' = [dispatcher EXCEPT !.pos = at] /\ handled' = handled \cup {at}
      /\ jobs' = jobs \cup Sent
  BY DEF DispatchEvent, DirectDispatch
<1>2. /\ dispatcher.pos \in 0 .. MaxSent /\ dispatcher.dropped \in 0 .. MaxSent
      /\ Cardinality(handled) \in Nat /\ Len(sent) \in Nat /\ Len(sent) <= MaxSent
      /\ Cardinality(handled) + dispatcher.dropped = dispatcher.pos
      /\ IsFiniteSet(handled)
  BY DispatcherFields DEF SentOK, DeliveryInv
<1>3. at \in 1 .. MaxSent /\ at <= Len(sent) /\ at \notin handled
  BY <1>2, BusAssumption DEF DeliveryInv
<1>4. Cardinality(handled') = Cardinality(handled) + 1
  BY <1>1, <1>2, <1>3, FS_AddElement
<1>5. /\ dispatcher' \in [alive : BOOLEAN, pos : 0 .. MaxSent, dropped : 0 .. MaxSent]
      /\ dispatcher'.pos = at /\ dispatcher'.dropped = dispatcher.dropped
  BY <1>1, <1>3 DEF DeliveryInv
<1>6. handled' \subseteq 1 .. at
  BY <1>1, <1>2 DEF DeliveryInv
<1>7. Cardinality(handled') + dispatcher'.dropped = dispatcher'.pos
  BY <1>2, <1>4, <1>5
<1> HIDE DEF at
<1>8. \A s : s \in Matching(about.repo, about.kind) <=> s \in hooks /\ Owed(s, at)
  BY DEF Matching, Owed
<1>9. {j.for : j \in jobs'} = {j.for : j \in jobs}
                              \cup {<<s, at>> : s \in Matching(about.repo, about.kind)}
  <2>1. {j.for : j \in Sent} = {<<s, at>> : s \in Matching(about.repo, about.kind)}
    <3>1. \A j \in Sent : \E s \in Matching(about.repo, about.kind) : j.for = <<s, at>>
      OBVIOUS
    <3>2. \A s \in Matching(about.repo, about.kind) : \E j \in Sent : j.for = <<s, at>>
      <4> TAKE s \in Matching(about.repo, about.kind)
      <4> DEFINE j == [for |-> <<s, at>>, signature |-> SignBody(s.secret, sent[at])]
      <4>1. j \in Sent /\ j.for = <<s, at>>
        OBVIOUS
      <4> HIDE DEF j, Sent
      <4> QED  BY <4>1
    <3> HIDE DEF Sent
    <3> QED  BY <3>1, <3>2
  <2> HIDE DEF Sent
  <2> QED  BY <1>1, <2>1
<1>10. \A x \in Underway : \E s \in Subscriptions, k \in handled : x = <<s, k>>
  <2>1. ASSUME NEW j \in jobs
        PROVE  \E s \in Subscriptions, k \in handled : j.for = <<s, k>>
    <3>1. PICK s \in Subscriptions, k \in handled :
             j = [for |-> <<s, k>>, signature |-> SignBody(s.secret, sent[k])]
      BY DEF DeliveryInv, JobsSound
    <3>2. j.for = <<s, k>>
      BY <3>1
    <3> QED  BY <3>2
  <2>2. \A x \in posted : \E s \in Subscriptions, k \in handled : x = <<s, k>>
    <3>1. posted \subseteq Subscriptions \X handled
      BY DEF DeliveryInv, JobsSound
    <3>2. \A x \in Subscriptions \X handled : \E s \in Subscriptions, k \in handled : x = <<s, k>>
      OBVIOUS
    <3> QED  BY <3>1, <3>2
  <2>3. \A x \in Underway : x \in posted \/ \E j \in jobs : x = j.for
    BY DEF Underway
  <2> QED
    <3> TAKE x \in Underway
    <3>1. CASE x \in posted
      BY <2>2, <3>1
    <3>2. CASE \E j \in jobs : x = j.for
      BY <2>1, <3>2
    <3> QED  BY <2>3, <3>1, <3>2
<1>11. JobsSound'
  <2>1. \A j \in jobs' : \E s \in Subscriptions, k \in handled' :
           j = [for |-> <<s, k>>, signature |-> SignBody(s.secret, sent[k])]
    BY <1>1, <1>8 DEF DeliveryInv, JobsSound
  <2>2. \A j \in jobs' : j.for \notin posted
    <3>1. \A j \in Sent : j.for \notin posted
      BY <1>3 DEF DeliveryInv, JobsSound
    <3> QED  BY <1>1, <3>1 DEF DeliveryInv, JobsSound
  <2> QED  BY <1>1, <2>1, <2>2 DEF DeliveryInv, JobsSound
<1>12. Served'
  <2> SUFFICES ASSUME NEW k \in handled', NEW s \in hooks, born[s] <= k
               PROVE  Owed(s, k) <=> <<s, k>> \in Underway'
    BY DEF Served, Owed
  <2>1. Underway' = Underway \cup {<<t, at>> : t \in Matching(about.repo, about.kind)}
    BY <1>9 DEF Underway
  <2>2. CASE k = at
    <3>1. <<s, k>> \notin Underway
      BY <1>3, <1>10, <2>2
    <3> QED  BY <1>8, <2>1, <2>2, <3>1
  <2>3. CASE k # at
    <3>1. k \in handled
      BY <1>1, <2>3
    <3>2. Owed(s, k) <=> <<s, k>> \in Underway
      BY <3>1 DEF DeliveryInv, Served
    <3> QED  BY <2>1, <2>3, <3>2
  <2> QED  BY <2>2, <2>3
<1> QED  BY <1>3, <1>5, <1>6, <1>7, <1>11, <1>12 DEF DeliveryInv

LEMMA DeliveriesDispatch ==
    ASSUME SentOK, BusTypeOK, DeliveryInv, Dispatch
    PROVE  DeliveryInv'
<1> DEFINE got == Recv(dispatcher.pos)
<1>1. /\ dispatcher.pos < Len(sent) /\ UNCHANGED <<sent, hooks, born, posted, outcomes>>
      /\ IF got.item.kind = "lag" THEN RecordDispatcherLag(got.item.dropped)
         ELSE DispatchEvent(got.item, got.pos)
  BY DEF Dispatch
<1>2. dispatcher.pos \in Nat
  BY DispatcherFields
<1>3. CASE got.item.kind = "lag"
  <2>1. /\ got.item.dropped = Oldest - dispatcher.pos /\ Oldest \in Nat
        /\ dispatcher.pos < Oldest /\ Oldest <= Len(sent)
    BY <1>1, <1>2, <1>3, RecvFacts
  <2>2. RecordDispatcherLag(Oldest - dispatcher.pos)
    BY <1>1, <1>3, <2>1
  <2> QED  BY <1>1, <2>1, <2>2, DispatcherLags
<1>4. CASE got.item.kind # "lag"
  <2>1. got.item = sent[dispatcher.pos + 1] /\ got.pos = dispatcher.pos + 1
    BY <1>1, <1>2, <1>4, RecvFacts
  <2>2. DispatchEvent(sent[dispatcher.pos + 1], dispatcher.pos + 1)
    BY <1>1, <1>4, <2>1
  <2> QED  BY <1>1, <2>2, DispatcherHandles
<1> QED  BY <1>3, <1>4

LEMMA DeliveriesCancel ==
    ASSUME DeliveryInv, CancelDispatcher
    PROVE  DeliveryInv'
<1>1. /\ dispatcher' = [dispatcher EXCEPT !.alive = FALSE]
      /\ UNCHANGED <<sent, stream, hooks, born, handled, jobs, posted, outcomes>>
  BY DEF CancelDispatcher
<1>2. FALSE \in BOOLEAN
  OBVIOUS
<1>3. /\ dispatcher' \in [alive : BOOLEAN, pos : 0 .. MaxSent, dropped : 0 .. MaxSent]
      /\ dispatcher'.pos = dispatcher.pos /\ dispatcher'.dropped = dispatcher.dropped
  BY <1>1, <1>2 DEF DeliveryInv
<1>4. JobsSound' /\ Served'
  BY <1>1 DEF DeliveryInv, JobsSound, Served, Underway, Owed
<1> QED  BY <1>1, <1>3, <1>4 DEF DeliveryInv

LEMMA DeliveriesPost ==
    ASSUME DeliveryInv, NEW j \in jobs, Post(j)
    PROVE  DeliveryInv'
<1>1. /\ jobs' = jobs \ {j} /\ posted' = posted \cup {j.for}
      /\ UNCHANGED <<sent, hooks, born, dispatcher, handled>>
  BY DEF Post
<1>2. \A i \in jobs : i.for = j.for => i = j
  BY DEF DeliveryInv, JobsSound
<1>3. j.for \notin posted /\ j.for \in Subscriptions \X handled /\ IsFiniteSet(posted)
  BY DEF DeliveryInv, JobsSound
<1>4. IsFiniteSet(posted') /\ Cardinality(posted') = Cardinality(posted) + 1
  BY <1>1, <1>3, FS_AddElement
<1>5. JobsSound'
  BY <1>1, <1>2, <1>3, <1>4 DEF DeliveryInv, JobsSound
<1>6. Underway' = Underway
  BY <1>1 DEF Underway
<1>7. Served'
  BY <1>1, <1>6 DEF DeliveryInv, Served, Owed
<1>8. PICK answer \in {"ok", "4xx", "5xx"} :
         outcomes' = [outcomes EXCEPT ![Outcome(answer)] = @ + 1]
  BY DEF Post
<1>9. Outcome(answer) \in {"success", "client_error", "exhausted"}
  BY DEF Outcome
<1>10. /\ outcomes' \in [{"success", "client_error", "exhausted"} -> Nat]
       /\ outcomes'.success + outcomes'.client_error + outcomes'.exhausted
          = (outcomes.success + outcomes.client_error + outcomes.exhausted) + 1
  BY <1>8, <1>9 DEF DeliveryInv
<1> QED  BY <1>1, <1>4, <1>5, <1>7, <1>10 DEF DeliveryInv

(* The invariant of the bus, its streams and its dispatcher.               *)
THEOREM BusInvariance == BusSpec => []BusIInv
<1>1. BusInit => BusIInv
  <2> SUFFICES ASSUME BusInit PROVE SentOK /\ StreamInv /\ DeliveryInv
    BY BusHalves
  <2>1. SentOK
    BY BusAssumption DEF BusInit, SentOK
  <2>2. StreamInv
    <3>1. FALSE \in BOOLEAN /\ <<>> \in Seq(BusItem) /\ 0 \in 0 .. MaxSent
      BY BusAssumption
    <3>2. Closed \in Stream /\ Closed.open = FALSE
      BY <3>1 DEF Closed, Stream, BusItem
    <3> QED  BY <3>2 DEF BusInit, StreamInv
  <2>3. /\ Cardinality({}) = 0 /\ IsFiniteSet({})
    BY FS_EmptySet
  <2>4. JobsSound /\ Served
    BY <2>3 DEF BusInit, JobsSound, Served
  <2>5. /\ dispatcher.pos = 0 /\ dispatcher.dropped = 0 /\ Len(sent) = 0
        /\ dispatcher \in [alive : BOOLEAN, pos : 0 .. MaxSent, dropped : 0 .. MaxSent]
        /\ born \in [Subscriptions -> 0 .. MaxSent + 1]
    BY BusAssumption DEF BusInit
  <2>6. /\ outcomes \in [{"success", "client_error", "exhausted"} -> Nat]
        /\ outcomes.success = 0 /\ outcomes.client_error = 0 /\ outcomes.exhausted = 0
    BY DEF BusInit
  <2>7. hooks = {} /\ handled = {} /\ posted = {}
    BY DEF BusInit
  <2>8. DeliveryInv
    BY <2>3, <2>4, <2>5, <2>6, <2>7 DEF DeliveryInv
  <2> QED  BY <2>1, <2>2, <2>8
<1>2. BusIInv /\ [BusNext]_busVars => BusIInv'
  <2> SUFFICES ASSUME BusIInv, [BusNext]_busVars
               PROVE  SentOK' /\ StreamInv' /\ DeliveryInv'
    <3>1. (SentOK /\ StreamInv /\ DeliveryInv)' => BusIInv'
      BY BusHalves, PTL
    <3> QED  BY <3>1
  <2>1. SentOK /\ StreamInv /\ DeliveryInv /\ BusTypeOK
    BY BusHalves DEF BusIInv
  <2>2. ASSUME UNCHANGED <<sent, stream>> PROVE SentOK' /\ StreamInv'
    BY <2>1, <2>2 DEF SentOK, StreamInv, Follows
  <2>3. CASE \E ev \in Published : Publish(ev)
    BY <2>1, <2>3, StreamsPublish, DeliveriesPublish
  <2>4. CASE \E c \in Client : SseConnect(c) \/ SseDisconnect(c) \/ SseSend(c)
    <3>1. UNCHANGED <<sent, hooks, born, dispatcher, handled, jobs, posted, outcomes>>
      BY <2>4 DEF SseConnect, SseDisconnect, SseSend, delivery
    <3>2. DeliveryInv' /\ SentOK'
      BY <2>1, <3>1, DeliveriesKept DEF SentOK
    <3>3. StreamInv'
      BY <2>1, <2>4, StreamsConnect, StreamsDisconnect, StreamsSend
    <3> QED  BY <3>2, <3>3
  <2>5. CASE \E s \in Subscriptions : MemAdd(s)
    <3>1. DeliveryInv'
      BY <2>1, <2>5, DeliveriesAdd
    <3> QED  BY <2>2, <2>5, <3>1 DEF MemAdd
  <2>6. CASE \E s \in Subscriptions : MemRemove(s)
    <3>1. /\ hooks' \subseteq hooks
          /\ UNCHANGED <<sent, stream, born, dispatcher, handled, jobs, posted, outcomes>>
      BY <2>6 DEF MemRemove, delivery
    <3> QED  BY <2>1, <2>2, <3>1, DeliveriesKept
  <2>7. CASE Dispatch
    BY <2>1, <2>2, <2>7, DeliveriesDispatch DEF Dispatch
  <2>8. CASE CancelDispatcher
    BY <2>1, <2>2, <2>8, DeliveriesCancel DEF CancelDispatcher
  <2>9. CASE \E j \in jobs : Post(j)
    <3>1. UNCHANGED <<sent, stream>>
      BY <2>9 DEF Post
    <3> QED  BY <2>1, <2>2, <2>9, <3>1, DeliveriesPost
  <2>10. CASE UNCHANGED busVars
    BY <2>1, <2>2, <2>10, DeliveriesKept DEF busVars
  <2> QED
    BY <2>3, <2>4, <2>5, <2>6, <2>7, <2>8, <2>9, <2>10 DEF BusNext
<1> QED  BY <1>1, <1>2, PTL DEF BusSpec

(* The variables of the bus and of its receivers keep their types.         *)
THEOREM BusTypeCorrect == BusSpec => []BusTypeOK
<1>1. BusIInv => BusTypeOK
  BY DEF BusIInv
<1> QED  BY <1>1, BusInvariance, PTL

(* events.rs and the dispatcher: no overflow of the ring is silent, every  *)
(* hook gets what it is owed of the events that were seen, and every       *)
(* delivery has one outcome.                                               *)
THEOREM NothingIsLost == BusSpec => []NothingLostSilently
<1>1. BusIInv => NothingLostSilently
  BY DEF BusIInv
<1> QED  BY <1>1, BusInvariance, PTL

-----------------------------------------------------------------------------
(* The rate limiters.                                                      *)

USE BudgetAssumption, NoneAssumption

-----------------------------------------------------------------------------
(* Arithmetic.                                                             *)

\* Rounding up to whole seconds never loses anything.
LEMMA RoundedUp ==
  ASSUME NEW x \in Nat
  PROVE  /\ ((x + Sec - 1) \div Sec) * Sec \in Nat
         /\ ((x + Sec - 1) \div Sec) * Sec >= x
<1> DEFINE d == (x + Sec - 1) \div Sec
<1>1. x + Sec - 1 \in Nat
  BY SMT
<1>2. d \in Nat /\ d * Sec <= x + Sec - 1 /\ x + Sec - 1 < (d + 1) * Sec
  BY <1>1, SMT
<1>3. (d + 1) * Sec = d * Sec + Sec
  BY <1>2, SMT
<1>4. d * Sec \in Nat
  BY <1>2, SMT
<1> HIDE DEF d
<1>5. QED
  BY <1>2, <1>3, <1>4, SMT DEF d

-----------------------------------------------------------------------------
(* What each action makes of the level of a bucket.                        *)

\* A level is a number of tokens between nothing and a full bucket.
LEMMA LevelType ==
  ASSUME TypeOK, Dated, NEW k \in Caller
  PROVE  Refilled(k) \in 0 .. Cap
<1>1. CASE bucket[k] = None
  BY <1>1, SMT DEF Refilled, TokensAt
<1>2. CASE bucket[k] # None
  <2>1. bucket[k].tokens \in 0 .. Cap /\ bucket[k].last_refill \in Nat
    BY <1>2 DEF TypeOK, Bucket
  <2>2. bucket[k].last_refill <= now /\ now \in Nat
    BY <1>2 DEF Dated, TypeOK
  <2>3. QED
    BY <1>2, <2>1, <2>2, SMT DEF Refilled, TokensAt, Smaller, Larger
<1>3. QED
  BY <1>1, <1>2

\* The level now of a bucket that is there.
LEMMA LevelNow ==
  ASSUME TypeOK, Dated, NEW k \in Caller, bucket[k] # None
  PROVE  Refilled(k) = Smaller(Cap, bucket[k].tokens + (now - bucket[k].last_refill))
<1>1. bucket[k].last_refill \in Nat /\ bucket[k].last_refill <= now /\ now \in Nat
  BY DEF TypeOK, Dated, Bucket
<1>2. Larger(0, now - bucket[k].last_refill) = now - bucket[k].last_refill
  BY <1>1, SMT DEF Larger
<1>3. QED
  BY <1>2 DEF Refilled, TokensAt

\* What a call finds as of its own clock: no more than there is, and short
\* of it by no more than it has waited.
LEMMA LateLevel ==
  ASSUME TypeOK, Dated, NEW k \in Caller, NEW t \in Nat, t <= now
  PROVE  /\ TokensAt(k, t) \in 0 .. Cap
         /\ TokensAt(k, t) <= Refilled(k)
         /\ Refilled(k) <= TokensAt(k, t) + (now - t)
<1>1. now \in Nat
  BY DEF TypeOK
<1>2. CASE bucket[k] = None
  <2>1. TokensAt(k, t) = Cap /\ Refilled(k) = Cap
    BY <1>2 DEF TokensAt, Refilled
  <2>2. QED
    BY <1>1, <2>1, SMT
<1>3. CASE bucket[k] # None
  <2>1. bucket[k].tokens \in 0 .. Cap /\ bucket[k].last_refill \in Nat
        /\ bucket[k].last_refill <= now
    BY <1>3 DEF TypeOK, Dated, Bucket
  <2>2. Refilled(k) = Smaller(Cap, bucket[k].tokens + (now - bucket[k].last_refill))
    BY <1>3, LevelNow
  <2>3. TokensAt(k, t)
        = Smaller(Cap, bucket[k].tokens + Larger(0, t - bucket[k].last_refill))
    BY <1>3 DEF TokensAt
  <2>4. QED
    BY <1>1, <2>1, <2>2, <2>3, SMT DEF Smaller, Larger
<1>4. QED
  BY <1>2, <1>3

\* The time since its clock is credited again to a bucket that a call leaves.
LEMMA SettledLevel ==
  ASSUME TypeOK, Dated, NEW c \in Thread, call[c] # None, NEW k, k = call[c].who,
         NEW n, n = TokensAt(k, call[c].clock), NEW paid \in Nat, paid <= n,
         Settle(c, n - paid)
  PROVE  /\ k \in Caller /\ Waited(c) \in 0 .. MaxWait /\ n \in 0 .. Cap
         /\ n <= Refilled(k) /\ Refilled(k) <= n + Waited(c)
         /\ Refilled(k)' = Smaller(Cap, (n - paid) + Waited(c))
         /\ \A j \in Caller \ {k} : Refilled(j)' = Refilled(j)
         /\ now' = now
<1>1. /\ k \in Caller /\ call[c].clock \in Nat /\ call[c].clock <= now
      /\ Waited(c) <= MaxWait /\ now \in Nat
  BY DEF TypeOK, Dated, Call
<1>2. Waited(c) = now - call[c].clock /\ Waited(c) \in 0 .. MaxWait
  BY <1>1, SMT DEF Waited
<1>3. n \in 0 .. Cap /\ n <= Refilled(k) /\ Refilled(k) <= n + Waited(c)
  BY <1>1, <1>2, LateLevel
<1>4. /\ bucket' = [bucket EXCEPT ![k] = [tokens |-> n - paid, last_refill |-> call[c].clock]]
      /\ now' = now
  BY DEF Settle
<1>5. n - paid \in 0 .. Cap
  BY <1>3, SMT
<1>6. bucket'[k] = [tokens |-> n - paid, last_refill |-> call[c].clock]
  BY <1>1, <1>4 DEF TypeOK
<1>7. bucket'[k] # None
  BY <1>1, <1>5, <1>6
<1>8. Refilled(k)' = Smaller(Cap, (n - paid) + Larger(0, now - call[c].clock))
  BY <1>4, <1>6, <1>7 DEF Refilled, TokensAt
<1>9. Larger(0, now - call[c].clock) = Waited(c)
  BY <1>1, <1>2, SMT DEF Larger
<1>10. \A j \in Caller \ {k} : bucket'[j] = bucket[j]
  BY <1>4 DEF TypeOK
<1>11. \A j \in Caller \ {k} : Refilled(j)' = Refilled(j)
  BY <1>4, <1>10 DEF Refilled, TokensAt
<1>12. QED
  BY <1>1, <1>2, <1>3, <1>4, <1>8, <1>9, <1>11

\* A stale bucket is a full one: dropping it changes no level.
LEMMA EvictedLevel ==
  ASSUME TypeOK, Dated, NEW k \in Caller, Evict(k)
  PROVE  \A j \in Caller : Refilled(j)' = Refilled(j)
<1>1. bucket'[k] = None /\ \A j \in Caller \ {k} : bucket'[j] = bucket[j]
  BY DEF Evict, TypeOK
<1>2. Refilled(k)' = Cap
  BY <1>1 DEF Refilled, TokensAt
<1>3. Refilled(k) = Cap
  <2>1. bucket[k] # None /\ now - bucket[k].last_refill >= Stale
    BY DEF Evict, Stalled
  <2>2. bucket[k].tokens \in 0 .. Cap /\ bucket[k].last_refill \in Nat /\ now \in Nat
    BY <2>1 DEF TypeOK, Bucket
  <2>3. QED
    BY <2>1, <2>2, LevelNow, SMT DEF Smaller
<1>4. \A j \in Caller \ {k} : Refilled(j)' = Refilled(j)
  BY <1>1 DEF Refilled, TokensAt, Evict
<1>5. QED
  BY <1>2, <1>3, <1>4

\* Time fills every bucket by one unit.
LEMMA TickedLevel ==
  ASSUME TypeOK, Dated, Tick, NEW k \in Caller
  PROVE  Refilled(k)' = Smaller(Cap, Refilled(k) + 1)
<1>1. bucket' = bucket /\ now' = now + 1 /\ now \in Nat
  BY DEF Tick, TypeOK
<1>2. CASE bucket[k] = None
  <2>1. Refilled(k)' = Cap /\ Refilled(k) = Cap
    BY <1>1, <1>2 DEF Refilled, TokensAt
  <2>2. QED
    BY <2>1, SMT DEF Smaller
<1>3. CASE bucket[k] # None
  <2>1. bucket[k].tokens \in 0 .. Cap /\ bucket[k].last_refill \in Nat
        /\ bucket[k].last_refill <= now
    BY <1>3 DEF TypeOK, Dated, Bucket
  <2>2. Refilled(k) = Smaller(Cap, bucket[k].tokens + (now - bucket[k].last_refill))
    BY <1>3, LevelNow
  <2>3. Refilled(k)' = Smaller(Cap, bucket[k].tokens + ((now + 1) - bucket[k].last_refill))
    <3>1. Refilled(k)' = IF bucket'[k] = None THEN Cap
            ELSE Smaller(Cap, bucket'[k].tokens + Larger(0, now' - bucket'[k].last_refill))
      BY Zenon DEF Refilled, TokensAt
    <3>2. Larger(0, (now + 1) - bucket[k].last_refill) = (now + 1) - bucket[k].last_refill
      BY <1>1, <2>1, SMT DEF Larger
    <3>3. QED
      BY <1>1, <1>3, <3>1, <3>2, Zenon
  <2>4. QED
    BY <1>1, <2>1, <2>2, <2>3, SMT DEF Smaller
<1>4. QED
  BY <1>2, <1>3

-----------------------------------------------------------------------------
(* The inductive invariant.                                                *)

Inv == TypeOK /\ Dated /\ WindowAccount /\ RetryCovers

\* The wait that a refusal names covers what is missing of a token.
LEMMA WaitType ==
  ASSUME NEW t \in 0 .. Cap, t < Cost
  PROVE  Wait(t) \in Nat /\ t + Wait(t) >= Cost
<1>1. Cost - t \in Nat
  BY SMT
<1>2. /\ (((Cost - t) + Sec - 1) \div Sec) * Sec \in Nat
      /\ (((Cost - t) + Sec - 1) \div Sec) * Sec >= Cost - t
  BY <1>1, RoundedUp, Zenon
<1> DEFINE w == (((Cost - t) + Sec - 1) \div Sec) * Sec
<1>3. Wait(t) = Larger(w, Sec)
  BY Zenon DEF Wait
<1> HIDE DEF w
<1>4. w \in Nat /\ w >= Cost - t
  BY <1>2, Zenon DEF w
<1>5. QED
  BY <1>3, <1>4, SMT DEF Larger

\* What the two outcomes of a call have in common: it pays, and the wait is
\* booked.
Paid(c, k, n, paid) ==
  /\ call[c] # None
  /\ k = call[c].who
  /\ n = TokensAt(k, call[c].clock)
  /\ paid <= n
  /\ Settle(c, n - paid)
  /\ win' = [win EXCEPT ![k].spent = @ + paid, ![k].late = @ + Waited(c)]

LEMMA AdmitPays ==
  ASSUME NEW c \in Thread, Admit(c)
  PROVE  \E k, n : /\ Paid(c, k, n, Cost) /\ n >= Cost
                   /\ retry' = [retry EXCEPT ![k] = None]
<1>1. WITNESS call[c].who, TokensAt(call[c].who, call[c].clock)
<1>2. QED
  BY Zenon DEF Admit, Paid

LEMMA RefusePays ==
  ASSUME TypeOK, Dated, NEW c \in Thread, Refuse(c)
  PROVE  \E k, n : /\ Paid(c, k, n, 0) /\ n < Cost
                   /\ retry' = [retry EXCEPT ![k] = now + Wait(n)]
<1> DEFINE k == call[c].who
           n == TokensAt(k, call[c].clock)
<1>1. call[c] # None /\ n < Cost /\ Settle(c, n) /\ retry' = [retry EXCEPT ![k] = now + Wait(n)]
      /\ win' = [win EXCEPT ![k].late = @ + Waited(c)]
  BY DEF Refuse
<1>2. k \in Caller /\ call[c].clock \in Nat /\ call[c].clock <= now
  BY <1>1 DEF TypeOK, Dated, Call
<1>3. n \in 0 .. Cap
  BY <1>2, LateLevel
<1>4. n - 0 = n /\ 0 <= n
  BY <1>3, SMT
<1>5. win' = [win EXCEPT ![k].spent = @ + 0, ![k].late = @ + Waited(c)]
  <2>1. win[k].spent + 0 = win[k].spent /\ win[k] \in Window
    BY <1>2, SMT DEF TypeOK, Window
  <2>2. [win[k] EXCEPT !.spent = @ + 0, !.late = @ + Waited(c)]
        = [win[k] EXCEPT !.late = @ + Waited(c)]
    BY <2>1 DEF Window
  <2>3. win \in [Caller -> Window]
    BY DEF TypeOK
  <2>4. QED
    BY <1>1, <2>2, <2>3
<1>6. Paid(c, k, n, 0)
  BY <1>1, <1>4, <1>5 DEF Paid
<1>7. QED
  BY <1>1, <1>6

\* A call that pays keeps the types and the dates.
LEMMA PaidTypes ==
  ASSUME TypeOK, Dated, NEW c \in Thread, NEW k, NEW n, NEW paid \in Nat,
         Paid(c, k, n, paid)
  PROVE  /\ bucket' \in [Caller -> Bucket \cup {None}] /\ now' \in Nat
         /\ call' \in [Thread -> Call \cup {None}] /\ win' \in [Caller -> Window]
         /\ Dated'
<1>1. /\ k \in Caller /\ Waited(c) \in 0 .. MaxWait /\ n \in 0 .. Cap /\ now' = now
  BY SettledLevel DEF Paid
<1>2. /\ bucket' = [bucket EXCEPT ![k] = [tokens |-> n - paid, last_refill |-> call[c].clock]]
      /\ call' = [call EXCEPT ![c] = None]
      /\ win' = [win EXCEPT ![k].spent = @ + paid, ![k].late = @ + Waited(c)]
  BY DEF Paid, Settle
<1>3. n - paid \in 0 .. Cap
  BY <1>1, SMT DEF Paid
<1>4. call[c].clock \in Nat /\ call[c].clock <= now /\ now \in Nat
  BY DEF TypeOK, Dated, Call, Paid
<1>5. bucket' \in [Caller -> Bucket \cup {None}]
  BY <1>2, <1>3, <1>4 DEF TypeOK, Bucket
<1>6. call' \in [Thread -> Call \cup {None}]
  BY <1>2 DEF TypeOK
<1>7. win' \in [Caller -> Window] /\ \A j \in Caller : win'[j].since = win[j].since
  <2>1. win \in [Caller -> Window] /\ win[k] \in Window
    BY <1>1 DEF TypeOK
  <2>2. win[k].spent + paid \in Nat /\ win[k].late + Waited(c) \in Nat
    BY <1>1, <2>1, SMT DEF Window
  <2>3. win'[k] = [since |-> win[k].since, spent |-> win[k].spent + paid,
                   late |-> win[k].late + Waited(c)]
    BY <1>1, <1>2, <2>1 DEF Window
  <2>4. win'[k] \in Window /\ win'[k].since = win[k].since
    BY <2>1, <2>2, <2>3 DEF Window
  <2>5. win' = [j \in Caller |-> win'[j]] /\ \A j \in Caller \ {k} : win'[j] = win[j]
    BY <1>2, <2>1
  <2>6. QED
    BY <2>1, <2>4, <2>5
<1>8. \A j \in Caller : bucket'[j] # None => bucket'[j].last_refill <= now
  BY <1>1, <1>2, <1>4 DEF TypeOK, Dated
<1>9. \A d \in Thread : call'[d] # None => call'[d] = call[d] /\ call[d] # None
  BY <1>2 DEF TypeOK
<1>10. Dated'
  BY <1>1, <1>7, <1>8, <1>9 DEF Dated, Waited
<1>11. QED
  BY <1>1, <1>4, <1>5, <1>6, <1>7, <1>10

\* Every step keeps the types and the dates.
LEMMA TypesKept ==
  ASSUME Inv, [Next]_vars
  PROVE  TypeOK' /\ Dated'
<1> USE DEF Inv
<1>1. CASE Tick
  <2>1. now' = now + 1 /\ now \in Nat /\ UNCHANGED <<bucket, call, win, retry>>
        /\ \A c \in Thread : call[c] # None => Waited(c) < MaxWait
    BY <1>1 DEF Tick, TypeOK
  <2>2. TypeOK'
    BY <2>1 DEF TypeOK
  <2>3. \A k \in Caller : /\ bucket[k] # None => bucket[k].last_refill \in Nat
                          /\ win[k].since \in Nat
    BY DEF TypeOK, Bucket, Window
  <2>4. \A c \in Thread : call[c] # None => call[c].clock \in Nat
    BY DEF TypeOK, Call
  <2>5. QED
    BY <2>1, <2>2, <2>3, <2>4, SMT DEF Dated, Waited
<1>2. CASE Restart
  <2>1. now \in Nat /\ now' = now
    BY <1>2 DEF Restart, TypeOK
  <2>2. Opened \in Window /\ Opened.since = now
    BY <2>1 DEF Opened, Window
  <2>3. TypeOK'
    BY <1>2, <2>1, <2>2 DEF Restart, TypeOK
  <2>4. Dated'
    BY <1>2, <2>1, <2>2, SMT DEF Restart, Dated
  <2>5. QED
    BY <2>3, <2>4
<1>3. ASSUME NEW c \in Thread, Admit(c)
      PROVE  TypeOK' /\ Dated'
  <2>1. PICK k, n : Paid(c, k, n, Cost) /\ retry' = [retry EXCEPT ![k] = None]
    BY <1>3, AdmitPays
  <2>2. retry' \in [Caller -> Nat \cup {None}]
    BY <2>1 DEF TypeOK
  <2>3. QED
    BY <2>1, <2>2, PaidTypes DEF TypeOK
<1>4. ASSUME NEW c \in Thread, Refuse(c)
      PROVE  TypeOK' /\ Dated'
  <2>1. PICK k, n : Paid(c, k, n, 0) /\ n < Cost /\ retry' = [retry EXCEPT ![k] = now + Wait(n)]
    BY <1>4, RefusePays
  <2>2. n \in 0 .. Cap
    BY <2>1, SettledLevel DEF Paid
  <2>3. now + Wait(n) \in Nat
    BY <2>1, <2>2, WaitType DEF TypeOK
  <2>4. retry' \in [Caller -> Nat \cup {None}]
    BY <2>1, <2>3 DEF TypeOK
  <2>5. QED
    BY <2>1, <2>4, PaidTypes DEF TypeOK
<1>5. ASSUME NEW c \in Thread, ReadClock(c)
      PROVE  TypeOK' /\ Dated'
  <2>1. PICK k \in Caller : call' = [call EXCEPT ![c] = [who |-> k, clock |-> now]]
    BY <1>5 DEF ReadClock
  <2>2. now' = now /\ now \in Nat /\ UNCHANGED <<bucket, win, retry>>
    BY <1>5 DEF ReadClock, TypeOK
  <2>3. TypeOK'
    BY <2>1, <2>2 DEF TypeOK, Call
  <2>4. \A d \in Thread : call'[d] # None => call'[d].clock <= now /\ now - call'[d].clock <= MaxWait
    <3>1. ASSUME NEW d \in Thread, d # c, call'[d] # None
          PROVE  call'[d].clock <= now /\ now - call'[d].clock <= MaxWait
      BY <2>1, <3>1 DEF TypeOK, Dated, Waited
    <3>2. call'[c].clock = now
      BY <2>1 DEF TypeOK
    <3>3. now <= now /\ now - now <= MaxWait
      BY <2>2, SMT
    <3>4. QED
      BY <3>1, <3>2, <3>3
  <2>5. Dated'
    BY <2>2, <2>4 DEF Dated, Waited
  <2>6. QED
    BY <2>3, <2>5
<1>6. ASSUME NEW k \in Caller, Evict(k)
      PROVE  TypeOK' /\ Dated'
  BY <1>6 DEF Evict, TypeOK, Dated, Waited
<1>7. ASSUME NEW k \in Caller, OpenWindow(k)
      PROVE  TypeOK' /\ Dated'
  <2>1. now \in Nat /\ now' = now
    BY <1>7 DEF OpenWindow, TypeOK
  <2>2. Opened \in Window /\ Opened.since = now
    BY <2>1 DEF Opened, Window
  <2>3. QED
    BY <1>7, <2>1, <2>2, SMT DEF OpenWindow, TypeOK, Dated, Waited
<1>8. CASE UNCHANGED vars
  BY <1>8 DEF vars, TypeOK, Dated, Waited
<1>9. QED
  BY <1>1, <1>2, <1>3, <1>4, <1>5, <1>6, <1>7, <1>8 DEF Next

\* A call that pays: what it takes goes from the bucket to the account, and
\* what it is given back for its wait is booked as late.
LEMMA PaidAccount ==
  ASSUME TypeOK, Dated, NEW c \in Thread, NEW k, NEW n, NEW paid \in Nat,
         Paid(c, k, n, paid)
  PROVE  /\ k \in Caller /\ now' = now
         /\ win'[k] = [since |-> win[k].since, spent |-> win[k].spent + paid,
                       late |-> win[k].late + Waited(c)]
         /\ Refilled(k)' \in 0 .. Cap /\ Refilled(k)' + paid <= Refilled(k) + Waited(c)
         /\ \A j \in Caller \ {k} : win'[j] = win[j] /\ Refilled(j)' = Refilled(j)
<1>1. /\ k \in Caller /\ Waited(c) \in 0 .. MaxWait /\ n \in 0 .. Cap /\ now' = now
      /\ n <= Refilled(k) /\ Refilled(k)' = Smaller(Cap, (n - paid) + Waited(c))
      /\ \A j \in Caller \ {k} : Refilled(j)' = Refilled(j)
  BY SettledLevel DEF Paid
<1>2. win' = [win EXCEPT ![k].spent = @ + paid, ![k].late = @ + Waited(c)]
  BY DEF Paid
<1>3. win \in [Caller -> Window] /\ win[k] \in Window
  BY <1>1 DEF TypeOK
<1>4. win'[k] = [since |-> win[k].since, spent |-> win[k].spent + paid,
                 late |-> win[k].late + Waited(c)]
  BY <1>1, <1>2, <1>3 DEF Window
<1>5. \A j \in Caller \ {k} : win'[j] = win[j]
  BY <1>2, <1>3
<1>6. Refilled(k) \in 0 .. Cap
  BY <1>1, LevelType
<1>7. Refilled(k)' \in 0 .. Cap /\ Refilled(k)' + paid <= Refilled(k) + Waited(c)
  <2>1. n - paid \in 0 .. Cap
    BY <1>1, SMT DEF Paid
  <2>2. QED
    BY <1>1, <1>6, <2>1, SMT DEF Smaller
<1>8. QED
  BY <1>1, <1>4, <1>5, <1>7

\* What was admitted in a window and what is left never exceed what a full
\* bucket, the inflow and the waits allow.
LEMMA AccountKept ==
  ASSUME Inv, [Next]_vars, TypeOK', Dated'
  PROVE  WindowAccount'
<1> USE DEF Inv
<1> DEFINE Booked(w, lv, tm) == w.spent + lv <= Cap + (tm - w.since) + w.late
<1> SUFFICES ASSUME NEW j \in Caller
             PROVE  Booked(win'[j], Refilled(j)', now')
  BY Zenon DEF WindowAccount
<1>0. /\ Booked(win[j], Refilled(j), now)
      /\ win[j].spent \in Nat /\ win[j].since \in Nat /\ win[j].late \in Nat /\ now \in Nat
      /\ Refilled(j) \in 0 .. Cap /\ win[j].since <= now
  <2>1. win[j] \in Window
    BY DEF TypeOK
  <2>2. Refilled(j) \in 0 .. Cap
    BY LevelType
  <2>3. QED
    BY <2>1, <2>2 DEF WindowAccount, TypeOK, Window, Dated
<1>1. CASE Tick
  <2>1. Refilled(j)' = Smaller(Cap, Refilled(j) + 1)
    BY <1>1, TickedLevel
  <2>2. now' = now + 1 /\ win' = win
    BY <1>1 DEF Tick
  <2>3. QED
    BY <1>0, <2>1, <2>2, SMT DEF Smaller
<1>2. CASE Restart
  <2>1. /\ Refilled(j)' = Cap /\ now' = now
        /\ win'[j] = [since |-> now, spent |-> 0, late |-> 0]
    BY <1>2 DEF Restart, Opened, Refilled, TokensAt
  <2>2. QED
    BY <1>0, <2>1, SMT
<1>3. ASSUME NEW c \in Thread, NEW k, NEW n, NEW paid \in Nat, Paid(c, k, n, paid)
      PROVE  Booked(win'[j], Refilled(j)', now')
  <2>1. CASE j = k
    <3>1. /\ win'[j] = [since |-> win[j].since, spent |-> win[j].spent + paid,
                        late |-> win[j].late + Waited(c)]
          /\ Refilled(j)' \in 0 .. Cap /\ Refilled(j)' + paid <= Refilled(j) + Waited(c)
          /\ now' = now
      BY <1>3, <2>1, PaidAccount
    <3>2. Waited(c) \in 0 .. MaxWait
      BY <1>3, SettledLevel DEF Paid
    <3>3. QED
      BY <1>0, <3>1, <3>2, SMT
  <2>2. CASE j # k
    <3>1. win'[j] = win[j] /\ Refilled(j)' = Refilled(j) /\ now' = now
      <4>1. now' = now /\ \A i \in Caller \ {k} : win'[i] = win[i] /\ Refilled(i)' = Refilled(i)
        BY <1>3, PaidAccount
      <4>2. QED
        BY <2>2, <4>1
    <3>2. QED
      BY <1>0, <3>1
  <2>3. QED
    BY <2>1, <2>2
<1>4. ASSUME NEW c \in Thread, Admit(c) \/ Refuse(c)
      PROVE  Booked(win'[j], Refilled(j)', now')
  <2>1. 0 \in Nat /\ Cost \in Nat
    BY SMT
  <2>2. CASE Admit(c)
    BY <1>3, <2>1, <2>2, AdmitPays
  <2>3. CASE Refuse(c)
    BY <1>3, <2>1, <2>3, RefusePays
  <2>4. QED
    BY <1>4, <2>2, <2>3
<1>5. ASSUME NEW c \in Thread, ReadClock(c)
      PROVE  Booked(win'[j], Refilled(j)', now')
  BY <1>0, <1>5 DEF ReadClock, Refilled, TokensAt
<1>6. ASSUME NEW k \in Caller, Evict(k)
      PROVE  Booked(win'[j], Refilled(j)', now')
  <2>1. Refilled(j)' = Refilled(j) /\ now' = now /\ win' = win
    BY <1>6, EvictedLevel DEF Evict
  <2>2. QED
    BY <1>0, <2>1
<1>7. ASSUME NEW k \in Caller, OpenWindow(k)
      PROVE  Booked(win'[j], Refilled(j)', now')
  <2>1. Refilled(j)' = Refilled(j) /\ now' = now
    BY <1>7 DEF OpenWindow, Refilled, TokensAt
  <2>2. win'[j] = win[j] \/ win'[j] = [since |-> now, spent |-> 0, late |-> 0]
    BY <1>7 DEF OpenWindow, TypeOK, Opened
  <2>3. QED
    BY <1>0, <2>1, <2>2, SMT
<1>8. CASE UNCHANGED vars
  <2>1. Refilled(j)' = Refilled(j) /\ now' = now /\ win' = win
    BY <1>8 DEF vars, Refilled, TokensAt
  <2>2. QED
    BY <1>0, <2>1
<1>9. QED
  BY <1>1, <1>2, <1>4, <1>5, <1>6, <1>7, <1>8 DEF Next

\* What a refused caller lacks of a token is covered by the time that is
\* left until the moment it was told to come back.
LEMMA RetryKept ==
  ASSUME Inv, [Next]_vars, TypeOK', Dated'
  PROVE  RetryCovers'
<1> USE DEF Inv
<1> DEFINE Covered(r, lv, tm) == lv >= Cost \/ lv + (r - tm) >= Cost
<1> SUFFICES ASSUME NEW j \in Caller, retry'[j] # None
             PROVE  Covered(retry'[j], Refilled(j)', now')
  BY Zenon DEF RetryCovers
<1>0. /\ retry[j] # None => retry[j] \in Nat /\ Covered(retry[j], Refilled(j), now)
      /\ now \in Nat /\ Refilled(j) \in 0 .. Cap
  BY LevelType DEF RetryCovers, TypeOK
<1>1. CASE Tick
  <2>1. Refilled(j)' = Smaller(Cap, Refilled(j) + 1)
    BY <1>1, TickedLevel
  <2>2. now' = now + 1 /\ retry' = retry
    BY <1>1 DEF Tick
  <2>3. QED
    BY <1>0, <2>1, <2>2, SMT DEF Smaller
<1>2. CASE Restart
  BY <1>2 DEF Restart
<1>3. ASSUME NEW c \in Thread, Admit(c)
      PROVE  Covered(retry'[j], Refilled(j)', now')
  <2>1. PICK k, n : Paid(c, k, n, Cost) /\ retry' = [retry EXCEPT ![k] = None]
    BY <1>3, AdmitPays
  <2>2. Cost \in Nat
    BY SMT
  <2>3. /\ k \in Caller /\ now' = now
        /\ \A i \in Caller \ {k} : Refilled(i)' = Refilled(i)
    BY <2>1, <2>2, PaidAccount
  <2>4. j # k /\ retry'[j] = retry[j]
    BY <2>1, <2>3 DEF TypeOK
  <2>5. QED
    BY <1>0, <2>3, <2>4
<1>4. ASSUME NEW c \in Thread, Refuse(c)
      PROVE  Covered(retry'[j], Refilled(j)', now')
  <2>1. PICK k, n : Paid(c, k, n, 0) /\ n < Cost /\ retry' = [retry EXCEPT ![k] = now + Wait(n)]
    BY <1>4, RefusePays
  <2>2. /\ k \in Caller /\ Waited(c) \in 0 .. MaxWait /\ n \in 0 .. Cap /\ now' = now
        /\ Refilled(k)' = Smaller(Cap, (n - 0) + Waited(c))
        /\ \A i \in Caller \ {k} : Refilled(i)' = Refilled(i)
    BY <2>1, SettledLevel DEF Paid
  <2>3. CASE j = k
    <3>1. retry'[j] = now + Wait(n)
      BY <2>1, <2>3 DEF TypeOK
    <3>2. Wait(n) \in Nat /\ n + Wait(n) >= Cost
      BY <2>1, <2>2, WaitType
    <3>3. Refilled(j)' = Smaller(Cap, (n - 0) + Waited(c)) /\ now' = now
      BY <2>2, <2>3
    <3>4. Refilled(j)' >= n /\ Refilled(j)' \in Nat
      BY <2>2, <3>3, SMT DEF Smaller
    <3>5. QED
      BY <1>0, <2>2, <3>1, <3>2, <3>3, <3>4, SMT
  <2>4. CASE j # k
    <3>1. retry'[j] = retry[j]
      BY <2>1, <2>4 DEF TypeOK
    <3>2. QED
      BY <1>0, <2>2, <2>4, <3>1
  <2>5. QED
    BY <2>3, <2>4
<1>5. ASSUME NEW c \in Thread, ReadClock(c)
      PROVE  Covered(retry'[j], Refilled(j)', now')
  BY <1>0, <1>5 DEF ReadClock, Refilled, TokensAt
<1>6. ASSUME NEW k \in Caller, Evict(k)
      PROVE  Covered(retry'[j], Refilled(j)', now')
  <2>1. Refilled(j)' = Refilled(j) /\ now' = now /\ retry' = retry
    BY <1>6, EvictedLevel DEF Evict
  <2>2. QED
    BY <1>0, <2>1
<1>7. ASSUME NEW k \in Caller, OpenWindow(k)
      PROVE  Covered(retry'[j], Refilled(j)', now')
  <2>1. Refilled(j)' = Refilled(j) /\ now' = now /\ retry' = retry
    BY <1>7 DEF OpenWindow, Refilled, TokensAt
  <2>2. QED
    BY <1>0, <2>1
<1>8. CASE UNCHANGED vars
  <2>1. Refilled(j)' = Refilled(j) /\ now' = now /\ retry' = retry
    BY <1>8 DEF vars, Refilled, TokensAt
  <2>2. QED
    BY <1>0, <2>1
<1>9. QED
  BY <1>1, <1>2, <1>3, <1>4, <1>5, <1>6, <1>7, <1>8 DEF Next

\* The invariant is inductive.
THEOREM Invariance == Spec => []Inv
<1>1. Init => Inv
  <2> SUFFICES ASSUME Init PROVE Inv
    OBVIOUS
  <2>1. now = 0 /\ \A k \in Caller : /\ Refilled(k) = Cap /\ retry[k] = None
                                     /\ win[k] = [since |-> 0, spent |-> 0, late |-> 0]
    BY DEF Init, Refilled, TokensAt, Opened
  <2>2. win \in [Caller -> Window]
    BY <2>1 DEF Init, Window
  <2>3. TypeOK
    BY <2>2 DEF Init, TypeOK
  <2>4. Dated
    BY <2>1, SMT DEF Init, Dated
  <2>5. WindowAccount
    <3> SUFFICES ASSUME NEW k \in Caller
                 PROVE  win[k].spent + Refilled(k) <= Cap + (now - win[k].since) + win[k].late
      BY Zenon DEF WindowAccount
    <3>1. 0 + Cap <= Cap + (0 - 0) + 0
      BY SMT
    <3>2. win[k].spent = 0 /\ win[k].since = 0 /\ win[k].late = 0
      BY <2>1
    <3>3. QED
      BY <2>1, <3>1, <3>2, Zenon
  <2>6. RetryCovers
    BY <2>1 DEF RetryCovers
  <2>7. QED
    BY <2>3, <2>4, <2>5, <2>6 DEF Inv
<1>2. Inv /\ [Next]_vars => Inv'
  BY TypesKept, AccountKept, RetryKept DEF Inv
<1>3. QED
  BY <1>1, <1>2, PTL DEF Spec

\* The variables of the limiters keep their types.
THEOREM TypeCorrect == Spec => []TypeOK
BY Invariance, PTL DEF Inv

\* For every budget: no window of time lets a caller through more often than
\* a full bucket, the refill and the waits of its calls allow, evictions or not.
THEOREM WindowsBounded == Spec => []WindowBounded
<1>1. Inv => WindowBounded
  <2> SUFFICES ASSUME Inv, NEW k \in Caller
               PROVE  win[k].spent <= Cap + (now - win[k].since) + win[k].late
    BY Zenon DEF WindowBounded
  <2>1. win[k].spent + Refilled(k) <= Cap + (now - win[k].since) + win[k].late
    BY DEF Inv, WindowAccount
  <2>2. win[k] \in Window /\ now \in Nat
    BY DEF Inv, TypeOK
  <2>3. Refilled(k) \in 0 .. Cap
    BY LevelType DEF Inv
  <2>4. QED
    BY <2>1, <2>2, <2>3, SMT DEF Window
<1>2. QED
  BY <1>1, Invariance, PTL

\* For every budget: whoever waits as long as Retry-After says gets in.
THEOREM RetryHonest == Spec => []RetryAfterHonest
<1>1. Inv => RetryAfterHonest
  <2> SUFFICES ASSUME Inv, NEW k \in Caller, retry[k] # None, retry[k] <= now
               PROVE  Refilled(k) >= Cost
    BY Zenon DEF RetryAfterHonest
  <2>1. Refilled(k) >= Cost \/ Refilled(k) + (retry[k] - now) >= Cost
    BY DEF Inv, RetryCovers
  <2>2. retry[k] \in Nat /\ now \in Nat
    BY DEF Inv, TypeOK
  <2>3. Refilled(k) \in 0 .. Cap
    BY LevelType DEF Inv
  <2>4. QED
    BY <2>1, <2>2, <2>3, SMT
<1>2. QED
  BY <1>1, Invariance, PTL

-----------------------------------------------------------------------------
(* The refinement.                                                         *)

\* What the window shows of a step that leaves a caller alone.
LEMMA SameLevels ==
  ASSUME \A k \in Caller : Refilled(k)' = Refilled(k)
  PROVE  Levels' = Levels
BY Zenon DEF Levels

\* A call that pays leaves the bucket with no more than the credit too much.
LEMMA PaidLeaves ==
  ASSUME TypeOK, Dated, NEW c \in Thread, NEW k, NEW n, NEW paid \in Nat,
         Paid(c, k, n, paid)
  PROVE  /\ k \in Caller /\ Lenient!Leave(k, Levels[k] - paid)
         /\ Spent' = [Spent EXCEPT ![k] = @ + paid]
         /\ n <= Levels[k] /\ Levels[k] <= n + MaxWait /\ Levels[k] \in 0 .. Cap
         /\ n \in 0 .. Cap
<1> DEFINE l == Refilled(k)
           m == Refilled(k)'
           d == Waited(c)
           w == m - (l - paid)
<1>1. /\ k \in Caller /\ d \in 0 .. MaxWait /\ n \in 0 .. Cap
      /\ n <= l /\ l <= n + d /\ m = Smaller(Cap, (n - paid) + d)
      /\ \A j \in Caller \ {k} : Refilled(j)' = Refilled(j)
  BY SettledLevel DEF Paid
<1>2. l \in 0 .. Cap /\ paid <= n
  BY <1>1, LevelType DEF Paid
<1>3. Levels[k] = l /\ Levels' = [Levels EXCEPT ![k] = m]
  BY <1>1 DEF Levels
<1>4. /\ \A j \in Caller \ {k} : win'[j] = win[j]
      /\ win'[k].spent = win[k].spent + paid
  <2>1. /\ \A j \in Caller \ {k} : win'[j] = win[j] /\ Refilled(j)' = Refilled(j)
        /\ win'[k] = [since |-> win[k].since, spent |-> win[k].spent + paid,
                      late |-> win[k].late + Waited(c)]
    BY PaidAccount
  <2>2. QED
    BY <2>1
<1>5. Spent' = [Spent EXCEPT ![k] = @ + paid]
  BY <1>1, <1>4 DEF Spent
<1> HIDE DEF l, m, d
<1>6. w \in 0 .. MaxWait /\ Smaller(Cap, (l - paid) + w) = m
  BY <1>1, <1>2, SMT DEF Smaller
<1>7. l <= n + MaxWait
  BY <1>1, <1>2, SMT
<1> HIDE DEF w
<1>8. Levels' = [Levels EXCEPT ![k] = Smaller(Cap, (Levels[k] - paid) + w)]
  BY <1>3, <1>6
<1>9. \A a, b : Lenient!Smaller(a, b) = Smaller(a, b)
  BY Zenon DEF Lenient!Smaller, Smaller
<1>10. Levels' = [Levels EXCEPT ![k] = Lenient!Smaller(Cap, (Levels[k] - paid) + w)]
  BY <1>8, <1>9, Zenon
<1>11. Lenient!Leave(k, Levels[k] - paid)
  BY <1>6, <1>10 DEF Lenient!Leave
<1>12. QED
  BY <1>1, <1>2, <1>3, <1>5, <1>7, <1>11

\* Every step of the limiters is a step of the lenient bucket, or none.
LEMMA StepRefines ==
  ASSUME Inv, [Next]_vars
  PROVE  Lenient!Next \/ UNCHANGED <<Levels, Spent>>
<1> USE DEF Inv
<1>1. CASE Tick
  <2>1. Levels' = [k \in Caller |-> Lenient!Smaller(Cap, Levels[k] + 1)]
    <3>1. \A k \in Caller : Refilled(k)' = Lenient!Smaller(Cap, Refilled(k) + 1)
      BY <1>1, TickedLevel DEF Smaller, Lenient!Smaller
    <3>2. QED
      BY <3>1, Zenon DEF Levels
  <2>2. Spent' = Spent
    BY <1>1 DEF Tick, Spent
  <2>3. QED
    BY <2>1, <2>2 DEF Lenient!Next, Lenient!Fill
<1>2. CASE Restart
  <2>1. \A k \in Caller : Refilled(k)' = Cap /\ win'[k].spent = 0
    BY <1>2 DEF Restart, Refilled, TokensAt, Opened
  <2>2. Levels' = [k \in Caller |-> Cap] /\ Spent' = [k \in Caller |-> 0]
    BY <2>1, Zenon DEF Levels, Spent
  <2>3. QED
    BY <2>2 DEF Lenient!Next, Lenient!Refill
<1>3. ASSUME NEW c \in Thread, Admit(c)
      PROVE  Lenient!Next
  <2>1. PICK k, n : Paid(c, k, n, Cost) /\ n >= Cost
    BY <1>3, AdmitPays
  <2>2. Cost \in Nat
    BY SMT
  <2>3. /\ k \in Caller /\ Lenient!Leave(k, Levels[k] - Cost)
        /\ Spent' = [Spent EXCEPT ![k] = @ + Cost]
        /\ n <= Levels[k] /\ Levels[k] \in 0 .. Cap /\ n \in 0 .. Cap
    BY <2>1, <2>2, PaidLeaves
  <2>4. Levels[k] >= Cost
    BY <2>1, <2>3, SMT
  <2>5. Lenient!Admit(k)
    BY <2>3, <2>4 DEF Lenient!Admit
  <2>6. QED
    BY <2>3, <2>5 DEF Lenient!Next
<1>4. ASSUME NEW c \in Thread, Refuse(c)
      PROVE  Lenient!Next
  <2>1. PICK k, n : Paid(c, k, n, 0) /\ n < Cost
    BY <1>4, RefusePays
  <2>2. /\ k \in Caller /\ Lenient!Leave(k, Levels[k] - 0)
        /\ Spent' = [Spent EXCEPT ![k] = @ + 0]
        /\ Levels[k] <= n + MaxWait /\ Levels[k] \in 0 .. Cap /\ n \in 0 .. Cap
    BY <2>1, PaidLeaves
  <2>3. Levels[k] < Cost + MaxWait /\ Levels[k] - 0 = Levels[k]
    BY <2>1, <2>2, SMT
  <2>4. Spent' = Spent
    <3>1. Spent[k] + 0 = Spent[k]
      BY <2>2, SMT DEF Spent, TypeOK, Window
    <3>2. QED
      BY <2>2, <3>1 DEF Spent
  <2>5. Lenient!Refuse(k)
    BY <2>2, <2>3, <2>4 DEF Lenient!Refuse
  <2>6. QED
    BY <2>2, <2>5 DEF Lenient!Next
<1>5. ASSUME NEW c \in Thread, ReadClock(c)
      PROVE  UNCHANGED <<Levels, Spent>>
  BY <1>5, SameLevels DEF ReadClock, Refilled, TokensAt, Spent
<1>6. ASSUME NEW k \in Caller, Evict(k)
      PROVE  UNCHANGED <<Levels, Spent>>
  BY <1>6, EvictedLevel, SameLevels DEF Evict, Spent
<1>7. ASSUME NEW k \in Caller, OpenWindow(k)
      PROVE  Lenient!Next
  <2>1. Levels' = Levels
    BY <1>7, SameLevels DEF OpenWindow, Refilled, TokensAt
  <2>2. Spent' = [Spent EXCEPT ![k] = 0]
    BY <1>7 DEF OpenWindow, Opened, Spent, TypeOK
  <2>3. Lenient!Recount(k)
    BY <2>1, <2>2 DEF Lenient!Recount
  <2>4. QED
    BY <2>3 DEF Lenient!Next
<1>8. CASE UNCHANGED vars
  BY <1>8, SameLevels DEF vars, Refilled, TokensAt, Spent
<1>9. QED
  BY <1>1, <1>2, <1>3, <1>4, <1>5, <1>6, <1>7, <1>8 DEF Next

\* For every budget and every wait for the lock: lazy refill, late calls and
\* eviction implement the bucket that fills all the time, forgets nobody and
\* gives back no more than the wait of each call.
THEOREM Refinement == Spec => LenientBucket
<1>1. Init => Lenient!Init
  <2> SUFFICES ASSUME Init PROVE Lenient!Init
    OBVIOUS
  <2>1. \A k \in Caller : Refilled(k) = Cap /\ win[k].spent = 0
    BY DEF Init, Refilled, TokensAt, Opened
  <2>2. QED
    BY <2>1, Zenon DEF Lenient!Init, Levels, Spent
<1>2. Inv /\ [Next]_vars => [Lenient!Next]_<<Levels, Spent>>
  BY StepRefines
<1>3. QED
  BY <1>1, <1>2, Invariance, PTL DEF Spec, LenientBucket, Lenient!Spec
=============================================================================
