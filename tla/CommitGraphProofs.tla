------------------------- MODULE CommitGraphProofs -------------------------
(***************************************************************************)
(* Facts about reachability in a commit graph, for every graph.            *)
(***************************************************************************)
EXTENDS CommitGraph, TLAPS

(* The tips are reachable from themselves.                                 *)
LEMMA ReachTips == ASSUME NEW T PROVE T \cap Commit \subseteq Reach(T)
BY DEF Reach

(* Reachability is closed under parents.                                   *)
LEMMA ReachClosed == ASSUME NEW T PROVE Closed(Reach(T)) /\ Reach(T) \subseteq Commit
<1>1. Reach(T) \subseteq Commit
  BY DEF Reach
<1>2. ASSUME NEW c \in Reach(T), NEW d \in Parents[c]
      PROVE  d \in Reach(T)
  <2>1. c \in Commit /\ d \in Commit
    BY <1>1, ParentsAssumption
  <2>2. ASSUME NEW S \in SUBSET Commit, Closed(S), T \cap Commit \subseteq S
        PROVE  d \in S
    <3>1. c \in S
      BY <2>2 DEF Reach
    <3>2. QED
      BY <2>2, <3>1 DEF Closed
  <2>3. QED
    BY <2>1, <2>2 DEF Reach
<1>3. QED
  BY <1>1, <1>2 DEF Closed

(* It is the least such set.                                               *)
LEMMA ReachLeast ==
  ASSUME NEW T, NEW S \in SUBSET Commit, Closed(S), T \cap Commit \subseteq S
  PROVE  Reach(T) \subseteq S
BY DEF Reach

(* What is reachable from a reachable commit is reachable.                 *)
LEMMA ReachTrans ==
  ASSUME NEW T, NEW a \in Reach(T)
  PROVE  Reach({a}) \subseteq Reach(T)
<1>1. Closed(Reach(T)) /\ Reach(T) \in SUBSET Commit
  BY ReachClosed
<1>2. {a} \cap Commit \subseteq Reach(T)
  OBVIOUS
<1>3. QED
  BY <1>1, <1>2, ReachLeast

(* An absent ref reaches nothing.                                          *)
LEMMA ReachNone == Reach({None}) = {}
<1>1. Closed({}) /\ {} \in SUBSET Commit /\ {None} \cap Commit \subseteq {}
  BY NoneAssumption DEF Closed
<1>2. Reach({None}) \subseteq {}
  BY <1>1, ReachLeast
<1>3. QED
  BY <1>2

(* More tips reach more.                                                   *)
LEMMA ReachMember ==
  ASSUME NEW T, NEW t \in T
  PROVE  Reach({t}) \subseteq Reach(T)
<1>1. CASE t \in Commit
  BY <1>1, ReachTips, ReachTrans
<1>2. CASE t \notin Commit
  <2>1. Closed(Reach(T)) /\ Reach(T) \in SUBSET Commit /\ {t} \cap Commit \subseteq Reach(T)
    BY <1>2, ReachClosed
  <2>2. QED
    BY <2>1, ReachLeast
<1>3. QED
  BY <1>1, <1>2

(* A set of tips reaches what one of them reaches.                         *)
LEMMA ReachUnion ==
  ASSUME NEW T, NEW X \in SUBSET Commit, \A t \in T : Reach({t}) \subseteq X
  PROVE  Reach(T) \subseteq X
<1> DEFINE U == UNION {Reach({t}) : t \in T}
<1>1. U \in SUBSET Commit
  BY ReachClosed
<1>2. Closed(U)
  BY ReachClosed DEF Closed
<1>3. T \cap Commit \subseteq U
  BY ReachTips
<1>4. Reach(T) \subseteq U
  BY <1>1, <1>2, <1>3, ReachLeast
<1>5. QED
  BY <1>4

(* A commit reaches itself and what its parents reach.                     *)
LEMMA ReachStep ==
  ASSUME NEW c \in Commit
  PROVE  /\ Reach({c}) \subseteq {c} \cup Reach(Parents[c])
         /\ Reach(Parents[c]) \subseteq Reach({c})
         /\ Parents[c] \subseteq Reach({c})
<1> DEFINE U == {c} \cup Reach(Parents[c])
<1>1. U \in SUBSET Commit
  BY ReachClosed
<1>2. Parents[c] \subseteq Commit
  BY ParentsAssumption
<1>3. Parents[c] \subseteq Reach(Parents[c])
  BY <1>2, ReachTips
<1>4. Closed(U)
  BY <1>3, ReachClosed DEF Closed
<1>5. Reach({c}) \subseteq U
  BY <1>1, <1>4, ReachLeast
<1>6. Parents[c] \subseteq Reach({c})
  BY ReachTips, ReachClosed DEF Closed
<1>7. Reach(Parents[c]) \subseteq Reach({c})
  BY <1>6, ReachClosed, ReachLeast
<1>8. QED
  BY <1>5, <1>6, <1>7

(* Nothing is reachable from nothing.                                      *)
LEMMA ReachEmpty == Reach({}) = {}
BY ReachLeast, NoneAssumption DEF Closed
=============================================================================
