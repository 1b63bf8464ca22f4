---------------------------- MODULE ServerProofs ----------------------------
(***************************************************************************)
(* Proofs about the audit log, for every number of recorders and rows,     *)
(* every retention and every clock; and about the process that opens it    *)
(* first and writes to it last, for every number of requests, background   *)
(* tasks, crashes and rotations of the JWT key, and any shutdown timeout.  *)
(***************************************************************************)
EXTENDS AuditChain, Server, SequenceTheorems, FiniteSetTheorems,
        WellFoundedInduction, TLAPS

(* The audit log.                                                          *)

(* A chained row still carries the hash it was inserted with.              *)
Linked(r, l) ==
    /\ l.id = r.id /\ l.chained /\ l.prev = r.prev /\ l.hash = r.hash
    /\ l.hash = HashRow(l.prev, l.content)

IdsUnique == \A r, s \in rows : r.id = s.id => r = s
RowsLinked == \A r \in Chained : \E l \in log : Linked(r, l)

IInv == TypeOK /\ IdsUnique /\ RowsLinked /\ ChainNeverForks

----------------------------------------------------------------------------
(* A non-empty set of rows has one with the greatest id, so that the       *)
(* ORDER BY ... LIMIT 1 of record and the scan of verify_chain are well    *)
(* defined.                                                                *)
LEMMA LastRowExists ==
    ASSUME NEW S \in SUBSET Row, S # {}
    PROVE  \E r \in S : \A s \in S : s.id <= r.id
<1> DEFINE T == {MaxId - r.id : r \in S}
<1>1. \A r \in S : r.id \in 0 .. MaxId
  BY DEF Row
<1>2. T \subseteq Nat /\ T # {}
  BY <1>1, BoundsAssumption
<1>3. PICK x \in T : \A y \in T : ~ (<<y, x>> \in OpToRel(<, Nat))
  <2> HIDE DEF T
  <2> QED  BY <1>2, NatLessThanWellFounded, WFMin
<1>4. \A y \in T : ~(y < x)
  BY <1>2, <1>3 DEF OpToRel
<1>5. PICK r \in S : x = MaxId - r.id
  OBVIOUS
<1>6. ASSUME NEW s \in S PROVE s.id <= r.id
  <2>1. ~(MaxId - s.id < MaxId - r.id)
    BY <1>4, <1>5
  <2> QED  BY <1>1, <2>1, BoundsAssumption
<1> QED  BY <1>6

LEMMA HashFacts ==
    ASSUME NEW h \in Hash, NEW c \in Content
    PROVE  /\ HashRow(h, c) \in Hash
           /\ StrictPrefix(h, HashRow(h, c))
           /\ \A d \in Content : HashRow(h, c) = HashRow(h, d) => c = d
<1>1. HashRow(h, c) \in Hash
  BY AppendProperties DEF Hash, HashRow
<1>2. StrictPrefix(h, HashRow(h, c))
  BY AppendProperties, LenProperties DEF Hash, HashRow, StrictPrefix
<1>3. ASSUME NEW d \in Content, HashRow(h, c) = HashRow(h, d) PROVE c = d
  BY <1>3, AppendInjective DEF Hash, HashRow
<1> QED  BY <1>1, <1>2, <1>3

LEMMA StrictPrefixTransitive ==
    ASSUME NEW f \in Hash, NEW g \in Hash, NEW h \in Hash,
           StrictPrefix(f, g), StrictPrefix(g, h)
    PROVE  StrictPrefix(f, h)
<1>1. Len(f) \in Nat /\ Len(g) \in Nat /\ Len(h) \in Nat
  BY LenProperties DEF Hash
<1> QED  BY <1>1 DEF StrictPrefix

(* The tail that record chains to covers every chained row.                *)
LEMMA TailCovers ==
    ASSUME TypeOK, IdsUnique, ChainNeverForks
    PROVE  /\ TailHash \in Hash
           /\ \A r \in Chained : r.hash = TailHash \/ StrictPrefix(r.hash, TailHash)
<1>1. Chained \in SUBSET Row
  BY DEF TypeOK, Chained
<1>2. CASE Chained = {}
  BY <1>2, EmptySeq DEF TailHash, GenesisHash, Hash
<1>3. CASE Chained # {}
  <2>1. PICK t \in Chained : t = CHOOSE r \in Chained : \A s \in Chained : s.id <= r.id
    BY <1>1, <1>3, LastRowExists
  <2>2. (\A s \in Chained : s.id <= t.id) /\ TailHash = t.hash
    BY <1>1, <1>3, <2>1, LastRowExists DEF TailHash
  <2>3. ASSUME NEW r \in Chained PROVE r.hash = t.hash \/ StrictPrefix(r.hash, t.hash)
    <3>1. CASE r.id < t.id
      BY <3>1 DEF ChainNeverForks
    <3>2. CASE r.id = t.id
      BY <3>2 DEF IdsUnique, Chained
    <3>3. r.id \in Int /\ t.id \in Int
      BY <1>1, BoundsAssumption DEF Row
    <3> QED  BY <2>2, <3>1, <3>2, <3>3
  <2>4. t.hash \in Hash
    BY <1>1 DEF Row
  <2> QED  BY <2>2, <2>3, <2>4
<1> QED  BY <1>2, <1>3

LEMMA NewRowFacts ==
    ASSUME TypeOK, IdsUnique, ChainNeverForks, NEW c \in Content, nextId <= MaxId
    PROVE  /\ NewRow(c) \in Row
           /\ Linked(NewRow(c), NewRow(c))
           /\ \A r \in Chained : StrictPrefix(r.hash, NewRow(c).hash)
<1>1. TailHash \in Hash /\ HashRow(TailHash, c) \in Hash
      /\ StrictPrefix(TailHash, HashRow(TailHash, c))
  BY TailCovers, HashFacts
<1>2. NewRow(c) \in Row
  <2>1. nextId \in 0 .. MaxId
    BY BoundsAssumption DEF TypeOK
  <2> QED  BY <1>1, <2>1 DEF NewRow, Row
<1>3. Linked(NewRow(c), NewRow(c))
  BY DEF NewRow, Linked
<1>4. ASSUME NEW r \in Chained PROVE StrictPrefix(r.hash, NewRow(c).hash)
  <2>1. r.hash \in Hash
    BY DEF Chained, TypeOK, Row
  <2>2. NewRow(c).hash = HashRow(TailHash, c)
    BY DEF NewRow
  <2>3. r.hash = TailHash \/ StrictPrefix(r.hash, TailHash)
    BY TailCovers
  <2> QED  BY <1>1, <2>1, <2>2, <2>3, StrictPrefixTransitive
<1> QED  BY <1>2, <1>3, <1>4

----------------------------------------------------------------------------
LEMMA InitIInv == Init => IInv
<1> SUFFICES ASSUME Init PROVE IInv
  OBVIOUS
<1>1. \A d \in Data : Legacy(d) \in Row /\ Legacy(d).id = 0 /\ ~Legacy(d).chained
  BY BoundsAssumption, EmptySeq DEF Legacy, Row, Content, Time, Hash, GenesisHash
<1>2. \A r \in rows : r \in Row /\ r.id = 0 /\ ~r.chained
  BY <1>1 DEF Init
<1>3. TypeOK
  BY <1>2, BoundsAssumption DEF Init, TypeOK, Time
<1>4. Chained = {}
  BY <1>2 DEF Chained
<1>5. IdsUnique
  BY DEF Init, IdsUnique
<1> QED  BY <1>3, <1>4, <1>5 DEF IInv, RowsLinked, ChainNeverForks

(* Steps that only take rows away, or none, keep all of it.                *)
LEMMA FewerRows ==
    ASSUME IInv, rows' \subseteq rows, log' = log, TypeOK'
    PROVE  IInv'
<1>1. Chained' \subseteq Chained
  BY DEF Chained
<1>2. IdsUnique'
  BY DEF IInv, IdsUnique
<1>3. RowsLinked'
  BY <1>1 DEF IInv, RowsLinked
<1>4. ChainNeverForks'
  BY <1>1 DEF IInv, ChainNeverForks
<1> QED  BY <1>2, <1>3, <1>4 DEF IInv

LEMMA RecordIInv ==
    ASSUME IInv, NEW w \in Writers, Record(w)
    PROVE  IInv'
<1>0. TypeOK /\ IdsUnique /\ RowsLinked /\ ChainNeverForks
  BY DEF IInv
<1>1. PICK c \in pending[w] : rows' = rows \cup {NewRow(c)} /\ log' = log \cup {NewRow(c)}
  BY DEF Record
<1> DEFINE n == NewRow(c)
<1>2. c \in Content
  BY <1>0 DEF TypeOK
<1>3. /\ n \in Row
      /\ Linked(n, n)
      /\ \A r \in Chained : StrictPrefix(r.hash, n.hash)
  BY <1>0, <1>2, NewRowFacts DEF Record
<1>4. n.id = nextId /\ n.chained
  BY DEF NewRow
<1> HIDE DEF n
<1>5. nextId' = nextId + 1 /\ nextId' \in 1 .. MaxId + 1
  BY <1>0, BoundsAssumption DEF Record, TypeOK
<1>5a. \A r \in rows \cup log : r.id \in Nat /\ r.id < nextId
  BY <1>0, BoundsAssumption DEF TypeOK, Row
<1>6. TypeOK'
  <2>1. \A r \in rows' \cup log' : r.id < nextId'
    BY <1>0, <1>1, <1>4, <1>5, <1>5a DEF n, TypeOK
  <2>2. rows' \in SUBSET Row /\ log' \in SUBSET Row
    BY <1>0, <1>1, <1>3 DEF n, TypeOK
  <2>3. now' \in Time /\ pending' \in [Writers -> SUBSET Content]
    BY <1>0 DEF Record, TypeOK
  <2> QED  BY <1>5, <2>1, <2>2, <2>3 DEF TypeOK
<1>7. Chained' = Chained \cup {n}
  BY <1>1, <1>4 DEF Chained, n
<1>8. IdsUnique'
  <2> SUFFICES ASSUME NEW r \in rows', NEW s \in rows', r.id = s.id PROVE r = s
    BY DEF IdsUnique
  <2>1. (r \in rows \/ r = n) /\ (s \in rows \/ s = n)
    BY <1>1 DEF n
  <2>2. ~(r \in rows /\ s = n) /\ ~(s \in rows /\ r = n)
    BY <1>4, <1>5a
  <2> QED  BY <1>0, <2>1, <2>2 DEF IdsUnique
<1>9. RowsLinked'
  BY <1>0, <1>1, <1>3, <1>7 DEF RowsLinked, n
<1>10. ChainNeverForks'
  <2> SUFFICES ASSUME NEW r \in Chained', NEW s \in Chained', r.id < s.id
               PROVE  StrictPrefix(r.hash, s.hash)
    BY DEF ChainNeverForks
  <2>1. CASE r \in Chained /\ s \in Chained
    BY <1>0, <2>1 DEF ChainNeverForks
  <2>2. CASE r \in Chained /\ s = n
    BY <1>3, <2>2
  <2>3. r # n
    <3>1. s.id = nextId \/ s.id < nextId
      BY <1>4, <1>5a, <1>7 DEF Chained
    <3>2. s.id \in Nat /\ nextId \in Nat
      BY <1>4, <1>5, <1>5a, <1>7, <1>0, BoundsAssumption DEF Chained, TypeOK
    <3> QED  BY <1>4, <3>1, <3>2
  <2> QED  BY <1>7, <2>1, <2>2, <2>3
<1> QED  BY <1>6, <1>8, <1>9, <1>10 DEF IInv

LEMMA TamperIInv ==
    ASSUME IInv, NEW r \in rows, NEW c \in Content, Tamper(r, c)
    PROVE  IInv'
<1>0. TypeOK /\ IdsUnique /\ RowsLinked /\ ChainNeverForks
  BY DEF IInv
<1> DEFINE n == [r EXCEPT !.content = c]
<1>1. r \in Row
  BY <1>0 DEF TypeOK
<1>2. /\ n \in Row
      /\ n.id = r.id /\ n.chained = r.chained /\ n.prev = r.prev /\ n.hash = r.hash
  BY <1>1 DEF Row
<1>3. rows' = (rows \ {r}) \cup {n}
  BY DEF Tamper
<1> HIDE DEF n
<1>4. TypeOK'
  <2>1. n.id < nextId
    BY <1>0, <1>2 DEF TypeOK
  <2> QED  BY <1>0, <1>2, <1>3, <2>1 DEF TypeOK, Tamper
(* Every row has a counterpart before the step that differs at most in its *)
(* content.                                                                *)
<1>5. ASSUME NEW s \in rows'
      PROVE  \E t \in rows : /\ s.id = t.id /\ s.chained = t.chained
                             /\ s.prev = t.prev /\ s.hash = t.hash
  BY <1>2, <1>3
<1>6. IdsUnique'
  BY <1>0, <1>2, <1>3 DEF IdsUnique
<1>7. ASSUME NEW s \in Chained'
      PROVE  \E t \in Chained : s.id = t.id /\ s.prev = t.prev /\ s.hash = t.hash
  BY <1>5 DEF Chained
<1>8. RowsLinked'
  BY <1>0, <1>7 DEF RowsLinked, Linked, Tamper
<1>9. ChainNeverForks'
  BY <1>0, <1>7 DEF ChainNeverForks
<1> QED  BY <1>4, <1>6, <1>8, <1>9 DEF IInv

LEMMA NextIInv == IInv /\ [Next]_vars => IInv'
<1> SUFFICES ASSUME IInv, [Next]_vars PROVE IInv'
  OBVIOUS
<1>0. TypeOK
  BY DEF IInv
<1>1. ASSUME NEW w \in Writers, Stamp(w) PROVE IInv'
  <2>1. TypeOK'
    BY <1>0, <1>1 DEF Stamp, TypeOK, Content
  <2> QED  BY <1>1, <2>1, FewerRows DEF Stamp
<1>2. ASSUME NEW w \in Writers, Record(w) PROVE IInv'
  BY <1>2, RecordIInv
<1>3. ASSUME NEW w \in Writers, RecordFails(w) PROVE IInv'
  <2>1. TypeOK'
    BY <1>0, <1>3 DEF RecordFails, TypeOK
  <2> QED  BY <1>3, <2>1, FewerRows DEF RecordFails
<1>4. CASE Prune
  <2>1. TypeOK'
    BY <1>0, <1>4 DEF Prune, TypeOK
  <2> QED  BY <1>4, <2>1, FewerRows DEF Prune
<1>5. CASE ClockChange
  <2>1. TypeOK'
    BY <1>0, <1>5 DEF ClockChange, TypeOK
  <2> QED  BY <1>5, <2>1, FewerRows DEF ClockChange
<1>6. ASSUME NEW r \in rows, NEW c \in Content, Tamper(r, c) PROVE IInv'
  BY <1>6, TamperIInv
<1>7. CASE UNCHANGED vars
  <2>1. TypeOK'
    BY <1>0, <1>7 DEF vars, TypeOK
  <2> QED  BY <1>7, <2>1, FewerRows DEF vars
<1> QED  BY <1>1, <1>2, <1>3, <1>4, <1>5, <1>6, <1>7 DEF Next

(* The inductive invariant holds in every reachable state.                 *)
THEOREM Invariance == Spec => []IInv
BY InitIInv, NextIInv, PTL DEF Spec

(* audit.rs: ids, hashes and pending events always have their types, and   *)
(* no id is handed out twice.                                              *)
THEOREM TypeCorrect == Spec => []TypeOK
<1>1. IInv => TypeOK
  BY DEF IInv
<1> QED  BY <1>1, Invariance, PTL

(* record and prune_older_than: the hash chain never forks, for any number *)
(* of concurrent recorders.                                                *)
THEOREM NeverForks == Spec => []ChainNeverForks
<1>1. IInv => ChainNeverForks
  BY DEF IInv
<1> QED  BY <1>1, Invariance, PTL

(* The hash tells an edited content from the recorded one.                 *)
LEMMA EditsCaught ==
    ASSUME IInv
    PROVE  EditsAreDetected
<1> SUFFICES ASSUME VerifyChain, NEW r \in Chained PROVE r \in log
  BY DEF EditsAreDetected
<1>1. PICK l \in log : Linked(r, l)
  BY DEF IInv, RowsLinked
<1>2. r \in Row /\ l \in Row /\ r.chained
  BY DEF IInv, TypeOK, Chained
<1>3. HashRow(r.prev, r.content) = HashRow(r.prev, l.content)
  BY <1>1 DEF VerifyChain, Linked
<1>4. r.content = l.content
  <2>1. r.prev \in Hash /\ r.content \in Content /\ l.content \in Content
    BY <1>2 DEF Row
  <2> QED  BY <1>3, <2>1, HashFacts
<1>5. r = l
  <2>1. r.chained = TRUE /\ l.chained = TRUE
    BY <1>1, <1>2 DEF Linked, Row
  <2>2. r.id = l.id /\ r.prev = l.prev /\ r.hash = l.hash
    BY <1>1 DEF Linked
  <2>3. \A x \in Row : x = [id |-> x.id, content |-> x.content, chained |-> x.chained,
                             prev |-> x.prev, hash |-> x.hash]
    BY SMT DEF Row
  <2> QED  BY <1>2, <1>4, <2>1, <2>2, <2>3
<1> QED  BY <1>5

(* verify_chain: an edited row is never accepted.                          *)
THEOREM EditsDetected == Spec => []EditsAreDetected
<1>1. IInv => EditsAreDetected
  BY EditsCaught
<1> QED  BY <1>1, Invariance, PTL

(* record: appending never turns a log that verifies into one that does    *)
(* not.                                                                    *)
THEOREM RecordSafe == Spec => RecordKeepsVerdict
<1> DEFINE Keeps == (\E w \in Writers : Record(w)) => (VerifyChain => VerifyChain')
<1>1. ASSUME IInv, NEW w \in Writers, Record(w), VerifyChain PROVE VerifyChain'
  <2>0. TypeOK /\ IdsUnique /\ ChainNeverForks
    BY <1>1 DEF IInv
  <2>1. PICK c \in pending[w] : rows' = rows \cup {NewRow(c)}
    BY <1>1 DEF Record
  <2>1a. PICK n : n = NewRow(c)
    OBVIOUS
  <2>2. n.id = nextId /\ n.chained /\ n.prev = TailHash /\ n.hash = HashRow(n.prev, n.content)
    BY <2>1a DEF NewRow
  <2>3. Chained' = Chained \cup {n}
    BY <2>1, <2>1a, <2>2 DEF Chained
  <2>4. \A r \in Chained : r.id \in Nat /\ r.id < nextId
    BY <2>0, BoundsAssumption DEF TypeOK, Row, Chained
  <2>5. nextId \in Nat
    BY <2>0, BoundsAssumption DEF TypeOK
  <2>6. {s \in Chained' : s.id < n.id} = Chained
    BY <2>2, <2>3, <2>4, <2>5
  <2>7. n.prev = ExpectedPrev(n)'
    BY <2>2, <2>6 DEF ExpectedPrev, TailHash
  <2>8. ASSUME NEW r \in Chained PROVE r.prev = ExpectedPrev(r)'
    <3>1. {s \in Chained' : s.id < r.id} = {s \in Chained : s.id < r.id}
      BY <2>2, <2>3, <2>4, <2>5
    <3>2. r.prev = ExpectedPrev(r)
      BY <1>1 DEF VerifyChain
    <3> QED  BY <3>1, <3>2 DEF ExpectedPrev
  <2>9. \A r \in Chained : r.hash = HashRow(r.prev, r.content)
    BY <1>1 DEF VerifyChain
  <2> QED  BY <2>2, <2>3, <2>7, <2>8, <2>9 DEF VerifyChain
<1>2. IInv /\ [Next]_vars => [Keeps]_vars
  BY <1>1
<1> QED  BY <1>2, Invariance, PTL DEF Spec, RecordKeepsVerdict

----------------------------------------------------------------------------
(* What the verdict means.  A log of finitely many rows, each of which was *)
(* chained to what its hash says it was.                                   *)
LogSound == \A l \in log : l.chained => l.hash = HashRow(l.prev, l.content)
VInv == IsFiniteSet(rows) /\ LogSound

LEMMA InitVInv == Init => VInv
<1> SUFFICES ASSUME Init PROVE VInv
  OBVIOUS
<1>1. IsFiniteSet(rows)
  BY FS_EmptySet, FS_Singleton DEF Init
<1>2. LogSound
  BY DEF Init, LogSound, Legacy
<1> QED  BY <1>1, <1>2 DEF VInv

LEMMA NextVInv == VInv /\ [Next]_vars => VInv'
<1> SUFFICES ASSUME VInv, [Next]_vars PROVE VInv'
  OBVIOUS
<1>1. CASE rows' \subseteq rows /\ log' = log
  BY <1>1, FS_Subset DEF VInv, LogSound
<1>2. ASSUME NEW w \in Writers, Record(w) PROVE VInv'
  <2>1. PICK c \in pending[w] : rows' = rows \cup {NewRow(c)} /\ log' = log \cup {NewRow(c)}
    BY <1>2 DEF Record
  <2>2. NewRow(c).hash = HashRow(NewRow(c).prev, NewRow(c).content)
    BY DEF NewRow
  <2>3. LogSound'
    BY <2>1, <2>2 DEF VInv, LogSound
  <2>4. IsFiniteSet(rows')
    BY <2>1, FS_AddElement DEF VInv
  <2> QED  BY <2>3, <2>4 DEF VInv
<1>3. ASSUME NEW r \in rows, NEW c \in Content, Tamper(r, c) PROVE VInv'
  <2>1. rows' = (rows \ {r}) \cup {[r EXCEPT !.content = c]} /\ log' = log
    BY <1>3 DEF Tamper
  <2>2. IsFiniteSet(rows \ {r})
    BY FS_Subset DEF VInv
  <2>3. IsFiniteSet(rows')
    BY <2>1, <2>2, FS_AddElement
  <2> QED  BY <2>1, <2>3 DEF VInv, LogSound
<1> QED  BY <1>1, <1>2, <1>3 DEF Next, vars, Stamp, RecordFails, Prune, ClockChange

(* The rows up to r, and the ones before it.                               *)
Upto(r) == {s \in Chained : s.id <= r.id}
Below(r) == {s \in Chained : s.id < r.id}

LEMMA UptoFacts ==
    ASSUME IInv, VInv, NEW r \in Chained
    PROVE  /\ IsFiniteSet(Below(r)) /\ Cardinality(Below(r)) \in Nat
           /\ Cardinality(Upto(r)) = Cardinality(Below(r)) + 1
<1>1. Below(r) \subseteq rows
  BY DEF Below, Chained
<1>2. IsFiniteSet(Below(r)) /\ Cardinality(Below(r)) \in Nat
  BY <1>1, FS_Subset, FS_CardinalityType DEF VInv
<1>3. \A s \in Chained : s.id \in Nat
  BY BoundsAssumption DEF IInv, TypeOK, Row, Chained
<1>4. r \notin Below(r)
  BY <1>3 DEF Below
<1>5. Upto(r) = Below(r) \cup {r}
  BY <1>3 DEF Upto, Below, IInv, IdsUnique, Chained
<1> QED  BY <1>2, <1>4, <1>5, FS_AddElement

(* The row the scan compares r with: the last one before it.               *)
LEMMA Predecessor ==
    ASSUME IInv, NEW r \in Chained, Below(r) # {}
    PROVE  \E p \in Chained : p.id < r.id /\ ExpectedPrev(r) = p.hash /\ Upto(p) = Below(r)
<1>1. Below(r) \in SUBSET Row
  BY DEF IInv, TypeOK, Below, Chained
<1> DEFINE p == CHOOSE s \in Below(r) : \A t \in Below(r) : t.id <= s.id
<1>2. p \in Below(r) /\ \A t \in Below(r) : t.id <= p.id
  BY <1>1, LastRowExists
<1>3. ExpectedPrev(r) = p.hash
  BY DEF ExpectedPrev, Below
<1> HIDE DEF p
<1>4. \A s \in Chained : s.id \in Nat
  BY BoundsAssumption DEF IInv, TypeOK, Row, Chained
<1>5. Upto(p) = Below(r) /\ p \in Chained /\ p.id < r.id
  BY <1>2, <1>4 DEF Upto, Below
<1> QED  BY <1>3, <1>5

LEMMA First ==
    ASSUME IInv, NEW r \in Chained, Below(r) = {}
    PROVE  ExpectedPrev(r) = GenesisHash
  BY DEF ExpectedPrev, Below

LEMMA RowHash ==
    ASSUME IInv, NEW r \in Chained
    PROVE  /\ r.prev \in Hash /\ r.hash \in Hash /\ r.content \in Content
           /\ Len(r.prev) \in Nat /\ Len(r.hash) \in Nat
           /\ r.hash = HashRow(r.prev, r.content) => 
                /\ Len(r.hash) = Len(r.prev) + 1
                /\ \A i \in 1 .. Len(r.prev) : r.hash[i] = r.prev[i]
<1>1. r.prev \in Hash /\ r.hash \in Hash /\ r.content \in Content
  BY DEF IInv, TypeOK, Row, Chained
<1>2. Len(r.prev) \in Nat /\ Len(r.hash) \in Nat
  BY <1>1, LenProperties DEF Hash
<1>3. ASSUME r.hash = HashRow(r.prev, r.content)
      PROVE  Len(r.hash) = Len(r.prev) + 1 /\ \A i \in 1 .. Len(r.prev) : r.hash[i] = r.prev[i]
  BY <1>1, <1>3, AppendProperties DEF Hash, HashRow
<1> QED  BY <1>1, <1>2, <1>3

(* A row with a hole before it that has the least id of those.             *)
LEMMA LeastHole ==
    ASSUME IInv, NEW S \in SUBSET Chained, S # {}
    PROVE  \E r \in S : \A s \in S : ~(s.id < r.id)
<1> DEFINE T == {r.id : r \in S}
<1>1. T \subseteq Nat /\ T # {}
  BY BoundsAssumption DEF IInv, TypeOK, Row, Chained
<1>2. PICK x \in T : \A y \in T : ~ (<<y, x>> \in OpToRel(<, Nat))
  <2> HIDE DEF T
  <2> QED  BY <1>1, NatLessThanWellFounded, WFMin
<1>3. \A y \in T : ~(y < x)
  BY <1>1, <1>2 DEF OpToRel
<1> QED  BY <1>3

(* A log that verifies has no hole: the least row with one would be linked *)
(* to a row without.                                                       *)
LEMMA VerifiedNoHoles ==
    ASSUME IInv, VInv, VerifyChain
    PROVE  NoHoles
<1> DEFINE Bad == {r \in Chained : Len(r.hash) # Cardinality(Upto(r))}
<1>1. SUFFICES ASSUME Bad # {} PROVE FALSE
  BY DEF NoHoles, Upto
<1>2. PICK r \in Bad : \A s \in Bad : ~(s.id < r.id)
  BY <1>1, LeastHole
<1>3. r \in Chained /\ r.prev = ExpectedPrev(r) /\ r.hash = HashRow(r.prev, r.content)
  BY DEF VerifyChain
<1>4. Len(r.hash) = Len(r.prev) + 1 /\ Len(r.prev) \in Nat
  BY <1>3, RowHash
<1>5. Cardinality(Upto(r)) = Cardinality(Below(r)) + 1
  BY <1>3, UptoFacts
<1>6. CASE Below(r) = {}
  <2>1. Len(r.prev) = 0
    BY <1>3, <1>6, First, EmptySeq DEF GenesisHash
  <2> QED  BY <1>2, <1>4, <1>5, <1>6, <2>1, FS_EmptySet
<1>7. CASE Below(r) # {}
  <2>1. PICK p \in Chained : p.id < r.id /\ ExpectedPrev(r) = p.hash /\ Upto(p) = Below(r)
    BY <1>3, <1>7, Predecessor
  <2>2. Len(p.hash) = Cardinality(Upto(p))
    BY <1>2, <2>1
  <2>3. Len(r.prev) = Cardinality(Below(r))
    BY <1>3, <2>1, <2>2
  <2> QED  BY <1>2, <1>4, <1>5, <2>3
<1> QED  BY <1>6, <1>7

(* Rows as recorded, without a hole, verify: a row is chained to as many   *)
(* contents as rows before it are left, and these are its beginning.       *)
LEMMA NoHolesVerified ==
    ASSUME IInv, VInv, Chained \subseteq log, NoHoles
    PROVE  VerifyChain
<1> SUFFICES ASSUME NEW r \in Chained
             PROVE  r.prev = ExpectedPrev(r) /\ r.hash = HashRow(r.prev, r.content)
  BY DEF VerifyChain
<1>1. r.hash = HashRow(r.prev, r.content)
  BY DEF VInv, LogSound, Chained
<1>2. /\ r.prev \in Hash /\ Len(r.hash) = Len(r.prev) + 1 /\ Len(r.prev) \in Nat
      /\ \A i \in 1 .. Len(r.prev) : r.hash[i] = r.prev[i]
  BY <1>1, RowHash
<1>3. \A s \in Chained : Len(s.hash) = Cardinality(Upto(s))
  BY DEF NoHoles, Upto
<1>4. Len(r.prev) = Cardinality(Below(r)) /\ IsFiniteSet(Below(r))
  <2>1. Len(r.hash) = Cardinality(Below(r)) + 1 /\ Cardinality(Below(r)) \in Nat /\ IsFiniteSet(Below(r))
    BY <1>3, UptoFacts
  <2> QED  BY <1>2, <2>1
<1>5. CASE Below(r) = {}
  <2>1. Len(r.prev) = 0
    BY <1>4, <1>5, FS_EmptySet
  <2>2. r.prev = << >>
    BY <1>2, <2>1, EmptySeq DEF Hash
  <2> QED  BY <1>1, <1>5, <2>2, First DEF GenesisHash
<1>6. CASE Below(r) # {}
  <2>1. PICK p \in Chained : p.id < r.id /\ ExpectedPrev(r) = p.hash /\ Upto(p) = Below(r)
    BY <1>6, Predecessor
  <2>2. Len(p.hash) = Len(r.prev) /\ p.hash \in Hash
    BY <1>3, <1>4, <2>1, RowHash
  <2>3. StrictPrefix(p.hash, r.hash)
    BY <2>1 DEF IInv, ChainNeverForks
  <2>4. \A i \in 1 .. Len(p.hash) : p.hash[i] = r.prev[i]
    BY <1>2, <2>2, <2>3 DEF StrictPrefix
  <2>5. p.hash = r.prev
    BY <1>2, <2>2, <2>4, SeqEqual DEF Hash
  <2> QED  BY <1>1, <2>1, <2>5
<1> QED  BY <1>5, <1>6

(* verify_chain decides exactly this: no row was edited, and none that a   *)
(* later one is chained to is missing.                                     *)
THEOREM VerdictExact == Spec => []VerdictIsExact
<1>1. Spec => []VInv
  BY InitVInv, NextVInv, PTL DEF Spec
<1>2. IInv => EditsAreDetected
  BY EditsCaught
<1>3. IInv /\ VInv => VerdictIsExact
  BY <1>2, VerifiedNoHoles, NoHolesVerified DEF VerdictIsExact, EditsAreDetected
<1> QED  BY <1>1, <1>3, Invariance, PTL

----------------------------------------------------------------------------
(* The process.                                                            *)

(* A store's versions are recorded in order.                               *)
Reached(s, n) ==
    \A v \in DOMAIN Migrations[s] : <<s, v>> \in versions <=> v <= n

InOrder == \A s \in StoreNames : \E n \in 0 .. Len(Migrations[s]) : Reached(s, n)

Effective == \A id \in versions : Effect(id[1], id[2]) \subseteq schema

(* The boot, at a statement: the stores before this one are done, of this  *)
(* one the migrations before this one are recorded, and of this migration  *)
(* the statements before this one have had their effect.                   *)
BootSound ==
    phase = "boot" =>
      /\ boot \in [store : 1 .. Len(Stores) + 1, mig : Nat, stmt : Nat]
      /\ \A i \in 1 .. boot.store - 1 : Reached(Stores[i], Len(Migrations[Stores[i]]))
      /\ boot.store \in DOMAIN Stores =>
           /\ boot.mig \in 1 .. Len(Statements) + 1
           /\ boot.stmt \in Nat \ {0}
           /\ Reached(Stores[boot.store], boot.mig - 1)
           /\ boot.mig \in DOMAIN Statements =>
                /\ boot.stmt \in 1 .. Len(Statements[boot.mig]) + 1
                /\ \A i \in 1 .. boot.stmt - 1 : Statements[boot.mig][i] \in schema

SchemaInv ==
    /\ schema \subseteq UNION {EffectUpTo(s, Len(Migrations[s])) : s \in StoreNames}
    /\ versions \subseteq MigrationIds
    /\ InOrder /\ Effective /\ BootSound
    /\ Booted => versions = MigrationIds

(* The shutdown, phase by phase.                                           *)
Closing == {"closing", "tasks", "report", "exit"}

(* The listener gave up on requests, no earlier than it may.               *)
CutShort == cut /\ elapsed >= timeout /\ (timeout = 0 => tls)

AllJoined == \A t \in Task : task[t] = "joined"

DrainInv ==
    /\ told \in {"graceful", "timed_out"} => phase = "exit"
    /\ phase \in Closing \cup {"delay"} => draining
    /\ phase \in Closing \ {"closing"} => InFlight = {} \/ CutShort
    /\ phase \in {"report", "exit"} => AllJoined \/ (timeout > 0 /\ waited >= timeout)
    /\ phase = "closing" => elapsed = waited
    /\ phase = "tasks" => elapsed <= Timeout + Late + waited

(* The keys: the file holds a retired one only if that was written last,   *)
(* memory only if it has come from the file, and so not while a rotation   *)
(* is under way; the key in memory is at least as new as theirs.           *)
KeyInv ==
    /\ file \in retired => file = crossed
    /\ mem \in retired => mem = crossed /\ \A q \in Req : new[q] = 0
    /\ \A q \in Req : new[q] <= mem /\ (req[q] \in {"swapped", "opened"} => new[q] # 0)
    /\ phase = "down" => \A q \in Req : req[q] = "none" /\ new[q] = 0

ServerIInv == ServerTypeOK /\ SchemaInv /\ DrainInv /\ KeyInv

IsSequence(s) == Len(s) \in Nat /\ DOMAIN s = 1 .. Len(s)

Scripts(m) ==
    IsSequence(m) /\ Len(m) >= 2 /\ \A v \in DOMAIN m : IsSequence(m[v])

(* What the proofs use of the lists of migrations.                         *)
LEMMA Shape ==
    /\ IsSequence(Stores)
    /\ \A i, j \in DOMAIN Stores : Stores[i] = Stores[j] => i = j
    /\ \A s \in StoreNames : Scripts(Migrations[s])
<1>1. DOMAIN Stores = {1, 2, 3, 4} /\ IsSequence(Stores)
  BY DEF Stores, IsSequence
<1>2. /\ Stores[1] = "tokens" /\ Stores[2] = "ownership"
      /\ Stores[3] = "audit" /\ Stores[4] = "webhooks"
  BY DEF Stores
<1>3. \A i, j \in DOMAIN Stores : Stores[i] = Stores[j] => i = j
  BY <1>1, <1>2
<1>4. StoreNames = {"tokens", "ownership", "audit", "webhooks"}
  BY <1>1, <1>2 DEF StoreNames
<1>5. Scripts(Migrations["tokens"])
  <2> DEFINE a == <<"tokens", "idx_tokens_repo_id">>
             b == <<"tokens.subject">>
  <2>1. /\ IsSequence(a)
        /\ IsSequence(b)
    BY DEF IsSequence
  <2>2. Migrations["tokens"] = <<a, b>>
    BY DEF Migrations
  <2> HIDE DEF a, b
  <2>3. IsSequence(<<a, b>>) /\ Len(<<a, b>>) = 2
    BY DEF IsSequence
  <2> QED  BY <2>1, <2>2, <2>3 DEF Scripts, IsSequence
<1>6. Scripts(Migrations["ownership"])
  <2> DEFINE a == <<"repos", "idx_repos_owner">>
             b == <<"idx_repos_created_at">>
  <2>1. /\ IsSequence(a)
        /\ IsSequence(b)
    BY DEF IsSequence
  <2>2. Migrations["ownership"] = <<a, b>>
    BY DEF Migrations
  <2> HIDE DEF a, b
  <2>3. IsSequence(<<a, b>>) /\ Len(<<a, b>>) = 2
    BY DEF IsSequence
  <2> QED  BY <2>1, <2>2, <2>3 DEF Scripts, IsSequence
<1>7. Scripts(Migrations["audit"])
  <2> DEFINE a == <<"audit_events", "idx_audit">>
             b == <<"audit_events.prev_hash", "audit_events.row_hash">>
  <2>1. /\ IsSequence(a)
        /\ IsSequence(b)
    BY DEF IsSequence
  <2>2. Migrations["audit"] = <<a, b>>
    BY DEF Migrations
  <2> HIDE DEF a, b
  <2>3. IsSequence(<<a, b>>) /\ Len(<<a, b>>) = 2
    BY DEF IsSequence
  <2> QED  BY <2>1, <2>2, <2>3 DEF Scripts, IsSequence
<1>8. Scripts(Migrations["webhooks"])
  <2> DEFINE a == <<"webhooks", "idx_webhooks_repo">>
             b == <<"webhooks.secret_nonce">>
             c == <<"webhook_deliveries", "idx_pending">>
             d == <<"idx_finalized">>
  <2>1. /\ IsSequence(a)
        /\ IsSequence(b)
        /\ IsSequence(c)
        /\ IsSequence(d)
    BY DEF IsSequence
  <2>2. Migrations["webhooks"] = <<a, b, c, d>>
    BY DEF Migrations
  <2> HIDE DEF a, b, c, d
  <2>3. IsSequence(<<a, b, c, d>>) /\ Len(<<a, b, c, d>>) = 4
    BY DEF IsSequence
  <2> QED  BY <2>1, <2>2, <2>3 DEF Scripts, IsSequence
<1> QED  BY <1>1, <1>3, <1>4, <1>5, <1>6, <1>7, <1>8
----------------------------------------------------------------------------
(* SELECT MAX(version) finds how far a store has got.                      *)
LEMMA CurrentIsReached ==
    ASSUME InOrder, NEW s \in StoreNames
    PROVE  Current(s) \in 0 .. Len(Migrations[s]) /\ Reached(s, Current(s))
<1> DEFINE L == Len(Migrations[s])
           P(n) == /\ n = 0 \/ <<s, n>> \in versions
                   /\ \A v \in n + 1 .. L : <<s, v>> \notin versions
<1>1. L \in Nat /\ DOMAIN Migrations[s] = 1 .. L
  BY Shape DEF Scripts, IsSequence
<1>2. PICK n \in 0 .. L : Reached(s, n)
  BY DEF InOrder
<1>3. P(n)
  BY <1>1, <1>2 DEF Reached
<1>4. \E m \in 0 .. L : P(m)
  BY <1>2, <1>3
<1>5. Current(s) \in 0 .. L /\ P(Current(s))
  <2>1. Current(s) = CHOOSE m \in 0 .. L : P(m)
    BY DEF Current
  <2> HIDE DEF P, L
  <2> QED  BY <1>4, <2>1
<1>6. ASSUME NEW m \in 0 .. L, P(m) PROVE m = n
  <2>1. n > 0 => <<s, n>> \in versions
    BY <1>1, <1>2 DEF Reached
  <2>2. m > n => <<s, m>> \notin versions
    BY <1>1, <1>2 DEF Reached
  <2> QED  BY <1>1, <1>2, <1>6, <2>1, <2>2
<1>7. Current(s) = n
  <2> HIDE DEF P, L
  <2> QED  BY <1>5, <1>6
<1> QED  BY <1>2, <1>7

LEMMA FoundSound ==
    ASSUME NEW s \in StoreNames, NEW x \in Found(s)
    PROVE  /\ x.tables \subseteq EffectUpTo(s, Len(Migrations[s]))
           /\ \A id \in x.rows : /\ id = <<s, id[2]>> /\ id[2] \in DOMAIN Migrations[s]
                                 /\ Effect(s, id[2]) \subseteq x.tables
           /\ \E n \in 0 .. Len(Migrations[s]) :
                \A v \in DOMAIN Migrations[s] : <<s, v>> \in x.rows <=> v <= n
<1> DEFINE L == Len(Migrations[s])
<1>1. L \in Nat /\ L >= 2 /\ DOMAIN Migrations[s] = 1 .. L
  BY Shape DEF Scripts, IsSequence
<1>2. \A n, m \in Nat : n <= m => EffectUpTo(s, n) \subseteq EffectUpTo(s, m)
  BY DEF EffectUpTo
<1>3. CASE x = [tables |-> EffectUpTo(s, 2), rows |-> {}]
  <2>1. x.tables \subseteq EffectUpTo(s, L) /\ x.rows = {}
    BY <1>1, <1>2, <1>3
  <2>2. \A v \in DOMAIN Migrations[s] : <<s, v>> \in x.rows <=> v <= 0
    BY <1>1, <2>1
  <2> QED  BY <1>1, <2>1, <2>2
<1>4. CASE \E n \in 0 .. L :
             x = [tables |-> EffectUpTo(s, n), rows |-> {<<s, v>> : v \in 1 .. n}]
  <2>1. PICK n \in 0 .. L :
             x = [tables |-> EffectUpTo(s, n), rows |-> {<<s, v>> : v \in 1 .. n}]
    BY <1>4
  <2>2. x.tables = EffectUpTo(s, n) /\ x.rows = {<<s, v>> : v \in 1 .. n}
    BY <2>1
  <2>3. x.tables \subseteq EffectUpTo(s, L)
    BY <1>1, <1>2, <2>2
  <2>4. \A v \in DOMAIN Migrations[s] : <<s, v>> \in x.rows <=> v <= n
    BY <1>1, <2>2
  <2>5. \A v \in 1 .. n : Effect(s, v) \subseteq x.tables
    BY <2>2 DEF EffectUpTo
  <2>6. \A id \in x.rows : id = <<s, id[2]>> /\ id[2] \in 1 .. n
    BY <2>2
  <2>7. \A id \in x.rows : id[2] \in DOMAIN Migrations[s] /\ Effect(s, id[2]) \subseteq x.tables
    BY <1>1, <2>5, <2>6
  <2> QED  BY <2>3, <2>4, <2>6, <2>7
<1> QED  BY <1>3, <1>4 DEF Found

LEMMA SchemaStarts ==
    ASSUME ServerInit
    PROVE  SchemaInv
<1>1. PICK t \in Found("tokens"), o \in Found("ownership"),
           a \in Found("audit"), w \in Found("webhooks") :
             /\ schema = t.tables \cup o.tables \cup a.tables \cup w.tables
             /\ versions = t.rows \cup o.rows \cup a.rows \cup w.rows
  BY DEF ServerInit
<1>2. StoreNames = {"tokens", "ownership", "audit", "webhooks"}
  <2>1. DOMAIN Stores = {1, 2, 3, 4}
    BY DEF Stores
  <2>2. /\ Stores[1] = "tokens" /\ Stores[2] = "ownership"
        /\ Stores[3] = "audit" /\ Stores[4] = "webhooks"
    BY DEF Stores
  <2> QED  BY <2>1, <2>2 DEF StoreNames
<1> DEFINE Of(s) == CASE s = "tokens" -> t [] s = "ownership" -> o
                      [] s = "audit" -> a [] s = "webhooks" -> w
<1>3. \A s \in StoreNames : Of(s) \in Found(s)
  BY <1>1, <1>2
<1>4. /\ \A s \in StoreNames : Of(s).tables \subseteq schema /\ Of(s).rows \subseteq versions
      /\ \A x \in schema : \E s \in StoreNames : x \in Of(s).tables
      /\ \A id \in versions : \E s \in StoreNames : id \in Of(s).rows
  BY <1>1, <1>2
<1> HIDE DEF Of
<1>5. schema \subseteq UNION {EffectUpTo(s, Len(Migrations[s])) : s \in StoreNames}
  BY <1>3, <1>4, FoundSound
<1>6. \A id \in versions : \E s \in StoreNames :
         /\ id \in Of(s).rows /\ id = <<s, id[2]>> /\ id[2] \in DOMAIN Migrations[s]
         /\ Effect(s, id[2]) \subseteq schema
  <2> SUFFICES ASSUME NEW id \in versions
               PROVE  \E s \in StoreNames :
                        /\ id \in Of(s).rows /\ id = <<s, id[2]>>
                        /\ id[2] \in DOMAIN Migrations[s] /\ Effect(s, id[2]) \subseteq schema
    OBVIOUS
  <2>1. PICK s \in StoreNames : id \in Of(s).rows
    BY <1>4
  <2>2. Of(s) \in Found(s) /\ Of(s).tables \subseteq schema
    BY <1>3, <1>4
  <2>3. /\ id = <<s, id[2]>> /\ id[2] \in DOMAIN Migrations[s]
        /\ Effect(s, id[2]) \subseteq Of(s).tables
    BY <2>1, <2>2, FoundSound
  <2> QED  BY <2>1, <2>2, <2>3
<1>7. versions \subseteq MigrationIds
  BY <1>6 DEF MigrationIds
<1>8. Effective
  BY <1>6 DEF Effective
<1>9. InOrder
  <2> SUFFICES ASSUME NEW s \in StoreNames
               PROVE  \E n \in 0 .. Len(Migrations[s]) : Reached(s, n)
    BY DEF InOrder
  <2>1. PICK n \in 0 .. Len(Migrations[s]) :
               \A v \in DOMAIN Migrations[s] : <<s, v>> \in Of(s).rows <=> v <= n
    BY <1>3, FoundSound
  <2>2. \A v : <<s, v>> \in versions => <<s, v>> \in Of(s).rows
    BY <1>6
  <2> QED  BY <1>4, <2>1, <2>2 DEF Reached
<1>10. phase = "down"
  BY DEF ServerInit
<1> QED  BY <1>5, <1>7, <1>8, <1>9, <1>10 DEF SchemaInv, BootSound, Booted

(* Steps that leave the databases and the boot alone.                      *)
LEMMA SchemaKept ==
    ASSUME SchemaInv, UNCHANGED <<schema, versions>>,
           \/ UNCHANGED <<boot, phase>>
           \/ phase' = "down"
           \/ Booted /\ phase' # "boot"
    PROVE  SchemaInv'
<1>1. InOrder' /\ Effective'
  BY DEF SchemaInv, InOrder, Effective, Reached
<1>2. BootSound' /\ (Booted => versions = MigrationIds)'
  BY DEF SchemaInv, BootSound, Reached, Statements, Booted
<1> QED  BY <1>1, <1>2 DEF SchemaInv

LEMMA OpenStoreSound ==
    ASSUME SchemaInv, NEW i \in 1 .. Len(Stores) + 1,
           UNCHANGED <<schema, versions>>, boot' = OpenStore(i), phase' = "boot",
           \A j \in 1 .. i - 1 : Reached(Stores[j], Len(Migrations[Stores[j]]))
    PROVE  SchemaInv'
<1>1. InOrder' /\ Effective'
  BY DEF SchemaInv, InOrder, Effective, Reached
<1>2. boot'.store = i /\ boot'.stmt = 1
  BY DEF OpenStore
<1>3. Len(Stores) \in Nat /\ DOMAIN Stores = 1 .. Len(Stores)
  BY Shape DEF IsSequence
<1>4. CASE i \in DOMAIN Stores
  <2> DEFINE s == Stores[i]
  <2>1. s \in StoreNames
    BY <1>4 DEF StoreNames
  <2>2. Current(s) \in 0 .. Len(Migrations[s]) /\ Reached(s, Current(s))
    BY <2>1, CurrentIsReached DEF SchemaInv
  <2>3. Len(Migrations[s]) \in Nat /\ DOMAIN Migrations[s] = 1 .. Len(Migrations[s])
        /\ \A v \in DOMAIN Migrations[s] : Len(Migrations[s][v]) \in Nat
    BY <2>1, Shape DEF Scripts, IsSequence
  <2>4. boot'.mig = Current(s) + 1
    BY <1>4 DEF OpenStore
  <2>5. boot' \in [store : 1 .. Len(Stores) + 1, mig : Nat, stmt : Nat]
    BY <1>4, <2>2, <2>3 DEF OpenStore
  <2>6. Statements' = Migrations[s]
    BY <1>2 DEF Statements
  <2>7. Reached(s, boot.mig - 1)'
    BY <2>2, <2>4, <2>3 DEF Reached
  <2>8. \A j \in 1 .. i - 1 : Reached(Stores[j], Len(Migrations[Stores[j]]))'
    BY DEF Reached
  <2> HIDE DEF s
  <2>9. BootSound'
    BY <1>2, <2>2, <2>3, <2>4, <2>5, <2>6, <2>7, <2>8 DEF BootSound, s
  <2> QED  BY <1>1, <2>9 DEF SchemaInv, Booted
<1>5. CASE i \notin DOMAIN Stores
  <2>1. boot' \in [store : 1 .. Len(Stores) + 1, mig : Nat, stmt : Nat]
    BY <1>5 DEF OpenStore
  <2>2. \A j \in 1 .. i - 1 : Reached(Stores[j], Len(Migrations[Stores[j]]))'
    BY DEF Reached
  <2>3. BootSound'
    BY <1>2, <1>5, <2>1, <2>2 DEF BootSound
  <2> QED  BY <1>1, <2>3 DEF SchemaInv, Booted
<1> QED  BY <1>4, <1>5

LEMMA StoreShape ==
    ASSUME boot.store \in DOMAIN Stores
    PROVE  /\ Stores[boot.store] \in StoreNames
           /\ Len(Statements) \in Nat /\ DOMAIN Statements = 1 .. Len(Statements)
           /\ \A v \in DOMAIN Statements :
                Len(Statements[v]) \in Nat /\ DOMAIN Statements[v] = 1 .. Len(Statements[v])
BY Shape DEF StoreNames, Scripts, IsSequence, Statements

(* A statement of a migration, whether or not its effect is there already. *)
LEMMA StatementSound ==
    ASSUME SchemaInv, StatementRuns, schema' = schema \cup {Statement},
           boot' = [boot EXCEPT !.stmt = @ + 1], UNCHANGED <<versions, phase>>
    PROVE  SchemaInv'
<1> DEFINE s == Stores[boot.store]
<1>1. boot \in [store : 1 .. Len(Stores) + 1, mig : Nat, stmt : Nat]
  BY DEF SchemaInv, BootSound, StatementRuns, MigrationRuns
<1>2. boot'.store = boot.store /\ boot'.mig = boot.mig /\ boot'.stmt = boot.stmt + 1
      /\ boot' \in [store : 1 .. Len(Stores) + 1, mig : Nat, stmt : Nat]
  BY <1>1
<1>3. /\ phase = "boot" /\ boot.store \in DOMAIN Stores
      /\ boot.mig \in DOMAIN Statements /\ boot.stmt \in DOMAIN Statements[boot.mig]
  BY DEF StatementRuns, MigrationRuns
<1>4. /\ s \in StoreNames /\ Statements = Migrations[s]
      /\ Len(Statements) \in Nat /\ DOMAIN Statements = 1 .. Len(Statements)
      /\ Len(Statements[boot.mig]) \in Nat
      /\ DOMAIN Statements[boot.mig] = 1 .. Len(Statements[boot.mig])
  BY <1>3, StoreShape DEF Statements
<1>5. Statement \in EffectUpTo(s, Len(Migrations[s]))
  <2>1. Statement \in Effect(s, boot.mig)
    BY <1>3, <1>4 DEF Effect, Statement
  <2> QED  BY <1>3, <1>4, <2>1 DEF EffectUpTo
<1>6. schema' \subseteq UNION {EffectUpTo(x, Len(Migrations[x])) : x \in StoreNames}
  BY <1>4, <1>5 DEF SchemaInv
<1>7. InOrder' /\ Effective'
  BY DEF SchemaInv, InOrder, Effective, Reached
<1>8. \A n, x : Reached(x, n)' <=> Reached(x, n)
  BY DEF Reached
<1>9. Statements' = Statements
  BY <1>2 DEF Statements
<1>10. \A i \in 1 .. boot.stmt : Statements[boot.mig][i] \in schema'
  <2>1. \A i \in 1 .. boot.stmt - 1 : Statements[boot.mig][i] \in schema
    BY <1>3 DEF SchemaInv, BootSound
  <2>2. Statements[boot.mig][boot.stmt] \in schema'
    BY DEF Statement
  <2> QED  BY <1>1, <2>1, <2>2
<1>11. BootSound'
  <2>1. /\ \A i \in 1 .. boot.store - 1 : Reached(Stores[i], Len(Migrations[Stores[i]]))
        /\ boot.mig \in 1 .. Len(Statements) + 1
        /\ Reached(Stores[boot.store], boot.mig - 1)
    BY <1>3 DEF SchemaInv, BootSound
  <2>2. /\ \A i \in 1 .. boot'.store - 1 : Reached(Stores[i], Len(Migrations[Stores[i]]))'
        /\ Reached(Stores[boot.store], boot.mig - 1)'
    BY <1>2, <1>8, <2>1
  <2> QED
    BY <1>1, <1>2, <1>3, <1>4, <1>9, <1>10, <2>1, <2>2 DEF BootSound
<1> QED  BY <1>3, <1>6, <1>7, <1>11 DEF SchemaInv, Booted

LEMMA RecordVersionSound ==
    ASSUME SchemaInv, RecordVersion
    PROVE  SchemaInv'
<1> DEFINE s == Stores[boot.store]
<1>1. boot \in [store : 1 .. Len(Stores) + 1, mig : Nat, stmt : Nat]
  BY DEF SchemaInv, BootSound, RecordVersion, MigrationRuns
<1>2. /\ boot'.store = boot.store /\ boot'.mig = boot.mig + 1 /\ boot'.stmt = 1
      /\ boot' \in [store : 1 .. Len(Stores) + 1, mig : Nat, stmt : Nat]
  <2>1. boot' = [boot EXCEPT !.mig = @ + 1, !.stmt = 1]
    BY DEF RecordVersion
  <2>2. boot' = [store |-> boot.store, mig |-> boot.mig + 1, stmt |-> 1]
    BY <1>1, <2>1
  <2>3. boot.store \in 1 .. Len(Stores) + 1 /\ boot.mig + 1 \in Nat
    BY <1>1
  <2> QED  BY <2>2, <2>3
<1>3. /\ phase = "boot" /\ phase' = "boot" /\ boot.store \in DOMAIN Stores
      /\ boot.mig \in DOMAIN Statements /\ boot.stmt = Len(Statements[boot.mig]) + 1
      /\ versions' = versions \cup {<<s, boot.mig>>} /\ schema' = schema
  BY DEF RecordVersion, MigrationRuns, bootUnchanged
<1>4. /\ s \in StoreNames /\ Statements = Migrations[s]
      /\ Len(Statements) \in Nat /\ DOMAIN Statements = 1 .. Len(Statements)
      /\ \A v \in DOMAIN Statements :
           Len(Statements[v]) \in Nat /\ DOMAIN Statements[v] = 1 .. Len(Statements[v])
  BY <1>3, StoreShape DEF Statements
<1>5. /\ \A i \in 1 .. boot.store - 1 : Reached(Stores[i], Len(Migrations[Stores[i]]))
      /\ Reached(s, boot.mig - 1)
      /\ \A i \in 1 .. boot.stmt - 1 : Statements[boot.mig][i] \in schema
  BY <1>3 DEF SchemaInv, BootSound
<1>6. Effect(s, boot.mig) \subseteq schema
  BY <1>3, <1>4, <1>5 DEF Effect
<1>7. Effective'
  <2>1. \A id \in versions : Effect(id[1], id[2]) \subseteq schema
    BY DEF SchemaInv, Effective
  <2> QED  BY <1>3, <1>6, <2>1 DEF Effective
<1>8. versions' \subseteq MigrationIds
  BY <1>3, <1>4 DEF SchemaInv, MigrationIds
<1>9. \A v \in DOMAIN Migrations[s] : <<s, v>> \in versions' <=> v <= boot.mig
  BY <1>1, <1>2, <1>3, <1>4, <1>5 DEF Reached
<1>10. ASSUME NEW x, x # s, NEW n PROVE Reached(x, n)' <=> Reached(x, n)
  BY <1>3, <1>10 DEF Reached
<1>11. InOrder'
  <2> SUFFICES ASSUME NEW x \in StoreNames
               PROVE  \E n \in 0 .. Len(Migrations[x]) : Reached(x, n)'
    BY DEF InOrder
  <2>1. CASE x = s
    <3>1. boot.mig \in 0 .. Len(Migrations[s])
      BY <1>3, <1>4
    <3> QED  BY <1>9, <2>1, <3>1 DEF Reached
  <2>2. CASE x # s
    BY <1>10, <2>2 DEF SchemaInv, InOrder
  <2> QED  BY <2>1, <2>2
<1>12. \A i \in 1 .. boot.store - 1 : Reached(Stores[i], Len(Migrations[Stores[i]]))'
  <2> TAKE i \in 1 .. boot.store - 1
  <2>1. Stores[i] # s
    BY <1>1, <1>3, Shape DEF IsSequence
  <2> QED  BY <1>5, <1>10, <2>1
<1>13. Statements' = Statements
  BY <1>2 DEF Statements
<1>14. BootSound'
  <2>1. Reached(Stores[boot.store], boot.mig - 1)'
    <3>1. (boot.mig + 1) - 1 = boot.mig
      BY <1>1
    <3> QED  BY <1>2, <1>9, <3>1 DEF Reached
  <2>2. boot'.mig \in 1 .. Len(Statements) + 1
    BY <1>1, <1>2, <1>3, <1>4
  <2>3. /\ boot'.stmt \in Nat \ {0}
        /\ boot'.mig \in DOMAIN Statements =>
             /\ boot'.stmt \in 1 .. Len(Statements[boot'.mig]) + 1
             /\ 1 .. boot'.stmt - 1 = {}
    BY <1>1, <1>2, <1>4
  <2> QED  BY <1>2, <1>3, <1>12, <1>13, <2>1, <2>2, <2>3 DEF BootSound
<1> QED  BY <1>3, <1>7, <1>8, <1>11, <1>14 DEF SchemaInv, Booted

LEMMA NextStoreSound ==
    ASSUME SchemaInv, NextStore
    PROVE  SchemaInv'
<1>1. /\ phase = "boot" /\ phase' = "boot" /\ UNCHANGED <<schema, versions>>
      /\ boot.store \in DOMAIN Stores /\ boot.mig \notin DOMAIN Statements
      /\ boot' = OpenStore(boot.store + 1)
  BY DEF NextStore
<1>2. /\ boot \in [store : 1 .. Len(Stores) + 1, mig : Nat, stmt : Nat]
      /\ \A i \in 1 .. boot.store - 1 : Reached(Stores[i], Len(Migrations[Stores[i]]))
      /\ boot.mig \in 1 .. Len(Statements) + 1
      /\ Reached(Stores[boot.store], boot.mig - 1)
  BY <1>1 DEF SchemaInv, BootSound
<1>3. Len(Stores) \in Nat /\ DOMAIN Stores = 1 .. Len(Stores)
  BY Shape DEF IsSequence
<1>4. boot.mig - 1 = Len(Migrations[Stores[boot.store]])
  <2>1. Len(Statements) \in Nat /\ DOMAIN Statements = 1 .. Len(Statements)
    BY <1>1, StoreShape
  <2>2. boot.mig = Len(Statements) + 1
    BY <1>1, <1>2, <2>1
  <2> QED  BY <2>1, <2>2 DEF Statements
<1>5. \A i \in 1 .. boot.store : Reached(Stores[i], Len(Migrations[Stores[i]]))
  BY <1>2, <1>4
<1>6. boot.store + 1 \in 1 .. Len(Stores) + 1 /\ (boot.store + 1) - 1 = boot.store
  BY <1>1, <1>2, <1>3
<1> QED  BY <1>1, <1>5, <1>6, OpenStoreSound

LEMMA ListenSound ==
    ASSUME SchemaInv, Listen
    PROVE  SchemaInv'
<1>1. /\ phase = "boot" /\ phase' = "serving" /\ UNCHANGED <<schema, versions>>
      /\ boot.store \notin DOMAIN Stores
  BY DEF Listen
<1>2. Len(Stores) \in Nat /\ DOMAIN Stores = 1 .. Len(Stores)
  BY Shape DEF IsSequence
<1>3. /\ boot.store = Len(Stores) + 1
      /\ \A i \in 1 .. boot.store - 1 : Reached(Stores[i], Len(Migrations[Stores[i]]))
  BY <1>1, <1>2 DEF SchemaInv, BootSound
<1>4. \A s \in StoreNames : Reached(s, Len(Migrations[s]))
  BY <1>2, <1>3 DEF StoreNames
<1>5. ASSUME NEW s \in StoreNames, NEW v \in DOMAIN Migrations[s]
      PROVE  <<s, v>> \in versions
  <2>1. Reached(s, Len(Migrations[s])) /\ v <= Len(Migrations[s])
    BY <1>4, <1>5, Shape DEF Scripts, IsSequence
  <2> QED  BY <1>5, <2>1 DEF Reached
<1>6. versions = MigrationIds
  BY <1>5 DEF SchemaInv, MigrationIds
<1>7. InOrder' /\ Effective' /\ BootSound'
  BY <1>1 DEF SchemaInv, InOrder, Effective, Reached, BootSound
<1> QED  BY <1>1, <1>6, <1>7 DEF SchemaInv, Booted

LEMMA SchemaStep ==
    ASSUME SchemaInv, [ServerNext]_serverVars
    PROVE  SchemaInv'
<1>1. CASE Start
  <2>1. 1 \in 1 .. Len(Stores) + 1
    BY Shape DEF IsSequence
  <2> QED  BY <1>1, <2>1, OpenStoreSound DEF Start
<1>2. CASE Create
  BY <1>2, StatementSound DEF Create, bootUnchanged
<1>3. CASE AddColumn
  <2>1. schema' = schema \cup {Statement}
    BY <1>3 DEF AddColumn
  <2> QED  BY <1>3, <2>1, StatementSound DEF AddColumn, bootUnchanged
<1>4. CASE RecordVersion \/ NextStore \/ Listen
  BY <1>4, RecordVersionSound, NextStoreSound, ListenSound
<1>5. CASE Die \/ Exit
  BY <1>5, SchemaKept DEF Die, Exit, Gone
<1>6. CASE Signal \/ BeginDrain \/ Tick \/ ListenerDrained \/ ListenerDeadline
           \/ TasksJoined \/ TasksDeadline \/ Report
  BY <1>6, SchemaKept DEF Signal, BeginDrain, Tick, ListenerDrained, ListenerDeadline,
     TasksJoined, TasksDeadline, Report, drainUnchanged, schemaVars, Booted
<1>7. CASE \E q \in Req : Request(q)
  BY <1>7, SchemaKept DEF Request, Arrive, Detach, Finish, SwapJwtKey, OpenKeyFile,
     WriteKeyFile, KeyFileError, reqUnchanged, schemaVars
<1>8. CASE \E t \in Task : Background(t)
  BY <1>8, SchemaKept DEF Background, TaskTick, TaskBlocks, TaskUnblocks, TaskDone, TaskStop, taskUnchanged, schemaVars
<1>9. CASE UNCHANGED serverVars
  BY <1>9, SchemaKept DEF serverVars, schemaVars
<1> QED
  BY <1>1, <1>2, <1>3, <1>4, <1>5, <1>6, <1>7, <1>8, <1>9 DEF ServerNext, Boot, Drain

----------------------------------------------------------------------------
USE DEF Late

LEMMA ServerTypeStep ==
    ASSUME ServerTypeOK, SchemaInv', DrainInv, [ServerNext]_serverVars
    PROVE  ServerTypeOK'
<1> DEFINE Rest ==
      /\ phase \in {"down", "boot", "serving", "delay", "closing", "tasks", "report", "exit"}
      /\ timeout \in {0, Timeout} /\ tls \in BOOLEAN
      /\ task \in [Task -> {"idle", "busy", "blocking", "joined"}]
    DrainOK ==
      /\ draining \in BOOLEAN /\ cut \in BOOLEAN
      /\ waited \in 0 .. Timeout + Late /\ elapsed \in 0 .. 2 * (Timeout + Late)
      /\ told \in {"none", "started", "graceful", "timed_out"}
    KeyOK ==
      /\ req \in [Req -> {"none", "running", "job", "swapped", "opened"}]
      /\ mem \in 0 .. made /\ file \in 0 .. made /\ made \in 0 .. MaxKey
      /\ new \in [Req -> 0 .. made] /\ retired \subseteq 1 .. made
      /\ crossed \in 0 .. made /\ faults \in 0 .. MaxFaults
<1>1. Rest /\ DrainOK /\ KeyOK
  BY DEF ServerTypeOK
<1>2. SUFFICES Rest' /\ DrainOK' /\ KeyOK'
  BY DEF ServerTypeOK, SchemaInv
<1>3. CASE Start \/ Create \/ AddColumn \/ RecordVersion \/ NextStore \/ Listen
  <2>1. UNCHANGED <<draining, waited, elapsed, cut, req, task, file, made, new, retired, crossed, faults>>
        /\ mem' \in {mem, file} /\ told' \in {told, "started"}
    BY <1>3 DEF Start, Create, AddColumn, RecordVersion, NextStore, Listen, bootUnchanged,
       drainVars, workVars, keyVars
  <2>2. /\ phase' \in {phase, "boot", "serving"} /\ timeout' \in {timeout, 0, Timeout}
        /\ tls' \in BOOLEAN
    BY <1>1, <1>3 DEF Start, Create, AddColumn, RecordVersion, NextStore, Listen, bootUnchanged
  <2> QED  BY <1>1, <2>1, <2>2
<1>4. CASE Die \/ Exit
  <2>1. /\ phase' = "down" /\ draining' = FALSE /\ waited' = 0 /\ elapsed' = 0
        /\ told' = "none" /\ cut' = FALSE /\ mem' = 0
        /\ req' = [q \in Req |-> "none"] /\ task' = [t \in Task |-> "idle"]
        /\ new' = [q \in Req |-> 0]
        /\ UNCHANGED <<file, made, retired, crossed, timeout, tls>>
        /\ faults' = faults \/ (faults < MaxFaults /\ faults' = faults + 1)
    BY <1>4 DEF Die, Exit, Gone
  <2>2. Rest'
    BY <1>1, <2>1
  <2>3. DrainOK'
    <3>1. 0 \in 0 .. Timeout + Late /\ 0 \in 0 .. 2 * (Timeout + Late)
      BY TimeoutAssumption
    <3>2. FALSE \in BOOLEAN
      OBVIOUS
    <3> QED  BY <2>1, <3>1, <3>2
  <2>4. KeyOK'
    BY <1>1, <2>1, LimitsAssumption
  <2> QED  BY <2>2, <2>3, <2>4
<1>5. CASE Signal \/ BeginDrain \/ Tick \/ ListenerDrained \/ ListenerDeadline
           \/ TasksJoined \/ TasksDeadline \/ Report
  <2>1. UNCHANGED <<timeout, tls, task, mem, file, made, new, retired, crossed, faults>>
    BY <1>5 DEF Signal, BeginDrain, Tick, ListenerDrained, ListenerDeadline,
       TasksJoined, TasksDeadline, Report, drainUnchanged, keyVars
  <2>2. phase' \in {phase, "delay", "closing", "tasks", "report", "exit"}
    BY <1>5 DEF Signal, BeginDrain, Tick, ListenerDrained, ListenerDeadline,
       TasksJoined, TasksDeadline, Report
  <2>3. \/ UNCHANGED <<waited, elapsed>>
        \/ waited' = 0 /\ elapsed' \in {0, elapsed}
        \/ phase \in {"closing", "tasks"} /\ waited < Timeout + Late
           /\ waited' = waited + 1 /\ elapsed' = elapsed + 1
    BY <1>5 DEF Signal, BeginDrain, Tick, ListenerDrained, ListenerDeadline,
       TasksJoined, TasksDeadline, Report
  <2>4. draining' \in {draining, TRUE} /\ told' \in {told, "graceful", "timed_out"}
    BY <1>5 DEF Signal, BeginDrain, Tick, ListenerDrained, ListenerDeadline,
       TasksJoined, TasksDeadline, Report, ShutdownKind
  <2>5. cut' \in BOOLEAN
    <3>1. cut' = cut \/ cut' = (InFlight # {})
      BY <1>5 DEF Signal, BeginDrain, Tick, ListenerDrained, ListenerDeadline,
         TasksJoined, TasksDeadline, Report
    <3> QED  BY <1>1, <3>1
  <2>6. \/ req' = req
        \/ req' = [q \in Req |-> IF tls /\ req[q] = "running" THEN "job" ELSE req[q]]
    BY <1>5 DEF Signal, BeginDrain, Tick, ListenerDrained, ListenerDeadline,
       TasksJoined, TasksDeadline, Report
  <2>7. waited' \in 0 .. Timeout + Late /\ elapsed' \in 0 .. 2 * (Timeout + Late)
    BY <1>1, <2>3, TimeoutAssumption DEF DrainInv
  <2>8. req' \in [Req -> {"none", "running", "job", "swapped", "opened"}]
    BY <1>1, <2>6
  <2> QED  BY <1>1, <2>1, <2>2, <2>4, <2>5, <2>7, <2>8
<1>6. CASE \E q \in Req : Request(q)
  <2>1. PICK q \in Req : Request(q)
    BY <1>6
  <2>2. UNCHANGED <<phase, timeout, tls, draining, waited, elapsed, told, cut, task>>
    BY <2>1 DEF Request, Arrive, Detach, Finish, SwapJwtKey, OpenKeyFile, WriteKeyFile,
       KeyFileError, reqUnchanged, drainVars
  <2>3. CASE Arrive(q) \/ Detach(q) \/ Finish(q) \/ OpenKeyFile(q)
    <3>1. \E x \in {"none", "running", "job", "opened"} : req' = [req EXCEPT ![q] = x]
      BY <2>3 DEF Arrive, Detach, Finish, OpenKeyFile
    <3>2. file' \in {0, file} /\ UNCHANGED <<mem, made, new, retired, crossed, faults>>
      BY <2>3 DEF Arrive, Detach, Finish, OpenKeyFile, keyVars
    <3> QED  BY <1>1, <2>2, <3>1, <3>2
  <2>4. CASE SwapJwtKey(q)
    <3>1. KeyOK'
      BY <1>1, <2>4, LimitsAssumption DEF SwapJwtKey
    <3> QED  BY <1>1, <2>2, <3>1
  <2>5. CASE WriteKeyFile(q) \/ KeyFileError(q)
    <3>1. /\ req' = [req EXCEPT ![q] = "none"] /\ new' = [new EXCEPT ![q] = 0]
          /\ file' \in {file, new[q]} /\ UNCHANGED <<mem, made>>
          /\ retired' \subseteq retired \cup 1 .. new[q] - 1
          /\ crossed' \in {crossed, new[q], 0}
          /\ faults' = faults \/ (faults < MaxFaults /\ faults' = faults + 1)
      BY <2>5 DEF WriteKeyFile, KeyFileError, Answer
    <3>2. 1 .. new[q] - 1 \subseteq 1 .. made
      BY <1>1, LimitsAssumption
    <3> QED  BY <1>1, <2>2, <3>1, <3>2, LimitsAssumption
  <2> QED  BY <2>1, <2>3, <2>4, <2>5 DEF Request
<1>7. CASE \E t \in Task : Background(t)
  <2>1. PICK t \in Task : \E x \in {"idle", "busy", "blocking", "joined"} : task' = [task EXCEPT ![t] = x]
    BY <1>7 DEF Background, TaskTick, TaskBlocks, TaskUnblocks, TaskDone, TaskStop
  <2>2. UNCHANGED <<phase, timeout, tls, drainVars, req, keyVars, faults>>
    BY <1>7 DEF Background, TaskTick, TaskBlocks, TaskUnblocks, TaskDone, TaskStop, taskUnchanged
  <2> QED  BY <1>1, <2>1, <2>2 DEF drainVars, keyVars
<1>8. CASE UNCHANGED serverVars
  BY <1>1, <1>8 DEF serverVars, drainVars, workVars, keyVars
<1> QED  BY <1>3, <1>4, <1>5, <1>6, <1>7, <1>8 DEF ServerNext, Boot, Drain

(* What a step does to the requests at work and to the joined tasks.       *)
LEMMA DrainStep ==
    ASSUME ServerTypeOK, DrainInv, [ServerNext]_serverVars
    PROVE  DrainInv'
<1> USE DEF Closing, CutShort, AllJoined
<1>1. CASE Start \/ Boot
  <2>1. phase' \in {"boot", "serving"} /\ phase \in {"down", "boot"}
    BY <1>1 DEF Start, Boot, Create, AddColumn, RecordVersion, NextStore, Listen,
       bootUnchanged, StatementRuns, MigrationRuns
  <2>2. told' \in {told, "started"}
    BY <1>1 DEF Start, Boot, Create, AddColumn, RecordVersion, NextStore, Listen,
       bootUnchanged, drainVars
  <2> QED  BY <2>1, <2>2 DEF DrainInv
<1>2. CASE Die \/ Exit
  <2>1. phase' = "down" /\ told' = "none"
    BY <1>2 DEF Die, Exit, Gone
  <2> QED  BY <2>1 DEF DrainInv
<1>3. CASE Signal \/ BeginDrain \/ Tick \/ ListenerDrained \/ TasksJoined \/ TasksDeadline
  <2>1. UNCHANGED <<req, cut, told, task, timeout, tls>> /\ InFlight' = InFlight
    BY <1>3 DEF Signal, BeginDrain, Tick, ListenerDrained, TasksJoined, TasksDeadline,
       drainUnchanged, InFlight
  <2>2. CASE Signal
    BY <2>1, <2>2 DEF Signal, DrainInv
  <2>3. CASE BeginDrain
    BY <2>1, <2>3 DEF BeginDrain, DrainInv
  <2>4. CASE Tick
    BY <2>1, <2>4, TimeoutAssumption DEF Tick, DrainInv, ServerTypeOK
  <2>5. CASE ListenerDrained
    BY <2>1, <2>5, TimeoutAssumption DEF ListenerDrained, DrainInv, ServerTypeOK
  <2>6. CASE TasksJoined \/ TasksDeadline
    BY <2>1, <2>6 DEF TasksJoined, TasksDeadline, DrainInv
  <2> QED  BY <1>3, <2>2, <2>3, <2>4, <2>5, <2>6
<1>4. CASE ListenerDeadline
  <2>1. /\ phase = "closing" /\ phase' = "tasks" /\ told' = told /\ draining' = draining
        /\ waited' = 0 /\ elapsed' = elapsed /\ cut' = (InFlight # {})
        /\ req' = [q \in Req |-> IF tls /\ req[q] = "running" THEN "job" ELSE req[q]]
    BY <1>4 DEF ListenerDeadline
  <2>2. InFlight' \subseteq InFlight
    BY <2>1 DEF InFlight
  <2>3. InFlight' = {} \/ CutShort'
    <3>1. /\ timeout > 0 \/ tls
          /\ waited >= timeout /\ UNCHANGED <<timeout, tls>>
      BY <1>4 DEF ListenerDeadline, drainUnchanged
    <3>2. elapsed = waited
      BY <2>1 DEF DrainInv
    <3>3. timeout = 0 => tls
      BY <3>1
    <3> QED  BY <2>1, <2>2, <3>1, <3>2, <3>3 DEF CutShort
  <2>4. elapsed <= Timeout + Late + 0
    BY <2>1, TimeoutAssumption DEF DrainInv, ServerTypeOK
  <2> QED  BY <2>1, <2>3, <2>4 DEF DrainInv
<1>5. CASE Report
  <2>1. UNCHANGED <<req, cut, draining, task, timeout, tls, waited, elapsed>> /\ InFlight' = InFlight
        /\ phase = "report" /\ phase' = "exit"
    BY <1>5 DEF Report, drainUnchanged, InFlight
  <2> QED  BY <2>1 DEF DrainInv
<1>6. CASE \E q \in Req : Request(q)
  <2>1. PICK q \in Req : Request(q)
    BY <1>6
  <2>2. UNCHANGED <<phase, timeout, tls, draining, waited, elapsed, told, cut, task>>
    BY <2>1 DEF Request, Arrive, Detach, Finish, SwapJwtKey, OpenKeyFile, WriteKeyFile,
       KeyFileError, reqUnchanged, drainVars
  <2>3. \E x : /\ req' = [req EXCEPT ![q] = x]
               /\ \/ phase \in {"serving", "delay"}
                  \/ x \in {"none", "job"}
                  \/ req[q] \in {"running", "swapped", "opened"}
    BY <2>1 DEF Request, Arrive, Detach, Finish, SwapJwtKey, OpenKeyFile, WriteKeyFile,
       KeyFileError, Answer
  <2>4. phase \in {"serving", "delay"} \/ InFlight' \subseteq InFlight
    BY <2>3 DEF InFlight, ServerTypeOK
  <2> QED  BY <2>2, <2>4 DEF DrainInv
<1>7. CASE \E t \in Task : Background(t)
  <2>1. UNCHANGED <<phase, timeout, tls, draining, waited, elapsed, told, cut, req>>
        /\ InFlight' = InFlight
    BY <1>7 DEF Background, TaskTick, TaskBlocks, TaskUnblocks, TaskDone, TaskStop, taskUnchanged, drainVars, InFlight
  <2>2. \A u \in Task : task[u] = "joined" => task'[u] = "joined"
    BY <1>7 DEF Background, TaskTick, TaskBlocks, TaskUnblocks, TaskDone, TaskStop, ServerTypeOK
  <2> QED  BY <2>1, <2>2 DEF DrainInv
<1>8. CASE UNCHANGED serverVars
  BY <1>8 DEF serverVars, drainVars, workVars, DrainInv, InFlight
<1> QED  BY <1>1, <1>2, <1>3, <1>4, <1>5, <1>6, <1>7, <1>8 DEF ServerNext, Drain

LEMMA KeyStep ==
    ASSUME ServerTypeOK, KeyInv, [ServerNext]_serverVars
    PROVE  KeyInv'
<1>1. CASE Start
  <2>1. /\ phase = "down" /\ phase' = "boot" /\ mem' = file
        /\ UNCHANGED <<req, file, new, retired, crossed>>
    BY <1>1 DEF Start, workVars
  <2>2. \A q \in Req : new[q] = 0
    BY <2>1 DEF KeyInv
  <2> QED  BY <2>1, <2>2 DEF KeyInv, ServerTypeOK
<1>2. CASE Die \/ Exit
  <2>1. /\ mem' = 0 /\ req' = [q \in Req |-> "none"] /\ new' = [q \in Req |-> 0]
        /\ UNCHANGED <<file, retired, crossed>>
    BY <1>2 DEF Die, Exit, Gone
  <2>2. 0 \notin retired
    BY DEF ServerTypeOK
  <2> QED  BY <2>1, <2>2 DEF KeyInv
<1>3. CASE Boot \/ Signal \/ BeginDrain \/ Tick \/ ListenerDrained \/ ListenerDeadline
           \/ TasksJoined \/ TasksDeadline \/ Report
  <2>1. phase' # "down" /\ UNCHANGED keyVars
    BY <1>3 DEF Boot, Create, AddColumn, RecordVersion, NextStore, Listen, bootUnchanged,
       StatementRuns, MigrationRuns, Signal, BeginDrain, Tick, ListenerDrained,
       ListenerDeadline, TasksJoined, TasksDeadline, Report, drainUnchanged
  <2>2. \A q \in Req : req'[q] \in {"swapped", "opened"} => req'[q] = req[q]
    BY <1>3 DEF Boot, Create, AddColumn, RecordVersion, NextStore, Listen, bootUnchanged,
       workVars, Signal, BeginDrain, Tick, ListenerDrained, ListenerDeadline, TasksJoined,
       TasksDeadline, Report
  <2> QED  BY <2>1, <2>2 DEF KeyInv, keyVars
<1>4. CASE \E q \in Req : Request(q)
  <2>1. PICK q \in Req : Request(q)
    BY <1>4
  <2>2. phase # "down" /\ phase' = phase
    BY <2>1 DEF Request, Arrive, Detach, Finish, SwapJwtKey, OpenKeyFile, WriteKeyFile,
       KeyFileError, reqUnchanged, KeyInv
  <2>3. CASE Arrive(q) \/ Detach(q) \/ Finish(q)
    <3>1. /\ UNCHANGED keyVars
          /\ \E x \in {"none", "running", "job"} : req' = [req EXCEPT ![q] = x]
      BY <2>3 DEF Arrive, Detach, Finish
    <3>2. \A p \in Req : req'[p] \in {"swapped", "opened"} => req'[p] = req[p]
      BY <3>1 DEF ServerTypeOK
    <3> QED  BY <2>2, <3>1, <3>2 DEF keyVars, KeyInv
  <2>4. CASE SwapJwtKey(q)
    <3>1. made + 1 \notin retired /\ \A p \in Req : new[p] <= made + 1
      BY DEF ServerTypeOK
    <3>2. /\ mem' = made + 1 /\ new' = [new EXCEPT ![q] = made + 1]
          /\ UNCHANGED <<file, retired, crossed>> /\ req' = [req EXCEPT ![q] = "swapped"]
      BY <2>4 DEF SwapJwtKey
    <3>3. \A p \in Req : new'[p] \in {new[p], made + 1}
      BY <3>2 DEF ServerTypeOK
    <3> QED  BY <2>2, <3>1, <3>2, <3>3 DEF KeyInv, ServerTypeOK
  <2>5. CASE OpenKeyFile(q)
    <3>1. /\ file' = 0 /\ UNCHANGED <<mem, new, retired, crossed>>
          /\ req[q] = "swapped" /\ req' = [req EXCEPT ![q] = "opened"]
      BY <2>5 DEF OpenKeyFile
    <3> QED  BY <2>2, <3>1 DEF KeyInv, ServerTypeOK
  <2>6. CASE WriteKeyFile(q)
    <3>1. /\ mem' = mem /\ file' = new[q] /\ req[q] = "opened"
          /\ new' = [new EXCEPT ![q] = 0] /\ req' = [req EXCEPT ![q] = "none"]
          /\ retired' = retired \cup 1 .. new[q] - 1
          /\ crossed' = IF new[q] \in retired THEN new[q] ELSE 0
      BY <2>6 DEF WriteKeyFile, Answer
    <3>2. new[q] \in Nat /\ mem \in Nat /\ new[q] <= mem /\ new[q] # 0
      BY <3>1 DEF KeyInv, ServerTypeOK
    <3>3. new[q] \notin 1 .. new[q] - 1 /\ mem \notin 1 .. new[q] - 1
      BY <3>2
    <3>4. file' \in retired' => file' = crossed'
      BY <3>1, <3>3
    <3>5. mem' \notin retired'
      BY <3>1, <3>2, <3>3 DEF KeyInv
    <3>6. \A p \in Req : /\ new'[p] \in {0, new[p]} /\ new'[p] <= mem
                         /\ req'[p] \in {"swapped", "opened"} => new'[p] # 0
      BY <3>1, <3>2 DEF KeyInv, ServerTypeOK
    <3> QED  BY <2>2, <3>1, <3>4, <3>5, <3>6 DEF KeyInv
  <2>7. CASE KeyFileError(q)
    <3>1. /\ new' = [new EXCEPT ![q] = 0] /\ req' = [req EXCEPT ![q] = "none"]
          /\ UNCHANGED <<mem, file, retired, crossed>>
      BY <2>7 DEF KeyFileError, Answer
    <3>2. \A p \in Req : /\ new'[p] \in {0, new[p]} /\ new'[p] <= mem
                         /\ req'[p] \in {"swapped", "opened"} => new'[p] # 0
      BY <3>1 DEF KeyInv, ServerTypeOK
    <3>3. (\A p \in Req : new[p] = 0) => \A p \in Req : new'[p] = 0
      BY <3>2
    <3> QED  BY <2>2, <3>1, <3>2, <3>3 DEF KeyInv
  <2> QED  BY <2>1, <2>3, <2>4, <2>5, <2>6, <2>7 DEF Request
<1>5. CASE \E t \in Task : Background(t)
  BY <1>5 DEF Background, TaskTick, TaskBlocks, TaskUnblocks, TaskDone, TaskStop, taskUnchanged, keyVars, KeyInv
<1>6. CASE UNCHANGED serverVars
  BY <1>6 DEF serverVars, workVars, keyVars, KeyInv
<1> QED  BY <1>1, <1>2, <1>3, <1>4, <1>5, <1>6 DEF ServerNext, Drain

(* The invariant of the process: databases, shutdown and keys.             *)
THEOREM ServerInvariance == ServerSpec => []ServerIInv
<1>1. ServerInit => ServerIInv
  <2> SUFFICES ASSUME ServerInit PROVE ServerIInv
    OBVIOUS
  <2>1. SchemaInv
    BY SchemaStarts
  <2>2. ServerTypeOK
    <3>1. /\ 0 \in 0 .. MaxFaults /\ 0 \in 0 .. MaxKey /\ 0 \in 0 .. 0
          /\ 0 \in 0 .. Timeout + Late /\ 0 \in 0 .. 2 * (Timeout + Late)
      BY TimeoutAssumption, LimitsAssumption
    <3>2. /\ req \in [Req -> {"none", "running", "job", "swapped", "opened"}]
          /\ task \in [Task -> {"idle", "busy", "blocking", "joined"}]
          /\ new \in [Req -> 0 .. made] /\ retired \subseteq 1 .. made
      BY DEF ServerInit
    <3> QED  BY <2>1, <3>1, <3>2 DEF ServerInit, ServerTypeOK, SchemaInv
  <2>3. DrainInv
    BY DEF ServerInit, DrainInv, Closing
  <2>4. KeyInv
    BY DEF ServerInit, KeyInv
  <2> QED  BY <2>1, <2>2, <2>3, <2>4 DEF ServerIInv
<1>2. ServerIInv /\ [ServerNext]_serverVars => ServerIInv'
  BY SchemaStep, ServerTypeStep, DrainStep, KeyStep DEF ServerIInv
<1> QED  BY <1>1, <1>2, PTL DEF ServerSpec

(* The variables of the process keep their types.                          *)
THEOREM ServerTypeCorrect == ServerSpec => []ServerTypeOK
<1>1. ServerIInv => ServerTypeOK
  BY DEF ServerIInv
<1> QED  BY <1>1, ServerInvariance, PTL

(* db_migrate::run: whatever databases the process found and wherever      *)
(* boots died, a recorded version has all of its effect, and a process     *)
(* that serves has every migration, recorded.                              *)
THEOREM SchemasSound == ServerSpec => []SchemaSound
<1>1. ServerIInv => SchemaSound
  BY DEF ServerIInv, SchemaInv, Effective, SchemaSound
<1> QED  BY <1>1, ServerInvariance, PTL

(* emit_server_shutdown: when the server.shutdown row is written, no       *)
(* handler is at work but those that the listener cut at its deadline, and *)
(* no task unless the deadline of the tasks has passed.                    *)
THEOREM ShutdownRowsLast == ServerSpec => []ShutdownRowLast
<1>1. ServerIInv => ShutdownRowLast
  BY DEF ServerIInv, DrainInv, ShutdownRowLast, Closing, CutShort, AllJoined
<1> QED  BY <1>1, ServerInvariance, PTL

(* admin_rotate_jwt_key: a key reported as replaced comes back only if its *)
(* own rotation was the last to write the file, over any number of         *)
(* crashes, failed writes and rotations that cross.                        *)
THEOREM RetiredKeysStay == ServerSpec => []RetiredStaysRetired
<1>1. ServerIInv => RetiredStaysRetired
  BY DEF ServerIInv, KeyInv, RetiredStaysRetired
<1> QED  BY <1>1, ServerInvariance, PTL
=============================================================================
