-------------------------- MODULE UploadPackProofs --------------------------
(***************************************************************************)
(* Proofs about the two ways that packs go, and what they are wrapped in:  *)
(* about UploadPack, for every commit graph, repository and client, and    *)
(* any number of steps of the writers; about PackIngest, for every set of  *)
(* packs and of objects that a repository has, and any number of steps of  *)
(* others; and about PktLine, for every stream of frames and its cuts.     *)
(***************************************************************************)
EXTENDS UploadPack, CommitGraphProofs, PackIngest, PktLine, FiniteSetTheorems, WellFoundedInduction, TLAPS

(* The inductive invariant.  Its parts are about the listing, the fetch    *)
(* and the objects of the repository.                                      *)

\* Every value that a ref has now was observed.
Observed == \A r \in Ref : Value(r) \in held[r]

\* While HEAD is looked up, a packed line is as good as the file that was
\* not there; from then on HEAD is fixed.
HeadSound ==
  /\ pc = "headPacked" => Shows(Main, packed[Main])
  /\ pc \in {"list", "walk"} => Shows(Main, head)

\* enumerate_refs: a row is right, will be overridden, or its file is gone.
RowsSound ==
  pc = "walk" => \A r \in Ref :
    \/ Shows(r, rows[r]) \/ r \in unlinked
    \/ r \in todo /\ loose[r] # None

\* list_refs: a row is right, or the packed line will do.
WalkSound ==
  /\ pc = "walkRefs" => \A r \in Ref \ todo :
       IF rows[r] # None THEN rows[r] \in held[r] ELSE Shows(r, packed[r])
  /\ pc = "listed" => \A r \in Ref : Shows(r, rows[r])

\* The client is closed until it gets the pack, and what it has bounds the
\* walk, which passes over the skippable only.
FetchSound ==
  /\ pc \notin {"packed", "done"} => Closed(mine)
  /\ haves \subseteq mine
  /\ pc = "pack" => commits \subseteq Reach(wants)
                    /\ Reach(wants) \subseteq mine \cup commits \cup Reach(Skipped)
  /\ FetchComplete

\* No ref dangles, nor does one come back from packed-refs when its file is
\* removed; and the native generator gives up for a reason.
ObjectsSound ==
  /\ deleting # None => packed[deleting] = None
  /\ \A r \in Ref : Reach({Value(r)}) \subseteq odb
  /\ kept \subseteq Live
  /\ pc = "fallback" => broken \/ ~(wants \subseteq kept)
  /\ ReadsServed

IInv == TypeOK /\ Observed /\ HeadSound /\ RowsSound /\ WalkSound /\ FetchSound /\ ObjectsSound

-----------------------------------------------------------------------------
(* A value is a commit or None.                                            *)
LEMMA ValueType == ASSUME TypeOK, NEW r \in Ref PROVE Value(r) \in Tip
BY DEF TypeOK, Value

(* The objects that refs reach are in the repository.                      *)
LEMMA LiveStored ==
  ASSUME odb \subseteq Commit, \A r \in Ref : Reach({Value(r)}) \subseteq odb
  PROVE  Live \subseteq odb
<1> DEFINE T == {Value(r) : r \in Ref}
<1>1. \A t \in T : Reach({t}) \subseteq odb
  OBVIOUS
<1>2. Reach(T) \subseteq odb
  <2> HIDE DEF T
  <2> QED BY <1>1, ReachUnion
<1>3. QED
  BY <1>2 DEF Live

(* What is wanted and live can be read in full.                            *)
LEMMA WantedStored ==
  ASSUME TypeOK, ObjectsSound, wants \subseteq kept
  PROVE  Reach(wants) \subseteq odb
<1>1. Live \subseteq odb
  BY LiveStored DEF TypeOK, ObjectsSound
<1>2. Closed(Live) /\ Live \in SUBSET Commit
  BY ReachClosed DEF Live
<1>3. wants \cap Commit \subseteq Live
  BY DEF ObjectsSound
<1>4. Reach(wants) \subseteq Live
  BY <1>2, <1>3, ReachLeast
<1>5. QED
  BY <1>1, <1>4

(* The client has whatever git leaves out.                                 *)
LEMMA BetweenCovers ==
  ASSUME TypeOK, Closed(mine), haves \subseteq mine
  PROVE  /\ Between \subseteq Reach(wants)
         /\ Reach(wants) \subseteq mine \cup Between
<1>1. mine \in SUBSET Commit /\ (haves \cap odb) \cap Commit \subseteq mine
  BY DEF TypeOK
<1>2. Reach(haves \cap odb) \subseteq mine
  BY <1>1, ReachLeast
<1>3. QED
  BY <1>2 DEF Between, Boundary

(* What the walk does not enter, the client has, or it may be passed over: *)
(* a have that the repository kept is in the boundary.                     *)
LEMMA NotShown ==
  ASSUME TypeOK, haves \subseteq mine, kept \subseteq odb, NEW c \in Reach(wants), ~Shown(c)
  PROVE  c \in mine \/ c \in Skipped
<1>1. c \in Commit /\ \A h \in haves : h \in Commit
  BY ReachClosed DEF TypeOK
<1>2. CASE c \in haves
  BY <1>2
<1>3. CASE c \notin haves /\ c \notin odb
  <2>1. haves # {} /\ c \notin kept
    BY <1>3 DEF Shown, Boundary
  <2>2. QED
    BY <2>1 DEF Skipped, Skippable
<1>4. CASE c \notin haves /\ c \in odb
  <2>1. Boundary # {} /\ \A h \in Boundary : ~(Time[h] <= Time[c])
    BY <1>4 DEF Shown
  <2>2. \A h \in haves : Time[h] \in Nat /\ Time[c] \in Nat
    BY <1>1, TimeAssumption
  <2>3. \A h \in Boundary : h \in haves /\ Time[c] < Time[h]
    BY <2>1, <2>2 DEF Boundary
  <2>4. \A h \in haves \cap kept : h \in Boundary
    BY DEF Boundary
  <2>5. Skippable(c)
    BY <2>1, <2>3, <2>4 DEF Skippable
  <2>6. QED
    BY <2>5 DEF Skipped
<1>5. QED
  BY <1>2, <1>3, <1>4

(* The walk yields what it enters, from the wants and from parent to       *)
(* parent, and nothing that the wants do not reach.                        *)
LEMMA WalkedFollows ==
  ASSUME wants \subseteq Commit
  PROVE  /\ Walked \subseteq Reach(wants)
         /\ \A c \in Commit :
              (c \in wants \/ \E d \in Walked : c \in Parents[d]) /\ Shown(c) => c \in Walked
<1> DEFINE Follows(S) == \A c \in Commit :
             (c \in wants \/ \E d \in S : c \in Parents[d]) /\ Shown(c) => c \in S
<1>1. Walked = {c \in Commit : \A S \in SUBSET Commit : Follows(S) => c \in S}
  BY DEF Walked
<1>2. Walked \subseteq Reach(wants)
  <2>1. Closed(Reach(wants)) /\ Reach(wants) \in SUBSET Commit /\ wants \subseteq Reach(wants)
    BY ReachClosed, ReachTips
  <2>2. Follows(Reach(wants))
    BY <2>1 DEF Closed
  <2>3. QED
    <3> HIDE DEF Follows
    <3> QED BY <1>1, <2>1, <2>2
<1>3. ASSUME NEW c \in Commit, c \in wants \/ \E d \in Walked : c \in Parents[d], Shown(c)
      PROVE  c \in Walked
  <2>1. ASSUME NEW S \in SUBSET Commit, Follows(S) PROVE c \in S
    <3>1. \A d \in Walked : d \in S
      <4> HIDE DEF Follows
      <4> QED BY <1>1, <2>1
    <3>2. QED
      BY <1>3, <2>1, <3>1
  <2>2. QED
    <3> HIDE DEF Follows
    <3> QED BY <1>1, <2>1
<1>4. QED
  BY <1>2, <1>3

(* So what the client lacks after the pack, the cutoff passed over, or     *)
(* what that reaches.                                                      *)
LEMMA WalkCovers ==
  ASSUME TypeOK, Closed(mine), haves \subseteq mine, kept \subseteq odb
  PROVE  /\ Walked \subseteq Reach(wants)
         /\ Reach(wants) \subseteq mine \cup Walked \cup Reach(Skipped)
<1> DEFINE X == Reach(wants) \cap (mine \cup Walked \cup Reach(Skipped))
<1>1. wants \subseteq Commit /\ mine \subseteq Commit
  BY DEF TypeOK
<1>2. /\ Walked \subseteq Reach(wants)
      /\ \A c \in Commit :
           (c \in wants \/ \E d \in Walked : c \in Parents[d]) /\ Shown(c) => c \in Walked
  BY <1>1, WalkedFollows
<1>3. /\ Closed(Reach(wants)) /\ Reach(wants) \subseteq Commit /\ wants \subseteq Reach(wants)
      /\ Closed(Reach(Skipped)) /\ Skipped \subseteq Reach(Skipped)
  <2>1. Skipped \subseteq Commit
    BY ReachClosed DEF Skipped
  <2>2. QED
    BY <1>1, <2>1, ReachClosed, ReachTips
<1>4. ASSUME NEW c \in Reach(wants), c \in wants \/ \E d \in Walked : c \in Parents[d]
      PROVE  c \in X
  <2>1. CASE Shown(c)
    BY <1>2, <1>3, <1>4, <2>1
  <2>2. CASE ~Shown(c)
    BY <1>3, <2>2, NotShown
  <2>3. QED
    BY <2>1, <2>2
<1>5. wants \cap Commit \subseteq X
  BY <1>3, <1>4
<1>6. Closed(X)
  <2> SUFFICES ASSUME NEW d \in X, NEW c \in Parents[d] PROVE c \in X
    BY DEF Closed
  <2>1. c \in Reach(wants)
    BY <1>3 DEF Closed
  <2>2. CASE d \in Walked
    BY <1>4, <2>1, <2>2
  <2>3. CASE d \in mine
    BY <2>1, <2>3 DEF Closed
  <2>4. CASE d \in Reach(Skipped)
    BY <1>3, <2>1, <2>4 DEF Closed
  <2>5. QED
    BY <2>2, <2>3, <2>4
<1>7. X \in SUBSET Commit
  BY <1>3
<1>8. Reach(wants) \subseteq X
  <2> HIDE DEF X
  <2> QED BY <1>5, <1>6, <1>7, ReachLeast
<1>9. QED
  BY <1>2, <1>8

(* Less kept, more may be passed over.                                     *)
LEMMA SkippedGrows ==
  ASSUME kept' \subseteq kept, wants' = wants, haves' = haves
  PROVE  Reach(Skipped) \subseteq Reach(Skipped')
<1>1. Skipped \subseteq Skipped'
  BY DEF Skipped, Skippable
<1>2. \A c \in Skipped : Reach({c}) \subseteq Reach(Skipped')
  BY <1>1, ReachMember
<1>3. Reach(Skipped') \in SUBSET Commit
  BY ReachClosed
<1>4. QED
  BY <1>2, <1>3, ReachUnion

-----------------------------------------------------------------------------
(* The initial states.                                                     *)
LEMMA InitIInv == Init => IInv
<1> SUFFICES ASSUME Init PROVE IInv
  OBVIOUS
<1>1. loose \in [Ref -> Tip] /\ packed \in [Ref -> Tip]
  BY ReposAssumption DEF Init
<1>2. \A r \in Ref : Value(r) \in Tip
  BY <1>1 DEF Value
<1>3. Closed(Live) /\ Live \subseteq Commit
  BY ReachClosed DEF Live
<1>4. held = [r \in Ref |-> {Value(r)}]
  BY DEF Init
<1>5. held \in [Ref -> SUBSET Tip] /\ Observed
  <2>1. \A r \in Ref : {Value(r)} \in SUBSET Tip
    BY <1>2
  <2>2. QED
    BY <1>4, <2>1 DEF Observed
<1>6. mine \subseteq Commit /\ Closed(mine)
  BY ClonesAssumption DEF Init
<1>7. rows \in [Ref -> Tip]
  <2>1. rows = Empty
    BY DEF Init
  <2>2. QED
    BY <2>1 DEF Empty, Tip
<1>8. odb = Live /\ kept = Live /\ deleting = None /\ packing = FALSE /\ writes = 0
      /\ pc = "start" /\ head = None /\ todo = {} /\ wants = {} /\ haves = {}
      /\ commits = {} /\ broken = FALSE /\ deleted = {} /\ unlinked = {}
  BY DEF Init
<1>9. TypeOK
  <2>1. None \in Tip /\ writes \in 0 .. MaxWrites
    BY <1>8, WritesAssumption DEF Tip
  <2>2. packing \in BOOLEAN /\ broken \in BOOLEAN
    BY <1>8
  <2>3. QED
    BY <1>1, <1>3, <1>5, <1>6, <1>7, <1>8, <2>1, <2>2 DEF TypeOK
<1>10. \A r \in Ref : Reach({Value(r)}) \subseteq odb
  <2> TAKE r \in Ref
  <2> DEFINE T == {Value(q) : q \in Ref}
  <2>1. Value(r) \in T /\ Live = Reach(T)
    BY DEF Live
  <2>2. Reach({Value(r)}) \subseteq Reach(T)
    <3> HIDE DEF T
    <3> QED BY <2>1, ReachMember
  <2>3. QED
    BY <1>8, <2>1, <2>2
<1>11. QED
  BY <1>5, <1>6, <1>8, <1>9, <1>10
  DEF IInv, HeadSound, RowsSound, WalkSound, FetchSound, FetchComplete, ObjectsSound, ReadsServed

-----------------------------------------------------------------------------
(* What every step of a writer does and leaves alone.                      *)
WriterEffect ==
  /\ Running
  /\ UNCHANGED <<pc, listing, fetch>>
  /\ loose' \in [Ref -> Tip] /\ packed' \in [Ref -> Tip]
  /\ deleting' \in Ref \cup {None} /\ packing' \in BOOLEAN
  /\ odb' \subseteq Commit /\ writes' \in 0 .. MaxWrites
  /\ deleted \subseteq deleted' /\ unlinked \subseteq unlinked'
  /\ deleted' \subseteq Ref /\ unlinked' \subseteq Ref
  /\ Observe
  /\ \A r \in Ref : loose[r] # None /\ loose'[r] = None => r \in unlinked'
  /\ \A r \in Ref :
       \/ packed'[r] = packed[r] \/ packed'[r] = Value(r)
       \/ packed'[r] = None /\ r \in deleted'

(* The writers have that effect.                                           *)
LEMMA WriterStep == ASSUME TypeOK, Writers PROVE WriterEffect
<1> USE DEF listing, fetch
<1>0. \A r \in Ref : Value(r) \in Tip
  BY ValueType
<1>1. ASSUME NEW r \in Ref, NEW c \in Commit, Push(r, c) PROVE WriterEffect
  <2>1. writes' \in 0 .. MaxWrites
    BY <1>1, WritesAssumption DEF Push, Write, TypeOK
  <2>2. odb' \subseteq Commit /\ c \in Tip
    BY <1>1, ReachClosed DEF Push, TypeOK, Tip
  <2>3. QED
    BY <1>1, <2>1, <2>2, NoneAssumption DEF Push, Write, TypeOK, WriterEffect
<1>2. ASSUME NEW r \in Ref, DeletePacked(r) PROVE WriterEffect
  <2>1. writes' \in 0 .. MaxWrites /\ None \in Tip
    BY <1>2, WritesAssumption DEF DeletePacked, Write, TypeOK, Tip
  <2>2. QED
    BY <1>2, <2>1 DEF DeletePacked, Write, TypeOK, WriterEffect
<1>3. ASSUME NEW r \in Ref, PruneLoose(r) PROVE WriterEffect
  BY <1>3 DEF PruneLoose, TypeOK, WriterEffect, Tip
<1>4. CASE DeleteLoose
  BY <1>4, RefAssumption DEF DeleteLoose, TypeOK, WriterEffect, Tip
<1>5. CASE PackRefs
  <2>1. writes' \in 0 .. MaxWrites
    BY <1>5, WritesAssumption DEF PackRefs, Write, TypeOK
  <2>2. QED
    BY <1>0, <1>5, <2>1 DEF PackRefs, Write, TypeOK, WriterEffect
<1>6. ASSUME NEW c \in Commit, Collect(c) PROVE WriterEffect
  <2>1. writes' \in 0 .. MaxWrites
    BY <1>6, WritesAssumption DEF Collect, Write, TypeOK
  <2>2. QED
    BY <1>6, <2>1 DEF Collect, Write, TypeOK, WriterEffect
<1>7. QED
  BY <1>1, <1>2, <1>3, <1>4, <1>5, <1>6 DEF Writers

(* A writer keeps the types.                                               *)
LEMMA WriterType == ASSUME TypeOK, Writers PROVE TypeOK'
<1>1. WriterEffect
  BY WriterStep
<1>2. \A r \in Ref : Value(r)' \in Tip
  BY <1>1 DEF WriterEffect, Value
<1>3. held' \in [Ref -> SUBSET Tip]
  <2>1. held' = [r \in Ref |-> held[r] \cup {Value(r)'}]
    BY <1>1 DEF WriterEffect, Observe
  <2>2. \A r \in Ref : held[r] \cup {Value(r)'} \in SUBSET Tip
    BY <1>2 DEF TypeOK
  <2>3. QED
    BY <2>1, <2>2
<1>4. kept' \subseteq Commit
  BY <1>1 DEF WriterEffect, Observe, TypeOK
<1>5. QED
  BY <1>1, <1>3, <1>4 DEF WriterEffect, TypeOK, listing, fetch

(* What a listing may show, it may show after a step of a writer.          *)
LEMMA ShowsStable ==
  ASSUME TypeOK, Writers, NEW r \in Ref, NEW v, Shows(r, v)
  PROVE  v \in held'[r] \/ (v = None /\ r \in deleted')
<1>1. held'[r] = held[r] \cup {Value(r)'} /\ deleted \subseteq deleted'
  BY WriterStep DEF WriterEffect, Observe
<1>2. QED
  BY <1>1 DEF Shows

(* A writer keeps what the invariant says of listings.                     *)
LEMMA WriterListing ==
  ASSUME TypeOK, Observed, HeadSound, RowsSound, WalkSound, Writers
  PROVE  Observed' /\ HeadSound' /\ RowsSound' /\ WalkSound'
<1>1. WriterEffect
  BY WriterStep
<1>2. \A r \in Ref : held'[r] = held[r] \cup {Value(r)'}
  BY <1>1 DEF WriterEffect, Observe
<1>3. pc' = pc /\ head' = head /\ rows' = rows /\ todo' = todo
  BY <1>1 DEF WriterEffect, listing
<1>4. Observed'
  BY <1>2 DEF Observed
<1>5. ASSUME NEW r \in Ref, Shows(r, packed[r])
      PROVE  Shows(r, packed[r])'
  <2>1. CASE packed'[r] = packed[r]
    BY <1>5, <2>1, ShowsStable DEF Shows
  <2>2. CASE packed'[r] = Value(r)
    BY <1>2, <2>2 DEF Observed, Shows
  <2>3. CASE packed'[r] = None /\ r \in deleted'
    BY <2>3 DEF Shows
  <2>4. QED
    BY <1>1, <2>1, <2>2, <2>3 DEF WriterEffect
<1>6. HeadSound'
  <2>1. pc = "headPacked" => Shows(Main, packed[Main])'
    BY <1>5, RefAssumption DEF HeadSound
  <2>2. pc \in {"list", "walk"} => Shows(Main, head)'
    BY <1>3, RefAssumption, ShowsStable DEF HeadSound, Shows
  <2>3. QED
    BY <1>3, <2>1, <2>2 DEF HeadSound
<1>7. RowsSound'
  <2> SUFFICES ASSUME pc = "walk", NEW r \in Ref
               PROVE  \/ Shows(r, rows[r])' \/ r \in unlinked'
                      \/ r \in todo /\ loose'[r] # None
    BY <1>3 DEF RowsSound
  <2>1. CASE Shows(r, rows[r])
    BY <1>3, <2>1, ShowsStable DEF Shows
  <2>2. CASE r \in unlinked
    BY <1>1, <2>2 DEF WriterEffect
  <2>3. CASE r \in todo /\ loose[r] # None
    BY <1>1, <2>3 DEF WriterEffect
  <2>4. QED
    BY <2>1, <2>2, <2>3 DEF RowsSound
<1>8. WalkSound'
  <2>1. ASSUME pc = "walkRefs", NEW r \in Ref \ todo
        PROVE  IF rows[r] # None THEN rows[r] \in held'[r] ELSE Shows(r, packed[r])'
    BY <1>2, <1>5, <2>1 DEF WalkSound
  <2>2. ASSUME pc = "listed" PROVE FALSE
    BY <1>1, <2>2 DEF WriterEffect, Running
  <2>3. QED
    BY <1>3, <2>1, <2>2 DEF WalkSound
<1>9. QED
  BY <1>4, <1>6, <1>7, <1>8

(* No writer leaves a ref dangling.                                        *)
LEMMA WriterStored ==
  ASSUME TypeOK, ObjectsSound, Writers, NEW q \in Ref
  PROVE  Reach({Value(q)'}) \subseteq odb'
<1>0. Reach({Value(q)}) \subseteq odb /\ Reach({None}) = {}
  BY ReachNone DEF ObjectsSound
<1>1. ASSUME NEW r \in Ref, NEW c \in Commit, Push(r, c)
      PROVE  Reach({Value(q)'}) \subseteq odb'
  <2>1. Value(q)' = (IF q = r THEN c ELSE Value(q)) /\ odb' = odb \cup Reach({c})
    BY <1>1, NoneAssumption DEF Push, Value, TypeOK
  <2>2. QED
    BY <1>0, <2>1
<1>2. ASSUME NEW r \in Ref, DeletePacked(r)
      PROVE  Reach({Value(q)'}) \subseteq odb'
  <2>1. (Value(q)' = Value(q) \/ Value(q)' = None) /\ odb' = odb
    BY <1>2 DEF DeletePacked, Value, TypeOK
  <2>2. QED
    BY <1>0, <2>1
<1>3. ASSUME NEW r \in Ref, PruneLoose(r)
      PROVE  Reach({Value(q)'}) \subseteq odb'
  <2>1. Value(q)' = Value(q) /\ odb' = odb
    BY <1>3 DEF PruneLoose, Value, TypeOK
  <2>2. QED
    BY <1>0, <2>1
<1>4. CASE DeleteLoose
  <2>0. loose'[q] = (IF q = deleting THEN None ELSE loose[q]) /\ packed' = packed /\ odb' = odb
    BY <1>4, RefAssumption DEF DeleteLoose, TypeOK
  <2>1. Value(q)' = Value(q) \/ Value(q)' = None
    BY <1>4, <2>0 DEF Value, ObjectsSound, DeleteLoose
  <2>2. QED
    BY <1>0, <2>0, <2>1
<1>5. CASE PackRefs
  <2>1. Value(q)' = Value(q) /\ odb' = odb
    BY <1>5 DEF PackRefs, Value, TypeOK
  <2>2. QED
    BY <1>0, <2>1
<1>6. ASSUME NEW c \in Commit, Collect(c)
      PROVE  Reach({Value(q)'}) \subseteq odb'
  <2>1. Value(q)' = Value(q) /\ odb' = odb \ {c} /\ c \notin Live
    BY <1>6 DEF Collect, Value
  <2> DEFINE T == {Value(r) : r \in Ref}
  <2>2. Value(q) \in T /\ Live = Reach(T)
    BY DEF Live
  <2>3. Reach({Value(q)}) \subseteq Reach(T)
    <3> HIDE DEF T
    <3> QED BY <2>2, ReachMember
  <2>4. QED
    BY <1>0, <2>1, <2>2, <2>3
<1>7. QED
  BY <1>1, <1>2, <1>3, <1>4, <1>5, <1>6 DEF Writers

(* A writer keeps what the invariant says of objects.                      *)
LEMMA WriterObjects ==
  ASSUME TypeOK, ObjectsSound, Writers
  PROVE  ObjectsSound'
<1>1. WriterEffect
  BY WriterStep
<1>2. pc' = pc /\ pc # "failed" /\ wants' = wants /\ broken' = broken
  BY <1>1 DEF WriterEffect, Running, fetch
<1>3. kept' \subseteq kept /\ kept' \subseteq Live'
  BY <1>1 DEF WriterEffect, Observe
<1>4. \A r \in Ref : Reach({Value(r)'}) \subseteq odb'
  BY WriterStored
<1>5. deleting' # None => packed'[deleting'] = None
  <2>1. ASSUME NEW r \in Ref, DeletePacked(r) PROVE packed'[deleting'] = None
    BY <2>1 DEF DeletePacked, TypeOK
  <2>2. CASE PackRefs
    BY <2>2 DEF PackRefs
  <2>3. CASE DeleteLoose
    BY <2>3 DEF DeleteLoose
  <2>4. ASSUME NEW r \in Ref, PruneLoose(r) PROVE deleting' = deleting /\ packed' = packed
    BY <2>4 DEF PruneLoose
  <2>5. ASSUME NEW r \in Ref, NEW c \in Commit, Push(r, c)
        PROVE  deleting' = deleting /\ packed' = packed
    BY <2>5 DEF Push
  <2>6. ASSUME NEW c \in Commit, Collect(c) PROVE deleting' = deleting /\ packed' = packed
    BY <2>6 DEF Collect
  <2>7. QED
    BY <2>1, <2>2, <2>3, <2>4, <2>5, <2>6 DEF Writers, ObjectsSound
<1>6. QED
  BY <1>2, <1>3, <1>4, <1>5 DEF ObjectsSound, ReadsServed

-----------------------------------------------------------------------------
(* The steps of a read leave the repository and the past alone.            *)
LEMMA ReadLeaves == ASSUME Read PROVE UNCHANGED <<repo, past>>
BY DEF Read, LsRefs, HeadLoose, HeadPacked, ListPacked, ListLoose, AdminGetRepo, AddPacked,
       WalkRefs, Fetch, Walk, WritePack, NativeFails, PackObjects, Subprocess, GetBlob,
       GetDiff, ReadObject

(* They keep the types.                                                    *)
LEMMA ReadType == ASSUME TypeOK, Read PROVE TypeOK'
<1>0. /\ loose' = loose /\ packed' = packed /\ deleting' = deleting /\ packing' = packing
      /\ odb' = odb /\ writes' = writes /\ held' = held /\ deleted' = deleted
      /\ unlinked' = unlinked /\ kept' = kept
  BY ReadLeaves DEF repo, past
<1>1. Between \subseteq Commit /\ Walked \subseteq Commit
  BY ReachClosed DEF Between, Walked
<1>2. CASE LsRefs
  BY <1>0, <1>2 DEF LsRefs, TypeOK, listing, fetch
<1>3. CASE HeadLoose
  BY <1>0, <1>3, RefAssumption DEF HeadLoose, TypeOK, listing, fetch
<1>4. CASE HeadPacked
  BY <1>0, <1>4, RefAssumption DEF HeadPacked, TypeOK, listing, fetch
<1>5. CASE ListPacked
  BY <1>0, <1>5 DEF ListPacked, TypeOK, listing, fetch
<1>6. ASSUME NEW r \in Ref, ListLoose(r) PROVE TypeOK'
  BY <1>0, <1>6 DEF ListLoose, TypeOK, listing, fetch
<1>7. CASE AdminGetRepo
  BY <1>0, <1>7 DEF AdminGetRepo, TypeOK, listing, fetch
<1>8. CASE AddPacked
  <2>1. rows' \in [Ref -> Tip]
    BY <1>8 DEF AddPacked, TypeOK
  <2>2. QED
    BY <1>0, <1>8, <2>1 DEF AddPacked, TypeOK, listing, fetch
<1>9. ASSUME NEW r \in Ref, WalkRefs(r) PROVE TypeOK'
  BY <1>0, <1>9 DEF WalkRefs, TypeOK, listing, fetch
<1>10. ASSUME NEW W \in SUBSET Commit, NEW H \in SUBSET Commit, Fetch(W, H) PROVE TypeOK'
  BY <1>0, <1>10 DEF Fetch, TypeOK, listing, fetch
<1>11. CASE Walk
  BY <1>0, <1>1, <1>11 DEF Walk, TypeOK, listing, fetch
<1>12. CASE WritePack
  BY <1>0, <1>12 DEF WritePack, TypeOK, listing, fetch
<1>13. CASE NativeFails
  BY <1>0, <1>13 DEF NativeFails, TypeOK, listing, fetch
<1>14. CASE PackObjects
  BY <1>0, <1>1, <1>14 DEF PackObjects, TypeOK, listing, fetch
<1>15. CASE Subprocess
  BY <1>0, <1>1, <1>15 DEF Subprocess, TypeOK, listing, fetch
<1>16. ASSUME NEW r \in Ref, GetBlob(r) PROVE TypeOK'
  <2>1. wants' \subseteq Commit
    BY <1>16, ValueType DEF GetBlob, Tip
  <2>2. QED
    BY <1>0, <1>16, <2>1 DEF GetBlob, TypeOK, listing, fetch
<1>17. ASSUME NEW c \in Commit, GetDiff(c) PROVE TypeOK'
  BY <1>0, <1>17 DEF GetDiff, TypeOK, listing, fetch
<1>18. CASE ReadObject
  BY <1>0, <1>18 DEF ReadObject, TypeOK, listing, fetch
<1>19. QED
  BY <1>2, <1>3, <1>4, <1>5, <1>6, <1>7, <1>8, <1>9, <1>10, <1>11, <1>12, <1>13, <1>14,
     <1>15, <1>16, <1>17, <1>18 DEF Read

(* What HEAD and the rows show stays right through the steps of a listing. *)
LEMMA ReadListing ==
  ASSUME TypeOK, Observed, HeadSound, RowsSound, WalkSound, Read
  PROVE  Observed' /\ HeadSound' /\ RowsSound' /\ WalkSound'
<1> DEFINE Goal == HeadSound' /\ RowsSound' /\ WalkSound'
<1>0. /\ loose' = loose /\ packed' = packed /\ held' = held
      /\ deleted' = deleted /\ unlinked' = unlinked
  BY ReadLeaves DEF repo, past
<1>1. Observed'
  BY <1>0 DEF Observed, Value
<1>2. \A r \in Ref : IF loose[r] # None THEN loose[r] \in held[r] ELSE Shows(r, packed[r])
  BY DEF Observed, Value, Shows
<1>20. SUFFICES Goal
  BY <1>1
<1>3. CASE LsRefs
  BY <1>3 DEF LsRefs, HeadSound, RowsSound, WalkSound, listing
<1>4. CASE HeadLoose
  <2>1. IF loose[Main] # None THEN pc' = "list" /\ Shows(Main, head')
                              ELSE pc' = "headPacked" /\ Shows(Main, packed[Main])
    <3>1. CASE loose[Main] # None
      BY <1>2, <1>4, <3>1, RefAssumption DEF HeadLoose, Shows
    <3>2. CASE loose[Main] = None
      BY <1>2, <1>4, <3>2, RefAssumption DEF HeadLoose
    <3>3. QED
      BY <3>1, <3>2
  <2>2. QED
    BY <1>0, <2>1 DEF HeadSound, RowsSound, WalkSound, Shows
<1>5. CASE HeadPacked
  <2>1. pc' = "list" /\ Shows(Main, head')
    BY <1>5 DEF HeadPacked, HeadSound
  <2>2. QED
    BY <1>0, <2>1 DEF HeadSound, RowsSound, WalkSound, Shows
<1>6. CASE ListPacked
  <2>1. HeadSound' /\ WalkSound'
    BY <1>0, <1>6 DEF ListPacked, HeadSound, WalkSound, Shows
  <2>2. RowsSound'
    BY <1>0, <1>2, <1>6 DEF ListPacked, RowsSound, Shows
  <2>3. QED
    BY <2>1, <2>2
<1>7. ASSUME NEW r \in Ref, ListLoose(r) PROVE Goal
  <2>1. HeadSound' /\ WalkSound'
    BY <1>0, <1>7 DEF ListLoose, HeadSound, WalkSound, Shows
  <2>2. RowsSound'
    <3> SUFFICES ASSUME NEW q \in Ref
                 PROVE  \/ Shows(q, rows'[q]) \/ q \in unlinked
                        \/ q \in todo' /\ loose[q] # None
      BY <1>0 DEF RowsSound, Shows
    <3>1. \/ Shows(q, rows[q]) \/ q \in unlinked
          \/ q \in todo /\ loose[q] # None
      BY <1>7 DEF ListLoose, RowsSound
    <3>2. CASE q = r /\ loose[r] # None
      BY <1>2, <1>7, <3>2 DEF ListLoose, TypeOK, Shows
    <3>3. CASE q = r /\ loose[r] = None
      BY <1>7, <3>1, <3>3 DEF ListLoose
    <3>4. CASE q # r
      <4>1. rows'[q] = rows[q] /\ (q \in todo => q \in todo')
        BY <1>7, <3>4 DEF ListLoose, TypeOK
      <4>2. QED
        BY <3>1, <4>1
    <3>5. QED
      BY <3>2, <3>3, <3>4
  <2>3. QED
    BY <2>1, <2>2
<1>8. CASE AdminGetRepo
  BY <1>8 DEF AdminGetRepo, HeadSound, RowsSound, WalkSound
<1>9. ASSUME NEW r \in Ref, WalkRefs(r) PROVE Goal
  <2>1. HeadSound' /\ RowsSound'
    BY <1>0, <1>9 DEF WalkRefs, HeadSound, RowsSound
  <2>2. WalkSound'
    <3> SUFFICES ASSUME NEW q \in Ref \ todo'
                 PROVE  IF rows'[q] # None THEN rows'[q] \in held[q] ELSE Shows(q, packed[q])
      BY <1>0, <1>9 DEF WalkRefs, WalkSound, Shows
    <3>1. CASE q = r
      BY <1>2, <1>9, <3>1 DEF WalkRefs, TypeOK
    <3>2. CASE q # r
      BY <1>9, <3>2 DEF WalkRefs, TypeOK, WalkSound
    <3>3. QED
      BY <3>1, <3>2
  <2>3. QED
    BY <2>1, <2>2
<1>10. CASE AddPacked
  <2>1. \A r \in Ref : rows'[r] = (IF rows[r] # None THEN rows[r] ELSE packed[r])
    BY <1>10 DEF AddPacked
  <2>2. \A r \in Ref : Shows(r, rows'[r])
    BY <1>10, <2>1 DEF AddPacked, WalkSound, Shows
  <2>3. QED
    BY <1>0, <1>10, <2>2 DEF AddPacked, HeadSound, RowsSound, WalkSound, Shows
<1>11. ASSUME NEW W \in SUBSET Commit, NEW H \in SUBSET Commit, Fetch(W, H) PROVE Goal
  BY <1>11 DEF Fetch, HeadSound, RowsSound, WalkSound
<1>12. ASSUME Walk \/ WritePack \/ NativeFails \/ PackObjects \/ Subprocess \/ ReadObject
       PROVE  Goal
  BY <1>12 DEF Walk, WritePack, NativeFails, PackObjects, Subprocess, ReadObject,
               HeadSound, RowsSound, WalkSound
<1>13. ASSUME NEW r \in Ref, GetBlob(r) PROVE Goal
  BY <1>13 DEF GetBlob, HeadSound, RowsSound, WalkSound
<1>14. ASSUME NEW c \in Commit, GetDiff(c) PROVE Goal
  BY <1>14 DEF GetDiff, HeadSound, RowsSound, WalkSound
<1>15. QED
  BY <1>1, <1>3, <1>4, <1>5, <1>6, <1>7, <1>8, <1>9, <1>10, <1>11, <1>12, <1>13, <1>14
  DEF Read

(* The fetch stays complete.                                               *)
LEMMA ReadFetch == ASSUME TypeOK, FetchSound, ObjectsSound, Read PROVE FetchSound'
<1> USE DEF fetch
<1>0. kept' = kept /\ kept \subseteq odb
  BY ReadLeaves, LiveStored DEF past, TypeOK, ObjectsSound
<1>1. ASSUME LsRefs \/ HeadLoose \/ HeadPacked \/ ListPacked \/ AdminGetRepo \/ AddPacked
             \/ ReadObject
      PROVE  FetchSound'
  BY <1>1 DEF LsRefs, HeadLoose, HeadPacked, ListPacked, AdminGetRepo, AddPacked, ReadObject,
              FetchSound, FetchComplete
<1>2. ASSUME NEW r \in Ref, ListLoose(r) \/ WalkRefs(r) PROVE FetchSound'
  BY <1>2 DEF ListLoose, WalkRefs, FetchSound, FetchComplete
<1>3. ASSUME NEW W \in SUBSET Commit, NEW H \in SUBSET Commit, Fetch(W, H) PROVE FetchSound'
  <2>1. pc' = "done" => Reach(wants') = {}
    BY <1>3, ReachEmpty DEF Fetch
  <2>2. QED
    BY <1>3, <2>1 DEF Fetch, FetchSound, FetchComplete
<1>4. ASSUME pc \notin {"packed", "done"}
      PROVE  Reach(wants) \subseteq mine \cup Between
  BY <1>4, BetweenCovers DEF FetchSound
<1>5. CASE Walk
  <2>1. /\ Walked \subseteq Reach(wants)
        /\ Reach(wants) \subseteq mine \cup Walked \cup Reach(Skipped)
    BY <1>0, <1>5, WalkCovers DEF Walk, FetchSound
  <2>2. Reach(Skipped) \subseteq Reach(Skipped') /\ wants' = wants /\ mine' = mine
    BY <1>0, <1>5, SkippedGrows DEF Walk
  <2>3. pc' \in {"pack", "fallback"} /\ (pc' = "pack" => commits' = Walked)
    BY <1>5 DEF Walk
  <2>4. QED
    BY <1>5, <2>1, <2>2, <2>3 DEF Walk, FetchSound, FetchComplete
<1>6. CASE WritePack
  <2>1. Reach(Skipped) \subseteq Reach(Skipped') /\ wants' = wants
    BY <1>0, <1>6, SkippedGrows DEF WritePack
  <2>2. QED
    BY <1>6, <2>1 DEF WritePack, FetchSound, FetchComplete
<1>7. CASE NativeFails
  BY <1>7 DEF NativeFails, FetchSound, FetchComplete
<1>8. CASE PackObjects \/ Subprocess
  BY <1>4, <1>8 DEF PackObjects, Subprocess, FetchSound, FetchComplete
<1>9. ASSUME NEW r \in Ref, GetBlob(r) PROVE FetchSound'
  BY <1>9 DEF GetBlob, FetchSound, FetchComplete
<1>10. ASSUME NEW c \in Commit, GetDiff(c) PROVE FetchSound'
  BY <1>10 DEF GetDiff, FetchSound, FetchComplete
<1>11. QED
  BY <1>1, <1>2, <1>3, <1>5, <1>6, <1>7, <1>8, <1>9, <1>10 DEF Read

(* A read that gives up has a reason.                                      *)
LEMMA ReadObjects ==
  ASSUME TypeOK, FetchSound, ObjectsSound, Read
  PROVE  ObjectsSound'
<1> DEFINE Goal == /\ pc' = "fallback" => broken' \/ ~(wants' \subseteq kept)
                   /\ pc' = "failed" => \/ wants' = {} \/ ~(wants' \subseteq kept)
                                        \/ broken' /\ ~(haves' \subseteq odb)
<1> USE DEF fetch
<1>0. /\ loose' = loose /\ packed' = packed /\ odb' = odb /\ kept' = kept
      /\ deleting' = deleting /\ Live' = Live
  BY ReadLeaves DEF repo, past, Live, Value
<1>1. kept \subseteq odb
  BY LiveStored DEF TypeOK, ObjectsSound
<1>2. wants \subseteq kept => Reach(wants) \subseteq odb
  BY WantedStored
<1>3. SUFFICES Goal
  BY <1>0 DEF ObjectsSound, ReadsServed, Value
<1>4. ASSUME LsRefs \/ HeadLoose \/ HeadPacked \/ ListPacked \/ AdminGetRepo \/ AddPacked
      PROVE  Goal
  BY <1>4 DEF LsRefs, HeadLoose, HeadPacked, ListPacked, AdminGetRepo, AddPacked
<1>5. ASSUME NEW r \in Ref, ListLoose(r) \/ WalkRefs(r) PROVE Goal
  BY <1>5 DEF ListLoose, WalkRefs
<1>6. ASSUME NEW W \in SUBSET Commit, NEW H \in SUBSET Commit, Fetch(W, H) PROVE Goal
  BY <1>6 DEF Fetch
<1>7. /\ Between \subseteq Reach(wants) /\ Walked \subseteq Reach(wants)
      /\ wants \subseteq Reach(wants)
  BY WalkedFollows, ReachTips DEF Between, TypeOK
<1>8. CASE Walk
  BY <1>2, <1>7, <1>8 DEF Walk
<1>9. CASE WritePack
  BY <1>2, <1>9 DEF WritePack, FetchSound
<1>10. CASE NativeFails
  BY <1>10 DEF NativeFails
<1>11. CASE PackObjects
  BY <1>2, <1>7, <1>11 DEF PackObjects, ObjectsSound
<1>12. CASE Subprocess
  BY <1>2, <1>7, <1>12 DEF Subprocess
<1>13. ASSUME NEW r \in Ref, GetBlob(r) PROVE Goal
  <2>1. Value(r) # None => Value(r) \in Reach({Value(r)})
    BY ValueType, ReachTips DEF Tip
  <2>2. Value(r) # None => Value(r) \in odb
    BY <2>1 DEF ObjectsSound
  <2>3. QED
    BY <1>13, <2>2 DEF GetBlob
<1>14. ASSUME NEW c \in Commit, GetDiff(c) PROVE Goal
  BY <1>1, <1>14 DEF GetDiff
<1>15. CASE ReadObject
  BY <1>1, <1>15 DEF ReadObject
<1>16. QED
  BY <1>4, <1>5, <1>6, <1>8, <1>9, <1>10, <1>11, <1>12, <1>13, <1>14, <1>15 DEF Read

-----------------------------------------------------------------------------
(* Every step keeps the invariant.                                         *)
LEMMA StepIInv == IInv /\ [Next]_vars => IInv'
<1> SUFFICES ASSUME IInv, [Next]_vars PROVE IInv'
  OBVIOUS
<1>1. CASE Writers
  <2>1. FetchSound'
    <3>1. pc' = pc /\ pc # "packed" /\ UNCHANGED fetch /\ kept' \subseteq kept
      BY <1>1, WriterStep DEF WriterEffect, Observe, Running, IInv
    <3>2. Reach(Skipped) \subseteq Reach(Skipped')
      BY <3>1, SkippedGrows DEF fetch
    <3>3. QED
      BY <3>1, <3>2 DEF fetch, IInv, FetchSound, FetchComplete
  <2>2. QED
    BY <1>1, <2>1, WriterType, WriterListing, WriterObjects DEF IInv
<1>2. CASE Read
  BY <1>2, ReadType, ReadListing, ReadFetch, ReadObjects DEF IInv
<1>3. CASE UNCHANGED vars
  BY <1>3 DEF vars, repo, listing, fetch, past, IInv, TypeOK, Observed, HeadSound, RowsSound,
              WalkSound, FetchSound, FetchComplete, Skipped, Skippable, ObjectsSound, ReadsServed,
              Shows, Value, Live
<1>4. QED
  BY <1>1, <1>2, <1>3 DEF Next

(* The invariant holds in every behaviour.                                 *)
THEOREM Invariance == Spec => []IInv
BY InitIInv, StepIInv, PTL DEF Spec

(* TypeOK: the types of the model of the read side.                        *)
THEOREM TypeCorrect == Spec => []TypeOK
<1>1. IInv => TypeOK
  BY DEF IInv
<1>2. QED
  BY <1>1, Invariance, PTL

(* RowsAreReal: what ls-refs and the admin listing show is what the refs   *)
(* were, for any number of refs, pushes, deletions and packings.           *)
THEOREM RowsAlwaysReal == Spec => []RowsAreReal
<1>1. IInv => RowsAreReal
  BY DEF IInv, HeadSound, RowsSound, WalkSound, RowsAreReal, Listed
<1>2. QED
  BY <1>1, Invariance, PTL

(* FetchComplete: no client is left with a hole in its history that the    *)
(* cutoff of with_boundary did not leave, whatever the commit graph and    *)
(* its times, the client's haves and the deletions meanwhile.              *)
THEOREM FetchAlwaysComplete == Spec => []FetchComplete
<1>1. IInv => FetchComplete
  BY DEF IInv, FetchSound
<1>2. QED
  BY <1>1, Invariance, PTL

(* ReadsServed: reads of what stays reachable succeed.                     *)
THEOREM ReadsAlwaysServed == Spec => []ReadsServed
<1>1. IInv => ReadsServed
  BY DEF IInv, ObjectsSound
<1>2. QED
  BY <1>1, Invariance, PTL

-----------------------------------------------------------------------------
(* Recursion over the positions of a code, or over rounds.                 *)

\* A set that has 0, and each number with the one before, has all up to L.
LEMMA Climb ==
  ASSUME NEW L \in Nat, NEW T, 0 \in T, \A r \in 1 .. L : r - 1 \in T => r \in T
  PROVE  0 .. L \subseteq T
<1> DEFINE S == {r \in Nat : r <= L /\ r \notin T}
<1>1. CASE S = {}
  BY <1>1
<1>2. CASE S # {}
  <2>1. S \subseteq Nat
    OBVIOUS
  <2>2. PICK m \in S : \A y \in S : ~ (<<y, m>> \in OpToRel(<, Nat))
    <3> HIDE DEF S
    <3> QED  BY <1>2, <2>1, NatLessThanWellFounded, WFMin
  <2>3. m \in Nat /\ m <= L /\ m \notin T
    BY <2>2
  <2>4. \A y \in S : ~(y < m)
    BY <2>1, <2>2, <2>3 DEF OpToRel
  <2>5. m - 1 \in Nat /\ m \in 1 .. L /\ m - 1 <= L /\ m - 1 < m
    BY <2>3
  <2>6. m - 1 \in T
    BY <2>4, <2>5
  <2> QED  BY <2>3, <2>5, <2>6
<1> QED  BY <1>1, <1>2

\* The recursive function of the rounds is there, and does what it says.
LEMMA RoundsFacts ==
  ASSUME NEW p, Len(p) \in Nat, NEW ext
  PROVE  /\ Rounds(p, ext)[0] = {<<n, p[n].obj>> : n \in {m \in DOMAIN p : p[m].kind = "direct"}}
         /\ \A r \in 1 .. Len(p) : Rounds(p, ext)[r] = Derive(p, Rounds(p, ext)[r - 1], ext)
<1> DEFINE A == {<<n, p[n].obj>> : n \in {m \in DOMAIN p : p[m].kind = "direct"}}
           L == Len(p)
           T == {m \in 0 .. L : \E g : g = [r \in 0 .. m |-> IF r = 0 THEN A ELSE Derive(p, g[r - 1], ext)]}
           R == Rounds(p, ext)
<1>1. R = CHOOSE g : g = [r \in 0 .. L |-> IF r = 0 THEN A ELSE Derive(p, g[r - 1], ext)]
  BY DEF Rounds
<1>2. L \in Nat
  OBVIOUS
<1> HIDE DEF A, L, R
<1>3. 0 \in T
  <2> DEFINE g == [r \in 0 .. 0 |-> A]
  <2>1. g = [r \in 0 .. 0 |-> IF r = 0 THEN A ELSE Derive(p, g[r - 1], ext)]
    OBVIOUS
  <2> HIDE DEF g
  <2> QED  BY <1>2, <2>1
<1>4. ASSUME NEW m \in 1 .. L, m - 1 \in T PROVE m \in T
  <2>1. PICK g : g = [r \in 0 .. m - 1 |-> IF r = 0 THEN A ELSE Derive(p, g[r - 1], ext)]
    BY <1>4
  <2> DEFINE h == [r \in 0 .. m |-> IF r < m THEN g[r] ELSE Derive(p, g[m - 1], ext)]
  <2>2. ASSUME NEW r \in 0 .. m
        PROVE  h[r] = IF r = 0 THEN A ELSE Derive(p, h[r - 1], ext)
    <3>1. CASE r = 0
      BY <1>2, <2>1, <3>1
    <3>2. CASE r # 0 /\ r < m
      <4>1. r \in 0 .. m - 1 /\ r - 1 \in 0 .. m /\ r - 1 < m
        BY <1>2, <3>2
      <4> QED  BY <2>1, <3>2, <4>1
    <3>3. CASE r = m
      <4>1. m - 1 \in 0 .. m /\ m - 1 < m /\ m # 0 /\ ~(m < m)
        BY <1>2
      <4> QED  BY <3>3, <4>1
    <3> QED  BY <1>2, <3>1, <3>2, <3>3
  <2>3. h = [r \in 0 .. m |-> h[r]]
    OBVIOUS
  <2> HIDE DEF h
  <2>4. h = [r \in 0 .. m |-> IF r = 0 THEN A ELSE Derive(p, h[r - 1], ext)]
    BY <2>2, <2>3
  <2> QED  BY <1>2, <2>4
<1>5. L \in T
  <2> HIDE DEF T
  <2> QED  BY <1>2, <1>3, <1>4, Climb
<1>6. R = [r \in 0 .. L |-> IF r = 0 THEN A ELSE Derive(p, R[r - 1], ext)]
  <2>1. \E g : g = [r \in 0 .. L |-> IF r = 0 THEN A ELSE Derive(p, g[r - 1], ext)]
    BY <1>5
  <2> QED  BY <1>1, <2>1
<1>7. R[0] = A /\ \A r \in 1 .. L : R[r] = Derive(p, R[r - 1], ext)
  BY <1>2, <1>6
<1> QED  BY <1>7 DEF A, L, R

LEMMA NumeralFacts ==
  ASSUME NEW code \in Seq({0, 1})
  PROVE  \E f \in [0 .. Len(code) -> Nat] :
           /\ f[0] = 0 /\ f[Len(code)] = Numeral(code)
           /\ \A k \in 1 .. Len(code) : f[k] = 2 * f[k - 1] + (code[k] + 1)
           /\ \A k \in 0 .. Len(code) : f[k] <= Numeral(code)
<1> DEFINE L == Len(code)
           T == {m \in 0 .. L : \E g : g = [k \in 0 .. m |-> IF k = 0 THEN 0 ELSE 2 * g[k - 1] + (code[k] + 1)]}
           f == CHOOSE g : g = [k \in 0 .. L |-> IF k = 0 THEN 0 ELSE 2 * g[k - 1] + (code[k] + 1)]
<1>1. L \in Nat /\ \A k \in 1 .. L : code[k] \in {0, 1}
  OBVIOUS
<1>2. Numeral(code) = f[L]
  BY DEF Numeral
<1> HIDE DEF L, f
<1>3. 0 \in T
  <2> DEFINE g == [k \in 0 .. 0 |-> 0]
  <2>1. g = [k \in 0 .. 0 |-> IF k = 0 THEN 0 ELSE 2 * g[k - 1] + (code[k] + 1)]
    OBVIOUS
  <2> HIDE DEF g
  <2> QED  BY <1>1, <2>1
<1>4. ASSUME NEW m \in 1 .. L, m - 1 \in T PROVE m \in T
  <2>1. PICK g : g = [k \in 0 .. m - 1 |-> IF k = 0 THEN 0 ELSE 2 * g[k - 1] + (code[k] + 1)]
    BY <1>4
  <2> DEFINE h == [k \in 0 .. m |-> IF k < m THEN g[k] ELSE 2 * g[m - 1] + (code[m] + 1)]
  <2>2. ASSUME NEW k \in 0 .. m
        PROVE  h[k] = IF k = 0 THEN 0 ELSE 2 * h[k - 1] + (code[k] + 1)
    <3>1. CASE k = 0
      BY <1>1, <2>1, <3>1
    <3>2. CASE k # 0 /\ k < m
      <4>1. k \in 0 .. m - 1 /\ k - 1 \in 0 .. m /\ k - 1 < m
        BY <1>1, <3>2
      <4> QED  BY <2>1, <3>2, <4>1
    <3>3. CASE k = m
      <4>1. m - 1 \in 0 .. m /\ m - 1 < m /\ m # 0 /\ ~(m < m)
        BY <1>1
      <4> QED  BY <3>3, <4>1
    <3> QED  BY <1>1, <3>1, <3>2, <3>3
  <2>3. h = [k \in 0 .. m |-> h[k]]
    OBVIOUS
  <2> HIDE DEF h
  <2>4. h = [k \in 0 .. m |-> IF k = 0 THEN 0 ELSE 2 * h[k - 1] + (code[k] + 1)]
    BY <2>2, <2>3
  <2> HIDE DEF h
  <2>5. \E gg : gg = [k \in 0 .. m |-> IF k = 0 THEN 0 ELSE 2 * gg[k - 1] + (code[k] + 1)]
    BY <2>4
  <2>6. m \in 0 .. L
    BY <1>1
  <2> QED  BY <2>5, <2>6
<1>5. L \in T
  <2> HIDE DEF T
  <2>1. L \in Nat
    BY <1>1
  <2>2. \A r \in 1 .. L : r - 1 \in T => r \in T
    BY <1>4
  <2>3. 0 .. L \subseteq T
    BY <2>1, <1>3, <2>2, Climb
  <2>4. L \in 0 .. L
    BY <2>1
  <2> QED  BY <2>3, <2>4
<1>6. f = [k \in 0 .. L |-> IF k = 0 THEN 0 ELSE 2 * f[k - 1] + (code[k] + 1)]
  <2>1. \E g : g = [k \in 0 .. L |-> IF k = 0 THEN 0 ELSE 2 * g[k - 1] + (code[k] + 1)]
    BY <1>5
  <2> QED  BY <2>1 DEF f
<1>7. f[0] = 0 /\ \A k \in 1 .. L : f[k] = 2 * f[k - 1] + (code[k] + 1)
  BY <1>1, <1>6
<1>8. \A k \in 0 .. L : f[k] \in Nat
  <2> DEFINE U == {k \in 0 .. L : f[k] \in Nat}
  <2>1. 0 \in U
    BY <1>1, <1>7
  <2>2. ASSUME NEW k \in 1 .. L, k - 1 \in U PROVE k \in U
    <3>1. f[k - 1] \in Nat /\ code[k] \in {0, 1}
      BY <1>1, <2>2
    <3>2. 2 * f[k - 1] + (code[k] + 1) \in Nat
      BY <3>1
    <3> QED  BY <1>1, <1>7, <3>2
  <2> HIDE DEF U
  <2>3. 0 .. L \subseteq U
    BY <1>1, <2>1, <2>2, Climb
  <2> QED  BY <2>3 DEF U
<1>9. \A k \in 1 .. L : f[k - 1] <= f[k]
  <2> SUFFICES ASSUME NEW k \in 1 .. L PROVE f[k - 1] <= f[k]
    OBVIOUS
  <2>1. k - 1 \in 0 .. L
    BY <1>1
  <2> DEFINE a == f[k - 1]
             b == code[k]
  <2>2. a \in Nat /\ b \in {0, 1} /\ f[k] = 2 * a + (b + 1)
    BY <1>1, <1>7, <1>8, <2>1
  <2> HIDE DEF a, b
  <2>3. a <= f[k]
    BY <2>2
  <2> QED  BY <2>3 DEF a
<1>10. \A k \in 0 .. L : f[k] <= f[L]
  <2> DEFINE U == {j \in 0 .. L : f[L - j] <= f[L]}
  <2>1. 0 \in U
    <3>1. L - 0 = L /\ L \in 0 .. L /\ 0 \in 0 .. L
      BY <1>1
    <3>2. f[L] <= f[L]
      BY <1>8, <3>1
    <3> QED  BY <3>1, <3>2
  <2>2. ASSUME NEW j \in 1 .. L, j - 1 \in U PROVE j \in U
    <3>1. L - j \in 0 .. L /\ L - (j - 1) \in 1 .. L /\ L - (j - 1) - 1 = L - j
      BY <1>1
    <3>2. f[L - j] <= f[L - (j - 1)]
      BY <1>9, <3>1
    <3>3. f[L - (j - 1)] <= f[L]
      BY <2>2
    <3>4. f[L - j] \in Nat /\ f[L - (j - 1)] \in Nat /\ f[L] \in Nat
      BY <1>1, <1>8, <3>1
    <3>5. f[L - j] <= f[L]
      BY <3>2, <3>3, <3>4
    <3> QED  BY <1>1, <3>5
  <2> HIDE DEF U
  <2>3. 0 .. L \subseteq U
    BY <1>1, <2>1, <2>2, Climb
  <2> SUFFICES ASSUME NEW k \in 0 .. L PROVE f[k] <= f[L]
    OBVIOUS
  <2>4. L - k \in 0 .. L /\ L - (L - k) = k
    BY <1>1
  <2>5. f[L - (L - k)] <= f[L]
    BY <2>3, <2>4 DEF U
  <2> QED  BY <2>4, <2>5
<1>11. f \in [0 .. L -> Nat]
  BY <1>6, <1>8
<1> QED  BY <1>2, <1>7, <1>10, <1>11 DEF L

\* A remainder is the one number below the divisor that leaves a multiple.
LEMMA OneRemainder ==
  ASSUME NEW W \in Nat \ {0}, NEW x \in Int, NEW q \in Int, NEW r \in 0 .. W - 1, x = q * W + r
  PROVE  x % W = r
<1> DEFINE p == x \div W
           s == x % W
<1>1. p \in Int /\ s \in 0 .. W - 1 /\ x = W * p + s
  OBVIOUS
<1> HIDE DEF p, s
<1>2. (q - p) * W = s - r
  BY <1>1
<1> DEFINE d == q - p
<1>3. d \in Int /\ d * W = s - r /\ s - r < W /\ s - r > -W
  BY <1>1, <1>2
<1> HIDE DEF d
<1>4. CASE d >= 1
  <2>1. d * W >= W
    BY <1>3, <1>4
  <2> QED  BY <1>1, <1>3, <2>1
<1>5. CASE d <= -1
  <2>1. d * W <= -W
    BY <1>3, <1>5
  <2> QED  BY <1>1, <1>3, <2>1
<1>6. CASE d = 0
  BY <1>1, <1>3, <1>6 DEF s
<1> QED  BY <1>3, <1>4, <1>5, <1>6

LEMMA HasRemainder ==
  ASSUME NEW W \in Nat \ {0}, NEW x \in Int
  PROVE  \E q \in Int : x = q * W + (x % W) /\ x % W \in 0 .. W - 1
<1> DEFINE p == x \div W
           s == x % W
<1>1. p \in Int /\ s \in 0 .. W - 1 /\ x = W * p + s
  OBVIOUS
<1> HIDE DEF p, s
<1>2. x = p * W + s
  BY <1>1
<1>3. \E q \in Int : x = q * W + s /\ s \in 0 .. W - 1
  BY <1>1, <1>2
<1> QED  BY <1>3 DEF s

LEMMA WordStep ==
  ASSUME NEW W \in Nat \ {0}, W % 2 = 0, NEW u \in Int, NEW c \in {0, 1}
  PROVE  (((((u - 1) % W) + 1) * 2) % W) + c = (2 * u + c) % W
<1>1. PICK h \in Int : W = 2 * h
  BY HasRemainder
<1> DEFINE v == (u - 1) % W
           y == (2 * u) % W
           z == y + c
<1>2. PICK q \in Int : u - 1 = q * W + v /\ v \in 0 .. W - 1
  <2> DEFINE a == u - 1
  <2>1. a \in Int
    OBVIOUS
  <2> HIDE DEF a
  <2>2. \E q \in Int : a = q * W + (a % W) /\ a % W \in 0 .. W - 1
    BY <2>1, HasRemainder
  <2> QED  BY <2>2 DEF a
<1>3. PICK p \in Int : 2 * u = p * W + y /\ y \in 0 .. W - 1
  <2> DEFINE a == 2 * u
  <2>1. a \in Int
    OBVIOUS
  <2> HIDE DEF a
  <2>2. \E p \in Int : a = p * W + (a % W) /\ a % W \in 0 .. W - 1
    BY <2>1, HasRemainder
  <2> QED  BY <2>2 DEF a
<1> HIDE DEF v, y
<1>4. ((v + 1) * 2) % W = y
  <2> DEFINE d == p - 2 * q
  <2>1. d \in Int /\ (v + 1) * 2 = d * W + y /\ (v + 1) * 2 \in Int
    BY <1>2, <1>3
  <2> HIDE DEF d
  <2> QED  BY <1>3, <2>1, OneRemainder
<1>5. y # W - 1
  <2>1. y = 2 * (u - p * h) /\ u - p * h \in Int
    BY <1>1, <1>3
  <2> QED  BY <1>1, <2>1
<1>6. z \in 0 .. W - 1 /\ 2 * u + c = p * W + z /\ 2 * u + c \in Int
  BY <1>3, <1>5
<1> HIDE DEF z
<1>7. (2 * u + c) % W = z
  BY <1>6, OneRemainder
<1> QED  BY <1>4, <1>7 DEF v, y, z

\* What parse_ofs_delta_offset does not refuse, it takes for the distance.
LEMMA OffsetIsDistance ==
  ASSUME NEW code \in Seq({0, 1}), code # << >>, Word \in Nat \ {0}, Word % 2 = 0,
         DecodeOffset(code) # NoValue
  PROVE  DecodeOffset(code) = Distance(code)
<1> DEFINE L == Len(code)
           Next1(x, c) == IF x \in {NoValue, Word - 1} THEN NoValue ELSE (((x + 1) * 2) % Word) + c
           T == {m \in 0 .. L : \E g : g = [k \in 1 .. m |-> IF k = 1 THEN code[1] ELSE Next1(g[k - 1], code[k])]}
           v == CHOOSE g : g = [k \in 1 .. L |-> IF k = 1 THEN code[1] ELSE Next1(g[k - 1], code[k])]
<1>1. L \in Nat \ {0} /\ \A k \in 1 .. L : code[k] \in {0, 1}
  OBVIOUS
<1>2. DecodeOffset(code) = v[L]
  BY DEF DecodeOffset
<1>3. PICK f \in [0 .. L -> Nat] :
        /\ f[0] = 0 /\ f[L] = Numeral(code)
        /\ \A k \in 1 .. L : f[k] = 2 * f[k - 1] + (code[k] + 1)
  BY NumeralFacts
<1> HIDE DEF L, v, Next1
<1>4. 0 \in T
  <2> DEFINE g == [k \in 1 .. 0 |-> 0]
  <2>1. g = [k \in 1 .. 0 |-> IF k = 1 THEN code[1] ELSE Next1(g[k - 1], code[k])]
    OBVIOUS
  <2> HIDE DEF g
  <2>2. \E e : e = [k \in 1 .. 0 |-> IF k = 1 THEN code[1] ELSE Next1(e[k - 1], code[k])]
    BY <2>1
  <2>3. 0 \in 0 .. L
    BY <1>1
  <2> QED  BY <2>2, <2>3
<1>5. ASSUME NEW m \in 1 .. L, m - 1 \in T PROVE m \in T
  <2>1. PICK g : g = [k \in 1 .. m - 1 |-> IF k = 1 THEN code[1] ELSE Next1(g[k - 1], code[k])]
    BY <1>5
  <2> DEFINE h == [k \in 1 .. m |-> IF k < m THEN g[k] ELSE IF k = 1 THEN code[1] ELSE Next1(g[m - 1], code[m])]
  <2>2. ASSUME NEW k \in 1 .. m
        PROVE  h[k] = IF k = 1 THEN code[1] ELSE Next1(h[k - 1], code[k])
    <3>1. CASE k < m
      <4>1. k \in 1 .. m - 1 /\ (k = 1 \/ (k - 1 \in 1 .. m /\ k - 1 < m))
        BY <1>1, <3>1
      <4>2. h[k] = g[k] /\ (k # 1 => h[k - 1] = g[k - 1])
        BY <3>1, <4>1
      <4>3. g[k] = IF k = 1 THEN code[1] ELSE Next1(g[k - 1], code[k])
        BY <2>1, <4>1
      <4> QED  BY <4>2, <4>3
    <3>2. CASE k = m /\ k # 1
      <4>1. m - 1 \in 1 .. m /\ m - 1 < m /\ ~(m < m)
        BY <1>1, <3>2
      <4> QED  BY <3>2, <4>1
    <3>3. CASE k = m /\ k = 1
      BY <1>1, <3>3
    <3> QED  BY <1>1, <3>1, <3>2, <3>3
  <2>3. h = [k \in 1 .. m |-> h[k]]
    OBVIOUS
  <2> HIDE DEF h
  <2>4. h = [k \in 1 .. m |-> IF k = 1 THEN code[1] ELSE Next1(h[k - 1], code[k])]
    BY <2>2, <2>3
  <2>5. \E e : e = [k \in 1 .. m |-> IF k = 1 THEN code[1] ELSE Next1(e[k - 1], code[k])]
    BY <2>4
  <2>6. m \in 0 .. L
    BY <1>1
  <2> QED  BY <2>5, <2>6
<1>6. L \in T
  <2>1. L \in Nat
    BY <1>1
  <2>2. \A r \in 1 .. L : r - 1 \in T => r \in T
    BY <1>5
  <2> HIDE DEF T
  <2>3. 0 .. L \subseteq T
    BY <2>1, <1>4, <2>2, Climb
  <2>4. L \in 0 .. L
    BY <2>1
  <2> QED  BY <2>3, <2>4
<1>7. v = [k \in 1 .. L |-> IF k = 1 THEN code[1] ELSE Next1(v[k - 1], code[k])]
  <2>1. \E g : g = [k \in 1 .. L |-> IF k = 1 THEN code[1] ELSE Next1(g[k - 1], code[k])]
    BY <1>6
  <2> QED  BY <2>1 DEF v
<1>8. \A k \in 1 .. L : v[k] = IF k = 1 THEN code[1] ELSE Next1(v[k - 1], code[k])
  BY <1>7
\* A prefix that is not refused is what its numeral leaves in a word.
<1> DEFINE Right(k) == v[k] = NoValue \/ v[k] = (f[k] - 1) % Word
           U == {j \in 0 .. L - 1 : Right(j + 1)}
<1>9. Right(1)
  <2>1. 1 \in 1 .. L /\ 1 - 1 = 0
    BY <1>1
  <2>2. f[1] = 2 * f[0] + (code[1] + 1) /\ code[1] \in {0, 1} /\ v[1] = code[1]
    BY <1>1, <1>3, <1>8, <2>1
  <2> DEFINE c == code[1]
  <2>3. c \in {0, 1} /\ f[1] - 1 = c
    BY <1>3, <2>2
  <2> HIDE DEF c
  <2>4. c \in 0 .. Word - 1 /\ c = 0 * Word + c
    BY <2>3
  <2>5. c % Word = c
    BY <2>3, <2>4, OneRemainder
  <2> QED  BY <2>2, <2>3, <2>5 DEF c
<1>10. ASSUME NEW j \in 1 .. L - 1, Right(j) PROVE Right(j + 1)
  <2>1. j + 1 \in 1 .. L /\ j + 1 # 1 /\ j + 1 - 1 = j /\ j \in 0 .. L
    BY <1>1
  <2>2. v[j + 1] = Next1(v[j], code[j + 1])
    <3>1. v[j + 1] = IF j + 1 = 1 THEN code[1] ELSE Next1(v[j + 1 - 1], code[j + 1])
      BY <1>8, <2>1
    <3> QED  BY <2>1, <3>1
  <2> DEFINE u == f[j]
             c == code[j + 1]
             x == v[j]
  <2>3. u \in Int /\ c \in {0, 1}
    BY <1>1, <1>3, <2>1
  <2>4. f[j + 1] - 1 = 2 * u + c
    <3>1. f[j + 1] = 2 * f[j + 1 - 1] + (code[j + 1] + 1)
      BY <1>3, <2>1
    <3>2. f[j + 1] = 2 * u + (c + 1)
      BY <2>1, <3>1
    <3> HIDE DEF u, c
    <3> QED  BY <2>3, <3>2
  <2>5. CASE x \in {NoValue, Word - 1}
    BY <2>2, <2>5 DEF Next1
  <2>6. CASE x \notin {NoValue, Word - 1}
    <3>1. x = (u - 1) % Word
      BY <1>10, <2>6
    <3>2. v[j + 1] = (((x + 1) * 2) % Word) + c
      BY <2>2, <2>6 DEF Next1
    <3> HIDE DEF u, c, x
    <3>3. (((((u - 1) % Word) + 1) * 2) % Word) + c = (2 * u + c) % Word
      BY <2>3, WordStep
    <3> QED  BY <2>4, <3>1, <3>2, <3>3
  <2> QED  BY <2>5, <2>6
<1> HIDE DEF Right
<1>11. 0 .. L - 1 \subseteq U
  <2>1. L - 1 \in Nat /\ 0 \in 0 .. L - 1 /\ 0 + 1 = 1
    BY <1>1
  <2>2. 0 \in U
    BY <1>9, <2>1
  <2>3. ASSUME NEW j \in 1 .. L - 1, j - 1 \in U PROVE j \in U
    <3>1. j - 1 + 1 = j /\ j \in 0 .. L - 1
      BY <1>1
    <3> QED  BY <1>10, <2>3, <3>1
  <2>4. \A j \in 1 .. L - 1 : j - 1 \in U => j \in U
    BY <2>3
  <2> HIDE DEF U
  <2> QED  BY <2>1, <2>2, <2>4, Climb
<1>12. Right(L)
  <2>1. L - 1 \in 0 .. L - 1 /\ L - 1 + 1 = L
    BY <1>1
  <2> QED  BY <1>11, <2>1
<1> QED  BY <1>2, <1>3, <1>12 DEF Right, Distance

-----------------------------------------------------------------------------
(* Rounds: they grow, more objects at hand give more, and an entry has at   *)
(* most one meaning.                                                        *)

\* What may be a base only grows with what is known and at hand.
LEMMA BasesGrow ==
  ASSUME NEW p, NEW K, NEW M, NEW S, NEW T, NEW n, K \subseteq M, S \subseteq T
  PROVE  Bases(p, K, S, n) \subseteq Bases(p, M, T, n)
<1>1. {k[2] : k \in K} \subseteq {k[2] : k \in M}
  OBVIOUS
<1>2. {k[2] : k \in {x \in K : x[1] = n - Distance(p[n].code)}}
        \subseteq {k[2] : k \in {x \in M : x[1] = n - Distance(p[n].code)}}
  OBVIOUS
<1> QED  BY <1>1, <1>2 DEF Bases

\* What a round derives, element by element.
LEMMA DeriveElements ==
  ASSUME NEW p, NEW K, NEW ext
  PROVE  \A x : x \in Derive(p, K, ext) <=>
           \/ x \in K
           \/ \E n \in DOMAIN p : \E b \in Bases(p, K, ext, n) :
                /\ p[n].kind # "direct"
                /\ ApplyDelta(b.data, p[n].delta) # NoValue
                /\ x = <<n, Target(b, p[n].delta)>>
BY DEF Derive

LEMMA DeriveGrows ==
  ASSUME NEW p, NEW K, NEW M, NEW S, NEW T, K \subseteq M, S \subseteq T
  PROVE  Derive(p, K, S) \subseteq Derive(p, M, T)
<1> SUFFICES ASSUME NEW x \in Derive(p, K, S) PROVE x \in Derive(p, M, T)
  OBVIOUS
<1>1. \A n : Bases(p, K, S, n) \subseteq Bases(p, M, T, n)
  BY BasesGrow
<1>2. x \in K \/ \E n \in DOMAIN p : \E b \in Bases(p, K, S, n) :
        /\ p[n].kind # "direct"
        /\ ApplyDelta(b.data, p[n].delta) # NoValue
        /\ x = <<n, Target(b, p[n].delta)>>
  BY DeriveElements
<1>3. x \in M \/ \E n \in DOMAIN p : \E b \in Bases(p, M, T, n) :
        /\ p[n].kind # "direct"
        /\ ApplyDelta(b.data, p[n].delta) # NoValue
        /\ x = <<n, Target(b, p[n].delta)>>
  BY <1>1, <1>2
<1> QED  BY <1>3, DeriveElements

\* A later round knows what an earlier one knows.
LEMMA RoundsGrow ==
  ASSUME NEW p, Len(p) \in Nat, NEW ext, NEW a \in 0 .. Len(p), NEW b \in 0 .. Len(p), a <= b
  PROVE  Rounds(p, ext)[a] \subseteq Rounds(p, ext)[b]
<1> DEFINE L == Len(p)
           R == Rounds(p, ext)
           T == {d \in 0 .. L - a : R[a] \subseteq R[a + d]}
<1>1. \A r \in 1 .. L : R[r - 1] \subseteq R[r]
  <2>1. \A r \in 1 .. L : R[r] = Derive(p, R[r - 1], ext)
    BY RoundsFacts
  <2> HIDE DEF R
  <2> QED  BY <2>1 DEF Derive
<1> HIDE DEF R
<1>2. L - a \in Nat /\ a \in Nat /\ L \in Nat
  OBVIOUS
<1> HIDE DEF L
<1>3. 0 \in T
  BY <1>2
<1>4. ASSUME NEW d \in 1 .. L - a, d - 1 \in T PROVE d \in T
  <2>1. a + d \in 1 .. L /\ a + d - 1 = a + (d - 1) /\ d \in 0 .. L - a
    BY <1>2
  <2>2. R[a + (d - 1)] \subseteq R[a + d]
    BY <1>1, <2>1
  <2>3. R[a] \subseteq R[a + (d - 1)]
    BY <1>4
  <2> QED  BY <2>1, <2>2, <2>3
<1> HIDE DEF T
<1>5. 0 .. L - a \subseteq T
  <2>1. \A d \in 1 .. L - a : d - 1 \in T => d \in T
    BY <1>4
  <2> QED  BY <1>2, <1>3, <2>1, Climb
<1>6. b - a \in 0 .. L - a /\ a + (b - a) = b
  BY DEF L
<1> QED  BY <1>5, <1>6 DEF T, R

\* With more objects at hand, each round knows more.
LEMMA RoundsInMore ==
  ASSUME NEW p, Len(p) \in Nat, NEW S, NEW T, S \subseteq T
  PROVE  \A r \in 0 .. Len(p) : Rounds(p, S)[r] \subseteq Rounds(p, T)[r]
<1> DEFINE L == Len(p)
           U == {r \in 0 .. L : Rounds(p, S)[r] \subseteq Rounds(p, T)[r]}
<1>1. 0 \in U
  BY RoundsFacts
<1>2. ASSUME NEW r \in 1 .. L, r - 1 \in U PROVE r \in U
  <2>1. Rounds(p, S)[r] = Derive(p, Rounds(p, S)[r - 1], S)
    BY RoundsFacts
  <2>2. Rounds(p, T)[r] = Derive(p, Rounds(p, T)[r - 1], T)
    BY RoundsFacts
  <2>3. Rounds(p, S)[r - 1] \subseteq Rounds(p, T)[r - 1]
    BY <1>2
  <2>4. r \in 0 .. L
    OBVIOUS
  <2> QED  BY <2>1, <2>2, <2>3, <2>4, DeriveGrows
<1>3. \A r \in 1 .. L : r - 1 \in U => r \in U
  BY <1>2
<1> HIDE DEF U
<1>4. 0 .. L \subseteq U
  BY <1>1, <1>3, Climb
<1> QED  BY <1>4 DEF U

\* Each pair of K is a direct entry or follows from K, and no entry of K has
\* two objects.
Grounded(p, K, ext) ==
  /\ \A x \in K :
       /\ x = <<x[1], x[2]>> /\ x[1] \in DOMAIN p
       /\ p[x[1]].kind = "direct" => x[2] = p[x[1]].obj
       /\ p[x[1]].kind # "direct" => \E b \in Bases(p, K, ext, x[1]) : x[2] = Target(b, p[x[1]].delta)
  /\ \A x \in K, y \in K : x[1] = y[1] => x[2] = y[2]

\* Then an entry has one base at most.
LEMMA OneBase ==
  ASSUME NEW p, NEW K, NEW ext, NEW n, Grounded(p, K, ext),
         NEW b \in Bases(p, K, ext, n), NEW c \in Bases(p, K, ext, n)
  PROVE  b = c
<1>1. CASE p[n].kind = "ref"
  BY <1>1 DEF Bases
<1>2. CASE p[n].kind # "ref"
  <2>1. PICK x \in K : x[1] = n - Distance(p[n].code) /\ b = x[2]
    BY <1>2 DEF Bases
  <2>2. PICK y \in K : y[1] = n - Distance(p[n].code) /\ c = y[2]
    BY <1>2 DEF Bases
  <2> QED  BY <2>1, <2>2 DEF Grounded
<1> QED  BY <1>1, <1>2

LEMMA DeriveGrounded ==
  ASSUME NEW p, NEW K, NEW ext, Grounded(p, K, ext)
  PROVE  Grounded(p, Derive(p, K, ext), ext)
<1> DEFINE D == Derive(p, K, ext)
           New(x) == \E b \in Bases(p, K, ext, x[1]) : x[2] = Target(b, p[x[1]].delta)
<1>1. \A n : Bases(p, K, ext, n) \subseteq Bases(p, D, ext, n)
  <2>1. K \subseteq D
    BY DEF Derive
  <2> HIDE DEF D
  <2> QED  BY <2>1, BasesGrow
\* A pair of D is direct, or has its base in K.
<1>2. ASSUME NEW x \in D
      PROVE  /\ x = <<x[1], x[2]>> /\ x[1] \in DOMAIN p
             /\ p[x[1]].kind = "direct" => x[2] = p[x[1]].obj
             /\ p[x[1]].kind # "direct" => New(x)
  <2>1. CASE x \in K
    BY <2>1 DEF Grounded
  <2>2. CASE x \notin K
    <3>1. PICK n \in DOMAIN p : \E b \in Bases(p, K, ext, n) :
            /\ p[n].kind # "direct"
            /\ x = <<n, Target(b, p[n].delta)>>
      BY <2>2, DeriveElements
    <3>2. x[1] = n /\ \E b \in Bases(p, K, ext, n) : x[2] = Target(b, p[n].delta)
      BY <3>1
    <3> QED  BY <3>1, <3>2
  <2> QED  BY <2>1, <2>2
<1> HIDE DEF D
<1>3. ASSUME NEW x \in D, NEW y \in D, x[1] = y[1] PROVE x[2] = y[2]
  <2>1. CASE p[x[1]].kind = "direct"
    BY <1>2, <1>3, <2>1
  <2>2. CASE p[x[1]].kind # "direct"
    <3>1. PICK b \in Bases(p, K, ext, x[1]) : x[2] = Target(b, p[x[1]].delta)
      BY <1>2, <2>2
    <3>2. PICK c \in Bases(p, K, ext, x[1]) : y[2] = Target(c, p[x[1]].delta)
      BY <1>2, <1>3, <2>2
    <3>3. b = c
      BY OneBase
    <3> QED  BY <3>1, <3>2, <3>3
  <2> QED  BY <2>1, <2>2
<1>4. ASSUME NEW x \in D, p[x[1]].kind # "direct"
      PROVE  \E b \in Bases(p, D, ext, x[1]) : x[2] = Target(b, p[x[1]].delta)
  BY <1>1, <1>2, <1>4
<1>5. Grounded(p, D, ext)
  BY <1>2, <1>3, <1>4 DEF Grounded
<1> QED  BY <1>5 DEF D

\* An entry means one object at most, in every round.
LEMMA RoundsGrounded ==
  ASSUME NEW p, Len(p) \in Nat, NEW ext
  PROVE  \A r \in 0 .. Len(p) : Grounded(p, Rounds(p, ext)[r], ext)
<1> DEFINE L == Len(p)
           U == {r \in 0 .. L : Grounded(p, Rounds(p, ext)[r], ext)}
<1>1. 0 \in U
  <2>1. Rounds(p, ext)[0] = {<<n, p[n].obj>> : n \in {m \in DOMAIN p : p[m].kind = "direct"}}
    BY RoundsFacts
  <2> DEFINE A == Rounds(p, ext)[0]
  <2>2. \A x \in A : \E n \in DOMAIN p : p[n].kind = "direct" /\ x = <<n, p[n].obj>>
    BY <2>1
  <2> HIDE DEF A
  <2>3. \A x \in A : x = <<x[1], x[2]>> /\ x[1] \in DOMAIN p /\ p[x[1]].kind = "direct" /\ x[2] = p[x[1]].obj
    BY <2>2
  <2>4. Grounded(p, A, ext)
    BY <2>3 DEF Grounded
  <2> QED  BY <2>4 DEF A
<1>2. ASSUME NEW r \in 1 .. L, r - 1 \in U PROVE r \in U
  <2>1. Rounds(p, ext)[r] = Derive(p, Rounds(p, ext)[r - 1], ext)
    BY RoundsFacts
  <2>2. r \in 0 .. L
    OBVIOUS
  <2> QED  BY <1>2, <2>1, <2>2, DeriveGrounded
<1>3. \A r \in 1 .. L : r - 1 \in U => r \in U
  BY <1>2
<1> HIDE DEF U
<1>4. 0 .. L \subseteq U
  BY <1>1, <1>3, Climb
<1> QED  BY <1>4 DEF U

-----------------------------------------------------------------------------
(* The invariant.                                                          *)

\* What is resolved has been made known by as many rounds as there are
\* resolved entries, from objects seen so far, and is in the store.
Known ==
  /\ DOMAIN resolved \subseteq Index
  /\ count = Cardinality(DOMAIN resolved)
  /\ \A n \in DOMAIN resolved :
       /\ <<n, resolved[n]>> \in Rounds(pack, seen)[count]
       /\ resolved[n] \in store

\* The store has the objects of others and what the entries resolved to.
AtHand ==
  /\ stable \subseteq store /\ stable \subseteq seen
  /\ \A o \in store : o \in seen \/ \E n \in DOMAIN resolved : resolved[n] = o

\* Delta k was put off, and what is resolved since has not brought its base.
Baseless(k) ==
  IF pack[k].kind = "ref"
  THEN pack[k].base \notin stable /\ \A n \in DOMAIN resolved : resolved[n] # pack[k].base
  ELSE BaseIndex(k) \notin DOMAIN resolved

Once(s) == \A a, b \in DOMAIN s : s[a] = s[b] => a = b

\* The queue of a pass has each entry that is not resolved, once; what it
\* has put off is baseless, or it has resolved something.
Queued ==
  /\ pending \in Seq(Index) /\ Once(pending)
  /\ still \in Seq(Index) /\ Once(still)
  /\ Range(pending) \cap Range(still) = {}
  /\ Range(pending) \cup Range(still) = Index \ DOMAIN resolved
  /\ before \in Nat /\ Len(pending) + Len(still) <= before
  /\ Len(pending) + Len(still) = before => \A k \in Range(still) : Baseless(k)

\* Every offset of the pack could be read.
Parsed == \A n \in Index : Decodes(pack[n])

Directs(m) == {n \in Index : n < m /\ pack[n].kind = "direct"}

\* What the bases at hand all along do not give.
OutOfReach == \A k \in Range(still) : \A x \in Meaning(pack, stable) : x[1] # k

InPhase ==
  /\ phase \in {"parse", "direct", "pass", "done", "failed"}
  /\ phase = "parse" => i = 1 /\ DOMAIN resolved = {}
  /\ phase = "direct" => i \in 1 .. Len(pack) + 1 /\ DOMAIN resolved = Directs(i)
  /\ phase \in {"parse", "direct"} => still = << >>
  /\ phase \in {"direct", "pass"} => Parsed
  /\ phase = "pass" => Queued /\ Directs(Len(pack) + 1) \subseteq DOMAIN resolved
  /\ phase = "done" => DOMAIN resolved = Index
  /\ phase # "failed" => err = "none"
  /\ err = "parse" => count = 0
  /\ err = "stuck" => OutOfReach

IngestIInv == pack \in Packs /\ Known /\ AtHand /\ InPhase

LEMMA ParsedStays == ASSUME Parsed, pack' = pack PROVE Parsed'
BY DEF Parsed, Index, Decodes

LEMMA PackShape ==
  ASSUME pack \in Packs
  PROVE  /\ Len(pack) \in Nat /\ Index = 1 .. Len(pack)
         /\ \A n \in Index : pack[n].kind \in {"direct", "ref", "ofs"}
<1>1. pack \in Seq(Range(pack))
  BY PackAssumption
<1>2. Len(pack) \in Nat /\ DOMAIN pack = 1 .. Len(pack)
  BY <1>1
<1>3. \A n \in Index : pack[n].kind \in {"direct", "ref", "ofs"}
  BY PackAssumption DEF Index
<1> QED  BY <1>2, <1>3 DEF Index

\* An entry of a parsed pack points as far back as its code says.
LEMMA PointsRightly ==
  ASSUME pack \in Packs, Parsed, NEW n \in Index, pack[n].kind = "ofs"
  PROVE  BaseIndex(n) = n - Distance(pack[n].code)
<1> DEFINE code == pack[n].code
<1>1. code \in Seq({0, 1}) /\ code # << >>
  BY PackAssumption DEF Index
<1>2. DecodeOffset(code) # NoValue
  BY DEF Parsed, Decodes
<1>3. Word \in Nat \ {0} /\ Word % 2 = 0
  BY PackAssumption
<1>4. BaseIndex(n) = n - DecodeOffset(code)
  BY DEF BaseIndex
<1> HIDE DEF code
<1>5. DecodeOffset(code) = Distance(code)
  BY <1>1, <1>2, <1>3, OffsetIsDistance
<1> QED  BY <1>4, <1>5 DEF code

\* While an entry is not resolved there is a round to come.
LEMMA RoomForOne ==
  ASSUME pack \in Packs, Known
  PROVE  /\ IsFiniteSet(DOMAIN resolved) /\ count \in 0 .. Len(pack)
         /\ \A n \in Index \ DOMAIN resolved :
              /\ count + 1 \in 1 .. Len(pack)
              /\ Cardinality(DOMAIN resolved \cup {n}) = count + 1
         /\ DOMAIN resolved = Index => count = Len(pack)
<1> DEFINE L == Len(pack)
           D == DOMAIN resolved
<1>1. L \in Nat /\ Index = 1 .. L
  BY PackShape
<1>2. IsFiniteSet(Index) /\ Cardinality(Index) = L
  <2> HIDE DEF L
  <2>1. IsFiniteSet(1 .. L) /\ Cardinality(1 .. L) = IF 1 > L THEN 0 ELSE L - 1 + 1
    BY <1>1, FS_Interval
  <2> QED  BY <1>1, <2>1
<1>3. D \subseteq Index /\ count = Cardinality(D)
  BY DEF Known
<1> HIDE DEF L, D
<1>4. IsFiniteSet(D) /\ Cardinality(D) <= L /\ Cardinality(D) \in Nat
  BY <1>2, <1>3, FS_Subset, FS_CardinalityType
<1>5. ASSUME NEW n \in Index \ D
      PROVE  count + 1 \in 1 .. L /\ Cardinality(D \cup {n}) = count + 1
  <2>1. Cardinality(D \cup {n}) = Cardinality(D) + 1
    BY <1>4, <1>5, FS_AddElement
  <2>2. D \cup {n} \subseteq Index
    BY <1>3, <1>5
  <2>3. Cardinality(D \cup {n}) <= L
    BY <1>2, <2>2, FS_Subset
  <2> QED  BY <1>1, <1>3, <1>4, <2>1, <2>3
<1> QED  BY <1>1, <1>2, <1>3, <1>4, <1>5 DEF L, D

\* What an entry resolves to, once the next round derives it, is as good as
\* what was resolved before.
LEMMA StoreKeeps ==
  ASSUME pack \in Packs, Known, AtHand, NEW n \in Index \ DOMAIN resolved, NEW o, Store(n, o),
         pack' = pack, seen' = seen, stable' = stable,
         <<n, o>> \in Rounds(pack, seen)[0] \cup Derive(pack, Rounds(pack, seen)[count], seen)
  PROVE  /\ Known' /\ AtHand' /\ count' = count + 1
         /\ DOMAIN resolved' = DOMAIN resolved \cup {n}
<1> DEFINE R == Rounds(pack, seen)
<1>1. Len(pack) \in Nat /\ count \in 0 .. Len(pack) /\ count + 1 \in 1 .. Len(pack)
  BY PackShape, RoomForOne
<1>2. R[0] \subseteq R[count + 1] /\ R[count] \subseteq R[count + 1]
  <2>1. 0 \in 0 .. Len(pack) /\ count + 1 \in 0 .. Len(pack) /\ 0 <= count + 1 /\ count <= count + 1
    BY <1>1
  <2> QED  BY <1>1, <2>1, RoundsGrow
<1>3. R[count + 1] = Derive(pack, R[count], seen)
  <2>1. count + 1 - 1 = count
    BY <1>1
  <2> QED  BY <1>1, <2>1, RoundsFacts
<1>4. R' = R
  BY DEF Rounds
<1>5. <<n, o>> \in R[count + 1]
  BY <1>2, <1>3
<1> HIDE DEF R
<1>6. /\ DOMAIN resolved' = DOMAIN resolved \cup {n}
      /\ resolved'[n] = o
      /\ \A m \in DOMAIN resolved : resolved'[m] = resolved[m]
  BY DEF Store
<1>7. store' = store \cup {o} /\ count' = count + 1
  BY DEF Store
<1>8. Known'
  <2>1. (DOMAIN resolved \subseteq Index)'
    BY <1>6 DEF Known, Index
  <2>2. count' = Cardinality(DOMAIN resolved')
    BY <1>6, <1>7, RoomForOne
  <2>3. ASSUME NEW m \in DOMAIN resolved'
        PROVE  <<m, resolved'[m]>> \in R'[count'] /\ resolved'[m] \in store'
    <3>1. CASE m = n
      BY <1>4, <1>5, <1>6, <1>7, <3>1
    <3>2. CASE m # n
      <4>1. m \in DOMAIN resolved /\ resolved'[m] = resolved[m]
        BY <1>6, <3>2
      <4>2. <<m, resolved[m]>> \in R[count] /\ resolved[m] \in store
        BY <4>1 DEF Known, R
      <4> QED  BY <1>2, <1>4, <1>7, <4>1, <4>2
    <3> QED  BY <3>1, <3>2
  <2> QED  BY <2>1, <2>2, <2>3 DEF Known, R
<1>9. AtHand'
  BY <1>6, <1>7 DEF AtHand
<1> QED  BY <1>6, <1>7, <1>8, <1>9

\* A queue loses its first element, or is given one it has not.
LEMMA TakeHead ==
  ASSUME NEW S, NEW s \in Seq(S), Once(s), s # << >>
  PROVE  /\ Tail(s) \in Seq(S) /\ Once(Tail(s)) /\ Head(s) \in S
         /\ Head(s) \notin Range(Tail(s)) /\ Range(s) = {Head(s)} \cup Range(Tail(s))
         /\ Len(s) \in Nat /\ Len(Tail(s)) = Len(s) - 1
<1> DEFINE L == Len(s)
           t == Tail(s)
<1>1. L \in Nat /\ L >= 1 /\ DOMAIN s = 1 .. L
  OBVIOUS
<1>2. t \in Seq(S) /\ Len(t) = L - 1 /\ DOMAIN t = 1 .. L - 1 /\ \A j \in 1 .. L - 1 : t[j] = s[j + 1]
  OBVIOUS
<1>3. Head(s) = s[1] /\ Head(s) \in S
  OBVIOUS
<1> HIDE DEF L, t
<1>4. \A j \in 1 .. L - 1 : j \in 1 .. L /\ j + 1 \in 1 .. L /\ j + 1 # 1
  BY <1>1
<1>5. Once(t)
  <2> SUFFICES ASSUME NEW x \in DOMAIN t, NEW y \in DOMAIN t, t[x] = t[y] PROVE x = y
    BY DEF Once
  <2>1. x + 1 \in DOMAIN s /\ y + 1 \in DOMAIN s /\ s[x + 1] = s[y + 1]
    BY <1>1, <1>2, <1>4
  <2>2. x + 1 = y + 1
    BY <2>1 DEF Once
  <2> QED  BY <1>1, <1>2, <2>2
<1>6. s[1] \notin Range(t)
  <2> SUFFICES ASSUME NEW x \in DOMAIN t, t[x] = s[1] PROVE FALSE
    BY DEF Range
  <2>1. x + 1 \in DOMAIN s /\ s[x + 1] = s[1] /\ x + 1 # 1 /\ 1 \in DOMAIN s
    BY <1>1, <1>2, <1>4
  <2> QED  BY <2>1 DEF Once
<1>7. Range(s) = {s[1]} \cup Range(t)
  <2>1. ASSUME NEW x \in DOMAIN s PROVE s[x] \in {s[1]} \cup Range(t)
    <3>1. CASE x = 1
      BY <3>1
    <3>2. CASE x # 1
      <4>1. x - 1 \in DOMAIN t /\ x - 1 + 1 = x
        BY <1>1, <1>2, <3>2
      <4> QED  BY <1>2, <4>1 DEF Range
    <3> QED  BY <3>1, <3>2
  <2>2. ASSUME NEW x \in DOMAIN t PROVE t[x] \in Range(s)
    <3>1. x + 1 \in DOMAIN s /\ t[x] = s[x + 1]
      BY <1>1, <1>2, <1>4
    <3> QED  BY <3>1 DEF Range
  <2>3. s[1] \in Range(s)
    BY <1>1 DEF Range
  <2> QED  BY <2>1, <2>2, <2>3 DEF Range
<1> QED  BY <1>1, <1>2, <1>3, <1>5, <1>6, <1>7 DEF L, t

LEMMA AddLast ==
  ASSUME NEW S, NEW s \in Seq(S), Once(s), NEW e \in S \ Range(s)
  PROVE  /\ Append(s, e) \in Seq(S) /\ Once(Append(s, e))
         /\ Range(Append(s, e)) = Range(s) \cup {e}
         /\ Len(s) \in Nat /\ Len(Append(s, e)) = Len(s) + 1
<1> DEFINE L == Len(s)
           t == Append(s, e)
<1>1. L \in Nat /\ DOMAIN s = 1 .. L
  OBVIOUS
<1>2. t \in Seq(S) /\ Len(t) = L + 1 /\ DOMAIN t = 1 .. L + 1 /\ t[L + 1] = e /\ \A j \in 1 .. L : t[j] = s[j]
  OBVIOUS
<1> HIDE DEF L, t
<1>3. \A j \in 1 .. L + 1 : j \in 1 .. L \/ j = L + 1
  BY <1>1
<1>4. 1 .. L \subseteq 1 .. L + 1 /\ L + 1 \in 1 .. L + 1
  BY <1>1
<1>5. \A j \in 1 .. L : t[j] # e
  BY <1>1, <1>2 DEF Range
<1>6. Once(t)
  <2> SUFFICES ASSUME NEW x \in DOMAIN t, NEW y \in DOMAIN t, t[x] = t[y] PROVE x = y
    BY DEF Once
  <2>1. CASE x \in 1 .. L /\ y \in 1 .. L
    BY <1>1, <1>2, <2>1 DEF Once
  <2>2. CASE x = L + 1 \/ y = L + 1
    BY <1>2, <1>3, <1>5, <2>2
  <2> QED  BY <1>2, <1>3, <2>1, <2>2
<1>7. Range(t) = Range(s) \cup {e}
  <2>1. \A x \in DOMAIN t : t[x] \in Range(s) \cup {e}
    BY <1>1, <1>2, <1>3 DEF Range
  <2>2. \A x \in DOMAIN s : s[x] \in Range(t)
    BY <1>1, <1>2, <1>4 DEF Range
  <2>3. e \in Range(t)
    BY <1>2, <1>4 DEF Range
  <2> QED  BY <2>1, <2>2, <2>3 DEF Range
<1> QED  BY <1>1, <1>2, <1>6, <1>7 DEF L, t

\* When all that is left is baseless, no round from the objects that stayed
\* gets past what is resolved.
LEMMA StuckRightly ==
  ASSUME pack \in Packs, Parsed, Known, stable \subseteq seen,
         Directs(Len(pack) + 1) \subseteq DOMAIN resolved,
         Range(still) = Index \ DOMAIN resolved, \A k \in Range(still) : Baseless(k)
  PROVE  OutOfReach
<1> DEFINE L == Len(pack)
           D == DOMAIN resolved
           S(r) == Rounds(pack, stable)[r]
           T == {r \in 0 .. L : \A x \in S(r) : x[1] \in D}
<1>1. L \in Nat /\ Index = 1 .. L /\ D \subseteq Index
  BY PackShape DEF Known
<1>2. count \in 0 .. L
  BY RoomForOne
\* What a round knows of a resolved entry is what it resolved to.
<1>3. ASSUME NEW r \in 0 .. L, NEW x \in S(r), x[1] \in D PROVE x[2] = resolved[x[1]]
  <2> DEFINE A == Rounds(pack, seen)[L]
  <2>1. x \in Rounds(pack, seen)[r]
    BY <1>1, RoundsInMore
  <2>2. r \in 0 .. L /\ L \in 0 .. L /\ r <= L /\ count <= L
    BY <1>1, <1>2
  <2>3. x \in A
    BY <1>1, <2>1, <2>2, RoundsGrow
  <2>4. <<x[1], resolved[x[1]]>> \in Rounds(pack, seen)[count]
    BY <1>3 DEF Known
  <2>5. <<x[1], resolved[x[1]]>> \in A
    BY <1>1, <1>2, <2>2, <2>4, RoundsGrow
  <2>6. Grounded(pack, A, seen)
    BY <1>1, <2>2, RoundsGrounded
  <2> HIDE DEF A
  <2> DEFINE y == <<x[1], resolved[x[1]]>>
  <2>7. y[1] = x[1] /\ y[2] = resolved[x[1]] /\ y \in A
    BY <2>5
  <2> HIDE DEF y
  <2> QED  BY <2>3, <2>6, <2>7 DEF Grounded
<1>4. 0 \in T
  <2>1. S(0) = {<<n, pack[n].obj>> : n \in {m \in DOMAIN pack : pack[m].kind = "direct"}}
    BY <1>1, RoundsFacts
  <2>2. \A n \in DOMAIN pack : pack[n].kind = "direct" => n \in D
    <3>1. \A n \in 1 .. L : n < L + 1
      BY <1>1
    <3> QED  BY <1>1, <3>1 DEF Directs, Index
  <2>3. \A x \in S(0) : x[1] \in D
    BY <2>1, <2>2
  <2> QED  BY <1>1, <2>3
<1>5. ASSUME NEW r \in 1 .. L, r - 1 \in T PROVE r \in T
  <2>1. S(r) = Derive(pack, S(r - 1), stable)
    BY <1>1, RoundsFacts
  <2>2. r - 1 \in 0 .. L /\ r \in 0 .. L /\ \A x \in S(r - 1) : x[1] \in D
    BY <1>5
  <2>3. \A x \in S(r - 1) : x[2] = resolved[x[1]]
    BY <1>3, <2>2
  <2> SUFFICES ASSUME NEW x \in S(r), x \notin S(r - 1), x[1] \notin D PROVE FALSE
    BY <2>2
  <2>4. PICK n \in DOMAIN pack : \E b \in Bases(pack, S(r - 1), stable, n) :
           pack[n].kind # "direct" /\ x = <<n, Target(b, pack[n].delta)>>
    BY <2>1, DeriveElements
  <2> HIDE DEF S
  <2>5. x[1] = n /\ n \in Index
    BY <2>4 DEF Index
  <2>6. Baseless(n)
    BY <2>5
  <2>7. PICK b : b \in Bases(pack, S(r - 1), stable, n)
    BY <2>4
  <2>8. CASE pack[n].kind = "ref"
    <3>1. b = pack[n].base /\ (b \in stable \/ \E k \in S(r - 1) : b = k[2])
      BY <2>7, <2>8 DEF Bases
    <3>2. b \notin stable
      BY <2>6, <2>8, <3>1 DEF Baseless
    <3>3. PICK k \in S(r - 1) : b = resolved[k[1]] /\ k[1] \in D
      BY <2>2, <2>3, <3>1, <3>2
    <3> QED  BY <2>6, <2>8, <3>1, <3>3 DEF Baseless
  <2>9. CASE pack[n].kind # "ref"
    <3>1. PICK k \in S(r - 1) : k[1] = n - Distance(pack[n].code)
      BY <2>7, <2>9 DEF Bases
    <3>2. pack[n].kind = "ofs"
      BY <2>4, <2>5, <2>9, PackShape
    <3>3. BaseIndex(n) = k[1]
      BY <2>5, <3>1, <3>2, PointsRightly
    <3> QED  BY <2>2, <2>6, <2>9, <3>3 DEF Baseless
  <2> QED  BY <2>8, <2>9
<1>6. \A r \in 1 .. L : r - 1 \in T => r \in T
  BY <1>5
<1> HIDE DEF T
<1>7. 0 .. L \subseteq T
  BY <1>1, <1>4, <1>6, Climb
<1>8. \A x \in S(L) : x[1] \in D
  <2>1. L \in T
    BY <1>1, <1>7
  <2> QED  BY <2>1 DEF T
<1> QED  BY <1>8 DEF OutOfReach, Meaning

-----------------------------------------------------------------------------
(* The steps.                                                              *)

LEMMA InitIngestIInv == IngestInit => IngestIInv
<1> SUFFICES ASSUME IngestInit PROVE IngestIInv
  OBVIOUS
<1>1. DOMAIN resolved = {} /\ count = 0
  BY DEF IngestInit
<1>2. Known
  BY <1>1, FS_EmptySet DEF Known
<1>3. AtHand
  BY DEF AtHand, IngestInit
<1> QED  BY <1>1, <1>2, <1>3 DEF IngestInit, IngestIInv, InPhase

LEMMA SameKnown ==
  ASSUME Known, AtHand, UNCHANGED <<pack, resolved, count, seen, store, stable>>
  PROVE  Known' /\ AtHand'
BY DEF Known, AtHand, Index

\* A failure other than the two that the property is about.
LEMMA FailKeeps ==
  ASSUME IngestIInv, UNCHANGED <<pack, resolved, count, seen, store, stable>>,
         phase' = "failed", err' \notin {"parse", "stuck"}
  PROVE  IngestIInv'
<1>1. Known' /\ AtHand'
  BY SameKnown DEF IngestIInv
<1> QED  BY <1>1 DEF IngestIInv, InPhase

LEMMA ParsePackKeeps == ASSUME IngestIInv, ParsePack PROVE IngestIInv'
<1>1. Known' /\ AtHand'
  BY SameKnown DEF IngestIInv, ParsePack, otherUnchanged
<1>2. UNCHANGED <<pack, resolved, count, i, still, stable>>
  BY DEF ParsePack, otherUnchanged
<1>3. i = 1 /\ DOMAIN resolved = {} /\ still = << >> /\ err = "none"
  BY DEF ParsePack, IngestIInv, InPhase
<1>4. CASE (\A n \in Index : Inflates(pack[n]) /\ Decodes(pack[n])) /\ phase' = "direct" /\ UNCHANGED err
  <2>1. Len(pack) \in Nat /\ Index = 1 .. Len(pack)
    BY PackShape DEF IngestIInv
  <2>2. 1 \in 1 .. Len(pack) + 1 /\ \A n \in 1 .. Len(pack) : ~(n < 1)
    BY <2>1
  <2>3. Directs(1) = {}
    BY <2>1, <2>2 DEF Directs
  <2>4. Directs(1)' = Directs(1)
    BY <1>2 DEF Directs, Index
  <2>5. Parsed'
    BY <1>2, <1>4, ParsedStays DEF Parsed
  <2> QED  BY <1>1, <1>2, <1>3, <1>4, <2>2, <2>3, <2>4, <2>5 DEF IngestIInv, InPhase
<1>5. CASE Fail("parse")
  <2>1. count = 0
    BY <1>3, FS_EmptySet DEF IngestIInv, Known
  <2> QED  BY <1>1, <1>2, <1>5, <2>1 DEF IngestIInv, InPhase, Fail
<1> QED  BY <1>4, <1>5 DEF ParsePack

LEMMA StoreDirectKeeps == ASSUME IngestIInv, StoreDirect PROVE IngestIInv'
<1>1. /\ pack \in Packs /\ Known /\ AtHand /\ i \in Index
      /\ DOMAIN resolved = Directs(i) /\ still = << >> /\ err = "none" /\ phase = "direct" /\ Parsed
  BY DEF StoreDirect, IngestIInv, InPhase
<1>2. UNCHANGED <<pack, still, stable, seen>> /\ i' = i + 1 /\ Parsed'
  BY <1>1, ParsedStays DEF StoreDirect, otherUnchanged
<1>3. Len(pack) \in Nat /\ Index = 1 .. Len(pack)
  BY <1>1, PackShape
<1>4. i + 1 \in 1 .. Len(pack) + 1 /\ ~(i < i) /\ \A n \in 1 .. Len(pack) : n < i + 1 <=> n < i \/ n = i
  BY <1>1, <1>3
<1>5. Directs(i)' = {n \in Index : n < i + 1 /\ pack[n].kind = "direct"}
  BY <1>2 DEF Directs, Index
<1>6. Directs(i)' = {n \in Index : (n < i \/ n = i) /\ pack[n].kind = "direct"}
  BY <1>3, <1>4, <1>5
<1>7. CASE pack[i].kind = "direct" /\ Store(i, pack[i].obj) /\ UNCHANGED <<phase, err>>
  <2>1. i \notin DOMAIN resolved
    BY <1>1, <1>4 DEF Directs
  <2>2. <<i, pack[i].obj>> \in Rounds(pack, seen)[0]
    BY <1>1, <1>3, <1>7, RoundsFacts DEF Index
  <2>3. Known' /\ AtHand' /\ DOMAIN resolved' = DOMAIN resolved \cup {i}
    BY <1>1, <1>2, <1>7, <2>1, <2>2, StoreKeeps
  <2>4. Directs(i)' = Directs(i) \cup {i}
    BY <1>1, <1>6, <1>7 DEF Directs
  <2> QED  BY <1>1, <1>2, <1>4, <1>7, <2>3, <2>4 DEF IngestIInv, InPhase
<1>8. CASE pack[i].kind # "direct" /\ UNCHANGED <<store, resolved, count>>
  <2>1. Known' /\ AtHand'
    BY <1>1, <1>2, <1>8, SameKnown
  <2>2. Directs(i)' = Directs(i)
    BY <1>6, <1>8 DEF Directs
  <2>3. CASE UNCHANGED <<phase, err>>
    BY <1>1, <1>2, <1>4, <1>8, <2>1, <2>2, <2>3 DEF IngestIInv, InPhase
  <2>4. CASE Fail("unsupported")
    BY <1>2, <1>8, <2>4, FailKeeps DEF Fail
  <2> QED  BY <1>8, <2>3, <2>4 DEF StoreDirect
<1> QED  BY <1>7, <1>8 DEF StoreDirect

LEMMA QueueDeltasKeeps == ASSUME IngestIInv, QueueDeltas PROVE IngestIInv'
<1>1. /\ pack \in Packs /\ Known /\ AtHand /\ i \in 1 .. Len(pack) + 1 /\ i \notin Index
      /\ DOMAIN resolved = Directs(i) /\ still = << >> /\ err = "none" /\ Parsed
  BY DEF QueueDeltas, IngestIInv, InPhase
<1>2. UNCHANGED <<pack, still, stable, seen, store, resolved, count>> /\ before' = Len(pending') /\ Parsed'
  BY <1>1, ParsedStays DEF QueueDeltas, otherUnchanged
<1>3. Len(pack) \in Nat /\ Index = 1 .. Len(pack)
  BY <1>1, PackShape
<1>4. i = Len(pack) + 1
  BY <1>1, <1>3
<1>5. Known' /\ AtHand'
  BY <1>1, <1>2, SameKnown
<1> DEFINE deltas == Index \ DOMAIN resolved
           N == Cardinality(deltas)
<1>6. N \in Nat
  <2>1. IsFiniteSet(Index)
    BY <1>3, FS_Interval
  <2> QED  BY <2>1, FS_Subset, FS_CardinalityType
<1>7. PICK queue \in [1 .. N -> deltas] :
        /\ Range(queue) = deltas
        /\ \A a, b \in DOMAIN queue : a < b => queue[a] < queue[b]
        /\ pending' = queue
  BY DEF QueueDeltas
<1> HIDE DEF N
<1>8. queue \in Seq(Index) /\ Len(queue) = N /\ DOMAIN queue = 1 .. N
  BY <1>6, <1>7
<1>9. Once(queue)
  <2> SUFFICES ASSUME NEW a \in DOMAIN queue, NEW b \in DOMAIN queue, queue[a] = queue[b] PROVE a = b
    BY DEF Once
  <2>1. a \in Nat /\ b \in Nat /\ queue[a] \in Nat /\ queue[b] \in Nat
    BY <1>3, <1>6, <1>7, <1>8
  <2>2. ~(queue[a] < queue[b]) /\ ~(queue[b] < queue[a])
    BY <2>1
  <2>3. ~(a < b) /\ ~(b < a)
    BY <1>7, <2>2
  <2> QED  BY <2>1, <2>3
<1>10. CASE phase' = (IF pending' = << >> THEN "done" ELSE "pass") /\ UNCHANGED err
  <2>1. CASE pending' = << >>
    <3>1. DOMAIN resolved = Index
      <4>1. Range(queue) = {}
        BY <1>7, <2>1 DEF Range
      <4> QED  BY <1>1, <1>7, <4>1 DEF Known
    <3> QED  BY <1>1, <1>2, <1>5, <1>10, <2>1, <3>1 DEF IngestIInv, InPhase, Index
  <2>2. CASE pending' # << >>
    <3>1. Queued'
      <4>1. Once(still') /\ Range(still') = {} /\ still' \in Seq(Index') /\ Len(still') = 0
        BY <1>1, <1>2 DEF Once, Range
      <4>2. Once(pending') /\ pending' \in Seq(Index')
        BY <1>2, <1>7, <1>8, <1>9 DEF Index
      <4>3. Range(pending') = Index' \ DOMAIN resolved'
        BY <1>2, <1>7 DEF Index
      <4>4. before' \in Nat /\ Len(pending') + Len(still') <= before'
        BY <1>2, <1>6, <1>7, <1>8, <4>1
      <4>5. \A k \in Range(still') : Baseless(k)'
        BY <4>1
      <4>6. (\A k \in Range(still) : Baseless(k))'
        BY <4>5
      <4>7. Once(pending)' /\ Once(still)'
        BY <4>1, <4>2 DEF Once
      <4> QED  BY <4>1, <4>2, <4>3, <4>4, <4>6, <4>7 DEF Queued
    <3>2. (Directs(Len(pack) + 1) \subseteq DOMAIN resolved)'
      BY <1>1, <1>2, <1>4 DEF Directs, Index
    <3> QED  BY <1>1, <1>2, <1>5, <1>10, <2>2, <3>1, <3>2 DEF IngestIInv, InPhase
  <2> QED  BY <2>1, <2>2
<1>11. CASE Fail("unsupported")
  BY <1>2, <1>11, FailKeeps DEF Fail
<1> QED  BY <1>10, <1>11 DEF QueueDeltas

\* The object that a delta gives is derived by the next round.
LEMMA ResolvedNext ==
  ASSUME pack \in Packs, Parsed, Known, AtHand, NEW n \in Index, pack[n].kind # "direct", FindsBase(n),
         ApplyDelta(Base(n).data, pack[n].delta) # NoValue
  PROVE  <<n, Target(Base(n), pack[n].delta)>> \in Derive(pack, Rounds(pack, seen)[count], seen)
<1> DEFINE K == Rounds(pack, seen)[count]
<1>1. \A m \in DOMAIN resolved : <<m, resolved[m]>> \in K
  BY DEF Known
<1>2. pack[n].kind \in {"ref", "ofs"} /\ n \in DOMAIN pack
  BY PackShape DEF Index
<1> HIDE DEF K
<1>3. Base(n) \in Bases(pack, K, seen, n)
  <2>1. CASE pack[n].kind = "ref"
    <3>1. Base(n) = pack[n].base /\ pack[n].base \in store
      BY <2>1 DEF Base, FindsBase
    <3>2. CASE pack[n].base \in seen
      BY <2>1, <3>1, <3>2 DEF Bases
    <3>3. CASE pack[n].base \notin seen
      <4>1. PICK m \in DOMAIN resolved : resolved[m] = pack[n].base
        BY <3>1, <3>3 DEF AtHand
      <4> DEFINE y == <<m, resolved[m]>>
      <4>2. y \in K /\ y[2] = pack[n].base
        BY <1>1, <4>1
      <4> HIDE DEF y
      <4>3. pack[n].base \in {k[2] : k \in K}
        BY <4>2
      <4> QED  BY <2>1, <3>1, <4>3 DEF Bases
    <3> QED  BY <3>2, <3>3
  <2>2. CASE pack[n].kind = "ofs"
    <3>1. Base(n) = resolved[BaseIndex(n)] /\ BaseIndex(n) \in DOMAIN resolved
      BY <2>2 DEF Base, FindsBase
    <3>2. BaseIndex(n) = n - Distance(pack[n].code)
      BY <2>2, PointsRightly
    <3> DEFINE y == <<BaseIndex(n), resolved[BaseIndex(n)]>>
    <3>3. y \in K /\ y[1] = n - Distance(pack[n].code) /\ y[2] = Base(n)
      BY <1>1, <3>1, <3>2
    <3> HIDE DEF y
    <3>4. Base(n) \in {k[2] : k \in {x \in K : x[1] = n - Distance(pack[n].code)}}
      BY <3>3
    <3> QED  BY <2>2, <3>4 DEF Bases
  <2> QED  BY <1>2, <2>1, <2>2
<1>4. <<n, Target(Base(n), pack[n].delta)>> \in Derive(pack, K, seen)
  BY <1>2, <1>3, DeriveElements
<1> QED  BY <1>4 DEF K

LEMMA ResolveKeeps == ASSUME IngestIInv, Resolve PROVE IngestIInv'
<1> DEFINE n == Head(pending)
           out == ApplyDelta(Base(n).data, pack[n].delta)
           lost == pack[n].kind = "ofs" /\ BaseIndex(n) \notin Index
<1>1. /\ pack \in Packs /\ Known /\ AtHand /\ Queued /\ pending # << >>
      /\ Directs(Len(pack) + 1) \subseteq DOMAIN resolved /\ err = "none" /\ phase = "pass" /\ Parsed
  BY DEF Resolve, IngestIInv, InPhase
<1>2. UNCHANGED <<pack, stable, seen, before>> /\ pending' = Tail(pending) /\ Parsed'
  BY <1>1, ParsedStays DEF Resolve, otherUnchanged
<1>3. /\ pending' \in Seq(Index) /\ Once(pending') /\ n \in Index
      /\ n \notin Range(pending') /\ Range(pending) = {n} \cup Range(pending')
      /\ Len(pending) \in Nat /\ Len(pending') = Len(pending) - 1
  BY <1>1, <1>2, TakeHead DEF Queued
<1>4. n \in Index \ DOMAIN resolved /\ n \notin Range(still)
  BY <1>1, <1>3 DEF Queued
<1>5. pack[n].kind # "direct"
  <2>1. Len(pack) \in Nat /\ Index = 1 .. Len(pack)
    BY <1>1, PackShape
  <2>2. n < Len(pack) + 1
    BY <1>3, <2>1
  <2> QED  BY <1>1, <1>4, <2>2 DEF Directs
<1>6. Index' = Index /\ Directs(Len(pack) + 1)' = Directs(Len(pack) + 1)
  BY <1>2 DEF Directs, Index
<1> HIDE DEF n
<1>7. CASE lost /\ Fail("offset") /\ UNCHANGED <<store, resolved, count, still>>
  BY <1>2, <1>7, FailKeeps DEF Fail
<1>8. CASE ~lost /\ FindsBase(n) /\ out = NoValue /\ Fail("delta") /\ UNCHANGED <<store, resolved, count, still>>
  BY <1>2, <1>8, FailKeeps DEF Fail
\* Put off: its base is not there.
<1>9. CASE /\ ~FindsBase(n) /\ still' = Append(still, n)
           /\ UNCHANGED <<store, resolved, count, phase, err>>
  <2>1. Known' /\ AtHand'
    BY <1>1, <1>2, <1>9, SameKnown
  <2>2. /\ still' \in Seq(Index) /\ Once(still')
        /\ Range(still') = Range(still) \cup {n}
        /\ Len(still) \in Nat /\ Len(still') = Len(still) + 1
    BY <1>1, <1>3, <1>4, <1>9, AddLast DEF Queued
  <2>3. Baseless(n)
    BY <1>1, <1>9 DEF Baseless, FindsBase, AtHand, Known
  <2>4. Len(pending') + Len(still') = Len(pending) + Len(still)
    BY <1>3, <2>2
  <2>5. before \in Nat /\ Len(pending) + Len(still) <= before
        /\ (Len(pending) + Len(still) = before => \A k \in Range(still) : Baseless(k))
    BY <1>1 DEF Queued
  <2>6. Len(pending) + Len(still) = before => \A k \in Range(still') : Baseless(k)
    BY <2>2, <2>3, <2>5
  <2>7. \A k : Baseless(k)' <=> Baseless(k)
    BY <1>2, <1>9 DEF Baseless, BaseIndex
  <2>8. Len(pending') + Len(still') = before' => \A k \in Range(still') : Baseless(k)'
    BY <1>2, <2>4, <2>6, <2>7
  <2>9. Range(pending') \cap Range(still') = {} /\ Range(pending') \cup Range(still') = Index' \ DOMAIN resolved'
    BY <1>1, <1>3, <1>4, <1>6, <1>9, <2>2 DEF Queued
  <2>10. Once(pending)' /\ Once(still)'
    BY <1>3, <2>2 DEF Once
  <2>11. before' \in Nat /\ Len(pending') + Len(still') <= before'
    BY <1>2, <2>4, <2>5
  <2>12. Queued'
    BY <1>3, <1>6, <2>2, <2>8, <2>9, <2>10, <2>11 DEF Queued
  <2> QED  BY <1>1, <1>2, <1>6, <1>9, <2>1, <2>12 DEF IngestIInv, InPhase
\* Resolved: there is one entry less to go.
<1>10. CASE /\ FindsBase(n) /\ out # NoValue
            /\ Store(n, [kind |-> Base(n).kind, data |-> out]) /\ UNCHANGED <<still, phase, err>>
  <2>1. <<n, Target(Base(n), pack[n].delta)>> \in Derive(pack, Rounds(pack, seen)[count], seen)
    BY <1>1, <1>3, <1>5, <1>10, ResolvedNext
  <2>2. Store(n, Target(Base(n), pack[n].delta))
    BY <1>10 DEF Target
  <2>3. Known' /\ AtHand' /\ DOMAIN resolved' = DOMAIN resolved \cup {n}
    BY <1>1, <1>2, <1>4, <2>1, <2>2, StoreKeeps
  <2>4. /\ still \in Seq(Index) /\ Once(still) /\ before \in Nat
        /\ Len(pending) + Len(still) <= before
        /\ Range(pending) \cap Range(still) = {} /\ Range(pending) \cup Range(still) = Index \ DOMAIN resolved
    BY <1>1 DEF Queued
  <2>5. Range(pending') \cap Range(still') = {} /\ Range(pending') \cup Range(still') = Index' \ DOMAIN resolved'
    BY <1>3, <1>4, <1>6, <1>10, <2>3, <2>4
  <2>6. Len(still) \in Nat
    BY <2>4
  <2>7. Len(pending') + Len(still') < before' /\ before' \in Nat
    BY <1>2, <1>3, <1>10, <2>4, <2>6
  <2>8. Len(pending') + Len(still') <= before' /\ Len(pending') + Len(still') # before'
    <3> DEFINE a == Len(pending')
               b == Len(still')
    <3>1. a \in Nat /\ b \in Nat /\ a + b < before' /\ before' \in Nat
      BY <1>3, <1>10, <2>6, <2>7
    <3> HIDE DEF a, b
    <3>2. a + b <= before' /\ a + b # before'
      BY <3>1
    <3> QED  BY <3>2 DEF a, b
  <2>9. Once(pending)' /\ Once(still)'
    BY <1>3, <1>10, <2>4 DEF Once
  <2>10. Queued'
    BY <1>3, <1>6, <1>10, <2>4, <2>5, <2>7, <2>8, <2>9 DEF Queued
  <2> QED  BY <1>1, <1>2, <1>6, <1>10, <2>3, <2>10 DEF IngestIInv, InPhase
<1> QED
  <2>1. \/ lost /\ Fail("offset") /\ UNCHANGED <<store, resolved, count, still>>
        \/ ~lost /\ ~FindsBase(n) /\ still' = Append(still, n) /\ UNCHANGED <<store, resolved, count, phase, err>>
        \/ ~lost /\ FindsBase(n) /\ out = NoValue /\ Fail("delta") /\ UNCHANGED <<store, resolved, count, still>>
        \/ /\ ~lost /\ FindsBase(n) /\ out # NoValue
           /\ Store(n, [kind |-> Base(n).kind, data |-> out]) /\ UNCHANGED <<still, phase, err>>
    BY DEF Resolve, n
  <2> QED  BY <1>7, <1>8, <1>9, <1>10, <2>1

LEMMA EndPassKeeps == ASSUME IngestIInv, EndPass PROVE IngestIInv'
<1>1. /\ pack \in Packs /\ Known /\ AtHand /\ Queued /\ pending = << >>
      /\ Directs(Len(pack) + 1) \subseteq DOMAIN resolved /\ err = "none" /\ phase = "pass" /\ Parsed
  BY DEF EndPass, IngestIInv, InPhase
<1>2. UNCHANGED <<pack, stable, seen, store, resolved, count>> /\ Parsed'
  BY <1>1, ParsedStays DEF EndPass, otherUnchanged
<1>3. Known' /\ AtHand'
  BY <1>1, <1>2, SameKnown
<1>4. Range(pending) = {} /\ Len(pending) = 0
  BY <1>1 DEF Range
<1>5. Range(still) = Index \ DOMAIN resolved /\ still \in Seq(Index) /\ Once(still)
  BY <1>1, <1>4 DEF Queued
<1>6. Index' = Index /\ Directs(Len(pack) + 1)' = Directs(Len(pack) + 1)
  BY <1>2 DEF Directs, Index
<1>7. Len(still) \in Nat
  BY <1>5
<1>8. CASE still = << >> /\ phase' = "done" /\ UNCHANGED <<err, pending, still, before>>
  <2>1. Range(still) = {}
    BY <1>8 DEF Range
  <2>2. DOMAIN resolved' = Index'
    BY <1>1, <1>2, <1>5, <1>6, <2>1 DEF Known
  <2> QED  BY <1>1, <1>2, <1>3, <1>8, <2>2 DEF IngestIInv, InPhase
<1>9. CASE Len(still) = before /\ Fail("stuck") /\ UNCHANGED <<pending, still, before>>
  <2>1. Len(pending) + Len(still) = before
    BY <1>4, <1>7, <1>9
  <2>2. \A k \in Range(still) : Baseless(k)
    BY <1>1, <2>1 DEF Queued
  <2>3. OutOfReach
    BY <1>1, <1>5, <2>2, StuckRightly DEF AtHand
  <2>4. OutOfReach'
    BY <1>2, <1>9, <2>3 DEF OutOfReach, Meaning
  <2> QED  BY <1>1, <1>2, <1>3, <1>9, <2>4 DEF IngestIInv, InPhase, Fail
<1>10. CASE pending' = still /\ before' = Len(still) /\ still' = << >> /\ UNCHANGED <<phase, err>>
  <2>1. Once(still') /\ Range(still') = {} /\ still' \in Seq(Index) /\ Len(still') = 0
    BY <1>10 DEF Once, Range
  <2>2. Range(pending') \cap Range(still') = {} /\ Range(pending') \cup Range(still') = Index' \ DOMAIN resolved'
    BY <1>2, <1>5, <1>6, <1>10, <2>1
  <2>3. (\A k \in Range(still) : Baseless(k))'
    <3>1. \A k \in Range(still') : Baseless(k)'
      BY <2>1
    <3> QED  BY <3>1
  <2>4. before' \in Nat /\ Len(pending') + Len(still') <= before'
    BY <1>7, <1>10, <2>1
  <2>5. Once(pending)' /\ Once(still)'
    BY <1>5, <1>10, <2>1 DEF Once
  <2>6. Queued'
    BY <1>5, <1>6, <1>10, <2>1, <2>2, <2>3, <2>4, <2>5 DEF Queued
  <2> QED  BY <1>1, <1>2, <1>3, <1>6, <1>10, <2>6 DEF IngestIInv, InPhase
<1> QED  BY <1>8, <1>9, <1>10 DEF EndPass

\* Others only add to what was seen, and only take from what stayed.
LEMMA OthersKeep ==
  ASSUME IngestIInv, NEW o \in Objects, OtherWrites(o) \/ OldDeleted(o)
  PROVE  IngestIInv'
<1>1. /\ UNCHANGED <<pack, phase, i, resolved, pending, still, before, count, err>>
      /\ phase \notin {"done", "failed"}
  BY DEF OtherWrites, OldDeleted, Ingesting
<1>2. pack \in Packs /\ Known /\ AtHand /\ InPhase /\ err = "none"
  BY <1>1 DEF IngestIInv, InPhase
<1>3. seen \subseteq seen' /\ stable' \subseteq stable
  BY DEF OtherWrites, OldDeleted
<1>4. /\ store' \subseteq store \cup seen' /\ stable' \subseteq store' /\ stable' \subseteq seen'
      /\ \A n \in DOMAIN resolved : resolved[n] \in store'
  BY <1>2 DEF OtherWrites, OldDeleted, AtHand, Known
<1>5. Known'
  <2>1. Len(pack) \in Nat /\ count \in 0 .. Len(pack)
    BY <1>2, PackShape, RoomForOne
  <2>2. Rounds(pack, seen)[count] \subseteq Rounds(pack, seen')[count]
    BY <1>3, <2>1, RoundsInMore
  <2>3. \A n \in DOMAIN resolved : <<n, resolved[n]>> \in Rounds(pack, seen')[count]
    BY <1>2, <2>2 DEF Known
  <2> QED  BY <1>1, <1>2, <1>4, <2>3 DEF Known, Index
<1>6. AtHand'
  BY <1>1, <1>2, <1>3, <1>4 DEF AtHand
<1>7. \A k : Baseless(k) => Baseless(k)'
  BY <1>1, <1>3 DEF Baseless, BaseIndex
<1>8. Queued => Queued'
  BY <1>1, <1>7 DEF Queued, Once, Index
<1>10. Directs(i)' = Directs(i) /\ Directs(Len(pack) + 1)' = Directs(Len(pack) + 1)
  BY <1>1 DEF Directs, Index
<1>11. Parsed => Parsed'
  BY <1>1, ParsedStays
<1>12. InPhase'
  BY <1>1, <1>2, <1>8, <1>10, <1>11 DEF InPhase, Index
<1> QED  BY <1>1, <1>2, <1>5, <1>6, <1>12 DEF IngestIInv

LEMMA IngestStutters == ASSUME IngestIInv, UNCHANGED ingestVars PROVE IngestIInv'
<1>1. UNCHANGED <<pack, phase, i, resolved, pending, still, before, count, err, seen, store, stable>>
  BY DEF ingestVars
<1>2. Known' /\ AtHand'
  BY <1>1, SameKnown DEF IngestIInv
<1>3. \A k : Baseless(k) => Baseless(k)'
  BY <1>1 DEF Baseless, BaseIndex
<1>4. Queued => Queued'
  BY <1>1, <1>3 DEF Queued, Once, Index
<1>5. Directs(i)' = Directs(i) /\ Directs(Len(pack) + 1)' = Directs(Len(pack) + 1)
  BY <1>1 DEF Directs, Index
<1>6. OutOfReach' = OutOfReach
  BY <1>1 DEF OutOfReach, Meaning
<1>7. Parsed => Parsed'
  BY <1>1, ParsedStays
<1>8. InPhase'
  BY <1>1, <1>4, <1>5, <1>6, <1>7 DEF IngestIInv, InPhase, Index
<1> QED  BY <1>1, <1>2, <1>8 DEF IngestIInv

LEMMA IngestStep == IngestIInv /\ [IngestNext]_ingestVars => IngestIInv'
<1> SUFFICES ASSUME IngestIInv, [IngestNext]_ingestVars PROVE IngestIInv'
  OBVIOUS
<1>1. CASE Ingest
  BY <1>1, ParsePackKeeps, StoreDirectKeeps, QueueDeltasKeeps, ResolveKeeps, EndPassKeeps DEF Ingest
<1>2. CASE WriteFails
  BY <1>2, FailKeeps DEF WriteFails, Fail
<1>3. CASE \E o \in Objects : OtherWrites(o) \/ OldDeleted(o)
  BY <1>3, OthersKeep
<1>4. CASE UNCHANGED ingestVars
  BY <1>4, IngestStutters
<1> QED  BY <1>1, <1>2, <1>3, <1>4 DEF IngestNext

\* The queue has each unresolved delta once, and nothing resolves early.
THEOREM IngestInvariance == IngestSpec => []IngestIInv
<1>1. IngestInit => IngestIInv
  BY InitIngestIInv
<1>2. IngestIInv /\ [IngestNext]_ingestVars => IngestIInv'
  BY IngestStep
<1> QED  BY <1>1, <1>2, PTL DEF IngestSpec

\* store_with_full_resolution writes what each entry means, is done only with
\* every entry, and reports a missing base rightly.
THEOREM PacksResolve == IngestSpec => []ResolvesExactly
<1>1. IngestIInv => ResolvesExactly
  <2> SUFFICES ASSUME IngestIInv PROVE ResolvesExactly
    OBVIOUS
  <2>1. pack \in Packs /\ Known /\ InPhase
    BY DEF IngestIInv
  <2>2. Len(pack) \in Nat /\ count \in 0 .. Len(pack)
    BY <2>1, PackShape, RoomForOne
  <2>3. Rounds(pack, seen)[count] \subseteq Meaning(pack, seen)
    <3>1. Len(pack) \in 0 .. Len(pack) /\ count <= Len(pack)
      BY <2>2
    <3> QED  BY <2>2, <3>1, RoundsGrow DEF Meaning
  <2>4. \A n \in DOMAIN resolved : <<n, resolved[n]>> \in Meaning(pack, seen) /\ resolved[n] \in store
    BY <2>1, <2>3 DEF Known
  <2>5. phase = "done" => count = Len(pack) /\ DOMAIN resolved = Index
    BY <2>1, RoomForOne DEF InPhase
  <2> QED  BY <2>1, <2>4, <2>5 DEF ResolvesExactly, InPhase, OutOfReach
<1> QED  BY <1>1, IngestInvariance, PTL

-----------------------------------------------------------------------------
(* pkt-lines: the length of a frame, written and read.                     *)

FourDigits(p) == 4096 * p[1] + 256 * p[2] + 16 * p[3] + p[4]

LEMMA HexDigits ==
  ASSUME NEW n \in Nat, n <= 65535
  PROVE  /\ Hex4(n) \in Seq(0 .. 15) /\ Len(Hex4(n)) = 4
         /\ n = 4096 * Hex4(n)[1] + 256 * Hex4(n)[2] + 16 * Hex4(n)[3] + Hex4(n)[4]
<1> DEFINE a == n \div 4096
           b == (n \div 256) % 16
           c == (n \div 16) % 16
           d == n % 16
<1>1. n \in Int /\ 0 <= n /\ n <= 65535
  OBVIOUS
<1>2. /\ a \in Int /\ b \in Int /\ c \in Int /\ d \in Int
      /\ 0 <= a /\ a <= 15 /\ 0 <= b /\ b <= 15 /\ 0 <= c /\ c <= 15 /\ 0 <= d /\ d <= 15
  BY <1>1
<1>3. n = 4096 * a + 256 * b + 16 * c + d
  <2> DEFINE x == n \div 16
             y == n \div 256
  <2>1. x \in Int /\ y \in Int /\ x = 16 * y + c /\ y = 16 * a + b /\ n = 16 * x + d
    BY <1>1
  <2> HIDE DEF a, b, c, d, x, y
  <2> QED  BY <1>2, <2>1
<1>4. Hex4(n) = <<a, b, c, d>>
  BY DEF Hex4
<1> HIDE DEF a, b, c, d
<1>5. a \in 0 .. 15 /\ b \in 0 .. 15 /\ c \in 0 .. 15 /\ d \in 0 .. 15
  BY <1>2
<1>6. Hex4(n) \in Seq(0 .. 15) /\ Len(Hex4(n)) = 4
  BY <1>4, <1>5
<1>7. Hex4(n)[1] = a /\ Hex4(n)[2] = b /\ Hex4(n)[3] = c /\ Hex4(n)[4] = d
  BY <1>4
<1> QED  BY <1>3, <1>6, <1>7

LEMMA FourElements ==
  ASSUME NEW S, NEW s \in Seq(S), Len(s) = 4
  PROVE  s[1] \in S /\ s[2] \in S /\ s[3] \in S /\ s[4] \in S
<1>1. \A n \in 1 .. Len(s) : s[n] \in S
  OBVIOUS
<1>2. 1 \in 1 .. 4 /\ 2 \in 1 .. 4 /\ 3 \in 1 .. 4 /\ 4 \in 1 .. 4
  OBVIOUS
<1> QED  BY <1>1, <1>2

\* from_str_radix reads four hex digits as a number, and nothing else but
\* what begins with a sign.
LEMMA RadixReads ==
  ASSUME NEW p \in Seq(Byte), Len(p) = 4, p[1] # Plus
  PROVE  /\ IsHex(p) => FromStrRadix(p) = FourDigits(p)
         /\ ~IsHex(p) => FromStrRadix(p) = -1
<1>1. CASE ~IsHex(p)
  BY <1>1 DEF FromStrRadix
<1>2. CASE IsHex(p)
  <2> DEFINE v == CHOOSE g : g = [n \in 0 .. Len(p) |-> IF n = 0 THEN 0 ELSE 16 * g[n - 1] + p[n]]
             x1 == p[1]
             x2 == 16 * x1 + p[2]
             x3 == 16 * x2 + p[3]
             x4 == 16 * x3 + p[4]
             h == [n \in 0 .. 4 |-> IF n = 0 THEN 0 ELSE IF n = 1 THEN x1 ELSE IF n = 2 THEN x2 ELSE IF n = 3 THEN x3 ELSE x4]
  <2>1. FromStrRadix(p) = v[4]
    BY <1>2 DEF FromStrRadix
  <2>2. p[1] \in Int /\ p[2] \in Int /\ p[3] \in Int /\ p[4] \in Int
    <3> DEFINE S == 0 .. 17
    <3>1. S \subseteq Int
      OBVIOUS
    <3>2. p \in Seq(S)
      BY DEF Byte, Other
    <3> HIDE DEF S
    <3>3. p[1] \in S /\ p[2] \in S /\ p[3] \in S /\ p[4] \in S
      BY <3>2, FourElements
    <3> QED  BY <3>1, <3>3
  <2>3. \A n \in 0 .. 4 : n = 0 \/ n = 1 \/ n = 2 \/ n = 3 \/ n = 4
    OBVIOUS
  <2>4. 16 * 0 + p[1] = x1
    BY <2>2
  <2> HIDE DEF v, x1, x2, x3, x4
  <2>5. h[0] = 0 /\ h[1] = x1 /\ h[2] = x2 /\ h[3] = x3 /\ h[4] = x4
    OBVIOUS
  <2> DEFINE H(n) == IF n = 0 THEN 0 ELSE 16 * h[n - 1] + p[n]
  <2>6. h = [n \in 0 .. 4 |-> h[n]]
    OBVIOUS
  <2> HIDE DEF h
  <2>7. H(0) = 0 /\ H(1) = x1 /\ H(2) = x2 /\ H(3) = x3 /\ H(4) = x4
    BY <2>4, <2>5 DEF x2, x3, x4
  <2>8. \A n \in 0 .. 4 : h[n] = H(n)
    <3> HIDE DEF H
    <3> QED  BY <2>3, <2>5, <2>7
  <2>9. h = [n \in 0 .. 4 |-> H(n)]
    <3> HIDE DEF H
    <3> QED  BY <2>6, <2>8
  <2>10. \E g : g = [n \in 0 .. Len(p) |-> IF n = 0 THEN 0 ELSE 16 * g[n - 1] + p[n]]
    BY <2>9
  <2>11. v = [n \in 0 .. Len(p) |-> IF n = 0 THEN 0 ELSE 16 * v[n - 1] + p[n]]
    BY <2>10 DEF v
  <2>12. \A n \in 0 .. 4 : v[n] = IF n = 0 THEN 0 ELSE 16 * v[n - 1] + p[n]
    BY <2>11
  <2>13. v[0] = 0 /\ v[1] = 16 * v[0] + p[1] /\ v[2] = 16 * v[1] + p[2]
         /\ v[3] = 16 * v[2] + p[3] /\ v[4] = 16 * v[3] + p[4]
    BY <2>12
  <2>14. v[4] = x4
    BY <2>4, <2>13 DEF x2, x3, x4
  <2>15. x4 = FourDigits(p)
    BY <2>2 DEF x1, x2, x3, x4, FourDigits
  <2> QED  BY <1>2, <2>1, <2>14, <2>15
<1> QED  BY <1>1, <1>2

-----------------------------------------------------------------------------
(* One frame.                                                              *)

LEMMA SameElements ==
  ASSUME NEW S, NEW s \in Seq(S), NEW t \in Seq(S), Len(s) = Len(t), \A j \in 1 .. Len(s) : s[j] = t[j]
  PROVE  s = t
OBVIOUS

LEMMA Part ==
  ASSUME NEW S, NEW s \in Seq(S), NEW a \in Nat, NEW b \in Nat, 1 <= a, a <= b + 1, b <= Len(s)
  PROVE  /\ SubSeq(s, a, b) \in Seq(S) /\ Len(SubSeq(s, a, b)) = b + 1 - a
         /\ \A j \in 1 .. b + 1 - a : SubSeq(s, a, b)[j] = s[a + j - 1]
<1> DEFINE t == SubSeq(s, a, b)
<1>1. Len(s) \in Nat /\ \A j \in 1 .. Len(s) : s[j] \in S
  OBVIOUS
<1>2. t = [j \in 1 .. b - a + 1 |-> s[a + j - 1]]
  OBVIOUS
<1>3. b - a + 1 = b + 1 - a /\ b + 1 - a \in Nat
  OBVIOUS
<1>4. \A j \in 1 .. b + 1 - a : a + j - 1 \in 1 .. Len(s)
  BY <1>1
<1> HIDE DEF t
<1>5. \A j \in 1 .. b + 1 - a : t[j] = s[a + j - 1] /\ t[j] \in S
  BY <1>1, <1>2, <1>3, <1>4
<1>6. t \in Seq(S) /\ Len(t) = b + 1 - a
  BY <1>2, <1>3, <1>5
<1> QED  BY <1>5, <1>6 DEF t

LEMMA Joined ==
  ASSUME NEW S, NEW s \in Seq(S), NEW t \in Seq(S)
  PROVE  /\ s \o t \in Seq(S) /\ Len(s) \in Nat /\ Len(t) \in Nat /\ Len(s \o t) = Len(s) + Len(t)
         /\ \A j \in 1 .. Len(s) : (s \o t)[j] = s[j]
         /\ \A j \in 1 .. Len(t) : (s \o t)[Len(s) + j] = t[j]
OBVIOUS

\* A sequence is its beginning and the rest.
LEMMA Split ==
  ASSUME NEW S, NEW s \in Seq(S), NEW w \in Seq(S), Len(w) <= Len(s), \A j \in 1 .. Len(w) : s[j] = w[j]
  PROVE  s = w \o SubSeq(s, Len(w) + 1, Len(s)) /\ SubSeq(s, Len(w) + 1, Len(s)) \in Seq(S)
<1> DEFINE a == Len(w)
           L == Len(s)
           r == SubSeq(s, a + 1, L)
<1>1. a \in Nat /\ L \in Nat /\ a <= L /\ a + 1 \in Nat /\ 1 <= a + 1 /\ a + 1 <= L + 1 /\ L <= Len(s)
  OBVIOUS
<1>2. r \in Seq(S) /\ Len(r) = L + 1 - (a + 1) /\ \A j \in 1 .. L + 1 - (a + 1) : r[j] = s[a + 1 + j - 1]
  BY <1>1, Part
<1> HIDE DEF r, a, L
<1>3. L + 1 - (a + 1) = L - a /\ \A j \in 1 .. L - a : a + 1 + j - 1 = a + j
  BY <1>1
<1>4. Len(r) = L - a /\ \A j \in 1 .. L - a : r[j] = s[a + j]
  BY <1>2, <1>3
<1> DEFINE t == w \o r
<1>5. t \in Seq(S) /\ Len(t) = a + (L - a) /\ (\A j \in 1 .. a : t[j] = w[j]) /\ \A j \in 1 .. L - a : t[a + j] = r[j]
  <2>1. /\ t \in Seq(S) /\ Len(t) = Len(w) + Len(r)
        /\ \A j \in 1 .. Len(w) : t[j] = w[j]
        /\ \A j \in 1 .. Len(r) : t[Len(w) + j] = r[j]
    <3> SUFFICES ASSUME NEW x, x \in Seq(S)
        PROVE  /\ w \o x \in Seq(S) /\ Len(w \o x) = Len(w) + Len(x)
               /\ \A j \in 1 .. Len(w) : (w \o x)[j] = w[j]
               /\ \A j \in 1 .. Len(x) : (w \o x)[Len(w) + j] = x[j]
      BY <1>2
    <3> QED  BY Joined
  <2> HIDE DEF t
  <2> QED  BY <1>4, <2>1 DEF a
<1> HIDE DEF t
<1>6. Len(t) = L
  BY <1>1, <1>5
<1>7. ASSUME NEW j \in 1 .. L PROVE s[j] = t[j]
  <2>1. CASE j \in 1 .. a
    BY <1>5, <2>1 DEF a
  <2>2. CASE j \notin 1 .. a
    <3>1. j - a \in 1 .. L - a /\ a + (j - a) = j
      BY <1>1, <2>2
    <3> QED  BY <1>4, <1>5, <3>1
  <2> QED  BY <2>1, <2>2
<1>8. s = t
  BY <1>5, <1>6, <1>7, SameElements DEF L
<1> QED  BY <1>2, <1>8 DEF t, r, a, L

LEMMA ClampFacts ==
  ASSUME NEW S, NEW d \in Seq(S)
  PROVE  /\ Clamp(d) \in Seq(S) /\ Len(Clamp(d)) \in Nat /\ Len(Clamp(d)) <= MaxPayload
         /\ Len(d) <= MaxPayload => Clamp(d) = d
<1> DEFINE m == IF Len(d) > MaxPayload THEN MaxPayload ELSE Len(d)
<1>1. MaxPayload \in Nat /\ Len(d) \in Nat
  BY PktAssumption
<1>2. m \in Nat /\ m <= MaxPayload /\ m <= Len(d) /\ (Len(d) <= MaxPayload => m = Len(d))
  BY <1>1
<1>3. Clamp(d) = SubSeq(d, 1, m)
  BY DEF Clamp
<1> HIDE DEF m
<1>4. /\ SubSeq(d, 1, m) \in Seq(S) /\ Len(SubSeq(d, 1, m)) = m + 1 - 1
      /\ \A j \in 1 .. m + 1 - 1 : SubSeq(d, 1, m)[j] = d[1 + j - 1]
  <2>1. 1 \in Nat /\ 1 <= 1 /\ 1 <= m + 1
    BY <1>2
  <2> QED  BY <1>2, <2>1, Part
<1> DEFINE t == SubSeq(d, 1, m)
<1> HIDE DEF t
<1>5. t \in Seq(S) /\ Len(t) = m /\ \A j \in 1 .. m : t[j] = d[j]
  <2>1. m + 1 - 1 = m /\ \A j \in 1 .. m : 1 + j - 1 = j
    BY <1>2
  <2> QED  BY <1>4, <2>1 DEF t
<1>6. Len(d) <= MaxPayload => t = d
  BY <1>2, <1>5, SameElements
<1> QED  BY <1>2, <1>3, <1>5, <1>6 DEF t

\* What a frame looks like on the wire: its length and what it holds.
Size(f) == IF f.kind = "data" THEN Len(Clamp(f.data)) + 4 ELSE SentinelLength[f.kind]
Held(f) == IF f.kind = "data" THEN Clamp(f.data) ELSE << >>

LEMMA WireFacts ==
  ASSUME NEW f, IsFrame(f)
  PROVE  /\ WriteFrame(f) = Hex4(Size(f)) \o Held(f)
         /\ Size(f) \in Nat /\ Size(f) <= 65535 /\ Size(f) <= MaxPayload + 4
         /\ Held(f) \in Seq(Byte) /\ Hex4(Size(f)) \in Seq(Byte) /\ Len(Hex4(Size(f))) = 4
         /\ f.kind = "data" => Size(f) >= 4 /\ Len(Held(f)) = Size(f) - 4
         /\ f.kind # "data" => Len(Held(f)) = 0 /\ Size(f) \in {0, 1, 2}
<1>1. MaxPayload \in Nat /\ MaxPayload <= 65531
  BY PktAssumption
<1>2. \A n \in Nat : n <= 65535 => Hex4(n) \in Seq(Byte) /\ Len(Hex4(n)) = 4
  <2> SUFFICES ASSUME NEW n \in Nat, n <= 65535 PROVE Hex4(n) \in Seq(Byte) /\ Len(Hex4(n)) = 4
    OBVIOUS
  <2>1. Hex4(n) \in Seq(0 .. 15) /\ Len(Hex4(n)) = 4
    BY HexDigits
  <2>2. 0 .. 15 \subseteq Byte
    BY DEF Byte, Other
  <2> DEFINE A == 0 .. 15
             B == Byte
             h == Hex4(n)
  <2> HIDE DEF A, B, h
  <2>3. h \in Seq(A) /\ A \subseteq B /\ Len(h) = 4
    BY <2>1, <2>2 DEF A, B, h
  <2>4. h \in Seq(B)
    BY <2>3
  <2> QED  BY <2>3, <2>4 DEF B, h
<1>3. CASE f.kind = "data"
  <2>1. f.data \in Seq(Byte)
    BY <1>3 DEF IsFrame
  <2> DEFINE d == f.data
  <2> HIDE DEF d
  <2>2. Clamp(d) \in Seq(Byte) /\ Len(Clamp(d)) \in Nat /\ Len(Clamp(d)) <= MaxPayload
    BY <2>1, ClampFacts DEF d
  <2> DEFINE x == Len(Clamp(d))
  <2>3. Size(f) = x + 4 /\ Held(f) = Clamp(d) /\ WriteFrame(f) = Hex4(x + 4) \o Clamp(d)
    BY <1>3 DEF Size, Held, WriteFrame, WriteData, d
  <2>4. x \in Nat /\ x <= MaxPayload
    BY <2>2
  <2> HIDE DEF x
  <2>5. x + 4 \in Nat /\ x + 4 <= 65535 /\ x + 4 <= MaxPayload + 4 /\ x + 4 >= 4 /\ x + 4 - 4 = x
    BY <1>1, <2>4
  <2>6. Hex4(x + 4) \in Seq(Byte) /\ Len(Hex4(x + 4)) = 4
    BY <1>2, <2>5
  <2>7. Len(Held(f)) = x
    BY <2>3 DEF x
  <2> QED  BY <1>3, <2>2, <2>3, <2>5, <2>6, <2>7
<1>4. CASE f.kind # "data"
  <2>1. SentinelLength[f.kind] \in {0, 1, 2}
    BY <1>4 DEF IsFrame, SentinelLength
  <2> DEFINE x == SentinelLength[f.kind]
  <2>2. Size(f) = x /\ Held(f) = << >> /\ WriteFrame(f) = Hex4(x)
    BY <1>4 DEF Size, Held, WriteFrame
  <2> HIDE DEF x
  <2>3. x \in {0, 1, 2} /\ x \in Nat /\ x <= 65535 /\ x <= MaxPayload + 4
    BY <1>1, <2>1 DEF x
  <2>4. Hex4(x) \in Seq(Byte) /\ Len(Hex4(x)) = 4
    BY <1>2, <2>3
  <2>5. Hex4(x) \o << >> = Hex4(x)
    BY <2>4
  <2> QED  BY <1>4, <2>2, <2>3, <2>4, <2>5
<1> QED  BY <1>3, <1>4

\* What follows the same beginning is the same.
LEMMA Cancel ==
  ASSUME NEW S, NEW w \in Seq(S), NEW x \in Seq(S), NEW y \in Seq(S),
         Len(x) <= Len(y), \A j \in 1 .. Len(w) + Len(x) : (w \o x)[j] = (w \o y)[j]
  PROVE  \A j \in 1 .. Len(x) : x[j] = y[j]
<1> SUFFICES ASSUME NEW j \in 1 .. Len(x) PROVE x[j] = y[j]
  OBVIOUS
<1>1. (w \o x)[Len(w) + j] = x[j] /\ Len(x) \in Nat /\ Len(y) \in Nat /\ Len(w) \in Nat
  BY Joined
<1>2. j \in 1 .. Len(y)
  BY <1>1
<1>3. (w \o y)[Len(w) + j] = y[j]
  BY <1>2, Joined
<1>4. Len(w) + j \in 1 .. Len(w) + Len(x)
  BY <1>1
<1> QED  BY <1>1, <1>3, <1>4

LEMMA Regroup ==
  ASSUME NEW S, NEW s \in Seq(S), NEW t \in Seq(S), NEW u \in Seq(S)
  PROVE  s \o (t \o u) = (s \o t) \o u
OBVIOUS

\* A prefix is where the longer one begins.
LEMMA PrefixFacts ==
  ASSUME NEW S, NEW s \in Seq(S), NEW t \in Seq(S)
  PROVE  IsPrefix(s, t) <=> Len(s) <= Len(t) /\ \A j \in 1 .. Len(s) : s[j] = t[j]
<1>1. Len(s) \in Nat /\ Len(t) \in Nat /\ 1 \in Nat /\ 1 <= 1 /\ 1 <= Len(s) + 1 /\ Len(s) <= Len(s)
  OBVIOUS
<1> DEFINE a == SubSeq(s, 1, Len(s))
           b == SubSeq(t, 1, Len(s))
<1>2. a = s
  OBVIOUS
<1>3. ASSUME Len(s) <= Len(t)
      PROVE  b \in Seq(S) /\ Len(b) = Len(s) /\ \A j \in 1 .. Len(s) : b[j] = t[j]
  <2>1. /\ b \in Seq(S) /\ Len(b) = Len(s) + 1 - 1
        /\ \A j \in 1 .. Len(s) + 1 - 1 : b[j] = t[1 + j - 1]
    BY <1>1, <1>3, Part
  <2> HIDE DEF b
  <2>2. Len(s) + 1 - 1 = Len(s) /\ \A j \in 1 .. Len(s) : 1 + j - 1 = j
    BY <1>1
  <2> QED  BY <2>1, <2>2
<1>4. IsPrefix(s, t) <=> Len(s) <= Len(t) /\ a = b
  BY DEF IsPrefix
<1> HIDE DEF a, b
<1>5. ASSUME Len(s) <= Len(t), \A j \in 1 .. Len(s) : s[j] = t[j] PROVE s = b
  BY <1>3, <1>5, SameElements
<1> QED  BY <1>2, <1>3, <1>4, <1>5

-----------------------------------------------------------------------------
(* Reading one frame.                                                      *)

Unsigned(s) == \A j \in DOMAIN s : s[j] # Plus

\* The first four bytes, and the number they are read as.
LEMMA Digits ==
  ASSUME NEW buf \in Seq(Byte), Len(buf) >= 4, buf[1] # Plus, NEW p, p = SubSeq(buf, 1, 4)
  PROVE  /\ p \in Seq(Byte) /\ Len(p) = 4 /\ \A j \in 1 .. 4 : p[j] = buf[j]
         /\ (IsHex(p) => FromStrRadix(p) = FourDigits(p))
         /\ (~IsHex(p) => FromStrRadix(p) = -1)
<1>1. Len(buf) \in Nat /\ 1 \in Nat /\ 4 \in Nat /\ 1 <= 1 /\ 1 <= 4 + 1 /\ 4 <= Len(buf)
  OBVIOUS
<1>2. p \in Seq(Byte) /\ Len(p) = 4 + 1 - 1 /\ \A j \in 1 .. 4 + 1 - 1 : p[j] = buf[1 + j - 1]
  BY <1>1, Part
<1>3. 4 + 1 - 1 = 4 /\ \A j \in 1 .. 4 : 1 + j - 1 = j
  OBVIOUS
<1>4. p \in Seq(Byte) /\ Len(p) = 4 /\ \A j \in 1 .. 4 : p[j] = buf[j]
  BY <1>2, <1>3
<1>5. 1 \in 1 .. 4
  OBVIOUS
<1>6. p[1] # Plus
  BY <1>4, <1>5
<1> QED  BY <1>4, <1>6, RadixReads

\* Four hex digits are those of the number they are read as.
LEMMA DigitsBack ==
  ASSUME NEW p \in Seq(Byte), Len(p) = 4, IsHex(p)
  PROVE  \E n \in Nat : n = FourDigits(p) /\ Hex4(n) = p
<1>1. p = [j \in 1 .. Len(p) |-> p[j]]
  OBVIOUS
<1>2. 1 \in 1 .. 4 /\ 2 \in 1 .. 4 /\ 3 \in 1 .. 4 /\ 4 \in 1 .. 4 /\ DOMAIN p = 1 .. 4
  BY <1>1
<1>3. \A j \in DOMAIN p : p[j] \in 0 .. 15
  BY DEF IsHex, Range
<1>4. p[1] \in 0 .. 15 /\ p[2] \in 0 .. 15 /\ p[3] \in 0 .. 15 /\ p[4] \in 0 .. 15
  BY <1>2, <1>3
<1>5. p = <<p[1], p[2], p[3], p[4]>>
  <2> DEFINE a == p[1]
             b == p[2]
             c == p[3]
             d == p[4]
             t == <<a, b, c, d>>
  <2>1. a \in Byte /\ b \in Byte /\ c \in Byte /\ d \in Byte
    BY FourElements
  <2> HIDE DEF a, b, c, d
  <2>2. t \in Seq(Byte) /\ Len(t) = 4 /\ t[1] = a /\ t[2] = b /\ t[3] = c /\ t[4] = d
    BY <2>1
  <2> HIDE DEF t
  <2>3. \A j \in 1 .. 4 : j = 1 \/ j = 2 \/ j = 3 \/ j = 4
    OBVIOUS
  <2>4. \A j \in 1 .. Len(p) : p[j] = t[j]
    BY <2>2, <2>3 DEF a, b, c, d
  <2>5. p = t
    BY <2>2, <2>4, SameElements
  <2> QED  BY <2>5 DEF t, a, b, c, d
<1>6. FourDigits(p) \in Nat /\ Hex4(FourDigits(p)) = <<p[1], p[2], p[3], p[4]>>
  <2> DEFINE a == p[1]
             b == p[2]
             c == p[3]
             d == p[4]
             n == FourDigits(p)
  <2>1. n = 4096 * a + 256 * b + 16 * c + d
    BY DEF FourDigits
  <2>2. a \in 0 .. 15 /\ b \in 0 .. 15 /\ c \in 0 .. 15 /\ d \in 0 .. 15
    BY <1>4
  <2> HIDE DEF a, b, c, d, n
  <2>3. /\ a \in Int /\ b \in Int /\ c \in Int /\ d \in Int
        /\ 0 <= a /\ a <= 15 /\ 0 <= b /\ b <= 15 /\ 0 <= c /\ c <= 15 /\ 0 <= d /\ d <= 15
    BY <2>2
  <2>4. n \in Int /\ 0 <= n /\ n <= 65535
    BY <2>1, <2>3
  <2>5. n \div 4096 = a /\ n \div 256 = 16 * a + b /\ n \div 16 = 256 * a + 16 * b + c /\ n % 16 = d
    BY <2>1, <2>3
  <2>6. (16 * a + b) % 16 = b /\ (256 * a + 16 * b + c) % 16 = c
    BY <2>3
  <2>7. Hex4(n) = <<a, b, c, d>> /\ n \in Nat
    BY <2>4, <2>5, <2>6 DEF Hex4
  <2> QED  BY <2>7 DEF a, b, c, d, n
<1> QED  BY <1>5, <1>6

\* What the iterator reads, by the number of the first four bytes.
LEMMA ReadCases ==
  ASSUME NEW buf \in Seq(Byte), Len(buf) >= 4, NEW n \in Int, n = FromStrRadix(SubSeq(buf, 1, 4))
  PROVE  /\ n = 0 => PktRead(buf) = Took(Sentinel("flush"), SubSeq(buf, 5, Len(buf)))
         /\ n = 1 => PktRead(buf) = Took(Sentinel("delim"), SubSeq(buf, 5, Len(buf)))
         /\ n = 2 => PktRead(buf) = Took(Sentinel("resp_end"), SubSeq(buf, 5, Len(buf)))
         /\ n = -1 \/ n = 3 => PktRead(buf) = Failed("bad_length")
         /\ n > MaxPayload + 4 => ~PktRead(buf).ok
         /\ n >= 4 /\ n <= MaxPayload + 4 =>
              IF Len(buf) < n THEN PktRead(buf) = Failed("short_payload")
              ELSE PktRead(buf) = Took(Data(SubSeq(buf, 5, n)), SubSeq(buf, n + 1, Len(buf)))
<1>1. MaxPayload \in Nat /\ Len(buf) \in Nat /\ ~(Len(buf) < 4)
  BY PktAssumption
<1> DEFINE a == SubSeq(buf, 5, Len(buf))
           d == SubSeq(buf, 5, n)
           r == SubSeq(buf, n + 1, Len(buf))
           L == Len(buf)
           sh == n \in 4..MaxPayload + 4 /\ L < n
<1>2. PktRead(buf) =
        CASE n = 0 -> Took(Sentinel("flush"), a)
          [] n = 1 -> Took(Sentinel("delim"), a)
          [] n = 2 -> Took(Sentinel("resp_end"), a)
          [] n = -1 \/ n = 3 -> Failed("bad_length")
          [] n > MaxPayload + 4 -> Failed("oversized")
          [] sh -> Failed("short_payload")
          [] OTHER -> Took(Data(d), r)
  BY <1>1 DEF PktRead
<1>3. sh <=> (n >= 4 /\ n <= MaxPayload + 4 /\ L < n)
  BY <1>1
<1>4. n >= 4 /\ n <= MaxPayload + 4 => n # 0 /\ n # 1 /\ n # 2 /\ n # 3 /\ n # -1 /\ ~(n > MaxPayload + 4)
  BY <1>1
<1>5. n > MaxPayload + 4 => n # 0 /\ n # 1 /\ n # 2 /\ n # 3 /\ n # -1 /\ ~sh
  BY <1>1
<1>6. ~Failed("oversized").ok
  BY DEF Failed
<1>7. -1 # 0 /\ -1 # 1 /\ -1 # 2
  OBVIOUS
<1> HIDE DEF sh, a, d, r, L
<1>8. /\ n = 0 => PktRead(buf) = Took(Sentinel("flush"), a)
      /\ n = 1 => PktRead(buf) = Took(Sentinel("delim"), a)
      /\ n = 2 => PktRead(buf) = Took(Sentinel("resp_end"), a)
      /\ n = -1 \/ n = 3 => PktRead(buf) = Failed("bad_length")
  <2>1. 0 \notin 4 .. MaxPayload + 4 /\ ~(0 > MaxPayload + 4) /\ ~(1 > MaxPayload + 4) /\ ~(2 > MaxPayload + 4)
        /\ ~(3 > MaxPayload + 4) /\ ~(-1 > MaxPayload + 4)
    BY <1>1
  <2>2. sh => n # 0 /\ n # 1 /\ n # 2 /\ n # 3 /\ n # -1
    BY <1>3, <1>4
  <2> QED  BY <1>2, <1>7, <2>1, <2>2
<1>9. n > MaxPayload + 4 => PktRead(buf) = Failed("oversized")
  BY <1>2, <1>5
<1>10. n >= 4 /\ n <= MaxPayload + 4 /\ sh => PktRead(buf) = Failed("short_payload")
  BY <1>2, <1>4
<1>11. n >= 4 /\ n <= MaxPayload + 4 /\ ~sh => PktRead(buf) = Took(Data(d), r)
  BY <1>2, <1>4
<1>12. n >= 4 /\ n <= MaxPayload + 4 =>
              IF L < n THEN PktRead(buf) = Failed("short_payload")
              ELSE PktRead(buf) = Took(Data(d), r)
  BY <1>3, <1>10, <1>11
<1> QED  BY <1>6, <1>8, <1>9, <1>12 DEF a, d, r, L

\* A frame is taken only if writing it gives what was consumed.
LEMMA ReadConsumes ==
  ASSUME NEW buf \in Seq(Byte), Unsigned(buf), PktRead(buf).ok
  PROVE  LET r == PktRead(buf)
         IN  IsFrame(r.line) /\ r.rest \in Seq(Byte) /\ buf = WriteFrame(r.line) \o r.rest
<1> DEFINE p == SubSeq(buf, 1, 4)
           after == SubSeq(buf, 5, Len(buf))
<1>1. Len(buf) \in Nat /\ MaxPayload \in Nat
  BY PktAssumption
<1>2. Len(buf) >= 4
  <2>1. CASE Len(buf) < 4
    BY <2>1 DEF PktRead, Failed
  <2> QED  BY <1>1, <2>1
<1>3. buf[1] # Plus
  <2>1. 1 \in DOMAIN buf
    BY <1>1, <1>2
  <2> QED  BY <2>1 DEF Unsigned
<1>4. /\ p \in Seq(Byte) /\ Len(p) = 4 /\ \A j \in 1 .. 4 : p[j] = buf[j]
      /\ (IsHex(p) => FromStrRadix(p) = FourDigits(p))
      /\ (~IsHex(p) => FromStrRadix(p) = -1)
  BY <1>2, <1>3, Digits
<1>5. buf = p \o after /\ after \in Seq(Byte)
  <2> HIDE DEF p
  <2>1. Len(p) <= Len(buf) /\ \A j \in 1 .. Len(p) : buf[j] = p[j]
    BY <1>2, <1>4
  <2>2. buf = p \o SubSeq(buf, Len(p) + 1, Len(buf)) /\ SubSeq(buf, Len(p) + 1, Len(buf)) \in Seq(Byte)
    BY <1>4, <2>1, Split
  <2>3. Len(p) + 1 = 5
    BY <1>4
  <2> QED  BY <2>2, <2>3
<1>6. IsHex(p)
  <2>1. CASE ~IsHex(p)
    <3>1. FromStrRadix(p) = -1 /\ -1 \in Int
      BY <1>4, <2>1
    <3>2. PktRead(buf) = Failed("bad_length")
      BY <1>2, <3>1, ReadCases
    <3> QED  BY <3>2 DEF Failed
  <2> QED  BY <2>1
<1>7. PICK n \in Nat : n = FourDigits(p) /\ Hex4(n) = p
  <2> HIDE DEF p
  <2> QED  BY <1>4, <1>6, DigitsBack
<1>8. n = FromStrRadix(p) /\ n \in Int
  BY <1>4, <1>6, <1>7
<1>9. /\ n = 0 => PktRead(buf) = Took(Sentinel("flush"), after)
      /\ n = 1 => PktRead(buf) = Took(Sentinel("delim"), after)
      /\ n = 2 => PktRead(buf) = Took(Sentinel("resp_end"), after)
      /\ n = -1 \/ n = 3 => PktRead(buf) = Failed("bad_length")
      /\ n > MaxPayload + 4 => ~PktRead(buf).ok
      /\ n >= 4 /\ n <= MaxPayload + 4 =>
           IF Len(buf) < n THEN PktRead(buf) = Failed("short_payload")
           ELSE PktRead(buf) = Took(Data(SubSeq(buf, 5, n)), SubSeq(buf, n + 1, Len(buf)))
  BY <1>2, <1>8, ReadCases
<1>10. ~Failed("bad_length").ok /\ ~Failed("short_payload").ok
  BY DEF Failed
<1>11. n = 0 \/ n = 1 \/ n = 2 \/ (n >= 4 /\ n <= MaxPayload + 4 /\ ~(Len(buf) < n))
  <2>1. n = 0 \/ n = 1 \/ n = 2 \/ n = 3 \/ n > MaxPayload + 4 \/ (n >= 4 /\ n <= MaxPayload + 4)
    BY <1>1
  <2> QED  BY <1>9, <1>10, <2>1
<1> HIDE DEF p, after
<1>12. ASSUME NEW k \in {"flush", "delim", "resp_end"}, SentinelLength[k] = n, PktRead(buf) = Took(Sentinel(k), after)
       PROVE  LET r == PktRead(buf)
              IN  IsFrame(r.line) /\ r.rest \in Seq(Byte) /\ buf = WriteFrame(r.line) \o r.rest
  <2>1. PktRead(buf).line = Sentinel(k) /\ PktRead(buf).rest = after
    BY <1>12 DEF Took
  <2>2. Sentinel(k).kind = k /\ k # "data" /\ k \in DOMAIN SentinelLength
    BY DEF Sentinel, SentinelLength
  <2>3. IsFrame(Sentinel(k)) /\ WriteFrame(Sentinel(k)) = p
    BY <1>7, <1>12, <2>2 DEF IsFrame, WriteFrame
  <2> QED  BY <1>5, <2>1, <2>3
<1>13. SentinelLength["flush"] = 0 /\ SentinelLength["delim"] = 1 /\ SentinelLength["resp_end"] = 2
  BY DEF SentinelLength
<1>14. CASE n = 0
  BY <1>9, <1>12, <1>13, <1>14
<1>15. CASE n = 1
  BY <1>9, <1>12, <1>13, <1>15
<1>16. CASE n = 2
  BY <1>9, <1>12, <1>13, <1>16
<1>17. CASE n >= 4 /\ n <= MaxPayload + 4 /\ ~(Len(buf) < n)
  <2> DEFINE d == SubSeq(buf, 5, n)
             rest == SubSeq(buf, n + 1, Len(buf))
             w == p \o d
  <2>1. PktRead(buf).line = Data(d) /\ PktRead(buf).rest = rest
    BY <1>9, <1>17 DEF Took
  <2>2. 5 \in Nat /\ 1 <= 5 /\ 5 <= n + 1 /\ n <= Len(buf)
    BY <1>1, <1>17
  <2>3. /\ d \in Seq(Byte) /\ Len(d) = n + 1 - 5
        /\ \A j \in 1 .. n + 1 - 5 : d[j] = buf[5 + j - 1]
    BY <2>2, Part
  <2> HIDE DEF d, w
  <2>4. n + 1 - 5 = n - 4 /\ (\A j \in 1 .. n - 4 : 5 + j - 1 = 4 + j) /\ 4 + (n - 4) = n /\ n - 4 <= MaxPayload /\ n - 4 + 4 = n
    BY <1>1, <1>17
  <2>5. Len(d) = n - 4 /\ \A j \in 1 .. n - 4 : d[j] = buf[4 + j]
    BY <2>3, <2>4
  <2>6. /\ w \in Seq(Byte) /\ Len(w) = n
        /\ \A j \in 1 .. 4 : w[j] = p[j]
        /\ \A j \in 1 .. n - 4 : w[4 + j] = d[j]
    <3>1. /\ w \in Seq(Byte) /\ Len(w) = Len(p) + Len(d)
          /\ \A j \in 1 .. Len(p) : w[j] = p[j]
          /\ \A j \in 1 .. Len(d) : w[Len(p) + j] = d[j]
      <4>1. p \in Seq(Byte) /\ d \in Seq(Byte)
        BY <1>4, <2>3
      <4>2. /\ p \o d \in Seq(Byte) /\ Len(p \o d) = Len(p) + Len(d)
            /\ \A j \in 1 .. Len(p) : (p \o d)[j] = p[j]
            /\ \A j \in 1 .. Len(d) : (p \o d)[Len(p) + j] = d[j]
        BY <4>1, Joined
      <4> QED  BY <4>2 DEF w
    <3> QED  BY <1>4, <2>4, <2>5, <3>1
  <2>7. ASSUME NEW j \in 1 .. Len(w) PROVE buf[j] = w[j]
    <3>1. CASE j \in 1 .. 4
      BY <1>4, <2>6, <3>1
    <3>2. CASE j \notin 1 .. 4
      <4>1. j - 4 \in 1 .. n - 4 /\ 4 + (j - 4) = j
        BY <2>6, <3>2
      <4> QED  BY <2>5, <2>6, <4>1
    <3> QED  BY <3>1, <3>2
  <2>8. buf = w \o rest /\ rest \in Seq(Byte)
    <3>1. Len(w) <= Len(buf)
      BY <2>2, <2>6
    <3>2. buf = w \o SubSeq(buf, Len(w) + 1, Len(buf)) /\ SubSeq(buf, Len(w) + 1, Len(buf)) \in Seq(Byte)
      BY <2>6, <2>7, <3>1, Split
    <3> QED  BY <2>6, <3>2
  <2> HIDE DEF rest
  <2>9. Clamp(d) = d
    BY <2>3, <2>4, <2>5, ClampFacts
  <2>10. Data(d).kind = "data" /\ Data(d).data = d
    BY DEF Data
  <2>11. IsFrame(Data(d))
    BY <2>3, <2>10 DEF IsFrame
  <2>12. WriteFrame(Data(d)) = w
    <3>1. Len(Clamp(d)) + 4 = n
      BY <2>4, <2>5, <2>9
    <3>2. WriteFrame(Data(d)) = Hex4(Len(Clamp(d)) + 4) \o Clamp(d)
      BY <2>10 DEF WriteFrame, WriteData
    <3> QED  BY <1>7, <2>9, <3>1, <3>2 DEF w
  <2> QED  BY <2>1, <2>8, <2>11, <2>12
<1> QED  BY <1>11, <1>14, <1>15, <1>16, <1>17

\* The digits of a number are read as that number.
LEMMA HexRead ==
  ASSUME NEW n \in Nat, n <= 65535
  PROVE  Hex4(n) \in Seq(Byte) /\ Len(Hex4(n)) = 4 /\ Hex4(n)[1] # Plus /\ FromStrRadix(Hex4(n)) = n
<1> DEFINE A == 0 .. 15
           h == Hex4(n)
<1>1. h \in Seq(A) /\ Len(h) = 4 /\ n = FourDigits(h)
  BY HexDigits DEF FourDigits
<1>2. A \subseteq Byte
  BY DEF Byte, Other
<1>3. Plus \notin A
  BY DEF Plus
<1> HIDE DEF h
<1>4. IsHex(h)
  <2>1. \A j \in DOMAIN h : h[j] \in 0 .. 15
    <3> HIDE DEF A
    <3>1. ASSUME NEW s \in Seq(A) PROVE \A j \in DOMAIN s : s[j] \in A
      OBVIOUS
    <3>2. h \in Seq(A)
      BY <1>1
    <3> QED  BY <3>1, <3>2 DEF A
  <2> QED  BY <2>1 DEF IsHex, Range
<1> HIDE DEF A
<1>5. h \in Seq(Byte)
  BY <1>1, <1>2
<1>6. h[1] \in A
  BY <1>1, FourElements
<1>7. h[1] # Plus
  BY <1>3, <1>6
<1>8. FromStrRadix(h) = n
  BY <1>1, <1>4, <1>5, <1>7, RadixReads
<1> QED  BY <1>1, <1>5, <1>7, <1>8 DEF h

\* The length of a frame is read back from its first four bytes.
LEMMA HeadRead ==
  ASSUME NEW f, IsFrame(f), NEW buf \in Seq(Byte), Len(buf) >= 4,
         \A j \in 1 .. 4 : buf[j] = Hex4(Size(f))[j]
  PROVE  FromStrRadix(SubSeq(buf, 1, 4)) = Size(f)
<1> DEFINE h == Hex4(Size(f))
           p == SubSeq(buf, 1, 4)
<1>1. h \in Seq(Byte) /\ Len(h) = 4 /\ h[1] # Plus /\ FromStrRadix(h) = Size(f)
  BY WireFacts, HexRead
<1>2. 1 \in 1 .. 4
  OBVIOUS
<1> HIDE DEF h
<1>3. buf[1] # Plus /\ \A j \in 1 .. 4 : buf[j] = h[j]
  BY <1>1, <1>2 DEF h
<1>4. p \in Seq(Byte) /\ Len(p) = 4 /\ \A j \in 1 .. 4 : p[j] = buf[j]
  BY <1>3, Digits
<1> HIDE DEF p
<1>5. p = h
  BY <1>1, <1>3, <1>4, SameElements
<1> QED  BY <1>1, <1>5 DEF p

\* What follows a beginning, and what lies between.
LEMMA Drop ==
  ASSUME NEW S, NEW w \in Seq(S), NEW x \in Seq(S)
  PROVE  SubSeq(w \o x, Len(w) + 1, Len(w \o x)) = x
<1> DEFINE s == w \o x
           a == Len(w)
           r == SubSeq(s, a + 1, Len(s))
<1>1. /\ s \in Seq(S) /\ Len(w) \in Nat /\ Len(x) \in Nat /\ Len(s) = Len(w) + Len(x)
      /\ \A j \in 1 .. Len(x) : s[Len(w) + j] = x[j]
  BY Joined
<1> HIDE DEF s
<1>2. a + 1 \in Nat /\ Len(s) \in Nat /\ 1 <= a + 1 /\ a + 1 <= Len(s) + 1 /\ Len(s) <= Len(s)
  BY <1>1
<1>3. r \in Seq(S) /\ Len(r) = Len(s) + 1 - (a + 1) /\ \A j \in 1 .. Len(s) + 1 - (a + 1) : r[j] = s[a + 1 + j - 1]
  BY <1>1, <1>2, Part
<1>4. Len(s) + 1 - (a + 1) = Len(x) /\ \A j \in 1 .. Len(x) : a + 1 + j - 1 = a + j
  BY <1>1
<1> HIDE DEF r
<1>5. Len(r) = Len(x) /\ \A j \in 1 .. Len(x) : r[j] = x[j]
  BY <1>1, <1>3, <1>4
<1>6. r = x
  BY <1>3, <1>5, SameElements
<1> QED  BY <1>6 DEF r, s, a

LEMMA Inside ==
  ASSUME NEW S, NEW h \in Seq(S), NEW d \in Seq(S), NEW x \in Seq(S), NEW s, s = (h \o d) \o x,
         NEW b, b = Len(h) + Len(d)
  PROVE  SubSeq(s, Len(h) + 1, b) = d
<1> DEFINE a == Len(h)
           r == SubSeq(s, a + 1, b)
<1>1. /\ h \o d \in Seq(S) /\ Len(h) \in Nat /\ Len(d) \in Nat /\ Len(h \o d) = Len(h) + Len(d)
      /\ \A j \in 1 .. Len(d) : (h \o d)[Len(h) + j] = d[j]
  BY Joined
<1> DEFINE w == h \o d
<1> HIDE DEF w
<1>2. /\ s \in Seq(S) /\ Len(s) = Len(w) + Len(x) /\ Len(w) \in Nat /\ Len(x) \in Nat
      /\ \A j \in 1 .. Len(w) : s[j] = w[j]
  <2>1. w \in Seq(S) /\ s = w \o x
    BY <1>1 DEF w
  <2> QED  BY <2>1, Joined
<1>3. Len(w) = b /\ b \in Nat /\ b = a + Len(d) /\ a \in Nat /\ \A j \in 1 .. Len(d) : w[a + j] = d[j]
  BY <1>1 DEF w
<1> HIDE DEF a
<1>4. a + 1 \in Nat /\ 1 <= a + 1 /\ a + 1 <= b + 1 /\ b <= Len(s)
  BY <1>1, <1>2, <1>3
<1>5. r \in Seq(S) /\ Len(r) = b + 1 - (a + 1) /\ \A j \in 1 .. b + 1 - (a + 1) : r[j] = s[a + 1 + j - 1]
  BY <1>2, <1>3, <1>4, Part
<1>6. b + 1 - (a + 1) = Len(d) /\ \A j \in 1 .. Len(d) : a + 1 + j - 1 = a + j /\ a + j \in 1 .. b
  BY <1>1, <1>3
<1> HIDE DEF r
<1>7. Len(r) = Len(d) /\ \A j \in 1 .. Len(d) : r[j] = d[j]
  BY <1>2, <1>3, <1>5, <1>6
<1>8. r = d
  BY <1>5, <1>7, SameElements
<1> QED  BY <1>8 DEF r, a

\* The frame as the reader has it.
Line(f) == IF f.kind = "data" THEN Data(Clamp(f.data)) ELSE f

\* A frame that has arrived whole is taken.
LEMMA ReadWhole ==
  ASSUME NEW f, IsFrame(f), NEW rest \in Seq(Byte), NEW buf, buf = WriteFrame(f) \o rest
  PROVE  PktRead(buf) = Took(Line(f), rest)
<1> DEFINE n == Size(f)
           h == Hex4(n)
           d == Held(f)
           w == WriteFrame(f)
<1>1. /\ w = h \o d /\ n \in Nat /\ n <= MaxPayload + 4
      /\ d \in Seq(Byte) /\ h \in Seq(Byte) /\ Len(h) = 4
      /\ f.kind = "data" => n >= 4 /\ Len(d) = n - 4 /\ d = Clamp(f.data)
      /\ f.kind # "data" => Len(d) = 0 /\ d = << >> /\ n = SentinelLength[f.kind]
  <2>1. /\ f.kind = "data" => d = Clamp(f.data)
        /\ f.kind # "data" => d = << >> /\ n = SentinelLength[f.kind]
    BY DEF Held, Size
  <2> HIDE DEF n, h, d, w
  <2>2. /\ w = h \o d /\ n \in Nat /\ n <= MaxPayload + 4
        /\ d \in Seq(Byte) /\ h \in Seq(Byte) /\ Len(h) = 4
        /\ f.kind = "data" => n >= 4 /\ Len(d) = n - 4
        /\ f.kind # "data" => Len(d) = 0
    BY WireFacts DEF n, h, d, w
  <2> QED  BY <2>1, <2>2
<1>2. buf = w \o rest
  OBVIOUS
<1> HIDE DEF n, h, d, w
<1>3. /\ w \in Seq(Byte) /\ Len(w) = 4 + Len(d) /\ Len(d) \in Nat
      /\ \A j \in 1 .. 4 : w[j] = h[j]
  <2>1. /\ h \o d \in Seq(Byte) /\ Len(h \o d) = Len(h) + Len(d) /\ Len(d) \in Nat
        /\ \A j \in 1 .. Len(h) : (h \o d)[j] = h[j]
    <3>1. h \in Seq(Byte) /\ d \in Seq(Byte)
      BY <1>1
    <3> QED  BY <3>1, Joined
  <2> QED  BY <1>1, <2>1
<1>4. /\ buf \in Seq(Byte) /\ Len(buf) = Len(w) + Len(rest) /\ Len(rest) \in Nat
      /\ \A j \in 1 .. Len(w) : buf[j] = w[j]
  <2>1. w \in Seq(Byte)
    BY <1>3
  <2>2. /\ w \o rest \in Seq(Byte) /\ Len(w \o rest) = Len(w) + Len(rest) /\ Len(rest) \in Nat
        /\ \A j \in 1 .. Len(w) : (w \o rest)[j] = w[j]
    BY <2>1, Joined
  <2> QED  BY <1>2, <2>2
<1>5. Len(buf) >= 4 /\ \A j \in 1 .. 4 : buf[j] = h[j]
  <2>1. \A j \in 1 .. 4 : j \in 1 .. Len(w)
    BY <1>3
  <2> QED  BY <1>3, <1>4, <2>1
<1>6. n = FromStrRadix(SubSeq(buf, 1, 4)) /\ n \in Int
  <2>1. buf \in Seq(Byte) /\ Len(buf) >= 4 /\ \A j \in 1 .. 4 : buf[j] = Hex4(Size(f))[j]
    BY <1>4, <1>5 DEF n, h
  <2>2. FromStrRadix(SubSeq(buf, 1, 4)) = Size(f)
    BY <2>1, HeadRead
  <2> QED  BY <1>1, <2>2 DEF n
<1>7. SubSeq(buf, Len(w) + 1, Len(buf)) = rest
  BY <1>2, <1>3, Drop
<1>8. CASE f.kind = "data"
  <2>1. Len(w) = n /\ n >= 4 /\ n <= MaxPayload + 4 /\ ~(Len(buf) < n)
    BY <1>1, <1>3, <1>4, <1>8
  <2>2. SubSeq(buf, n + 1, Len(buf)) = rest
    BY <1>7, <2>1
  <2>3. SubSeq(buf, 5, n) = d
    <3>1. buf = (h \o d) \o rest /\ n = Len(h) + Len(d)
      BY <1>1, <1>2, <1>8
    <3>2. SubSeq(buf, Len(h) + 1, n) = d
      <4>1. h \in Seq(Byte) /\ d \in Seq(Byte)
        BY <1>1
      <4> QED  BY <3>1, <4>1, Inside
    <3>3. Len(h) + 1 = 5
      BY <1>1
    <3> QED  BY <3>2, <3>3
  <2>4. PktRead(buf) = Took(Data(d), rest)
    BY <1>4, <1>5, <1>6, <2>1, <2>2, <2>3, ReadCases
  <2> QED  BY <1>1, <1>8, <2>4 DEF Line
<1>9. CASE f.kind # "data"
  <2>1. Len(w) + 1 = 5
    BY <1>1, <1>3, <1>9
  <2>2. SubSeq(buf, 5, Len(buf)) = rest
    BY <1>7, <2>1
  <2>3. f = Sentinel(f.kind) /\ f.kind \in DOMAIN SentinelLength /\ Line(f) = f
    BY <1>9 DEF IsFrame, Line
  <2>4. \/ f.kind = "flush" /\ n = 0
        \/ f.kind = "delim" /\ n = 1
        \/ f.kind = "resp_end" /\ n = 2
    BY <1>1, <1>9, <2>3 DEF SentinelLength
  <2>5. /\ n = 0 => PktRead(buf) = Took(Sentinel("flush"), rest)
        /\ n = 1 => PktRead(buf) = Took(Sentinel("delim"), rest)
        /\ n = 2 => PktRead(buf) = Took(Sentinel("resp_end"), rest)
    BY <1>4, <1>5, <1>6, <2>2, ReadCases
  <2> QED  BY <2>3, <2>4, <2>5
<1> QED  BY <1>8, <1>9

\* One that has not is an error.
LEMMA ReadPart ==
  ASSUME NEW f, IsFrame(f), NEW buf \in Seq(Byte), Len(buf) < Len(WriteFrame(f)),
         \A j \in 1 .. Len(buf) : buf[j] = WriteFrame(f)[j]
  PROVE  ~PktRead(buf).ok
<1> DEFINE n == Size(f)
           h == Hex4(n)
           d == Held(f)
           w == WriteFrame(f)
<1>1. /\ w = h \o d /\ n \in Nat /\ n <= MaxPayload + 4
      /\ d \in Seq(Byte) /\ h \in Seq(Byte) /\ Len(h) = 4
      /\ f.kind = "data" => n >= 4 /\ Len(d) = n - 4
      /\ f.kind # "data" => Len(d) = 0
  BY WireFacts
<1>2. Len(buf) \in Nat /\ Len(buf) < Len(w) /\ \A j \in 1 .. Len(buf) : buf[j] = w[j]
  OBVIOUS
<1> HIDE DEF n, h, d, w
<1>3. /\ Len(w) = 4 + Len(d) /\ Len(d) \in Nat
      /\ \A j \in 1 .. 4 : w[j] = h[j]
  <2>1. /\ Len(h \o d) = Len(h) + Len(d) /\ Len(d) \in Nat
        /\ \A j \in 1 .. Len(h) : (h \o d)[j] = h[j]
    <3>1. h \in Seq(Byte) /\ d \in Seq(Byte)
      BY <1>1
    <3> QED  BY <3>1, Joined
  <2> QED  BY <1>1, <2>1
<1>4. CASE Len(buf) < 4
  BY <1>4 DEF PktRead, Failed
<1>5. CASE Len(buf) >= 4
  <2>1. \A j \in 1 .. 4 : j \in 1 .. Len(buf)
    BY <1>2, <1>5
  <2>2. \A j \in 1 .. 4 : buf[j] = h[j]
    BY <1>2, <1>3, <2>1
  <2>3. n = FromStrRadix(SubSeq(buf, 1, 4)) /\ n \in Int
    <3>1. Len(buf) >= 4 /\ \A j \in 1 .. 4 : buf[j] = Hex4(Size(f))[j]
      BY <1>5, <2>2 DEF n, h
    <3>2. FromStrRadix(SubSeq(buf, 1, 4)) = Size(f)
      BY <3>1, HeadRead
    <3> QED  BY <1>1, <3>2 DEF n
  <2>4. n >= 4 /\ n <= MaxPayload + 4 /\ Len(buf) < n
    BY <1>1, <1>2, <1>3, <1>5
  <2>5. PktRead(buf) = Failed("short_payload")
    BY <1>5, <2>3, <2>4, ReadCases
  <2> QED  BY <2>5 DEF Failed
<1> QED  BY <1>2, <1>4, <1>5

-----------------------------------------------------------------------------
(* Frames in a row.                                                        *)

LEMMA WriteFacts ==
  ASSUME NEW fs, Len(fs) \in Nat
  PROVE  \E f : /\ f[0] = << >> /\ f[Len(fs)] = WriteFrames(fs)
                /\ \A n \in 1 .. Len(fs) : f[n] = f[n - 1] \o WriteFrame(fs[n])
<1> DEFINE A == << >>
           Step(x, n) == x \o WriteFrame(fs[n])
           L == Len(fs)
           T == {m \in 0 .. L : \E g : g = [n \in 0 .. m |-> IF n = 0 THEN A ELSE Step(g[n - 1], n)]}
           f == CHOOSE g : g = [n \in 0 .. L |-> IF n = 0 THEN A ELSE Step(g[n - 1], n)]
<1>1. L \in Nat
  OBVIOUS
<1>2. WriteFrames(fs) = f[L]
  BY DEF WriteFrames
<1> HIDE DEF A, L, f, Step
<1>3. 0 \in T
  <2> DEFINE g == [n \in 0 .. 0 |-> A]
  <2>1. g = [n \in 0 .. 0 |-> IF n = 0 THEN A ELSE Step(g[n - 1], n)]
    OBVIOUS
  <2> HIDE DEF g
  <2> QED  BY <1>1, <2>1
<1>4. ASSUME NEW m \in 1 .. L, m - 1 \in T PROVE m \in T
  <2>1. PICK g : g = [n \in 0 .. m - 1 |-> IF n = 0 THEN A ELSE Step(g[n - 1], n)]
    BY <1>4
  <2> DEFINE h == [n \in 0 .. m |-> IF n < m THEN g[n] ELSE Step(g[m - 1], m)]
  <2>2. ASSUME NEW n \in 0 .. m
        PROVE  h[n] = IF n = 0 THEN A ELSE Step(h[n - 1], n)
    <3>1. CASE n = 0
      BY <1>1, <2>1, <3>1
    <3>2. CASE n # 0 /\ n < m
      <4>1. n \in 0 .. m - 1 /\ n - 1 \in 0 .. m /\ n - 1 < m
        BY <1>1, <3>2
      <4> QED  BY <2>1, <3>2, <4>1
    <3>3. CASE n = m
      <4>1. m - 1 \in 0 .. m /\ m - 1 < m /\ m # 0 /\ ~(m < m)
        BY <1>1
      <4> QED  BY <3>3, <4>1
    <3> QED  BY <1>1, <3>1, <3>2, <3>3
  <2>3. h = [n \in 0 .. m |-> h[n]]
    OBVIOUS
  <2> HIDE DEF h
  <2>4. h = [n \in 0 .. m |-> IF n = 0 THEN A ELSE Step(h[n - 1], n)]
    BY <2>2, <2>3
  <2> QED  BY <1>1, <2>4
<1>5. L \in T
  <2> HIDE DEF T
  <2> QED  BY <1>1, <1>3, <1>4, Climb
<1>6. f = [n \in 0 .. L |-> IF n = 0 THEN A ELSE Step(f[n - 1], n)]
  <2>1. \E g : g = [n \in 0 .. L |-> IF n = 0 THEN A ELSE Step(g[n - 1], n)]
    BY <1>5
  <2> QED  BY <2>1 DEF f
<1>7. f[0] = A /\ \A n \in 1 .. L : f[n] = Step(f[n - 1], n)
  BY <1>1, <1>6
<1> QED  BY <1>2, <1>7 DEF A, L, Step

\* Writing one more frame adds its encoding.
LEMMA WriteAppend ==
  ASSUME NEW S, NEW fs \in Seq(S), NEW e \in S
  PROVE  WriteFrames(Append(fs, e)) = WriteFrames(fs) \o WriteFrame(e)
<1> DEFINE L == Len(fs)
           hs == Append(fs, e)
<1>1. L \in Nat /\ Len(hs) = L + 1 /\ Len(hs) \in Nat /\ hs[L + 1] = e /\ \A n \in 1 .. L : hs[n] = fs[n]
  OBVIOUS
<1>2. PICK f : /\ f[0] = << >> /\ f[Len(fs)] = WriteFrames(fs)
               /\ \A n \in 1 .. Len(fs) : f[n] = f[n - 1] \o WriteFrame(fs[n])
  BY <1>1, WriteFacts
<1> HIDE DEF hs
<1>3. PICK h : /\ h[0] = << >> /\ h[Len(hs)] = WriteFrames(hs)
               /\ \A n \in 1 .. Len(hs) : h[n] = h[n - 1] \o WriteFrame(hs[n])
  BY <1>1, WriteFacts
<1> HIDE DEF L
<1>4. 0 .. L \subseteq {n \in 0 .. L : f[n] = h[n]}
  <2> DEFINE T == {n \in 0 .. L : f[n] = h[n]}
  <2>1. 0 \in T
    BY <1>1, <1>2, <1>3
  <2>2. ASSUME NEW r \in 1 .. L, r - 1 \in T PROVE r \in T
    <3>1. r \in 0 .. L /\ r \in 1 .. L + 1
      BY <1>1
    <3>2. f[r] = f[r - 1] \o WriteFrame(fs[r])
      BY <1>2 DEF L
    <3>3. h[r] = h[r - 1] \o WriteFrame(hs[r])
      BY <1>1, <1>3, <3>1
    <3> QED  BY <1>1, <2>2, <3>1, <3>2, <3>3
  <2> HIDE DEF T
  <2> QED  BY <1>1, <2>1, <2>2, Climb DEF T
<1>5. L \in 0 .. L /\ L + 1 \in 1 .. L + 1 /\ L + 1 - 1 = L
  BY <1>1
<1>6. f[L] = h[L] /\ h[L + 1] = h[L] \o WriteFrame(e)
  <2>1. f[L] = h[L]
    BY <1>4, <1>5
  <2> DEFINE k == L + 1
  <2>2. k \in 1 .. Len(hs) /\ k - 1 = L /\ hs[k] = e
    BY <1>1, <1>5
  <2> HIDE DEF k
  <2>3. h[k] = h[k - 1] \o WriteFrame(hs[k])
    BY <1>3, <2>2
  <2> QED  BY <2>1, <2>2, <2>3 DEF k
<1> QED  BY <1>1, <1>2, <1>3, <1>6 DEF L, hs

LEMMA WriteNone == WriteFrames(<< >>) = << >>
<1>1. Len(<< >>) = 0 /\ 0 \in Nat
  OBVIOUS
<1> QED  BY <1>1, WriteFacts

\* The first n frames, as they are on the wire.
Sent(fs, n) == WriteFrames(SubSeq(fs, 1, n))

\* One frame more.
LEMMA OneMore ==
  ASSUME NEW S, NEW fs \in Seq(S), NEW n \in 1 .. Len(fs)
  PROVE  /\ SubSeq(fs, 1, n) = Append(SubSeq(fs, 1, n - 1), fs[n])
         /\ SubSeq(fs, 1, n - 1) \in Seq(S) /\ fs[n] \in S
<1> DEFINE a == SubSeq(fs, 1, n)
           b == SubSeq(fs, 1, n - 1)
           c == Append(b, fs[n])
<1>1. /\ n \in Nat /\ n - 1 \in Nat /\ n <= Len(fs) /\ n - 1 <= Len(fs) /\ 1 <= n + 1 /\ 1 <= n - 1 + 1
      /\ 1 \in Nat /\ 1 <= 1 /\ n + 1 - 1 = n /\ n - 1 + 1 - 1 = n - 1 /\ n - 1 + 1 = n
      /\ \A j \in 1 .. n : 1 + j - 1 = j /\ (j = n \/ j \in 1 .. n - 1)
      /\ \A j \in 1 .. n - 1 : 1 + j - 1 = j
  OBVIOUS
<1>2. fs[n] \in S
  OBVIOUS
<1>3. a \in Seq(S) /\ Len(a) = n + 1 - 1 /\ \A j \in 1 .. n + 1 - 1 : a[j] = fs[1 + j - 1]
  BY <1>1, Part
<1>4. b \in Seq(S) /\ Len(b) = n - 1 + 1 - 1 /\ \A j \in 1 .. n - 1 + 1 - 1 : b[j] = fs[1 + j - 1]
  BY <1>1, Part
<1> HIDE DEF a, b
<1>5. a \in Seq(S) /\ Len(a) = n /\ \A j \in 1 .. n : a[j] = fs[j]
  BY <1>1, <1>3
<1>6. b \in Seq(S) /\ Len(b) = n - 1 /\ \A j \in 1 .. n - 1 : b[j] = fs[j]
  BY <1>1, <1>4
<1>7. c \in Seq(S) /\ Len(c) = n - 1 + 1 /\ (\A j \in 1 .. n - 1 : c[j] = b[j]) /\ c[n - 1 + 1] = fs[n]
  BY <1>2, <1>6
<1> HIDE DEF c
<1>8. \A j \in 1 .. n : a[j] = c[j]
  BY <1>1, <1>5, <1>6, <1>7
<1>9. a = c
  BY <1>1, <1>5, <1>7, <1>8, SameElements
<1> QED  BY <1>2, <1>6, <1>9 DEF a, b, c

LEMMA SentFacts ==
  ASSUME NEW S, NEW fs \in Seq(S)
  PROVE  /\ Sent(fs, 0) = << >> /\ Sent(fs, Len(fs)) = WriteFrames(fs)
         /\ \A n \in 1 .. Len(fs) : Sent(fs, n) = Sent(fs, n - 1) \o WriteFrame(fs[n])
<1>1. SubSeq(fs, 1, 0) = << >> /\ SubSeq(fs, 1, Len(fs)) = fs
  OBVIOUS
<1>2. ASSUME NEW n \in 1 .. Len(fs) PROVE Sent(fs, n) = Sent(fs, n - 1) \o WriteFrame(fs[n])
  <2>1. /\ SubSeq(fs, 1, n) = Append(SubSeq(fs, 1, n - 1), fs[n])
        /\ SubSeq(fs, 1, n - 1) \in Seq(S) /\ fs[n] \in S
    BY OneMore
  <2> DEFINE b == SubSeq(fs, 1, n - 1)
             e == fs[n]
  <2> HIDE DEF b, e
  <2>2. WriteFrames(Append(b, e)) = WriteFrames(b) \o WriteFrame(e)
    BY <2>1, WriteAppend DEF b, e
  <2> QED  BY <2>1, <2>2 DEF Sent, b, e
<1> QED  BY <1>1, <1>2, WriteNone DEF Sent

LEMMA WireType ==
  ASSUME NEW f, IsFrame(f)
  PROVE  WriteFrame(f) \in Seq(Byte) /\ Len(WriteFrame(f)) \in Nat /\ Len(WriteFrame(f)) >= 4
<1> DEFINE h == Hex4(Size(f))
           d == Held(f)
<1>1. WriteFrame(f) = h \o d /\ h \in Seq(Byte) /\ d \in Seq(Byte) /\ Len(h) = 4
  BY WireFacts
<1> HIDE DEF h, d
<1>2. h \in Seq(Byte) /\ d \in Seq(Byte)
  BY <1>1
<1>3. h \o d \in Seq(Byte) /\ Len(h \o d) = Len(h) + Len(d) /\ Len(d) \in Nat
  BY <1>2, Joined
<1> QED  BY <1>1, <1>3

\* What is sent is bytes, and more of it goes on where less of it ends.
LEMMA SentGrows ==
  ASSUME NEW S, NEW fs \in Seq(S), \A n \in 1 .. Len(fs) : IsFrame(fs[n])
  PROVE  /\ \A n \in 0 .. Len(fs) : Sent(fs, n) \in Seq(Byte)
         /\ \A m \in 0 .. Len(fs) : \A n \in 0 .. Len(fs) :
              m <= n => \E t \in Seq(Byte) : Sent(fs, n) = Sent(fs, m) \o t
<1> DEFINE L == Len(fs)
           W(n) == Sent(fs, n)
<1>1. L \in Nat
  OBVIOUS
<1>2. W(0) = << >> /\ \A n \in 1 .. L : W(n) = W(n - 1) \o WriteFrame(fs[n])
  BY SentFacts
<1>3. \A n \in 1 .. L : WriteFrame(fs[n]) \in Seq(Byte)
  BY WireType
<1> HIDE DEF L, W
<1>4. \A n \in 0 .. L : W(n) \in Seq(Byte)
  <2> DEFINE T == {n \in 0 .. L : W(n) \in Seq(Byte)}
  <2>1. 0 \in T
    <3>1. << >> \in Seq(Byte)
      OBVIOUS
    <3>2. 0 \in 0 .. L
      BY <1>1
    <3>3. W(0) \in Seq(Byte)
      BY <1>2, <3>1
    <3> QED  BY <3>2, <3>3
  <2>2. ASSUME NEW r \in 1 .. L, r - 1 \in T PROVE r \in T
    <3>1. W(r - 1) \in Seq(Byte) /\ WriteFrame(fs[r]) \in Seq(Byte) /\ W(r) = W(r - 1) \o WriteFrame(fs[r])
      BY <1>2, <1>3, <2>2
    <3>2. W(r) \in Seq(Byte)
      BY <3>1
    <3> QED  BY <1>1, <3>2
  <2>3. 0 .. L \subseteq T
    <3> HIDE DEF T
    <3> QED  BY <1>1, <2>1, <2>2, Climb
  <2> QED  BY <2>3
<1>5. ASSUME NEW m \in 0 .. L
      PROVE  \A n \in 0 .. L : m <= n => \E t \in Seq(Byte) : W(n) = W(m) \o t
  <2> DEFINE T == {n \in 0 .. L : m <= n => \E t \in Seq(Byte) : W(n) = W(m) \o t}
  <2>1. W(m) \in Seq(Byte) /\ W(m) = W(m) \o << >> /\ << >> \in Seq(Byte)
    <3>1. W(m) \in Seq(Byte)
      BY <1>4
    <3> QED  BY <3>1
  <2>2. m \in T
    BY <2>1
  <2>3. 0 \in T
    <3>1. m <= 0 => m = 0
      BY <1>1
    <3> QED  BY <1>1, <2>2, <3>1
  <2>4. ASSUME NEW r \in 1 .. L, r - 1 \in T PROVE r \in T
    <3>1. CASE m = r
      BY <2>2, <3>1
    <3>2. CASE ~(m <= r)
      BY <1>1, <3>2
    <3>3. CASE m <= r /\ m # r
      <4>1. m <= r - 1
        BY <1>1, <3>3
      <4>2. PICK t \in Seq(Byte) : W(r - 1) = W(m) \o t
        BY <2>4, <4>1
      <4> DEFINE v == WriteFrame(fs[r])
      <4>3. v \in Seq(Byte) /\ W(r) = W(r - 1) \o v
        BY <1>2, <1>3
      <4> HIDE DEF v
      <4>4. (W(m) \o t) \o v = W(m) \o (t \o v) /\ t \o v \in Seq(Byte)
        <5> DEFINE w == W(m)
        <5>1. w \in Seq(Byte)
          BY <2>1
        <5> HIDE DEF w
        <5>2. (w \o t) \o v = w \o (t \o v) /\ t \o v \in Seq(Byte)
          BY <4>3, <5>1
        <5> QED  BY <5>2 DEF w
      <4>5. \E u \in Seq(Byte) : W(r) = W(m) \o u
        BY <4>2, <4>3, <4>4
      <4>6. r \in 0 .. L
        BY <1>1
      <4> QED  BY <4>5, <4>6
    <3> QED  BY <3>1, <3>2, <3>3
  <2>5. 0 .. L \subseteq T
    <3> HIDE DEF T
    <3> QED  BY <1>1, <2>3, <2>4, Climb
  <2> QED  BY <2>5
<1> QED  BY <1>4, <1>5 DEF L, W

LEMMA WrittenAppend ==
  ASSUME NEW S, NEW fs \in Seq(S), NEW e \in S
  PROVE  Written(Append(fs, e)) = Append(Written(fs), Line(e))
<1> DEFINE L == Len(fs)
           hs == Append(fs, e)
           T == {Line(f) : f \in S}
           a == Written(hs)
           b == Written(fs)
           c == Append(b, Line(e))
<1>1. /\ L \in Nat /\ DOMAIN fs = 1 .. L /\ \A n \in 1 .. L : fs[n] \in S
      /\ DOMAIN hs = 1 .. L + 1 /\ hs[L + 1] = e /\ \A n \in 1 .. L : hs[n] = fs[n]
  OBVIOUS
<1>2. a = [n \in DOMAIN hs |-> Line(hs[n])] /\ b = [n \in DOMAIN fs |-> Line(fs[n])]
  BY DEF Written, Line
<1> HIDE DEF hs, a, b, L
<1>3. Line(e) \in T /\ \A n \in 1 .. L : Line(fs[n]) \in T
  BY <1>1
<1> HIDE DEF T
<1>4. b = [n \in 1 .. L |-> Line(fs[n])] /\ b \in Seq(T) /\ Len(b) = L /\ \A n \in 1 .. L : b[n] = Line(fs[n])
  BY <1>1, <1>2, <1>3
<1>5. c \in Seq(T) /\ Len(c) = L + 1 /\ c[L + 1] = Line(e) /\ \A n \in 1 .. L : c[n] = b[n]
  <2> DEFINE l == Line(e)
  <2>1. l \in T /\ b \in Seq(T) /\ Len(b) = L
    BY <1>3, <1>4
  <2> HIDE DEF l
  <2>2. /\ Append(b, l) \in Seq(T) /\ Len(Append(b, l)) = L + 1
        /\ Append(b, l)[L + 1] = l /\ \A n \in 1 .. L : Append(b, l)[n] = b[n]
    BY <2>1
  <2> QED  BY <2>2 DEF l
<1>6. \A n \in 1 .. L + 1 : n = L + 1 \/ n \in 1 .. L
  BY <1>1
<1>7. a = [n \in 1 .. L + 1 |-> Line(hs[n])] /\ L + 1 \in Nat
  BY <1>1, <1>2
<1>8. \A n \in 1 .. L + 1 : Line(hs[n]) \in T /\ Line(hs[n]) = c[n]
  <2> HIDE DEF c
  <2> QED  BY <1>1, <1>3, <1>4, <1>5, <1>6
<1>9. a \in Seq(T) /\ Len(a) = L + 1 /\ \A n \in 1 .. L + 1 : a[n] = c[n]
  <2> DEFINE M == L + 1
  <2> HIDE DEF M, c
  <2>1. /\ a = [n \in 1 .. M |-> Line(hs[n])] /\ M \in Nat
        /\ \A n \in 1 .. M : Line(hs[n]) \in T /\ Line(hs[n]) = c[n]
    BY <1>7, <1>8 DEF M
  <2>2. a \in Seq(T) /\ Len(a) = M /\ \A n \in 1 .. M : a[n] = c[n]
    BY <2>1
  <2> QED  BY <2>2 DEF M
<1> HIDE DEF c
<1>10. a = c
  BY <1>5, <1>9, SameElements
<1> QED  BY <1>10 DEF a, b, c, hs

-----------------------------------------------------------------------------
(* The iterator.                                                           *)

\* What comes out of the stream is what is consumed of it.
Consumed ==
  Unsigned(pkt.bytes) =>
    /\ pkt.buf \in Seq(Byte)
    /\ \E S : pkt.got \in Seq(S)
    /\ WriteFrames(pkt.got) \in Seq(Byte)
    /\ pkt.bytes = WriteFrames(pkt.got) \o pkt.buf

\* m frames are read, and the stream goes on in the next one; at its end
\* not all of that one has arrived.
ReadUpTo(m) ==
  /\ pkt.got = Written(SubSeq(pkt.frames, 1, m))
  /\ pkt.buf \in Seq(Byte)
  /\ pkt.bytes = Sent(pkt.frames, m) \o pkt.buf
  /\ pkt.done /\ m < Len(pkt.frames) => Len(pkt.buf) < Len(WriteFrame(pkt.frames[m + 1]))

Arrived == pkt.frames # << >> => \E m \in 0 .. Len(pkt.frames) : ReadUpTo(m)

\* An error is what leaves something in the buffer.
Ended == pkt.done => (pkt.error = "none" <=> pkt.buf = << >>)

Shape ==
  /\ pkt = [frames |-> pkt.frames, bytes |-> pkt.bytes, buf |-> pkt.buf,
            got |-> pkt.got, error |-> pkt.error, done |-> pkt.done]
  /\ \E s \in Streams : pkt.frames = s.frames /\ pkt.bytes = s.bytes
  /\ ~pkt.done => pkt.error = "none"

PktIInv == Shape /\ Consumed /\ Arrived /\ Ended

LEMMA Peers ==
  ASSUME NEW s \in Streams
  PROVE  /\ s.bytes \in Seq(Byte)
         /\ s.frames \in Seq(Range(s.frames)) /\ Len(s.frames) \in Nat
         /\ \A n \in 1 .. Len(s.frames) : IsFrame(s.frames[n])
         /\ s.frames # << >> => IsPrefix(s.bytes, WriteFrames(s.frames))
<1>1. /\ s.bytes \in Seq(Byte)
      /\ s.frames \in Seq(Range(s.frames)) /\ \A n \in DOMAIN s.frames : IsFrame(s.frames[n])
      /\ s.frames # << >> => IsPrefix(s.bytes, WriteFrames(s.frames))
  BY PktAssumption
<1>2. ASSUME NEW S, NEW x \in Seq(S) PROVE Len(x) \in Nat /\ DOMAIN x = 1 .. Len(x)
  OBVIOUS
<1>3. Len(s.frames) \in Nat /\ DOMAIN s.frames = 1 .. Len(s.frames)
  BY <1>1, <1>2
<1> QED  BY <1>1, <1>3

\* After m frames of fs, b is left of the bytes s.
Leaves(s, fs, m, b) == s = Sent(fs, m) \o b

\* Frame f has arrived whole in b.
Whole(f, b) == \E rest \in Seq(Byte) : b = WriteFrame(f) \o rest

\* Between frames, what has arrived is the next frame and more, or not all
\* of it.
LEMMA WhatIsNext ==
  ASSUME NEW S, NEW fs \in Seq(S), \A n \in 1 .. Len(fs) : IsFrame(fs[n]),
         NEW bytes \in Seq(Byte), IsPrefix(bytes, WriteFrames(fs)),
         NEW m \in 0 .. Len(fs), NEW buf \in Seq(Byte), buf # << >>, Leaves(bytes, fs, m, buf)
  PROVE  /\ m < Len(fs)
         /\ Len(buf) < Len(WriteFrame(fs[m + 1])) => ~PktRead(buf).ok
         /\ ~(Len(buf) < Len(WriteFrame(fs[m + 1]))) => Whole(fs[m + 1], buf)
<1> DEFINE L == Len(fs)
           w == Sent(fs, m)
           z == WriteFrames(fs)
<1>1. L \in Nat /\ Len(buf) \in Nat /\ Len(buf) > 0
  OBVIOUS
<1>2. L \in 0 .. L /\ m \in Nat /\ m <= L
  BY <1>1
<1>3. z = Sent(fs, L) /\ w \in Seq(Byte) /\ z \in Seq(Byte)
  BY <1>2, SentFacts, SentGrows
<1>4. Len(bytes) <= Len(z) /\ \A j \in 1 .. Len(bytes) : bytes[j] = z[j]
  <2>1. z \in Seq(Byte) /\ IsPrefix(bytes, z)
    BY <1>3
  <2> HIDE DEF z, w
  <2>2. IsPrefix(bytes, z) <=> Len(bytes) <= Len(z) /\ \A j \in 1 .. Len(bytes) : bytes[j] = z[j]
    BY <2>1, PrefixFacts
  <2> QED  BY <2>1, <2>2
<1> HIDE DEF w, z
<1>5. bytes = w \o buf
  BY DEF w, Leaves
<1>6. /\ Len(bytes) = Len(w) + Len(buf) /\ Len(w) \in Nat
  <2>1. w \in Seq(Byte)
    BY <1>3
  <2>2. Len(w \o buf) = Len(w) + Len(buf) /\ Len(w) \in Nat
    BY <2>1, Joined
  <2> QED  BY <1>5, <2>2
<1>7. m < L
  <2>1. CASE m = L
    <3>1. z = w
      BY <1>3, <2>1 DEF w
    <3> QED  BY <1>1, <1>4, <1>6, <3>1
  <2> QED  BY <1>2, <2>1
<1> DEFINE k == m + 1
           f == fs[k]
           F == WriteFrame(f)
<1>8. k \in 1 .. L /\ k \in 0 .. L /\ k - 1 = m /\ k <= L
  BY <1>1, <1>2, <1>7
<1> HIDE DEF k
<1>9. IsFrame(f) /\ F \in Seq(Byte) /\ Len(F) \in Nat
  BY <1>8, WireType
<1>10. Sent(fs, k) = w \o F
  <2>1. Sent(fs, k) = Sent(fs, k - 1) \o WriteFrame(fs[k])
    BY <1>8, SentFacts
  <2> QED  BY <1>8, <2>1 DEF w
<1>11. PICK t \in Seq(Byte) : z = Sent(fs, k) \o t
  BY <1>2, <1>3, <1>8, SentGrows
<1> HIDE DEF f, F, L
<1> DEFINE y == F \o t
<1>12. /\ y \in Seq(Byte) /\ z = w \o y /\ Len(y) = Len(F) + Len(t) /\ Len(t) \in Nat
       /\ \A j \in 1 .. Len(F) : y[j] = F[j]
  <2>1. w \in Seq(Byte) /\ F \in Seq(Byte)
    BY <1>3, <1>9
  <2>2. (w \o F) \o t = w \o (F \o t)
    BY <2>1
  <2>3. /\ F \o t \in Seq(Byte) /\ Len(F \o t) = Len(F) + Len(t) /\ Len(t) \in Nat
        /\ \A j \in 1 .. Len(F) : (F \o t)[j] = F[j]
    BY <2>1, Joined
  <2> QED  BY <1>10, <1>11, <2>2, <2>3
<1> HIDE DEF y
<1>13. Len(z) = Len(w) + Len(y) /\ Len(y) \in Nat
  <2>1. w \in Seq(Byte) /\ y \in Seq(Byte)
    BY <1>3, <1>12
  <2>2. Len(w \o y) = Len(w) + Len(y) /\ Len(y) \in Nat
    BY <2>1, Joined
  <2> QED  BY <1>12, <2>2
<1>14. Len(buf) <= Len(y)
  BY <1>1, <1>4, <1>6, <1>13
<1>15. \A j \in 1 .. Len(buf) : buf[j] = y[j]
  <2>1. \A j \in 1 .. Len(w) + Len(buf) : (w \o buf)[j] = (w \o y)[j]
    BY <1>4, <1>5, <1>6, <1>12
  <2>2. w \in Seq(Byte) /\ y \in Seq(Byte)
    BY <1>3, <1>12
  <2> QED  BY <1>14, <2>1, <2>2, Cancel
<1>16. ASSUME Len(buf) < Len(F) PROVE ~PktRead(buf).ok
  <2>1. \A j \in 1 .. Len(buf) : j \in 1 .. Len(F)
    BY <1>1, <1>9, <1>16
  <2>2. \A j \in 1 .. Len(buf) : buf[j] = F[j]
    BY <1>12, <1>15, <2>1
  <2> QED  BY <1>9, <1>16, <2>2, ReadPart DEF F
<1>17. ASSUME ~(Len(buf) < Len(F)) PROVE \E rest \in Seq(Byte) : buf = F \o rest
  <2>1. Len(F) <= Len(buf) /\ \A j \in 1 .. Len(F) : j \in 1 .. Len(buf)
    BY <1>1, <1>9, <1>17
  <2>2. \A j \in 1 .. Len(F) : buf[j] = F[j]
    BY <1>12, <1>15, <2>1
  <2>3. F \in Seq(Byte)
    BY <1>9
  <2>4. buf = F \o SubSeq(buf, Len(F) + 1, Len(buf)) /\ SubSeq(buf, Len(F) + 1, Len(buf)) \in Seq(Byte)
    BY <2>1, <2>2, <2>3, Split
  <2> QED  BY <2>4
<1> QED  BY <1>7, <1>16, <1>17 DEF F, f, k, L, Whole

\* Bytes without a plus sign have none in their last part.
LEMMA UnsignedEnd ==
  ASSUME NEW s \in Seq(Byte), NEW t \in Seq(Byte), Unsigned(s \o t)
  PROVE  Unsigned(t)
<1>1. /\ s \o t \in Seq(Byte) /\ Len(s) \in Nat /\ Len(t) \in Nat /\ Len(s \o t) = Len(s) + Len(t)
      /\ \A j \in 1 .. Len(t) : (s \o t)[Len(s) + j] = t[j]
  BY Joined
<1>2. \A x \in Seq(Byte) : DOMAIN x = 1 .. Len(x)
  OBVIOUS
<1>3. DOMAIN t = 1 .. Len(t) /\ DOMAIN (s \o t) = 1 .. Len(s) + Len(t)
  BY <1>1, <1>2
<1>4. \A j \in 1 .. Len(t) : Len(s) + j \in 1 .. Len(s) + Len(t)
  BY <1>1
<1>5. \A j \in 1 .. Len(t) : t[j] # Plus
  <2> DEFINE u == s \o t
  <2> HIDE DEF u
  <2>1. \A j \in 1 .. Len(s) + Len(t) : u[j] # Plus
    BY <1>3 DEF Unsigned, u
  <2>2. \A j \in 1 .. Len(t) : u[Len(s) + j] = t[j]
    BY <1>1 DEF u
  <2> QED  BY <1>4, <2>1, <2>2
<1> QED  BY <1>3, <1>5 DEF Unsigned

LEMMA InitPktIInv == ASSUME NEW s \in Streams, PktStart(s) PROVE PktIInv
<1> DEFINE fs == s.frames
           b == s.bytes
<1>1. /\ b \in Seq(Byte) /\ fs \in Seq(Range(fs)) /\ Len(fs) \in Nat
      /\ \A n \in 1 .. Len(fs) : IsFrame(fs[n])
  BY Peers
<1>2. pkt = [frames |-> fs, bytes |-> b, buf |-> b, got |-> << >>, error |-> "none", done |-> FALSE]
  BY DEF PktStart
<1> HIDE DEF fs, b
<1>3. /\ pkt.frames = fs /\ pkt.bytes = b /\ pkt.buf = b
      /\ pkt.got = << >> /\ pkt.error = "none" /\ pkt.done = FALSE
  BY <1>2
<1>4. Shape
  BY <1>2, <1>3 DEF Shape, fs, b
<1>5. b = << >> \o b /\ << >> \in Seq(Byte) /\ << >> \in Seq({})
  BY <1>1
<1>6. Consumed
  BY <1>1, <1>3, <1>5, WriteNone DEF Consumed
<1>7. Sent(fs, 0) = << >>
  BY <1>1, SentFacts
<1>8. Written(SubSeq(fs, 1, 0)) = << >>
  <2>1. SubSeq(fs, 1, 0) = << >>
    BY <1>1
  <2>2. DOMAIN << >> = {} /\ << >> = [n \in {} |-> n] /\ \A f : f = [n \in {} |-> f[n]] => f = [n \in {} |-> n]
    OBVIOUS
  <2>3. Written(<< >>) = << >>
    BY <2>2 DEF Written
  <2> QED  BY <2>1, <2>3
<1>9. ReadUpTo(0)
  BY <1>1, <1>3, <1>5, <1>7, <1>8 DEF ReadUpTo
<1>10. 0 \in 0 .. Len(fs)
  BY <1>1
<1>11. Arrived
  BY <1>3, <1>9, <1>10 DEF Arrived
<1>12. Ended
  BY <1>3 DEF Ended
<1> QED  BY <1>4, <1>6, <1>11, <1>12 DEF PktIInv

\* Nothing is left: the iterator yields None.
LEMMA StopKeeps ==
  ASSUME PktIInv, ~pkt.done, pkt.buf = << >>, pkt' = [pkt EXCEPT !.done = TRUE]
  PROVE  PktIInv'
<1>1. PICK s \in Streams : pkt.frames = s.frames /\ pkt.bytes = s.bytes
  BY DEF PktIInv, Shape
<1>2. pkt = [frames |-> pkt.frames, bytes |-> pkt.bytes, buf |-> pkt.buf,
            got |-> pkt.got, error |-> pkt.error, done |-> pkt.done] /\ pkt.error = "none"
  BY DEF PktIInv, Shape
<1>3. /\ pkt'.frames = pkt.frames /\ pkt'.bytes = pkt.bytes /\ pkt'.buf = pkt.buf
      /\ pkt'.got = pkt.got /\ pkt'.error = pkt.error /\ pkt'.done = TRUE
  BY <1>2
<1>4. pkt' = [frames |-> pkt'.frames, bytes |-> pkt'.bytes, buf |-> pkt'.buf,
            got |-> pkt'.got, error |-> pkt'.error, done |-> pkt'.done]
  BY <1>2, <1>3
<1>5. Shape'
  BY <1>1, <1>3, <1>4 DEF Shape
<1>6. Consumed'
  BY <1>3 DEF PktIInv, Consumed
<1>7. ASSUME NEW m \in 0 .. Len(pkt.frames), ReadUpTo(m) PROVE ReadUpTo(m)'
  <2>1. Len(pkt.buf) = 0
    OBVIOUS
  <2>2. ASSUME m < Len(pkt.frames) PROVE Len(pkt.buf) < Len(WriteFrame(pkt.frames[m + 1]))
    <3>1. Len(pkt.frames) \in Nat /\ \A n \in 1 .. Len(pkt.frames) : IsFrame(pkt.frames[n])
      BY <1>1, Peers
    <3>2. m + 1 \in 1 .. Len(pkt.frames)
      BY <2>2, <3>1
    <3> DEFINE f == pkt.frames[m + 1]
    <3>3. IsFrame(f)
      BY <3>1, <3>2
    <3> HIDE DEF f
    <3>4. Len(WriteFrame(f)) \in Nat /\ Len(WriteFrame(f)) >= 4
      BY <3>3, WireType
    <3> QED  BY <2>1, <3>4 DEF f
  <2> QED  BY <1>3, <1>7, <2>2 DEF ReadUpTo
<1>8. Arrived'
  BY <1>3, <1>7 DEF PktIInv, Arrived
<1>9. Ended'
  BY <1>2, <1>3 DEF Ended
<1> QED  BY <1>5, <1>6, <1>8, <1>9 DEF PktIInv

\* A frame is read, or an error.
LEMMA ReadKeeps ==
  ASSUME PktIInv, ~pkt.done, pkt.buf # << >>, NEW r, r = PktRead(pkt.buf),
         pkt' = IF r.ok
                THEN [pkt EXCEPT !.got = Append(@, r.line), !.buf = r.rest]
                ELSE [pkt EXCEPT !.error = r.line.kind, !.done = TRUE]
  PROVE  PktIInv'
<1>1. PICK s \in Streams : pkt.frames = s.frames /\ pkt.bytes = s.bytes
  BY DEF PktIInv, Shape
<1>2. pkt = [frames |-> pkt.frames, bytes |-> pkt.bytes, buf |-> pkt.buf,
            got |-> pkt.got, error |-> pkt.error, done |-> pkt.done] /\ pkt.error = "none"
  BY DEF PktIInv, Shape
<1> DEFINE fs == pkt.frames
<1>3. /\ pkt.bytes \in Seq(Byte)
      /\ fs \in Seq(Range(fs)) /\ Len(fs) \in Nat
      /\ \A n \in 1 .. Len(fs) : IsFrame(fs[n])
      /\ fs # << >> => IsPrefix(pkt.bytes, WriteFrames(fs))
  BY <1>1, Peers
<1>4. ASSUME NEW m \in 0 .. Len(fs), ReadUpTo(m), fs # << >>
      PROVE  /\ m < Len(fs)
             /\ Len(pkt.buf) < Len(WriteFrame(fs[m + 1])) => ~r.ok
             /\ ~(Len(pkt.buf) < Len(WriteFrame(fs[m + 1]))) => Whole(fs[m + 1], pkt.buf)
  <2>1. pkt.buf \in Seq(Byte) /\ pkt.bytes = Sent(fs, m) \o pkt.buf
    BY <1>4 DEF ReadUpTo
  <2> DEFINE b == pkt.buf
             by == pkt.bytes
  <2> HIDE DEF fs, b, by
  <2>2. /\ fs \in Seq(Range(fs)) /\ (\A n \in 1 .. Len(fs) : IsFrame(fs[n]))
        /\ by \in Seq(Byte) /\ IsPrefix(by, WriteFrames(fs)) /\ m \in 0 .. Len(fs)
        /\ b \in Seq(Byte) /\ b # << >> /\ Leaves(by, fs, m, b) /\ r = PktRead(b)
    BY <1>3, <1>4, <2>1 DEF fs, b, by, Leaves
  <2>3. /\ m < Len(fs)
        /\ Len(b) < Len(WriteFrame(fs[m + 1])) => ~PktRead(b).ok
        /\ ~(Len(b) < Len(WriteFrame(fs[m + 1]))) => Whole(fs[m + 1], b)
    <3> DEFINE S == Range(fs)
    <3>1. /\ fs \in Seq(S) /\ (\A n \in 1 .. Len(fs) : IsFrame(fs[n]))
          /\ by \in Seq(Byte) /\ IsPrefix(by, WriteFrames(fs)) /\ m \in 0 .. Len(fs)
          /\ b \in Seq(Byte) /\ b # << >> /\ Leaves(by, fs, m, b)
      BY <2>2
    <3> HIDE DEF S
    <3> QED  BY <3>1, WhatIsNext
  <2> QED  BY <2>2, <2>3 DEF b
<1>5. CASE r.ok
  <2>1. /\ pkt'.frames = fs /\ pkt'.bytes = pkt.bytes /\ pkt'.buf = r.rest
        /\ pkt'.got = Append(pkt.got, r.line) /\ pkt'.error = "none" /\ pkt'.done = FALSE
    BY <1>2, <1>5
  <2>2. Shape'
    <3>1. pkt' = [frames |-> pkt'.frames, bytes |-> pkt'.bytes, buf |-> pkt'.buf,
                  got |-> pkt'.got, error |-> pkt'.error, done |-> pkt'.done]
      BY <1>2, <1>5
    <3> QED  BY <1>1, <2>1, <3>1 DEF Shape
  <2>3. Consumed'
    <3> SUFFICES ASSUME Unsigned(pkt.bytes)
                 PROVE  /\ r.rest \in Seq(Byte)
                        /\ \E S : Append(pkt.got, r.line) \in Seq(S)
                        /\ WriteFrames(Append(pkt.got, r.line)) \in Seq(Byte)
                        /\ pkt.bytes = WriteFrames(Append(pkt.got, r.line)) \o r.rest
      BY <2>1 DEF Consumed
    <3> DEFINE b == pkt.buf
               w == WriteFrames(pkt.got)
               got == pkt.got
               e == r.line
               v == WriteFrame(e)
               rest == r.rest
    <3>1. /\ b \in Seq(Byte) /\ (\E S : got \in Seq(S)) /\ w \in Seq(Byte) /\ pkt.bytes = w \o b
      BY DEF PktIInv, Consumed
    <3> HIDE DEF b, w, got, e, v, rest
    <3>2. Unsigned(b)
      BY <3>1, UnsignedEnd
    <3>3. PktRead(b).ok /\ r = PktRead(b)
      BY <1>5 DEF b
    <3>4. IsFrame(e) /\ rest \in Seq(Byte) /\ b = v \o rest
      BY <3>1, <3>2, <3>3, ReadConsumes DEF e, rest, v
    <3>5. v \in Seq(Byte)
      BY <3>4, WireType DEF v
    <3>6. PICK S : got \in Seq(S)
      BY <3>1
    <3>7. got \in Seq(S \cup {e}) /\ e \in S \cup {e}
      BY <3>6
    <3>8. Append(got, e) \in Seq(S \cup {e})
      BY <3>7
    <3>9. WriteFrames(Append(got, e)) = w \o v
      BY <3>7, WriteAppend DEF w, v, got
    <3>10. w \o (v \o rest) = (w \o v) \o rest /\ w \o v \in Seq(Byte)
      <4>1. w \in Seq(Byte) /\ v \in Seq(Byte) /\ rest \in Seq(Byte)
        BY <3>1, <3>4, <3>5
      <4>2. ASSUME NEW x \in Seq(Byte), NEW y \in Seq(Byte), NEW z \in Seq(Byte)
            PROVE  x \o (y \o z) = (x \o y) \o z /\ x \o y \in Seq(Byte)
        OBVIOUS
      <4>3. QED
        BY <4>1, <4>2
    <3> QED  BY <3>1, <3>4, <3>8, <3>9, <3>10 DEF got, e, rest
  <2>4. Arrived'
    <3> SUFFICES ASSUME fs # << >> PROVE \E m \in 0 .. Len(fs) : ReadUpTo(m)'
      BY <2>1 DEF Arrived
    <3>1. PICK m \in 0 .. Len(fs) : ReadUpTo(m)
      BY DEF PktIInv, Arrived
    <3> DEFINE k == m + 1
               f == fs[k]
               F == WriteFrame(f)
               b == pkt.buf
    <3>2. m < Len(fs) /\ Whole(f, b)
      BY <1>4, <1>5, <3>1
    <3>3. k \in 1 .. Len(fs) /\ k \in 0 .. Len(fs) /\ k - 1 = m
      BY <1>3, <3>2
    <3>4. /\ pkt.got = Written(SubSeq(fs, 1, m)) /\ b \in Seq(Byte) /\ pkt.bytes = Sent(fs, m) \o b
      BY <3>1 DEF ReadUpTo
    <3> HIDE DEF fs, k, f, F, b
    <3>5. PICK rest \in Seq(Byte) : b = F \o rest
      BY <3>2 DEF Whole, F
    <3>6. IsFrame(f)
      BY <1>3, <3>3 DEF f
    <3>7. PktRead(b) = Took(Line(f), rest)
      BY <3>5, <3>6, ReadWhole DEF F
    <3>8. r.line = Line(f) /\ r.rest = rest
      BY <3>7 DEF Took, b
    <3>9. /\ SubSeq(fs, 1, k) = Append(SubSeq(fs, 1, k - 1), fs[k])
          /\ SubSeq(fs, 1, k - 1) \in Seq(Range(fs)) /\ fs[k] \in Range(fs)
      BY <1>3, <3>3, OneMore
    <3>10. Written(SubSeq(fs, 1, k)) = Append(pkt.got, Line(f))
      <4> DEFINE c == SubSeq(fs, 1, k - 1)
      <4>1. c \in Seq(Range(fs)) /\ f \in Range(fs) /\ SubSeq(fs, 1, k) = Append(c, f) /\ pkt.got = Written(c)
        BY <3>3, <3>4, <3>9 DEF f
      <4> HIDE DEF c
      <4>2. Written(Append(c, f)) = Append(Written(c), Line(f))
        BY <4>1, WrittenAppend
      <4> QED  BY <4>1, <4>2
    <3>11. pkt.bytes = Sent(fs, k) \o rest
      <4> DEFINE w == Sent(fs, m)
      <4>1. w \in Seq(Byte)
        BY <1>3, <3>1, SentGrows
      <4>2. Sent(fs, k) = w \o F
        <5>1. Sent(fs, k) = Sent(fs, k - 1) \o WriteFrame(fs[k])
          BY <1>3, <3>3, SentFacts
        <5> QED  BY <3>3, <5>1 DEF F, f
      <4>3. F \in Seq(Byte)
        BY <3>6, WireType DEF F
      <4> HIDE DEF w
      <4>4. w \o (F \o rest) = (w \o F) \o rest
        BY <4>1, <4>3
      <4> QED  BY <3>4, <3>5, <4>2, <4>4 DEF w
    <3>12. ReadUpTo(k)'
      <4>1. pkt'.got = Written(SubSeq(pkt'.frames, 1, k)) /\ pkt'.buf \in Seq(Byte) /\ pkt'.bytes = Sent(pkt'.frames, k) \o pkt'.buf
        BY <2>1, <3>8, <3>10, <3>11
      <4> QED  BY <2>1, <4>1 DEF ReadUpTo
    <3> QED  BY <3>3, <3>12
  <2>5. Ended'
    BY <2>1 DEF Ended
  <2> QED  BY <2>2, <2>3, <2>4, <2>5 DEF PktIInv
<1>6. CASE ~r.ok
  <2>1. /\ pkt'.frames = fs /\ pkt'.bytes = pkt.bytes /\ pkt'.buf = pkt.buf
        /\ pkt'.got = pkt.got /\ pkt'.error = r.line.kind /\ pkt'.done = TRUE
    BY <1>2, <1>6
  <2>2. Shape'
    <3>1. pkt' = [frames |-> pkt'.frames, bytes |-> pkt'.bytes, buf |-> pkt'.buf,
                  got |-> pkt'.got, error |-> pkt'.error, done |-> pkt'.done]
      BY <1>2, <1>6
    <3> QED  BY <1>1, <2>1, <3>1 DEF Shape
  <2>3. Consumed'
    BY <2>1 DEF PktIInv, Consumed
  <2>4. Arrived'
    <3> SUFFICES ASSUME fs # << >> PROVE \E m \in 0 .. Len(fs) : ReadUpTo(m)'
      BY <2>1 DEF Arrived
    <3>1. PICK m \in 0 .. Len(fs) : ReadUpTo(m)
      BY DEF PktIInv, Arrived
    <3>2. Len(pkt.buf) < Len(WriteFrame(fs[m + 1]))
      <4>1. CASE ~(Len(pkt.buf) < Len(WriteFrame(fs[m + 1])))
        <5>1. m < Len(fs) /\ Whole(fs[m + 1], pkt.buf)
          BY <1>4, <3>1, <4>1
        <5> DEFINE f == fs[m + 1]
                   b == pkt.buf
        <5>2. IsFrame(f)
          <6>1. m + 1 \in 1 .. Len(fs)
            BY <1>3, <5>1
          <6> QED  BY <1>3, <6>1
        <5> HIDE DEF f, b
        <5>3. PICK rest \in Seq(Byte) : b = WriteFrame(f) \o rest
          BY <5>1 DEF f, b, Whole
        <5>4. PktRead(b) = Took(Line(f), rest)
          BY <5>2, <5>3, ReadWhole
        <5> QED  BY <1>6, <5>4 DEF Took, b
      <4> QED  BY <4>1
    <3>3. ReadUpTo(m)'
      BY <2>1, <3>1, <3>2 DEF ReadUpTo
    <3> QED  BY <3>3
  <2>5. Ended'
    <3>1. r.line.kind # "none"
      BY <1>6 DEF PktRead, Failed, Took, Sentinel
    <3> QED  BY <2>1, <3>1 DEF Ended
  <2> QED  BY <2>2, <2>3, <2>4, <2>5 DEF PktIInv
<1> QED  BY <1>5, <1>6

\* At the end, the frames read are those that have arrived whole.
LEMMA LastWhole ==
  ASSUME NEW S, NEW fs \in Seq(S), \A n \in 1 .. Len(fs) : IsFrame(fs[n]),
         NEW bytes \in Seq(Byte), NEW m \in 0 .. Len(fs), NEW buf \in Seq(Byte), Leaves(bytes, fs, m, buf),
         m < Len(fs) => Len(buf) < Len(WriteFrame(fs[m + 1]))
  PROVE  /\ IsPrefix(Sent(fs, m), bytes)
         /\ \A n \in 0 .. Len(fs) : IsPrefix(Sent(fs, n), bytes) => n <= m
         /\ buf = << >> <=> bytes = Sent(fs, m)
<1> DEFINE L == Len(fs)
           w == Sent(fs, m)
<1>1. L \in Nat /\ m \in Nat /\ m <= L
  OBVIOUS
<1>2. w \in Seq(Byte)
  BY SentGrows
<1> HIDE DEF w, L
<1>3. /\ Len(w \o buf) = Len(w) + Len(buf) /\ Len(w) \in Nat /\ Len(buf) \in Nat
      /\ \A j \in 1 .. Len(w) : (w \o buf)[j] = w[j]
  BY <1>2, Joined
<1>4. bytes = w \o buf
  BY DEF Leaves, w
<1>5. Len(bytes) = Len(w) + Len(buf) /\ \A j \in 1 .. Len(w) : w[j] = bytes[j]
  BY <1>3, <1>4
<1>6. IsPrefix(w, bytes)
  <2>1. Len(w) <= Len(bytes)
    BY <1>3, <1>5
  <2>2. ASSUME NEW x \in Seq(Byte), NEW y \in Seq(Byte), Len(x) <= Len(y), \A j \in 1 .. Len(x) : x[j] = y[j]
        PROVE  IsPrefix(x, y)
    BY <2>2, PrefixFacts
  <2> QED  BY <1>2, <1>5, <2>1, <2>2
<1>7. ASSUME NEW n \in 0 .. L, ~(n <= m) PROVE ~IsPrefix(Sent(fs, n), bytes)
  <2> DEFINE k == m + 1
             F == WriteFrame(fs[k])
  <2>1. k \in 1 .. L /\ k \in 0 .. L /\ k - 1 = m /\ k <= n /\ m < L
    BY <1>1, <1>7
  <2>2. Len(buf) < Len(F)
    BY <2>1 DEF L
  <2> HIDE DEF k
  <2>3. Sent(fs, k) = w \o F
    <3>1. Sent(fs, k) = Sent(fs, k - 1) \o WriteFrame(fs[k])
      BY <2>1, SentFacts DEF L
    <3> QED  BY <2>1, <3>1 DEF w
  <2>4. F \in Seq(Byte) /\ Len(F) \in Nat
    BY <2>1, WireType DEF L
  <2>5. PICK t \in Seq(Byte) : Sent(fs, n) = Sent(fs, k) \o t
    BY <2>1, SentGrows DEF L
  <2>6. Sent(fs, n) \in Seq(Byte) /\ Sent(fs, k) \in Seq(Byte)
    BY <2>1, SentGrows DEF L
  <2> HIDE DEF F
  <2>7. Len(Sent(fs, k)) = Len(w) + Len(F)
    <3>1. Len(w \o F) = Len(w) + Len(F)
      BY <1>2, <2>4
    <3> QED  BY <2>3, <3>1
  <2>8. Len(Sent(fs, n)) = Len(Sent(fs, k)) + Len(t) /\ Len(t) \in Nat
    <3> DEFINE x == Sent(fs, k)
    <3> HIDE DEF x
    <3>1. x \in Seq(Byte)
      BY <2>6 DEF x
    <3>2. Len(x \o t) = Len(x) + Len(t) /\ Len(t) \in Nat
      BY <3>1
    <3> QED  BY <2>5, <3>2 DEF x
  <2>9. ~(Len(Sent(fs, n)) <= Len(bytes))
    BY <1>3, <1>5, <2>2, <2>4, <2>7, <2>8
  <2> QED  BY <2>9 DEF IsPrefix
<1>8. buf = << >> <=> bytes = w
  <2>1. ASSUME buf = << >> PROVE bytes = w
    BY <1>2, <1>4, <2>1
  <2>2. ASSUME bytes = w PROVE buf = << >>
    <3>1. Len(buf) = 0
      BY <1>3, <1>5, <2>2
    <3> QED  BY <3>1
  <2> QED  BY <2>1, <2>2
<1> QED  BY <1>6, <1>7, <1>8 DEF w, L

LEMMA PktExact == ASSUME PktIInv PROVE FramesExact
<1>1. PICK s \in Streams : pkt.frames = s.frames /\ pkt.bytes = s.bytes
  BY DEF PktIInv, Shape
<1> DEFINE fs == pkt.frames
           bytes == pkt.bytes
           buf == pkt.buf
<1>2. /\ bytes \in Seq(Byte)
      /\ fs \in Seq(Range(fs)) /\ Len(fs) \in Nat
      /\ \A n \in 1 .. Len(fs) : IsFrame(fs[n])
  BY <1>1, Peers
<1>3. Plus \notin Range(bytes) => bytes = WriteFrames(pkt.got) \o buf
  <2>1. Plus \notin Range(bytes) => Unsigned(bytes)
    BY DEF Range, Unsigned
  <2> QED  BY <2>1 DEF PktIInv, Consumed
<1>4. ASSUME pkt.done, fs # << >>
      PROVE  LET upTo(n) == SubSeq(fs, 1, n)
                 whole == Max({n \in 0 .. Len(fs) : IsPrefix(WriteFrames(upTo(n)), bytes)})
             IN  /\ pkt.got = Written(upTo(whole))
                 /\ pkt.error = "none" <=> bytes = WriteFrames(upTo(whole))
  <2>1. PICK m \in 0 .. Len(fs) : ReadUpTo(m)
    BY <1>4 DEF PktIInv, Arrived
  <2>2. /\ pkt.got = Written(SubSeq(fs, 1, m)) /\ buf \in Seq(Byte) /\ Leaves(bytes, fs, m, buf)
        /\ m < Len(fs) => Len(buf) < Len(WriteFrame(fs[m + 1]))
    BY <1>4, <2>1 DEF ReadUpTo, Leaves
  <2>3. pkt.error = "none" <=> buf = << >>
    BY <1>4 DEF PktIInv, Ended
  <2> HIDE DEF fs, bytes, buf
  <2>4. /\ IsPrefix(Sent(fs, m), bytes)
        /\ \A n \in 0 .. Len(fs) : IsPrefix(Sent(fs, n), bytes) => n <= m
        /\ buf = << >> <=> bytes = Sent(fs, m)
    BY <1>2, <2>2, LastWhole
  <2> DEFINE A == {n \in 0 .. Len(fs) : IsPrefix(Sent(fs, n), bytes)}
  <2>5. m \in A /\ (\A n \in A : n <= m) /\ (\A n \in A : n \in Int) /\ m \in Int
    BY <1>2, <2>4
  <2>6. Max(A) = m
    <3> HIDE DEF A
    <3>1. \A x \in A : (\A y \in A : x >= y) => x = m
      BY <2>5
    <3>2. \A y \in A : m >= y
      BY <2>5
    <3> QED  BY <2>5, <3>1, <3>2 DEF Max
  <2>7. Max({n \in 0 .. Len(fs) : IsPrefix(WriteFrames(SubSeq(fs, 1, n)), bytes)}) = m
    BY <2>6 DEF Sent
  <2> QED  BY <2>2, <2>3, <2>4, <2>7 DEF Sent
<1> QED  BY <1>3, <1>4 DEF FramesExact

\* PktIter, on any stream: the frames it yields are those that are in the
\* bytes, and of frames that were written, those that arrived whole come
\* back, with an error exactly if the stream ends in a frame.
THEOREM FramesReadBack == PktSpec => []FramesExact
<1>1. (\E s \in Streams : PktStart(s)) => PktIInv
  BY InitPktIInv
<1>2. PktIInv /\ [PktNext]_pkt => PktIInv'
  <2> SUFFICES ASSUME PktIInv, [PktNext]_pkt PROVE PktIInv'
    OBVIOUS
  <2>1. CASE UNCHANGED pkt
    BY <2>1 DEF PktIInv, Shape, Consumed, Arrived, Ended, ReadUpTo
  <2>2. CASE PktNext /\ pkt.buf = << >>
    BY <2>2, StopKeeps DEF PktNext
  <2>3. CASE PktNext /\ pkt.buf # << >>
    BY <2>3, ReadKeeps DEF PktNext
  <2> QED  BY <2>1, <2>2, <2>3
<1>3. PktIInv => FramesExact
  BY PktExact
<1> QED  BY <1>1, <1>2, <1>3, PTL DEF PktSpec
====
