----------------------------- MODULE AtomicRepo -----------------------------
(***************************************************************************)
(* What the write path promises: a repository is a set of objects that     *)
(* only grows and a map of refs that changes one entry at a time, to       *)
(* nothing or to a commit whose whole history is stored.  A request made   *)
(* through the REST API takes effect at most once, in one atomic step that *)
(* keeps everything the branch could reach before it.  A push may also     *)
(* move a branch backwards or delete it.                                   *)
(***************************************************************************)
EXTENDS CommitGraph

CONSTANTS Ref,      \* the ref names of the repository
          Rest      \* requests that are a REST commit or merge

VARIABLES heads,    \* heads[r] is the value of ref r
          stored,   \* the objects of the repository
          applied   \* the REST requests that have taken effect

avars == <<heads, stored, applied>>

AInit ==
    /\ heads = [r \in Ref |-> None]
    /\ stored = {}
    /\ applied = {}

Store ==
    /\ stored' \in SUBSET Commit
    /\ stored \subseteq stored'
    /\ UNCHANGED <<heads, applied>>

PushRef(r, v) ==
    /\ Reach({v}) \subseteq stored
    /\ heads' = [heads EXCEPT ![r] = v]
    /\ UNCHANGED <<stored, applied>>

Advance(q, r, v) ==
    /\ q \notin applied
    /\ Reach({v}) \subseteq stored
    /\ heads[r] = None \/ IsAncestor(heads[r], v)
    /\ heads' = [heads EXCEPT ![r] = v]
    /\ applied' = applied \cup {q}
    /\ UNCHANGED stored

ANext ==
    \/ Store
    \/ \E r \in Ref, v \in Tip : PushRef(r, v)
    \/ \E q \in Rest, r \in Ref, v \in Commit : Advance(q, r, v)

ASpec == AInit /\ [][ANext]_avars
=============================================================================
