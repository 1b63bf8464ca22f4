---------------------------- MODULE CommitGraph ----------------------------
(***************************************************************************)
(* The commit graph every repository of the server draws its objects from. *)
(* Git names an object by the hash of its contents, so what a commit's     *)
(* parents are is a constant, not a piece of state: only which objects a   *)
(* repository holds changes.  A member of Commit stands for a commit       *)
(* together with the trees and blobs that are written with it.             *)
(***************************************************************************)
CONSTANTS Commit,   \* object ids
          Parents,  \* the parents of each commit
          None      \* an absent ref; ZERO_SHA on the wire

ASSUME ParentsAssumption == Parents \in [Commit -> SUBSET Commit]
ASSUME NoneAssumption == None \notin Commit

Tip == Commit \cup {None}   \* Option<Oid>

Closed(S) == \A c \in S : Parents[c] \subseteq S

(* The objects `git rev-list --objects` lists from the tips T: the least   *)
(* closed set that holds them.  It is written as an intersection so that   *)
(* the proofs need no induction.                                           *)
Reach(T) ==
    {c \in Commit : \A S \in SUBSET Commit :
                       (Closed(S) /\ T \cap Commit \subseteq S) => c \in S}

(* `git merge-base --is-ancestor a b`.                                     *)
IsAncestor(a, b) == a \in Reach({b})
=============================================================================
