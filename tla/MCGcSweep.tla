----------------------------- MODULE MCGcSweep -----------------------------
(* A root commit and a child; a repository that holds both, and room for   *)
(* its fork.  It has one branch at the start.                              *)
EXTENDS GcSweep

CONSTANTS Root, Origin

MCParents == [c \in Commit |-> IF c = Root THEN {} ELSE {Root}]

MCInit ==
    /\ Init
    /\ \A r \in Repo : dir[r] = "whole" <=> r = Origin
    /\ file[Origin] = [c \in Commit |-> "old"]
    /\ \E c \in Commit : heads[Origin] = {c}

MCSpec == MCInit /\ [][Next]_vars /\ Fairness
============================================================================
