---------------------------- MODULE MCRefWrites ----------------------------
(* A diamond: a root, two children of it and the merge of the two.         *)
EXTENDS RefWrites, TLC

CONSTANTS c1, c2, c3, c4
MCCommit == {c1, c2, c3, c4}
MCParents == (c1 :> {}) @@ (c2 :> {c1}) @@ (c3 :> {c1}) @@ (c4 :> {c2, c3})
=============================================================================
