------------------------------ MODULE MCAccess ------------------------------
(* Two requests at a time, an owner and a stranger, and a quota of one.    *)
EXTENDS Access, TLC

Symmetry == Permutations(Repo) \cup Permutations(Token) \cup Permutations(Req) \cup Permutations(User)
============================================================================
