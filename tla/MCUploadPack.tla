--------------------------- MODULE MCUploadPack ----------------------------
(***************************************************************************)
(* A root, two children of it, and two branches; the client is empty, has  *)
(* the root, or has the root and a child.  c2 is older than its sibling,   *)
(* and than a client's c3.                                                 *)
(***************************************************************************)
EXTENDS UploadPack, TLC

CONSTANTS c1, c2, c3, main, dev
MCCommit == {c1, c2, c3}
MCParents == (c1 :> {}) @@ (c2 :> {c1}) @@ (c3 :> {c1})
MCTime == (c1 :> 1) @@ (c2 :> 2) @@ (c3 :> 3)
\* Empty, a fork of c1 as it was made, and one that was pushed to since.
Dir(l, p) == [loose |-> l, packed |-> p]
MCRepos ==
  LET Refs(m, d) == (main :> m) @@ (dev :> d)
  IN  {Dir(Refs(None, None), Refs(None, None)),
       Dir(Refs(None, None), Refs(c1, c1)),
       Dir(Refs(c2, None), Refs(c1, c1)),
       Dir(Refs(c2, c1), Refs(c1, None))}
MCClones == {{}, {c1}, {c1, c3}}
=============================================================================
