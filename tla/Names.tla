------------------------------- MODULE Names -------------------------------
(***************************************************************************)
(* The validators of refs, branches, paths and ids (ids.rs, commits.rs,    *)
(* reads/helpers.rs, storage.rs), against git's own rules and each other.  *)
(*                                                                         *)
(* A name is a sequence of characters: those the rules single out stand    *)
(* for themselves, "lock" and "git" for words that only matter whole, "a"  *)
(* and "A" for the rest, "bad" for ~ ^ ? * [, "ctl" for a control      *)
(* character that is neither NUL, nor a blank, nor DEL.  Limits on lengths *)
(* and the special name HEAD are left out.                                 *)
(***************************************************************************)
EXTENDS Naturals, Sequences, SequencesExt

Character == {"a", "A", "lock", "git", "/", ".", "-", "@", "{", "\\", ":", " ", "bad", "ctl", "nul"}

Parts(s) ==
    FoldLeft(LAMBDA parts, c : IF c = "/" THEN Append(parts, <<>>)
                               ELSE [parts EXCEPT ![Len(parts)] = Append(@, c)],
             <<<<>>>>, s)

HasWord(s, w) == \E i \in 1..Len(s) - Len(w) + 1 : SubSeq(s, i, i + Len(w) - 1) = w
StartsWith(s, c) == IsPrefix(<<c>>, s)
EndsWith(s, w) == IsSuffix(w, s)

Reserved == {"bad", ":", " ", "ctl", "nul"}

(* What valid_ref_name and valid_branch_name have in common.               *)
WellFormed(s) ==
    /\ s # <<>>
    /\ ~StartsWith(s, "/") /\ ~EndsWith(s, <<"/">>) /\ ~EndsWith(s, <<".">>)
    /\ \A w \in {<<"/", "/">>, <<".", ".">>, <<"@", "{">>, <<"\\">>} : ~HasWord(s, w)
    /\ Range(s) \cap Reserved = {}

ValidRefName(s) ==
    /\ WellFormed(s)
    /\ \A part \in Range(Parts(s)) :
           /\ part # <<>> /\ ~StartsWith(part, ".") /\ ~StartsWith(part, "-")
           /\ ~EndsWith(part, <<".", "lock">>)

ValidBranchName(s) ==
    /\ WellFormed(s) /\ s # <<"@">>
    /\ \A part \in Range(Parts(s)) :
           part # <<>> /\ ~StartsWith(part, ".") /\ ~EndsWith(part, <<".", "lock">>)

(* As a word: .git in any case.  A component of Path is not normal if it   *)
(* is empty, . or .. .                                                     *)
ValidPath(p) ==
    /\ p # <<>> /\ ~StartsWith(p, "/") /\ ~EndsWith(p, <<"/">>) /\ ~HasWord(p, <<"/", "/">>)
    /\ "nul" \notin Range(p)
    /\ \A part \in Range(Parts(p)) :
           /\ part \notin {<<>>, <<".">>, <<".", ".">>, <<".", "git">>}
           /\ "ctl" \notin Range(part)

(* The permissive ones of the read endpoints.                              *)
ValidateRefOrSha(s) ==
    /\ s # <<>> /\ ~StartsWith(s, "-")
    /\ Range(s) \cap {" ", "nul", ":", "bad", "\\"} = {}

ValidatePath(p) ==
    p # <<>> /\ ~StartsWith(p, "/") /\ ~HasWord(p, <<".", ".">>) /\ "nul" \notin Range(p)

(* The part after refs/notes/.                                             *)
ValidNotesRef(s) ==
    /\ s # <<>> /\ ~StartsWith(s, "/") /\ ~HasWord(s, <<"/", "/">>) /\ ~EndsWith(s, <<"/">>)
    /\ Range(s) \cap Reserved = {}

ValidateRepoId(s) == s # <<>> /\ Range(s) \subseteq {"a", "lock", "git", "-"}

(* An object id as the commit endpoint takes it, and as the stores do.     *)
ValidateSha(s) == s # <<>> /\ Range(s) \subseteq {"a", "A"}
Oid(s) == ValidateSha(s) /\ "A" \notin Range(s)

(* Joined to the root: every component is a normal one.                    *)
SafeDescendant(path) ==
    \A part \in Range(Parts(path)) : part \notin {<<>>, <<".">>, <<".", ".">>}

RepoPath(id) == id \o <<".", "git">>

-----------------------------------------------------------------------------
(* git check-ref-format, from its manual, for a name below refs/heads/.    *)

CheckRefFormat(s) ==
    /\ Range(s) \cap ({"\\"} \cup Reserved) = {}
    /\ \A part \in Range(Parts(s)) :
           part # <<>> /\ part[1] # "." /\ ~EndsWith(part, <<".", "lock">>)
    /\ \A w \in {<<".", ".">>, <<"@", "{">>} : ~HasWord(s, w)
    /\ s[Len(s)] # "."

(* The validators of a name s agree.  A branch is accepted exactly if git  *)
(* would accept the ref, but for the branch @.  One that is accepted makes *)
(* a RefName unless a part starts with a dash: the ref store then refuses  *)
(* what the handler let through.  What can be written can be read by its   *)
(* name.  An object id is one for every endpoint if it is in lower case.   *)
(* No path or id that is accepted leaves its directory, and a path that a  *)
(* commit may write can be read back unless it has two dots in a row.      *)
NamesAgree(s) ==
    LET dashed == \E part \in Range(Parts(s)) : StartsWith(part, "-")
    IN  /\ ValidBranchName(s) <=> CheckRefFormat(s) /\ s # <<"@">>
        /\ ValidRefName(s) <=> CheckRefFormat(s) /\ ~dashed
        /\ ValidRefName(s) => ValidateRefOrSha(s) /\ ValidNotesRef(s)
        /\ ValidPath(s) => SafeDescendant(s) /\ (ValidatePath(s) \/ HasWord(s, <<".", ".">>))
        /\ ValidateSha(s) => ValidateRefOrSha(s) /\ (Oid(s) \/ "A" \in Range(s))
        /\ ValidateRepoId(s) => SafeDescendant(RepoPath(s))

=============================================================================
