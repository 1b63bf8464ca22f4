------------------------------ MODULE Parsers ------------------------------
(***************************************************************************)
(* The parsers side by side: a request brings an input, its handler        *)
(* answers.  Inputs are what git can have to say, or what a client sends.  *)
(***************************************************************************)
EXTENDS PktLine, GitOutput, Names, Charts

CONSTANT Requests

VARIABLES request, response

parseVars == <<pkt, request, response>>

(* The body of a git request, or a request to one of the read endpoints.   *)
ParseInit ==
    /\ \/ request = Absent /\ \E s \in Streams : PktStart(s)
       \/ request \in Requests /\ PktStart([frames |-> <<>>, bytes |-> <<>>])
    /\ response = Absent

Handle(r) ==
    CASE r.of = "log"   -> ListCommits(r.history, r.limit, r.skip)
      [] r.of = "tree"  -> GetTree(RenderTree(r.leaves))
      [] r.of = "diff"  -> ParseDiff(RenderNumstat(r.files), RenderPatch(r.files))
      [] r.of = "merge" -> RunMergeTree(r.rc, RenderMergeTree(r.rc, r.conflicts))
      [] r.of = "chart" -> RenderOverview(r.scrapes, r.now)
      [] r.of = "name"  -> ValidBranchName(r.name)

Respond ==
    /\ request # Absent /\ response = Absent
    /\ response' = Handle(request)
    /\ UNCHANGED <<pkt, request>>

ReadFrame == PktNext /\ UNCHANGED <<request, response>>

-----------------------------------------------------------------------------

UpTo(s, c) ==
    LET at == {i \in DOMAIN s : s[i] = c}
    IN  IF at = {} THEN s ELSE SubSeq(s, 1, Min(at) - 1)

(* list_commits answers with the page of the history that was asked for:   *)
(* each commit as it is, but that the newlines a message starts with go,   *)
(* and so does all of it from the first byte \x01 on.                      *)
LogExact(r, answer) ==
    LET skip == IF r.skip = Absent THEN 0 ELSE r.skip
        n == CommitsLimit(r.limit)
        page == SubSeq(r.history, skip + 1,
                       IF skip + n < Len(r.history) THEN skip + n ELSE Len(r.history))
    IN  answer = [i \in DOMAIN page |->
            [page[i] EXCEPT !.message = TrimStart(UpTo(@, SOH), {NL})]]

(* get_tree lists each leaf once, with its size, and each directory above  *)
(* a leaf once; the directories come first, and both are in order.         *)
TreeExact(r, answer) ==
    LET files == {[path |-> l.path,
                   kind |-> IF l.type = "blob" THEN "file" ELSE "submodule",
                   size |-> IF l.type = "blob" THEN l.size ELSE Absent] : l \in Range(r.leaves)}
        under(d) == \E l \in Range(r.leaves) : IsPrefix(d \o <<Slash>>, l.path)
        dirs == {e \in Range(answer) : e.kind = "dir"}
    IN  /\ IsInjective(answer)
        /\ Range(answer) \ dirs = files
        /\ \A e \in dirs : under(e.path) /\ e.size = Absent
        /\ \A l \in Range(r.leaves) : \A i \in DOMAIN l.path : l.path[i] = Slash =>
               \E e \in dirs : e.path = SubSeq(l.path, 1, i - 1)
        /\ \A i, j \in DOMAIN answer : i < j =>
               /\ answer[j].kind = "dir" => answer[i].kind = "dir"
               /\ answer[i].kind = answer[j].kind => ~Less(answer[j].path, answer[i].path)

(* parse_diff gives each file its status, its counts and its hunks, where  *)
(* a changed line that looks like the header of a file is missing; this    *)
(* unless some file is an odd one.                                         *)
DiffExact(r, answer) ==
    LET hunk(h) == [h EXCEPT !.lines = SelectSeq(@, LAMBDA l : ~HeaderLike(l))]
    IN  (\A f \in Range(r.files) : ~f.odd) =>
            answer = [i \in DOMAIN r.files |->
                LET f == r.files[i]
                IN  [path |-> f.path, status |-> f.status,
                     old |-> IF f.status = "renamed" THEN f.old ELSE Absent,
                     additions |-> Count(f, "+"), deletions |-> Count(f, "-"),
                     hunks |-> [j \in DOMAIN f.hunks |-> hunk(f.hunks[j])]]]

(* run_merge_tree reports each path in conflict once, and no other unless  *)
(* one of them has a tab in it.                                            *)
MergeExact(r, answer) ==
    LET paths == [i \in DOMAIN r.conflicts |-> r.conflicts[i].path]
    IN  CASE r.rc = 0 -> answer.outcome = "clean"
          [] r.rc = 1 -> /\ answer.outcome = "conflict" /\ IsInjective(answer.paths)
                         /\ IsPrefix(paths, answer.paths)
                         /\ (\A i \in DOMAIN paths : TAB \notin Range(paths[i])) => answer.paths = paths
          [] OTHER    -> answer.outcome = "error"

(* Every parser gives back what was put in, up to what the comments above  *)
(* and at FramesExact, NamesAgree and ChartsExact say gets lost            *)
(* (pkt_line.rs, the log, tree and diff of reads/mod.rs, the conflicts of  *)
(* merge.rs, the validators of names, the charts of the dashboard).        *)
ParsersExact ==
    /\ FramesExact
    /\ response # Absent =>
           CASE request.of = "log"  -> LogExact(request, response)
             [] request.of = "tree" -> TreeExact(request, response)
             [] request.of = "diff" -> DiffExact(request, response)
             [] request.of = "merge" -> MergeExact(request, response)
             [] request.of = "chart" -> ChartsExact(request.scrapes, request.now, response)
             [] request.of = "name" -> NamesAgree(request.name)

=============================================================================
