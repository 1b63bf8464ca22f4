----------------------------- MODULE GitOutput -----------------------------
(***************************************************************************)
(* What the handlers make of the output of git: of the read endpoints, the *)
(* commit log, the tree of a commit, its diff, and of merge-tree, the      *)
(* paths in conflict (merge.rs).                                           *)
(*                                                                         *)
(* A text is a sequence of characters, numbers in the order of their       *)
(* codes; only those that a parser looks for have names.  The Render       *)
(* operators are git's side and external.                                  *)
(***************************************************************************)
EXTENDS Integers, Sequences, FiniteSets, SequencesExt

CONSTANTS CommitsLimitDefault, CommitsLimitMax, Absent

NUL == 0
SOH == 1
TAB == 9
NL == 10
SP == 32
Dash == 45
Slash == 47
Digit(n) == 48 + n

Blank == {TAB, NL, SP}

SplitOn(s, sep) ==
    FoldLeft(LAMBDA parts, c : IF c = sep THEN Append(parts, <<>>)
                               ELSE [parts EXCEPT ![Len(parts)] = Append(@, c)],
             <<<<>>>>, s)

Concat(parts) == FoldLeft(LAMBDA all, part : all \o part, <<>>, parts)

TrimStart(s, blanks) ==
    LET kept == {i \in DOMAIN s : s[i] \notin blanks}
    IN  IF kept = {} THEN <<>> ELSE SubSeq(s, Min(kept), Len(s))

Trim(s) ==
    LET kept == {i \in DOMAIN s : s[i] \notin Blank}
    IN  IF kept = {} THEN <<>> ELSE SubSeq(s, Min(kept), Max(kept))

SplitWhitespace(s) ==
    SelectSeq(SplitOn([i \in DOMAIN s |-> IF s[i] \in Blank THEN SP ELSE s[i]], SP),
              LAMBDA part : part # <<>>)

ParseNumber(s, otherwise) ==
    IF s # <<>> /\ \A i \in DOMAIN s : s[i] \in Digit(0)..Digit(9)
    THEN FoldLeft(LAMBDA n, d : 10 * n + (d - Digit(0)), 0, s)
    ELSE otherwise

-----------------------------------------------------------------------------
(* GET /v1/repos/:id/commits                                               *)

(* LOG_FORMAT; git ends each record with a newline of its own.             *)
RenderCommit(c) ==
    c.sha \o <<SOH>>
    \o Concat([i \in DOMAIN c.parents |-> IF i = 1 THEN c.parents[i] ELSE <<SP>> \o c.parents[i]])
    \o <<SOH>> \o c.author.name \o <<SOH>> \o c.author.email
    \o <<SOH>> \o c.committer.name \o <<SOH>> \o c.committer.email
    \o <<SOH>> \o <<Digit(c.timestamp)>> \o <<SOH>> \o c.message \o <<NUL, NL>>

RenderLog(history, limit, skip) ==
    LET last == IF skip + limit < Len(history) THEN skip + limit ELSE Len(history)
    IN  Concat([i \in 1..(IF last > skip THEN last - skip ELSE 0) |->
                    RenderCommit(history[skip + i])])

CommitSummary(f) ==
    [sha       |-> Trim(f[1]),
     parents   |-> SplitWhitespace(f[2]),
     author    |-> [name |-> f[3], email |-> f[4]],
     committer |-> [name |-> f[5], email |-> f[6]],
     timestamp |-> ParseNumber(Trim(f[7]), 0),
     message   |-> TrimStart(f[8], {NL})]

(* What is left after the last record has one field only and is skipped.   *)
ParseLogRecords(bytes) ==
    LET records == SplitOn(bytes, NUL)
        fields == [i \in DOMAIN records |-> SplitOn(records[i], SOH)]
        whole == SelectSeq(fields, LAMBDA f : Len(f) >= 8)
    IN  [i \in DOMAIN whole |-> CommitSummary(whole[i])]

CommitsLimit(limit) ==
    LET asked == IF limit = Absent THEN CommitsLimitDefault ELSE limit
    IN  IF asked < CommitsLimitMax THEN asked ELSE CommitsLimitMax

ListCommits(history, limit, skip) ==
    ParseLogRecords(RenderLog(history, CommitsLimit(limit), IF skip = Absent THEN 0 ELSE skip))

-----------------------------------------------------------------------------
(* GET /v1/repos/:id/tree                                                  *)

(* ls-tree -r -l -z: the leaves, with a size for the blobs.                *)
RenderTree(leaves) ==
    [i \in DOMAIN leaves |->
        [type |-> leaves[i].type,
         size |-> IF leaves[i].type = "blob" THEN <<Digit(leaves[i].size)>> ELSE <<Dash>>,
         path |-> leaves[i].path]]

Less(s, t) ==
    \/ IsStrictPrefix(s, t)
    \/ \E i \in DOMAIN s \cap DOMAIN t :
           s[i] < t[i] /\ SubSeq(s, 1, i - 1) = SubSeq(t, 1, i - 1)

(* The parent directories of a path.                                       *)
Parents(path) == {SubSeq(path, 1, i - 1) : i \in {j \in DOMAIN path : path[j] = Slash}}

TreeEntry(r) ==
    [path |-> r.path,
     kind |-> IF r.type = "blob" THEN "file" ELSE "submodule",
     size |-> ParseNumber(r.size, Absent)]

Before(a, b) ==
    \/ a.kind = "dir" /\ b.kind # "dir"
    \/ (a.kind = "dir" <=> b.kind = "dir") /\ Less(a.path, b.path)

GetTree(records) ==
    LET entries == [i \in DOMAIN records |-> TreeEntry(records[i])]
        dirs == UNION {Parents(records[i].path) : i \in DOMAIN records}
        implied == {d \in dirs : \A i \in DOMAIN entries : entries[i].path # d}
        all == Range(entries) \cup {[path |-> d, kind |-> "dir", size |-> Absent] : d \in implied}
    IN  SetToSortSeq(all, Before)

-----------------------------------------------------------------------------
(* GET /v1/repos/:id/diff.  A line of a hunk is a sign and a text; a text  *)
(* stands for those that start with two plus signs, two minus signs, or    *)
(* neither.  An odd file is one whose name git puts in quotes, or that was *)
(* renamed within its directory and is listed as dir/{old => new}.         *)

Body(sign, text) == [tag |-> "body", sign |-> sign, text |-> text]
Mark(tag) == [tag |-> tag]

Count(f, sign) ==
    FoldLeft(LAMBDA n, h : n + Len(SelectSeq(h.lines, LAMBDA l : l.sign = sign)), 0, f.hunks)

RenderNumstat(files) ==
    [i \in DOMAIN files |->
        [additions |-> IF files[i].binary THEN Absent ELSE Count(files[i], "+"),
         deletions |-> IF files[i].binary THEN Absent ELSE Count(files[i], "-"),
         path |-> IF files[i].odd THEN <<Slash>> \o files[i].path ELSE files[i].path,
         old  |-> IF files[i].status = "renamed" THEN files[i].old ELSE Absent]]

RenderHunk(h) ==
    <<[tag |-> "@@",
       old |-> [start |-> h.old[1], lines |-> IF h.old[2] = 1 THEN Absent ELSE h.old[2]],
       new |-> [start |-> h.new[1], lines |-> IF h.new[2] = 1 THEN Absent ELSE h.new[2]]]>>
    \o [i \in DOMAIN h.lines |-> Body(h.lines[i].sign, h.lines[i].text)]

RenderFile(f) ==
    <<[tag |-> "diff", b |-> f.path]>>
    \o (CASE f.status = "added"   -> <<Mark("new file mode")>>
          [] f.status = "deleted" -> <<Mark("deleted file mode")>>
          [] f.status = "renamed" -> <<Mark("rename from"), Mark("rename to")>>
          [] OTHER                -> <<Mark("index")>>)
    \o (IF f.hunks = <<>> THEN <<>> ELSE <<Body("-", "--"), Body("+", "++")>>)
    \o Concat([i \in DOMAIN f.hunks |-> RenderHunk(f.hunks[i])])

RenderPatch(files) == Concat([i \in DOMAIN files |-> RenderFile(files[i])])

ParseHunkRange(r) == <<r.start, IF r.lines = Absent THEN 1 ELSE r.lines>>

(* The first pass.                                                         *)
FileDiff(n) ==
    [path |-> n.path,
     status |-> IF n.old = Absent THEN "modified" ELSE "renamed",
     old |-> n.old,
     additions |-> IF n.additions = Absent THEN 0 ELSE n.additions,
     deletions |-> IF n.deletions = Absent THEN 0 ELSE n.deletions,
     hunks |-> <<>>]

(* Push the open hunk, if there is one, to the file it belongs to.         *)
CloseHunk(st) ==
    [files |-> IF st.file = 0 \/ st.hunk = Absent THEN st.files
               ELSE [st.files EXCEPT ![st.file].hunks = Append(@, st.hunk)],
     file |-> st.file,
     hunk |-> Absent]

(* The lines that --- and +++ headers of a file look like.                 *)
HeaderLike(l) == (l.sign = "+" /\ l.text = "++") \/ (l.sign = "-" /\ l.text = "--")

SetStatus(st, status) ==
    IF st.file = 0 THEN st ELSE [st EXCEPT !.files[st.file].status = status]

(* A line of the patch.  A file that the first pass does not know changes  *)
(* nothing: what follows goes to the file before it.                       *)
DiffLine(st, line) ==
    CASE line.tag = "diff" ->
             LET at == {i \in DOMAIN st.files : st.files[i].path = line.b}
             IN  IF at = {} THEN st ELSE [CloseHunk(st) EXCEPT !.file = Min(at)]
      [] line.tag = "new file mode" -> SetStatus(st, "added")
      [] line.tag = "deleted file mode" -> SetStatus(st, "deleted")
      [] line.tag = "@@" ->
             [CloseHunk(st) EXCEPT !.hunk = [old |-> ParseHunkRange(line.old),
                                             new |-> ParseHunkRange(line.new),
                                             lines |-> <<>>]]
      [] line.tag = "body" /\ st.hunk # Absent /\ ~HeaderLike(line) ->
             [st EXCEPT !.hunk.lines = Append(@, [sign |-> line.sign, text |-> line.text])]
      [] OTHER -> st

ParseDiff(numstat, patch) ==
    LET first == [i \in DOMAIN numstat |-> FileDiff(numstat[i])]
        st == FoldLeft(DiffLine, [files |-> first, file |-> 0, hunk |-> Absent], patch)
    IN  CloseHunk(st).files

-----------------------------------------------------------------------------
(* POST /v1/repos/:id/merge: git merge-tree --write-tree -z.  A conflict   *)
(* is a path and its stages; after an empty record come the messages, each *)
(* with the path it is about and a text that names it.                     *)

RenderStages(c) ==
    Concat([i \in DOMAIN c.stages |-> <<Digit(c.stages[i]), TAB>> \o c.path \o <<NUL>>])

RenderMessage(c) == <<Digit(1), NUL>> \o c.path \o <<NUL, SP>> \o c.path \o <<NL, NUL>>

RenderMergeTree(rc, conflicts) ==
    IF rc \notin {0, 1} THEN <<>>
    ELSE <<Digit(7), NUL>>
         \o (IF rc = 0 THEN <<>>
             ELSE Concat([i \in DOMAIN conflicts |-> RenderStages(conflicts[i])])
                  \o <<NUL>>
                  \o Concat([i \in DOMAIN conflicts |-> RenderMessage(conflicts[i])]))

AfterFirst(s, c) == SubSeq(s, Min({i \in DOMAIN s : s[i] = c}) + 1, Len(s))

(* Each path once.  A record with a tab is a conflict.                     *)
ConflictPaths(report) ==
    FoldLeft(LAMBDA paths, record :
                 IF TAB \notin Range(record) \/ AfterFirst(record, TAB) \in Range(paths) THEN paths
                 ELSE Append(paths, AfterFirst(record, TAB)),
             <<>>, SplitOn(report, NUL))

RunMergeTree(rc, stdout) ==
    LET answer(outcome, paths) == [outcome |-> outcome, paths |-> paths]
        paths == IF NUL \in Range(stdout) THEN ConflictPaths(AfterFirst(stdout, NUL)) ELSE <<>>
    IN  IF rc \notin {0, 1} \/ NUL \notin Range(stdout) THEN answer("error", <<>>)
        ELSE IF rc = 0 THEN answer("clean", <<>>)
        ELSE answer(IF paths = <<>> THEN "error" ELSE "conflict", paths)

=============================================================================
