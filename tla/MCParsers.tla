----------------------------- MODULE MCParsers -----------------------------
(***************************************************************************)
(* Inputs for the parsers: histories of up to two commits whose messages   *)
(* hold newlines and \x01, trees of up to three leaves, diffs of up to two *)
(* files with every sort of line, merges with up to two conflicts, scrapes *)
(* of two series with and without a restart, names of up to four           *)
(* characters, and byte streams that are frames cut anywhere or that are   *)
(* no frames at all.                                                       *)
(***************************************************************************)
EXTENDS Parsers

ca == 97
cb == 98

Texts == UNION {[1..n -> {ca, NL, SOH}] : n \in 0..2}

CommitWith(parents, message) ==
    [sha |-> <<cb>>, parents |-> parents,
     author |-> [name |-> <<ca>>, email |-> <<>>],
     committer |-> [name |-> <<cb, SP, ca>>, email |-> <<ca>>],
     timestamp |-> 7, message |-> message]

Commits == {CommitWith(ps, m) : ps \in {<<>>, <<<<ca>>>>, <<<<ca>>, <<cb>>>>}, m \in Texts}
LastCommit == {CommitWith(<<>>, m) : m \in {<<>>, <<NL, ca>>, <<ca, SOH>>}}
Histories == {<<>>} \cup {<<c>> : c \in Commits} \cup {<<c, d>> : c \in Commits, d \in LastCommit}
Logs == [of : {"log"}, history : Histories, limit : {Absent, 1, 5}, skip : {Absent, 1}]

Paths == {<<ca>>, <<cb>>, <<ca, Slash, ca>>, <<ca, Dash, ca>>,
          <<ca, Slash, cb, Slash, ca>>, <<cb, Slash, ca>>}
Leaves == [path : Paths, type : {"blob"}, size : {3}] \cup [path : Paths, type : {"commit"}, size : {0}]
(* In the order of git, with no leaf twice and none below another.         *)
IsTree(ls) ==
    \A i, j \in DOMAIN ls : i < j =>
        Less(ls[i].path, ls[j].path) /\ ~IsPrefix(ls[i].path \o <<Slash>>, ls[j].path)
Trees == [of : {"tree"}, leaves : {ls \in UNION {[1..n -> Leaves] : n \in 0..3} : IsTree(ls)}]

Lines == {[sign |-> s, text |-> t] : s \in {"+", "-", " "}, t \in {"x", "++", "--"}}
Added == [sign |-> "+", text |-> "x"]
HunkOf(lines) == [old |-> <<4, 0>>, new |-> <<5, Len(lines)>>, lines |-> lines]
Hunks == {HunkOf(<<l>>) : l \in Lines} \cup {HunkOf(<<l, Added>>) : l \in Lines}
FileOf(path, status, binary, odd, hunks) ==
    [path |-> path, status |-> status, old |-> <<7>>, binary |-> binary, odd |-> odd, hunks |-> hunks]
Files(path) ==
    {FileOf(path, status, FALSE, FALSE, hs) : status \in {"added", "deleted", "modified", "renamed"},
         hs \in {<<>>} \cup {<<h>> : h \in Hunks} \cup {<<HunkOf(<<Added>>), h>> : h \in Hunks}}
    \cup {FileOf(path, "modified", TRUE, FALSE, <<>>),
          FileOf(path, "renamed", FALSE, TRUE, <<HunkOf(<<Added>>)>>)}
Diffs == [of : {"diff"}, files : {<<f>> : f \in Files(<<1>>)}
                                 \cup {<<f, g>> : f \in Files(<<1>>), g \in Files(<<2>>)}]

Words ==
    UNION {[1..n -> Character] : n \in 0..3}
    \cup [1..4 -> {"a", "lock", "git", "/", ".", "-", "@", "{"}]

Conflicts == [path : {<<ca>>, <<cb, SP>>, <<ca, TAB, cb>>, <<TAB>>}, stages : {<<2>>, <<1, 3>>, <<1, 2, 3>>}]
Merges == [of : {"merge"}, rc : {0, 128}, conflicts : {<<>>}]
    \cup [of : {"merge"}, rc : {1},
          conflicts : {<<c>> : c \in Conflicts}
                      \cup {cs \in [1..2 -> Conflicts] : cs[1].path # cs[2].path}]

Series(max) == [{1, 2, 4} -> 0..max]
Scrape(at, get, post) == [at |-> at, obs |-> [get |-> get, post |-> post],
                          limited |-> IF at = 0 THEN 0 ELSE 2,
                          quota |-> 1]
NoRequests == [v \in {1, 2, 4} |-> 0]
Scrapes ==
    {<<Scrape(0, f, NoRequests)>> : f \in Series(1)}
    \cup {<<Scrape(0, f[1], f[2]), Scrape(2, f[3], f[4])>> : f \in [1..4 -> Series(1)]}
    \cup {<<Scrape(0, f, f), Scrape(2, g, NoRequests)>> : f \in Series(1), g \in Series(3)}
    \cup {<<Scrape(0, f[1], NoRequests), Scrape(1, f[2], f[1]), Scrape(t, f[3], f[2])>> :
              t \in {300, 301, 302}, f \in [1..3 -> Series(1)]}
Overviews == [of : {"chart"}, scrapes : Scrapes, now : {303}]

MCRequests == Merges \cup Overviews \cup Logs \cup Trees \cup Diffs \cup [of : {"name"}, name : Words]

Frames == {Sentinel("flush"), Sentinel("delim"), Data(<<>>), Data(<<0>>),
           Data(<<0, 0, 5, Other>>), Data(<<4, Other, 1, 2, 3>>)}
Cuts(fs) ==
    LET all == WriteFrames(fs)
    IN  {[frames |-> fs, bytes |-> SubSeq(all, 1, k)] : k \in 0..Len(all)}
Advertisement ==
    [frames |-> <<Data(<<1>>), Sentinel("flush"), Data(<<2>>), Data(<<3, 4>>), Sentinel("flush")>>,
     bytes |-> NativeV2InfoRefs(<<1>>, <<<<2>>, <<3, 4>>>>)]

MCStreams ==
    UNION {Cuts(fs) : fs \in UNION {[1..n -> Frames] : n \in 1..3}}
    \cup [frames : {<<>>}, bytes : UNION {[1..n -> {0, 2, 3, 5, Plus, Other}] : n \in 0..5}]
    \cup {Advertisement}
=============================================================================
