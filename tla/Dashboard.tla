----------------------------- MODULE Dashboard -----------------------------
(***************************************************************************)
(* The paged repository list and the desktop GUI that polls it.            *)
(*                                                                         *)
(* The server keeps the rows of `repos` in the order of their creation     *)
(* (ownership.rs) and serves them by LIMIT and OFFSET (rest/admin.rs,      *)
(* rest/repos.rs).  The poller thread of artifacts-gui walks the pages,    *)
(* then refreshes the detail of the selected repository; the UI thread     *)
(* draws what the poller has stored last, and the user clicks on it.       *)
(*                                                                         *)
(* A repository stands for its row: id, owner and the source it was forked *)
(* from.  Malformed are the rows that row_to_repo_row cannot decode: they  *)
(* are counted and skipped.                                                *)
(***************************************************************************)
EXTENDS Integers, Sequences, FiniteSets, SequencesExt

CONSTANTS RepoRow, Malformed, NoRepo,
          PageLimit,   \* PAGE_LIMIT = LIST_REPOS_MAX_LIMIT
          MaxPages,    \* MAX_PAGES
          MaxChanges,  \* bound on creations and deletions
          MaxClicks,   \* bound on the clicks of the user
          MaxFaults    \* bound on requests that fail

ASSUME DashboardAssumption ==
    /\ IsFiniteSet(RepoRow)
    /\ Malformed \subseteq RepoRow
    /\ NoRepo \notin RepoRow \cup Nat
    /\ PageLimit \in Nat \ {0}
    /\ MaxPages \in Nat \ {0}
    /\ {MaxChanges, MaxClicks, MaxFaults} \subseteq Nat

VARIABLES
    rows,      \* the table, newest first
    pc,        \* where the poller thread is
    walk,      \* the locals of fetch_all_repos_with
    asked,     \* the repository whose detail is being fetched
    shown,     \* AppState.repos
    detail,    \* AppState.detail, by its repository
    selected,  \* App.selected_repo and selected_for_detail
    layout,    \* ForkLayoutCache
    there,     \* history: the rows that have been there all through the walk
    moved,     \* history: the changes of the table during the walk
    left       \* what is left of the bounds

dashVars == <<rows, pc, walk, asked, shown, detail, selected, layout, there, moved, left>>

server == <<rows, there, moved>>
poller == <<pc, walk, asked>>
ui == <<selected, layout>>

Tables == {s \in UNION {[1..n -> RepoRow] : n \in 0..Cardinality(RepoRow)} : IsInjective(s)}

Walk == [offset : Nat, total : Nat \cup {NoRepo}, reply : Nat \cup {NoRepo}, out : Seq(RepoRow), pages : 0..MaxPages]

DashTypeOK ==
    /\ rows \in Seq(RepoRow) /\ IsInjective(rows)
    /\ pc \in {"sleep", "count", "page", "store", "select", "detail", "stash"}
    /\ walk \in Walk
    /\ asked \in RepoRow \cup {NoRepo}
    /\ shown \in Seq(RepoRow)
    /\ detail \in RepoRow \cup {NoRepo}
    /\ selected \in RepoRow \cup {NoRepo}
    /\ layout \in [fingerprint : [len : Nat, odd : SUBSET RepoRow], nodes : SUBSET RepoRow]
    /\ there \subseteq RepoRow
    /\ moved \in 0..MaxChanges
    /\ left \in [changes : 0..MaxChanges, clicks : 0..MaxClicks, faults : 0..MaxFaults]

FreshWalk == [offset |-> 0, total |-> NoRepo, reply |-> NoRepo, out |-> <<>>, pages |-> 0]

EmptyLayout == [fingerprint |-> [len |-> 0, odd |-> {}], nodes |-> {}]

DashInit ==
    /\ rows \in Tables
    /\ pc = "sleep"
    /\ walk = FreshWalk
    /\ asked = NoRepo
    /\ shown = <<>>
    /\ detail = NoRepo
    /\ selected = NoRepo
    /\ layout = EmptyLayout
    /\ there = {}
    /\ moved = 0
    /\ left = [changes |-> MaxChanges, clicks |-> MaxClicks, faults |-> MaxFaults]

-----------------------------------------------------------------------------
(* The table.  record_owner is an INSERT OR REPLACE: a row that is there   *)
(* already goes to its new place.  That place is the front, unless the     *)
(* clock of the host has gone back.                                        *)

Change(r, table) ==
    /\ left.changes > 0
    /\ rows' = table
    /\ IF pc \in {"count", "page"}
       THEN there' = there \ {r} /\ moved' = moved + 1
       ELSE UNCHANGED <<there, moved>>
    /\ left' = [left EXCEPT !.changes = @ - 1]
    /\ UNCHANGED <<poller, shown, detail, ui>>

InsertRow(r) ==
    LET others == RemoveFirst(rows, r)
    IN  \E p \in 1..Len(others) + 1 : Change(r, InsertAt(others, p, r))

RemoveRow(r) ==
    /\ r \in Range(rows)
    /\ Change(r, RemoveFirst(rows, r))

(* row_to_repo_row: the rows it can decode, in their order.                *)
Good(s) == {i \in DOMAIN s : s[i] \notin Malformed}
Decoded(s) ==
    [n \in 1..Cardinality(Good(s)) |->
        s[CHOOSE i \in Good(s) : Cardinality({j \in Good(s) : j <= i}) = n]]

ListPaginated(limit, offset) ==
    Decoded(SubSeq(rows, offset + 1, Min({offset + limit, Len(rows)})))

CountAll == Len(rows)

-----------------------------------------------------------------------------
(* The poller: poll_once, then the detail.                                 *)

StartPoll ==
    /\ pc = "sleep"
    /\ pc' = "count"
    /\ walk' = FreshWalk
    /\ there' = Range(rows)
    /\ moved' = 0
    /\ UNCHANGED <<rows, asked, shown, detail, ui, left>>

(* admin_list_repos counts first and reads the page in a second call.      *)
CountRows ==
    /\ pc = "count"
    /\ pc' = "page"
    /\ walk' = [walk EXCEPT !.reply = CountAll]
    /\ UNCHANGED <<server, asked, shown, detail, ui, left>>

(* A bug: the walk ends one row early.                                     *)
FinishedEarly(w, page) ==
    \/ Len(w.out) + 1 >= w.total
    \/ Len(page) < PageLimit

Finished(w, page) ==
    \/ Len(w.out) >= w.total
    \/ Len(page) < PageLimit

FetchPage ==
    /\ pc = "page"
    /\ LET page == ListPaginated(PageLimit, walk.offset)
           w == [walk EXCEPT !.total = IF @ = NoRepo THEN walk.reply ELSE @,
                             !.out = @ \o page,
                             !.pages = @ + 1]
           over == Finished(w, page) \/ w.pages = MaxPages
       IN  /\ pc' = IF over THEN "store" ELSE "count"
           /\ walk' = IF over THEN w ELSE [w EXCEPT !.offset = @ + Len(page)]
    /\ UNCHANGED <<server, asked, shown, detail, ui, left>>

EndWalk == walk' = FreshWalk /\ there' = {} /\ moved' = 0

(* GET /metrics comes after the list, and both are stored together.        *)
StoreList ==
    /\ pc = "store"
    /\ pc' = "select"
    /\ shown' = walk.out
    /\ EndWalk
    /\ UNCHANGED <<rows, asked, detail, ui, left>>

(* A request of poll_once fails: the list stays as it was.                 *)
PollFails ==
    /\ pc \in {"count", "page", "store"}
    /\ left.faults > 0
    /\ left' = [left EXCEPT !.faults = @ - 1]
    /\ pc' = "select"
    /\ EndWalk
    /\ UNCHANGED <<rows, asked, shown, detail, ui>>

ReadSelection ==
    /\ pc = "select"
    /\ asked' = selected
    /\ IF selected = NoRepo
       THEN pc' = "sleep" /\ detail' = NoRepo
       ELSE pc' = "detail" /\ UNCHANGED detail
    /\ UNCHANGED <<server, walk, shown, ui, left>>

(* admin_get_repo finds the row, or answers 404.                           *)
FetchDetail ==
    /\ pc = "detail"
    /\ IF asked \in Range(Decoded(rows))
       THEN pc' = "stash" /\ UNCHANGED asked
       ELSE pc' = "sleep" /\ asked' = NoRepo
    /\ UNCHANGED <<server, walk, shown, detail, ui, left>>

DetailFails ==
    /\ pc = "detail"
    /\ left.faults > 0
    /\ left' = [left EXCEPT !.faults = @ - 1]
    /\ pc' = "sleep"
    /\ asked' = NoRepo
    /\ UNCHANGED <<server, walk, shown, detail, ui>>

(* A bug: the detail that is there already is kept.                        *)
StashFirst ==
    /\ pc = "stash"
    /\ pc' = "sleep"
    /\ detail' = IF detail = NoRepo THEN asked ELSE detail
    /\ asked' = NoRepo
    /\ UNCHANGED <<server, walk, shown, ui, left>>

(* The answer is compared with what was asked for, and not with what is    *)
(* selected by now.                                                        *)
StashDetail ==
    /\ pc = "stash"
    /\ pc' = "sleep"
    /\ detail' = asked
    /\ asked' = NoRepo
    /\ UNCHANGED <<server, walk, shown, ui, left>>

-----------------------------------------------------------------------------
(* The UI thread: a frame draws a snapshot.                                *)

Snapshot == [repos |-> shown, detail |-> detail]

(* The Detail tab, by the repository it shows.                             *)
DetailTab == IF selected = NoRepo THEN NoRepo ELSE Snapshot.detail

Select(r) ==
    /\ left.clicks > 0
    /\ selected' = r
    /\ left' = [left EXCEPT !.clicks = @ - 1]

ClickRow(r) ==
    /\ r \in Range(Snapshot.repos)
    /\ Select(r)
    /\ UNCHANGED <<server, poller, shown, detail, layout>>

(* XOR over the hashes of the rows and their number: equal rows cancel.    *)
Fingerprint(list) ==
    [len |-> Len(list),
     odd |-> {r \in Range(list) : Cardinality({i \in DOMAIN list : list[i] = r}) % 2 = 1}]

Refreshed(list) ==
    IF Fingerprint(list) = layout.fingerprint /\ layout.nodes # {}
    THEN layout
    ELSE [fingerprint |-> Fingerprint(list), nodes |-> Range(list)]

(* A frame of the Forks tab, with or without a click on a node.            *)
RenderForks ==
    /\ Snapshot.repos # <<>>
    /\ layout' = Refreshed(Snapshot.repos)
    /\ \/ UNCHANGED <<selected, left>>
       \/ \E r \in Range(Snapshot.repos) \cap layout'.nodes : Select(r)
    /\ UNCHANGED <<server, poller, shown, detail>>

-----------------------------------------------------------------------------

Poll ==
    \/ StartPoll
    \/ CountRows
    \/ FetchPage
    \/ StoreList
    \/ PollFails
    \/ ReadSelection
    \/ FetchDetail
    \/ DetailFails
    \/ StashDetail

DashNext ==
    \/ \E r \in RepoRow : InsertRow(r) \/ RemoveRow(r) \/ ClickRow(r)
    \/ RenderForks
    \/ Poll

(* spawn_poller loops for ever and each request has a timeout.             *)
DashSpec == DashInit /\ [][DashNext]_dashVars /\ WF_dashVars(Poll)

-----------------------------------------------------------------------------

(* A walk loses no more of the repositories that were there all the time   *)
(* than the table changed meanwhile: offsets shift by one for each row     *)
(* created or deleted, also when duplicates make the walk stop at the      *)
(* total of its first page.  Without a malformed row, and below the cap.   *)
WalkLosesFew ==
    pc = "store" /\ Malformed = {} /\ walk.pages < MaxPages =>
        Cardinality(there \ Range(walk.out)) <= moved

(* When the user has stopped clicking, the Detail tab shows the selected   *)
(* repository, whatever was in flight, as long as it exists.               *)
DetailSettles ==
    \A r \in RepoRow \ Malformed :
        <>[](selected = r /\ r \in Range(rows)) => <>[](DetailTab = r)

(* What the comment in spawn_poller says: a detail is stored only if the   *)
(* selection has not changed meanwhile.  The code does not do this.        *)
DetailIsSelected == DetailTab \in {NoRepo, selected}

=============================================================================
