----------------------------- MODULE UploadPack -----------------------------
(***************************************************************************)
(* The read side of a repository: the native ls-refs and fetch of          *)
(* smart_http, git_wire and native_pack, the ref listings of refs.rs and   *)
(* rest.rs, and the REST reads that go to the repository twice.  None of   *)
(* them takes a lock: pushes, deletions, git's own pack-refs and the       *)
(* garbage collector run between their steps.                              *)
(*                                                                         *)
(* Requests that only read do not affect each other, so one request (or    *)
(* ls-refs and the fetch that follows it) is enough.  A ref is a file      *)
(* under refs/ (loose), a line of packed-refs, or both.                    *)
(***************************************************************************)
EXTENDS CommitGraph, Integers

CONSTANTS Ref,        \* branches; Main is the one that HEAD names
          Main,
          Time,       \* the committer's time of each commit, by any clock
          Repos,      \* what the repository may have: loose and packed refs
          Clones,     \* what the client may have: sets closed under Parents
          MaxWrites   \* bound on the steps of the writers

ASSUME RefAssumption == Main \in Ref /\ None \notin Ref
ASSUME TimeAssumption == Time \in [Commit -> Nat \ {0}]
ASSUME ReposAssumption ==
  Repos \subseteq [loose : [Ref -> Tip], packed : [Ref -> Tip]]
ASSUME ClonesAssumption ==
  \A S \in Clones : S \subseteq Commit /\ Closed(S)
ASSUME WritesAssumption == MaxWrites \in Nat

VARIABLES
    loose, packed,    \* the files under refs/ and the lines of packed-refs
    deleting,         \* the ref whose deletion is half done, or None
    packing,          \* whether git pack-refs is pruning loose files
    odb,              \* the commits of the repository
    writes,
    pc, head, rows, todo,      \* the listing
    wants, haves, commits,     \* the fetch
    mine,                      \* the objects of the client
    held, deleted, unlinked,   \* what happened to each ref since the start
    kept,                      \* the commits reachable ever since the start
    broken                     \* whether the native generator failed by itself

repo == <<loose, packed, deleting, packing, odb, writes>>
listing == <<head, rows, todo>>
fetch == <<wants, haves, commits, mine, broken>>
past == <<held, deleted, unlinked, kept>>
vars == <<repo, pc, listing, fetch, past>>

Empty == [r \in Ref |-> None]

\* What git takes a ref to be: the loose file, else the packed line.
Value(r) == IF loose[r] # None THEN loose[r] ELSE packed[r]
Live == Reach({Value(r) : r \in Ref})

\* A fetch ends as "packed" if generate_pack made the pack, as "done" if git did.
Running == pc \notin {"packed", "done", "listed", "read", "failed"}

\* The type invariant.
TypeOK ==
  /\ loose \in [Ref -> Tip] /\ packed \in [Ref -> Tip]
  /\ deleting \in Ref \cup {None} /\ packing \in BOOLEAN
  /\ odb \subseteq Commit /\ writes \in 0 .. MaxWrites
  /\ head \in Tip /\ rows \in [Ref -> Tip] /\ todo \subseteq Ref
  /\ wants \subseteq Commit /\ haves \subseteq Commit /\ commits \subseteq Commit
  /\ mine \subseteq Commit /\ kept \subseteq Commit
  /\ held \in [Ref -> SUBSET Tip] /\ deleted \subseteq Ref /\ unlinked \subseteq Ref
  /\ broken \in BOOLEAN
  /\ pc \in {"start", "head", "headPacked", "list", "walk", "walkRefs", "native", "pack",
             "fallback", "subprocess", "readObject", "packed", "done", "listed", "read", "failed"}

\* A fork (refs in packed-refs only), or a repository that was pushed to.
Init ==
  /\ \E d \in Repos : loose = d.loose /\ packed = d.packed
  /\ deleting = None /\ packing = FALSE
  /\ odb = Live /\ writes = 0
  /\ pc = "start" /\ head = None /\ rows = Empty /\ todo = {}
  /\ wants = {} /\ haves = {} /\ commits = {} /\ broken = FALSE
  /\ mine \in Clones
  /\ held = [r \in Ref |-> {Value(r)}] /\ deleted = {} /\ unlinked = {}
  /\ kept = Live

-----------------------------------------------------------------------------
(* The writers.                                                            *)

Write ==
  /\ Running
  /\ writes < MaxWrites /\ writes' = writes + 1
  /\ UNCHANGED <<pc, listing, fetch>>

\* What the request could have seen, after a step of a writer.
Observe ==
  /\ held' = [r \in Ref |-> held[r] \cup {Value(r)'}]
  /\ kept' = kept \cap Live'

\* cas_update after a push or a commit: git writes the loose file.
Push(r, c) ==
  /\ Write /\ deleting # r
  /\ loose' = [loose EXCEPT ![r] = c]
  /\ odb' = odb \cup Reach({c})
  /\ UNCHANGED <<packed, deleting, packing, deleted, unlinked>>
  /\ Observe

\* cas_delete: git drops the packed line first ...
DeletePacked(r) ==
  /\ Write /\ deleting = None /\ Value(r) # None
  /\ packed' = [packed EXCEPT ![r] = None]
  /\ deleting' = r
  /\ deleted' = deleted \cup {r}
  /\ UNCHANGED <<loose, packing, odb, unlinked>>
  /\ Observe

\* ... and then removes the file.
DeleteLoose ==
  /\ Running
  /\ deleting # None
  /\ loose' = [loose EXCEPT ![deleting] = None]
  /\ unlinked' = unlinked \cup {deleting}
  /\ deleting' = None
  /\ UNCHANGED <<packed, packing, odb, writes, pc, listing, fetch, deleted>>
  /\ Observe

\* git gc --auto after a push that git receive-pack served: pack-refs
\* writes every ref into packed-refs ...
PackRefs ==
  /\ Write /\ deleting = None /\ ~packing
  /\ packed' = [r \in Ref |-> Value(r)]
  /\ packing' = TRUE
  /\ UNCHANGED <<loose, deleting, odb, deleted, unlinked>>
  /\ Observe

\* ... and removes the loose files that still say the same.
PruneLoose(r) ==
  /\ Running
  /\ packing /\ deleting # r
  /\ loose[r] = packed[r]
  /\ loose[r] # None
  /\ loose' = [loose EXCEPT ![r] = None]
  /\ unlinked' = unlinked \cup {r}
  /\ UNCHANGED <<packed, deleting, packing, odb, writes, pc, listing, fetch, deleted>>
  /\ Observe

\* gc::run deletes an object that no ref reaches (GcSweep has the detail).
Collect(c) ==
  /\ Write
  /\ c \in odb \ Live
  /\ odb' = odb \ {c}
  /\ UNCHANGED <<loose, packed, deleting, packing, deleted, unlinked>>
  /\ Observe

-----------------------------------------------------------------------------
(* The listings.                                                           *)

\* A bug: HEAD is looked up in packed-refs first.
HeadLoosePackedFirst ==
  /\ pc = "head"
  /\ IF packed[Main] # None
       THEN head' = packed[Main] /\ pc' = "list"
       ELSE head' = loose[Main] /\ pc' = "list"
  /\ UNCHANGED <<repo, rows, todo, fetch, past>>

LsRefs ==
  /\ pc = "start" /\ pc' = "head"
  /\ UNCHANGED <<repo, listing, fetch, past>>

\* head_state: the loose file ...
HeadLoose ==
  /\ pc = "head"
  /\ IF loose[Main] # None THEN head' = loose[Main] /\ pc' = "list"
                           ELSE UNCHANGED head /\ pc' = "headPacked"
  /\ UNCHANGED <<repo, rows, todo, fetch, past>>

\* ... then packed-refs; None is an unborn HEAD.
HeadPacked ==
  /\ pc = "headPacked" /\ pc' = "list"
  /\ head' = packed[Main]
  /\ UNCHANGED <<repo, rows, todo, fetch, past>>

\* enumerate_refs reads packed-refs ...
ListPacked ==
  /\ pc = "list" /\ pc' = "walk"
  /\ rows' = packed
  /\ todo' = Ref
  /\ UNCHANGED <<repo, head, fetch, past>>

\* ... and then one file under refs/ after the other: loose overrides.
ListLoose(r) ==
  /\ pc = "walk" /\ r \in todo
  /\ rows' = IF loose[r] # None THEN [rows EXCEPT ![r] = loose[r]] ELSE rows
  /\ todo' = todo \ {r}
  /\ UNCHANGED <<repo, pc, head, fetch, past>>

\* The listing of admin_get_repo: rest::list_refs walks refs/ ...
AdminGetRepo ==
  /\ pc = "start" /\ pc' = "walkRefs"
  /\ todo' = Ref
  /\ UNCHANGED <<repo, head, rows, fetch, past>>

WalkRefs(r) ==
  /\ pc = "walkRefs" /\ r \in todo
  /\ rows' = [rows EXCEPT ![r] = loose[r]]
  /\ todo' = todo \ {r}
  /\ UNCHANGED <<repo, pc, head, fetch, past>>

\* ... and adds the packed lines of the names it has not found.
AddPacked ==
  /\ pc = "walkRefs" /\ todo = {}
  /\ rows' = [r \in Ref |-> IF rows[r] # None THEN rows[r] ELSE packed[r]]
  /\ pc' = "listed"
  /\ UNCHANGED <<repo, head, todo, fetch, past>>

-----------------------------------------------------------------------------
(* The fetch.                                                              *)

Advertised == ({head} \cup {rows[r] : r \in Ref}) \ {None}

\* parse_v2_fetch and the dispatch of pack_handler: a request that is not
\* simple goes to git upload-pack.
Fetch(W, H) ==
  /\ pc = "walk" /\ todo = {}
  /\ W \subseteq Advertised \ mine /\ H \subseteq mine
  /\ wants' = W /\ haves' = H
  /\ pc' \in IF W = {} THEN {"done"} ELSE {"native", "subprocess"}
  /\ UNCHANGED <<repo, listing, commits, mine, broken, past>>

\* with_boundary: the haves that are here, whose oldest is the cutoff.
Boundary == haves \cap odb

\* Whether the walk enters c.  It stops at the haves; if there is a cutoff it
\* also passes over what is older, and over a parent that is missing.
Shown(c) ==
  /\ c \notin haves
  /\ Boundary = {} \/ (c \in odb /\ \E h \in Boundary : Time[h] <= Time[c])

\* What the walk yields: the wants that it enters and, of each commit, the
\* parents that it enters.
Walked ==
  LET Follows(S) == \A c \in Commit :
        (c \in wants \/ \E d \in S : c \in Parents[d]) /\ Shown(c) => c \in S
  IN  {c \in Commit : \A S \in SUBSET Commit : Follows(S) => c \in S}

\* A bug: the walk insists on knowing every have.
WalkStrict ==
  /\ pc = "native"
  /\ IF wants \cup Walked \cup haves \subseteq odb
       THEN commits' = Walked /\ pc' = "pack"
       ELSE UNCHANGED commits /\ pc' = "fallback"
  /\ UNCHANGED <<repo, listing, wants, haves, mine, broken, past>>

\* generate_pack, the walk: a want, or a commit that it enters, that is
\* missing is an error.
Walk ==
  /\ pc = "native"
  /\ IF wants \cup Walked \subseteq odb
       THEN commits' = Walked /\ pc' = "pack"
       ELSE UNCHANGED commits /\ pc' = "fallback"
  /\ UNCHANGED <<repo, listing, wants, haves, mine, broken, past>>

\* A bug: entries that cannot be read are left out.
WritePackSkips ==
  /\ pc = "pack"
  /\ mine' = mine \cup (commits \cap odb) /\ pc' = "packed"
  /\ UNCHANGED <<repo, listing, wants, haves, commits, broken, past>>

\* generate_pack, count and entries: the objects are read again.
WritePack ==
  /\ pc = "pack"
  /\ IF commits \subseteq odb
       THEN mine' = mine \cup commits /\ pc' = "packed"
       ELSE UNCHANGED mine /\ pc' = "fallback"
  /\ UNCHANGED <<repo, listing, wants, haves, commits, broken, past>>

\* gix fails for a reason of its own.
NativeFails ==
  /\ pc \in {"native", "pack"}
  /\ pc' = "fallback" /\ broken' = TRUE
  /\ UNCHANGED <<repo, listing, wants, haves, commits, mine, past>>

\* What git packs: all that the wants reach and the haves it knows do not.
Between == Reach(wants) \ Reach(Boundary)

\* generate_pack_via_pack_objects: `^have` must name an object.
PackObjects ==
  /\ pc = "fallback"
  /\ IF Between \cup haves \subseteq odb
       THEN mine' = mine \cup Between /\ pc' = "done"
       ELSE UNCHANGED mine /\ pc' = "failed"
  /\ UNCHANGED <<repo, listing, wants, haves, commits, broken, past>>

\* git upload-pack ignores the haves that it does not know.
Subprocess ==
  /\ pc = "subprocess"
  /\ IF Between \subseteq odb
       THEN mine' = mine \cup Between /\ pc' = "done"
       ELSE UNCHANGED mine /\ pc' = "failed"
  /\ UNCHANGED <<repo, listing, wants, haves, commits, broken, past>>

-----------------------------------------------------------------------------
(* REST reads in two steps.                                                *)

\* get_blob resolves a ref to an object id.
GetBlob(r) ==
  /\ pc = "start"
  /\ wants' = {Value(r)} \ {None}
  /\ pc' = IF Value(r) \in odb THEN "readObject" ELSE "failed"
  /\ UNCHANGED <<repo, listing, haves, commits, mine, broken, past>>

\* get_diff runs git show for the counts of a commit that the client names.
GetDiff(c) ==
  /\ pc = "start"
  /\ wants' = {c}
  /\ pc' = IF c \in odb THEN "readObject" ELSE "failed"
  /\ UNCHANGED <<repo, listing, haves, commits, mine, broken, past>>

\* read_object by that id; or git show once more, for the hunks.
ReadObject ==
  /\ pc = "readObject"
  /\ pc' = IF wants \subseteq odb THEN "read" ELSE "failed"
  /\ UNCHANGED <<repo, listing, fetch, past>>

-----------------------------------------------------------------------------
Writers ==
  \/ \E r \in Ref, c \in Commit : Push(r, c)
  \/ \E r \in Ref : DeletePacked(r) \/ PruneLoose(r)
  \/ DeleteLoose \/ PackRefs
  \/ \E c \in Commit : Collect(c)

Read ==
  \/ LsRefs \/ HeadLoose \/ HeadPacked \/ ListPacked
  \/ \E r \in Ref : ListLoose(r)
  \/ AdminGetRepo \/ AddPacked
  \/ \E r \in Ref : WalkRefs(r)
  \/ \E W, H \in SUBSET Commit : Fetch(W, H)
  \/ Walk \/ WritePack \/ NativeFails \/ PackObjects \/ Subprocess
  \/ \E r \in Ref : GetBlob(r)
  \/ \E c \in Commit : GetDiff(c)
  \/ ReadObject

Next == Writers \/ Read

Spec == Init /\ [][Next]_vars

-----------------------------------------------------------------------------
(* Properties.                                                             *)

Listed == (pc = "walk" /\ todo = {}) \/ pc = "listed"

\* A listing may show v for r: r was v while the request ran, or was being
\* deleted (git drops the packed line of a ref before its file).
Shows(r, v) == v \in held[r] \/ (v = None /\ r \in deleted)

\* The listings against git's own view: HEAD and every row show a value that
\* the ref had while the request ran, and a ref that nobody deletes has a
\* row.  enumerate_refs reads packed-refs before the loose files and leaves a
\* gap: a ref whose file is removed in between (deleted, or packed by git) may
\* be missing or show a value it lost long before.  head_state and list_refs,
\* which read them the other way round, have no such gap.
RowsAreReal ==
  Listed =>
    /\ pc = "walk" => Shows(Main, head)
    /\ \A r \in Ref : Shows(r, rows[r]) \/ (pc = "walk" /\ r \in unlinked)

\* What generate_pack may pass over without an error, when the client names
\* a have: a commit that is older than every have the repository kept, and
\* than one have at least, or one that some ref did not reach all the time.
Skippable(c) ==
  /\ haves # {}
  /\ \/ c \notin kept
     \/ /\ \E h \in haves : Time[c] < Time[h]
        /\ \A h \in haves \cap kept : Time[c] < Time[h]
Skipped == {c \in Reach(wants) : Skippable(c)}

\* What a client is told to have fetched: a pack that git made holds all that
\* the wants reach and the client has not, whatever was deleted meanwhile; so
\* does one of generate_pack for a clone, and another one lacks at most what
\* the cutoff of with_boundary passed over, and what that reaches.
FetchComplete ==
  /\ pc = "done" => Reach(wants) \subseteq mine
  /\ pc = "packed" => Reach(wants) \subseteq mine \cup Reach(Skipped)

\* What native_pack.rs:125-130 says of the walk: "every commit reachable from
\* wants that is NOT reachable from haves".  TLC refutes it: with the have c3
\* and the want c2, its older sibling, the pack is empty (README, section 5).
PackIsExact == pc = "packed" => Reach(wants) \subseteq mine

\* A read fails only for a reason: what it wants was not reachable all the
\* time, or gix broke and pack-objects, which takes over, does not know one
\* of the client's commits.
ReadsServed ==
  pc = "failed" =>
    \/ wants = {} \/ ~(wants \subseteq kept)
    \/ broken /\ ~(haves \subseteq odb)
=============================================================================
