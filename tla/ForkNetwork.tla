---------------------------- MODULE ForkNetwork ----------------------------
(***************************************************************************)
(* Repositories that share objects (storage.rs, alternates_cache.rs and    *)
(* the handlers in rest/repos.rs).  A fork holds no objects of its own at  *)
(* first: objects/info/alternates names the source's directory, and losing *)
(* that directory breaks the fork.  DELETE therefore looks for forks       *)
(* first, through a cache of the alternates files that is keyed by their   *)
(* modification time.                                                      *)
(*                                                                         *)
(* No lock covers any of this.  A fork is a series of file operations and  *)
(* a delete awaits between its check and the removal, so everything that   *)
(* other requests do can come in between.                                  *)
(***************************************************************************)
EXTENDS Integers, FiniteSets

CONSTANTS RepoId,       \* repository ids
          ForkReqs,     \* POST /forks requests
          DeleteReqs,   \* DELETE requests
          NoSource,     \* no repository
          CoarseClock   \* two writes can get the same modification time

ASSUME NoSourceAssumption == NoSource \notin RepoId
ASSUME ReposAssumption == IsFiniteSet(RepoId)
ASSUME RequestsAssumption == ForkReqs \cap DeleteReqs = {}
ASSUME ClockAssumption == CoarseClock \in BOOLEAN

VARIABLES repoDir,  \* the directory <id>.git: absent, being made by a fork, or whole
          alt,      \* its alternates file
          clock,    \* the file system's clock
          cache,    \* AlternatesCache
          op,       \* the state of each request
          broken,   \* history: repositories that have lost a source, or their source has
          cut       \* history: forks broken by a delete without force, TRUE
                    \* for one that was there when the request came in

forkVars == <<repoDir, alt, clock, cache, op, broken, cut>>

Source == RepoId \cup {NoSource}
Req == ForkReqs \cup DeleteReqs

(* mtime 0: no such file; a source of NoSource: the file is empty.         *)
File == [mtime : Nat, src : Source]
NoFile == [mtime |-> 0, src |-> NoSource]

Entry == [known : BOOLEAN, mtime : Nat, src : Source]
NoEntry == [known |-> FALSE, mtime |-> 0, src |-> NoSource]

Mode == {"default", "force", "cascade"}
PC == {"idle", "check", "mkdir", "create", "write", "refs", "scan", "remove", "forget",
       "done"}

(* A fork: its source and its id.  A delete: the repositories still to be  *)
(* removed, by depth below the one that was asked for, the one that is     *)
(* removed but not forgotten, and (history) the forks it must spare: those *)
(* there when it came in, except the repository it was asked to delete,    *)
(* each with the mtime of its alternates file.                             *)
Handler == [pc : PC, src : Source, id : Source, mode : Mode, todo : SUBSET RepoId,
            depth : [RepoId -> Nat], seen : SUBSET (RepoId \X Nat)]

Fresh == [pc |-> "idle", src |-> NoSource, id |-> NoSource, mode |-> "default", todo |-> {},
          depth |-> [r \in RepoId |-> 0], seen |-> {}]

(* The server starts on the networks that are on disk.                     *)
ForkInit ==
    /\ repoDir \in [RepoId -> {"absent", "whole"}]
    /\ alt \in [RepoId -> {NoFile} \cup {[mtime |-> 1, src |-> s] : s \in RepoId}]
    /\ \A r \in RepoId :
          alt[r] # NoFile => repoDir[r] = "whole" /\ repoDir[alt[r].src] = "whole"
    /\ \A S \in SUBSET RepoId : S # {} => \E r \in S : alt[r].src \notin S
    /\ clock = 1
    /\ cache = [r \in RepoId |-> NoEntry]
    /\ op = [q \in Req |-> Fresh]
    /\ broken = {}
    /\ cut = {}

Become(q, h) == op' = [op EXCEPT ![q] = h]

(* The request ends: answered (with whatever status), failed or dropped.   *)
Ended == [Fresh EXCEPT !.pc = "done"]
End(q) == Become(q, Ended)

IsDir(r) == repoDir[r] # "absent"
Present == {r \in RepoId : IsDir(r)}

(* What is reached from r when every repository of the domain of source is *)
(* below its source.                                                       *)
ReachedFrom(r, source) ==
    {f \in RepoId \ {r} : \A S \in SUBSET RepoId :
        r \in S /\ (\A g \in DOMAIN source : source[g] \in S => g \in S) => f \in S}

(* The repositories that find objects in r, directly or through others.    *)
Dependents(r) == ReachedFrom(r, [g \in Present |-> alt[g].src])

----------------------------------------------------------------------------
(* FsStorage::create.                                                      *)
CreateRepo(r) ==
    /\ ~IsDir(r)
    /\ repoDir' = [repoDir EXCEPT ![r] = "whole"]
    /\ UNCHANGED <<alt, clock, cache, op, broken, cut>>

(* fork_repo up to its awaits on the owner and the quota.                  *)
ForkRepo(q) ==
    /\ op[q].pc = "idle"
    /\ \E s \in RepoId, f \in RepoId :
          IF IsDir(s)
          THEN Become(q, [op[q] EXCEPT !.pc = "check", !.src = s, !.id = f])
          ELSE End(q)
    /\ UNCHANGED <<repoDir, alt, clock, cache, broken, cut>>

(* FsStorage::fork looks at both directories ...                           *)
CheckFork(q) ==
    /\ op[q].pc = "check"
    /\ IF IsDir(op[q].src) /\ ~IsDir(op[q].id)
       THEN Become(q, [op[q] EXCEPT !.pc = "mkdir"])
       ELSE End(q)
    /\ UNCHANGED <<repoDir, alt, clock, cache, broken, cut>>

(* ... makes the fork's directory (create_dir_all does not mind if another *)
(* request has made it meanwhile) ...                                      *)
MakeDirs(q) ==
    /\ op[q].pc = "mkdir"
    /\ repoDir' = [repoDir EXCEPT ![op[q].id] = "partial"]
    /\ Become(q, [op[q] EXCEPT !.pc = "create"])
    /\ UNCHANGED <<alt, clock, cache, broken, cut>>

StepClock == clock' \in IF CoarseClock THEN {clock, clock + 1} ELSE {clock + 1}

(* A file operation in a directory that has been removed fails; nothing is *)
(* cleaned up.                                                             *)
Gone(q, r) ==
    /\ ~IsDir(r)
    /\ End(q)
    /\ UNCHANGED <<repoDir, alt, clock, cache, broken, cut>>

(* ... writes its alternates file, which fs::write creates empty first ... *)
CreateAlternates(q) ==
    /\ op[q].pc = "create"
    /\ \/ Gone(q, op[q].id)
       \/ /\ IsDir(op[q].id)
          /\ StepClock
          /\ alt' = [alt EXCEPT ![op[q].id] = [mtime |-> clock', src |-> NoSource]]
          /\ broken' = broken \ {op[q].id}
          /\ Become(q, [op[q] EXCEPT !.pc = "write"])
          /\ UNCHANGED <<repoDir, cache, cut>>

WriteAlternates(q) ==
    /\ op[q].pc = "write"
    /\ \/ Gone(q, op[q].id)
       \/ /\ IsDir(op[q].id)
          /\ StepClock
          /\ alt' = [alt EXCEPT ![op[q].id] = [mtime |-> clock', src |-> op[q].src]]
          /\ broken' = IF IsDir(op[q].src) /\ op[q].src \notin broken
                       THEN broken \ {op[q].id} ELSE broken \cup {op[q].id}
          /\ Become(q, [op[q] EXCEPT !.pc = "refs"])
          /\ UNCHANGED <<repoDir, cache, cut>>

(* ... and copies HEAD and the refs, which fails when the source is gone.  *)
SnapshotRefs(q) ==
    /\ op[q].pc = "refs"
    /\ \/ Gone(q, op[q].src)
       \/ Gone(q, op[q].id)
       \/ /\ IsDir(op[q].src) /\ IsDir(op[q].id)
          /\ repoDir' = [repoDir EXCEPT ![op[q].id] = "whole"]
          /\ End(q)
          /\ UNCHANGED <<alt, clock, cache, broken, cut>>

----------------------------------------------------------------------------
(* AlternatesCache::lookup.  A source that is not there does not           *)
(* canonicalize: the answer is NoSource, and is cached as well.            *)
Resolve(r) ==
    IF IsDir(r) /\ alt[r].src # NoSource /\ IsDir(alt[r].src) THEN alt[r].src ELSE NoSource

HitByName(r) == cache[r].known

Hit(r) == cache[r].known /\ cache[r].mtime = alt[r].mtime

LookupSource(r) == IF Hit(r) THEN cache[r].src ELSE Resolve(r)

Refreshed(R) ==
    [r \in RepoId |-> IF r \in R
                      THEN [known |-> TRUE, mtime |-> alt[r].mtime, src |-> LookupSource(r)]
                      ELSE cache[r]]

(* list_forks_of                                                           *)
ForksOf(r) == {f \in Present \ {r} : LookupSource(f) = r}

(* The repository lists ask for the source of one repository after the     *)
(* other.  (Of one that is gone they would cache "no file", which any file *)
(* that appears later misses.)                                             *)
ListRepos(r) ==
    /\ IsDir(r)
    /\ cache' = Refreshed({r})
    /\ UNCHANGED <<repoDir, alt, clock, op, broken, cut>>

----------------------------------------------------------------------------
(* cascade_delete_order: the forks of r, their forks ..., each one level   *)
(* below its source.  A repository has one source, so it is on one level   *)
(* and there is exactly one such function.                                 *)
Below(r) == ReachedFrom(r, [g \in Present |-> LookupSource(g)])

RootFirst(r) ==
    LET below == Below(r)
    IN {d \in [RepoId -> 0 .. Cardinality(RepoId)] :
            \A f \in RepoId :
                d[f] = IF f \in below THEN d[LookupSource(f)] - 1 ELSE Cardinality(RepoId)}

Depths(r) ==
    LET below == Below(r)
    IN {d \in [RepoId -> 0 .. Cardinality(RepoId)] :
            \A f \in RepoId : d[f] = IF f \in below THEN d[LookupSource(f)] + 1 ELSE 0}

ForksBut(r) == {f \in Present \ {r} : alt[f].src # NoSource /\ f \notin broken}

(* delete_repo up to its await on the owner.                               *)
DeleteRepo(q) ==
    /\ op[q].pc = "idle"
    /\ \E r \in RepoId, mode \in Mode :
          Become(q, [op[q] EXCEPT !.pc = "scan", !.id = r, !.mode = mode,
                                  !.seen = IF mode = "force" THEN {}
                                           ELSE {<<f, alt[f].mtime>> : f \in ForksBut(r)}])
    /\ UNCHANGED <<repoDir, alt, clock, cache, broken, cut>>

(* list_forks_of: refuse, or go on.                                        *)
ScanForks(q) ==
    /\ op[q].pc = "scan"
    /\ op[q].mode # "cascade"
    /\ cache' = Refreshed(Present \ {op[q].id})
    /\ IF ForksOf(op[q].id) # {} /\ op[q].mode # "force"
       THEN End(q)
       ELSE Become(q, [op[q] EXCEPT !.pc = "remove", !.todo = {op[q].id}])
    /\ UNCHANGED <<repoDir, alt, clock, broken, cut>>

(* The whole order is computed once, before the owner of every repository  *)
(* in it is checked (an await each).                                       *)
PlanCascade(q) ==
    /\ op[q].pc = "scan"
    /\ op[q].mode = "cascade"
    /\ LET todo == Below(op[q].id) \cup {op[q].id}
       IN /\ cache' = Refreshed({f \in Present : \E r \in todo : f # r})
          /\ \E depth \in Depths(op[q].id) :
                Become(q, [op[q] EXCEPT !.pc = "remove", !.todo = todo, !.depth = depth])
    /\ UNCHANGED <<repoDir, alt, clock, broken, cut>>

Deepest(q) == {r \in op[q].todo : \A s \in op[q].todo : op[q].depth[s] <= op[q].depth[r]}

(* The forks whose alternates file is what it was when the request came    *)
(* in; f was there if such forks alone lead from f to r.                   *)
Kept(q) == {f \in Present : <<f, alt[f].mtime>> \in op[q].seen}
WasThere(q, f, r) == f \in ReachedFrom(r, [g \in Kept(q) |-> alt[g].src])

(* storage.delete on the blocking pool; one that is gone already ends the  *)
(* request, with the rest of a cascade undone.                             *)
Remove(q) ==
    /\ op[q].pc = "remove"
    /\ \E r \in Deepest(q) :
          \/ Gone(q, r)
          \/ /\ IsDir(r)
             /\ repoDir' = [repoDir EXCEPT ![r] = "absent"]
             /\ alt' = [alt EXCEPT ![r] = NoFile]
             /\ broken' = (broken \cup Dependents(r)) \ {r}
             /\ cut' = cut \cup {WasThere(q, f, r) :
                                    f \in {g \in Dependents(r) \ broken :
                                             repoDir[g] = "whole" /\ op[q].mode # "force"}}
             /\ Become(q, [op[q] EXCEPT !.pc = "forget", !.id = r])
             /\ UNCHANGED <<clock, cache>>

(* The ownership row and the cache entry go; then the next of the cascade. *)
Forget(q) ==
    /\ op[q].pc = "forget"
    /\ cache' = [cache EXCEPT ![op[q].id] = NoEntry]
    /\ LET todo == op[q].todo \ {op[q].id}
       IN IF todo = {} THEN End(q)
          ELSE Become(q, [op[q] EXCEPT !.pc = "remove", !.todo = todo])
    /\ UNCHANGED <<repoDir, alt, clock, broken, cut>>

(* At an await the handler is dropped, or an owner check or a database     *)
(* call ends it.  FsStorage::fork has no await.                            *)
Cancel(q) ==
    /\ op[q].pc \in {"check", "scan", "remove", "forget"}
    /\ End(q)
    /\ UNCHANGED <<repoDir, alt, clock, cache, broken, cut>>

(* The process dies and starts again with an empty cache.                  *)
Restart ==
    /\ cache' = [r \in RepoId |-> NoEntry]
    /\ op' = [q \in Req |-> IF op[q].pc \in {"idle", "done"} THEN op[q]
                            ELSE Ended]
    /\ UNCHANGED <<repoDir, alt, clock, broken, cut>>

ForkHandler(q) ==
    \/ ForkRepo(q) \/ CheckFork(q) \/ MakeDirs(q) \/ CreateAlternates(q)
    \/ WriteAlternates(q) \/ SnapshotRefs(q)
DeleteHandler(q) ==
    DeleteRepo(q) \/ ScanForks(q) \/ PlanCascade(q) \/ Remove(q) \/ Forget(q)

ForkNext ==
    \/ \E r \in RepoId : CreateRepo(r) \/ ListRepos(r)
    \/ \E q \in ForkReqs : ForkHandler(q)
    \/ \E q \in DeleteReqs : DeleteHandler(q)
    \/ \E q \in Req : Cancel(q)
    \/ Restart

ForkSpec == ForkInit /\ [][ForkNext]_forkVars

----------------------------------------------------------------------------
(* Directories, cache and requests have their types, and no alternates     *)
(* file is left, or written, where its directory is gone.                  *)
ForkTypeOK ==
    /\ repoDir \in [RepoId -> {"absent", "partial", "whole"}]
    /\ alt \in [RepoId -> File]
    /\ clock \in Nat \ {0}
    /\ cache \in [RepoId -> Entry]
    /\ op \in [Req -> Handler]
    /\ broken \subseteq RepoId
    /\ cut \subseteq BOOLEAN
    /\ \A r \in RepoId : ~IsDir(r) => alt[r] = NoFile

(* A delete without force never breaks a fork that was there when the      *)
(* request came in, with every fork between it and what is deleted,        *)
(* however the delete was refused, dropped half way through a cascade or   *)
(* overtaken by other deletes, forks and polls.                            *)
NoForkBroken == TRUE \notin cut

(* alternates_cache.rs: "mtime tracking is sufficient": what the cache     *)
(* answers without reading the file is what the file says, as long as the  *)
(* source it names has been there all the time.                            *)
HitsAreTrue ==
    \A r \in RepoId :
        Hit(r) /\ alt[r].src # NoSource /\ r \notin broken => cache[r].src = alt[r].src

(* rest/repos.rs, DeleteRepoQuery: "Without this flag a delete that would  *)
(* orphan a fork's object graph fails with 409".                           *)
OnlyForceOrphans == cut = {}
=============================================================================
