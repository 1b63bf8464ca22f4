------------------------------ MODULE GcSweep ------------------------------
(***************************************************************************)
(* Garbage collection of loose objects (gc.rs over object_store/mod.rs)    *)
(* while pushes, ref deletions and forks go on.  A pass works on one       *)
(* repository: it finds the repositories that share objects with it, lists *)
(* the loose files with their ages, walks the refs of every member, and    *)
(* unlinks the listed files that are old and that no walk has met.  No     *)
(* lock is taken: every file or subprocess call is one action.             *)
(*                                                                         *)
(* Ages are cut to two: a file is young until min_age_secs have passed     *)
(* since it was last written, and old afterwards.  The two hours of the    *)
(* default are far longer than the request timeout, so a file does not     *)
(* grow old under the request that writes it.                              *)
(***************************************************************************)
EXTENDS CommitGraph, Integers, FiniteSets

CONSTANTS Repo,
          Pushers,    \* git pushes
          Forkers,    \* POST /forks requests
          Sweeper,    \* the periodic task
          Admins,     \* POST /v1/admin/repos/:id/gc requests
          MaxFaults   \* failures and crashes in a behaviour

ASSUME FaultsAssumption == MaxFaults \in Nat
ASSUME ActorsAssumption == Sweeper \notin Admins /\ None \notin Repo

VARIABLES dir,     \* how far each repository is made
          src,     \* the repository its alternates file names
          heads,   \* the tips of its refs
          file,    \* its loose objects and their ages
          push,    \* the state of each push
          fork,    \* the state of each fork
          pass,    \* the state of each collection pass
          todo,    \* what the current sweep still has to visit
          faults

vars == <<dir, src, heads, file, push, fork, pass, todo, faults>>

Age == {"none", "young", "old"}
Passes == Admins \cup {Sweeper}

(* made (history): the objects the push has created, those aside that a    *)
(* running pass had on its list from an earlier life.                      *)
PushState == [pc : {"idle", "unpack", "check", "land", "done"}, repo : Repo \cup {None},
              old : Tip, new : Tip, pack : SUBSET Commit, made : SUBSET Commit]
ForkState == [pc : {"idle", "read", "write", "done"},
              from : Repo \cup {None}, to : Repo \cup {None}, snap : SUBSET Commit]

(* stable (history): what each member of the pass's network has reached    *)
(* all the time since the network was computed.                            *)
PassState == [pc : {"idle", "list", "walk", "delete", "done"},
              repo : Repo \cup {None}, net : SUBSET Repo, walk : SUBSET Repo,
              listed : SUBSET Commit, reach : SUBSET Commit,
              stable : [Repo -> SUBSET Commit]]

NoPush == [pc |-> "idle", repo |-> None, old |-> None, new |-> None, pack |-> {},
           made |-> {}]
NoFork == [pc |-> "idle", from |-> None, to |-> None, snap |-> {}]
NoPass == [pc |-> "idle", repo |-> None, net |-> {}, walk |-> {}, listed |-> {},
           reach |-> {}, stable |-> [r \in Repo |-> {}]]

----------------------------------------------------------------------------
Exists(r) == dir[r] # "absent"
Sharers(S) == S \cup {src[r] : r \in S} \cup {r \in Repo : src[r] \in S}

(* network_around: both directions of the alternates relation, from seed.  *)
Network(seed) ==
    {r \in Repo : \A S \in SUBSET Repo :
                     (seed \in S /\ Sharers(S) \cap Repo \subseteq S) => r \in S}

(* The repositories whose object directories r reads: its own, its         *)
(* source's, and so on.                                                    *)
Lookup(r) ==
    {s \in Repo : \A S \in SUBSET Repo :
                     (r \in S /\ {src[t] : t \in S} \cap Repo \subseteq S) => s \in S}

Odb(r) == {c \in Commit : \E s \in Lookup(r) : file[s][c] # "none"}
Tips(h, R) == UNION {h[r] : r \in R}

(* git rev-list --objects --all.  It fails in a directory without HEAD and *)
(* when an object is missing; the pass then ends without deleting.         *)
Readable(r) == dir[r] \in {"headed", "whole"} /\ Reach(heads[r]) \subseteq Odb(r)

Init ==
    /\ dir \in [Repo -> {"absent", "whole"}]
    /\ src \in [Repo -> Repo \cup {None}]
    /\ heads \in [Repo -> SUBSET Commit]
    /\ file \in [Repo -> [Commit -> {"none", "old"}]]
    /\ \A r \in Repo : dir[r] = "absent" =>
          src[r] = None /\ heads[r] = {} /\ file[r] = [c \in Commit |-> "none"]
    /\ \A r \in Repo : src[r] # None => Exists(src[r])
    /\ \A S \in SUBSET Repo : S # {} => \E r \in S : src[r] \notin S
    /\ \A r \in Repo : Reach(heads[r]) \subseteq Odb(r)
    /\ push = [q \in Pushers |-> NoPush]
    /\ fork = [q \in Forkers |-> NoFork]
    /\ pass = [p \in Passes |-> NoPass]
    /\ todo = {}
    /\ faults = 0

(* The refs become h.                                                      *)
SetHeads(h) ==
    /\ heads' = h
    /\ pass' = [p \in Passes |->
                  [pass[p] EXCEPT !.stable = [r \in Repo |-> @[r] \cap Reach(h[r])]]]

----------------------------------------------------------------------------
(* A git push.  The client is told the refs, and its pack holds what the   *)
(* new tip adds to them; it may just as well delete a ref.                 *)
StartPush(q) ==
    /\ push[q].pc = "idle"
    /\ \E r \in Repo, old \in Tip, new \in Tip :
          /\ dir[r] = "whole"
          /\ old \in heads[r] \cup {None} /\ new # old
          /\ push' = [push EXCEPT ![q] =
                [NoPush EXCEPT !.pc = IF new = None THEN "land" ELSE "unpack", !.repo = r,
                               !.old = old, !.new = new, !.pack = Reach({new}) \ Reach(heads[r])]]
    /\ UNCHANGED <<dir, src, heads, file, fork, pass, todo, faults>>

(* Where git unpack-objects finds c already; it renews that file's time.   *)
Holder(r, c) ==
    IF file[r][c] # "none" THEN {r}
    ELSE {s \in Lookup(r) : file[s][c] # "none"}

Written(r, pack) ==
    [s \in Repo |-> [c \in Commit |->
        IF c \in pack /\ (s \in Holder(r, c) \/ (Holder(r, c) = {} /\ s = r))
        THEN "young" ELSE file[s][c]]]

Unpack(q) ==
    /\ push[q].pc = "unpack"
    /\ file' = Written(push[q].repo, push[q].pack)
    /\ push' = [push EXCEPT ![q].pc = "check",
                            ![q].made = {c \in push[q].pack : /\ Holder(push[q].repo, c) = {}
                                                             /\ \A p \in Passes : c \notin pass[p].listed}]
    /\ UNCHANGED <<dir, src, heads, fork, pass, todo, faults>>

(* The connectivity gate of the push.                                      *)
CheckConnected(q) ==
    /\ push[q].pc = "check"
    /\ LET r == push[q].repo
       IN push' = [push EXCEPT ![q] =
             IF Reach({push[q].new}) \ Reach(heads[r]) \subseteq Odb(r)
             THEN [@ EXCEPT !.pc = "land"] ELSE [NoPush EXCEPT !.pc = "done"]]
    /\ UNCHANGED <<dir, src, heads, file, fork, pass, todo, faults>>

(* The compare-and-swap of one ref.                                        *)
Land(q) ==
    /\ push[q].pc = "land"
    /\ LET r == push[q].repo
           old == push[q].old
           new == push[q].new
       IN IF old \in heads[r] \cup {None} /\ new \in Odb(r) \cup {None}
          THEN SetHeads([heads EXCEPT ![r] = (@ \ {old}) \cup ({new} \ {None})])
          ELSE UNCHANGED <<heads, pass>>
    /\ push' = [push EXCEPT ![q] = [NoPush EXCEPT !.pc = "done"]]
    /\ UNCHANGED <<dir, src, file, fork, todo, faults>>

(* min_age_secs pass, and no request that writes is still running.         *)
GrowOld(r, c) ==
    /\ file[r][c] = "young"
    /\ \A q \in Pushers : push[q].pc \in {"idle", "done"} \/ c \notin push[q].pack
    /\ file' = [file EXCEPT ![r][c] = "old"]
    /\ UNCHANGED <<dir, src, heads, push, fork, pass, todo, faults>>

----------------------------------------------------------------------------
(* FsStorage::fork: the alternates file, then HEAD and a reading of the    *)
(* source's refs, then these refs are written to the fork.                 *)
Link(q) ==
    /\ fork[q].pc = "idle"
    /\ \E s \in Repo, f \in Repo :
          /\ dir[s] = "whole" /\ dir[f] = "absent"
          /\ dir' = [dir EXCEPT ![f] = "linked"]
          /\ src' = [src EXCEPT ![f] = s]
          /\ fork' = [fork EXCEPT ![q] = [NoFork EXCEPT !.pc = "read", !.from = s, !.to = f]]
    /\ UNCHANGED <<heads, file, push, pass, todo, faults>>

ReadRefs(q) ==
    /\ fork[q].pc = "read"
    /\ dir' = [dir EXCEPT ![fork[q].to] = "headed"]
    /\ fork' = [fork EXCEPT ![q].pc = "write", ![q].snap = heads[fork[q].from]]
    /\ UNCHANGED <<src, heads, file, push, pass, todo, faults>>

WriteRefs(q) ==
    /\ fork[q].pc = "write"
    /\ dir' = [dir EXCEPT ![fork[q].to] = "whole"]
    /\ SetHeads([heads EXCEPT ![fork[q].to] = fork[q].snap])
    /\ fork' = [fork EXCEPT ![q] = [NoFork EXCEPT !.pc = "done"]]
    /\ UNCHANGED <<src, file, push, todo, faults>>

----------------------------------------------------------------------------
(* run_sweep on a tick: read_dir, then one pass after the other.  It does  *)
(* not look inside a directory first.                                      *)
Tick ==
    /\ todo = {} /\ pass[Sweeper].pc = "idle"
    /\ todo' = {r \in Repo : Exists(r)}
    /\ todo' # {}
    /\ UNCHANGED <<dir, src, heads, file, push, fork, pass, faults>>

RestStops(p) == [NoPass EXCEPT !.pc = "done"]

(* The pass ends: the sweep goes on with the next repository.              *)
Rest(p) == IF p = Sweeper THEN NoPass ELSE [NoPass EXCEPT !.pc = "done"]
EndPass(p) == pass' = [pass EXCEPT ![p] = Rest(p)]

ReachedBy(net) == [r \in Repo |-> IF r \in net THEN Reach(heads[r]) ELSE {}]

PreviewOwn(p, r) ==
    pass' = [pass EXCEPT ![p] =
        [NoPass EXCEPT !.pc = "list", !.repo = r, !.net = {r}, !.walk = {r},
                       !.stable = ReachedBy(Network(r))]]

(* preview: of its result only the network is used again; its own walk of  *)
(* the members can fail, too.                                              *)
Preview(p, r) ==
    LET net == Network(r)
    IN IF \A m \in net : Readable(m)
       THEN pass' = [pass EXCEPT ![p] =
               [NoPass EXCEPT !.pc = "list", !.repo = r, !.net = net, !.walk = net,
                              !.stable = ReachedBy(net)]]
       ELSE EndPass(p)

SweepRepo ==
    /\ pass[Sweeper].pc = "idle"
    /\ \E r \in todo : todo' = todo \ {r} /\ Preview(Sweeper, r)
    /\ UNCHANGED <<dir, src, heads, file, push, fork, faults>>

(* admin_gc_run with the default age; one pass per request.                *)
AdminGcRun(p) ==
    /\ pass[p].pc = "idle"
    /\ \E r \in Repo : Exists(r) /\ Preview(p, r)
    /\ UNCHANGED <<dir, src, heads, file, push, fork, todo, faults>>

ListAllLoose(p) ==
    /\ pass[p].pc = "list"
    /\ pass' = [pass EXCEPT ![p].pc = "walk",
                            ![p].listed = {c \in Commit : file[pass[p].repo][c] # "none"}]
    /\ UNCHANGED <<dir, src, heads, file, push, fork, todo, faults>>

(* list_loose, with the ages: the young files are skipped later on.        *)
ListLoose(p) ==
    /\ pass[p].pc = "list"
    /\ pass' = [pass EXCEPT ![p].pc = "walk",
                            ![p].listed = {c \in Commit : file[pass[p].repo][c] = "old"}]
    /\ UNCHANGED <<dir, src, heads, file, push, fork, todo, faults>>

(* The pass goes on as h; when nothing is left to walk or to unlink it is  *)
(* over, and the sweep turns to the next repository.                       *)
Continue(p, h) ==
    pass' = [pass EXCEPT ![p] = IF h.walk = {} /\ h.listed = {} THEN Rest(p) ELSE h]

(* rev_list_objects of one member, by the network of the preview.  After   *)
(* the last one, the listed files that no walk has met are left.           *)
Walk(p) ==
    /\ pass[p].pc = "walk"
    /\ \E m \in pass[p].walk :
          LET met == pass[p].reach \cup Reach(heads[m])
          IN IF ~Readable(m)
             THEN EndPass(p)
             ELSE IF pass[p].walk # {m}
             THEN Continue(p, [pass[p] EXCEPT !.walk = @ \ {m}, !.reach = met])
             ELSE Continue(p, [pass[p] EXCEPT !.pc = "delete", !.walk = {}, !.reach = {},
                                              !.listed = @ \ met])
    /\ UNCHANGED <<dir, src, heads, file, push, fork, todo, faults>>

(* delete_loose.  A file that is gone already is no error, and a failure   *)
(* leaves the file and goes on.                                            *)
DeleteLoose(p) ==
    /\ pass[p].pc = "delete"
    /\ \E c \in pass[p].listed :
          /\ Continue(p, [pass[p] EXCEPT !.listed = @ \ {c}])
          /\ \/ /\ file' = [file EXCEPT ![pass[p].repo][c] = "none"]
                /\ UNCHANGED faults
             \/ /\ faults < MaxFaults
                /\ faults' = faults + 1
                /\ UNCHANGED file
    /\ UNCHANGED <<dir, src, heads, push, fork, todo>>

(* The process dies and starts again; what is on disk stays.               *)
Crash ==
    /\ faults < MaxFaults
    /\ faults' = faults + 1
    /\ push' = [q \in Pushers |-> IF push[q].pc = "idle" THEN push[q]
                                  ELSE [NoPush EXCEPT !.pc = "done"]]
    /\ fork' = [q \in Forkers |-> IF fork[q].pc = "idle" THEN fork[q]
                                  ELSE [NoFork EXCEPT !.pc = "done"]]
    /\ pass' = [p \in Passes |-> IF pass[p].pc = "idle" THEN pass[p] ELSE Rest(p)]
    /\ todo' = {}
    /\ UNCHANGED <<dir, src, heads, file>>

PushStep(q) == StartPush(q) \/ Unpack(q) \/ CheckConnected(q) \/ Land(q)
ForkStep(q) == Link(q) \/ ReadRefs(q) \/ WriteRefs(q)
PassStep(p) == ListLoose(p) \/ Walk(p) \/ DeleteLoose(p)
SweepStep == Tick \/ SweepRepo \/ PassStep(Sweeper)

Next ==
    \/ \E q \in Pushers : PushStep(q)
    \/ \E q \in Forkers : ForkStep(q)
    \/ SweepStep
    \/ \E p \in Admins : AdminGcRun(p) \/ PassStep(p)
    \/ \E r \in Repo, c \in Commit : GrowOld(r, c)
    \/ Crash

(* The ticker fires for ever and the sweep runs to its end; time passes;   *)
(* a push that has begun ends (its subprocesses end, or the timeout).      *)
Fairness ==
    /\ WF_vars(SweepStep)
    /\ \A r \in Repo, c \in Commit : WF_vars(GrowOld(r, c))
    /\ \A q \in Pushers : WF_vars(Unpack(q) \/ CheckConnected(q) \/ Land(q))

Spec == Init /\ [][Next]_vars /\ Fairness

----------------------------------------------------------------------------
(* Every variable has its type in every interleaving of passes, pushes,    *)
(* forks and crashes.                                                      *)
TypeOK ==
    /\ dir \in [Repo -> {"absent", "linked", "headed", "whole"}]
    /\ src \in [Repo -> Repo \cup {None}]
    /\ heads \in [Repo -> SUBSET Commit]
    /\ file \in [Repo -> [Commit -> Age]]
    /\ push \in [Pushers -> PushState]
    /\ fork \in [Forkers -> ForkState]
    /\ pass \in [Passes -> PassState]
    /\ todo \in SUBSET Repo
    /\ faults \in 0 .. MaxFaults

(* The promise of gc.rs to the fork network: an object that one member of  *)
(* the network reaches all the time from the start of a pass is never      *)
(* unlinked by that pass, although listing, walks and unlinks are separate *)
(* calls and refs move, disappear and spread to new forks in between.      *)
StableKept ==
    [][\A p \in Passes, r \in Repo, c \in Commit :
          (pass[p].pc = "delete" /\ pass[p].repo = r
             /\ c \in pass[p].listed /\ c \notin pass'[p].listed
             /\ file[r][c] # "none" /\ file'[r][c] = "none")
          => \A m \in Repo : c \notin pass[p].stable[m]]_vars

(* What a push has brought is still there when its ref moves: the age      *)
(* guard protects objects that no ref reaches yet from a pass that began   *)
(* before or after they were written.                                      *)
PushedKept ==
    \A q \in Pushers : push[q].pc \in {"check", "land"} => push[q].made \subseteq Odb(push[q].repo)

Garbage(r, c) == file[r][c] # "none" /\ c \notin Reach(Tips(heads, Repo))

(* Collection is complete: garbage that stays garbage is removed, unless   *)
(* some member of its network cannot be walked (a fork left half made, an  *)
(* object missing): that stops every pass on the network.                  *)
Reclaimed ==
    \A r \in Repo, c \in Commit :
        []<>~(Garbage(r, c) /\ \A m \in Network(r) : Readable(m))
=============================================================================
