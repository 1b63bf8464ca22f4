----------------------------- MODULE RefWrites -----------------------------
(***************************************************************************)
(* The three ways a ref of one repository is written, running             *)
(* concurrently: a git push (smart_http.rs), POST /commits (commits.rs)    *)
(* and POST /merge (merge.rs).  Each handler is cut at its awaits: every   *)
(* subprocess or blocking call is one action, and between two of them any  *)
(* other handler may run.  All three end in the compare-and-swap of        *)
(* refs.rs.  A handler's future can be dropped at any await (the client    *)
(* disconnects, the request timeout fires, the process dies): Cancel.      *)
(*                                                                         *)
(* Every member of Pushers, Committers and Mergers is one request.         *)
(***************************************************************************)
EXTENDS CommitGraph

CONSTANTS Ref, Pushers, Committers, Mergers

Rest == Committers \cup Mergers
Req == Pushers \cup Rest

ASSUME RequestsAssumption == Pushers \cap Rest = {} /\ Committers \cap Mergers = {}

VARIABLES refs,     \* the repository's refs
          odb,      \* its objects
          op,       \* the handler state of each request
          outbox,   \* commit events enqueued: pairs of a ref and a commit
          moves     \* history: every ref change, with the request that made it

vars == <<refs, odb, op, outbox, moves>>

Strategy == {"auto", "ff-only", "merge"}
PC == {"idle", "advertised", "unpack", "check", "build", "target", "plan",
       "cas", "publish", "done"}
Reply == {"none", "report", "rejected", "bad request", "conflict",
          "merge conflict", "unchanged", "invariant broken", "error", "ok",
          "dropped"}

Handler == [pc : PC, todo : SUBSET Ref, exp : [Ref -> Tip], want : [Ref -> Tip],
            pack : SUBSET Commit, src : Tip, strategy : Strategy, reply : Reply]
Move == [by : Req, ref : Ref, old : Tip, new : Tip]

Fresh == [pc |-> "idle", todo |-> {}, exp |-> [r \in Ref |-> None],
          want |-> [r \in Ref |-> None], pack |-> {}, src |-> None,
          strategy |-> "auto", reply |-> "none"]

Init ==
    /\ refs = [r \in Ref |-> None]
    /\ odb = {}
    /\ op = [q \in Req |-> Fresh]
    /\ outbox = {}
    /\ moves = {}

Become(q, h) == op' = [op EXCEPT ![q] = h]

(* The handler returns and its locals are gone; of one that succeeded the  *)
(* branch and the new tip, which are in its response, are kept.            *)
Answer(q, reply) == Become(q, [Fresh EXCEPT !.pc = "done", !.reply = reply])
Succeed(q) == Become(q, [Fresh EXCEPT !.pc = "done", !.reply = "ok",
                                      !.todo = op[q].todo, !.want = op[q].want])

----------------------------------------------------------------------------
(* RefStore.  `git update-ref` takes the ref's lock, compares and writes:  *)
(* one atomic step.  It also refuses a new value that is not an object of  *)
(* the repository.  Every non-zero exit is reported as a conflict, so an   *)
(* update may also fail while the comparison would have succeeded.         *)

BlindCas(q, r, expected, new) ==
    /\ new \in odb
    /\ refs' = [refs EXCEPT ![r] = new]
    /\ moves' = moves \cup {[by |-> q, ref |-> r, old |-> refs[r], new |-> new]}

CasUpdate(q, r, expected, new) ==
    /\ refs[r] = expected
    /\ new \in odb
    /\ refs' = [refs EXCEPT ![r] = new]
    /\ moves' = moves \cup {[by |-> q, ref |-> r, old |-> expected, new |-> new]}

CasDelete(q, r, expected) ==
    /\ refs[r] = expected
    /\ refs' = [refs EXCEPT ![r] = None]
    /\ moves' = moves \cup {[by |-> q, ref |-> r, old |-> expected, new |-> None]}

----------------------------------------------------------------------------
(* git push: GET info/refs, then POST git-receive-pack.                    *)

TipsOf(f, R) == {f[r] : r \in R} \ {None}

InfoRefs(q) ==
    /\ op[q].pc = "idle"
    /\ Become(q, [op[q] EXCEPT !.pc = "advertised", !.exp = refs])
    /\ UNCHANGED <<refs, odb, outbox, moves>>

(* The client's request: which refs it moves, from the advertised values   *)
(* to what, and the objects of its pack.  The pack should hold all that    *)
(* the new tips reach and the advertised ones do not; it may hold less, or *)
(* something else.                                                         *)
ReceivePack(q) ==
    /\ op[q].pc = "advertised"
    /\ \E R \in (SUBSET Ref) \ {{}} : \E new \in [R -> Tip] :
          /\ \A r \in R : new[r] # op[q].exp[r]
          /\ \E pack \in SUBSET Commit :
                Become(q, [op[q] EXCEPT !.pc = "unpack", !.todo = R, !.pack = pack,
                                 !.want = [r \in Ref |-> IF r \in R THEN new[r] ELSE None]])
    /\ UNCHANGED <<refs, odb, outbox, moves>>

UnpackAndGoOn(q) ==
    /\ op[q].pc = "unpack"
    /\ \E got \in SUBSET op[q].pack :
          /\ odb' = odb \cup got
          /\ Become(q, [op[q] EXCEPT !.pc = "check",
                              !.reply = IF got = op[q].pack THEN "none" ELSE "rejected"])
    /\ UNCHANGED <<refs, outbox, moves>>

(* git unpack-objects writes object by object: when it fails, what it has  *)
(* written stays, and every ref is answered "unpacker error"; so does what *)
(* it had written when it is killed along with its handler.                *)
Unpack(q) ==
    /\ op[q].pc = "unpack"
    /\ \E got \in SUBSET op[q].pack :
          /\ odb' = odb \cup got
          /\ \/ got = op[q].pack /\ Become(q, [op[q] EXCEPT !.pc = "check", !.pack = {}])
             \/ op[q].pack # {} /\ (Answer(q, "rejected") \/ Answer(q, "dropped"))
    /\ UNCHANGED <<refs, outbox, moves>>

TipsPresent(tips) == tips \subseteq odb

(* git rev-list --objects <tips> --not --all.                              *)
Connected(tips) == Reach(tips) \ Reach(TipsOf(refs, Ref)) \subseteq odb

(* The gate runs once, before the first ref moves.  A check that cannot    *)
(* run rejects the push as well.                                           *)
CheckConnected(q) ==
    /\ op[q].pc = "check"
    /\ \/ Connected(TipsOf(op[q].want, op[q].todo)) /\ Become(q, [op[q] EXCEPT !.pc = "cas"])
       \/ TipsOf(op[q].want, op[q].todo) # {} /\ Answer(q, "rejected")
    /\ UNCHANGED <<refs, odb, outbox, moves>>

(* The refs are updated one after the other; one that fails does not undo  *)
(* or stop the others.  A push publishes no event.                         *)
ApplyRefUpdate(q, r) ==
    /\ op[q].pc = "cas"
    /\ r \in op[q].todo
    /\ \/ op[q].want[r] = None /\ CasDelete(q, r, op[q].exp[r])
       \/ op[q].want[r] # None /\ CasUpdate(q, r, op[q].exp[r], op[q].want[r])
       \/ UNCHANGED <<refs, moves>>
    /\ Become(q, [op[q] EXCEPT !.todo = @ \ {r}])
    /\ UNCHANGED <<odb, outbox>>

Report(q) ==
    /\ op[q].pc = "cas"
    /\ op[q].todo = {}
    /\ Answer(q, "report")
    /\ UNCHANGED <<refs, odb, outbox, moves>>

----------------------------------------------------------------------------
(* POST /commits.  The client names the branch and the parent it saw last  *)
(* (none: the branch must not exist).                                      *)

CreateCommit(q) ==
    /\ op[q].pc = "idle"
    /\ \E r \in Ref, parent \in Tip :
          IF parent \in odb \cup {None}
          THEN Become(q, [op[q] EXCEPT !.pc = "build", !.todo = {r}, !.exp = [@ EXCEPT ![r] = parent]])
          ELSE Answer(q, "bad request")
    /\ UNCHANGED <<refs, odb, outbox, moves>>

(* Blobs, tree and commit are written before the ref is touched.  Two      *)
(* equal requests in the same second build the same commit.                *)
BuildCommit(q) ==
    /\ op[q].pc = "build"
    /\ \E r \in op[q].todo, c \in Commit :
          /\ Parents[c] = {op[q].exp[r]} \ {None}
          /\ odb' = odb \cup {c}
          /\ Become(q, [op[q] EXCEPT !.pc = "cas", !.want = [@ EXCEPT ![r] = c]])
    /\ UNCHANGED <<refs, outbox, moves>>

----------------------------------------------------------------------------
(* POST /merge.  The source is resolved first, the target by a later call. *)

MergeBranches(q) ==
    /\ op[q].pc = "idle"
    /\ \E s \in Ref, t \in Ref, strategy \in Strategy :
          /\ s # t
          /\ IF refs[s] = None
             THEN Answer(q, "bad request")
             ELSE Become(q, [op[q] EXCEPT !.pc = "target", !.todo = {t}, !.src = refs[s],
                                   !.strategy = strategy])
    /\ UNCHANGED <<refs, odb, outbox, moves>>

ResolveTarget(q) ==
    /\ op[q].pc = "target"
    /\ \E t \in op[q].todo : Become(q, [op[q] EXCEPT !.pc = "plan", !.exp = [@ EXCEPT ![t] = refs[t]]])
    /\ UNCHANGED <<refs, odb, outbox, moves>>

AnyFf(target, source) == TRUE

FfAvailable(target, source) == target = None \/ IsAncestor(target, source)

(* Steps 3 to 6 of the handler, on the two values it has read: nothing to  *)
(* do, fast-forward, refusal, three-way merge.                             *)
Plan(q) ==
    /\ op[q].pc = "plan"
    /\ \E t \in op[q].todo :
          LET source == op[q].src
              target == op[q].exp[t]
              noop == IsAncestor(source, target)
              ff == ~noop /\ FfAvailable(target, source) /\ op[q].strategy # "merge"
              threeWay == ~noop /\ ~ff /\ op[q].strategy # "ff-only"
          IN \/ noop /\ Answer(q, "unchanged")
             \/ ff /\ Become(q, [op[q] EXCEPT !.pc = "cas", !.want = [@ EXCEPT ![t] = source]])
             \/ ~noop /\ ~ff /\ ~threeWay /\ Answer(q, "bad request")
             \/ threeWay /\ target = None /\ Answer(q, "invariant broken")
             \/ threeWay /\ target # None /\ Answer(q, "merge conflict")
             \/ threeWay /\ target # None /\ Become(q, [op[q] EXCEPT !.pc = "build"])
    /\ UNCHANGED <<refs, odb, outbox, moves>>

(* merge-tree was clean: commit-tree with the target as first parent.      *)
BuildMerge(q) ==
    /\ op[q].pc = "build"
    /\ \E t \in op[q].todo, c \in Commit :
          /\ Parents[c] = {op[q].exp[t], op[q].src}
          /\ odb' = odb \cup {c}
          /\ Become(q, [op[q] EXCEPT !.pc = "cas", !.want = [@ EXCEPT ![t] = c]])
    /\ UNCHANGED <<refs, outbox, moves>>

----------------------------------------------------------------------------
(* The end of both REST handlers.                                          *)

CasBranch(q) ==
    /\ op[q].pc = "cas"
    /\ \E r \in op[q].todo :
          \/ /\ CasUpdate(q, r, op[q].exp[r], op[q].want[r])
             /\ Become(q, [op[q] EXCEPT !.pc = "publish"])
          \/ UNCHANGED <<refs, moves>> /\ Answer(q, "conflict")
    /\ UNCHANGED <<odb, outbox>>

(* publish_event: an enqueue that fails is logged and the request still    *)
(* succeeds.  After a fast-forward the tree is looked up first, and when   *)
(* that fails the client gets a 500 although the branch has moved.         *)
Publish(q) ==
    /\ op[q].pc = "publish"
    /\ \E r \in op[q].todo :
          \/ outbox' = outbox \cup {<<r, op[q].want[r]>>} /\ Succeed(q)
          \/ UNCHANGED outbox /\ Succeed(q)
          \/ /\ q \in Mergers /\ op[q].want[r] = op[q].src
             /\ UNCHANGED outbox /\ Answer(q, "error")
    /\ UNCHANGED <<refs, odb, moves>>

(* A git call that cannot be run, or fails in a way the handler does not   *)
(* expect, ends a REST handler with a 500.                                 *)
Fail(q) ==
    /\ op[q].pc \notin {"idle", "publish", "done"}
    /\ Answer(q, "error")
    /\ UNCHANGED <<refs, odb, outbox, moves>>

(* The handler's future is dropped; its git subprocess is killed with it.  *)
(* What the handler has already written stays.                             *)
Cancel(q) ==
    /\ op[q].pc \notin {"idle", "done"}
    /\ Answer(q, "dropped")
    /\ UNCHANGED <<refs, odb, outbox, moves>>

----------------------------------------------------------------------------
PushStep(q) ==
    \/ InfoRefs(q) \/ ReceivePack(q) \/ Unpack(q) \/ CheckConnected(q)
    \/ \E r \in Ref : ApplyRefUpdate(q, r)
    \/ Report(q)

RestStep(q) == CasBranch(q) \/ Publish(q) \/ Fail(q)

Next ==
    \/ \E q \in Pushers : PushStep(q)
    \/ \E q \in Committers : CreateCommit(q) \/ BuildCommit(q) \/ RestStep(q)
    \/ \E q \in Mergers : \/ MergeBranches(q) \/ ResolveTarget(q)
                          \/ Plan(q) \/ BuildMerge(q) \/ RestStep(q)
    \/ \E q \in Req : Cancel(q)

Spec == Init /\ [][Next]_vars

----------------------------------------------------------------------------
(* The handlers' locals, the refs, the objects and the history have their  *)
(* types whatever interleaving of swaps and answers produced them.         *)
TypeOK ==
    /\ refs \in [Ref -> Tip]
    /\ odb \in SUBSET Commit
    /\ op \in [Req -> Handler]
    /\ outbox \in SUBSET (Ref \X Commit)
    /\ moves \in SUBSET Move

(* No ref ever points into a hole: whatever was unpacked only in part, and *)
(* whoever moved refs between the connectivity check and the swap, all     *)
(* that a ref reaches is in the object database.                           *)
RefsConnected == \A r \in Ref : Reach({refs[r]}) \subseteq odb

(* Refs that a push has deleted or moved to a commit that does not contain *)
(* the previous one.                                                       *)
Rewound == {m.ref : m \in {n \in moves : /\ n.by \in Pushers
                                          /\ n.old # None /\ ~IsAncestor(n.old, n.new)}}

(* A commit or merge that was acknowledged stays in its branch, whatever   *)
(* other commits and merges raced with it, until a push rewinds the        *)
(* branch: two writers that compute from the same tip never erase each     *)
(* other.                                                                  *)
AckedCommitsKept ==
    \A q \in Rest : op[q].pc = "publish" \/ op[q].reply = "ok" =>
        \A r \in op[q].todo : r \in Rewound \/ IsAncestor(op[q].want[r], refs[r])

(* Only pushes rewind: the two branches of a merge are read at different   *)
(* times and planned on afterwards, and still the swap never drops a       *)
(* commit from the target.                                                 *)
RestNeverRewinds == \A m \in moves : m.by \in Rest /\ m.old # None => IsAncestor(m.old, m.new)

(* A subscriber is told only of commits that did land on that branch.      *)
EventsAreTrue == \A e \in outbox : \E m \in moves : m.ref = e[1] /\ m.new = e[2]

(* A request that is answered with a refusal (unpack error, missing        *)
(* objects, 400, 409) has moved nothing, so the client may safely retry.   *)
RefusedHadNoEffect ==
    \A q \in Req : op[q].reply \in {"rejected", "bad request", "conflict", "merge conflict"}
                      => \A m \in moves : m.by # q

(* merge.rs, at the start of the three-way path: "target_sha should be     *)
(* Some here -- if the branch didn't exist, the fast-forward branch at     *)
(* step 4 would have handled it and returned early".                       *)
ThreeWayHasTarget == \A q \in Mergers : op[q].reply # "invariant broken"

(* The write path implements the atomic repository.                        *)
Applied == {q \in Rest : \E m \in moves : m.by = q}
Repo == INSTANCE AtomicRepo WITH heads <- refs, stored <- odb, applied <- Applied
AtomicRepoSpec == Repo!ASpec
=============================================================================
