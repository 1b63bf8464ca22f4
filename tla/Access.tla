------------------------------- MODULE Access -------------------------------
(***************************************************************************)
(* Who may do what: the tokens table (tokens.rs), the ownership table and  *)
(* the quota (ownership.rs), and the REST handlers that go from a check to *)
(* its use across awaits (rest/repos.rs, rest/tokens.rs).  The directory   *)
(* and the two tables are three stores that no transaction spans; every    *)
(* call on one of them is one action.                                      *)
(*                                                                         *)
(* A request is admitted as a principal (authorize_rest); an id may be     *)
(* deleted and created anew, so a repository has lives.  Scopes are left   *)
(* out: a read-only token is a token.  The fork check of a delete is in    *)
(* ForkNetwork.                                                            *)
(***************************************************************************)
EXTENDS Integers, FiniteSets

CONSTANTS Repo,
          User,      \* JWT subjects
          Admin,     \* the principal of the admin token
          Token,     \* token rows; a row is free again when it has been pruned
          Req,       \* requests that run at the same time
          None,
          Quota,     \* max_repos_per_user
          MaxMade,   \* directories made in a behaviour
          MaxOrphans \* ids that a failure between directory and row may hit

ASSUME QuotaAssumption == Quota \in Nat /\ MaxMade \in Nat /\ MaxOrphans \in Nat
ASSUME ReqAssumption == IsFiniteSet(Req) /\ Req # {}
ASSUME NamesAssumption == Admin \notin User /\ None \notin User \cup {Admin} \cup Repo \cup Token

VARIABLES dir,      \* the repositories on disk
          owner,    \* the repos table: a user, Admin for a NULL owner, None for no row
          tok,      \* the tokens table
          req,      \* the state of each request
          made,     \* history: how many directories have been made
          makers,   \* history: who has made the directory of each id, in all its lives
          crossed,  \* history: ids whose row a late delete took from a later life
          orphan    \* history: ids whose directory and row a failure left apart

vars == <<dir, owner, tok, req, made, makers, crossed, orphan>>

Principal == User \cup {Admin}
Op == {"create", "fork", "delete", "mint", "rotate"}

TokType == [state : {"free", "live", "dead"}, repo : Repo \cup {None},
            by : Principal \cup {None}]
FreeTok == [state |-> "free", repo |-> None, by |-> None]

(* before (history): the tokens that were good when a rotation began; late *)
(* (history): the id was made anew since a delete removed its directory.   *)
ReqType == [pc : {"idle", "quota", "exists", "init", "own", "revokeall", "mint", "rm",
                  "unown"},
            op : Op \cup {None}, who : Principal \cup {None}, repo : Repo \cup {None},
            from : Repo \cup {None}, before : SUBSET Token, late : BOOLEAN]
NoReq == [pc |-> "idle", op |-> None, who |-> None, repo |-> None, from |-> None,
          before |-> {}, late |-> FALSE]

Init ==
    /\ dir = {}
    /\ owner = [r \in Repo |-> None]
    /\ tok = [t \in Token |-> FreeTok]
    /\ req = [q \in Req |-> NoReq]
    /\ made = 0
    /\ makers = [r \in Repo |-> {}]
    /\ crossed = {}
    /\ orphan = {}

----------------------------------------------------------------------------
(* TokenStore::lookup: revoked and expired rows do not resolve.            *)
Resolves(t) == tok[t].state = "live"

(* authorize_git: the token resolves, and to this repository.              *)
AuthorizeGit(t, r) == Resolves(t) /\ tok[t].repo = r

EnforceOpen(w, r) == w = Admin \/ owner[r] \in {w, None}

(* enforce_owner: Admin, or the recorded owner; no row is nobody's.        *)
EnforceOwner(w, r) == w = Admin \/ owner[r] = w

CountByOwner(w) == Cardinality({r \in Repo : owner[r] = w})

CheckUnder(w) == w = Admin \/ CountByOwner(w) =< Quota

(* check_repo_quota.                                                       *)
CheckRepoQuota(w) == w = Admin \/ CountByOwner(w) < Quota

(* A failure leaves the directory of r without its row, or the row alone.  *)
Orphan(r) == Cardinality(orphan \cup {r}) =< MaxOrphans /\ orphan' = orphan \cup {r}

(* The bound: the creates under way leave room for one more.               *)
Room ==
    made + Cardinality({q \in Req : req[q].pc \in {"quota", "exists", "init"}}) < MaxMade

Goto(q, pc) == req' = [req EXCEPT ![q].pc = pc]
End(q) == req' = [req EXCEPT ![q] = NoReq]

----------------------------------------------------------------------------
(* authorize_rest: the admin token, or a JWT that verifies under the       *)
(* current key and names its subject.                                      *)
AuthorizeRest == Principal

Begin(w, op, r, pc) ==
    [NoReq EXCEPT !.pc = pc, !.op = op, !.who = w, !.repo = r]

(* The handlers up to their first await that changes something: a request  *)
(* that fails a check changes nothing.  A create looks at the quota first, *)
(* the others at the owner; delete does not look at the disk here.         *)
CreateRepo(q, w, r) ==
    /\ Room /\ CheckRepoQuota(w)
    /\ req' = [req EXCEPT ![q] = Begin(w, "create", r, "exists")]

ForkRepo(q, w, r) ==
    /\ Room
    /\ \E s \in dir :
          /\ EnforceOwner(w, s)
          /\ req' = [req EXCEPT ![q] = [Begin(w, "fork", r, "quota") EXCEPT !.from = s]]

DeleteRepo(q, w, r) ==
    /\ EnforceOwner(w, r)
    /\ req' = [req EXCEPT ![q] = Begin(w, "delete", r, "rm")]

MintToken(q, w, r) ==
    /\ r \in dir /\ EnforceOwner(w, r)
    /\ req' = [req EXCEPT ![q] = Begin(w, "mint", r, "mint")]

RotateTokens(q, w, r) ==
    /\ r \in dir /\ EnforceOwner(w, r)
    /\ req' = [req EXCEPT ![q] = [Begin(w, "rotate", r, "revokeall") EXCEPT
                                     !.before = {t \in Token : AuthorizeGit(t, r)}]]

Admit(q) ==
    /\ req[q].pc = "idle"
    /\ \E w \in AuthorizeRest, r \in Repo :
          \/ CreateRepo(q, w, r) \/ ForkRepo(q, w, r) \/ DeleteRepo(q, w, r)
          \/ MintToken(q, w, r) \/ RotateTokens(q, w, r)
    /\ UNCHANGED <<dir, owner, tok, made, makers, crossed, orphan>>

(* The quota of a fork comes after the owner of the source.                *)
CheckQuota(q) ==
    /\ req[q].pc = "quota"
    /\ IF CheckRepoQuota(req[q].who) THEN Goto(q, "exists") ELSE End(q)
    /\ UNCHANGED <<dir, owner, tok, made, makers, crossed, orphan>>

(* Storage::create and fork look whether the path exists ...               *)
PathExists(q) ==
    /\ req[q].pc = "exists"
    /\ IF req[q].repo \in dir \/ (req[q].op = "fork" /\ req[q].from \notin dir)
       THEN End(q)
       ELSE req' = [req EXCEPT ![q].pc = "init", ![q].op = "create", ![q].from = None]
    /\ UNCHANGED <<dir, owner, tok, made, makers, crossed, orphan>>

(* ... and make the directory with create_dir_all, which is content with   *)
(* one that has appeared in between.                                       *)
MakeDir(q) ==
    /\ req[q].pc = "init"
    /\ dir' = dir \cup {req[q].repo}
    /\ made' = made + 1
    /\ makers' = [makers EXCEPT ![req[q].repo] = @ \cup {req[q].who}]
    /\ req' = [p \in Req |-> IF p = q THEN [req[p] EXCEPT !.pc = "own"]
                             ELSE [req[p] EXCEPT !.late = @ \/ (req[p].pc = "unown" /\ req[p].repo = req[q].repo)]]
    /\ UNCHANGED <<owner, tok, crossed, orphan>>

RecordUsersOnly(q) ==
    /\ req[q].pc = "own"
    /\ owner' = IF req[q].who = Admin THEN owner ELSE [owner EXCEPT ![req[q].repo] = req[q].who]
    /\ Goto(q, "mint")
    /\ UNCHANGED <<dir, tok, made, makers, crossed, orphan>>

(* record_owner is INSERT OR REPLACE.  When it fails the directory stays.  *)
RecordOwner(q) ==
    /\ req[q].pc = "own"
    /\ \/ /\ owner' = [owner EXCEPT ![req[q].repo] = req[q].who]
          /\ Goto(q, "mint")
          /\ UNCHANGED orphan
       \/ /\ Orphan(req[q].repo)
          /\ End(q)
          /\ UNCHANGED owner
    /\ UNCHANGED <<dir, tok, made, makers, crossed>>

(* TokenStore::mint, the last step of create, fork, mint and rotate.       *)
Mint(q) ==
    /\ req[q].pc = "mint"
    /\ \E t \in Token :
          /\ tok[t] = FreeTok
          /\ tok' = [tok EXCEPT ![t] = [state |-> "live", repo |-> req[q].repo, by |-> req[q].who]]
    /\ End(q)
    /\ UNCHANGED <<dir, owner, made, makers, crossed, orphan>>

RevokeOwn(q) ==
    /\ req[q].pc = "revokeall"
    /\ tok' = [t \in Token |-> IF AuthorizeGit(t, req[q].repo) /\ tok[t].by = req[q].who
                               THEN [tok[t] EXCEPT !.state = "dead"] ELSE tok[t]]
    /\ Goto(q, "mint")
    /\ UNCHANGED <<dir, owner, made, makers, crossed, orphan>>

(* revoke_all_for_repo: every row that still resolves.                     *)
RevokeAll(q) ==
    /\ req[q].pc = "revokeall"
    /\ tok' = [t \in Token |-> IF AuthorizeGit(t, req[q].repo)
                               THEN [tok[t] EXCEPT !.state = "dead"] ELSE tok[t]]
    /\ Goto(q, "mint")
    /\ UNCHANGED <<dir, owner, made, makers, crossed, orphan>>

(* Storage::delete, on a blocking thread ...                               *)
RemoveDir(q) ==
    /\ req[q].pc = "rm"
    /\ IF req[q].repo \in dir
       THEN /\ dir' = dir \ {req[q].repo}
            /\ req' = [req EXCEPT ![q].pc = "unown", ![q].who = None]
       ELSE End(q) /\ UNCHANGED dir
    /\ UNCHANGED <<owner, tok, made, makers, crossed, orphan>>

(* ... and then OwnershipStore::delete, whoever's row it is by now.        *)
DeleteRow(q) ==
    /\ req[q].pc = "unown"
    /\ LET r == req[q].repo
       IN /\ owner' = [owner EXCEPT ![r] = None]
          /\ crossed' = IF req[q].late THEN crossed \cup {r} ELSE crossed
    /\ End(q)
    /\ UNCHANGED <<dir, tok, made, makers, orphan>>

----------------------------------------------------------------------------
(* revoke_token: the token resolves to a repository of the caller.         *)
RevokeToken(w, t) ==
    /\ Resolves(t) /\ EnforceOwner(w, tok[t].repo)
    /\ tok' = [tok EXCEPT ![t].state = "dead"]
    /\ UNCHANGED <<dir, owner, req, made, makers, crossed, orphan>>

(* The time to live of a token runs out.                                   *)
Expire(t) ==
    /\ Resolves(t)
    /\ tok' = [tok EXCEPT ![t].state = "dead"]
    /\ UNCHANGED <<dir, owner, req, made, makers, crossed, orphan>>

(* prune: the rows that are revoked, or past the grace after expiry.       *)
Prune ==
    /\ \E gone \in SUBSET {t \in Token : tok[t].state = "dead"} :
          /\ gone # {}
          /\ tok' = [t \in Token |-> IF t \in gone THEN FreeTok ELSE tok[t]]
          /\ req' = [q \in Req |-> [req[q] EXCEPT !.before = @ \ gone]]
    /\ UNCHANGED <<dir, owner, made, makers, crossed, orphan>>

(* A handler is dropped between two awaits: client gone, timeout, crash.   *)
Drop(q) ==
    /\ req[q].pc # "idle"
    /\ IF req[q].pc \in {"own", "unown"} THEN Orphan(req[q].repo) ELSE UNCHANGED orphan
    /\ End(q)
    /\ UNCHANGED <<dir, owner, tok, made, makers, crossed>>

RequestStep(q) ==
    \/ Admit(q) \/ CheckQuota(q) \/ PathExists(q) \/ MakeDir(q) \/ RecordOwner(q)
    \/ Mint(q) \/ RevokeAll(q) \/ RemoveDir(q) \/ DeleteRow(q) \/ Drop(q)

Next ==
    \/ \E q \in Req : RequestStep(q)
    \/ \E t \in Token : Expire(t) \/ \E w \in Principal : RevokeToken(w, t)
    \/ Prune

Spec == Init /\ [][Next]_vars

----------------------------------------------------------------------------
(* Every variable has its type.                                            *)
TypeOK ==
    /\ dir \in SUBSET Repo
    /\ owner \in [Repo -> Principal \cup {None}]
    /\ tok \in [Token -> TokType]
    /\ req \in [Req -> ReqType]
    /\ made \in Nat
    /\ makers \in [Repo -> SUBSET Principal]
    /\ crossed \in SUBSET Repo /\ orphan \in SUBSET Repo

(* A token opens a repository for the admin and for those who have made    *)
(* its directory, and its owner is one of them -- although check and mint  *)
(* are separate calls, the directory exists before its owner is recorded,  *)
(* and deletes take the row of a later life.  One who made it alone, in    *)
(* the only life of the id, thus has every token but the admin's.          *)
MakersHoldTokens ==
    \A r \in Repo :
        /\ \A t \in Token : AuthorizeGit(t, r) => tok[t].by \in {Admin} \cup makers[r]
        /\ owner[r] \in {None} \cup makers[r]

(* What storage.rs says of Storage::create: "Fails if the repo already     *)
(* exists."                                                                *)
CreateFailsIfExists == [][\A q \in Req : MakeDir(q) => req[q].repo \notin dir]_vars

(* ownership.rs, check_repo_quota: the "race with concurrent creates is    *)
(* bounded by request concurrency": however many creates have raced, a     *)
(* user is never further over the quota than all but one of the requests   *)
(* that run at a time.                                                     *)
QuotaBounded == \A u \in User : CountByOwner(u) =< Quota + Cardinality(Req) - 1

(* rotate_tokens: by the time it mints the new token, no token of the      *)
(* repository that was good when the owner was checked is good any more,   *)
(* whoever minted it and whatever was minted, revoked or pruned meanwhile. *)
RotationKills ==
    \A q \in Req : (req[q].op = "rotate" /\ req[q].pc = "mint")
        => \A t \in req[q].before : ~Resolves(t)

(* A repository on disk that no request is working on has an owner row,    *)
(* whatever creates, forks and deletes of its id went on: unless a delete  *)
(* has crossed a create of the same id, or a handler was cut short between *)
(* directory and row.                                                      *)
OwnedWhenQuiet ==
    \A r \in dir \ (crossed \cup orphan) :
        (\A q \in Req : req[q].repo # r) => owner[r] # None
=============================================================================
