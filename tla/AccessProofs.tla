---------------------------- MODULE AccessProofs ----------------------------
(***************************************************************************)
(* What the tokens, the owners and the quota guarantee for every number of *)
(* users, tokens, repositories and concurrent requests.                    *)
(***************************************************************************)
EXTENDS Access, Dashboard, FiniteSetTheorems, WellFoundedInduction, TLAPS

-----------------------------------------------------------------------------
(* The inductive invariant: what the locals of a request guarantee.        *)

\* A request that may still write on behalf of somebody knows for whom, and
\* every request that runs knows its repository.
RequestsNamed ==
  \A q \in Req :
    /\ req[q].pc # "idle" => req[q].repo \in Repo
    /\ req[q].pc \notin {"idle", "unown"} => req[q].who \in Principal

\* rotate_tokens: a token that was good at the check is dead, or will be
\* when revoke_all_for_repo has run; its row is not free to be minted again.
RotationsSound ==
  \A q \in Req : req[q].op = "rotate" =>
    \A t \in req[q].before :
      \/ tok[t].state = "dead"
      \/ req[q].pc = "revokeall" /\ AuthorizeGit(t, req[q].repo)

\* A repository has its row, or a request that is about to write it.
RowOrWriter ==
  \A r \in dir \ (crossed \cup orphan) :
    owner[r] # None \/ \E q \in Req : req[q].pc = "own" /\ req[q].repo = r

\* A delete that has not been overtaken has left no directory.
DeletesSound ==
  \A q \in Req : req[q].pc = "unown" /\ ~req[q].late => req[q].repo \notin dir

\* The requests that have passed a check of the owner of r, or made r, and
\* will mint a token or write the row.
Claimants(r) == {q \in Req : req[q].repo = r /\ req[q].pc \in {"own", "revokeall", "mint"}}

\* Who opens r, owns it or is about to has made its directory, or is the admin.
MakersKnown ==
  \A r \in Repo :
    /\ \A t \in Token : AuthorizeGit(t, r) => tok[t].by \in {Admin} \cup makers[r]
    /\ owner[r] \in {None} \cup makers[r]
    /\ \A q \in Claimants(r) : /\ req[q].who \in {Admin} \cup makers[r]
                               /\ req[q].pc = "own" => req[q].who \in makers[r]

\* The requests of u that have passed the quota and have no row yet.
Passed(u) == {q \in Req : req[q].who = u /\ req[q].pc \in {"exists", "init", "own"}}
Owned(u) == {r \in Repo : owner[r] = u}

\* A row is written by a request that has passed, and there are no more of
\* these than requests.
QuotaAccount ==
  \A u \in User :
    /\ IsFiniteSet(Owned(u))
    /\ Cardinality(Owned(u)) + Cardinality(Passed(u)) =< Quota + Cardinality(Req) - 1

IInv ==
  /\ TypeOK /\ RequestsNamed /\ RotationsSound /\ RowOrWriter /\ DeletesSound
  /\ MakersKnown /\ QuotaAccount

-----------------------------------------------------------------------------
(* Types.                                                                  *)

USE NamesAssumption

LEMMA RequestType ==
  ASSUME TypeOK, NEW q \in Req
  PROVE  /\ req[q] \in ReqType
         /\ req[q].pc \in {"idle", "quota", "exists", "init", "own", "revokeall", "mint", "rm", "unown"}
         /\ req[q].op \in Op \cup {None} /\ req[q].who \in Principal \cup {None}
         /\ req[q].repo \in Repo \cup {None} /\ req[q].from \in Repo \cup {None}
         /\ req[q].before \in SUBSET Token /\ req[q].late \in BOOLEAN
  BY DEF TypeOK, ReqType

LEMMA NoReqType == NoReq \in ReqType
  BY DEF NoReq, ReqType

\* A request moves on, and the others stay where they are.
LEMMA GotoStep ==
  ASSUME TypeOK, NEW q \in Req, Goto(q, "exists") \/ Goto(q, "mint")
  PROVE  /\ req' \in [Req -> ReqType]
         /\ \A p \in Req \ {q} : req'[p] = req[p]
         /\ req'[q].op = req[q].op /\ req'[q].who = req[q].who /\ req'[q].repo = req[q].repo
         /\ req'[q].before = req[q].before /\ req'[q].late = req[q].late
         /\ Goto(q, "exists") => req'[q].pc = "exists"
         /\ Goto(q, "mint") => req'[q].pc = "mint"
<1>1. PICK place \in {"exists", "mint"} : Goto(q, place)
  OBVIOUS
<1>2. [req[q] EXCEPT !.pc = place] \in ReqType
  BY RequestType DEF ReqType
<1>3. req' = [req EXCEPT ![q] = [req[q] EXCEPT !.pc = place]]
  BY <1>1 DEF Goto
<1>4. QED
  BY <1>2, <1>3, RequestType DEF TypeOK, ReqType, Goto

\* A request ends.
LEMMA EndStep ==
  ASSUME TypeOK, NEW q \in Req, End(q)
  PROVE  /\ req' \in [Req -> ReqType]
         /\ \A p \in Req \ {q} : req'[p] = req[p]
         /\ req'[q] = NoReq
  BY NoReqType DEF TypeOK, End

\* A request begins: what it has checked.
LEMMA AdmitStep ==
  ASSUME TypeOK, NEW q \in Req, Admit(q)
  PROVE  /\ req' \in [Req -> ReqType]
         /\ \A p \in Req \ {q} : req'[p] = req[p]
         /\ req[q].pc = "idle"
         /\ req'[q].repo \in Repo /\ req'[q].who \in Principal
         /\ \/ /\ req'[q].pc = "exists" /\ req'[q].op = "create"
               /\ CheckRepoQuota(req'[q].who)
            \/ req'[q].pc = "quota" /\ req'[q].op = "fork"
            \/ req'[q].pc = "rm" /\ req'[q].op = "delete"
            \/ /\ req'[q].pc = "mint" /\ req'[q].op = "mint"
               /\ req'[q].repo \in dir /\ EnforceOwner(req'[q].who, req'[q].repo)
            \/ /\ req'[q].pc = "revokeall" /\ req'[q].op = "rotate"
               /\ req'[q].repo \in dir /\ EnforceOwner(req'[q].who, req'[q].repo)
               /\ req'[q].before = {t \in Token : AuthorizeGit(t, req'[q].repo)}
<1> USE DEF AuthorizeRest, Begin, NoReq
<1>1. PICK w \in AuthorizeRest, r \in Repo :
        \/ CreateRepo(q, w, r) \/ ForkRepo(q, w, r) \/ DeleteRepo(q, w, r)
        \/ MintToken(q, w, r) \/ RotateTokens(q, w, r)
  BY DEF Admit
<1>2. req[q].pc = "idle"
  BY DEF Admit
<1>3. ASSUME NEW x \in ReqType, req' = [req EXCEPT ![q] = x]
      PROVE  /\ req' \in [Req -> ReqType]
             /\ \A p \in Req \ {q} : req'[p] = req[p]
             /\ req'[q] = x
  BY <1>3 DEF TypeOK
<1>5. CASE CreateRepo(q, w, r)
  <2>1. Begin(w, "create", r, "exists") \in ReqType
    BY DEF ReqType, Op
  <2>2. QED
    BY <1>2, <1>3, <1>5, <2>1 DEF CreateRepo
<1>6. CASE ForkRepo(q, w, r)
  <2>1. PICK s \in dir : req' = [req EXCEPT ![q] = [Begin(w, "fork", r, "quota") EXCEPT !.from = s]]
    BY <1>6 DEF ForkRepo
  <2>2. [Begin(w, "fork", r, "quota") EXCEPT !.from = s] \in ReqType
    BY DEF ReqType, Op, TypeOK
  <2>3. QED
    BY <1>2, <1>3, <2>1, <2>2
<1>7. CASE DeleteRepo(q, w, r)
  <2>1. Begin(w, "delete", r, "rm") \in ReqType
    BY DEF ReqType, Op
  <2>2. QED
    BY <1>2, <1>3, <1>7, <2>1 DEF DeleteRepo
<1>8. CASE MintToken(q, w, r)
  <2>1. Begin(w, "mint", r, "mint") \in ReqType
    BY DEF ReqType, Op
  <2>2. QED
    BY <1>2, <1>3, <1>8, <2>1 DEF MintToken
<1>9. CASE RotateTokens(q, w, r)
  <2> DEFINE x == [Begin(w, "rotate", r, "revokeall") EXCEPT
                      !.before = {t \in Token : AuthorizeGit(t, r)}]
  <2>1. x \in ReqType
    BY DEF ReqType, Op
  <2>2. req' = [req EXCEPT ![q] = x] /\ r \in dir /\ EnforceOwner(w, r)
    BY <1>9 DEF RotateTokens
  <2>3. req'[q] = x
    BY <1>3, <2>1, <2>2
  <2>4. x.pc = "revokeall" /\ x.op = "rotate" /\ x.repo = r /\ x.who = w
        /\ x.before = {t \in Token : AuthorizeGit(t, r)}
    OBVIOUS
  <2>5. QED
    BY <1>2, <1>3, <2>1, <2>2, <2>3, <2>4
<1>10. QED
  BY <1>1, <1>5, <1>6, <1>7, <1>8, <1>9

\* The path is free, or the request ends.
LEMMA PathExistsStep ==
  ASSUME TypeOK, NEW q \in Req, PathExists(q)
  PROVE  /\ req' \in [Req -> ReqType]
         /\ \A p \in Req \ {q} : req'[p] = req[p]
         /\ req[q].pc = "exists"
         /\ \/ req'[q] = NoReq
            \/ /\ req'[q].pc = "init" /\ req'[q].op = "create"
               /\ req'[q].who = req[q].who /\ req'[q].repo = req[q].repo
<1>0. req[q].pc = "exists"
  BY DEF PathExists
<1>1. CASE End(q)
  BY <1>0, <1>1, EndStep
<1>2. CASE req' = [req EXCEPT ![q].pc = "init", ![q].op = "create", ![q].from = None]
  <2> DEFINE x == [req[q] EXCEPT !.pc = "init", !.op = "create", !.from = None]
  <2>1. x \in ReqType /\ x.pc = "init" /\ x.op = "create" /\ x.who = req[q].who /\ x.repo = req[q].repo
    BY RequestType DEF ReqType, Op
  <2>2. req' = [req EXCEPT ![q] = x]
    BY <1>2
  <2>3. QED
    BY <1>0, <2>1, <2>2 DEF TypeOK
<1>3. QED
  BY <1>1, <1>2 DEF PathExists

\* The directory is made; deletes of the same id are late from now on.
LEMMA MakeDirStep ==
  ASSUME TypeOK, NEW q \in Req, MakeDir(q)
  PROVE  /\ req' \in [Req -> ReqType]
         /\ \A p \in Req : /\ req'[p].op = req[p].op /\ req'[p].who = req[p].who
                            /\ req'[p].repo = req[p].repo /\ req'[p].before = req[p].before
         /\ req'[q].pc = "own"
         /\ \A p \in Req \ {q} :
              /\ req'[p].pc = req[p].pc
              /\ ~req'[p].late => ~req[p].late /\ ~(req[p].pc = "unown" /\ req[p].repo = req[q].repo)
<1>1. ASSUME NEW p \in Req \ {q}
      PROVE  /\ req'[p] = [req[p] EXCEPT !.late = @ \/ (req[p].pc = "unown" /\ req[p].repo = req[q].repo)]
             /\ req'[p] \in ReqType
  <2>1. req'[p] = [req[p] EXCEPT !.late = @ \/ (req[p].pc = "unown" /\ req[p].repo = req[q].repo)]
    BY DEF MakeDir
  <2>2. QED
    BY <2>1, RequestType DEF ReqType
<1>2. req'[q] = [req[q] EXCEPT !.pc = "own"] /\ req'[q] \in ReqType
  BY RequestType DEF MakeDir, ReqType
<1>3. req' \in [Req -> ReqType]
  BY <1>1, <1>2 DEF MakeDir
<1>4. QED
  BY <1>1, <1>2, <1>3, RequestType DEF ReqType

\* The directory of a delete is gone, or there was none.
LEMMA RemoveDirStep ==
  ASSUME TypeOK, NEW q \in Req, RemoveDir(q)
  PROVE  /\ req' \in [Req -> ReqType]
         /\ \A p \in Req \ {q} : req'[p] = req[p]
         /\ req[q].pc = "rm"
         /\ \/ req'[q] = NoReq /\ dir' = dir
            \/ /\ req'[q].pc = "unown" /\ req'[q].repo = req[q].repo /\ req'[q].op = req[q].op
               /\ req'[q].before = req[q].before /\ dir' = dir \ {req[q].repo}
<1>0. req[q].pc = "rm"
  BY DEF RemoveDir
<1>1. CASE End(q) /\ UNCHANGED dir
  BY <1>0, <1>1, EndStep
<1>2. CASE req' = [req EXCEPT ![q].pc = "unown", ![q].who = None] /\ dir' = dir \ {req[q].repo}
  <2> DEFINE x == [req[q] EXCEPT !.pc = "unown", !.who = None]
  <2>1. /\ x \in ReqType /\ x.pc = "unown" /\ x.repo = req[q].repo /\ x.op = req[q].op
        /\ x.before = req[q].before
    BY RequestType DEF ReqType
  <2>2. req' = [req EXCEPT ![q] = x]
    BY <1>2
  <2>3. QED
    BY <1>0, <1>2, <2>1, <2>2 DEF TypeOK
<1>3. QED
  BY <1>1, <1>2 DEF RemoveDir

\* Pruned rows are free, and no rotation counts on them.
LEMMA PruneStep ==
  ASSUME TypeOK, Prune
  PROVE  /\ req' \in [Req -> ReqType]
         /\ \A p \in Req : /\ req'[p].pc = req[p].pc /\ req'[p].op = req[p].op
                            /\ req'[p].who = req[p].who /\ req'[p].repo = req[p].repo
                            /\ req'[p].late = req[p].late
         /\ \E gone \in SUBSET Token :
              /\ \A p \in Req : req'[p].before = req[p].before \ gone
              /\ \A t \in Token \ gone : tok'[t] = tok[t]
              /\ \A t \in gone : tok'[t] = FreeTok
<1>1. PICK gone \in SUBSET {t \in Token : tok[t].state = "dead"} :
          /\ tok' = [t \in Token |-> IF t \in gone THEN FreeTok ELSE tok[t]]
          /\ req' = [q \in Req |-> [req[q] EXCEPT !.before = @ \ gone]]
  BY DEF Prune
<1>2. ASSUME NEW p \in Req
      PROVE  req'[p] = [req[p] EXCEPT !.before = @ \ gone] /\ req'[p] \in ReqType
  BY <1>1, RequestType DEF ReqType
<1>3. req' \in [Req -> ReqType]
  BY <1>1, <1>2
<1>4. QED
  BY <1>1, <1>2, <1>3, RequestType DEF ReqType

\* A row that was free becomes a token of the requester; the others stay.
LEMMA MintStep ==
  ASSUME TypeOK, NEW q \in Req, Mint(q)
  PROVE  \E t \in Token :
           /\ tok[t].state = "free"
           /\ tok'[t].state = "live" /\ tok'[t].repo = req[q].repo /\ tok'[t].by = req[q].who
           /\ \A s \in Token \ {t} : tok'[s] = tok[s]
<1>1. PICK t \in Token :
        /\ tok[t] = FreeTok
        /\ tok' = [tok EXCEPT ![t] = [state |-> "live", repo |-> req[q].repo, by |-> req[q].who]]
  BY DEF Mint
<1>2. QED
  BY <1>1 DEF FreeTok, TypeOK

\* A step that kills the tokens of a set, and leaves the others alone.
LEMMA KillStep ==
  ASSUME TypeOK, NEW K, NEW t \in Token,
         tok' = [s \in Token |-> IF s \in K THEN [tok[s] EXCEPT !.state = "dead"] ELSE tok[s]]
  PROVE  /\ tok'[t].repo = tok[t].repo /\ tok'[t].by = tok[t].by
         /\ t \in K => tok'[t].state = "dead"
         /\ t \notin K => tok'[t] = tok[t]
  BY DEF TypeOK, TokType

LEMMA RevokeAllStep ==
  ASSUME TypeOK, NEW q \in Req, RevokeAll(q), NEW t \in Token
  PROVE  /\ tok'[t].repo = tok[t].repo /\ tok'[t].by = tok[t].by
         /\ AuthorizeGit(t, req[q].repo) => tok'[t].state = "dead"
         /\ ~AuthorizeGit(t, req[q].repo) => tok'[t] = tok[t]
<1> DEFINE K == {s \in Token : AuthorizeGit(s, req[q].repo)}
<1>1. tok' = [s \in Token |-> IF s \in K THEN [tok[s] EXCEPT !.state = "dead"] ELSE tok[s]]
  BY DEF RevokeAll
<1> HIDE DEF K
<1>2. /\ tok'[t].repo = tok[t].repo /\ tok'[t].by = tok[t].by
      /\ t \in K => tok'[t].state = "dead"
      /\ t \notin K => tok'[t] = tok[t]
  BY <1>1, KillStep
<1>3. QED
  BY <1>2 DEF K

LEMMA RevokeOneStep ==
  ASSUME TypeOK, NEW s \in Token, Expire(s) \/ \E w \in Principal : RevokeToken(w, s), NEW t \in Token
  PROVE  /\ tok'[t].repo = tok[t].repo /\ tok'[t].by = tok[t].by
         /\ tok'[t] = tok[t] \/ tok'[t].state = "dead"
<1>1. tok' = [tok EXCEPT ![s].state = "dead"]
  BY DEF Expire, RevokeToken
<1>2. QED
  BY <1>1 DEF TypeOK, TokType

LEMMA TypeInit == Init => TypeOK
  BY NoReqType DEF Init, TypeOK, TokType, FreeTok

LEMMA TypeStep ==
  ASSUME TypeOK, RequestsNamed, [Next]_vars
  PROVE  TypeOK'
<1> USE RequestType DEF TypeOK
<1>0. CASE UNCHANGED vars
  BY <1>0 DEF vars
<1>1. ASSUME NEW q \in Req, Admit(q) PROVE TypeOK'
  BY <1>1, AdmitStep DEF Admit
<1>2. ASSUME NEW q \in Req, CheckQuota(q) PROVE TypeOK'
  BY <1>2, GotoStep, EndStep DEF CheckQuota
<1>3. ASSUME NEW q \in Req, PathExists(q) PROVE TypeOK'
  BY <1>3, PathExistsStep DEF PathExists
<1>4. ASSUME NEW q \in Req, MakeDir(q) PROVE TypeOK'
  <2>1. req[q].repo \in Repo /\ req[q].who \in Principal
    BY <1>4 DEF MakeDir, RequestsNamed
  <2>2. makers' \in [Repo -> SUBSET Principal] /\ made' \in Nat /\ dir' \in SUBSET Repo
    BY <1>4, <2>1 DEF MakeDir
  <2>3. QED
    BY <1>4, <2>2, MakeDirStep DEF MakeDir
<1>5. ASSUME NEW q \in Req, RecordOwner(q) PROVE TypeOK'
  <2>1. req[q].repo \in Repo /\ req[q].who \in Principal
    BY <1>5 DEF RecordOwner, RequestsNamed
  <2>2. req' \in [Req -> ReqType]
    BY <1>5, GotoStep, EndStep DEF RecordOwner
  <2>3. QED
    BY <1>5, <2>1, <2>2 DEF RecordOwner, Orphan
<1>6. ASSUME NEW q \in Req, Mint(q) PROVE TypeOK'
  <2>1. req[q].repo \in Repo /\ req[q].who \in Principal
    BY <1>6 DEF Mint, RequestsNamed
  <2>2. [state |-> "live", repo |-> req[q].repo, by |-> req[q].who] \in TokType
    BY <2>1 DEF TokType
  <2>3. QED
    BY <1>6, <2>2, EndStep DEF Mint
<1>7. ASSUME NEW q \in Req, RevokeAll(q) PROVE TypeOK'
  <2>1. \A t \in Token : [tok[t] EXCEPT !.state = "dead"] \in TokType
    BY DEF TokType
  <2>2. QED
    BY <1>7, <2>1, GotoStep DEF RevokeAll
<1>8. ASSUME NEW q \in Req, RemoveDir(q) PROVE TypeOK'
  BY <1>8, RemoveDirStep DEF RemoveDir
<1>9. ASSUME NEW q \in Req, DeleteRow(q) PROVE TypeOK'
  <2>1. req[q].repo \in Repo
    BY <1>9 DEF DeleteRow, RequestsNamed
  <2>2. QED
    BY <1>9, <2>1, EndStep DEF DeleteRow
<1>10. ASSUME NEW q \in Req, Drop(q) PROVE TypeOK'
  <2>1. req[q].repo \in Repo
    BY <1>10 DEF Drop, RequestsNamed
  <2>2. QED
    BY <1>10, <2>1, EndStep DEF Drop, Orphan
<1>11. ASSUME NEW t \in Token, tok' = [tok EXCEPT ![t].state = "dead"]
       PROVE  tok' \in [Token -> TokType]
  <2>1. [tok[t] EXCEPT !.state = "dead"] \in TokType
    BY DEF TokType
  <2>2. QED
    BY <1>11, <2>1
<1>12. ASSUME NEW t \in Token, Expire(t) PROVE TypeOK'
  BY <1>11, <1>12 DEF Expire
<1>13. ASSUME NEW t \in Token, NEW w \in Principal, RevokeToken(w, t) PROVE TypeOK'
  BY <1>11, <1>13 DEF RevokeToken
<1>14. CASE Prune
  <2>1. FreeTok \in TokType
    BY DEF FreeTok, TokType
  <2>2. tok' \in [Token -> TokType]
    BY <1>14, <2>1 DEF Prune
  <2>3. QED
    BY <1>14, <2>2, PruneStep DEF Prune
<1>15. QED
  BY <1>0, <1>1, <1>2, <1>3, <1>4, <1>5, <1>6, <1>7, <1>8, <1>9, <1>10, <1>12, <1>13, <1>14
     DEF Next, RequestStep

-----------------------------------------------------------------------------
(* Requests, rotations and deletes.                                        *)

LEMMA NamedStep ==
  ASSUME TypeOK, RequestsNamed, [Next]_vars
  PROVE  RequestsNamed'
<1> USE RequestType DEF RequestsNamed
<1>0. CASE UNCHANGED vars
  BY <1>0 DEF vars
<1>1. ASSUME NEW q \in Req, Admit(q) PROVE RequestsNamed'
  BY <1>1, AdmitStep
<1>2. ASSUME NEW q \in Req, CheckQuota(q) PROVE RequestsNamed'
  BY <1>2, GotoStep, EndStep DEF CheckQuota, NoReq
<1>3. ASSUME NEW q \in Req, PathExists(q) PROVE RequestsNamed'
  BY <1>3, PathExistsStep DEF NoReq
<1>4. ASSUME NEW q \in Req, MakeDir(q) PROVE RequestsNamed'
  BY <1>4, MakeDirStep DEF MakeDir
<1>5. ASSUME NEW q \in Req, RecordOwner(q) PROVE RequestsNamed'
  BY <1>5, GotoStep, EndStep DEF RecordOwner, NoReq
<1>6. ASSUME NEW q \in Req, RevokeAll(q) PROVE RequestsNamed'
  BY <1>6, GotoStep DEF RevokeAll
<1>7. ASSUME NEW q \in Req, RemoveDir(q) PROVE RequestsNamed'
  BY <1>7, RemoveDirStep DEF NoReq
<1>8. ASSUME NEW q \in Req, Mint(q) \/ DeleteRow(q) \/ Drop(q) PROVE RequestsNamed'
  <2>1. End(q)
    BY <1>8 DEF Mint, DeleteRow, Drop
  <2>2. QED
    BY <2>1, EndStep DEF NoReq
<1>9. ASSUME NEW t \in Token, Expire(t) \/ \E w \in Principal : RevokeToken(w, t) PROVE RequestsNamed'
  BY <1>9 DEF Expire, RevokeToken
<1>10. CASE Prune
  BY <1>10, PruneStep
<1>11. QED
  BY <1>0, <1>1, <1>2, <1>3, <1>4, <1>5, <1>6, <1>7, <1>8, <1>9, <1>10 DEF Next, RequestStep

\* Only mint brings a token to life, and none changes hands.
LEMMA TokensOnlyMinted ==
  ASSUME TypeOK, [Next]_vars, NEW t \in Token, NEW r, AuthorizeGit(t, r)'
  PROVE  \/ AuthorizeGit(t, r) /\ tok'[t].by = tok[t].by
         \/ \E q \in Req : Mint(q) /\ r = req[q].repo /\ tok'[t].by = req[q].who
<1> USE DEF AuthorizeGit, Resolves
<1>1. CASE UNCHANGED tok
  BY <1>1
<1>2. ASSUME NEW q \in Req, Mint(q)
      PROVE  \/ AuthorizeGit(t, r) /\ tok'[t].by = tok[t].by
             \/ r = req[q].repo /\ tok'[t].by = req[q].who
  BY <1>2, MintStep
<1>3. ASSUME NEW q \in Req, RevokeAll(q) PROVE AuthorizeGit(t, r) /\ tok'[t].by = tok[t].by
  BY <1>3, RevokeAllStep
<1>4. ASSUME NEW s \in Token, Expire(s) \/ \E w \in Principal : RevokeToken(w, s)
      PROVE  AuthorizeGit(t, r) /\ tok'[t].by = tok[t].by
  BY <1>4, RevokeOneStep
<1>5. CASE Prune
  BY <1>5, PruneStep DEF FreeTok
<1>6. UNCHANGED tok \/ (\E q \in Req : Mint(q) \/ RevokeAll(q)) \/ Prune
      \/ \E s \in Token : Expire(s) \/ \E w \in Principal : RevokeToken(w, s)
  BY DEF Next, RequestStep, vars, Admit, CheckQuota, PathExists, MakeDir, RecordOwner,
         RemoveDir, DeleteRow, Drop
<1>7. QED
  BY <1>1, <1>2, <1>3, <1>4, <1>5, <1>6

LEMMA RotationsStep ==
  ASSUME TypeOK, RequestsNamed, RotationsSound, [Next]_vars
  PROVE  RotationsSound'
<1> USE RequestType DEF RotationsSound, AuthorizeGit, Resolves
<1>0. CASE UNCHANGED vars
  BY <1>0 DEF vars
<1>1. ASSUME NEW q \in Req, Admit(q) PROVE RotationsSound'
  <2>1. UNCHANGED tok
    BY <1>1 DEF Admit
  <2>2. QED
    BY <1>1, <2>1, AdmitStep
<1>2. ASSUME NEW q \in Req, CheckQuota(q) PROVE RotationsSound'
  BY <1>2, GotoStep, EndStep DEF CheckQuota, NoReq
<1>3. ASSUME NEW q \in Req, PathExists(q) PROVE RotationsSound'
  <2>1. UNCHANGED tok
    BY <1>3 DEF PathExists
  <2>2. QED
    BY <1>3, <2>1, PathExistsStep DEF NoReq
<1>4. ASSUME NEW q \in Req, MakeDir(q) PROVE RotationsSound'
  <2>1. UNCHANGED tok /\ req[q].pc = "init"
    BY <1>4 DEF MakeDir
  <2>2. QED
    BY <1>4, <2>1, MakeDirStep
<1>5. ASSUME NEW q \in Req, RecordOwner(q) PROVE RotationsSound'
  BY <1>5, GotoStep, EndStep DEF RecordOwner, NoReq
<1>6. ASSUME NEW q \in Req, RevokeAll(q) PROVE RotationsSound'
  <2>1. Goto(q, "mint")
    BY <1>6 DEF RevokeAll
  <2>2. QED
    BY <1>6, <2>1, GotoStep, RevokeAllStep
<1>7. ASSUME NEW q \in Req, RemoveDir(q) PROVE RotationsSound'
  <2>1. UNCHANGED tok
    BY <1>7 DEF RemoveDir
  <2>2. QED
    BY <1>7, <2>1, RemoveDirStep DEF NoReq
<1>8. ASSUME NEW q \in Req, DeleteRow(q) \/ Drop(q) PROVE RotationsSound'
  <2>1. End(q) /\ UNCHANGED tok
    BY <1>8 DEF DeleteRow, Drop
  <2>2. QED
    BY <2>1, EndStep DEF NoReq
<1>9. ASSUME NEW q \in Req, Mint(q) PROVE RotationsSound'
  <2>1. End(q)
    BY <1>9 DEF Mint
  <2>2. QED
    BY <1>9, <2>1, EndStep, MintStep DEF NoReq
<1>10. ASSUME NEW s \in Token, Expire(s) \/ \E w \in Principal : RevokeToken(w, s) PROVE RotationsSound'
  <2>1. UNCHANGED req
    BY <1>10 DEF Expire, RevokeToken
  <2>2. QED
    BY <1>10, <2>1, RevokeOneStep
<1>11. CASE Prune
  BY <1>11, PruneStep
<1>12. QED
  BY <1>0, <1>1, <1>2, <1>3, <1>4, <1>5, <1>6, <1>7, <1>8, <1>9, <1>10, <1>11 DEF Next, RequestStep

LEMMA DeletesStep ==
  ASSUME TypeOK, RequestsNamed, DeletesSound, [Next]_vars
  PROVE  DeletesSound'
<1> USE RequestType DEF DeletesSound
<1>0. CASE UNCHANGED vars
  BY <1>0 DEF vars
<1>1. ASSUME NEW q \in Req, Admit(q) PROVE DeletesSound'
  <2>1. UNCHANGED dir
    BY <1>1 DEF Admit
  <2>2. QED
    BY <1>1, <2>1, AdmitStep
<1>2. ASSUME NEW q \in Req, CheckQuota(q) PROVE DeletesSound'
  BY <1>2, GotoStep, EndStep DEF CheckQuota, NoReq
<1>3. ASSUME NEW q \in Req, PathExists(q) PROVE DeletesSound'
  <2>1. UNCHANGED dir
    BY <1>3 DEF PathExists
  <2>2. QED
    BY <1>3, <2>1, PathExistsStep DEF NoReq
<1>4. ASSUME NEW q \in Req, MakeDir(q) PROVE DeletesSound'
  <2>1. dir' = dir \cup {req[q].repo}
    BY <1>4 DEF MakeDir
  <2>2. QED
    BY <1>4, <2>1, MakeDirStep
<1>5. ASSUME NEW q \in Req, RecordOwner(q) PROVE DeletesSound'
  BY <1>5, GotoStep, EndStep DEF RecordOwner, NoReq
<1>6. ASSUME NEW q \in Req, RevokeAll(q) PROVE DeletesSound'
  BY <1>6, GotoStep DEF RevokeAll
<1>7. ASSUME NEW q \in Req, RemoveDir(q) PROVE DeletesSound'
  BY <1>7, RemoveDirStep DEF NoReq
<1>8. ASSUME NEW q \in Req, Mint(q) \/ DeleteRow(q) \/ Drop(q) PROVE DeletesSound'
  <2>1. End(q) /\ UNCHANGED dir
    BY <1>8 DEF Mint, DeleteRow, Drop
  <2>2. QED
    BY <2>1, EndStep DEF NoReq
<1>9. ASSUME NEW t \in Token, Expire(t) \/ \E w \in Principal : RevokeToken(w, t) PROVE DeletesSound'
  BY <1>9 DEF Expire, RevokeToken
<1>10. CASE Prune
  <2>1. UNCHANGED dir
    BY <1>10 DEF Prune
  <2>2. QED
    BY <1>10, <2>1, PruneStep
<1>11. QED
  BY <1>0, <1>1, <1>2, <1>3, <1>4, <1>5, <1>6, <1>7, <1>8, <1>9, <1>10 DEF Next, RequestStep

-----------------------------------------------------------------------------
(* Directories and rows.                                                   *)

LEMMA RowsStep ==
  ASSUME TypeOK, RequestsNamed, DeletesSound, RowOrWriter, [Next]_vars
  PROVE  RowOrWriter'
<1> USE RequestType DEF RowOrWriter
<1>0. CASE UNCHANGED vars
  BY <1>0 DEF vars
\* A request that is not about to write ends or moves on.
<1>1. ASSUME NEW q \in Req, req[q].pc # "own", \A p \in Req \ {q} : req'[p] = req[p],
             dir' \subseteq dir, UNCHANGED <<owner, crossed>>, orphan \subseteq orphan'
      PROVE  RowOrWriter'
  BY <1>1
<1>2. ASSUME NEW q \in Req, Admit(q) \/ CheckQuota(q) \/ PathExists(q) \/ RevokeAll(q)
                            \/ RemoveDir(q) \/ Mint(q)
      PROVE  RowOrWriter'
  <2>1. req[q].pc # "own" /\ UNCHANGED <<owner, crossed, orphan>>
    BY <1>2 DEF Admit, CheckQuota, PathExists, RevokeAll, RemoveDir, Mint
  <2>2. dir' \subseteq dir
    BY <1>2, RemoveDirStep DEF Admit, CheckQuota, PathExists, RevokeAll, Mint
  <2>3. \A p \in Req \ {q} : req'[p] = req[p]
    <3>1. CASE End(q) \/ Goto(q, "exists") \/ Goto(q, "mint")
      BY <3>1, GotoStep, EndStep
    <3>2. QED
      BY <1>2, <3>1, AdmitStep, PathExistsStep, RemoveDirStep DEF CheckQuota, RevokeAll, Mint
  <2>4. QED
    BY <1>1, <2>1, <2>2, <2>3
<1>3. ASSUME NEW q \in Req, MakeDir(q) PROVE RowOrWriter'
  <2>1. dir' = dir \cup {req[q].repo} /\ UNCHANGED <<owner, crossed, orphan>>
    BY <1>3 DEF MakeDir
  <2>2. QED
    BY <1>3, <2>1, MakeDirStep
<1>4. ASSUME NEW q \in Req, RecordOwner(q) PROVE RowOrWriter'
  <2>1. req[q].pc = "own" /\ req[q].repo \in Repo /\ req[q].who # None /\ UNCHANGED <<dir, crossed>>
    BY <1>4 DEF RecordOwner, RequestsNamed, Principal
  <2>2. \A p \in Req \ {q} : req'[p] = req[p]
    BY <1>4, GotoStep, EndStep DEF RecordOwner
  <2>3. CASE owner' = [owner EXCEPT ![req[q].repo] = req[q].who] /\ UNCHANGED orphan
    BY <2>1, <2>2, <2>3 DEF TypeOK
  <2>4. CASE Orphan(req[q].repo) /\ UNCHANGED owner
    BY <2>1, <2>2, <2>4 DEF Orphan
  <2>5. QED
    BY <1>4, <2>3, <2>4 DEF RecordOwner
<1>5. ASSUME NEW q \in Req, DeleteRow(q) PROVE RowOrWriter'
  <2>1. /\ req[q].pc = "unown" /\ UNCHANGED <<dir, orphan>>
        /\ owner' = [owner EXCEPT ![req[q].repo] = None]
        /\ crossed \subseteq crossed'
        /\ req[q].late => req[q].repo \in crossed'
    BY <1>5 DEF DeleteRow
  <2>2. \A p \in Req \ {q} : req'[p] = req[p]
    BY <1>5, EndStep DEF DeleteRow
  <2>3. req[q].repo \in dir => req[q].repo \in crossed'
    BY <2>1 DEF DeletesSound
  <2>4. QED
    BY <2>1, <2>2, <2>3 DEF TypeOK
<1>6. ASSUME NEW q \in Req, Drop(q) PROVE RowOrWriter'
  <2>1. /\ UNCHANGED <<dir, owner, crossed>> /\ orphan \subseteq orphan'
        /\ req[q].pc = "own" => req[q].repo \in orphan'
    BY <1>6 DEF Drop, Orphan
  <2>2. \A p \in Req \ {q} : req'[p] = req[p]
    BY <1>6, EndStep DEF Drop
  <2>3. QED
    BY <2>1, <2>2
<1>7. ASSUME NEW t \in Token, Expire(t) \/ \E w \in Principal : RevokeToken(w, t) PROVE RowOrWriter'
  BY <1>7 DEF Expire, RevokeToken
<1>8. CASE Prune
  <2>1. UNCHANGED <<dir, owner, crossed, orphan>>
    BY <1>8 DEF Prune
  <2>2. QED
    BY <1>8, <2>1, PruneStep
<1>9. QED
  BY <1>0, <1>2, <1>3, <1>4, <1>5, <1>6, <1>7, <1>8 DEF Next, RequestStep

\* Who can become one who mints or writes: a request that has made the
\* directory, or one whose principal has been checked against the row.
LEMMA ClaimantsStep ==
  ASSUME TypeOK, RequestsNamed, [Next]_vars, NEW r \in Repo, NEW p \in Claimants(r)'
  PROVE  /\ p \in Req /\ req'[p].repo = r
         /\ \/ MakeDir(p) /\ req[p].repo = r /\ req'[p].pc = "own" /\ req'[p].who = req[p].who
            \/ /\ r \in dir /\ EnforceOwner(req'[p].who, r) /\ req'[p].who \in Principal
               /\ req'[p].pc # "own" /\ UNCHANGED <<owner, tok, made>>
               /\ \A q \in Req \ {p} : req'[q] = req[q]
            \/ /\ p \in Claimants(r) /\ req'[p].who = req[p].who
               /\ req'[p].pc = "own" => req[p].pc = "own"
<1> USE RequestType DEF Claimants
<1>0. CASE UNCHANGED vars
  BY <1>0 DEF vars
<1>1. ASSUME NEW q \in Req, Admit(q)
      PROVE  \/ /\ r \in dir /\ EnforceOwner(req'[p].who, r) /\ req'[p].who \in Principal
                /\ req'[p].pc # "own" /\ UNCHANGED <<owner, tok, made>>
                /\ \A s \in Req \ {p} : req'[s] = req[s]
             \/ req'[p] = req[p]
  <2>1. UNCHANGED <<owner, tok, made>>
    BY <1>1 DEF Admit
  <2>2. QED
    BY <1>1, <2>1, AdmitStep
<1>2. ASSUME NEW q \in Req, End(q) PROVE req'[p] = req[p]
  BY <1>2, EndStep DEF NoReq
<1>3. ASSUME NEW q \in Req, CheckQuota(q) PROVE req'[p] = req[p]
  BY <1>2, <1>3, GotoStep DEF CheckQuota
<1>4. ASSUME NEW q \in Req, PathExists(q) PROVE req'[p] = req[p]
  BY <1>4, PathExistsStep DEF NoReq
<1>5. ASSUME NEW q \in Req, MakeDir(q)
      PROVE  \/ MakeDir(p) /\ req[p].repo = r /\ req'[p].pc = "own" /\ req'[p].who = req[p].who
             \/ req'[p].pc = req[p].pc /\ req'[p].who = req[p].who /\ req[p].repo = r
  BY <1>5, MakeDirStep
<1>6. ASSUME NEW q \in Req, Goto(q, "mint"), req[q].pc \in {"own", "revokeall"}
      PROVE  /\ p \in Claimants(r) /\ req'[p].who = req[p].who
             /\ req'[p].pc = "own" => req[p].pc = "own"
  BY <1>6, GotoStep
<1>7. ASSUME NEW q \in Req, RemoveDir(q) PROVE req'[p] = req[p]
  BY <1>7, RemoveDirStep DEF NoReq
<1>8. CASE Prune
  BY <1>8, PruneStep
<1>9. ASSUME NEW t \in Token, Expire(t) \/ \E w \in Principal : RevokeToken(w, t) PROVE req'[p] = req[p]
  BY <1>9 DEF Expire, RevokeToken
<1>10. QED
  BY <1>0, <1>1, <1>2, <1>3, <1>4, <1>5, <1>6, <1>7, <1>8, <1>9
     DEF Next, RequestStep, Mint, RevokeAll, DeleteRow, Drop, RecordOwner

\* A row changes by record_owner of one that was about to write it, or goes.
LEMMA OwnerStep ==
  ASSUME TypeOK, RequestsNamed, [Next]_vars, NEW r \in Repo
  PROVE  \/ owner'[r] = owner[r]
         \/ owner'[r] = None
         \/ \E q \in Claimants(r) : /\ req[q].pc = "own" /\ owner'[r] = req[q].who
                                    /\ req'[q].pc = "mint" /\ req'[q].who = req[q].who
                                    /\ \A p \in Req \ {q} : req'[p] = req[p]
                                    /\ UNCHANGED <<tok, made>>
<1>1. CASE UNCHANGED owner
  BY <1>1
<1>2. ASSUME NEW q \in Req, DeleteRow(q) PROVE owner'[r] = owner[r] \/ owner'[r] = None
  BY <1>2 DEF DeleteRow, TypeOK
<1>3. ASSUME NEW q \in Req, RecordOwner(q), req[q].repo # r \/ UNCHANGED owner PROVE owner'[r] = owner[r]
  BY <1>3 DEF RecordOwner, TypeOK
<1>4. ASSUME NEW q \in Req, RecordOwner(q), req[q].repo = r, ~UNCHANGED owner
      PROVE  /\ q \in Claimants(r) /\ req[q].pc = "own" /\ owner'[r] = req[q].who
             /\ req'[q].pc = "mint" /\ req'[q].who = req[q].who
             /\ \A p \in Req \ {q} : req'[p] = req[p]
             /\ UNCHANGED <<tok, made>>
  <2>1. Goto(q, "mint") /\ owner' = [owner EXCEPT ![req[q].repo] = req[q].who] /\ req[q].pc = "own"
        /\ UNCHANGED <<tok, made>>
    BY <1>4 DEF RecordOwner
  <2>2. QED
    BY <1>4, <2>1, GotoStep DEF TypeOK, Claimants
<1>5. QED
  BY <1>1, <1>2, <1>3, <1>4
     DEF Next, RequestStep, vars, Admit, CheckQuota, PathExists, MakeDir, Mint, RevokeAll, RemoveDir,
         Drop, Expire, RevokeToken, Prune

\* Makers are added where the directory is made, and none is forgotten.
LEMMA MakersStep ==
  ASSUME TypeOK, RequestsNamed, [Next]_vars, NEW r \in Repo
  PROVE  /\ makers[r] \subseteq makers'[r]
         /\ \A q \in Req : MakeDir(q) /\ req[q].repo = r => req[q].who \in makers'[r]
<1>1. ASSUME NEW q \in Req, MakeDir(q)
      PROVE  /\ makers[r] \subseteq makers'[r]
             /\ req[q].repo = r => req[q].who \in makers'[r]
  BY <1>1 DEF MakeDir, TypeOK
<1>2. (\E q \in Req : MakeDir(q)) \/ UNCHANGED makers
  BY DEF Next, RequestStep, vars, Admit, CheckQuota, PathExists, RecordOwner, Mint, RevokeAll, RemoveDir,
         DeleteRow, Drop, Expire, RevokeToken, Prune
<1>3. QED
  BY <1>1, <1>2

LEMMA MakersKnownStep ==
  ASSUME TypeOK, RequestsNamed, MakersKnown, [Next]_vars
  PROVE  MakersKnown'
<1> SUFFICES ASSUME NEW r \in Repo
             PROVE  /\ \A t \in Token : AuthorizeGit(t, r)' => tok'[t].by \in {Admin} \cup makers'[r]
                    /\ owner'[r] \in {None} \cup makers'[r]
                    /\ \A q \in Claimants(r)' : /\ req'[q].who \in {Admin} \cup makers'[r]
                                                /\ req'[q].pc = "own" => req'[q].who \in makers'[r]
  BY DEF MakersKnown
<1> USE DEF MakersKnown
<1>1. makers[r] \subseteq makers'[r]
  BY MakersStep
<1>2. ASSUME NEW t \in Token, AuthorizeGit(t, r)' PROVE tok'[t].by \in {Admin} \cup makers'[r]
  <2>1. ASSUME NEW q \in Req, Mint(q), req[q].repo = r PROVE q \in Claimants(r)
    BY <2>1 DEF Mint, Claimants
  <2>2. QED
    BY <1>1, <1>2, <2>1, TokensOnlyMinted
<1>3. owner'[r] \in {None} \cup makers'[r]
  BY <1>1, OwnerStep
<1>4. ASSUME NEW q \in Claimants(r)'
      PROVE  /\ req'[q].who \in {Admin} \cup makers'[r]
             /\ req'[q].pc = "own" => req'[q].who \in makers'[r]
  <2>1. CASE MakeDir(q) /\ req[q].repo = r /\ req'[q].pc = "own" /\ req'[q].who = req[q].who
    BY <1>4, <2>1, MakersStep DEF Claimants
  <2>2. CASE EnforceOwner(req'[q].who, r) /\ req'[q].who \in Principal /\ req'[q].pc # "own"
    BY <1>1, <2>2 DEF EnforceOwner, Principal
  <2>3. CASE /\ q \in Claimants(r) /\ req'[q].who = req[q].who
             /\ req'[q].pc = "own" => req[q].pc = "own"
    BY <1>1, <2>3
  <2>4. QED
    BY <1>4, <2>1, <2>2, <2>3, ClaimantsStep
<1>5. QED
  BY <1>2, <1>3, <1>4

-----------------------------------------------------------------------------
(* The quota.                                                              *)

USE ReqAssumption, QuotaAssumption

LEMMA PassedFinite ==
  ASSUME NEW u
  PROVE  /\ IsFiniteSet(Passed(u)) /\ Cardinality(Passed(u)) =< Cardinality(Req)
         /\ Cardinality(Passed(u)) \in Nat /\ Cardinality(Req) \in Nat
<1>1. Passed(u) \subseteq Req
  BY DEF Passed
<1>2. QED
  BY <1>1, FS_Subset, FS_CardinalityType

LEMMA QuotaInit == Init => QuotaAccount
<1> SUFFICES ASSUME Init, NEW u \in User
             PROVE  /\ IsFiniteSet(Owned(u))
                    /\ Cardinality(Owned(u)) + Cardinality(Passed(u)) =< Quota + Cardinality(Req) - 1
  BY DEF QuotaAccount
<1>1. Owned(u) = {} /\ Passed(u) = {}
  BY DEF Init, Owned, Passed, NoReq
<1>2. Cardinality(Req) \in Nat /\ Cardinality(Req) # 0
  BY FS_CardinalityType, FS_EmptySet
<1>3. QED
  BY <1>1, <1>2, FS_EmptySet

\* Fewer rows and fewer requests on the way keep the account.
LEMMA QuotaShrinks ==
  ASSUME NEW u \in User, QuotaAccount, Owned(u)' \subseteq Owned(u), Passed(u)' \subseteq Passed(u)
  PROVE  /\ IsFiniteSet(Owned(u)')
         /\ Cardinality(Owned(u)') + Cardinality(Passed(u)') =< Quota + Cardinality(Req) - 1
<1>1. /\ IsFiniteSet(Owned(u)') /\ Cardinality(Owned(u)') =< Cardinality(Owned(u))
      /\ Cardinality(Owned(u)') \in Nat /\ Cardinality(Owned(u)) \in Nat
  BY FS_Subset, FS_CardinalityType DEF QuotaAccount
<1>2. /\ Cardinality(Passed(u)') =< Cardinality(Passed(u)) /\ Cardinality(Passed(u)') \in Nat
  BY PassedFinite, FS_Subset, FS_CardinalityType
<1>3. QED
  BY <1>1, <1>2, PassedFinite DEF QuotaAccount

\* One who passes the check has room for a row when the check is made: all
\* requests of the server may then be on their way for him.
LEMMA QuotaPasses ==
  ASSUME TypeOK, NEW u \in User, QuotaAccount, CheckRepoQuota(u), UNCHANGED owner
  PROVE  /\ IsFiniteSet(Owned(u)')
         /\ Cardinality(Owned(u)') + Cardinality(Passed(u)') =< Quota + Cardinality(Req) - 1
<1>1. Owned(u)' = Owned(u)
  BY DEF Owned
<1>2. IsFiniteSet(Owned(u)) /\ Cardinality(Owned(u)) \in Nat
  BY FS_CardinalityType DEF QuotaAccount
<1>3. Cardinality(Owned(u)) < Quota
  BY DEF CheckRepoQuota, CountByOwner, Owned
<1>4. /\ Cardinality(Passed(u)') =< Cardinality(Req)
      /\ Cardinality(Passed(u)') \in Nat /\ Cardinality(Req) \in Nat
  <2>1. Passed(u)' \subseteq Req
    BY DEF Passed
  <2>2. QED
    BY <2>1, FS_Subset, FS_CardinalityType
<1>5. QED
  BY <1>1, <1>2, <1>3, <1>4

LEMMA OneMore ==
  ASSUME NEW S, IsFiniteSet(S), NEW x
  PROVE  /\ IsFiniteSet(S \cup {x}) /\ Cardinality(S \cup {x}) \in Nat
         /\ Cardinality(S \cup {x}) =< Cardinality(S) + 1
<1> DEFINE n == Cardinality(S)
<1>1. n \in Nat
  BY FS_CardinalityType
<1>2. IsFiniteSet(S \cup {x}) /\ Cardinality(S \cup {x}) = IF x \in S THEN n ELSE n + 1
  BY FS_AddElement, Zenon
<1> HIDE DEF n
<1>3. Cardinality(S \cup {x}) \in Nat /\ Cardinality(S \cup {x}) =< n + 1
  BY <1>1, <1>2
<1>4. QED
  BY <1>2, <1>3 DEF n

\* A row that is written is paid for by the request that wrote it.
LEMMA QuotaPays ==
  ASSUME NEW u \in User, QuotaAccount, NEW q \in Passed(u), NEW r,
         Passed(u)' \subseteq Passed(u) \ {q}, Owned(u)' \subseteq Owned(u) \cup {r}
  PROVE  /\ IsFiniteSet(Owned(u)')
         /\ Cardinality(Owned(u)') + Cardinality(Passed(u)') =< Quota + Cardinality(Req) - 1
<1>1. IsFiniteSet(Owned(u)) /\ Cardinality(Owned(u)) \in Nat
  BY FS_CardinalityType DEF QuotaAccount
<1>2. /\ IsFiniteSet(Owned(u) \cup {r}) /\ Cardinality(Owned(u) \cup {r}) \in Nat
      /\ Cardinality(Owned(u) \cup {r}) =< Cardinality(Owned(u)) + 1
  BY <1>1, OneMore
<1>3. /\ IsFiniteSet(Owned(u)') /\ Cardinality(Owned(u)') \in Nat
      /\ Cardinality(Owned(u)') =< Cardinality(Owned(u) \cup {r})
  BY <1>2, FS_Subset, FS_CardinalityType
<1>4. /\ IsFiniteSet(Passed(u) \ {q})
      /\ Cardinality(Passed(u) \ {q}) = Cardinality(Passed(u)) - 1
  BY PassedFinite, FS_RemoveElement
<1>5. Cardinality(Passed(u)') =< Cardinality(Passed(u) \ {q}) /\ Cardinality(Passed(u)') \in Nat
  BY <1>4, FS_Subset, FS_CardinalityType
<1>6. Cardinality(Owned(u)) + Cardinality(Passed(u)) =< Quota + Cardinality(Req) - 1
  BY DEF QuotaAccount
<1>7. QED
  BY <1>1, <1>2, <1>3, <1>4, <1>5, <1>6, PassedFinite

LEMMA QuotaStep ==
  ASSUME TypeOK, RequestsNamed, QuotaAccount, [Next]_vars
  PROVE  QuotaAccount'
<1> SUFFICES ASSUME NEW u \in User
             PROVE  /\ IsFiniteSet(Owned(u)')
                    /\ Cardinality(Owned(u)') + Cardinality(Passed(u)') =< Quota + Cardinality(Req) - 1
  BY DEF QuotaAccount
<1> DEFINE Account == /\ IsFiniteSet(Owned(u)')
                      /\ Cardinality(Owned(u)') + Cardinality(Passed(u)') =< Quota + Cardinality(Req) - 1
<1> USE RequestType
<1>a. u # Admin /\ u # None /\ u \in Principal
  BY DEF Principal
<1>0. CASE UNCHANGED vars
  BY <1>0, QuotaShrinks DEF vars, Owned, Passed
\* The requests keep their principal, and none gets past the check.
<1>1. ASSUME UNCHANGED owner,
             \A p \in Req : req'[p].pc \in {"exists", "init", "own"} =>
                              /\ req[p].pc \in {"exists", "init", "own"}
                              /\ req'[p].who = req[p].who PROVE Account
  BY <1>1, QuotaShrinks DEF Owned, Passed
<1>2. ASSUME NEW q \in Req, UNCHANGED owner, End(q) PROVE Account
  BY <1>1, <1>2, EndStep DEF NoReq
<1>3. ASSUME NEW q \in Req, Admit(q) PROVE Account
  <2>1. UNCHANGED owner
    BY <1>3 DEF Admit
  <2>2. CASE req'[q].pc = "exists" /\ req'[q].who = u
    BY <1>3, <2>1, <2>2, AdmitStep, QuotaPasses
  <2>3. CASE ~(req'[q].pc = "exists" /\ req'[q].who = u)
    <3>1. Passed(u)' \subseteq Passed(u)
      BY <1>3, <2>3, AdmitStep DEF Passed
    <3>2. QED
      BY <2>1, <3>1, QuotaShrinks DEF Owned
  <2>4. QED
    BY <2>2, <2>3
<1>4. ASSUME NEW q \in Req, CheckQuota(q), CheckRepoQuota(req[q].who) PROVE Account
  <2>1. UNCHANGED owner /\ Goto(q, "exists")
    BY <1>4 DEF CheckQuota
  <2>2. CASE req[q].who = u
    BY <1>4, <2>1, <2>2, QuotaPasses
  <2>3. CASE req[q].who # u
    <3>1. Passed(u)' \subseteq Passed(u)
      BY <2>1, <2>3, GotoStep DEF Passed
    <3>2. QED
      BY <2>1, <3>1, QuotaShrinks DEF Owned
  <2>4. QED
    BY <2>2, <2>3
<1>5. ASSUME NEW q \in Req, PathExists(q) PROVE Account
  <2>1. UNCHANGED owner
    BY <1>5 DEF PathExists
  <2>2. QED
    BY <1>1, <1>5, <2>1, PathExistsStep DEF NoReq
<1>6. ASSUME NEW q \in Req, MakeDir(q) PROVE Account
  <2>1. UNCHANGED owner /\ req[q].pc = "init"
    BY <1>6 DEF MakeDir
  <2>2. QED
    BY <1>1, <1>6, <2>1, MakeDirStep
<1>7. ASSUME NEW q \in Req, RecordOwner(q), Goto(q, "mint"),
             owner' = [owner EXCEPT ![req[q].repo] = req[q].who] PROVE Account
  <2>1. req[q].pc = "own"
    BY <1>7 DEF RecordOwner
  <2>2. Passed(u)' \subseteq Passed(u) \ {q}
    BY <1>7, GotoStep DEF Passed
  <2>3. CASE req[q].who = u
    <3>1. q \in Passed(u)
      BY <2>1, <2>3 DEF Passed
    <3>2. Owned(u)' \subseteq Owned(u) \cup {req[q].repo}
      BY <1>7 DEF Owned, TypeOK
    <3>3. QED
      BY <2>2, <3>1, <3>2, QuotaPays
  <2>4. CASE req[q].who # u
    <3>1. Owned(u)' \subseteq Owned(u)
      BY <1>7, <2>4 DEF Owned, TypeOK
    <3>2. QED
      BY <2>2, <3>1, QuotaShrinks
  <2>5. QED
    BY <2>3, <2>4
<1>8. ASSUME NEW q \in Req, RevokeAll(q) PROVE Account
  <2>1. UNCHANGED owner /\ Goto(q, "mint")
    BY <1>8 DEF RevokeAll
  <2>2. QED
    BY <1>1, <2>1, GotoStep
<1>9. ASSUME NEW q \in Req, RemoveDir(q) PROVE Account
  <2>1. UNCHANGED owner
    BY <1>9 DEF RemoveDir
  <2>2. QED
    BY <1>1, <1>9, <2>1, RemoveDirStep DEF NoReq
<1>10. ASSUME NEW q \in Req, DeleteRow(q) PROVE Account
  <2>1. owner' = [owner EXCEPT ![req[q].repo] = None] /\ End(q)
    BY <1>10 DEF DeleteRow
  <2>2. Owned(u)' \subseteq Owned(u)
    BY <1>a, <2>1 DEF Owned, TypeOK
  <2>3. Passed(u)' \subseteq Passed(u)
    BY <2>1, EndStep DEF Passed, NoReq
  <2>4. QED
    BY <2>2, <2>3, QuotaShrinks
<1>11. CASE Prune
  <2>1. UNCHANGED owner
    BY <1>11 DEF Prune
  <2>2. QED
    BY <1>1, <1>11, <2>1, PruneStep
<1>12. ASSUME NEW t \in Token, Expire(t) \/ \E w \in Principal : RevokeToken(w, t) PROVE Account
  BY <1>1, <1>12 DEF Expire, RevokeToken
<1>13. ASSUME NEW q \in Req, RequestStep(q) PROVE Account
  <2>1. CASE CheckQuota(q)
    BY <1>2, <1>4, <2>1 DEF CheckQuota
  <2>2. CASE RecordOwner(q)
    BY <1>2, <1>7, <2>2 DEF RecordOwner
  <2>3. CASE Mint(q) \/ Drop(q)
    BY <1>2, <2>3 DEF Mint, Drop
  <2>4. QED
    BY <1>3, <1>5, <1>6, <1>8, <1>9, <1>10, <1>13, <2>1, <2>2, <2>3 DEF RequestStep
<1>14. QED
  BY <1>0, <1>11, <1>12, <1>13 DEF Next

-----------------------------------------------------------------------------
(* The theorems.                                                           *)

LEMMA InitInvariant == Init => IInv
<1> SUFFICES ASSUME Init PROVE IInv
  OBVIOUS
<1>1. TypeOK /\ QuotaAccount
  BY TypeInit, QuotaInit
<1>2. RequestsNamed /\ RotationsSound /\ RowOrWriter /\ DeletesSound
  BY DEF Init, RequestsNamed, RotationsSound, RowOrWriter, DeletesSound, NoReq
<1>3. MakersKnown
  BY DEF Init, MakersKnown, Claimants, AuthorizeGit, Resolves, NoReq, FreeTok
<1>4. QED
  BY <1>1, <1>2, <1>3 DEF IInv

LEMMA StepInvariant == IInv /\ [Next]_vars => IInv'
  BY TypeStep, NamedStep, RotationsStep, RowsStep, DeletesStep, MakersKnownStep, QuotaStep
     DEF IInv

\* What the requests, the rows, the directories and the tokens know of each
\* other holds in every state, for any number of concurrent requests.
THEOREM Invariance == Spec => []IInv
  BY InitInvariant, StepInvariant, PTL DEF Spec

\* Every variable of the access layer keeps its type.
THEOREM TypeCorrect == Spec => []TypeOK
  BY Invariance, PTL DEF IInv

\* rotate_tokens: by the time it mints, no token that was good at the check
\* of the owner is good, whatever was minted, revoked or pruned meanwhile.
THEOREM RotationsKill == Spec => []RotationKills
<1>1. IInv => RotationKills
  <2> SUFFICES ASSUME IInv, NEW q \in Req, req[q].op = "rotate", req[q].pc = "mint",
                      NEW t \in req[q].before
               PROVE  ~Resolves(t)
    BY DEF RotationKills
  <2>1. tok[t].state = "dead"
    BY DEF IInv, RotationsSound
  <2>2. QED
    BY <2>1 DEF Resolves
<1>2. QED
  BY <1>1, Invariance, PTL

\* create_repo, fork_repo and delete_repo: a directory that no request is
\* working on has its owner row, unless a delete has crossed a create of the
\* id or a handler was cut short between directory and row.
THEOREM QuietIsOwned == Spec => []OwnedWhenQuiet
<1>1. IInv => OwnedWhenQuiet
  BY DEF IInv, RowOrWriter, OwnedWhenQuiet
<1>2. QED
  BY <1>1, Invariance, PTL

\* mint_token, rotate_tokens, create_repo and fork_repo: whoever deletes, makes
\* anew or makes at the same time, the tokens of an id are in the hands of the
\* admin and of those who have made its directory, the recorded owner included.
THEOREM TokensOfMakers == Spec => []MakersHoldTokens
<1>1. IInv => MakersHoldTokens
  BY DEF IInv, MakersKnown, MakersHoldTokens
<1>2. QED
  BY <1>1, Invariance, PTL

\* check_repo_quota: creates and forks that raced the check take a user over
\* the quota by less than the number of concurrent requests.
THEOREM QuotaHolds == Spec => []QuotaBounded
<1>1. IInv => QuotaBounded
  <2> SUFFICES ASSUME IInv, NEW u \in User
               PROVE  CountByOwner(u) =< Quota + Cardinality(Req) - 1
    BY DEF QuotaBounded
  <2>1. CountByOwner(u) = Cardinality(Owned(u))
    BY DEF CountByOwner, Owned
  <2>2. /\ Cardinality(Owned(u)) \in Nat
        /\ Cardinality(Owned(u)) + Cardinality(Passed(u)) =< Quota + Cardinality(Req) - 1
    BY FS_CardinalityType DEF IInv, QuotaAccount
  <2>3. QED
    BY <2>1, <2>2, PassedFinite
<1>2. QED
  BY <1>1, Invariance, PTL

-----------------------------------------------------------------------------
(* Positions of a table.                                                   *)

\* The rows at the first o positions.
First(s, o) == {s[k] : k \in {j \in DOMAIN s : j <= o}}

LEMMA RemovedAt ==
  ASSUME NEW S, NEW s \in Seq(S), NEW p \in DOMAIN s
  PROVE  /\ RemoveAt(s, p) \in Seq(S) /\ Len(RemoveAt(s, p)) = Len(s) - 1
         /\ \A k \in 1 .. Len(s) - 1 : RemoveAt(s, p)[k] = IF k < p THEN s[k] ELSE s[k + 1]
<1> DEFINE a == SubSeq(s, 1, p - 1)
           b == SubSeq(s, p + 1, Len(s))
<1>1. Len(s) \in Nat /\ p \in 1 .. Len(s)
  OBVIOUS
<1>2. /\ a \in Seq(S) /\ Len(a) = p - 1 /\ \A k \in 1 .. p - 1 : a[k] = s[k]
  BY <1>1
<1>3. /\ b \in Seq(S) /\ Len(b) = Len(s) - p /\ \A k \in 1 .. Len(s) - p : b[k] = s[k + p]
  BY <1>1
<1> HIDE DEF a, b
<1>4. /\ a \o b \in Seq(S) /\ Len(a \o b) = Len(s) - 1
      /\ \A k \in 1 .. Len(s) - 1 : (a \o b)[k] = IF k < p THEN s[k] ELSE s[k + 1]
  BY <1>1, <1>2, <1>3
<1> QED  BY <1>4 DEF RemoveAt, a, b

LEMMA InsertedAt ==
  ASSUME NEW S, NEW s \in Seq(S), NEW e \in S, NEW p \in 1 .. Len(s) + 1
  PROVE  /\ InsertAt(s, p, e) \in Seq(S) /\ Len(InsertAt(s, p, e)) = Len(s) + 1
         /\ InsertAt(s, p, e)[p] = e
         /\ \A k \in 1 .. p - 1 : InsertAt(s, p, e)[k] = s[k]
         /\ \A k \in p + 1 .. Len(s) + 1 : InsertAt(s, p, e)[k] = s[k - 1]
<1> DEFINE a == SubSeq(s, 1, p - 1)
           b == SubSeq(s, p, Len(s))
           c == a \o <<e>>
<1>1. Len(s) \in Nat /\ p \in Nat
  OBVIOUS
<1>2. /\ a \in Seq(S) /\ Len(a) = p - 1 /\ \A k \in 1 .. p - 1 : a[k] = s[k]
  BY <1>1
<1>3. /\ b \in Seq(S) /\ Len(b) = Len(s) - p + 1 /\ \A k \in 1 .. Len(s) - p + 1 : b[k] = s[k + p - 1]
  BY <1>1
<1> HIDE DEF a, b
<1>4. c \in Seq(S) /\ Len(c) = p /\ c[p] = e /\ \A k \in 1 .. p - 1 : c[k] = s[k]
  BY <1>1, <1>2
<1> HIDE DEF c
<1>5. /\ c \o b \in Seq(S) /\ Len(c \o b) = Len(s) + 1
      /\ (c \o b)[p] = e
      /\ \A k \in 1 .. p - 1 : (c \o b)[k] = s[k]
      /\ \A k \in p + 1 .. Len(s) + 1 : (c \o b)[k] = b[k - p]
  <2>1. /\ c \o b \in Seq(S) /\ Len(c \o b) = Len(c) + Len(b)
        /\ \A k \in 1 .. Len(c) + Len(b) : (c \o b)[k] = IF k <= Len(c) THEN c[k] ELSE b[k - Len(c)]
    BY <1>3, <1>4
  <2>2. Len(c) = p /\ Len(b) = Len(s) - p + 1 /\ Len(c) + Len(b) = Len(s) + 1
    BY <1>1, <1>3, <1>4
  <2>3. \A k \in 1 .. Len(s) + 1 : (c \o b)[k] = IF k <= p THEN c[k] ELSE b[k - p]
    BY <2>1, <2>2
  <2>4. p \in 1 .. Len(s) + 1 /\ p <= p
    BY <1>1
  <2>5. \A k \in 1 .. p - 1 : k \in 1 .. Len(s) + 1 /\ k <= p
    BY <1>1, <2>4
  <2>6. \A k \in p + 1 .. Len(s) + 1 : k \in 1 .. Len(s) + 1 /\ ~(k <= p)
    BY <1>1, <2>4
  <2> QED  BY <1>4, <2>1, <2>2, <2>3, <2>4, <2>5, <2>6
<1>6. \A k \in p + 1 .. Len(s) + 1 : b[k - p] = s[k - 1]
  BY <1>1, <1>3
<1> QED  BY <1>5, <1>6 DEF InsertAt, a, b, c

\* A table without a row: what follows the row moves up.
LEMMA Removed ==
  ASSUME NEW S, NEW s \in Seq(S), IsInjective(s), NEW r
  PROVE  LET t == RemoveFirst(s, r)
         IN  /\ t \in Seq(S) /\ IsInjective(t)
             /\ Range(t) = Range(s) \ {r}
             /\ r \in Range(s) => Len(t) = Len(s) - 1
             /\ r \notin Range(s) => t = s
             /\ \A o \in Nat : \E x : First(t, o) \subseteq First(s, o) \cup {x}
<1> DEFINE t == RemoveFirst(s, r)
<1>1. CASE r \notin Range(s)
  <2>1. t = s
    BY <1>1 DEF RemoveFirst, Range
  <2> QED  BY <1>1, <2>1
<1>2. CASE r \in Range(s)
  <2>1. PICK p \in DOMAIN s : s[p] = r
    BY <1>2 DEF Range
  <2>2. {i \in 1 .. Len(s) : s[i] = r} = {p}
    BY <2>1 DEF IsInjective
  <2>3. Min({p}) = p
    BY <2>1 DEF Min
  <2>4. SelectInSeq(s, LAMBDA v : v = r) = p
    BY <2>2, <2>3 DEF SelectInSeq
  <2>5. t = RemoveAt(s, p)
    BY <2>1, <2>4 DEF RemoveFirst
  <2>6. /\ t \in Seq(S) /\ Len(t) = Len(s) - 1 /\ DOMAIN t = 1 .. Len(s) - 1
        /\ \A k \in 1 .. Len(s) - 1 : t[k] = IF k < p THEN s[k] ELSE s[k + 1]
    BY <2>5, RemovedAt
  <2> HIDE DEF t
  <2>7. Len(s) \in Nat /\ DOMAIN s = 1 .. Len(s) /\ p \in 1 .. Len(s)
    OBVIOUS
  <2>8. IsInjective(t)
    BY <2>6, <2>7 DEF IsInjective
  <2>9. Range(t) = Range(s) \ {r}
    <3>1. ASSUME NEW k \in DOMAIN t PROVE t[k] \in Range(s) \ {r}
      <4>1. PICK j \in DOMAIN s : t[k] = s[j] /\ j # p
        <5>1. CASE k < p
          BY <2>6, <2>7, <5>1
        <5>2. CASE k >= p
          <6>1. k + 1 \in DOMAIN s /\ t[k] = s[k + 1] /\ k + 1 # p
            BY <2>6, <2>7, <5>2
          <6> QED  BY <6>1
        <5> QED  BY <2>6, <2>7, <5>1, <5>2
      <4> QED  BY <2>1, <4>1 DEF Range, IsInjective
    <3>2. ASSUME NEW k \in DOMAIN s, s[k] # r PROVE s[k] \in Range(t)
      <4>1. CASE k < p
        BY <2>6, <2>7, <4>1 DEF Range
      <4>2. CASE k > p
        <5>1. k - 1 \in DOMAIN t /\ t[k - 1] = s[k]
          BY <2>6, <2>7, <4>2
        <5> QED  BY <5>1 DEF Range
      <4> QED  BY <2>1, <2>7, <3>2, <4>1, <4>2
    <3> QED  BY <3>1, <3>2 DEF Range
  <2>10. ASSUME NEW o \in Nat PROVE First(t, o) \subseteq First(s, o) \cup {s[o + 1]}
    <3>1. ASSUME NEW k \in DOMAIN t, k <= o PROVE t[k] \in First(s, o) \cup {s[o + 1]}
      <4>1. CASE k < p
        BY <2>6, <2>7, <3>1, <4>1 DEF First
      <4>2. CASE k >= p /\ k < o
        <5>1. t[k] = s[k + 1] /\ k + 1 \in DOMAIN s /\ k + 1 <= o
          BY <2>6, <2>7, <4>2
        <5> QED  BY <5>1 DEF First
      <4>3. CASE k >= p /\ k = o
        BY <2>6, <2>7, <4>3
      <4> QED  BY <2>6, <2>7, <3>1, <4>1, <4>2, <4>3
    <3> QED  BY <3>1 DEF First
  <2> QED  BY <1>2, <2>6, <2>8, <2>9, <2>10 DEF t
<1> QED  BY <1>1, <1>2

\* A table with one row more: what follows the row moves down.
LEMMA Inserted ==
  ASSUME NEW S, NEW s \in Seq(S), IsInjective(s), NEW r \in S, r \notin Range(s),
         NEW p \in 1 .. Len(s) + 1
  PROVE  LET t == InsertAt(s, p, r)
         IN  /\ t \in Seq(S) /\ IsInjective(t) /\ Len(t) = Len(s) + 1
             /\ Range(t) = Range(s) \cup {r}
             /\ \A o \in Nat : First(t, o) \subseteq First(s, o) \cup {r}
<1> DEFINE t == InsertAt(s, p, r)
<1>1. /\ t \in Seq(S) /\ Len(t) = Len(s) + 1 /\ DOMAIN t = 1 .. Len(s) + 1 /\ t[p] = r
      /\ \A k \in 1 .. p - 1 : t[k] = s[k]
      /\ \A k \in p + 1 .. Len(s) + 1 : t[k] = s[k - 1]
  BY InsertedAt
<1> HIDE DEF t
<1>2. Len(s) \in Nat /\ DOMAIN s = 1 .. Len(s) /\ p \in Nat
  OBVIOUS
<1>3. ASSUME NEW k \in DOMAIN t, k # p
      PROVE  \E j \in DOMAIN s : t[k] = s[j] /\ j <= k /\ (IF k < p THEN j = k ELSE j = k - 1)
  <2>1. CASE k < p
    BY <1>1, <1>2, <2>1
  <2>2. CASE k > p
    <3>1. k - 1 \in DOMAIN s /\ t[k] = s[k - 1]
      BY <1>1, <1>2, <2>2
    <3> QED  BY <1>2, <2>2, <3>1
  <2> QED  BY <1>1, <1>2, <1>3, <2>1, <2>2
<1>4. IsInjective(t)
  <2> SUFFICES ASSUME NEW k \in DOMAIN t, NEW l \in DOMAIN t, t[k] = t[l] PROVE k = l
    BY DEF IsInjective
  <2>1. CASE k = p
    BY <1>1, <1>3, <2>1 DEF Range
  <2>2. CASE l = p
    BY <1>1, <1>3, <2>2 DEF Range
  <2>3. CASE k # p /\ l # p
    <3>1. PICK i \in DOMAIN s : t[k] = s[i] /\ (IF k < p THEN i = k ELSE i = k - 1)
      BY <1>3, <2>3
    <3>2. PICK j \in DOMAIN s : t[l] = s[j] /\ (IF l < p THEN j = l ELSE j = l - 1)
      BY <1>3, <2>3
    <3>3. i = j
      BY <3>1, <3>2 DEF IsInjective
    <3> QED  BY <1>1, <1>2, <2>3, <3>1, <3>2, <3>3
  <2> QED  BY <2>1, <2>2, <2>3
<1>5. Range(t) = Range(s) \cup {r}
  <2>1. ASSUME NEW k \in DOMAIN t PROVE t[k] \in Range(s) \cup {r}
    BY <1>1, <1>3 DEF Range
  <2>2. ASSUME NEW j \in DOMAIN s PROVE s[j] \in Range(t)
    <3>1. CASE j < p
      BY <1>1, <1>2, <3>1 DEF Range
    <3>2. CASE j >= p
      <4>1. j + 1 \in DOMAIN t /\ t[j + 1] = s[j]
        BY <1>1, <1>2, <3>2
      <4> QED  BY <4>1 DEF Range
    <3> QED  BY <1>2, <3>1, <3>2
  <2>3. r \in Range(t)
    BY <1>1, <1>2 DEF Range
  <2> QED  BY <2>1, <2>2, <2>3 DEF Range
<1>6. ASSUME NEW o \in Nat PROVE First(t, o) \subseteq First(s, o) \cup {r}
  <2> SUFFICES ASSUME NEW k \in DOMAIN t, k <= o, k # p PROVE t[k] \in First(s, o)
    BY <1>1 DEF First
  <2>1. PICK j \in DOMAIN s : t[k] = s[j] /\ j <= k
    BY <1>3
  <2>2. j <= o
    BY <1>1, <1>2, <2>1
  <2> QED  BY <2>1, <2>2 DEF First
<1> QED  BY <1>1, <1>4, <1>5, <1>6 DEF t

LEMMA Joined ==
  ASSUME NEW S, NEW s \in Seq(S), NEW t \in Seq(S)
  PROVE  /\ s \o t \in Seq(S) /\ Len(s \o t) = Len(s) + Len(t)
         /\ Range(s \o t) = Range(s) \cup Range(t)
<1>1. /\ s \o t \in Seq(S) /\ Len(s \o t) = Len(s) + Len(t)
      /\ Len(s) \in Nat /\ Len(t) \in Nat
      /\ DOMAIN s = 1 .. Len(s) /\ DOMAIN t = 1 .. Len(t) /\ DOMAIN (s \o t) = 1 .. Len(s) + Len(t)
      /\ \A k \in 1 .. Len(s) + Len(t) : (s \o t)[k] = IF k <= Len(s) THEN s[k] ELSE t[k - Len(s)]
  OBVIOUS
<1>2. ASSUME NEW k \in DOMAIN (s \o t) PROVE (s \o t)[k] \in Range(s) \cup Range(t)
  <2>1. CASE k <= Len(s)
    BY <1>1, <2>1 DEF Range
  <2>2. CASE k > Len(s)
    <3>1. k - Len(s) \in DOMAIN t /\ (s \o t)[k] = t[k - Len(s)]
      BY <1>1, <2>2
    <3> QED  BY <3>1 DEF Range
  <2> QED  BY <1>1, <2>1, <2>2
<1>3. ASSUME NEW k \in DOMAIN s PROVE s[k] \in Range(s \o t)
  <2>1. k \in DOMAIN (s \o t) /\ (s \o t)[k] = s[k]
    BY <1>1
  <2> QED  BY <2>1 DEF Range
<1>4. ASSUME NEW k \in DOMAIN t PROVE t[k] \in Range(s \o t)
  <2>1. k + Len(s) \in DOMAIN (s \o t) /\ (s \o t)[k + Len(s)] = t[k]
    BY <1>1
  <2> QED  BY <2>1 DEF Range
<1> QED  BY <1>1, <1>2, <1>3, <1>4 DEF Range

\* A table has no more rows behind a position than it is longer.
LEMMA RestIsShort ==
  ASSUME NEW s, NEW n \in Nat, NEW o \in Nat, o <= n
  PROVE  /\ IsFiniteSet({s[k] : k \in o + 1 .. n})
         /\ Cardinality({s[k] : k \in o + 1 .. n}) <= n - o
<1> DEFINE D == o + 1 .. n
           R == {s[k] : k \in D}
           f == [k \in D |-> s[k]]
<1>1. f \in Surjection(D, R)
  BY DEF Surjection
<1>2. IsFiniteSet(D) /\ Cardinality(D) = n - o
  <2> DEFINE p == o + 1
  <2>1. p \in Int /\ n \in Int
    OBVIOUS
  <2> HIDE DEF p
  <2>2. IsFiniteSet(p .. n) /\ Cardinality(p .. n) = IF p > n THEN 0 ELSE n - p + 1
    BY <2>1, FS_Interval
  <2> QED  BY <2>2 DEF p
<1> HIDE DEF D, R, f
<1>3. IsFiniteSet(R) /\ Cardinality(R) <= Cardinality(D)
  BY <1>1, <1>2, FS_Surjection
<1> QED  BY <1>2, <1>3 DEF R, D

-----------------------------------------------------------------------------
(* The pages.                                                              *)

\* The members of G up to m: all of them, none, or one more.
UpTo(G, m) == {j \in G : j <= m}

LEMMA UpToFacts ==
  ASSUME NEW L \in Nat, NEW G \in SUBSET Nat, \A g \in G : 1 <= g /\ g <= L
  PROVE  /\ IsFiniteSet(G) /\ Cardinality(G) \in Nat
         /\ UpTo(G, L) = G /\ UpTo(G, 0) = {}
         /\ \A m \in 1 .. L : m \notin G => UpTo(G, m) = UpTo(G, m - 1)
         /\ \A m \in 1 .. L : UpTo(G, m) \subseteq UpTo(G, m - 1) \cup {m}
<1>1. IsFiniteSet(G) /\ Cardinality(G) \in Nat
  <2>1. IsFiniteSet(1 .. L)
    BY FS_Interval
  <2>2. G \subseteq 1 .. L
    OBVIOUS
  <2> QED  BY <2>1, <2>2, FS_Subset, FS_CardinalityType
<1>2. UpTo(G, L) = G /\ UpTo(G, 0) = {}
  <2>1. \A j \in G : j <= L /\ ~(j <= 0)
    OBVIOUS
  <2> QED  BY <2>1 DEF UpTo
<1>3. ASSUME NEW m \in 1 .. L, m \notin G PROVE UpTo(G, m) = UpTo(G, m - 1)
  <2>1. \A j \in G : j <= m <=> j <= m - 1
    BY <1>3
  <2> QED  BY <2>1 DEF UpTo
<1>4. ASSUME NEW m \in 1 .. L PROVE UpTo(G, m) \subseteq UpTo(G, m - 1) \cup {m}
  <2>1. \A j \in G : j <= m => j = m \/ j <= m - 1
    OBVIOUS
  <2> QED  BY <2>1 DEF UpTo
<1> QED  BY <1>1, <1>2, <1>3, <1>4

\* A set of positions has a first, a second, ... up to its size.
LEMMA Ranked ==
  ASSUME NEW L \in Nat, NEW G \in SUBSET Nat, \A g \in G : 1 <= g /\ g <= L,
         NEW n \in Nat, 1 <= n, n <= Cardinality(G)
  PROVE  \E i \in G : Cardinality(UpTo(G, i)) = n
<1> DEFINE T == {m \in Nat : m <= L /\ Cardinality(UpTo(G, m)) >= n}
<1>1. /\ IsFiniteSet(G) /\ Cardinality(G) \in Nat
      /\ UpTo(G, L) = G /\ UpTo(G, 0) = {}
      /\ \A m \in 1 .. L : m \notin G => UpTo(G, m) = UpTo(G, m - 1)
      /\ \A m \in 1 .. L : UpTo(G, m) \subseteq UpTo(G, m - 1) \cup {m}
  BY UpToFacts
<1>2. ASSUME NEW m \in Nat PROVE IsFiniteSet(UpTo(G, m)) /\ Cardinality(UpTo(G, m)) \in Nat
  <2>1. UpTo(G, m) \subseteq G
    BY DEF UpTo
  <2> QED  BY <1>1, <2>1, FS_Subset, FS_CardinalityType
<1>3. T \subseteq Nat /\ T # {}
  <2>1. L \in T
    BY <1>1
  <2> QED  BY <2>1
<1>4. PICK m \in T : \A y \in T : ~ (<<y, m>> \in OpToRel(<, Nat))
  <2> HIDE DEF T
  <2> QED  BY <1>3, NatLessThanWellFounded, WFMin
<1>5. m \in Nat /\ m <= L /\ Cardinality(UpTo(G, m)) >= n
  BY <1>4
<1>6. \A y \in T : ~(y < m)
  BY <1>3, <1>4, <1>5 DEF OpToRel
<1>7. m # 0
  <2> SUFFICES ASSUME m = 0 PROVE FALSE
    OBVIOUS
  <2>1. Cardinality(UpTo(G, 0)) = 0
    BY <1>1, FS_EmptySet
  <2>2. Cardinality(UpTo(G, 0)) >= n
    BY <1>5
  <2> QED  BY <2>1, <2>2
<1>8. m - 1 \in Nat /\ m \in 1 .. L /\ m - 1 <= L /\ m - 1 < m
  BY <1>5, <1>7
<1> DEFINE a == Cardinality(UpTo(G, m))
           b == Cardinality(UpTo(G, m - 1))
<1>9. a \in Nat /\ b \in Nat /\ IsFiniteSet(UpTo(G, m - 1))
  BY <1>2, <1>5, <1>8
<1>10. ~(b >= n)
  BY <1>6, <1>8
<1>11. a <= b + 1
  <2>1. UpTo(G, m) \subseteq UpTo(G, m - 1) \cup {m}
    BY <1>1, <1>8
  <2>2. /\ IsFiniteSet(UpTo(G, m - 1) \cup {m})
        /\ Cardinality(UpTo(G, m - 1) \cup {m}) \in {b, b + 1}
    BY <1>9, FS_AddElement
  <2>3. a <= Cardinality(UpTo(G, m - 1) \cup {m})
    BY <2>1, <2>2, FS_Subset
  <2> HIDE DEF a, b
  <2> QED  BY <1>9, <2>2, <2>3
<1>12. a >= n
  BY <1>5
<1> HIDE DEF T
<1>13. m \in G
  <2>1. UpTo(G, m) # UpTo(G, m - 1)
    BY <1>10, <1>12
  <2> QED  BY <1>1, <1>8, <2>1
<1>14. a = n
  <2> HIDE DEF a, b
  <2> QED  BY <1>9, <1>10, <1>11, <1>12
<1> QED  BY <1>13, <1>14

LEMMA DecodedType ==
  ASSUME NEW s \in Seq(RepoRow)
  PROVE  /\ Decoded(s) \in Seq(RepoRow)
         /\ Malformed = {} => Decoded(s) = s
<1> DEFINE N == Cardinality(Good(s))
           At(n) == CHOOSE i \in Good(s) : Cardinality(UpTo(Good(s), i)) = n
<1>1. /\ Len(s) \in Nat /\ DOMAIN s = 1 .. Len(s)
      /\ Good(s) \in SUBSET Nat /\ \A g \in Good(s) : 1 <= g /\ g <= Len(s)
  BY DEF Good
<1>2. N \in Nat
  BY <1>1, UpToFacts
<1>3. ASSUME NEW n \in 1 .. N
      PROVE  At(n) \in Good(s) /\ Cardinality(UpTo(Good(s), At(n))) = n
  <2>1. n \in Nat /\ 1 <= n /\ n <= N
    BY <1>2
  <2>2. \E i \in Good(s) : Cardinality(UpTo(Good(s), i)) = n
    BY <1>1, <2>1, Ranked
  <2> QED  BY <2>2
<1>4. Decoded(s) = [n \in 1 .. N |-> s[At(n)]]
  BY DEF Decoded, UpTo
<1> HIDE DEF N, At
<1>5. ASSUME NEW n \in 1 .. N PROVE s[At(n)] \in RepoRow
  <2>1. At(n) \in DOMAIN s
    BY <1>3 DEF Good
  <2> QED  BY <2>1
<1>6. Decoded(s) \in Seq(RepoRow)
  BY <1>2, <1>4, <1>5
<1>7. ASSUME Malformed = {} PROVE Decoded(s) = s
  <2>1. Good(s) = 1 .. Len(s)
    BY <1>7, <1>1 DEF Good
  <2>2. N = Len(s)
    BY <1>1, <2>1, FS_Interval DEF N
  <2>3. ASSUME NEW n \in 1 .. Len(s) PROVE At(n) = n
    <3>1. At(n) \in Nat /\ At(n) >= 1 /\ At(n) <= Len(s) /\ Cardinality(UpTo(Good(s), At(n))) = n
      BY <1>1, <1>3, <2>1, <2>2
    <3>2. UpTo(Good(s), At(n)) = 1 .. At(n)
      BY <1>1, <2>1, <3>1 DEF UpTo
    <3>3. Cardinality(1 .. At(n)) = At(n)
      BY <3>1, FS_Interval
    <3> QED  BY <3>1, <3>2, <3>3
  <2>4. Decoded(s) = [n \in 1 .. Len(s) |-> s[n]]
    BY <1>4, <2>2, <2>3
  <2> QED  BY <1>1, <2>4
<1> QED  BY <1>6, <1>7

LEMMA SubFacts ==
  ASSUME NEW S, NEW t \in Seq(S), NEW o \in Nat, NEW e \in Nat, e <= Len(t)
  PROVE  /\ SubSeq(t, o + 1, e) \in Seq(S)
         /\ o < e => Len(SubSeq(t, o + 1, e)) = e - o
         /\ ~(o < e) => Len(SubSeq(t, o + 1, e)) = 0
         /\ \A k \in 1 .. Len(SubSeq(t, o + 1, e)) : SubSeq(t, o + 1, e)[k] = t[k + o]
<1>1. CASE o < e
  BY <1>1
<1>2. CASE ~(o < e)
  BY <1>2
<1> QED  BY <1>1, <1>2

LEMMA PageFacts ==
  ASSUME DashTypeOK, NEW o \in Nat
  PROVE  LET page == ListPaginated(PageLimit, o)
         IN  /\ page \in Seq(RepoRow)
             /\ Malformed = {} =>
                  /\ First(rows, o + Len(page)) \subseteq First(rows, o) \cup Range(page)
                  /\ Len(page) < PageLimit => Range(rows) \subseteq First(rows, o) \cup Range(page)
                  /\ Len(page) >= PageLimit => o + Len(page) <= Len(rows)
<1> DEFINE e == Min({o + PageLimit, Len(rows)})
           s == SubSeq(rows, o + 1, e)
           page == ListPaginated(PageLimit, o)
<1>1. rows \in Seq(RepoRow) /\ Len(rows) \in Nat /\ PageLimit \in Nat \ {0} /\ DOMAIN rows = 1 .. Len(rows)
  BY DashboardAssumption DEF DashTypeOK
<1>2. /\ e \in Nat /\ e <= Len(rows) /\ e <= o + PageLimit
      /\ e = Len(rows) \/ e = o + PageLimit
  <2> DEFINE q == o + PageLimit
             l == Len(rows)
  <2>1. q \in Nat /\ l \in Nat
    BY <1>1
  <2> HIDE DEF q, l
  <2>2. \E x \in {q, l} : \A y \in {q, l} : x <= y
    BY <2>1
  <2>3. Min({q, l}) \in {q, l} /\ \A y \in {q, l} : Min({q, l}) <= y
    BY <2>2 DEF Min
  <2> QED  BY <2>1, <2>3 DEF q, l
<1> HIDE DEF e
<1>3. /\ s \in Seq(RepoRow) /\ Len(s) \in Nat /\ DOMAIN s = 1 .. Len(s)
      /\ o < e => Len(s) = e - o
      /\ ~(o < e) => Len(s) = 0
      /\ \A k \in 1 .. Len(s) : s[k] = rows[k + o]
  <2>1. /\ SubSeq(rows, o + 1, e) \in Seq(RepoRow)
        /\ o < e => Len(SubSeq(rows, o + 1, e)) = e - o
        /\ ~(o < e) => Len(SubSeq(rows, o + 1, e)) = 0
        /\ \A k \in 1 .. Len(SubSeq(rows, o + 1, e)) : SubSeq(rows, o + 1, e)[k] = rows[k + o]
    <3>1. rows \in Seq(RepoRow) /\ e \in Nat /\ e <= Len(rows)
      BY <1>1, <1>2
    <3> QED  BY ONLY <3>1, SubFacts, o \in Nat
  <2> HIDE DEF s
  <2>2. s = SubSeq(rows, o + 1, e)
    BY DEF s
  <2>3. s \in Seq(RepoRow)
    BY <2>1, <2>2
  <2>4. Len(s) \in Nat /\ DOMAIN s = 1 .. Len(s)
    BY <2>3
  <2> QED  BY <2>1, <2>2, <2>3, <2>4
<1>4. page = Decoded(s)
  BY DEF ListPaginated, e
<1> HIDE DEF s, page
<1>5. page \in Seq(RepoRow)
  BY <1>3, <1>4, DecodedType
<1>6. /\ Len(s) < PageLimit => Len(rows) <= o + Len(s)
      /\ Len(s) >= PageLimit => o + Len(s) <= Len(rows)
  <2> DEFINE l == Len(rows)
             m == Len(s)
  <2>1. /\ l \in Nat /\ m \in Nat /\ PageLimit \in Nat \ {0}
        /\ e \in Nat /\ e <= l /\ (e = l \/ e = o + PageLimit)
        /\ o < e => m = e - o
        /\ ~(o < e) => m = 0
    BY <1>1, <1>2, <1>3
  <2> HIDE DEF l, m
  <2>2. /\ m < PageLimit => l <= o + m
        /\ m >= PageLimit => o + m <= l
    BY <2>1
  <2> QED  BY <2>2 DEF l, m
<1>7. ASSUME Malformed = {}
      PROVE  /\ First(rows, o + Len(page)) \subseteq First(rows, o) \cup Range(page)
             /\ Len(page) < PageLimit => Range(rows) \subseteq First(rows, o) \cup Range(page)
             /\ Len(page) >= PageLimit => o + Len(page) <= Len(rows)
  <2>1. page = s
    BY <1>3, <1>4, <1>7, DecodedType
  <2>2. ASSUME NEW k \in DOMAIN rows, k <= o + Len(s) PROVE rows[k] \in First(rows, o) \cup Range(s)
    <3>1. CASE k <= o
      BY <3>1 DEF First
    <3>2. CASE k > o
      <4>1. k - o \in DOMAIN s /\ s[k - o] = rows[k]
        BY <1>1, <1>3, <2>2, <3>2
      <4> QED  BY <4>1 DEF Range
    <3> QED  BY <1>1, <3>1, <3>2
  <2>3. First(rows, o + Len(s)) \subseteq First(rows, o) \cup Range(s)
    BY <2>2 DEF First
  <2>4. ASSUME Len(s) < PageLimit PROVE Range(rows) \subseteq First(rows, o) \cup Range(s)
    <3>1. Len(rows) <= o + Len(s)
      BY <1>6, <2>4
    <3>2. \A k \in DOMAIN rows : k <= o + Len(s)
      BY <1>1, <1>3, <3>1
    <3> QED  BY <2>2, <3>2 DEF Range
  <2>5. Len(s) >= PageLimit => o + Len(s) <= Len(rows)
    BY <1>6
  <2> QED  BY <2>1, <2>3, <2>4, <2>5
<1> QED  BY <1>5, <1>7 DEF page

-----------------------------------------------------------------------------
(* The inductive invariant.                                                *)

\* What the walk has passed without seeing it.
Lost == (there \cap First(rows, walk.offset)) \ Range(walk.out)

\* The walk has passed no more rows unseen than the table has changed; and
\* the rows by which the table has outgrown the first count come on top.
WalkSound ==
  Malformed = {} /\ pc \in {"count", "page"} =>
    /\ there \subseteq Range(rows)
    /\ walk.offset = Len(walk.out)
    /\ Cardinality(Lost) <= moved
    /\ walk.total # NoRepo => Cardinality(Lost) + Len(rows) - walk.total <= moved
    /\ walk.total = NoRepo => walk.offset = 0
    /\ pc = "page" => walk.reply # NoRepo
    /\ pc = "page" /\ walk.total = NoRepo => Len(rows) - walk.reply <= moved

\* The changes there have been and those to come.
Budgeted == left.changes + moved <= MaxChanges

\* The poller counts, pages and stores; then it has not reached the cap.
Paging == pc \in {"count", "page"} => walk.pages < MaxPages

DashIInv == DashTypeOK /\ Budgeted /\ Paging /\ WalkSound /\ WalkLosesFew

LEMMA DashTypes ==
  ASSUME DashTypeOK
  PROVE  /\ rows \in Seq(RepoRow) /\ IsInjective(rows) /\ Len(rows) \in Nat
         /\ walk \in Walk /\ walk.offset \in Nat /\ walk.out \in Seq(RepoRow) /\ Len(walk.out) \in Nat
         /\ walk.total \in Nat \cup {NoRepo} /\ walk.reply \in Nat \cup {NoRepo}
         /\ walk.pages \in 0 .. MaxPages
         /\ there \subseteq RepoRow /\ moved \in Nat
         /\ left.changes \in Nat /\ left.clicks \in Nat /\ left.faults \in Nat
         /\ {MaxChanges, MaxClicks, MaxFaults} \subseteq Nat
         /\ MaxPages \in Nat \ {0}
BY DashboardAssumption DEF DashTypeOK, Walk

LEMMA SomeFinite ==
  ASSUME NEW S \in SUBSET RepoRow
  PROVE  IsFiniteSet(S) /\ Cardinality(S) \in Nat
BY DashboardAssumption, FS_Subset, FS_CardinalityType

LEMMA Fewer ==
  ASSUME NEW S \in SUBSET RepoRow, NEW T \in SUBSET S
  PROVE  Cardinality(T) <= Cardinality(S)
BY SomeFinite, FS_Subset

LEMMA DashInitial == DashInit => DashIInv
<1> SUFFICES ASSUME DashInit PROVE DashIInv
  OBVIOUS
<1>1. Cardinality(RepoRow) \in Nat
  BY DashboardAssumption, FS_CardinalityType
<1>2. rows \in Seq(RepoRow) /\ IsInjective(rows)
  <2>1. PICK n \in 0 .. Cardinality(RepoRow) : rows \in [1 .. n -> RepoRow]
    BY DEF DashInit, Tables
  <2>2. rows \in Seq(RepoRow)
    BY <1>1, <2>1
  <2> QED  BY <2>2 DEF DashInit, Tables
<1>3. DashTypeOK
  <2>1. FreshWalk \in Walk
    <3>1. <<>> \in Seq(RepoRow) /\ 0 \in 0 .. MaxPages
      BY DashboardAssumption
    <3> QED  BY <3>1 DEF FreshWalk, Walk
  <2>2. EmptyLayout \in [fingerprint : [len : Nat, odd : SUBSET RepoRow], nodes : SUBSET RepoRow]
    BY DEF EmptyLayout
  <2>3. <<>> \in Seq(RepoRow)
    OBVIOUS
  <2>4. /\ [changes |-> MaxChanges, clicks |-> MaxClicks, faults |-> MaxFaults]
             \in [changes : 0 .. MaxChanges, clicks : 0 .. MaxClicks, faults : 0 .. MaxFaults]
        /\ 0 \in 0 .. MaxChanges
    BY DashboardAssumption
  <2> QED  BY <1>2, <2>1, <2>2, <2>3, <2>4 DEF DashInit, DashTypeOK
<1>4. Budgeted /\ Paging /\ WalkSound /\ WalkLosesFew
  BY DashboardAssumption DEF DashInit, Budgeted, Paging, WalkSound, WalkLosesFew
<1> QED  BY <1>3, <1>4 DEF DashIInv

-----------------------------------------------------------------------------
(* A change of the table.                                                  *)

LEMMA TableStep ==
  ASSUME DashTypeOK, NEW r \in RepoRow, InsertRow(r) \/ RemoveRow(r)
  PROVE  /\ rows' \in Seq(RepoRow) /\ IsInjective(rows') /\ Len(rows') \in Nat
         /\ Range(rows) \ {r} \subseteq Range(rows')
         /\ Change(r, rows')
         /\ \/ /\ Len(rows') = Len(rows) + 1
               /\ \A o \in Nat : First(rows', o) \subseteq First(rows, o) \cup {r}
            \/ /\ Len(rows') <= Len(rows)
               /\ \A o \in Nat : \E x : First(rows', o) \subseteq First(rows, o) \cup {r, x}
<1> DEFINE t == RemoveFirst(rows, r)
<1>1. /\ t \in Seq(RepoRow) /\ IsInjective(t)
      /\ Range(t) = Range(rows) \ {r}
      /\ r \in Range(rows) => Len(t) = Len(rows) - 1
      /\ r \notin Range(rows) => t = rows
      /\ \A o \in Nat : \E x : First(t, o) \subseteq First(rows, o) \cup {x}
  BY DashTypes, Removed
<1> HIDE DEF t
<1>2. Len(rows) \in Nat /\ Len(t) \in Nat
  BY <1>1, DashTypes
<1>3. CASE RemoveRow(r)
  <2>1. rows' = t /\ r \in Range(rows) /\ Change(r, rows')
    BY <1>3 DEF RemoveRow, Change, t
  <2>2. Len(t) <= Len(rows)
    BY <1>1, <1>2, <2>1
  <2>3. \A o \in Nat : \E x : First(t, o) \subseteq First(rows, o) \cup {r, x}
    BY <1>1
  <2> QED  BY <1>1, <1>2, <2>1, <2>2, <2>3
<1>4. CASE InsertRow(r)
  <2>1. PICK p \in 1 .. Len(t) + 1 : rows' = InsertAt(t, p, r) /\ Change(r, rows')
    BY <1>4 DEF InsertRow, Change, t
  <2>2. /\ rows' \in Seq(RepoRow) /\ IsInjective(rows') /\ Len(rows') = Len(t) + 1
        /\ Range(rows') = Range(t) \cup {r}
        /\ \A o \in Nat : First(rows', o) \subseteq First(t, o) \cup {r}
    BY <1>1, <2>1, Inserted
  <2>3. CASE r \in Range(rows)
    <3>1. Len(rows') = Len(rows)
      BY <1>1, <1>2, <2>2, <2>3
    <3>2. ASSUME NEW o \in Nat PROVE \E x : First(rows', o) \subseteq First(rows, o) \cup {r, x}
      <4>1. PICK x : First(t, o) \subseteq First(rows, o) \cup {x}
        BY <1>1
      <4>2. First(rows', o) \subseteq First(rows, o) \cup {r, x}
        BY <2>2, <4>1
      <4> QED  BY <4>2
    <3>3. Range(rows) \ {r} \subseteq Range(rows') /\ Len(rows') \in Nat /\ Len(rows') <= Len(rows)
      BY <1>1, <1>2, <2>2, <3>1
    <3> QED  BY <2>1, <2>2, <3>2, <3>3
  <2>4. CASE r \notin Range(rows)
    BY <1>1, <1>2, <2>1, <2>2, <2>4
  <2> QED  BY <2>3, <2>4
<1> QED  BY <1>3, <1>4

LEMMA ChangeStep ==
  ASSUME DashIInv, NEW r \in RepoRow, InsertRow(r) \/ RemoveRow(r)
  PROVE  DashIInv'
<1>1. /\ rows' \in Seq(RepoRow) /\ IsInjective(rows') /\ Len(rows') \in Nat
      /\ Range(rows) \ {r} \subseteq Range(rows')
      /\ Change(r, rows')
      /\ \/ /\ Len(rows') = Len(rows) + 1
            /\ \A o \in Nat : First(rows', o) \subseteq First(rows, o) \cup {r}
         \/ /\ Len(rows') <= Len(rows)
            /\ \A o \in Nat : \E x : First(rows', o) \subseteq First(rows, o) \cup {r, x}
  BY TableStep DEF DashIInv
<1>2. DashTypeOK /\ Budgeted /\ Paging /\ WalkSound /\ WalkLosesFew
  BY DEF DashIInv
<1>3. /\ left.changes > 0 /\ left' = [left EXCEPT !.changes = @ - 1]
      /\ IF pc \in {"count", "page"}
         THEN there' = there \ {r} /\ moved' = moved + 1
         ELSE UNCHANGED <<there, moved>>
      /\ UNCHANGED <<pc, walk, asked, shown, detail, selected, layout>>
  BY <1>1 DEF Change, poller, ui
<1>4. left' \in [changes : 0 .. MaxChanges, clicks : 0 .. MaxClicks, faults : 0 .. MaxFaults]
  <2>1. left \in [changes : 0 .. MaxChanges, clicks : 0 .. MaxClicks, faults : 0 .. MaxFaults]
    BY <1>2 DEF DashTypeOK
  <2>2. left.changes \in 0 .. MaxChanges /\ left.changes > 0 /\ MaxChanges \in Nat
    BY <1>2, <1>3, <2>1, DashTypes
  <2>3. left.changes - 1 \in 0 .. MaxChanges
    BY <2>2
  <2> QED  BY <1>3, <2>1, <2>3
<1>5. left'.changes = left.changes - 1 /\ left.changes \in Nat /\ moved \in Nat /\ MaxChanges \in Nat
  <2>1. left \in [changes : 0 .. MaxChanges, clicks : 0 .. MaxClicks, faults : 0 .. MaxFaults]
    BY <1>2 DEF DashTypeOK
  <2> QED  BY <1>2, <1>3, <2>1, DashTypes
<1>6. Budgeted'
  BY <1>2, <1>3, <1>5 DEF Budgeted
<1>7. DashTypeOK'
  <2>1. moved' \in 0 .. MaxChanges
    BY <1>2, <1>3, <1>4, <1>5, <1>6 DEF Budgeted, DashTypeOK
  <2>2. there' \subseteq RepoRow
    BY <1>2, <1>3 DEF DashTypeOK
  <2> QED  BY <1>1, <1>2, <1>3, <1>4, <2>1, <2>2 DEF DashTypeOK
<1>8. Paging' /\ WalkLosesFew'
  BY <1>2, <1>3 DEF Paging, WalkLosesFew
<1>9. WalkSound'
  <2> SUFFICES ASSUME Malformed = {}, pc \in {"count", "page"}
               PROVE  WalkSound'
    BY <1>3 DEF WalkSound
  <2>1. there' = there \ {r} /\ moved' = moved + 1 /\ walk' = walk /\ pc' = pc
    BY <1>3
  <2>2. /\ there \subseteq Range(rows)
        /\ walk.offset = Len(walk.out)
        /\ Cardinality(Lost) <= moved
        /\ walk.total # NoRepo => Cardinality(Lost) + Len(rows) - walk.total <= moved
        /\ walk.total = NoRepo => walk.offset = 0
        /\ pc = "page" => walk.reply # NoRepo
        /\ pc = "page" /\ walk.total = NoRepo => Len(rows) - walk.reply <= moved
    BY <1>2 DEF WalkSound
  <2>3. walk.offset \in Nat /\ Len(rows) \in Nat /\ there \subseteq RepoRow
        /\ walk.total \in Nat \cup {NoRepo} /\ walk.reply \in Nat \cup {NoRepo}
    BY <1>2, DashTypes
  <2>4. Lost \in SUBSET RepoRow /\ Lost' \in SUBSET RepoRow
    BY <2>1, <2>3 DEF Lost
  <2>5. /\ IsFiniteSet(Lost) /\ Cardinality(Lost) \in Nat /\ Cardinality(Lost') \in Nat
    BY <2>4, SomeFinite
  <2>6. \/ Len(rows') = Len(rows) + 1 /\ Cardinality(Lost') <= Cardinality(Lost)
        \/ Len(rows') <= Len(rows) /\ Cardinality(Lost') <= Cardinality(Lost) + 1
    <3>1. CASE /\ Len(rows') = Len(rows) + 1
               /\ First(rows', walk.offset) \subseteq First(rows, walk.offset) \cup {r}
      <4>1. Lost' \in SUBSET Lost
        BY <2>1, <3>1 DEF Lost
      <4> QED  BY <2>4, <3>1, <4>1, Fewer
    <3>2. CASE /\ Len(rows') <= Len(rows)
               /\ \E x : First(rows', walk.offset) \subseteq First(rows, walk.offset) \cup {r, x}
      <4>1. PICK x : First(rows', walk.offset) \subseteq First(rows, walk.offset) \cup {r, x}
        BY <3>2
      <4>2. Lost' \in SUBSET (Lost \cup {x})
        BY <2>1, <4>1 DEF Lost
      <4>3. /\ IsFiniteSet(Lost \cup {x}) /\ Cardinality(Lost \cup {x}) <= Cardinality(Lost) + 1
            /\ Cardinality(Lost \cup {x}) \in Nat
        <5>1. /\ IsFiniteSet(Lost \cup {x})
              /\ Cardinality(Lost \cup {x}) = IF x \in Lost THEN Cardinality(Lost) ELSE Cardinality(Lost) + 1
          BY <2>5, FS_AddElement
        <5> HIDE DEF Lost
        <5> QED  BY <2>5, <5>1, FS_CardinalityType
      <4>4. Cardinality(Lost') <= Cardinality(Lost \cup {x})
        BY <4>2, <4>3, FS_Subset
      <4> QED  BY <2>5, <3>2, <4>3, <4>4
    <3> QED  BY <1>1, <2>3, <3>1, <3>2
  <2>7. there' \subseteq Range(rows')
    BY <1>1, <2>1, <2>2
  <2>8. /\ Cardinality(Lost') <= moved'
        /\ walk.total # NoRepo => Cardinality(Lost') + Len(rows') - walk.total <= moved'
        /\ pc = "page" /\ walk.total = NoRepo => Len(rows') - walk.reply <= moved'
    <3> DEFINE a == Cardinality(Lost)
               b == Cardinality(Lost')
    <3>1. a \in Nat /\ b \in Nat
      BY <2>5
    <3>2. a <= moved /\ (walk.total # NoRepo => a + Len(rows) - walk.total <= moved)
      BY <2>2
    <3>3. \/ Len(rows') = Len(rows) + 1 /\ b <= a
          \/ Len(rows') <= Len(rows) /\ b <= a + 1
      BY <2>6
    <3> HIDE DEF a, b
    <3>4. /\ b <= moved'
          /\ walk.total # NoRepo => b + Len(rows') - walk.total <= moved'
          /\ pc = "page" /\ walk.total = NoRepo => Len(rows') - walk.reply <= moved'
      BY <1>1, <1>5, <2>1, <2>2, <2>3, <3>1, <3>2, <3>3
    <3> QED  BY <3>4 DEF b
  <2> QED  BY <2>1, <2>2, <2>7, <2>8 DEF WalkSound
<1> QED  BY <1>6, <1>7, <1>8, <1>9 DEF DashIInv

-----------------------------------------------------------------------------
(* The other steps.                                                        *)

\* A step that does not walk, and changes neither the table nor its budget.
LEMMA QuietStep ==
  ASSUME DashIInv, DashTypeOK', left'.changes = left.changes,
         \/ UNCHANGED <<rows, there, moved, pc, walk>>
         \/ pc' \notin {"count", "page", "store"} /\ moved' \in {0, moved}
  PROVE  DashIInv'
<1>1. DashTypeOK /\ Budgeted /\ Paging /\ WalkSound /\ WalkLosesFew
  BY DEF DashIInv
<1>2. left.changes \in Nat /\ moved \in Nat /\ MaxChanges \in Nat
  BY <1>1, DashTypes
<1>3. Budgeted'
  BY <1>1, <1>2 DEF Budgeted
<1>4. CASE UNCHANGED <<rows, there, moved, pc, walk>>
  <2>1. Paging' /\ WalkSound' /\ WalkLosesFew'
    BY <1>1, <1>4 DEF Paging, WalkSound, WalkLosesFew, Lost
  <2> QED  BY <1>3, <2>1 DEF DashIInv
<1>5. CASE pc' \notin {"count", "page", "store"}
  <2>1. Paging' /\ WalkSound' /\ WalkLosesFew'
    BY <1>5 DEF Paging, WalkSound, WalkLosesFew
  <2> QED  BY <1>3, <2>1 DEF DashIInv
<1> QED  BY <1>4, <1>5

LEMMA FreshWalkType == FreshWalk \in Walk
<1>1. <<>> \in Seq(RepoRow) /\ 0 \in 0 .. MaxPages
  BY DashboardAssumption
<1> QED  BY <1>1 DEF FreshWalk, Walk

LEMMA StartPollStep ==
  ASSUME DashIInv, StartPoll
  PROVE  DashIInv'
<1>1. DashTypeOK
  BY DEF DashIInv
<1>2. DashTypeOK'
  <2>1. Range(rows) \subseteq RepoRow /\ 0 \in 0 .. MaxChanges
    BY <1>1, DashTypes DEF Range
  <2> QED  BY <1>1, <2>1, FreshWalkType DEF StartPoll, ui, DashTypeOK
<1>3. Budgeted'
  <2>1. left \in [changes : 0 .. MaxChanges, clicks : 0 .. MaxClicks, faults : 0 .. MaxFaults]
    BY <1>1 DEF DashTypeOK
  <2> QED  BY <1>1, <2>1, DashTypes DEF StartPoll, Budgeted
<1>4. Paging' /\ WalkLosesFew'
  BY <1>1, DashTypes DEF StartPoll, Paging, WalkLosesFew, FreshWalk
<1>5. WalkSound'
  <2>1. DOMAIN rows \subseteq Nat /\ \A k \in DOMAIN rows : ~(k <= 0)
    BY <1>1, DashTypes
  <2>2. First(rows, 0) = {}
    BY <2>1 DEF First
  <2>3. Lost' = {}
    BY <2>2 DEF Lost, StartPoll, FreshWalk
  <2>4. Cardinality(Lost') = 0
    BY <2>3, FS_EmptySet
  <2> QED  BY <2>4 DEF WalkSound, StartPoll, FreshWalk
<1> QED  BY <1>2, <1>3, <1>4, <1>5 DEF DashIInv

LEMMA CountRowsStep ==
  ASSUME DashIInv, CountRows
  PROVE  DashIInv'
<1>1. DashTypeOK /\ Budgeted /\ Paging /\ WalkSound /\ WalkLosesFew
  BY DEF DashIInv
<1>2. /\ pc = "count" /\ pc' = "page" /\ UNCHANGED <<rows, there, moved, left>>
      /\ walk' = [walk EXCEPT !.reply = Len(rows)]
  BY DEF CountRows, server, CountAll
<1>3. walk \in Walk /\ Len(rows) \in Nat /\ moved \in Nat /\ NoRepo \notin Nat
  BY <1>1, DashTypes, DashboardAssumption
<1>4. /\ walk' \in Walk
      /\ walk'.offset = walk.offset /\ walk'.out = walk.out /\ walk'.total = walk.total
      /\ walk'.pages = walk.pages /\ walk'.reply = Len(rows)
  BY <1>2, <1>3 DEF Walk
<1>5. DashTypeOK'
  BY <1>1, <1>2, <1>4 DEF CountRows, ui, DashTypeOK
<1>6. Budgeted' /\ Paging' /\ WalkLosesFew'
  BY <1>1, <1>2, <1>4 DEF Budgeted, Paging, WalkLosesFew
<1>7. Lost' = Lost
  BY <1>2, <1>4 DEF Lost
<1>8. WalkSound'
  BY <1>1, <1>2, <1>3, <1>4, <1>7 DEF WalkSound
<1> QED  BY <1>5, <1>6, <1>8 DEF DashIInv

\* What a page brings, as far as the walk has come.
LEMMA FetchPageFacts ==
  ASSUME DashIInv, FetchPage
  PROVE  \E page \in Seq(RepoRow), w \in Walk :
           /\ page = ListPaginated(PageLimit, walk.offset)
           /\ w.offset = walk.offset /\ w.reply = walk.reply
           /\ w.total = IF walk.total = NoRepo THEN walk.reply ELSE walk.total
           /\ w.out = walk.out \o page
           /\ w.pages = walk.pages + 1
           /\ Len(w.out) = Len(walk.out) + Len(page)
           /\ Range(w.out) = Range(walk.out) \cup Range(page)
           /\ \/ /\ Finished(w, page) \/ w.pages = MaxPages
                 /\ pc' = "store" /\ walk' = w
              \/ /\ ~Finished(w, page) /\ w.pages < MaxPages
                 /\ pc' = "count" /\ walk' = [w EXCEPT !.offset = walk.offset + Len(page)]
<1>1. DashTypeOK /\ Paging
  BY DEF DashIInv
<1>2. /\ walk \in Walk /\ walk.offset \in Nat /\ walk.out \in Seq(RepoRow)
      /\ walk.total \in Nat \cup {NoRepo} /\ walk.reply \in Nat \cup {NoRepo}
      /\ walk.pages \in Nat /\ MaxPages \in Nat /\ walk.pages < MaxPages
  BY <1>1, DashTypes DEF Paging, FetchPage
<1> DEFINE page == ListPaginated(PageLimit, walk.offset)
           w == [walk EXCEPT !.total = IF @ = NoRepo THEN walk.reply ELSE @,
                             !.out = @ \o page,
                             !.pages = @ + 1]
<1>3. page \in Seq(RepoRow)
  BY <1>1, <1>2, PageFacts
<1>4. /\ pc' = IF Finished(w, page) \/ w.pages = MaxPages THEN "store" ELSE "count"
      /\ walk' = IF Finished(w, page) \/ w.pages = MaxPages
                 THEN w ELSE [w EXCEPT !.offset = @ + Len(page)]
  BY DEF FetchPage
<1> HIDE DEF page
<1>5. /\ walk.out \o page \in Seq(RepoRow)
      /\ Len(walk.out \o page) = Len(walk.out) + Len(page)
      /\ Range(walk.out \o page) = Range(walk.out) \cup Range(page)
  BY <1>2, <1>3, Joined
<1>6. /\ w.offset = walk.offset /\ w.reply = walk.reply
      /\ w.total = IF walk.total = NoRepo THEN walk.reply ELSE walk.total
      /\ w.out = walk.out \o page
      /\ w.pages = walk.pages + 1
  BY <1>2 DEF Walk
<1>7. w \in Walk
  <2>1. walk.pages + 1 \in 0 .. MaxPages
    BY <1>2
  <2> QED  BY <1>2, <1>5, <2>1 DEF Walk
<1> HIDE DEF w
<1>8. w.pages = MaxPages \/ w.pages < MaxPages
  BY <1>2, <1>6
<1>9. \/ /\ Finished(w, page) \/ w.pages = MaxPages
         /\ pc' = "store" /\ walk' = w
      \/ /\ ~Finished(w, page) /\ w.pages < MaxPages
         /\ pc' = "count" /\ walk' = [w EXCEPT !.offset = walk.offset + Len(page)]
  BY <1>4, <1>6, <1>8
<1> QED  BY <1>3, <1>5, <1>6, <1>7, <1>9 DEF page

LEMMA FetchPageStep ==
  ASSUME DashIInv, FetchPage
  PROVE  DashIInv'
<1>1. DashTypeOK /\ Budgeted /\ Paging /\ WalkSound /\ WalkLosesFew
  BY DEF DashIInv
<1>2. pc = "page" /\ UNCHANGED <<rows, there, moved, left, asked, shown, detail, selected, layout>>
  BY DEF FetchPage, server, ui
<1>3. /\ rows \in Seq(RepoRow) /\ Len(rows) \in Nat /\ DOMAIN rows = 1 .. Len(rows)
      /\ walk.offset \in Nat /\ walk.out \in Seq(RepoRow) /\ Len(walk.out) \in Nat
      /\ walk.total \in Nat \cup {NoRepo} /\ walk.reply \in Nat \cup {NoRepo}
      /\ there \in SUBSET RepoRow /\ moved \in Nat
      /\ PageLimit \in Nat
  BY <1>1, DashTypes, DashboardAssumption
<1>4. PICK page \in Seq(RepoRow), w \in Walk :
        /\ page = ListPaginated(PageLimit, walk.offset)
        /\ w.offset = walk.offset /\ w.reply = walk.reply
        /\ w.total = IF walk.total = NoRepo THEN walk.reply ELSE walk.total
        /\ w.out = walk.out \o page
        /\ w.pages = walk.pages + 1
        /\ Len(w.out) = Len(walk.out) + Len(page)
        /\ Range(w.out) = Range(walk.out) \cup Range(page)
        /\ \/ /\ Finished(w, page) \/ w.pages = MaxPages
              /\ pc' = "store" /\ walk' = w
           \/ /\ ~Finished(w, page) /\ w.pages < MaxPages
              /\ pc' = "count" /\ walk' = [w EXCEPT !.offset = walk.offset + Len(page)]
  BY FetchPageFacts
<1>5. Len(page) \in Nat
  BY <1>4
<1>6. Budgeted'
  BY <1>1, <1>2 DEF Budgeted
<1>7. DashTypeOK'
  <2>1. walk' \in Walk
    <3>1. walk.offset + Len(page) \in Nat
      BY <1>3, <1>5
    <3>2. [w EXCEPT !.offset = walk.offset + Len(page)] \in Walk
      BY <3>1 DEF Walk
    <3> QED  BY <1>4, <3>2
  <2>2. pc' \in {"count", "store"}
    BY <1>4
  <2> QED  BY <1>1, <1>2, <2>1, <2>2 DEF DashTypeOK
<1>8. Paging'
  <2>1. CASE pc' = "store"
    BY <2>1 DEF Paging
  <2>2. CASE walk' = [w EXCEPT !.offset = walk.offset + Len(page)] /\ w.pages < MaxPages
    <3>1. walk'.pages = w.pages
      BY <2>2 DEF Walk
    <3> QED  BY <2>2, <3>1 DEF Paging
  <2> QED  BY <1>4, <2>1, <2>2
<1>9. ASSUME Malformed = {} PROVE WalkSound' /\ WalkLosesFew'
  <2> DEFINE o == walk.offset
             next == o + Len(page)
             passed == (there \cap First(rows, next)) \ Range(w.out)
             total == w.total
  <2>1. /\ there \subseteq Range(rows)
        /\ o = Len(walk.out)
        /\ Cardinality(Lost) <= moved
        /\ walk.total # NoRepo => Cardinality(Lost) + Len(rows) - walk.total <= moved
        /\ walk.total = NoRepo => o = 0
        /\ walk.reply # NoRepo
        /\ walk.total = NoRepo => Len(rows) - walk.reply <= moved
    BY <1>1, <1>2, <1>9 DEF WalkSound
  <2>2. /\ First(rows, next) \subseteq First(rows, o) \cup Range(page)
        /\ Len(page) < PageLimit => Range(rows) \subseteq First(rows, o) \cup Range(page)
        /\ Len(page) >= PageLimit => next <= Len(rows)
    BY <1>1, <1>3, <1>4, <1>9, PageFacts
  <2>3. Lost \in SUBSET RepoRow /\ passed \in SUBSET Lost /\ passed \in SUBSET RepoRow
    BY <1>3, <1>4, <2>2 DEF Lost
  <2>4. /\ Cardinality(Lost) \in Nat /\ Cardinality(passed) \in Nat
        /\ IsFiniteSet(passed) /\ Cardinality(passed) <= Cardinality(Lost)
    BY <2>3, SomeFinite, Fewer
  <2>5. total \in Nat /\ total # NoRepo
    BY <1>3, <1>4, <2>1, DashboardAssumption
  <2>6. Cardinality(Lost) + Len(rows) - total <= moved
    <3>1. CASE walk.total # NoRepo
      BY <1>4, <2>1, <3>1
    <3>2. CASE walk.total = NoRepo
      <4>1. DOMAIN rows \subseteq Nat /\ \A k \in DOMAIN rows : ~(k <= 0)
        BY <1>3
      <4>2. First(rows, o) = {}
        BY <2>1, <3>2, <4>1 DEF First
      <4>3. Lost = {}
        BY <4>2 DEF Lost
      <4>4. Cardinality(Lost) = 0
        BY <4>3, FS_EmptySet
      <4>5. total = walk.reply /\ Len(rows) - walk.reply <= moved
        BY <1>4, <2>1, <3>2
      <4> QED  BY <1>3, <2>5, <4>4, <4>5
    <3> QED  BY <3>1, <3>2
  <2>7. /\ next \in Nat /\ Len(w.out) = next
    <3>1. Len(w.out) = Len(walk.out) + Len(page)
      BY <1>4
    <3>2. o = Len(walk.out)
      BY <2>1
    <3> QED  BY <1>3, <1>5, <3>1, <3>2
  <2> HIDE DEF total, next, passed
  <2>8. CASE walk' = [w EXCEPT !.offset = next] /\ pc' = "count"
    <3>1. walk'.offset = next /\ walk'.out = w.out /\ walk'.total = total
      BY <2>8 DEF Walk, total
    <3>2. Lost' = passed
      BY <1>2, <3>1 DEF Lost, passed
    <3>3. WalkSound'
      <4> DEFINE a == Cardinality(Lost)
                 b == Cardinality(passed)
                 l == Len(rows)
      <4>1. a \in Nat /\ b \in Nat /\ b <= a /\ l \in Nat /\ a <= moved /\ a + l - total <= moved
        BY <1>3, <2>1, <2>4, <2>6
      <4> HIDE DEF a, b, l
      <4>2. b <= moved /\ b + l - total <= moved
        BY <1>3, <2>5, <4>1
      <4>3. Cardinality(Lost') <= moved /\ Cardinality(Lost') + Len(rows) - total <= moved
        BY <3>2, <4>2 DEF b, l
      <4> QED  BY <1>2, <2>1, <2>5, <2>7, <2>8, <3>1, <4>3 DEF WalkSound
    <3>4. WalkLosesFew'
      BY <2>8 DEF WalkLosesFew
    <3> QED  BY <3>3, <3>4
  <2>9. CASE walk' = w /\ pc' = "store" /\ (Finished(w, page) \/ w.pages = MaxPages)
    <3>1. WalkSound'
      BY <2>9 DEF WalkSound
    <3>2. ASSUME Len(page) < PageLimit
          PROVE  Cardinality(there \ Range(w.out)) <= moved
      <4>1. there \ Range(w.out) \in SUBSET Lost
        BY <1>4, <2>1, <2>2, <3>2 DEF Lost
      <4>2. Cardinality(there \ Range(w.out)) \in Nat
        BY <1>3, SomeFinite
      <4>3. Cardinality(there \ Range(w.out)) <= Cardinality(Lost)
        BY <2>3, <4>1, Fewer
      <4> QED  BY <1>3, <2>1, <2>4, <4>2, <4>3
    <3>3. ASSUME Len(w.out) >= total, Len(page) >= PageLimit
          PROVE  Cardinality(there \ Range(w.out)) <= moved
      <4> DEFINE rest == {rows[k] : k \in next + 1 .. Len(rows)}
                 a == Cardinality(Lost)
                 b == Cardinality(passed)
                 c == Cardinality(rest)
                 d == Cardinality(passed \cup rest)
                 e == Cardinality(there \ Range(w.out))
                 l == Len(rows)
      <4>1. next <= Len(rows)
        BY <2>2, <3>3 DEF next
      <4>2. IsFiniteSet(rest) /\ Cardinality(rest) <= Len(rows) - next
        BY <1>3, <2>7, <4>1, RestIsShort
      <4>3. there \ Range(w.out) \subseteq passed \cup rest
        <5>1. ASSUME NEW k \in DOMAIN rows PROVE rows[k] \in First(rows, next) \cup rest
          <6>1. CASE k <= next
            BY <6>1 DEF First
          <6>2. CASE k > next
            <7>1. k \in next + 1 .. Len(rows)
              BY <1>3, <2>7, <6>2
            <7> QED  BY <7>1
          <6> QED  BY <1>3, <2>7, <6>1, <6>2
        <5> HIDE DEF rest
        <5>2. there \subseteq First(rows, next) \cup rest
          BY <2>1, <5>1 DEF Range
        <5> QED  BY <5>2 DEF passed
      <4> HIDE DEF rest
      <4>4. IsFiniteSet(passed \cup rest) /\ Cardinality(passed \cup rest) <= b + c
        <5>1. /\ IsFiniteSet(passed \cup rest)
              /\ Cardinality(passed \cup rest) = Cardinality(passed) + Cardinality(rest) - Cardinality(passed \cap rest)
          BY <2>4, <4>2, FS_Union
        <5>2. Cardinality(passed \cap rest) \in Nat /\ b \in Nat /\ c \in Nat
          <6>1. IsFiniteSet(passed \cap rest)
            BY <2>4, FS_Intersection
          <6> QED  BY <2>4, <4>2, <6>1, FS_CardinalityType
        <5> QED  BY <5>1, <5>2
      <4>5. a \in Nat /\ b \in Nat /\ c \in Nat /\ d \in Nat /\ e \in Nat /\ l \in Nat
        BY <1>3, <2>4, <4>2, <4>4, SomeFinite, FS_CardinalityType
      <4>6. e <= d /\ d <= b + c /\ b <= a /\ c <= l - next /\ a + l - total <= moved /\ next >= total
        BY <2>4, <2>6, <2>7, <3>3, <4>2, <4>3, <4>4, FS_Subset
      <4> HIDE DEF a, b, c, d, e, l
      <4>7. e <= moved
        BY <1>3, <2>5, <2>7, <4>5, <4>6
      <4> QED  BY <4>7 DEF e
    <3>4. Len(page) < PageLimit \/ Len(page) >= PageLimit
      BY <1>3, <1>5
    <3>5. WalkLosesFew'
      <4>1. w.pages < MaxPages => Len(w.out) >= total \/ Len(page) < PageLimit
        <5>1. w.pages \in Nat /\ MaxPages \in Nat
          BY DashboardAssumption DEF Walk
        <5> QED  BY <2>9, <5>1 DEF Finished, total
      <4>2. w.pages < MaxPages => Cardinality(there \ Range(w.out)) <= moved
        BY <3>2, <3>3, <3>4, <4>1
      <4> QED  BY <1>2, <2>9, <4>2 DEF WalkLosesFew
    <3> QED  BY <3>1, <3>5
  <2> QED  BY <1>4, <2>8, <2>9 DEF next
<1>10. WalkSound' /\ WalkLosesFew'
  BY <1>9 DEF WalkSound, WalkLosesFew
<1> QED  BY <1>6, <1>7, <1>8, <1>10 DEF DashIInv

LEMMA FingerprintType ==
  ASSUME NEW list \in Seq(RepoRow)
  PROVE  /\ Range(list) \subseteq RepoRow
         /\ Fingerprint(list) \in [len : Nat, odd : SUBSET RepoRow]
<1>1. Range(list) \subseteq RepoRow
  BY DEF Range
<1>2. Len(list) \in Nat
  OBVIOUS
<1>3. {r \in Range(list) : Cardinality({i \in DOMAIN list : list[i] = r}) % 2 = 1} \in SUBSET RepoRow
  BY <1>1
<1> QED  BY <1>1, <1>2, <1>3 DEF Fingerprint

\* Every step of the poller but those of the walk, and of the UI.
LEMMA OtherStep ==
  ASSUME DashIInv,
         \/ StoreList \/ PollFails \/ ReadSelection \/ FetchDetail \/ DetailFails \/ StashDetail
         \/ RenderForks
         \/ \E r \in RepoRow : ClickRow(r)
         \/ UNCHANGED dashVars
  PROVE  DashIInv'
<1>1. DashTypeOK
  BY DEF DashIInv
<1>2. /\ walk.out \in Seq(RepoRow) /\ FreshWalk \in Walk /\ 0 \in 0 .. MaxChanges /\ {} \subseteq RepoRow
      /\ left \in [changes : 0 .. MaxChanges, clicks : 0 .. MaxClicks, faults : 0 .. MaxFaults]
      /\ left.clicks \in Nat /\ left.faults \in Nat /\ left.clicks <= MaxClicks /\ left.faults <= MaxFaults
      /\ MaxClicks \in Nat /\ MaxFaults \in Nat
  <2>1. left \in [changes : 0 .. MaxChanges, clicks : 0 .. MaxClicks, faults : 0 .. MaxFaults]
    BY <1>1 DEF DashTypeOK
  <2> QED  BY <1>1, <2>1, DashTypes, FreshWalkType
<1>3. ASSUME left.faults > 0, left' = [left EXCEPT !.faults = @ - 1]
      PROVE  /\ left' \in [changes : 0 .. MaxChanges, clicks : 0 .. MaxClicks, faults : 0 .. MaxFaults]
             /\ left'.changes = left.changes
  <2>1. left.faults - 1 \in 0 .. MaxFaults
    BY <1>2, <1>3
  <2> QED  BY <1>2, <1>3, <2>1
<1>4. ASSUME NEW r, Select(r)
      PROVE  /\ left' \in [changes : 0 .. MaxChanges, clicks : 0 .. MaxClicks, faults : 0 .. MaxFaults]
             /\ left'.changes = left.changes /\ selected' = r
  <2>1. left.clicks > 0 /\ left' = [left EXCEPT !.clicks = @ - 1] /\ selected' = r
    BY <1>4 DEF Select
  <2>2. left.clicks - 1 \in 0 .. MaxClicks
    BY <1>2, <2>1
  <2> QED  BY <1>2, <2>1, <2>2
<1>5. CASE StoreList
  <2>1. DashTypeOK'
    BY <1>1, <1>2, <1>5 DEF StoreList, EndWalk, ui, DashTypeOK
  <2> QED  BY <1>5, <2>1, QuietStep DEF StoreList, EndWalk
<1>6. CASE PollFails
  <2>1. left' = [left EXCEPT !.faults = @ - 1] /\ left.faults > 0
    BY <1>6 DEF PollFails
  <2>2. DashTypeOK'
    BY <1>1, <1>2, <1>3, <1>6, <2>1 DEF PollFails, EndWalk, ui, DashTypeOK
  <2> QED  BY <1>3, <1>6, <2>1, <2>2, QuietStep DEF PollFails, EndWalk
<1>7. CASE ReadSelection
  <2>1. DashTypeOK'
    BY <1>1, <1>7 DEF ReadSelection, server, ui, DashTypeOK
  <2> QED  BY <1>7, <2>1, QuietStep DEF ReadSelection, server
<1>8. CASE FetchDetail
  <2>1. DashTypeOK'
    BY <1>1, <1>8 DEF FetchDetail, server, ui, DashTypeOK
  <2> QED  BY <1>8, <2>1, QuietStep DEF FetchDetail, server
<1>9. CASE DetailFails
  <2>1. left' = [left EXCEPT !.faults = @ - 1] /\ left.faults > 0
    BY <1>9 DEF DetailFails
  <2>2. DashTypeOK'
    BY <1>1, <1>3, <1>9, <2>1 DEF DetailFails, server, ui, DashTypeOK
  <2> QED  BY <1>3, <1>9, <2>1, <2>2, QuietStep DEF DetailFails, server
<1>10. CASE StashDetail
  <2>1. DashTypeOK'
    BY <1>1, <1>10 DEF StashDetail, server, ui, DashTypeOK
  <2> QED  BY <1>10, <2>1, QuietStep DEF StashDetail, server
<1>11. CASE \E r \in RepoRow : ClickRow(r)
  <2>1. PICK r \in RepoRow : Select(r) /\ UNCHANGED <<server, poller, shown, detail, layout>>
    BY <1>11 DEF ClickRow
  <2>2. DashTypeOK'
    BY <1>1, <1>4, <2>1 DEF server, poller, DashTypeOK
  <2> QED  BY <1>4, <2>1, <2>2, QuietStep DEF server, poller
<1>12. CASE RenderForks
  <2>1. /\ UNCHANGED <<server, poller, shown, detail>>
        /\ layout' = Refreshed(shown)
        /\ \/ UNCHANGED <<selected, left>>
           \/ \E r \in Range(shown) : Select(r)
    BY <1>12 DEF RenderForks, Snapshot
  <2>2. shown \in Seq(RepoRow) /\ layout \in [fingerprint : [len : Nat, odd : SUBSET RepoRow], nodes : SUBSET RepoRow]
    BY <1>1 DEF DashTypeOK
  <2>3. /\ Range(shown) \subseteq RepoRow
        /\ Fingerprint(shown) \in [len : Nat, odd : SUBSET RepoRow]
    BY <2>2, FingerprintType
  <2>4. layout' \in [fingerprint : [len : Nat, odd : SUBSET RepoRow], nodes : SUBSET RepoRow]
    BY <2>1, <2>2, <2>3 DEF Refreshed
  <2>5. /\ left' \in [changes : 0 .. MaxChanges, clicks : 0 .. MaxClicks, faults : 0 .. MaxFaults]
        /\ left'.changes = left.changes
        /\ selected' \in RepoRow \cup {NoRepo}
    <3>1. CASE UNCHANGED <<selected, left>>
      BY <1>1, <1>2, <3>1 DEF DashTypeOK
    <3>2. CASE \E r \in Range(shown) : Select(r)
      BY <1>4, <2>3, <3>2
    <3> QED  BY <2>1, <3>1, <3>2
  <2>6. DashTypeOK'
    BY <1>1, <2>1, <2>4, <2>5 DEF server, poller, DashTypeOK
  <2> QED  BY <2>1, <2>5, <2>6, QuietStep DEF server, poller
<1>13. CASE UNCHANGED dashVars
  <2>1. UNCHANGED <<rows, pc, walk, asked, shown, detail, selected, layout, there, moved, left>>
    BY <1>13 DEF dashVars
  <2>2. DashTypeOK'
    BY <1>1, <2>1 DEF DashTypeOK
  <2> QED  BY <2>1, <2>2, QuietStep
<1> QED  BY <1>5, <1>6, <1>7, <1>8, <1>9, <1>10, <1>11, <1>12, <1>13

\* The invariant of the dashboard: the walk over the pages has passed no
\* more rows unseen than the table has changed under it.
THEOREM DashInvariance == DashSpec => []DashIInv
<1>1. DashInit => DashIInv
  BY DashInitial
<1>2. DashIInv /\ [DashNext]_dashVars => DashIInv'
  <2> SUFFICES ASSUME DashIInv, [DashNext]_dashVars PROVE DashIInv'
    OBVIOUS
  <2>1. CASE \E r \in RepoRow : InsertRow(r) \/ RemoveRow(r)
    BY <2>1, ChangeStep
  <2>2. CASE StartPoll
    BY <2>2, StartPollStep
  <2>3. CASE CountRows
    BY <2>3, CountRowsStep
  <2>4. CASE FetchPage
    BY <2>4, FetchPageStep
  <2> QED  BY <2>1, <2>2, <2>3, <2>4, OtherStep DEF DashNext, Poll
<1> QED  BY <1>1, <1>2, PTL DEF DashSpec

\* The state of the poller, of the UI and of the table keeps its types.
THEOREM DashTypeCorrect == DashSpec => []DashTypeOK
BY DashInvariance, PTL DEF DashIInv

\* fetch_all_repos_with loses no more of the repositories that were there
\* all the time than the table changed meanwhile, for every page limit, cap
\* and table: WalkLosesFew.
THEOREM WalksLoseFew == DashSpec => []WalkLosesFew
BY DashInvariance, PTL DEF DashIInv

=============================================================================
