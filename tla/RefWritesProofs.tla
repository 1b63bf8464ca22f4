-------------------------- MODULE RefWritesProofs --------------------------
(***************************************************************************)
(* Proofs about RefWrites, for every commit graph, set of refs and set of  *)
(* requests.                                                               *)
(***************************************************************************)
EXTENDS RefWrites, CommitGraphProofs, TLAPS

----------------------------------------------------------------------------
(* Type correctness.                                                       *)

LEMMA FreshType == Fresh \in Handler
BY DEF Fresh, Handler, PC, Reply, Strategy, Tip

LEMMA BecomeType ==
  ASSUME op \in [Req -> Handler], NEW q \in Req, NEW h \in Handler, Become(q, h)
  PROVE  op' \in [Req -> Handler]
BY DEF Become

LEMMA AnswerType ==
  ASSUME op \in [Req -> Handler], NEW q \in Req, NEW reply \in Reply, Answer(q, reply)
  PROVE  op' \in [Req -> Handler]
<1>1. [Fresh EXCEPT !.pc = "done", !.reply = reply] \in Handler
  BY FreshType DEF Handler, PC
<1>2. QED
  BY <1>1, BecomeType DEF Answer

LEMMA SucceedType ==
  ASSUME op \in [Req -> Handler], NEW q \in Req, Succeed(q)
  PROVE  op' \in [Req -> Handler]
<1>1. op[q] \in Handler
  OBVIOUS
<1>2. [Fresh EXCEPT !.pc = "done", !.reply = "ok",
                    !.todo = op[q].todo, !.want = op[q].want] \in Handler
  BY <1>1, FreshType DEF Handler, PC, Reply
<1>3. QED
  BY <1>2, BecomeType DEF Succeed

(* A successful swap keeps the refs and the history well typed.            *)
LEMMA CasType ==
  ASSUME TypeOK, NEW q \in Req, NEW r \in Ref, NEW expected \in Tip, NEW new \in Tip,
         CasUpdate(q, r, expected, new) \/ CasDelete(q, r, expected)
  PROVE  refs' \in [Ref -> Tip] /\ moves' \in SUBSET Move
BY DEF CasUpdate, CasDelete, TypeOK, Move, Tip

(* What holds of the handler state h of request q while the repository     *)
(* holds the objects objs: a REST request concerns one branch; what it has *)
(* swapped in is a commit; the source of a merge is complete; behind the   *)
(* connectivity gate every new tip of a push is complete; and what a REST  *)
(* request is about to swap in extends the value it expects and lacks      *)
(* nothing that the expected value does not bring along.                   *)
Extends(old, new, objs) ==
    /\ old = None \/ old \in Reach({new})
    /\ Reach({new}) \subseteq objs \cup Reach({old})

Sound(q, h, objs) ==
    /\ h.pc = "done" \/ h.reply = "none"
    /\ q \in Rest => \A r, s \in h.todo : r = s
    /\ q \in Rest /\ (h.pc = "publish" \/ h.reply = "ok") => \A r \in h.todo : h.want[r] \in Commit
    /\ q \in Mergers => Reach({h.src}) \subseteq objs
    /\ q \in Pushers /\ h.pc = "cas" => \A r \in h.todo : Reach({h.want[r]}) \subseteq objs
    /\ q \in Rest /\ h.pc = "cas" => \A r \in h.todo : Extends(h.exp[r], h.want[r], objs)

HandlersSound == \A q \in Req : Sound(q, op[q], odb)

(* A request that has not come to its swap, or that is answered with a     *)
(* refusal, has moved nothing.                                             *)
Refusal == {"rejected", "bad request", "conflict", "merge conflict"}
Quiet(q) ==
    \/ q \in Rest /\ op[q].pc \notin {"publish", "done"}
    \/ q \in Pushers /\ op[q].pc \in {"idle", "advertised", "unpack", "check"}
    \/ op[q].reply \in Refusal
QuietMovedNothing == \A q \in Req : Quiet(q) => \A m \in moves : m.by # q

(* Between the swap and the event, the swap is in the history.             *)
Landed ==
    \A q \in Rest : op[q].pc = "publish" =>
        \A r \in op[q].todo : \E m \in moves : m.ref = r /\ m.new = op[q].want[r]

IInv ==
    /\ TypeOK /\ HandlersSound /\ RefsConnected
    /\ AckedCommitsKept /\ RestNeverRewinds
    /\ QuietMovedNothing /\ Landed /\ EventsAreTrue

(* Every step of every handler keeps the state well typed.                 *)
LEMMA TypeStep == TypeOK /\ HandlersSound /\ [Next]_vars => TypeOK'
<1> SUFFICES ASSUME TypeOK, HandlersSound, [Next]_vars PROVE TypeOK'
  OBVIOUS
<1> DEFINE Typed == op' \in [Req -> Handler]
<1>0. /\ Pushers \subseteq Req /\ Committers \subseteq Req /\ Mergers \subseteq Req
      /\ Rest \subseteq Req
      /\ \A q \in Req : op[q] \in Handler
  BY DEF Req, Rest, TypeOK
<1>r. \A q \in Req, reply \in Reply : Answer(q, reply) => Typed
  BY AnswerType DEF TypeOK
<1>h. \A q \in Req, h \in Handler : Become(q, h) => Typed
  BY BecomeType DEF TypeOK
<1>1. ASSUME NEW q \in Pushers, InfoRefs(q) PROVE TypeOK'
  <2>1. [op[q] EXCEPT !.pc = "advertised", !.exp = refs] \in Handler
    BY <1>0 DEF TypeOK, Handler, PC
  <2>2. Typed
    BY <1>0, <1>1, <1>h, <2>1 DEF InfoRefs
  <2>3. QED
    BY <1>1, <2>2 DEF InfoRefs, TypeOK
<1>2. ASSUME NEW q \in Pushers, ReceivePack(q) PROVE TypeOK'
  <2> DEFINE H(R, new, pack) ==
               [op[q] EXCEPT !.pc = "unpack", !.todo = R, !.pack = pack,
                             !.want = [r \in Ref |-> IF r \in R THEN new[r] ELSE None]]
  <2>1. PICK R \in SUBSET Ref : \E new \in [R -> Tip] : \E pack \in SUBSET Commit :
           Become(q, H(R, new, pack))
    BY <1>2 DEF ReceivePack
  <2>2. PICK new \in [R -> Tip] : \E pack \in SUBSET Commit : Become(q, H(R, new, pack))
    BY <2>1
  <2>3. PICK pack \in SUBSET Commit : Become(q, H(R, new, pack))
    BY <2>2
  <2>4. [r \in Ref |-> IF r \in R THEN new[r] ELSE None] \in [Ref -> Tip]
    BY DEF Tip
  <2>5. H(R, new, pack) \in Handler
    BY <1>0, <2>4 DEF Handler, PC
  <2>6. Typed
    BY <1>0, <1>h, <2>3, <2>5
  <2>7. QED
    BY <1>2, <2>6 DEF ReceivePack, TypeOK
<1>3. ASSUME NEW q \in Pushers, Unpack(q) PROVE TypeOK'
  <2>1. op[q].pack \in SUBSET Commit
    BY <1>0 DEF Handler
  <2>2. odb' \in SUBSET Commit
    BY <1>3, <2>1 DEF Unpack, TypeOK
  <2>3. [op[q] EXCEPT !.pc = "check", !.pack = {}] \in Handler
    BY <1>0 DEF Handler, PC
  <2>4. Typed
    BY <1>0, <1>3, <1>h, <1>r, <2>3 DEF Unpack, Reply
  <2>5. QED
    BY <1>3, <2>2, <2>4 DEF Unpack, TypeOK
<1>4. ASSUME NEW q \in Pushers, CheckConnected(q) PROVE TypeOK'
  <2>1. [op[q] EXCEPT !.pc = "cas"] \in Handler
    BY <1>0 DEF Handler, PC
  <2>2. Typed
    BY <1>0, <1>4, <1>h, <1>r, <2>1 DEF CheckConnected, Reply
  <2>3. QED
    BY <1>4, <2>2 DEF CheckConnected, TypeOK
<1>5. ASSUME NEW q \in Pushers, NEW r \in Ref, ApplyRefUpdate(q, r) PROVE TypeOK'
  <2>1. op[q].exp[r] \in Tip /\ op[q].want[r] \in Tip
    BY <1>0 DEF Handler
  <2>2. refs' \in [Ref -> Tip] /\ moves' \in SUBSET Move
    BY <1>0, <1>5, <2>1, CasType DEF ApplyRefUpdate, TypeOK
  <2>3. [op[q] EXCEPT !.todo = @ \ {r}] \in Handler
    BY <1>0 DEF Handler
  <2>4. Typed
    BY <1>0, <1>5, <1>h, <2>3 DEF ApplyRefUpdate
  <2>5. QED
    BY <1>5, <2>2, <2>4 DEF ApplyRefUpdate, TypeOK
<1>6. ASSUME NEW q \in Pushers, Report(q) PROVE TypeOK'
  <2>1. Typed
    BY <1>0, <1>6, <1>r DEF Report, Reply
  <2>2. QED
    BY <1>6, <2>1 DEF Report, TypeOK
<1>7. ASSUME NEW q \in Committers, CreateCommit(q) PROVE TypeOK'
  <2>1. ASSUME NEW r \in Ref, NEW parent \in Tip
        PROVE  [op[q] EXCEPT !.pc = "build", !.todo = {r},
                             !.exp = [@ EXCEPT ![r] = parent]] \in Handler
    BY <1>0 DEF Handler, PC
  <2>2. Typed
    BY <1>0, <1>7, <1>h, <1>r, <2>1 DEF CreateCommit, Reply
  <2>3. QED
    BY <1>7, <2>2 DEF CreateCommit, TypeOK
<1>w. ASSUME NEW q \in Req, NEW r \in Ref, NEW c \in Tip
      PROVE  [op[q] EXCEPT !.pc = "cas", !.want = [@ EXCEPT ![r] = c]] \in Handler
  BY <1>0 DEF Handler, PC
<1>8. ASSUME NEW q \in Committers, BuildCommit(q) PROVE TypeOK'
  <2>0. \E r \in Ref, c \in Tip :
           Become(q, [op[q] EXCEPT !.pc = "cas", !.want = [@ EXCEPT ![r] = c]])
    BY <1>0, <1>8 DEF BuildCommit, Tip, Handler
  <2>1. Typed
    BY <1>0, <1>h, <1>w, <2>0
  <2>2. odb' \in SUBSET Commit
    BY <1>8 DEF BuildCommit, TypeOK
  <2>3. QED
    BY <1>8, <2>1, <2>2 DEF BuildCommit, TypeOK
<1>9. ASSUME NEW q \in Mergers, MergeBranches(q) PROVE TypeOK'
  <2>1. ASSUME NEW t \in Ref, NEW src \in Tip, NEW strategy \in Strategy
        PROVE  [op[q] EXCEPT !.pc = "target", !.todo = {t}, !.src = src,
                             !.strategy = strategy] \in Handler
    BY <1>0 DEF Handler, PC
  <2>2. Typed
    BY <1>0, <1>9, <1>h, <1>r, <2>1 DEF MergeBranches, Reply, TypeOK
  <2>3. QED
    BY <1>9, <2>2 DEF MergeBranches, TypeOK
<1>10. ASSUME NEW q \in Mergers, ResolveTarget(q) PROVE TypeOK'
  <2>1. ASSUME NEW t \in Ref, NEW v \in Tip
        PROVE  [op[q] EXCEPT !.pc = "plan", !.exp = [@ EXCEPT ![t] = v]] \in Handler
    BY <1>0 DEF Handler, PC
  <2>0. \E t \in Ref, v \in Tip :
           Become(q, [op[q] EXCEPT !.pc = "plan", !.exp = [@ EXCEPT ![t] = v]])
    BY <1>0, <1>10 DEF ResolveTarget, Handler, TypeOK
  <2>2. Typed
    BY <1>0, <1>h, <2>0, <2>1
  <2>3. QED
    BY <1>10, <2>2 DEF ResolveTarget, TypeOK
<1>11. ASSUME NEW q \in Mergers, Plan(q) PROVE TypeOK'
  <2>1. op[q].src \in Tip /\ [op[q] EXCEPT !.pc = "build"] \in Handler
    BY <1>0 DEF Handler, PC
  <2>2. \/ \E reply \in Reply : Answer(q, reply)
        \/ \E t \in Ref :
             Become(q, [op[q] EXCEPT !.pc = "cas", !.want = [@ EXCEPT ![t] = op[q].src]])
        \/ Become(q, [op[q] EXCEPT !.pc = "build"])
    BY <1>0, <1>11 DEF Plan, Reply, Handler
  <2>3. Typed
    BY <1>0, <1>h, <1>r, <1>w, <2>1, <2>2
  <2>4. QED
    BY <1>11, <2>3 DEF Plan, TypeOK
<1>12. ASSUME NEW q \in Mergers, BuildMerge(q) PROVE TypeOK'
  <2>0. \E t \in Ref, c \in Tip :
           Become(q, [op[q] EXCEPT !.pc = "cas", !.want = [@ EXCEPT ![t] = c]])
    BY <1>0, <1>12 DEF BuildMerge, Tip, Handler
  <2>1. Typed
    BY <1>0, <1>h, <1>w, <2>0
  <2>2. odb' \in SUBSET Commit
    BY <1>12 DEF BuildMerge, TypeOK
  <2>3. QED
    BY <1>12, <2>1, <2>2 DEF BuildMerge, TypeOK
<1>13. ASSUME NEW q \in Rest, CasBranch(q) PROVE TypeOK'
  <2>1. PICK r \in op[q].todo :
          \/ /\ CasUpdate(q, r, op[q].exp[r], op[q].want[r])
             /\ Become(q, [op[q] EXCEPT !.pc = "publish"])
          \/ UNCHANGED <<refs, moves>> /\ Answer(q, "conflict")
    BY <1>13 DEF CasBranch
  <2>2. r \in Ref /\ op[q].exp[r] \in Tip /\ op[q].want[r] \in Tip
    BY <1>0 DEF Handler
  <2>3. refs' \in [Ref -> Tip] /\ moves' \in SUBSET Move
    BY <1>0, <2>1, <2>2, CasType DEF TypeOK
  <2>4. [op[q] EXCEPT !.pc = "publish"] \in Handler
    BY <1>0 DEF Handler, PC
  <2>5. Typed
    BY <1>0, <1>h, <1>r, <2>1, <2>4 DEF Reply
  <2>6. QED
    BY <1>13, <2>3, <2>5 DEF CasBranch, TypeOK
<1>14. ASSUME NEW q \in Rest, Publish(q) PROVE TypeOK'
  <2>1. Typed
    BY <1>0, <1>14, <1>r, SucceedType DEF Publish, Reply, TypeOK
  <2>2. op[q].todo \subseteq Ref
    BY <1>0 DEF Handler
  <2>5. \A r \in op[q].todo : op[q].want[r] \in Commit
    BY <1>0, <1>14 DEF Publish, HandlersSound, Sound
  <2>3. outbox' \in SUBSET (Ref \X Commit)
    BY <1>14, <2>2, <2>5 DEF Publish, TypeOK
  <2>4. QED
    BY <1>14, <2>1, <2>3 DEF Publish, TypeOK
<1>15. ASSUME NEW q \in Req, Cancel(q) \/ Fail(q) PROVE TypeOK'
  <2>1. Typed
    BY <1>15, <1>r DEF Cancel, Fail, Reply
  <2>2. QED
    BY <1>15, <2>1 DEF Cancel, Fail, TypeOK
<1>16. CASE UNCHANGED vars
  BY <1>16 DEF vars, TypeOK
<1>17. QED
  BY <1>0, <1>1, <1>2, <1>3, <1>4, <1>5, <1>6, <1>7, <1>8, <1>9, <1>10, <1>11, <1>12, <1>13,
     <1>14, <1>15, <1>16 DEF Next, PushStep, RestStep, Rest
----------------------------------------------------------------------------
(* The handlers stay sound.                                                *)

LEMMA BecomeAt ==
  ASSUME op \in [Req -> Handler], NEW q \in Req, NEW h, Become(q, h)
  PROVE  op'[q] = h /\ \A p \in Req \ {q} : op'[p] = op[p]
BY DEF Become

(* More objects keep a handler sound.                                      *)
LEMMA SoundMono ==
  ASSUME NEW q, NEW h, NEW X, NEW Y, X \subseteq Y, Sound(q, h, X)
  PROVE  Sound(q, h, Y)
BY DEF Sound, Extends

(* A step that makes request q sound makes all of them sound.              *)
LEMMA SoundBecome ==
  ASSUME TypeOK, HandlersSound, odb \subseteq odb',
         NEW q \in Req, NEW h, Become(q, h), Sound(q, h, odb')
  PROVE  HandlersSound'
<1>1. op'[q] = h /\ \A p \in Req \ {q} : op'[p] = op[p]
  BY BecomeAt DEF TypeOK
<1>2. \A p \in Req \ {q} : Sound(p, op'[p], odb')
  BY <1>1, SoundMono DEF HandlersSound
<1>3. QED
  BY <1>1, <1>2 DEF HandlersSound

(* A request that has been answered with an error is sound.                *)
LEMMA SoundAnswer ==
  ASSUME TypeOK, HandlersSound, odb \subseteq odb',
         NEW q \in Req, NEW reply, reply # "ok", Answer(q, reply)
  PROVE  HandlersSound'
<1> DEFINE h == [Fresh EXCEPT !.pc = "done", !.reply = reply]
<1>1. h.pc = "done" /\ h.reply # "ok" /\ h.todo = {} /\ h.src = None
  BY DEF Fresh
<1>2. Sound(q, h, odb')
  BY <1>1, ReachNone DEF Sound
<1>3. QED
  BY <1>2, SoundBecome DEF Answer

(* A commit made on top of the expected value extends it.                  *)
LEMMA BuiltExtends ==
  ASSUME NEW c \in Commit, NEW old \in Tip, NEW src, NEW objs, c \in objs,
         objs \subseteq Commit,
         Parents[c] \subseteq {old, src}, old = None \/ old \in Parents[c],
         src \in Parents[c] => Reach({src}) \subseteq objs
  PROVE  Extends(old, c, objs)
<1> DEFINE X == objs \cup Reach({old})
<1>1. old = None \/ old \in Reach({c})
  BY ReachStep
<1>2. X \in SUBSET Commit
  BY ReachClosed
<1>3. \A t \in Parents[c] : Reach({t}) \subseteq X
  OBVIOUS
<1>4. Reach(Parents[c]) \subseteq X
  BY <1>2, <1>3, ReachUnion
<1>5. Reach({c}) \subseteq X
  BY <1>4, ReachStep
<1>6. QED
  BY <1>1, <1>5 DEF Extends

LEMMA SoundStep == TypeOK /\ HandlersSound /\ RefsConnected /\ [Next]_vars => HandlersSound'
<1> SUFFICES ASSUME TypeOK, HandlersSound, RefsConnected, [Next]_vars PROVE HandlersSound'
  OBVIOUS
<1>0. /\ Pushers \subseteq Req /\ Committers \subseteq Rest /\ Mergers \subseteq Rest
      /\ Rest \subseteq Req
      /\ \A q \in Pushers : q \notin Rest /\ q \notin Mergers
      /\ \A q \in Committers : q \notin Mergers
      /\ \A q \in Rest : q \notin Pushers
  BY RequestsAssumption DEF Req, Rest
<1>t. \A q \in Req : op[q] \in Handler /\ Sound(q, op[q], odb)
  BY DEF TypeOK, HandlersSound
<1>h. \A q \in Req : \A h : odb \subseteq odb' /\ Become(q, h) /\ Sound(q, h, odb') => HandlersSound'
  BY SoundBecome
<1>r. \A q \in Req : \A reply : odb \subseteq odb' /\ reply # "ok" /\ Answer(q, reply)
                                => HandlersSound'
  BY SoundAnswer
<1>1. ASSUME NEW q \in Pushers, InfoRefs(q) PROVE HandlersSound'
  <2> DEFINE h == [op[q] EXCEPT !.pc = "advertised", !.exp = refs]
  <2>1. h.pc = "advertised" /\ h.reply = op[q].reply
    BY <1>0, <1>t DEF Handler
  <2>2. Sound(q, h, odb')
    BY <1>0, <1>1, <1>t, <2>1 DEF InfoRefs, Sound
  <2>3. QED
    BY <1>0, <1>1, <1>h, <2>2 DEF InfoRefs
<1>2. ASSUME NEW q \in Pushers, ReceivePack(q) PROVE HandlersSound'
  <2>1. PICK R, w, pack :
           Become(q, [op[q] EXCEPT !.pc = "unpack", !.todo = R, !.pack = pack, !.want = w])
    BY <1>2 DEF ReceivePack
  <2> DEFINE h == [op[q] EXCEPT !.pc = "unpack", !.todo = R, !.pack = pack, !.want = w]
  <2>2. h.pc = "unpack" /\ h.reply = op[q].reply
    BY <1>0, <1>t DEF Handler
  <2>3. Sound(q, h, odb')
    BY <1>0, <1>2, <1>t, <2>2 DEF ReceivePack, Sound
  <2>4. QED
    BY <1>0, <1>2, <1>h, <2>1, <2>3 DEF ReceivePack
<1>3. ASSUME NEW q \in Pushers, Unpack(q) PROVE HandlersSound'
  <2> DEFINE h == [op[q] EXCEPT !.pc = "check", !.pack = {}]
  <2>1. h.pc = "check" /\ h.reply = op[q].reply
    BY <1>0, <1>t DEF Handler
  <2>2. Sound(q, h, odb')
    BY <1>0, <1>3, <1>t, <2>1 DEF Unpack, Sound
  <2>3. QED
    BY <1>0, <1>3, <1>h, <1>r, <2>2 DEF Unpack
<1>4. ASSUME NEW q \in Pushers, CheckConnected(q) PROVE HandlersSound'
  <2> DEFINE h == [op[q] EXCEPT !.pc = "cas"]
             tips == TipsOf(op[q].want, op[q].todo)
  <2>1. CASE Connected(tips) /\ Become(q, h)
    <3>1. /\ h.pc = "cas" /\ h.reply = op[q].reply
          /\ h.todo = op[q].todo /\ h.want = op[q].want
      BY <1>0, <1>t DEF Handler
    <3>2. \A v \in TipsOf(refs, Ref) : Reach({v}) \subseteq odb
      BY DEF TipsOf, RefsConnected
    <3>3. Reach(TipsOf(refs, Ref)) \subseteq odb
      BY <3>2, ReachUnion DEF TypeOK
    <3>4. Reach(tips) \subseteq odb
      BY <2>1, <3>3 DEF Connected
    <3>5. \A r \in op[q].todo : Reach({op[q].want[r]}) \subseteq odb
      <4> SUFFICES ASSUME NEW r \in op[q].todo PROVE Reach({op[q].want[r]}) \subseteq odb
        OBVIOUS
      <4>1. CASE op[q].want[r] = None
        BY <4>1, ReachNone
      <4>2. CASE op[q].want[r] # None
        <5>1. op[q].want[r] \in tips
          BY <4>2 DEF TipsOf
        <5>2. QED
          BY <3>4, <5>1, ReachMember
      <4>3. QED
        BY <4>1, <4>2
    <3>6. odb' = odb /\ op[q].reply = "none"
      BY <1>0, <1>4, <1>t DEF CheckConnected, Sound
    <3>7. Sound(q, h, odb')
      BY <1>0, <3>1, <3>5, <3>6 DEF Sound
    <3>8. QED
      BY <1>0, <1>h, <2>1, <3>6, <3>7
  <2>2. QED
    BY <1>0, <1>4, <1>r, <2>1 DEF CheckConnected
<1>5. ASSUME NEW q \in Pushers, NEW r \in Ref, ApplyRefUpdate(q, r) PROVE HandlersSound'
  <2> DEFINE h == [op[q] EXCEPT !.todo = @ \ {r}]
  <2>1. /\ h.pc = op[q].pc /\ h.reply = op[q].reply
        /\ h.todo \subseteq op[q].todo /\ h.want = op[q].want
    BY <1>0, <1>t DEF Handler
  <2>2. Sound(q, h, odb)
    BY <1>0, <1>t, <2>1 DEF Sound
  <2>3. QED
    BY <1>0, <1>5, <1>h, <2>2 DEF ApplyRefUpdate
<1>6. ASSUME NEW q \in Pushers, Report(q) PROVE HandlersSound'
  BY <1>0, <1>6, <1>r DEF Report
<1>7. ASSUME NEW q \in Committers, CreateCommit(q) PROVE HandlersSound'
  <2>1. ASSUME NEW r \in Ref, NEW parent \in Tip,
               Become(q, [op[q] EXCEPT !.pc = "build", !.todo = {r},
                                       !.exp = [@ EXCEPT ![r] = parent]])
        PROVE  HandlersSound'
    <3> DEFINE h == [op[q] EXCEPT !.pc = "build", !.todo = {r},
                                  !.exp = [@ EXCEPT ![r] = parent]]
    <3>1. h.pc = "build" /\ h.reply = op[q].reply /\ h.todo = {r}
      BY <1>0, <1>t DEF Handler
    <3>2. odb' = odb /\ op[q].reply = "none"
      BY <1>0, <1>7, <1>t DEF CreateCommit, Sound
    <3>3. Sound(q, h, odb')
      BY <1>0, <3>1, <3>2 DEF Sound
    <3>4. QED
      BY <1>0, <1>h, <2>1, <3>2, <3>3
  <2>2. QED
    BY <1>0, <1>7, <1>r, <2>1 DEF CreateCommit
<1>b. ASSUME NEW q \in Rest, NEW t \in op[q].todo, NEW c,
             odb \subseteq odb', op[q].reply = "none", Extends(op[q].exp[t], c, odb'),
             Become(q, [op[q] EXCEPT !.pc = "cas", !.want = [@ EXCEPT ![t] = c]])
      PROVE  HandlersSound'
  <2> DEFINE h == [op[q] EXCEPT !.pc = "cas", !.want = [@ EXCEPT ![t] = c]]
  <2>1. op[q].todo \subseteq Ref /\ op[q].want \in [Ref -> Tip]
    BY <1>0, <1>t DEF Handler
  <2>2. /\ h.pc = "cas" /\ h.reply = op[q].reply /\ h.todo = op[q].todo
        /\ h.exp = op[q].exp /\ h.src = op[q].src /\ h.want[t] = c
    BY <1>0, <1>t, <2>1 DEF Handler
  <2>3. Sound(q, op[q], odb')
    BY <1>0, <1>b, <1>t, SoundMono
  <2>4. \A r \in op[q].todo : r = t
    BY <2>3 DEF Sound
  <2>5. Sound(q, h, odb')
    BY <1>0, <1>b, <2>2, <2>3, <2>4 DEF Sound
  <2>6. QED
    BY <1>0, <1>b, <1>h, <2>5
<1>8. ASSUME NEW q \in Committers, BuildCommit(q) PROVE HandlersSound'
  <2>1. ASSUME NEW r \in op[q].todo, NEW c \in Commit,
               Parents[c] = {op[q].exp[r]} \ {None}, odb' = odb \cup {c},
               Become(q, [op[q] EXCEPT !.pc = "cas", !.want = [@ EXCEPT ![r] = c]])
        PROVE  HandlersSound'
    <3>4. op[q].exp[r] \in Tip
      BY <1>0, <1>t DEF Handler
    <3>5. op[q].reply = "none"
      BY <1>0, <1>8, <1>t DEF BuildCommit, Sound
    <3>1. op[q].exp[r] \in Tip /\ op[q].reply = "none" /\ odb' \subseteq Commit
      BY <2>1, <3>4, <3>5 DEF TypeOK
    <3>2. Extends(op[q].exp[r], c, odb')
      <4>1. /\ Parents[c] \subseteq {op[q].exp[r], None}
            /\ op[q].exp[r] = None \/ op[q].exp[r] \in Parents[c]
            /\ None \notin Parents[c]
            /\ c \in odb'
        BY <2>1
      <4>2. QED
        BY <3>1, <4>1, BuiltExtends
    <3>3. QED
      BY <1>0, <1>b, <2>1, <3>1, <3>2
  <2>3. QED
    BY <1>8, <2>1 DEF BuildCommit
<1>9. ASSUME NEW q \in Mergers, MergeBranches(q) PROVE HandlersSound'
  <2>1. ASSUME NEW s \in Ref, NEW t \in Ref, NEW strategy,
               Become(q, [op[q] EXCEPT !.pc = "target", !.todo = {t}, !.src = refs[s],
                                       !.strategy = strategy])
        PROVE  HandlersSound'
    <3> DEFINE h == [op[q] EXCEPT !.pc = "target", !.todo = {t}, !.src = refs[s],
                                  !.strategy = strategy]
    <3>1. h.pc = "target" /\ h.reply = op[q].reply /\ h.todo = {t} /\ h.src = refs[s]
      BY <1>0, <1>t DEF Handler
    <3>2. odb' = odb /\ op[q].reply = "none"
      BY <1>0, <1>9, <1>t DEF MergeBranches, Sound
    <3>3. Sound(q, h, odb')
      BY <1>0, <3>1, <3>2 DEF Sound, RefsConnected
    <3>4. QED
      BY <1>0, <1>h, <2>1, <3>2, <3>3
  <2>2. QED
    BY <1>0, <1>9, <1>r, <2>1 DEF MergeBranches
<1>s. ASSUME NEW q \in Rest, NEW h, odb' = odb, op[q].reply = "none", Become(q, h),
             h.pc \notin {"cas", "publish"}, h.reply = op[q].reply,
             h.todo = op[q].todo, h.src = op[q].src
      PROVE  HandlersSound'
  <2>1. Sound(q, h, odb')
    BY <1>0, <1>s, <1>t DEF Sound
  <2>2. QED
    BY <1>0, <1>h, <1>s, <2>1
<1>10. ASSUME NEW q \in Mergers, ResolveTarget(q) PROVE HandlersSound'
  <2>1. PICK e : Become(q, [op[q] EXCEPT !.pc = "plan", !.exp = e])
    BY <1>10 DEF ResolveTarget
  <2> DEFINE h == [op[q] EXCEPT !.pc = "plan", !.exp = e]
  <2>2. h.pc = "plan" /\ h.reply = op[q].reply /\ h.todo = op[q].todo /\ h.src = op[q].src
    BY <1>0, <1>t DEF Handler
  <2>3. odb' = odb /\ op[q].reply = "none"
    BY <1>0, <1>10, <1>t DEF ResolveTarget, Sound
  <2>4. QED
    BY <1>0, <1>s, <2>1, <2>2, <2>3
<1>11. ASSUME NEW q \in Mergers, Plan(q) PROVE HandlersSound'
  <2>1. odb' = odb /\ op[q].reply = "none"
    BY <1>0, <1>11, <1>t DEF Plan, Sound
  <2>2. \/ \E reply : reply # "ok" /\ Answer(q, reply)
        \/ \E t \in op[q].todo :
             /\ FfAvailable(op[q].exp[t], op[q].src)
             /\ Become(q, [op[q] EXCEPT !.pc = "cas", !.want = [@ EXCEPT ![t] = op[q].src]])
        \/ Become(q, [op[q] EXCEPT !.pc = "build"])
    BY <1>11 DEF Plan
  <2>3. CASE \E reply : reply # "ok" /\ Answer(q, reply)
    BY <1>0, <1>r, <2>1, <2>3
  <2>4. ASSUME NEW t \in op[q].todo, FfAvailable(op[q].exp[t], op[q].src),
               Become(q, [op[q] EXCEPT !.pc = "cas", !.want = [@ EXCEPT ![t] = op[q].src]])
        PROVE  HandlersSound'
    <3>1. Reach({op[q].src}) \subseteq odb
      BY <1>0, <1>t DEF Sound
    <3>2. Extends(op[q].exp[t], op[q].src, odb')
      BY <2>1, <2>4, <3>1 DEF Extends, FfAvailable, IsAncestor
    <3>3. QED
      BY <1>0, <1>b, <2>1, <2>4, <3>2
  <2>5. CASE Become(q, [op[q] EXCEPT !.pc = "build"])
    <3> DEFINE h == [op[q] EXCEPT !.pc = "build"]
    <3>1. h.pc = "build" /\ h.reply = op[q].reply /\ h.todo = op[q].todo /\ h.src = op[q].src
      BY <1>0, <1>t DEF Handler
    <3>2. QED
      BY <1>0, <1>s, <2>1, <2>5, <3>1
  <2>6. QED
    BY <2>2, <2>3, <2>4, <2>5
<1>12. ASSUME NEW q \in Mergers, BuildMerge(q) PROVE HandlersSound'
  <2>1. ASSUME NEW t \in op[q].todo, NEW c \in Commit,
               Parents[c] = {op[q].exp[t], op[q].src}, odb' = odb \cup {c},
               Become(q, [op[q] EXCEPT !.pc = "cas", !.want = [@ EXCEPT ![t] = c]])
        PROVE  HandlersSound'
    <3>1. /\ op[q].exp[t] \in Tip /\ op[q].reply = "none" /\ odb' \subseteq Commit
          /\ Reach({op[q].src}) \subseteq odb'
      <4>1. op[q].exp[t] \in Tip
        BY <1>0, <1>t DEF Handler
      <4>2. op[q].reply = "none" /\ Reach({op[q].src}) \subseteq odb
        BY <1>0, <1>12, <1>t DEF BuildMerge, Sound
      <4>3. QED
        BY <2>1, <4>1, <4>2 DEF TypeOK
    <3>2. Extends(op[q].exp[t], c, odb')
      <4>1. op[q].exp[t] \in Parents[c] /\ c \in odb'
        BY <2>1
      <4>2. QED
        BY <2>1, <3>1, <4>1, BuiltExtends
    <3>3. QED
      BY <1>0, <1>b, <2>1, <3>1, <3>2
  <2>3. QED
    BY <1>12, <2>1 DEF BuildMerge
<1>13. ASSUME NEW q \in Rest, CasBranch(q) PROVE HandlersSound'
  <2>1. odb' = odb /\ op[q].reply = "none"
    BY <1>0, <1>13, <1>t DEF CasBranch, Sound
  <2>2. ASSUME NEW r \in op[q].todo, CasUpdate(q, r, op[q].exp[r], op[q].want[r]),
               Become(q, [op[q] EXCEPT !.pc = "publish"])
        PROVE  HandlersSound'
    <3> DEFINE h == [op[q] EXCEPT !.pc = "publish"]
    <3>1. /\ h.pc = "publish" /\ h.reply = op[q].reply /\ h.todo = op[q].todo
          /\ h.want = op[q].want /\ h.src = op[q].src
      BY <1>0, <1>t DEF Handler
    <3>2. op[q].want[r] \in Commit
      BY <2>2 DEF CasUpdate, TypeOK
    <3>3. Sound(q, h, odb')
      BY <1>0, <1>t, <2>1, <3>1, <3>2 DEF Sound
    <3>4. QED
      BY <1>0, <1>h, <2>1, <2>2, <3>3
  <2>3. QED
    BY <1>0, <1>13, <1>r, <2>1, <2>2 DEF CasBranch
<1>14. ASSUME NEW q \in Rest, Publish(q) PROVE HandlersSound'
  <2>1. odb' = odb
    BY <1>14 DEF Publish
  <2>2. CASE Succeed(q)
    <3> DEFINE h == [Fresh EXCEPT !.pc = "done", !.reply = "ok",
                                  !.todo = op[q].todo, !.want = op[q].want]
    <3>1. h.pc = "done" /\ h.todo = op[q].todo /\ h.want = op[q].want /\ h.src = None
      BY DEF Fresh
    <3>2. Sound(q, op[q], odb) /\ op[q].pc = "publish"
      BY <1>0, <1>14, <1>t DEF Publish
    <3>3. Sound(q, h, odb')
      BY <1>0, <3>1, <3>2, ReachNone DEF Sound
    <3>4. QED
      BY <1>0, <1>h, <2>1, <2>2, <3>3 DEF Succeed
  <2>3. QED
    BY <1>0, <1>14, <1>r, <2>1, <2>2 DEF Publish
<1>15. ASSUME NEW q \in Req, Cancel(q) \/ Fail(q) PROVE HandlersSound'
  BY <1>15, <1>r DEF Cancel, Fail
<1>16. CASE UNCHANGED vars
  BY <1>16 DEF vars, HandlersSound
<1>17. QED
  BY <1>0, <1>1, <1>2, <1>3, <1>4, <1>5, <1>6, <1>7, <1>8, <1>9, <1>10, <1>11, <1>12, <1>13,
     <1>14, <1>15, <1>16 DEF Next, PushStep, RestStep
----------------------------------------------------------------------------
(* The five things a step can be, for the request q that takes it.         *)

RefChange(q, r, new) ==
    /\ refs' = [refs EXCEPT ![r] = new]
    /\ moves' = moves \cup {[by |-> q, ref |-> r, old |-> refs[r], new |-> new]}

(* It works towards its swap, or gives up before it.                       *)
Prepares(q) ==
    /\ Quiet(q) /\ UNCHANGED <<refs, moves, outbox>> /\ odb \subseteq odb'
    /\ op'[q].pc # "publish" /\ op'[q].reply # "ok"

(* A push updates one of its refs, or fails to.                            *)
Pushes(q) ==
    /\ q \in Pushers /\ ~Quiet(q)' /\ op'[q].pc = "cas" /\ op'[q].reply = "none"
    /\ UNCHANGED <<odb, outbox>>
    /\ \/ UNCHANGED <<refs, moves>>
       \/ \E r \in Ref, v \in Tip : Reach({v}) \subseteq odb /\ RefChange(q, r, v)

(* It ends, without success and without having been refused.               *)
Stops(q) ==
    /\ ~Quiet(q)' /\ op'[q].pc = "done" /\ op'[q].reply # "ok"
    /\ UNCHANGED <<refs, odb, moves, outbox>>

(* A REST request swaps its commit in, extending the branch.               *)
Lands(q) ==
    /\ q \in Rest /\ Quiet(q)
    /\ op'[q].pc = "publish" /\ op'[q].reply = "none"
    /\ op'[q].todo = op[q].todo /\ op'[q].want = op[q].want
    /\ UNCHANGED <<odb, outbox>>
    /\ \E r \in Ref :
          /\ op[q].todo = {r}
          /\ op[q].want[r] \in Commit
          /\ Extends(refs[r], op[q].want[r], odb)
          /\ RefChange(q, r, op[q].want[r])

(* It acknowledges the commit, and announces it if it can.                 *)
Announces(q) ==
    /\ q \in Rest /\ op[q].pc = "publish" /\ op'[q].pc = "done" /\ op'[q].reply = "ok"
    /\ op'[q].todo = op[q].todo /\ op'[q].want = op[q].want
    /\ UNCHANGED <<refs, odb, moves>>
    /\ \/ UNCHANGED outbox
       \/ \E r \in op[q].todo : outbox' = outbox \cup {<<r, op[q].want[r]>>}

Acts(q) ==
    /\ \A p \in Req \ {q} : op'[p] = op[p]
    /\ Prepares(q) \/ Pushes(q) \/ Stops(q) \/ Lands(q) \/ Announces(q)

LEMMA StepKinds ==
  TypeOK /\ HandlersSound /\ [Next]_vars => UNCHANGED vars \/ \E q \in Req : Acts(q)
<1> SUFFICES ASSUME TypeOK, HandlersSound, Next PROVE \E q \in Req : Acts(q)
  OBVIOUS
<1>0. /\ Pushers \subseteq Req /\ Committers \subseteq Rest /\ Mergers \subseteq Rest
      /\ Rest \subseteq Req
      /\ \A q \in Pushers : q \notin Rest /\ q \notin Mergers
  BY RequestsAssumption DEF Req, Rest
<1>t. \A q \in Req : op[q] \in Handler /\ Sound(q, op[q], odb)
  BY DEF TypeOK, HandlersSound
<1>h. ASSUME NEW q \in Req, NEW h, Become(q, h)
      PROVE  op'[q] = h /\ \A p \in Req \ {q} : op'[p] = op[p]
  BY <1>h, BecomeAt DEF TypeOK
<1>r. ASSUME NEW q \in Req, NEW reply, Answer(q, reply)
      PROVE  /\ op'[q].pc = "done" /\ op'[q].reply = reply
             /\ \A p \in Req \ {q} : op'[p] = op[p]
  <2> DEFINE h == [Fresh EXCEPT !.pc = "done", !.reply = reply]
  <2>1. h.pc = "done" /\ h.reply = reply
    BY DEF Fresh
  <2>2. QED
    BY <1>h, <1>r, <2>1 DEF Answer
(* A handler that has not ended and is given a new state.                  *)
<1>n. ASSUME NEW q \in Req, NEW h, Become(q, h), Quiet(q), op[q].pc # "done",
             h.pc # "publish", h.reply = op[q].reply,
             UNCHANGED <<refs, moves, outbox>>, odb \subseteq odb'
      PROVE  Acts(q)
  BY <1>h, <1>n, <1>t DEF Acts, Prepares, Sound
(* A handler that answers before its swap.                                 *)
<1>a. ASSUME NEW q \in Req, NEW reply, Answer(q, reply), Quiet(q), reply # "ok",
             UNCHANGED <<refs, moves, outbox>>, odb \subseteq odb'
      PROVE  Acts(q)
  BY <1>a, <1>r DEF Acts, Prepares
(* A handler that ends after its swap, or is dropped.                      *)
<1>e. ASSUME NEW q \in Req, NEW reply, Answer(q, reply),
             reply \notin Refusal \cup {"ok"}, UNCHANGED <<refs, odb, moves, outbox>>
      PROVE  Acts(q)
  <2>1. ~Quiet(q)'
    BY <1>e, <1>r DEF Quiet
  <2>2. QED
    BY <1>e, <1>r, <2>1 DEF Acts, Stops
<1>1. ASSUME NEW q \in Pushers, InfoRefs(q) PROVE Acts(q)
  <2> DEFINE h == [op[q] EXCEPT !.pc = "advertised", !.exp = refs]
  <2>1. h.pc = "advertised" /\ h.reply = op[q].reply
    BY <1>0, <1>t DEF Handler
  <2>2. QED
    BY <1>0, <1>1, <1>n, <2>1 DEF InfoRefs, Quiet
<1>2. ASSUME NEW q \in Pushers, ReceivePack(q) PROVE Acts(q)
  <2>1. PICK R, w, pack :
           Become(q, [op[q] EXCEPT !.pc = "unpack", !.todo = R, !.pack = pack, !.want = w])
    BY <1>2 DEF ReceivePack
  <2> DEFINE h == [op[q] EXCEPT !.pc = "unpack", !.todo = R, !.pack = pack, !.want = w]
  <2>2. h.pc = "unpack" /\ h.reply = op[q].reply
    BY <1>0, <1>t DEF Handler
  <2>3. QED
    BY <1>0, <1>2, <1>n, <2>1, <2>2 DEF ReceivePack, Quiet
<1>3. ASSUME NEW q \in Pushers, Unpack(q) PROVE Acts(q)
  <2> DEFINE h == [op[q] EXCEPT !.pc = "check", !.pack = {}]
  <2>1. h.pc = "check" /\ h.reply = op[q].reply
    BY <1>0, <1>t DEF Handler
  <2>2. /\ Quiet(q) /\ op[q].pc # "done" /\ odb \subseteq odb'
        /\ UNCHANGED <<refs, moves, outbox>>
        /\ Become(q, h) \/ Answer(q, "rejected") \/ Answer(q, "dropped")
    BY <1>3 DEF Unpack, Quiet
  <2>3. QED
    BY <1>0, <1>a, <1>n, <2>1, <2>2
<1>4. ASSUME NEW q \in Pushers, CheckConnected(q) PROVE Acts(q)
  <2> DEFINE h == [op[q] EXCEPT !.pc = "cas"]
  <2>1. h.pc = "cas" /\ h.reply = op[q].reply
    BY <1>0, <1>t DEF Handler
  <2>2. /\ Quiet(q) /\ op[q].pc # "done" /\ odb \subseteq odb'
        /\ UNCHANGED <<refs, moves, outbox>>
        /\ Become(q, h) \/ Answer(q, "rejected")
    BY <1>4 DEF CheckConnected, Quiet
  <2>3. QED
    BY <1>0, <1>a, <1>n, <2>1, <2>2
<1>5. ASSUME NEW q \in Pushers, NEW r \in Ref, ApplyRefUpdate(q, r) PROVE Acts(q)
  <2> DEFINE h == [op[q] EXCEPT !.todo = @ \ {r}]
  <2>1. /\ h.pc = "cas" /\ h.reply = "none"
        /\ op[q].want[r] \in Tip /\ Reach({op[q].want[r]}) \subseteq odb
    <3>1. op[q].pc = "cas" /\ r \in op[q].todo
      BY <1>5 DEF ApplyRefUpdate
    <3>2. op[q].reply = "none" /\ Reach({op[q].want[r]}) \subseteq odb
      BY <1>0, <1>t, <3>1 DEF Sound
    <3>3. QED
      BY <1>0, <1>t, <3>1, <3>2 DEF Handler
  <2>2. op'[q] = h /\ \A p \in Req \ {q} : op'[p] = op[p]
    BY <1>0, <1>5, <1>h DEF ApplyRefUpdate
  <2>3. ~Quiet(q)'
    BY <1>0, <2>1, <2>2 DEF Quiet, Refusal
  <2>4. UNCHANGED <<refs, moves>> \/ RefChange(q, r, op[q].want[r])
    BY <1>5 DEF ApplyRefUpdate, CasUpdate, CasDelete, RefChange
  <2>5. UNCHANGED <<odb, outbox>>
    BY <1>5 DEF ApplyRefUpdate
  <2>6. Pushes(q)
    BY <2>1, <2>2, <2>3, <2>4, <2>5 DEF Pushes
  <2>7. QED
    BY <2>2, <2>6 DEF Acts
<1>6. ASSUME NEW q \in Pushers, Report(q) PROVE Acts(q)
  BY <1>0, <1>6, <1>e DEF Report, Refusal
<1>7. ASSUME NEW q \in Committers, CreateCommit(q) PROVE Acts(q)
  <2>1. ASSUME NEW R, NEW e
        PROVE  LET h == [op[q] EXCEPT !.pc = "build", !.todo = R, !.exp = e]
               IN  h.pc = "build" /\ h.reply = op[q].reply
    BY <1>0, <1>t DEF Handler
  <2>2. /\ Quiet(q) /\ op[q].pc # "done" /\ odb \subseteq odb'
        /\ UNCHANGED <<refs, moves, outbox>>
    BY <1>0, <1>7 DEF CreateCommit, Quiet
  <2>3. \/ \E R, e : Become(q, [op[q] EXCEPT !.pc = "build", !.todo = R, !.exp = e])
        \/ Answer(q, "bad request")
    BY <1>7 DEF CreateCommit
  <2>4. QED
    BY <1>0, <1>a, <1>n, <2>1, <2>2, <2>3
<1>w. ASSUME NEW q \in Rest, NEW w
      PROVE  LET h == [op[q] EXCEPT !.pc = "cas", !.want = w]
             IN  h.pc = "cas" /\ h.reply = op[q].reply
  BY <1>0, <1>t DEF Handler
<1>8. ASSUME NEW q \in Committers, BuildCommit(q) PROVE Acts(q)
  <2>2. /\ Quiet(q) /\ op[q].pc # "done" /\ odb \subseteq odb'
        /\ UNCHANGED <<refs, moves, outbox>>
    BY <1>0, <1>8 DEF BuildCommit, Quiet
  <2>3. \E w : Become(q, [op[q] EXCEPT !.pc = "cas", !.want = w])
    BY <1>8 DEF BuildCommit
  <2>4. QED
    BY <1>0, <1>n, <1>w, <2>2, <2>3
<1>9. ASSUME NEW q \in Mergers, MergeBranches(q) PROVE Acts(q)
  <2>2. /\ Quiet(q) /\ op[q].pc # "done" /\ odb \subseteq odb'
        /\ UNCHANGED <<refs, moves, outbox>>
    BY <1>0, <1>9 DEF MergeBranches, Quiet
  <2>3. \/ \E R, src, strategy :
             Become(q, [op[q] EXCEPT !.pc = "target", !.todo = R, !.src = src,
                                     !.strategy = strategy])
        \/ Answer(q, "bad request")
    BY <1>9 DEF MergeBranches
  <2>4. ASSUME NEW R, NEW src, NEW strategy,
               Become(q, [op[q] EXCEPT !.pc = "target", !.todo = R, !.src = src,
                                       !.strategy = strategy])
        PROVE  Acts(q)
    <3> DEFINE h == [op[q] EXCEPT !.pc = "target", !.todo = R, !.src = src,
                                  !.strategy = strategy]
    <3>1. h.pc = "target" /\ h.reply = op[q].reply
      BY <1>0, <1>t DEF Handler
    <3>2. QED
      BY <1>0, <1>n, <2>2, <2>4, <3>1
  <2>5. QED
    BY <1>0, <1>a, <2>2, <2>3, <2>4
<1>10. ASSUME NEW q \in Mergers, ResolveTarget(q) PROVE Acts(q)
  <2>1. ASSUME NEW e
        PROVE  LET h == [op[q] EXCEPT !.pc = "plan", !.exp = e]
               IN  h.pc = "plan" /\ h.reply = op[q].reply
    BY <1>0, <1>t DEF Handler
  <2>2. /\ Quiet(q) /\ op[q].pc # "done" /\ odb \subseteq odb'
        /\ UNCHANGED <<refs, moves, outbox>>
    BY <1>0, <1>10 DEF ResolveTarget, Quiet
  <2>3. \E e : Become(q, [op[q] EXCEPT !.pc = "plan", !.exp = e])
    BY <1>10 DEF ResolveTarget
  <2>4. QED
    BY <1>0, <1>n, <2>1, <2>2, <2>3
<1>11. ASSUME NEW q \in Mergers, Plan(q) PROVE Acts(q)
  <2> DEFINE h == [op[q] EXCEPT !.pc = "build"]
  <2>1. h.pc = "build" /\ h.reply = op[q].reply
    BY <1>0, <1>t DEF Handler
  <2>2. /\ Quiet(q) /\ op[q].pc # "done" /\ odb \subseteq odb'
        /\ UNCHANGED <<refs, moves, outbox>>
    BY <1>0, <1>11 DEF Plan, Quiet
  <2>3. \/ \E w : Become(q, [op[q] EXCEPT !.pc = "cas", !.want = w])
        \/ Become(q, h)
        \/ \E reply : reply # "ok" /\ Answer(q, reply)
    BY <1>11 DEF Plan
  <2>4. QED
    BY <1>0, <1>a, <1>n, <1>w, <2>1, <2>2, <2>3
<1>12. ASSUME NEW q \in Mergers, BuildMerge(q) PROVE Acts(q)
  <2>2. /\ Quiet(q) /\ op[q].pc # "done" /\ odb \subseteq odb'
        /\ UNCHANGED <<refs, moves, outbox>>
    BY <1>0, <1>12 DEF BuildMerge, Quiet
  <2>3. \E w : Become(q, [op[q] EXCEPT !.pc = "cas", !.want = w])
    BY <1>12 DEF BuildMerge
  <2>4. QED
    BY <1>0, <1>n, <1>w, <2>2, <2>3
<1>13. ASSUME NEW q \in Rest, CasBranch(q) PROVE Acts(q)
  <2>1. op[q].pc = "cas" /\ Quiet(q) /\ op[q].reply = "none" /\ UNCHANGED <<odb, outbox>>
    BY <1>0, <1>13, <1>t DEF CasBranch, Quiet, Sound
  <2>2. CASE UNCHANGED <<refs, moves>> /\ Answer(q, "conflict")
    BY <1>0, <1>a, <2>1, <2>2
  <2>3. ASSUME NEW r \in op[q].todo, CasUpdate(q, r, op[q].exp[r], op[q].want[r]),
               Become(q, [op[q] EXCEPT !.pc = "publish"])
        PROVE  Acts(q)
    <3> DEFINE h == [op[q] EXCEPT !.pc = "publish"]
    <3>1. /\ h.pc = "publish" /\ h.reply = op[q].reply
          /\ h.todo = op[q].todo /\ h.want = op[q].want /\ r \in Ref
      BY <1>0, <1>t DEF Handler
    <3>2. op'[q] = h /\ \A p \in Req \ {q} : op'[p] = op[p]
      BY <1>0, <1>h, <2>3
    <3>3. op[q].todo = {r} /\ Extends(op[q].exp[r], op[q].want[r], odb)
      <4>1. Sound(q, op[q], odb) /\ op[q].pc = "cas"
        BY <1>0, <1>t, <2>1
      <4>2. \A s \in op[q].todo : r = s /\ Extends(op[q].exp[s], op[q].want[s], odb)
        BY <4>1 DEF Sound
      <4>3. QED
        BY <4>2
    <3>4. /\ op[q].want[r] \in Commit /\ refs[r] = op[q].exp[r]
          /\ RefChange(q, r, op[q].want[r])
      BY <2>3 DEF CasUpdate, RefChange, TypeOK
    <3>5. Lands(q)
      BY <2>1, <3>1, <3>2, <3>3, <3>4 DEF Lands
    <3>6. QED
      BY <3>2, <3>5 DEF Acts
  <2>4. QED
    BY <1>13, <2>2, <2>3 DEF CasBranch
<1>14. ASSUME NEW q \in Rest, Publish(q) PROVE Acts(q)
  <2>1. op[q].pc = "publish" /\ UNCHANGED <<refs, odb, moves>>
    BY <1>14 DEF Publish
  <2>2. CASE UNCHANGED outbox /\ Answer(q, "error")
    BY <1>0, <1>e, <2>1, <2>2 DEF Refusal
  <2>3. CASE /\ Succeed(q)
             /\ \/ UNCHANGED outbox
                \/ \E r \in op[q].todo : outbox' = outbox \cup {<<r, op[q].want[r]>>}
    <3> DEFINE h == [Fresh EXCEPT !.pc = "done", !.reply = "ok",
                                  !.todo = op[q].todo, !.want = op[q].want]
    <3>1. h.pc = "done" /\ h.reply = "ok" /\ h.todo = op[q].todo /\ h.want = op[q].want
      BY DEF Fresh
    <3>2. op'[q] = h /\ \A p \in Req \ {q} : op'[p] = op[p]
      BY <1>0, <1>h, <2>3 DEF Succeed
    <3>3. Announces(q)
      BY <2>1, <2>3, <3>1, <3>2 DEF Announces
    <3>4. QED
      BY <3>2, <3>3 DEF Acts
  <2>4. QED
    BY <1>14, <2>2, <2>3 DEF Publish
<1>15. ASSUME NEW q \in Req, Cancel(q) \/ Fail(q) PROVE Acts(q)
  BY <1>15, <1>e DEF Cancel, Fail, Refusal
<1>16. QED
  BY <1>0, <1>1, <1>2, <1>3, <1>4, <1>5, <1>6, <1>7, <1>8, <1>9, <1>10, <1>11, <1>12, <1>13,
     <1>14, <1>15 DEF Next, PushStep, RestStep
----------------------------------------------------------------------------
(* The invariant, one kind of step at a time.                              *)

LEMMA ConnectedStep ==
  TypeOK /\ RefsConnected /\ (UNCHANGED vars \/ \E q \in Req : Acts(q)) => RefsConnected'
<1> SUFFICES ASSUME TypeOK, RefsConnected, UNCHANGED vars \/ \E q \in Req : Acts(q)
             PROVE  RefsConnected'
  OBVIOUS
<1>1. CASE UNCHANGED refs /\ odb \subseteq odb'
  BY <1>1 DEF RefsConnected
<1>2. ASSUME NEW q \in Req, NEW r \in Ref, NEW v, RefChange(q, r, v), odb' = odb,
             Reach({v}) \subseteq odb
      PROVE  RefsConnected'
  BY <1>2 DEF RefsConnected, RefChange, TypeOK
<1>3. ASSUME NEW q \in Req, Lands(q) PROVE RefsConnected'
  <2>1. PICK r \in Ref : /\ Extends(refs[r], op[q].want[r], odb)
                         /\ RefChange(q, r, op[q].want[r])
    BY <1>3 DEF Lands
  <2>2. Reach({op[q].want[r]}) \subseteq odb
    BY <2>1 DEF Extends, RefsConnected
  <2>3. QED
    BY <1>2, <1>3, <2>1, <2>2 DEF Lands
<1>4. ASSUME NEW q \in Req, Pushes(q) PROVE RefsConnected'
  BY <1>1, <1>2, <1>4 DEF Pushes
<1>5. QED
  BY <1>1, <1>3, <1>4 DEF Acts, Prepares, Stops, Announces, vars

LEMMA NeverRewindsStep ==
  RestNeverRewinds /\ (UNCHANGED vars \/ \E q \in Req : Acts(q)) => RestNeverRewinds'
<1> SUFFICES ASSUME RestNeverRewinds, UNCHANGED vars \/ \E q \in Req : Acts(q)
             PROVE  RestNeverRewinds'
  OBVIOUS
<1>1. CASE UNCHANGED moves
  BY <1>1 DEF RestNeverRewinds
<1>2. ASSUME NEW q \in Pushers, NEW r, NEW v, RefChange(q, r, v)
      PROVE  RestNeverRewinds'
  <2>1. q \notin Rest
    BY RequestsAssumption
  <2>2. QED
    BY <1>2, <2>1 DEF RestNeverRewinds, RefChange
<1>3. ASSUME NEW q \in Req, Lands(q) PROVE RestNeverRewinds'
  BY <1>3 DEF Lands, Extends, RestNeverRewinds, RefChange, IsAncestor
<1>4. QED
  BY <1>1, <1>2, <1>3 DEF Acts, Prepares, Pushes, Stops, Announces, vars

LEMMA QuietStep ==
  QuietMovedNothing /\ (UNCHANGED vars \/ \E q \in Req : Acts(q)) => QuietMovedNothing'
<1> SUFFICES ASSUME QuietMovedNothing, NEW q \in Req, Acts(q)
             PROVE  QuietMovedNothing'
  BY DEF QuietMovedNothing, Quiet, vars
<1>1. \A p \in Req \ {q} : Quiet(p)' = Quiet(p)
  BY DEF Acts, Quiet
<1>2. UNCHANGED moves \/ \E r, v : RefChange(q, r, v)
  BY DEF Acts, Prepares, Pushes, Stops, Lands, Announces
<1>3. \A m \in moves' : m \in moves \/ m.by = q
  BY <1>2 DEF RefChange
<1>4. Quiet(q)' => Quiet(q) /\ UNCHANGED moves
  <2>1. ASSUME Announces(q) PROVE ~Quiet(q)'
    BY <2>1, RequestsAssumption DEF Announces, Quiet, Refusal
  <2>2. ASSUME Lands(q) PROVE ~Quiet(q)'
    BY <2>2, RequestsAssumption DEF Lands, Quiet, Refusal
  <2>3. QED
    BY <2>1, <2>2 DEF Acts, Prepares, Pushes, Stops
<1>5. QED
  BY <1>1, <1>3, <1>4 DEF QuietMovedNothing

(* What was acknowledged is acknowledged still, or lands in this step.     *)
LEMMA AckedStep ==
  TypeOK /\ AckedCommitsKept /\ RestNeverRewinds' /\ (UNCHANGED vars \/ \E q \in Req : Acts(q))
    => AckedCommitsKept'
<1> DEFINE Acked(p) == op[p].pc = "publish" \/ op[p].reply = "ok"
<1>0. ASSUME UNCHANGED vars, AckedCommitsKept PROVE AckedCommitsKept'
  BY <1>0 DEF vars, AckedCommitsKept, Rewound
<1> SUFFICES ASSUME TypeOK, AckedCommitsKept, RestNeverRewinds', NEW q \in Req, Acts(q),
                    NEW p \in Rest, Acked(p)', NEW r \in op'[p].todo, r \notin Rewound'
             PROVE  IsAncestor(op'[p].want[r], refs'[r])
  BY <1>0 DEF AckedCommitsKept
<1>1. p \in Req
  BY DEF Req
<1>2. moves \subseteq moves'
  BY DEF Acts, Prepares, Pushes, Stops, Lands, Announces, RefChange
<1>3. r \notin Rewound
  BY <1>2 DEF Rewound
<1>4. CASE Acked(p) /\ op'[p].todo = op[p].todo /\ op'[p].want = op[p].want
  <2>1. r \in Ref /\ refs[r] \in Tip
    BY <1>1, <1>4 DEF TypeOK, Handler
  <2>2. op[p].want[r] \in Reach({refs[r]})
    BY <1>3, <1>4 DEF AckedCommitsKept, IsAncestor
  <2>3. refs[r] # None
    BY <2>2, ReachNone
  <2>4. ASSUME NEW s \in Ref, NEW v, RefChange(q, s, v)
        PROVE  op[p].want[r] \in Reach({refs'[r]})
    <3>1. CASE s # r
      BY <2>1, <2>2, <2>4, <3>1 DEF RefChange, TypeOK
    <3>2. CASE s = r
      <4> DEFINE m == [by |-> q, ref |-> s, old |-> refs[s], new |-> v]
      <4>1. m \in moves' /\ refs'[r] = v
        BY <2>1, <2>4, <3>2 DEF RefChange, TypeOK
      <4>2. m.by = q /\ m.ref = r /\ m.old = refs[r] /\ m.new = v
        BY <3>2
      <4>3. IsAncestor(refs[r], v)
        <5>1. CASE q \in Rest
          BY <2>3, <4>1, <4>2, <5>1 DEF RestNeverRewinds
        <5>2. CASE q \in Pushers
          BY <2>3, <4>1, <4>2, <5>2 DEF Rewound
        <5>3. QED
          BY <5>1, <5>2 DEF Req
      <4>4. QED
        BY <2>2, <4>1, <4>3, ReachTrans DEF IsAncestor
    <3>3. QED
      BY <3>1, <3>2
  <2>5. UNCHANGED refs \/ \E s \in Ref : \E v : RefChange(q, s, v)
    BY DEF Acts, Prepares, Pushes, Stops, Lands, Announces
  <2>6. QED
    BY <1>4, <2>2, <2>4, <2>5 DEF IsAncestor
<1>5. CASE p = q /\ Lands(q)
  <2>1. PICK s \in Ref : /\ op[q].todo = {s} /\ op[q].want[s] \in Commit
                         /\ RefChange(q, s, op[q].want[s])
    BY <1>5 DEF Lands
  <2>2. r = s /\ op'[q].want = op[q].want
    BY <1>5, <2>1 DEF Lands
  <2>3. refs'[r] = op[q].want[r]
    BY <2>1, <2>2 DEF RefChange, TypeOK
  <2>4. QED
    BY <1>5, <2>1, <2>2, <2>3, ReachTips DEF IsAncestor
<1>6. p # q => Acked(p) /\ op'[p].todo = op[p].todo /\ op'[p].want = op[p].want
  BY <1>1 DEF Acts
<1>7. p = q => Lands(q) \/ (Acked(p) /\ op'[p].todo = op[p].todo /\ op'[p].want = op[p].want)
  BY RequestsAssumption DEF Acts, Prepares, Pushes, Stops, Announces
<1>8. QED
  BY <1>4, <1>5, <1>6, <1>7

LEMMA LandedStep ==
  Landed /\ (UNCHANGED vars \/ \E q \in Req : Acts(q)) => Landed'
<1>0. ASSUME UNCHANGED vars, Landed PROVE Landed'
  BY <1>0 DEF vars, Landed
<1> SUFFICES ASSUME Landed, NEW q \in Req, Acts(q),
                    NEW p \in Rest, op'[p].pc = "publish", NEW r \in op'[p].todo
             PROVE  \E m \in moves' : m.ref = r /\ m.new = op'[p].want[r]
  BY <1>0 DEF Landed
<1>1. p \in Req
  BY DEF Req
<1>2. moves \subseteq moves'
  BY DEF Acts, Prepares, Pushes, Stops, Lands, Announces, RefChange
<1>3. CASE p # q
  BY <1>1, <1>2, <1>3 DEF Acts, Landed
<1>4. CASE p = q
  <2>1. Lands(q)
    BY <1>4, RequestsAssumption DEF Acts, Prepares, Pushes, Stops, Announces
  <2>2. op[q].todo = {r} /\ op'[q].want = op[q].want /\ RefChange(q, r, op[q].want[r])
    BY <1>4, <2>1 DEF Lands
  <2> DEFINE m == [by |-> q, ref |-> r, old |-> refs[r], new |-> op[q].want[r]]
  <2>3. m \in moves' /\ m.ref = r /\ m.new = op[q].want[r]
    BY <2>2 DEF RefChange
  <2>4. QED
    BY <1>4, <2>2, <2>3
<1>5. QED
  BY <1>3, <1>4

LEMMA EventsStep ==
  EventsAreTrue /\ Landed /\ (UNCHANGED vars \/ \E q \in Req : Acts(q)) => EventsAreTrue'
<1>0. ASSUME UNCHANGED vars, EventsAreTrue PROVE EventsAreTrue'
  BY <1>0 DEF vars, EventsAreTrue
<1> SUFFICES ASSUME EventsAreTrue, Landed, NEW q \in Req, Acts(q) PROVE EventsAreTrue'
  BY <1>0
<1>1. moves \subseteq moves'
  BY DEF Acts, Prepares, Pushes, Stops, Lands, Announces, RefChange
<1>2. CASE UNCHANGED outbox
  BY <1>1, <1>2 DEF EventsAreTrue
<1>3. ASSUME NEW r \in op[q].todo, Announces(q), outbox' = outbox \cup {<<r, op[q].want[r]>>}
      PROVE  EventsAreTrue'
  BY <1>1, <1>3 DEF EventsAreTrue, Announces, Landed
<1>4. QED
  BY <1>2, <1>3 DEF Acts, Prepares, Pushes, Stops, Lands, Announces

(* IInv holds initially and every step keeps it.                           *)
LEMMA InitIInv == Init => IInv
<1> SUFFICES ASSUME Init PROVE IInv
  OBVIOUS
<1>1. /\ \A q \in Req : op[q] = Fresh
      /\ Fresh.pc = "idle" /\ Fresh.todo = {} /\ Fresh.src = None /\ Fresh.reply = "none"
  BY DEF Init, Fresh
<1>2. TypeOK
  BY FreshType DEF Init, TypeOK, Tip
<1>3. RefsConnected
  BY ReachNone DEF Init, RefsConnected
<1>4. HandlersSound
  BY <1>1, ReachNone DEF HandlersSound, Sound
<1>5. AckedCommitsKept /\ Landed
  BY <1>1 DEF AckedCommitsKept, Landed, Rest, Req
<1>6. RestNeverRewinds /\ QuietMovedNothing /\ EventsAreTrue
  BY DEF Init, RestNeverRewinds, QuietMovedNothing, EventsAreTrue
<1>7. QED
  BY <1>2, <1>3, <1>4, <1>5, <1>6 DEF IInv

LEMMA StepIInv == IInv /\ [Next]_vars => IInv'
BY TypeStep, SoundStep, StepKinds, ConnectedStep, NeverRewindsStep, QuietStep, AckedStep,
   LandedStep, EventsStep DEF IInv

(* The inductive invariant of the write path: all that follows rests on it. *)
THEOREM Invariance == Spec => []IInv
BY InitIInv, StepIInv, PTL DEF Spec
(* Every step keeps the state of the handlers, the refs and the history    *)
(* within their types.                                                     *)
THEOREM TypeCorrect == Spec => []TypeOK
BY Invariance, PTL DEF IInv

(* No ref ever points at a commit with a missing ancestor, for every       *)
(* commit graph and any number of concurrent requests.                     *)
THEOREM ConnectedAlways == Spec => []RefsConnected
BY Invariance, PTL DEF IInv

(* A commit that was acknowledged stays reachable from its branch unless a *)
(* push rewinds the branch.                                                *)
THEOREM AckedAlwaysKept == Spec => []AckedCommitsKept
BY Invariance, PTL DEF IInv

(* REST commits and merges never drop a commit from a branch.              *)
THEOREM RestOnlyExtends == Spec => []RestNeverRewinds
BY Invariance, PTL DEF IInv

(* Every event that was enqueued is about a commit that did land.          *)
THEOREM EventsAlwaysTrue == Spec => []EventsAreTrue
BY Invariance, PTL DEF IInv

(* A refused request has changed no ref.                                   *)
THEOREM RefusedAreHarmless == Spec => []RefusedHadNoEffect
<1>1. IInv => RefusedHadNoEffect
  BY DEF IInv, QuietMovedNothing, RefusedHadNoEffect, Quiet, Refusal
<1>2. QED
  BY <1>1, Invariance, PTL

----------------------------------------------------------------------------
(* The write path implements AtomicRepo.                                   *)

LEMMA SameReach == ASSUME NEW T PROVE Repo!Reach(T) = Reach(T)
BY DEF Repo!Reach, Reach, Repo!Closed, Closed

LEMMA InitRefines == Init => Repo!AInit
BY DEF Init, Repo!AInit, Applied

LEMMA StepRefines == IInv /\ [Next]_vars => [Repo!ANext]_Repo!avars
<1> SUFFICES ASSUME IInv, [Next]_vars PROVE [Repo!ANext]_Repo!avars
  OBVIOUS
<1>0. CASE UNCHANGED vars
  BY <1>0 DEF vars, Repo!avars, Applied
<1>1. ASSUME UNCHANGED <<refs, moves>>, odb \subseteq odb', odb' \in SUBSET Commit
      PROVE  Repo!ANext
  BY <1>1 DEF Repo!ANext, Repo!Store, Applied
<1>2. ASSUME NEW q \in Pushers, NEW r \in Ref, NEW v \in Tip,
             Reach({v}) \subseteq odb, RefChange(q, r, v), odb' = odb
      PROVE  Repo!ANext
  <2>1. Applied' = Applied
    BY <1>2, RequestsAssumption DEF Applied, RefChange
  <2>2. Repo!PushRef(r, v)
    BY <1>2, <2>1, SameReach DEF Repo!PushRef, RefChange
  <2>3. QED
    BY <2>2 DEF Repo!ANext, Repo!Tip, Tip
<1>3. ASSUME NEW q \in Req, Lands(q) PROVE Repo!ANext
  <2>1. PICK r \in Ref : /\ op[q].want[r] \in Commit
                         /\ Extends(refs[r], op[q].want[r], odb)
                         /\ RefChange(q, r, op[q].want[r])
    BY <1>3 DEF Lands
  <2> DEFINE v == op[q].want[r]
  <2>2. q \in Rest /\ \A m \in moves : m.by # q
    BY <1>3 DEF Lands, IInv, QuietMovedNothing
  <2>3. q \notin Applied
    BY <2>2 DEF Applied
  <2>4. Applied' = Applied \cup {q}
    <3> DEFINE m == [by |-> q, ref |-> r, old |-> refs[r], new |-> v]
    <3>1. moves' = moves \cup {m} /\ m.by = q
      BY <2>1 DEF RefChange
    <3>2. QED
      BY <2>2, <3>1 DEF Applied
  <2>5. Repo!Reach({v}) \subseteq odb /\ (refs[r] = None \/ Repo!IsAncestor(refs[r], v))
    BY <2>1, SameReach DEF Extends, IInv, RefsConnected, Repo!IsAncestor
  <2>6. Repo!Advance(q, r, v)
    BY <1>3, <2>1, <2>3, <2>4, <2>5 DEF Repo!Advance, RefChange, Lands
  <2>7. QED
    BY <2>1, <2>2, <2>6 DEF Repo!ANext
<1>4. odb' \in SUBSET Commit
  BY TypeStep DEF IInv, TypeOK
<1>5. ASSUME NEW q \in Req, Acts(q) PROVE Repo!ANext
  <2>1. CASE Pushes(q)
    BY <1>1, <1>2, <1>4, <2>1 DEF Pushes
  <2>2. CASE Prepares(q) \/ Stops(q) \/ Announces(q)
    BY <1>1, <1>4, <2>2 DEF Prepares, Stops, Announces
  <2>3. QED
    BY <1>3, <1>5, <2>1, <2>2 DEF Acts
<1>6. QED
  BY <1>0, <1>5, StepKinds DEF IInv

(* Concurrent pushes, commits and merges behave as a repository in which   *)
(* every request takes effect at most once, at one instant, and no REST    *)
(* request loses a commit of the branch it writes.                         *)
THEOREM Refinement == Spec => AtomicRepoSpec
BY InitRefines, StepRefines, Invariance, PTL DEF Spec, AtomicRepoSpec, Repo!ASpec
=============================================================================
