---------------------------- MODULE StorageProofs ----------------------------
(***************************************************************************)
(* What is not lost from disk: the objects that garbage collection never   *)
(* takes, and the forks that a delete never breaks, for every commit graph *)
(* and every number of repositories and requests.                          *)
(***************************************************************************)
EXTENDS GcSweep, ForkNetwork, CommitGraphProofs, FiniteSetTheorems, TLAPS

-----------------------------------------------------------------------------
(* The inductive invariant of GcSweep.                                     *)

\* A push, a fork or a pass that has begun knows its repositories.
Named ==
  /\ \A q \in Pushers : push[q].pc \in {"unpack", "check", "land"} => push[q].repo \in Repo
  /\ \A q \in Forkers : fork[q].pc \in {"read", "write"} => fork[q].from \in Repo /\ fork[q].to \in Repo
  /\ \A p \in Passes : pass[p].pc \in {"list", "walk", "delete"} => pass[p].repo \in Repo

\* What a pass has learnt of the objects that stay reachable: a member that
\* has been walked has been met, and what is left for deletion is not among
\* them.
StableMet ==
  \A p \in Passes :
    /\ \A m \in Repo : pass[p].stable[m] \subseteq Reach(heads[m])
    /\ \A m \in Repo \ pass[p].net : pass[p].stable[m] = {}
    /\ pass[p].pc = "list" => pass[p].walk = pass[p].net
    /\ pass[p].pc = "walk" => \A m \in Repo \ pass[p].walk : pass[p].stable[m] \subseteq pass[p].reach
    /\ pass[p].pc = "delete" => \A m \in Repo : pass[p].stable[m] \cap pass[p].listed = {}

\* An object that a push has made is young in its repository as long as the
\* push runs, and on no list.
MadeUnlisted ==
  \A q \in Pushers : push[q].pc \in {"check", "land"} =>
    \A c \in push[q].made :
      /\ c \in push[q].pack
      /\ file[push[q].repo][c] = "young"
      /\ \A p \in Passes : pass[p].repo = push[q].repo => c \notin pass[p].listed

IInv == TypeOK /\ Named /\ StableMet /\ MadeUnlisted

-----------------------------------------------------------------------------
(* One step of a push, of a fork and of a pass.                            *)

USE ParentsAssumption, NoneAssumption, FaultsAssumption, ActorsAssumption

LEMMA PushType ==
  ASSUME TypeOK, NEW q \in Pushers
  PROVE  /\ push[q] \in PushState
         /\ push[q].pc \in {"idle", "unpack", "check", "land", "done"} /\ push[q].repo \in Repo \cup {None}
         /\ push[q].old \in Tip /\ push[q].new \in Tip
         /\ push[q].pack \in SUBSET Commit /\ push[q].made \in SUBSET Commit
  BY DEF TypeOK, PushState

LEMMA ForkType ==
  ASSUME TypeOK, NEW q \in Forkers
  PROVE  /\ fork[q] \in ForkState
         /\ fork[q].pc \in {"idle", "read", "write", "done"}
         /\ fork[q].from \in Repo \cup {None} /\ fork[q].to \in Repo \cup {None}
         /\ fork[q].snap \in SUBSET Commit
  BY DEF TypeOK, ForkState

LEMMA PassType ==
  ASSUME TypeOK, NEW p \in Passes
  PROVE  /\ pass[p] \in PassState
         /\ pass[p].pc \in {"idle", "list", "walk", "delete", "done"} /\ pass[p].repo \in Repo \cup {None}
         /\ pass[p].net \in SUBSET Repo /\ pass[p].walk \in SUBSET Repo
         /\ pass[p].listed \in SUBSET Commit /\ pass[p].reach \in SUBSET Commit
         /\ pass[p].stable \in [Repo -> SUBSET Commit]
  BY DEF TypeOK, PassState

\* A push becomes x; the others stay.
LEMMA PushUpdate ==
  ASSUME TypeOK, NEW q \in Pushers, NEW x \in PushState, push' = [push EXCEPT ![q] = x]
  PROVE  /\ push' \in [Pushers -> PushState]
         /\ push'[q] = x
         /\ \A s \in Pushers \ {q} : push'[s] = push[s]
  BY DEF TypeOK

LEMMA ForkUpdate ==
  ASSUME TypeOK, NEW q \in Forkers, NEW x \in ForkState, fork' = [fork EXCEPT ![q] = x]
  PROVE  /\ fork' \in [Forkers -> ForkState]
         /\ fork'[q] = x
         /\ \A s \in Forkers \ {q} : fork'[s] = fork[s]
  BY DEF TypeOK

LEMMA PassUpdate ==
  ASSUME TypeOK, NEW p \in Passes, NEW x \in PassState, pass' = [pass EXCEPT ![p] = x]
  PROVE  /\ pass' \in [Passes -> PassState]
         /\ pass'[p] = x
         /\ \A s \in Passes \ {p} : pass'[s] = pass[s]
  BY DEF TypeOK

\* A push that has ended.
LEMMA PushOver ==
  LET x == [NoPush EXCEPT !.pc = "done"]
  IN  x \in PushState /\ x.pc = "done"
  BY DEF NoPush, PushState, Tip

\* A fork that has ended.
LEMMA ForkOver ==
  LET x == [NoFork EXCEPT !.pc = "done"]
  IN  x \in ForkState /\ x.pc = "done"
  BY DEF NoFork, ForkState

\* A pass at rest holds on to nothing.
LEMMA RestType ==
  ASSUME NEW p
  PROVE  /\ Rest(p) \in PassState
         /\ Rest(p).pc \in {"idle", "done"} /\ Rest(p).listed = {}
         /\ \A m \in Repo : Rest(p).stable[m] = {}
<1>1. [r \in Repo |-> {}] \in [Repo -> SUBSET Commit]
  OBVIOUS
<1>2. NoPass \in PassState /\ NoPass.pc = "idle" /\ NoPass.listed = {} /\ NoPass.stable = [r \in Repo |-> {}]
  BY <1>1 DEF NoPass, PassState
<1> DEFINE x == [NoPass EXCEPT !.pc = "done"]
<1>3. x \in PassState /\ x.pc = "done" /\ x.listed = {} /\ x.stable = [r \in Repo |-> {}]
  BY <1>1 DEF NoPass, PassState
<1>4. Rest(p) = NoPass \/ Rest(p) = x
  BY DEF Rest
<1> HIDE DEF x
<1>5. QED
  BY <1>2, <1>3, <1>4

LEMMA StartPushStep ==
  ASSUME TypeOK, NEW q \in Pushers, StartPush(q)
  PROVE  /\ push' \in [Pushers -> PushState]
         /\ \A s \in Pushers \ {q} : push'[s] = push[s]
         /\ push'[q].repo \in Repo /\ push'[q].made = {}
<1>1. PICK r \in Repo, old \in Tip, new \in Tip :
        push' = [push EXCEPT ![q] =
                [NoPush EXCEPT !.pc = IF new = None THEN "land" ELSE "unpack", !.repo = r,
                               !.old = old, !.new = new, !.pack = Reach({new}) \ Reach(heads[r])]]
  BY DEF StartPush
<1> DEFINE x == [NoPush EXCEPT !.pc = IF new = None THEN "land" ELSE "unpack", !.repo = r,
                               !.old = old, !.new = new, !.pack = Reach({new}) \ Reach(heads[r])]
<1>2. Reach({new}) \ Reach(heads[r]) \in SUBSET Commit
  BY ReachClosed
<1>3. x \in PushState /\ x.repo = r /\ x.made = {}
  BY <1>2 DEF NoPush, PushState
<1> HIDE DEF x
<1>4. push' = [push EXCEPT ![q] = x]
  BY <1>1 DEF x
<1>5. QED
  BY <1>3, <1>4, PushUpdate

LEMMA UnpackStep ==
  ASSUME TypeOK, Named, NEW q \in Pushers, Unpack(q)
  PROVE  /\ push' \in [Pushers -> PushState] /\ file' \in [Repo -> [Commit -> Age]]
         /\ \A s \in Pushers \ {q} : push'[s] = push[s]
         /\ push'[q].repo = push[q].repo /\ push'[q].pack = push[q].pack
         /\ push[q].repo \in Repo
         /\ \A c \in push'[q].made : /\ c \in push[q].pack /\ file'[push[q].repo][c] = "young"
                                      /\ \A p \in Passes : c \notin pass[p].listed
         /\ \A r \in Repo, c \in Commit : file'[r][c] \in {file[r][c], "young"}
<1> DEFINE made == {c \in push[q].pack : /\ Holder(push[q].repo, c) = {}
                                         /\ \A p \in Passes : c \notin pass[p].listed}
           x == [push[q] EXCEPT !.pc = "check", !.made = made]
<1>1. push[q].repo \in Repo /\ push[q].pack \in SUBSET Commit
  BY PushType DEF Unpack, Named
<1>2. x \in PushState /\ x.repo = push[q].repo /\ x.pack = push[q].pack /\ x.made = made
  BY PushType DEF PushState
<1>3. push' = [push EXCEPT ![q] = x]
  BY DEF Unpack
<1>4. file' = Written(push[q].repo, push[q].pack)
  BY DEF Unpack
<1>5. \A r \in Repo, c \in Commit : file'[r][c] \in {file[r][c], "young"}
  BY <1>4 DEF Written
<1>6. file' \in [Repo -> [Commit -> Age]]
  BY <1>4 DEF Written, TypeOK, Age
<1>7. \A c \in made : file'[push[q].repo][c] = "young"
  BY <1>1, <1>4 DEF Written
<1> HIDE DEF x
<1>8. QED
  BY <1>1, <1>2, <1>3, <1>5, <1>6, <1>7, PushUpdate

LEMMA CheckStep ==
  ASSUME TypeOK, NEW q \in Pushers, CheckConnected(q)
  PROVE  /\ push' \in [Pushers -> PushState]
         /\ \A s \in Pushers \ {q} : push'[s] = push[s]
         /\ push[q].pc = "check"
         /\ \/ push'[q].pc = "done"
            \/ /\ push'[q].pc = "land" /\ push'[q].repo = push[q].repo
               /\ push'[q].pack = push[q].pack /\ push'[q].made = push[q].made
<1> DEFINE x == [push[q] EXCEPT !.pc = "land"]
           y == [NoPush EXCEPT !.pc = "done"]
<1>1. /\ x \in PushState /\ x.pc = "land" /\ x.repo = push[q].repo
      /\ x.pack = push[q].pack /\ x.made = push[q].made
  BY PushType DEF PushState
<1>2. y \in PushState /\ y.pc = "done"
  BY PushOver
<1>3. push' = [push EXCEPT ![q] = x] \/ push' = [push EXCEPT ![q] = y]
  BY DEF CheckConnected, TypeOK
<1>4. push[q].pc = "check"
  BY DEF CheckConnected
<1> HIDE DEF x, y
<1>5. QED
  BY <1>1, <1>2, <1>3, <1>4, PushUpdate

\* A push ends.
LEMMA LandStep ==
  ASSUME TypeOK, NEW q \in Pushers, push' = [push EXCEPT ![q] = [NoPush EXCEPT !.pc = "done"]]
  PROVE  /\ push' \in [Pushers -> PushState]
         /\ \A s \in Pushers \ {q} : push'[s] = push[s]
         /\ push'[q].pc = "done"
  BY PushOver, PushUpdate

\* The refs move: what was stable and is still reached stays so.
LEMMA SetHeadsStep ==
  ASSUME TypeOK, NEW h \in [Repo -> SUBSET Commit], SetHeads(h)
  PROVE  /\ heads' = h
         /\ pass' \in [Passes -> PassState]
         /\ \A p \in Passes :
              /\ pass'[p].pc = pass[p].pc /\ pass'[p].repo = pass[p].repo /\ pass'[p].net = pass[p].net
              /\ pass'[p].walk = pass[p].walk /\ pass'[p].listed = pass[p].listed
              /\ pass'[p].reach = pass[p].reach
              /\ \A m \in Repo : pass'[p].stable[m] = pass[p].stable[m] \cap Reach(h[m])
<1>1. ASSUME NEW p \in Passes
      PROVE  /\ pass'[p] \in PassState
             /\ pass'[p].pc = pass[p].pc /\ pass'[p].repo = pass[p].repo /\ pass'[p].net = pass[p].net
             /\ pass'[p].walk = pass[p].walk /\ pass'[p].listed = pass[p].listed
             /\ pass'[p].reach = pass[p].reach
             /\ \A m \in Repo : pass'[p].stable[m] = pass[p].stable[m] \cap Reach(h[m])
  <2> DEFINE st == [r \in Repo |-> pass[p].stable[r] \cap Reach(h[r])]
  <2>1. st \in [Repo -> SUBSET Commit]
    BY PassType
  <2>2. \A m \in Repo : st[m] = pass[p].stable[m] \cap Reach(h[m])
    OBVIOUS
  <2>3. pass'[p] = [pass[p] EXCEPT !.stable = st]
    BY PassType DEF SetHeads, PassState
  <2> HIDE DEF st
  <2>4. /\ pass'[p] \in PassState
        /\ pass'[p].pc = pass[p].pc /\ pass'[p].repo = pass[p].repo /\ pass'[p].net = pass[p].net
        /\ pass'[p].walk = pass[p].walk /\ pass'[p].listed = pass[p].listed
        /\ pass'[p].reach = pass[p].reach /\ pass'[p].stable = st
    BY <2>1, <2>3, PassType DEF PassState
  <2>5. QED
    BY <2>2, <2>4
<1>2. pass' \in [Passes -> PassState]
  BY <1>1 DEF SetHeads
<1>3. QED
  BY <1>1, <1>2 DEF SetHeads

\* The refs a push or a fork sets are sets of commits.
LEMMA NewHeads ==
  ASSUME TypeOK, NEW r, NEW S \in SUBSET Commit
  PROVE  [heads EXCEPT ![r] = S] \in [Repo -> SUBSET Commit]
  BY DEF TypeOK

\* A pass begins with the network of its repository, or not at all.
LEMMA PreviewStep ==
  ASSUME TypeOK, NEW p \in Passes, NEW r \in Repo, Preview(p, r)
  PROVE  /\ pass' \in [Passes -> PassState]
         /\ \A s \in Passes \ {p} : pass'[s] = pass[s]
         /\ \/ pass'[p] = Rest(p)
            \/ /\ pass'[p].pc = "list" /\ pass'[p].repo = r /\ pass'[p].walk = pass'[p].net
               /\ pass'[p].listed = {}
               /\ \A m \in Repo : pass'[p].stable[m] \subseteq Reach(heads[m])
               /\ \A m \in Repo \ pass'[p].net : pass'[p].stable[m] = {}
<1> DEFINE net == Network(r)
           st == ReachedBy(net)
           x == [NoPass EXCEPT !.pc = "list", !.repo = r, !.net = net, !.walk = net, !.stable = st]
<1>1. net \in SUBSET Repo
  BY DEF Network
<1> HIDE DEF net
<1>2. /\ st \in [Repo -> SUBSET Commit]
      /\ \A m \in Repo : st[m] \subseteq Reach(heads[m])
      /\ \A m \in Repo \ net : st[m] = {}
  BY ReachClosed DEF ReachedBy
<1> HIDE DEF st
<1>3. /\ x \in PassState /\ x.pc = "list" /\ x.repo = r /\ x.walk = net /\ x.net = net
      /\ x.listed = {} /\ x.stable = st
  BY <1>1, <1>2 DEF NoPass, PassState
<1>4. pass' = [pass EXCEPT ![p] = x] \/ pass' = [pass EXCEPT ![p] = Rest(p)]
  BY DEF Preview, EndPass, st, net
<1> HIDE DEF x
<1>5. QED
  BY <1>2, <1>3, <1>4, RestType, PassUpdate

LEMMA ListLooseStep ==
  ASSUME TypeOK, NEW p \in Passes, ListLoose(p)
  PROVE  /\ pass' \in [Passes -> PassState]
         /\ \A s \in Passes \ {p} : pass'[s] = pass[s]
         /\ pass[p].pc = "list" /\ pass'[p].pc = "walk" /\ pass'[p].repo = pass[p].repo
         /\ pass'[p].net = pass[p].net /\ pass'[p].walk = pass[p].walk /\ pass'[p].stable = pass[p].stable
         /\ \A c \in pass'[p].listed : file[pass[p].repo][c] = "old"
<1> DEFINE old == {c \in Commit : file[pass[p].repo][c] = "old"}
           x == [pass[p] EXCEPT !.pc = "walk", !.listed = old]
<1>1. /\ x \in PassState /\ x.pc = "walk" /\ x.repo = pass[p].repo /\ x.listed = old
      /\ x.net = pass[p].net /\ x.walk = pass[p].walk /\ x.stable = pass[p].stable
  BY PassType DEF PassState
<1>2. pass' = [pass EXCEPT ![p] = x] /\ pass[p].pc = "list"
  BY DEF ListLoose
<1> HIDE DEF x
<1>3. QED
  BY <1>1, <1>2, PassUpdate

\* The walk of a member m, the last one or not.
LEMMA WalkStep ==
  ASSUME TypeOK, NEW p \in Passes, Walk(p)
  PROVE  /\ pass' \in [Passes -> PassState]
         /\ \A s \in Passes \ {p} : pass'[s] = pass[s]
         /\ pass[p].pc = "walk"
         /\ \/ pass'[p] = Rest(p)
            \/ /\ pass'[p].repo = pass[p].repo /\ pass'[p].net = pass[p].net
               /\ pass'[p].stable = pass[p].stable /\ pass'[p].listed \subseteq pass[p].listed
               /\ \E m \in pass[p].walk :
                    \/ /\ pass'[p].pc = "walk" /\ pass'[p].walk = pass[p].walk \ {m}
                       /\ pass'[p].reach = pass[p].reach \cup Reach(heads[m])
                    \/ /\ pass'[p].pc = "delete" /\ pass[p].walk = {m}
                       /\ pass'[p].listed = pass[p].listed \ (pass[p].reach \cup Reach(heads[m]))
<1>1. PICK m \in pass[p].walk :
          LET met == pass[p].reach \cup Reach(heads[m])
          IN IF ~Readable(m)
             THEN EndPass(p)
             ELSE IF pass[p].walk # {m}
             THEN Continue(p, [pass[p] EXCEPT !.walk = @ \ {m}, !.reach = met])
             ELSE Continue(p, [pass[p] EXCEPT !.pc = "delete", !.walk = {}, !.reach = {},
                                              !.listed = @ \ met])
  BY DEF Walk
<1> DEFINE met == pass[p].reach \cup Reach(heads[m])
           x == [pass[p] EXCEPT !.walk = pass[p].walk \ {m}, !.reach = met]
           y == [pass[p] EXCEPT !.pc = "delete", !.walk = {}, !.reach = {}, !.listed = pass[p].listed \ met]
<1>2. met \in SUBSET Commit
  BY ReachClosed, PassType
<1>3. pass[p].pc = "walk"
  BY DEF Walk
<1> HIDE DEF met
<1>4. /\ x \in PassState /\ x.pc = "walk" /\ x.repo = pass[p].repo /\ x.net = pass[p].net
      /\ x.stable = pass[p].stable /\ x.listed = pass[p].listed
      /\ x.walk = pass[p].walk \ {m} /\ x.reach = met
  BY <1>2, <1>3, PassType DEF PassState
<1>5. /\ y \in PassState /\ y.pc = "delete" /\ y.repo = pass[p].repo /\ y.net = pass[p].net
      /\ y.stable = pass[p].stable /\ y.listed = pass[p].listed \ met
  BY <1>2, PassType DEF PassState
<1>6. \/ pass' = [pass EXCEPT ![p] = Rest(p)]
      \/ pass' = [pass EXCEPT ![p] = x]
      \/ pass' = [pass EXCEPT ![p] = y] /\ pass[p].walk = {m}
  <2>1. CASE EndPass(p)
    BY <2>1 DEF EndPass
  <2>2. CASE Continue(p, x)
    BY <2>2 DEF Continue
  <2>3. CASE Continue(p, y) /\ pass[p].walk = {m}
    BY <2>3 DEF Continue
  <2>4. QED
    BY <1>1, <2>1, <2>2, <2>3 DEF met
<1> HIDE DEF x, y
<1>7. CASE pass' = [pass EXCEPT ![p] = Rest(p)]
  BY <1>3, <1>7, RestType, PassUpdate
<1>8. CASE pass' = [pass EXCEPT ![p] = x]
  BY <1>3, <1>4, <1>8, PassUpdate DEF met
<1>9. CASE pass' = [pass EXCEPT ![p] = y] /\ pass[p].walk = {m}
  BY <1>3, <1>5, <1>9, PassUpdate DEF met
<1>10. QED
  BY <1>6, <1>7, <1>8, <1>9

LEMMA DeleteLooseStep ==
  ASSUME TypeOK, Named, NEW p \in Passes, DeleteLoose(p)
  PROVE  /\ pass' \in [Passes -> PassState] /\ file' \in [Repo -> [Commit -> Age]]
         /\ faults' \in 0 .. MaxFaults
         /\ \A s \in Passes \ {p} : pass'[s] = pass[s]
         /\ pass[p].pc = "delete"
         /\ \/ pass'[p] = Rest(p)
            \/ /\ pass'[p].pc = "delete" /\ pass'[p].repo = pass[p].repo /\ pass'[p].net = pass[p].net
               /\ pass'[p].stable = pass[p].stable /\ pass'[p].listed \subseteq pass[p].listed
         /\ \A r \in Repo, c \in Commit :
              \/ file'[r][c] = file[r][c]
              \/ r = pass[p].repo /\ c \in pass[p].listed
<1>1. PICK c \in pass[p].listed :
          /\ Continue(p, [pass[p] EXCEPT !.listed = @ \ {c}])
          /\ \/ /\ file' = [file EXCEPT ![pass[p].repo][c] = "none"]
                /\ UNCHANGED faults
             \/ /\ faults < MaxFaults
                /\ faults' = faults + 1
                /\ UNCHANGED file
  BY DEF DeleteLoose
<1> DEFINE x == [pass[p] EXCEPT !.listed = pass[p].listed \ {c}]
<1>2. pass[p].pc = "delete" /\ pass[p].repo \in Repo
  BY DEF DeleteLoose, Named
<1>3. /\ x \in PassState /\ x.pc = "delete" /\ x.repo = pass[p].repo /\ x.net = pass[p].net
      /\ x.stable = pass[p].stable /\ x.listed = pass[p].listed \ {c}
  BY <1>2, PassType DEF PassState
<1>4. pass' = [pass EXCEPT ![p] = Rest(p)] \/ pass' = [pass EXCEPT ![p] = x]
  BY <1>1 DEF Continue
<1>5. file' \in [Repo -> [Commit -> Age]] /\ faults' \in 0 .. MaxFaults
  <2> DEFINE g == [file[pass[p].repo] EXCEPT ![c] = "none"]
  <2>1. g \in [Commit -> Age]
    BY <1>2 DEF TypeOK, Age
  <2>2. file' = [file EXCEPT ![pass[p].repo] = g] \/ file' = file
    BY <1>1
  <2> HIDE DEF g
  <2>3. file' \in [Repo -> [Commit -> Age]]
    BY <2>1, <2>2 DEF TypeOK
  <2>4. faults' \in 0 .. MaxFaults
    BY <1>1 DEF TypeOK
  <2>5. QED
    BY <2>3, <2>4
<1>6. \A r \in Repo, d \in Commit :
        file'[r][d] = file[r][d] \/ (r = pass[p].repo /\ d \in pass[p].listed)
  BY <1>1, <1>2 DEF TypeOK
<1> HIDE DEF x
<1>7. QED
  BY <1>2, <1>3, <1>4, <1>5, <1>6, RestType, PassUpdate

\* After a crash nothing runs.
LEMMA CrashStep ==
  ASSUME TypeOK, Crash
  PROVE  /\ push' \in [Pushers -> PushState] /\ fork' \in [Forkers -> ForkState]
         /\ pass' \in [Passes -> PassState]
         /\ \A q \in Pushers : push'[q].pc \in {"idle", "done"}
         /\ \A q \in Forkers : fork'[q].pc \in {"idle", "done"}
         /\ \A p \in Passes : pass'[p] = Rest(p) \/ (pass[p].pc = "idle" /\ pass'[p] = pass[p])
<1> DEFINE x == [NoPush EXCEPT !.pc = "done"]
           y == [NoFork EXCEPT !.pc = "done"]
<1>1. x \in PushState /\ x.pc = "done" /\ y \in ForkState /\ y.pc = "done"
  BY PushOver, ForkOver
<1>2. /\ push' = [q \in Pushers |-> IF push[q].pc = "idle" THEN push[q] ELSE x]
      /\ fork' = [q \in Forkers |-> IF fork[q].pc = "idle" THEN fork[q] ELSE y]
      /\ pass' = [p \in Passes |-> IF pass[p].pc = "idle" THEN pass[p] ELSE Rest(p)]
  BY DEF Crash
<1> HIDE DEF x, y
<1>3. QED
  BY <1>1, <1>2, RestType, PushType, ForkType, PassType

\* One action of the collection, or of its surroundings.
LEMMA Steps ==
  ASSUME Next
  PROVE  \/ \E q \in Pushers : StartPush(q) \/ Unpack(q) \/ CheckConnected(q) \/ Land(q)
         \/ \E q \in Forkers : Link(q) \/ ReadRefs(q) \/ WriteRefs(q)
         \/ Tick \/ SweepRepo \/ Crash
         \/ \E p \in Passes : ListLoose(p) \/ Walk(p) \/ DeleteLoose(p) \/ AdminGcRun(p)
         \/ \E r \in Repo, c \in Commit : GrowOld(r, c)
  BY DEF Next, PushStep, ForkStep, SweepStep, PassStep, Passes

LEMMA TypeInit == Init => TypeOK
<1> SUFFICES ASSUME Init PROVE TypeOK
  OBVIOUS
<1>1. NoPush \in PushState
  BY DEF NoPush, PushState, Tip
<1>2. NoFork \in ForkState
  BY DEF NoFork, ForkState
<1>3. NoPass \in PassState
  <2>1. [r \in Repo |-> {}] \in [Repo -> SUBSET Commit]
    OBVIOUS
  <2>2. QED
    BY <2>1 DEF NoPass, PassState
<1>4. file \in [Repo -> [Commit -> Age]]
  BY DEF Init, Age
<1>5. QED
  BY <1>1, <1>2, <1>3, <1>4 DEF Init, TypeOK

\* What a push sets the refs to.
LEMMA LandHeads ==
  ASSUME TypeOK, Named, NEW q \in Pushers, Land(q)
  PROVE  \/ UNCHANGED <<heads, pass>>
         \/ \E h \in [Repo -> SUBSET Commit] : SetHeads(h)
<1> DEFINE r == push[q].repo
           S == (heads[r] \ {push[q].old}) \cup ({push[q].new} \ {None})
<1>1. r \in Repo /\ push[q].new \in Tip
  BY PushType DEF Land, Named
<1>2. S \in SUBSET Commit
  BY <1>1 DEF TypeOK, Tip
<1>3. [heads EXCEPT ![r] = S] \in [Repo -> SUBSET Commit]
  BY <1>2, NewHeads
<1>4. UNCHANGED <<heads, pass>> \/ SetHeads([heads EXCEPT ![r] = S])
  BY DEF Land
<1>5. QED
  BY <1>3, <1>4

LEMMA WriteRefsHeads ==
  ASSUME TypeOK, NEW q \in Forkers, WriteRefs(q)
  PROVE  \E h \in [Repo -> SUBSET Commit] : SetHeads(h)
  BY ForkType, NewHeads DEF WriteRefs

LEMMA LinkStep ==
  ASSUME TypeOK, Named, NEW q \in Forkers, Link(q) \/ ReadRefs(q) \/ WriteRefs(q)
  PROVE  /\ dir' \in [Repo -> {"absent", "linked", "headed", "whole"}] /\ src' \in [Repo -> Repo \cup {None}]
         /\ fork' \in [Forkers -> ForkState]
         /\ \A s \in Forkers \ {q} : fork'[s] = fork[s]
         /\ fork'[q].pc \in {"read", "write"} => fork'[q].from \in Repo /\ fork'[q].to \in Repo
<1>1. CASE Link(q)
  <2>1. PICK s \in Repo, f \in Repo :
          /\ dir' = [dir EXCEPT ![f] = "linked"]
          /\ src' = [src EXCEPT ![f] = s]
          /\ fork' = [fork EXCEPT ![q] = [NoFork EXCEPT !.pc = "read", !.from = s, !.to = f]]
    BY <1>1 DEF Link
  <2> DEFINE x == [NoFork EXCEPT !.pc = "read", !.from = s, !.to = f]
  <2>2. x \in ForkState /\ x.from = s /\ x.to = f
    BY DEF NoFork, ForkState
  <2>3. dir' \in [Repo -> {"absent", "linked", "headed", "whole"}] /\ src' \in [Repo -> Repo \cup {None}]
    BY <2>1 DEF TypeOK
  <2>4. fork' = [fork EXCEPT ![q] = x]
    BY <2>1
  <2> HIDE DEF x
  <2>5. QED
    BY <2>2, <2>3, <2>4, ForkUpdate
<1>2. CASE ReadRefs(q)
  <2> DEFINE x == [fork[q] EXCEPT !.pc = "write", !.snap = heads[fork[q].from]]
  <2>1. fork[q].from \in Repo /\ fork[q].to \in Repo
    BY <1>2 DEF ReadRefs, Named
  <2>2. x \in ForkState /\ x.from = fork[q].from /\ x.to = fork[q].to
    BY <2>1, ForkType DEF ForkState, TypeOK
  <2>3. fork' = [fork EXCEPT ![q] = x]
    BY <1>2 DEF ReadRefs
  <2>4. dir' \in [Repo -> {"absent", "linked", "headed", "whole"}] /\ src' \in [Repo -> Repo \cup {None}]
    BY <1>2 DEF ReadRefs, TypeOK
  <2> HIDE DEF x
  <2>5. QED
    BY <2>1, <2>2, <2>3, <2>4, ForkUpdate
<1>3. CASE WriteRefs(q)
  <2> DEFINE x == [NoFork EXCEPT !.pc = "done"]
  <2>1. x \in ForkState /\ x.pc = "done"
    BY ForkOver
  <2>2. fork' = [fork EXCEPT ![q] = x]
    BY <1>3 DEF WriteRefs
  <2>3. dir' \in [Repo -> {"absent", "linked", "headed", "whole"}] /\ src' \in [Repo -> Repo \cup {None}]
    BY <1>3 DEF WriteRefs, TypeOK
  <2> HIDE DEF x
  <2>4. QED
    BY <2>1, <2>2, <2>3, ForkUpdate
<1>4. QED
  BY <1>1, <1>2, <1>3

\* A pass that begins, by the sweep or by an admin.
LEMMA BeginStep ==
  ASSUME TypeOK, NEW p \in Passes, AdminGcRun(p) \/ (p = Sweeper /\ SweepRepo)
  PROVE  (\E r \in Repo : Preview(p, r)) /\ todo' \in SUBSET Repo
         /\ UNCHANGED <<dir, src, heads, file, push, fork, faults>>
  BY DEF AdminGcRun, SweepRepo, TypeOK

LEMMA TypeStep ==
  ASSUME TypeOK, Named, [Next]_vars
  PROVE  TypeOK'
<1> USE DEF TypeOK
<1>0. CASE UNCHANGED vars
  BY <1>0 DEF vars
<1>1. ASSUME NEW q \in Pushers, StartPush(q) PROVE TypeOK'
  BY <1>1, StartPushStep DEF StartPush
<1>2. ASSUME NEW q \in Pushers, Unpack(q) PROVE TypeOK'
  BY <1>2, UnpackStep DEF Unpack
<1>3. ASSUME NEW q \in Pushers, CheckConnected(q) PROVE TypeOK'
  BY <1>3, CheckStep DEF CheckConnected
<1>4. ASSUME NEW h \in [Repo -> SUBSET Commit], SetHeads(h)
      PROVE  heads' \in [Repo -> SUBSET Commit] /\ pass' \in [Passes -> PassState]
  BY <1>4, SetHeadsStep
<1>5. ASSUME NEW q \in Pushers, Land(q) PROVE TypeOK'
  <2>1. push' \in [Pushers -> PushState] /\ UNCHANGED <<dir, src, file, fork, todo, faults>>
    BY <1>5, LandStep DEF Land
  <2>2. QED
    BY <1>4, <1>5, <2>1, LandHeads
<1>6. ASSUME NEW q \in Forkers, Link(q) \/ ReadRefs(q) PROVE TypeOK'
  <2>1. UNCHANGED <<heads, file, push, pass, todo, faults>>
    BY <1>6 DEF Link, ReadRefs
  <2>2. QED
    BY <1>6, <2>1, LinkStep
<1>7. ASSUME NEW q \in Forkers, WriteRefs(q) PROVE TypeOK'
  <2>1. UNCHANGED <<file, push, todo, faults>>
    BY <1>7 DEF WriteRefs
  <2>2. QED
    BY <1>4, <1>7, <2>1, LinkStep, WriteRefsHeads
<1>8. CASE Tick
  BY <1>8 DEF Tick
<1>9. ASSUME NEW p \in Passes, AdminGcRun(p) \/ (p = Sweeper /\ SweepRepo) PROVE TypeOK'
  BY <1>9, BeginStep, PreviewStep
<1>10. ASSUME NEW p \in Passes, ListLoose(p) PROVE TypeOK'
  BY <1>10, ListLooseStep DEF ListLoose
<1>11. ASSUME NEW p \in Passes, Walk(p) PROVE TypeOK'
  BY <1>11, WalkStep DEF Walk
<1>12. ASSUME NEW p \in Passes, DeleteLoose(p) PROVE TypeOK'
  BY <1>12, DeleteLooseStep DEF DeleteLoose
<1>13. ASSUME NEW r \in Repo, NEW c \in Commit, GrowOld(r, c) PROVE TypeOK'
  <2> DEFINE g == [file[r] EXCEPT ![c] = "old"]
  <2>1. g \in [Commit -> Age] /\ file' = [file EXCEPT ![r] = g]
    BY <1>13 DEF GrowOld, Age
  <2>2. UNCHANGED <<dir, src, heads, push, fork, pass, todo, faults>>
    BY <1>13 DEF GrowOld
  <2> HIDE DEF g
  <2>3. file' \in [Repo -> [Commit -> Age]]
    BY <2>1
  <2>4. QED
    BY <2>2, <2>3
<1>14. CASE Crash
  <2>1. UNCHANGED <<dir, src, heads, file>> /\ todo' = {} /\ faults' \in 0 .. MaxFaults
    BY <1>14 DEF Crash
  <2>2. QED
    BY <1>14, <2>1, CrashStep
<1>15. Sweeper \in Passes
  BY DEF Passes
<1>16. QED
  BY <1>0, <1>1, <1>2, <1>3, <1>5, <1>6, <1>7, <1>8, <1>9, <1>10, <1>11, <1>12, <1>13, <1>14, <1>15, Steps

LEMMA NamedStep ==
  ASSUME TypeOK, Named, [Next]_vars
  PROVE  Named'
<1> USE DEF Named
<1>0. CASE UNCHANGED vars
  BY <1>0 DEF vars
<1>1. ASSUME NEW q \in Pushers, StartPush(q) PROVE Named'
  BY <1>1, StartPushStep DEF StartPush
<1>2. ASSUME NEW q \in Pushers, Unpack(q) PROVE Named'
  BY <1>2, UnpackStep DEF Unpack
<1>3. ASSUME NEW q \in Pushers, CheckConnected(q) PROVE Named'
  BY <1>3, CheckStep DEF CheckConnected
<1>4. ASSUME NEW h \in [Repo -> SUBSET Commit], SetHeads(h)
      PROVE  \A p \in Passes : pass'[p].pc = pass[p].pc /\ pass'[p].repo = pass[p].repo
  BY <1>4, SetHeadsStep
<1>5. ASSUME NEW q \in Pushers, Land(q) PROVE Named'
  <2>1. (\A s \in Pushers \ {q} : push'[s] = push[s]) /\ push'[q].pc = "done" /\ UNCHANGED fork
    BY <1>5, LandStep DEF Land
  <2>2. QED
    BY <1>4, <1>5, <2>1, LandHeads
<1>6. ASSUME NEW q \in Forkers, Link(q) \/ ReadRefs(q) PROVE Named'
  <2>1. UNCHANGED <<push, pass>>
    BY <1>6 DEF Link, ReadRefs
  <2>2. QED
    BY <1>6, <2>1, LinkStep
<1>7. ASSUME NEW q \in Forkers, WriteRefs(q) PROVE Named'
  <2>1. UNCHANGED push
    BY <1>7 DEF WriteRefs
  <2>2. QED
    BY <1>4, <1>7, <2>1, LinkStep, WriteRefsHeads
<1>8. CASE Tick
  BY <1>8 DEF Tick
<1>9. ASSUME NEW p \in Passes, AdminGcRun(p) \/ (p = Sweeper /\ SweepRepo) PROVE Named'
  BY <1>9, BeginStep, PreviewStep, RestType
<1>10. ASSUME NEW p \in Passes, ListLoose(p) PROVE Named'
  BY <1>10, ListLooseStep DEF ListLoose
<1>11. ASSUME NEW p \in Passes, Walk(p) PROVE Named'
  <2>1. UNCHANGED <<push, fork>>
    BY <1>11 DEF Walk
  <2>2. QED
    BY <1>11, <2>1, WalkStep, RestType
<1>12. ASSUME NEW p \in Passes, DeleteLoose(p) PROVE Named'
  <2>1. UNCHANGED <<push, fork>>
    BY <1>12 DEF DeleteLoose
  <2>2. QED
    BY <1>12, <2>1, DeleteLooseStep, RestType
<1>13. ASSUME NEW r \in Repo, NEW c \in Commit, GrowOld(r, c) PROVE Named'
  BY <1>13 DEF GrowOld
<1>14. CASE Crash
  BY <1>14, CrashStep, RestType
<1>15. Sweeper \in Passes
  BY DEF Passes
<1>16. QED
  BY <1>0, <1>1, <1>2, <1>3, <1>5, <1>6, <1>7, <1>8, <1>9, <1>10, <1>11, <1>12, <1>13, <1>14, <1>15, Steps

-----------------------------------------------------------------------------
(* The objects that stay reachable.                                        *)

\* What one pass knows, for the state of that pass and of the refs.
PassMet(s, h) ==
  /\ \A m \in Repo : s.stable[m] \subseteq Reach(h[m])
  /\ \A m \in Repo \ s.net : s.stable[m] = {}
  /\ s.pc = "list" => s.walk = s.net
  /\ s.pc = "walk" => \A m \in Repo \ s.walk : s.stable[m] \subseteq s.reach
  /\ s.pc = "delete" => \A m \in Repo : s.stable[m] \cap s.listed = {}

LEMMA RestMet == ASSUME NEW p, NEW h PROVE PassMet(Rest(p), h)
  BY RestType DEF PassMet

LEMMA StableStep ==
  ASSUME TypeOK, Named, StableMet, [Next]_vars
  PROVE  StableMet'
<1>0. \A p \in Passes : PassMet(pass[p], heads)
  BY DEF StableMet, PassMet
<1> SUFFICES \A p \in Passes : PassMet(pass'[p], heads')
  BY DEF StableMet, PassMet
<1>1. CASE UNCHANGED <<heads, pass>>
  BY <1>0, <1>1
<1>2. ASSUME NEW h \in [Repo -> SUBSET Commit], SetHeads(h), NEW p \in Passes
      PROVE  PassMet(pass'[p], heads')
  BY <1>0, <1>2, SetHeadsStep DEF PassMet
<1>3. ASSUME NEW q \in Passes, \A s \in Passes \ {q} : pass'[s] = pass[s], UNCHANGED heads,
             PassMet(pass'[q], heads), NEW p \in Passes
      PROVE  PassMet(pass'[p], heads')
  BY <1>0, <1>3
<1>4. ASSUME NEW q \in Passes, AdminGcRun(q) \/ (q = Sweeper /\ SweepRepo), NEW p \in Passes
      PROVE  PassMet(pass'[p], heads')
  <2>1. UNCHANGED heads /\ \A s \in Passes \ {q} : pass'[s] = pass[s]
    BY <1>4, BeginStep, PreviewStep
  <2>2. PassMet(pass'[q], heads)
    BY <1>4, BeginStep, PreviewStep, RestMet DEF PassMet
  <2>3. QED
    BY <1>3, <2>1, <2>2
<1>5. ASSUME NEW q \in Passes, ListLoose(q), NEW p \in Passes PROVE PassMet(pass'[p], heads')
  <2>1. UNCHANGED heads /\ \A s \in Passes \ {q} : pass'[s] = pass[s]
    BY <1>5, ListLooseStep DEF ListLoose
  <2>2. PassMet(pass'[q], heads)
    BY <1>0, <1>5, ListLooseStep DEF PassMet
  <2>3. QED
    BY <1>3, <2>1, <2>2
<1>6. ASSUME NEW q \in Passes, Walk(q), NEW p \in Passes PROVE PassMet(pass'[p], heads')
  <2>1. UNCHANGED heads /\ \A s \in Passes \ {q} : pass'[s] = pass[s]
    BY <1>6, WalkStep DEF Walk
  <2>2. PassMet(pass'[q], heads)
    <3>1. CASE pass'[q] = Rest(q)
      BY <3>1, RestMet
    <3>2. ASSUME NEW m \in pass[q].walk, pass'[q].net = pass[q].net, pass'[q].stable = pass[q].stable,
                 pass'[q].pc = "walk", pass'[q].walk = pass[q].walk \ {m},
                 pass'[q].reach = pass[q].reach \cup Reach(heads[m])
          PROVE  PassMet(pass'[q], heads)
      BY <1>0, <1>6, <3>2, WalkStep DEF PassMet
    <3>3. ASSUME NEW m \in pass[q].walk, pass'[q].net = pass[q].net, pass'[q].stable = pass[q].stable,
                 pass'[q].pc = "delete", pass[q].walk = {m},
                 pass'[q].listed = pass[q].listed \ (pass[q].reach \cup Reach(heads[m]))
          PROVE  PassMet(pass'[q], heads)
      <4>1. ASSUME NEW n \in Repo PROVE pass[q].stable[n] \subseteq pass[q].reach \cup Reach(heads[m])
        BY <1>0, <1>6, <3>3, <4>1, WalkStep DEF PassMet
      <4>2. QED
        BY <1>0, <3>3, <4>1 DEF PassMet
    <3>4. QED
      BY <1>6, <3>1, <3>2, <3>3, WalkStep
  <2>3. QED
    BY <1>3, <2>1, <2>2
<1>7. ASSUME NEW q \in Passes, DeleteLoose(q), NEW p \in Passes PROVE PassMet(pass'[p], heads')
  <2>1. UNCHANGED heads /\ \A s \in Passes \ {q} : pass'[s] = pass[s]
    BY <1>7, DeleteLooseStep DEF DeleteLoose
  <2>2. PassMet(pass'[q], heads)
    <3>1. CASE pass'[q] = Rest(q)
      BY <3>1, RestMet
    <3>2. CASE pass'[q] # Rest(q)
      BY <1>0, <1>7, <3>2, DeleteLooseStep DEF PassMet
    <3>3. QED
      BY <3>1, <3>2
  <2>3. QED
    BY <1>3, <2>1, <2>2
<1>8. ASSUME Crash, NEW p \in Passes PROVE PassMet(pass'[p], heads')
  <2>1. UNCHANGED heads
    BY <1>8 DEF Crash
  <2>2. QED
    BY <1>0, <1>8, <2>1, CrashStep, RestMet
<1>9. ASSUME NEW q \in Pushers, StartPush(q) \/ Unpack(q) \/ CheckConnected(q) PROVE UNCHANGED <<heads, pass>>
  BY <1>9 DEF StartPush, Unpack, CheckConnected
<1>10. ASSUME NEW q \in Forkers, Link(q) \/ ReadRefs(q) PROVE UNCHANGED <<heads, pass>>
  BY <1>10 DEF Link, ReadRefs
<1>11. ASSUME Tick \/ (\E r \in Repo, c \in Commit : GrowOld(r, c)) \/ UNCHANGED vars
       PROVE  UNCHANGED <<heads, pass>>
  BY <1>11 DEF Tick, GrowOld, vars
<1>12. Sweeper \in Passes
  BY DEF Passes
<1>13. QED
  BY <1>1, <1>2, <1>4, <1>5, <1>6, <1>7, <1>8, <1>9, <1>10, <1>11, <1>12, Steps, LandHeads, WriteRefsHeads

-----------------------------------------------------------------------------
(* The objects of a push.                                                  *)

\* What a push has made is young, and not listed, in the repository r.
Safe(s, f, P) ==
  s.pc \in {"check", "land"} =>
    \A c \in s.made : /\ c \in s.pack /\ f[s.repo][c] = "young"
                      /\ \A p \in Passes : P[p].repo = s.repo => c \notin P[p].listed

LEMMA MadeStep ==
  ASSUME TypeOK, Named, MadeUnlisted, [Next]_vars
  PROVE  MadeUnlisted'
<1>0. \A q \in Pushers : Safe(push[q], file, pass)
  BY DEF MadeUnlisted, Safe
<1> SUFFICES ASSUME NEW q \in Pushers PROVE Safe(push'[q], file', pass')
  BY DEF MadeUnlisted, Safe
<1>1. CASE UNCHANGED <<push, file, pass>>
  BY <1>0, <1>1
\* The lists of the passes only shrink, or name another repository.
<1>2. ASSUME UNCHANGED <<push, file>>,
             \A p \in Passes : \/ pass'[p].listed = {}
                               \/ pass'[p].repo = pass[p].repo /\ pass'[p].listed \subseteq pass[p].listed
      PROVE  Safe(push'[q], file', pass')
  BY <1>0, <1>2 DEF Safe
<1>3. ASSUME NEW s \in Pushers, StartPush(s) PROVE Safe(push'[q], file', pass')
  <2>1. UNCHANGED <<file, pass>>
    BY <1>3 DEF StartPush
  <2>2. QED
    BY <1>0, <1>3, <2>1, StartPushStep DEF Safe
<1>4. ASSUME NEW s \in Pushers, Unpack(s) PROVE Safe(push'[q], file', pass')
  <2>1. UNCHANGED pass
    BY <1>4 DEF Unpack
  <2>2. CASE q = s
    BY <1>4, <2>1, <2>2, UnpackStep DEF Safe
  <2>3. CASE q # s
    <3>1. push'[q] = push[q]
      BY <1>4, <2>3, UnpackStep
    <3>2. push[q].pc \in {"check", "land"} => push[q].repo \in Repo /\ push[q].made \in SUBSET Commit
      BY PushType DEF Named
    <3>3. \A r \in Repo, c \in Commit : file'[r][c] \in {file[r][c], "young"}
      BY <1>4, UnpackStep
    <3>4. QED
      BY <1>0, <2>1, <3>1, <3>2, <3>3 DEF Safe
  <2>4. QED
    BY <2>2, <2>3
<1>5. ASSUME NEW s \in Pushers, CheckConnected(s) PROVE Safe(push'[q], file', pass')
  <2>1. UNCHANGED <<file, pass>>
    BY <1>5 DEF CheckConnected
  <2>2. QED
    BY <1>0, <1>5, <2>1, CheckStep DEF Safe
<1>6. ASSUME NEW h \in [Repo -> SUBSET Commit], SetHeads(h)
      PROVE  \A p \in Passes : pass'[p].repo = pass[p].repo /\ pass'[p].listed = pass[p].listed
  BY <1>6, SetHeadsStep
<1>7. ASSUME NEW s \in Pushers, Land(s) PROVE Safe(push'[q], file', pass')
  <2>1. UNCHANGED file
    BY <1>7 DEF Land
  <2>2. (\A t \in Pushers \ {s} : push'[t] = push[t]) /\ push'[s].pc = "done"
    BY <1>7, LandStep DEF Land
  <2>3. \A p \in Passes : pass'[p].repo = pass[p].repo /\ pass'[p].listed = pass[p].listed
    BY <1>6, <1>7, LandHeads
  <2>4. QED
    BY <1>0, <2>1, <2>2, <2>3 DEF Safe
<1>8. ASSUME NEW f \in Forkers, WriteRefs(f) PROVE Safe(push'[q], file', pass')
  <2>1. UNCHANGED <<push, file>>
    BY <1>8 DEF WriteRefs
  <2>2. QED
    BY <1>2, <1>6, <1>8, <2>1, WriteRefsHeads
<1>9. ASSUME NEW p \in Passes, AdminGcRun(p) \/ (p = Sweeper /\ SweepRepo)
      PROVE  Safe(push'[q], file', pass')
  BY <1>2, <1>9, BeginStep, PreviewStep, RestType
<1>10. ASSUME NEW p \in Passes, ListLoose(p) PROVE Safe(push'[q], file', pass')
  <2>1. UNCHANGED <<push, file>>
    BY <1>10 DEF ListLoose
  <2>2. QED
    BY <1>0, <1>10, <2>1, ListLooseStep DEF Safe
<1>11. ASSUME NEW p \in Passes, Walk(p) PROVE Safe(push'[q], file', pass')
  <2>1. UNCHANGED <<push, file>>
    BY <1>11 DEF Walk
  <2>2. QED
    BY <1>2, <1>11, <2>1, WalkStep, RestType
<1>12. ASSUME NEW p \in Passes, DeleteLoose(p) PROVE Safe(push'[q], file', pass')
  <2>1. UNCHANGED push
    BY <1>12 DEF DeleteLoose
  <2>2. push[q].pc \in {"check", "land"} => push[q].repo \in Repo /\ push[q].made \in SUBSET Commit
    BY PushType DEF Named
  <2>3. \A s \in Passes : \/ pass'[s].listed = {}
                          \/ pass'[s].repo = pass[s].repo /\ pass'[s].listed \subseteq pass[s].listed
    BY <1>12, DeleteLooseStep, RestType
  <2>4. \A r \in Repo, c \in Commit :
          file'[r][c] = file[r][c] \/ (r = pass[p].repo /\ c \in pass[p].listed)
    BY <1>12, DeleteLooseStep
  <2>5. QED
    BY <1>0, <2>1, <2>2, <2>3, <2>4 DEF Safe
<1>13. ASSUME NEW r \in Repo, NEW c \in Commit, GrowOld(r, c) PROVE Safe(push'[q], file', pass')
  <2>1. /\ UNCHANGED <<push, pass>>
        /\ push[q].pc \in {"idle", "done"} \/ c \notin push[q].pack
        /\ file' = [file EXCEPT ![r][c] = "old"]
    BY <1>13 DEF GrowOld
  <2>2. \A t \in Repo, d \in Commit \ {c} : file'[t][d] = file[t][d]
    BY <2>1 DEF TypeOK
  <2>3. push[q].pc \in {"check", "land"} => push[q].repo \in Repo /\ push[q].made \in SUBSET Commit
    BY PushType DEF Named
  <2>4. QED
    BY <1>0, <2>1, <2>2, <2>3 DEF Safe
<1>14. CASE Crash
  BY <1>14, CrashStep DEF Safe
<1>15. ASSUME (\E f \in Forkers : Link(f) \/ ReadRefs(f)) \/ Tick \/ UNCHANGED vars
       PROVE  UNCHANGED <<push, file, pass>>
  BY <1>15 DEF Link, ReadRefs, Tick, vars
<1>16. Sweeper \in Passes
  BY DEF Passes
<1>17. QED
  BY <1>1, <1>3, <1>4, <1>5, <1>7, <1>8, <1>9, <1>10, <1>11, <1>12, <1>13, <1>14, <1>15, <1>16, Steps

-----------------------------------------------------------------------------
(* The theorems.                                                           *)

LEMMA InitInvariant == Init => IInv
<1> SUFFICES ASSUME Init PROVE IInv
  OBVIOUS
<1>1. TypeOK
  BY TypeInit
<1>2. Named
  BY DEF Init, Named, NoPush, NoFork, NoPass
<1>3. StableMet
  BY DEF Init, StableMet, NoPass
<1>4. MadeUnlisted
  BY DEF Init, MadeUnlisted, NoPush
<1>5. QED
  BY <1>1, <1>2, <1>3, <1>4 DEF IInv

LEMMA StepInvariant == IInv /\ [Next]_vars => IInv'
  BY TypeStep, NamedStep, StableStep, MadeStep DEF IInv

\* What passes and pushes know of objects and refs holds in every state, for
\* every commit graph and any number of repositories, pushes and passes.
THEOREM Invariance == Spec => []IInv
  BY InitInvariant, StepInvariant, PTL DEF Spec

\* Every variable of the collection keeps its type.
THEOREM TypeCorrect == Spec => []TypeOK
  BY Invariance, PTL DEF IInv

\* gc.rs, run and delete_loose: a pass never unlinks an object that some
\* member of the network has reached all the time since the pass began.
THEOREM StableIsKept == Spec => StableKept
<1>1. IInv => \A p \in Passes, r \in Repo, c \in Commit :
          (pass[p].pc = "delete" /\ pass[p].repo = r
             /\ c \in pass[p].listed /\ c \notin pass'[p].listed
             /\ file[r][c] # "none" /\ file'[r][c] = "none")
          => \A m \in Repo : c \notin pass[p].stable[m]
  BY DEF IInv, StableMet
<1>2. QED
  BY <1>1, Invariance, PTL DEF StableKept

\* gc.rs, the age guard: what a push has written is still readable when the
\* connectivity gate and the ref update look for it, whatever pass runs.
THEOREM PushedIsKept == Spec => []PushedKept
<1>1. IInv => PushedKept
  <2> SUFFICES ASSUME IInv, NEW q \in Pushers, push[q].pc \in {"check", "land"}, NEW c \in push[q].made
               PROVE  c \in Odb(push[q].repo)
    BY DEF PushedKept
  <2>1. push[q].repo \in Repo /\ c \in Commit /\ file[push[q].repo][c] = "young"
    BY PushType DEF IInv, Named, MadeUnlisted
  <2>2. push[q].repo \in Lookup(push[q].repo)
    BY <2>1 DEF Lookup
  <2>3. QED
    BY <2>1, <2>2 DEF Odb
<1>2. QED
  BY <1>1, Invariance, PTL
-----------------------------------------------------------------------------
(* The inductive invariant of ForkNetwork, for a clock that gives every    *)
(* write a modification time of its own.                                   *)

\* No file and no cached time is of the future, and a file that names a
\* source has a time.
Dated ==
  \A r \in RepoId : /\ alt[r].mtime <= clock /\ cache[r].mtime <= clock
                    /\ alt[r].src # NoSource => alt[r].mtime > 0

\* A fork that is not known to be broken has its source.
BrokenKnown ==
  \A f \in RepoId : alt[f].src # NoSource /\ f \notin broken => IsDir(alt[f].src)

\* What a request goes by.  A fork that it has seen is broken as soon as one
\* that it has seen above it is; and of a repository that a delete will
\* remove it removes the forks before, unless they are broken.
RequestSound(q) ==
  /\ q \in ForkReqs \/ op[q].mode = "force" => op[q].seen = {}
  /\ op[q].pc \in {"check", "mkdir", "create", "write", "refs"} =>
       op[q].src \in RepoId /\ op[q].id \in RepoId
  /\ op[q].pc \in {"scan", "remove", "forget"} => op[q].id \in RepoId
  /\ \A f \in RepoId, m \in Nat : <<f, m>> \in op[q].seen => m \in 1 .. clock
  /\ \A f \in Kept(q) : alt[f].src \in Kept(q) \cap broken => f \in broken
  /\ op[q].pc \in {"remove", "forget"} =>
       \A f \in Kept(q) \ broken : alt[f].src \in op[q].todo =>
         f \in op[q].todo /\ op[q].depth[f] > op[q].depth[alt[f].src]
  /\ op[q].pc \in {"scan", "forget"} => op[q].id \notin Kept(q)

RequestsSound == \A q \in Req : RequestSound(q)

ForkIInv ==
  ForkTypeOK /\ Dated /\ BrokenKnown /\ RequestsSound /\ HitsAreTrue /\ NoForkBroken

-----------------------------------------------------------------------------
(* Reached repositories.                                                   *)

USE NoSourceAssumption, RequestsAssumption, ClockAssumption, ReposAssumption

\* A repository whose source is r or is reached is reached.
LEMMA ReachedNext ==
  ASSUME NEW r, NEW L, NEW g \in DOMAIN L, g \in RepoId, g # r,
         L[g] = r \/ L[g] \in ReachedFrom(r, L)
  PROVE  g \in ReachedFrom(r, L)
  BY DEF ReachedFrom

\* What is reached lies in every set that has r and is closed downwards.
LEMMA ReachedBound ==
  ASSUME NEW r, NEW L, NEW S \in SUBSET RepoId, r \in S,
         \A g \in DOMAIN L : L[g] \in S => g \in S
  PROVE  ReachedFrom(r, L) \subseteq S \ {r}
  BY DEF ReachedFrom

-----------------------------------------------------------------------------
(* The state of a request.                                                 *)

LEMMA HandlerType ==
  ASSUME ForkTypeOK, NEW q \in Req
  PROVE  /\ op[q] \in Handler
         /\ op[q].pc \in PC /\ op[q].src \in Source /\ op[q].id \in Source
         /\ op[q].mode \in Mode /\ op[q].todo \in SUBSET RepoId
         /\ op[q].depth \in [RepoId -> Nat] /\ op[q].seen \in SUBSET (RepoId \X Nat)
  BY DEF ForkTypeOK, Handler

LEMMA FreshType == Fresh \in Handler /\ Fresh.pc = "idle" /\ Fresh.seen = {}
<1>1. [r \in RepoId |-> 0] \in [RepoId -> Nat]
  OBVIOUS
<1>2. QED
  BY <1>1 DEF Fresh, Handler, PC, Source, Mode

LEMMA EndedType == Ended \in Handler /\ Ended.pc = "done" /\ Ended.seen = {}
  BY FreshType DEF Ended, Handler, PC

LEMMA OpUpdate ==
  ASSUME ForkTypeOK, NEW q \in Req, NEW x \in Handler, Become(q, x)
  PROVE  /\ op' \in [Req -> Handler]
         /\ op'[q] = x
         /\ \A s \in Req \ {q} : op'[s] = op[s]
  BY DEF ForkTypeOK, Become

\* The next state of the files: a file is as it was, or newly written, or
\* removed.  What is broken stays so until its file is written again, and
\* whoever becomes so takes those below along.
FilesStep ==
  /\ clock' \in Nat /\ clock' >= clock
  /\ alt' \in [RepoId -> File]
  /\ \A r \in RepoId : \/ alt'[r] = alt[r] /\ (r \in broken => r \in broken')
                       \/ alt'[r].mtime = clock' /\ clock' > clock
                       \/ alt'[r] = NoFile
  /\ \A f \in RepoId : alt'[f] = alt[f] /\ alt[f].src \in broken' \ broken =>
                         f \in broken' \/ alt'[alt[f].src] # alt[alt[f].src]

\* A fork whose file a request still knows has not been written since.
LEMMA KeptShrinks ==
  ASSUME ForkIInv, FilesStep, NEW q \in Req, op'[q].seen = op[q].seen, NEW f \in Kept(q)'
  PROVE  f \in Kept(q) /\ alt'[f] = alt[f] /\ (f \in broken => f \in broken')
<1>1. f \in RepoId /\ <<f, alt'[f].mtime>> \in op[q].seen
  BY DEF Kept, Present
<1>2. alt'[f].mtime \in Nat /\ clock \in Nat
  BY <1>1 DEF FilesStep, File, ForkIInv, ForkTypeOK
<1>3. alt'[f].mtime \in 1 .. clock
  BY <1>1, <1>2 DEF ForkIInv, RequestsSound, RequestSound
<1>4. NoFile.mtime = 0
  BY DEF NoFile
<1>5. alt'[f] = alt[f] /\ (f \in broken => f \in broken')
  BY <1>1, <1>2, <1>3, <1>4 DEF FilesStep
<1>6. IsDir(f)
  BY <1>1, <1>3, <1>4, <1>5 DEF ForkIInv, ForkTypeOK
<1>7. QED
  BY <1>1, <1>5, <1>6 DEF Kept, Present

\* The requests that a step does not move stay sound.
LEMMA OthersSound ==
  ASSUME ForkIInv, FilesStep, NEW q \in Req, op'[q] = op[q]
  PROVE  RequestSound(q)'
<1>1. RequestSound(q)
  BY DEF ForkIInv, RequestsSound
<1>2. \A f \in Kept(q)' : f \in RepoId /\ f \in Kept(q) /\ alt'[f] = alt[f] /\ (f \in broken => f \in broken')
  BY KeptShrinks DEF Kept, Present
<1>3. \A f \in RepoId, m \in Nat : <<f, m>> \in op'[q].seen => m \in 1 .. clock'
  BY <1>1 DEF RequestSound, FilesStep, ForkIInv, ForkTypeOK
<1>4. ASSUME NEW f \in Kept(q)', alt'[f].src \in Kept(q)' \cap broken'
      PROVE  f \in broken'
  <2>1. alt'[f] = alt[f] /\ f \in RepoId /\ f \in Kept(q) /\ alt[f].src \in Kept(q)
    BY <1>2, <1>4
  <2>2. alt'[alt[f].src] = alt[alt[f].src]
    BY <1>2, <1>4, <2>1
  <2>3. CASE alt[f].src \in broken
    BY <1>1, <1>2, <2>1, <2>3 DEF RequestSound
  <2>4. CASE alt[f].src \notin broken
    BY <1>4, <2>1, <2>2, <2>4 DEF FilesStep
  <2>5. QED
    BY <2>3, <2>4
<1>5. ASSUME op[q].pc \in {"remove", "forget"}, NEW f \in Kept(q)' \ broken', alt'[f].src \in op[q].todo
      PROVE  f \in op[q].todo /\ op[q].depth[f] > op[q].depth[alt'[f].src]
  BY <1>1, <1>2, <1>5 DEF RequestSound
<1>6. QED
  BY <1>1, <1>2, <1>3, <1>4, <1>5 DEF RequestSound

\* A request that has seen nothing, or is over, has nothing to spare.
LEMMA SeesNothing ==
  ASSUME NEW q \in Req, op'[q].seen = {},
         op'[q].pc \in {"check", "mkdir", "create", "write", "refs"} =>
            op'[q].src \in RepoId /\ op'[q].id \in RepoId,
         op'[q].pc \in {"scan", "remove", "forget"} => op'[q].id \in RepoId
  PROVE  RequestSound(q)'
<1>1. Kept(q)' = {}
  BY DEF Kept
<1>2. QED
  BY <1>1 DEF RequestSound

\* A step that moves only q, to x, leaves the requests sound if it leaves q so.
LEMMA RequestsStep ==
  ASSUME ForkIInv, FilesStep, NEW q \in Req, NEW x \in Handler, Become(q, x), RequestSound(q)'
  PROVE  op' \in [Req -> Handler] /\ RequestsSound'
  BY OpUpdate, OthersSound DEF ForkIInv, RequestsSound

\* A request ends and nothing else happens.
LEMMA EndStep ==
  ASSUME ForkIInv, NEW q \in Req, End(q), UNCHANGED <<repoDir, alt, clock, cache, broken, cut>>
  PROVE  ForkIInv'
<1>1. FilesStep
  BY DEF FilesStep, ForkIInv, ForkTypeOK
<1>2. Become(q, Ended)
  BY DEF End
<1>3. op'[q] = Ended
  BY <1>2, EndedType, OpUpdate DEF ForkIInv
<1>4. RequestSound(q)'
  BY <1>3, EndedType, SeesNothing
<1>5. op' \in [Req -> Handler] /\ RequestsSound'
  BY <1>1, <1>2, <1>4, EndedType, RequestsStep
<1>6. QED
  BY <1>5 DEF ForkIInv, ForkTypeOK, Dated, BrokenKnown, HitsAreTrue, NoForkBroken, Hit, IsDir

-----------------------------------------------------------------------------
(* The steps of a fork.                                                    *)

\* A directory is made or completed: no file changes.
LEMMA DirsStep ==
  ASSUME ForkIInv, repoDir' \in [RepoId -> {"absent", "partial", "whole"}],
         \A r \in RepoId : IsDir(r) => IsDir(r)',
         UNCHANGED <<alt, clock, cache, broken, cut>>,
         op' \in [Req -> Handler], RequestsSound'
  PROVE  ForkIInv'
<1>1. ForkTypeOK'
  BY DEF ForkIInv, ForkTypeOK
<1>2. BrokenKnown'
  <2> SUFFICES ASSUME NEW f \in RepoId, alt[f].src # NoSource, f \notin broken
               PROVE  IsDir(alt[f].src)'
    BY DEF BrokenKnown
  <2>1. IsDir(alt[f].src) /\ alt[f].src \in RepoId
    BY DEF ForkIInv, BrokenKnown, ForkTypeOK, File, Source
  <2>2. QED
    BY <2>1
<1>3. Dated' /\ HitsAreTrue' /\ NoForkBroken'
  BY DEF ForkIInv, Dated, HitsAreTrue, NoForkBroken, Hit
<1>4. QED
  BY <1>1, <1>2, <1>3 DEF ForkIInv

LEMMA CreateRepoStep ==
  ASSUME ForkIInv, NEW r \in RepoId, CreateRepo(r)
  PROVE  ForkIInv'
<1>1. FilesStep
  BY DEF FilesStep, ForkIInv, ForkTypeOK, CreateRepo
<1>2. RequestsSound'
  BY <1>1, OthersSound DEF RequestsSound, CreateRepo
<1>3. repoDir' \in [RepoId -> {"absent", "partial", "whole"}] /\ \A s \in RepoId : IsDir(s) => IsDir(s)'
  BY DEF CreateRepo, ForkIInv, ForkTypeOK, IsDir
<1>4. op' \in [Req -> Handler]
  BY DEF CreateRepo, ForkIInv, ForkTypeOK
<1>5. QED
  BY <1>2, <1>3, <1>4, DirsStep DEF CreateRepo

\* A request goes on, and nothing else happens.
LEMMA GoesOn ==
  ASSUME ForkIInv, NEW q \in Req, NEW x \in Handler, Become(q, x), RequestSound(q)',
         UNCHANGED <<repoDir, alt, clock, cache, broken, cut>>
  PROVE  ForkIInv'
<1>1. FilesStep
  BY DEF FilesStep, ForkIInv, ForkTypeOK
<1>2. op' \in [Req -> Handler] /\ RequestsSound'
  BY <1>1, RequestsStep
<1>3. QED
  BY <1>2, DirsStep DEF ForkIInv, ForkTypeOK, IsDir

LEMMA ForkRepoStep ==
  ASSUME ForkIInv, NEW q \in ForkReqs, ForkRepo(q)
  PROVE  ForkIInv'
<1>1. q \in Req
  BY DEF Req
<1>2. PICK s \in RepoId, f \in RepoId :
          IF IsDir(s)
          THEN Become(q, [op[q] EXCEPT !.pc = "check", !.src = s, !.id = f])
          ELSE End(q)
  BY DEF ForkRepo
<1>3. UNCHANGED <<repoDir, alt, clock, cache, broken, cut>>
  BY DEF ForkRepo
<1>4. CASE End(q)
  BY <1>1, <1>3, <1>4, EndStep
<1> DEFINE x == [op[q] EXCEPT !.pc = "check", !.src = s, !.id = f]
<1>5. CASE Become(q, x)
  <2>1. x \in Handler /\ x.pc = "check" /\ x.src = s /\ x.id = f /\ x.seen = op[q].seen
    BY <1>1, HandlerType DEF ForkIInv, Handler, PC, Source
  <2> HIDE DEF x
  <2>2. op'[q] = x
    BY <1>1, <1>5, <2>1, OpUpdate DEF ForkIInv
  <2>3. x.seen = {}
    BY <1>1, <2>1 DEF ForkIInv, RequestsSound, RequestSound
  <2>4. RequestSound(q)'
    BY <1>1, <2>1, <2>2, <2>3, SeesNothing
  <2>5. QED
    BY <1>1, <1>3, <1>5, <2>1, <2>4, GoesOn
<1>6. QED
  BY <1>2, <1>4, <1>5

\* A fork that goes on knows its repositories and has seen nothing.
LEMMA ForkGoesOn ==
  ASSUME ForkIInv, NEW q \in ForkReqs, NEW c \in {"mkdir", "create", "write", "refs"},
         op[q].pc \in {"check", "mkdir", "create", "write"},
         Become(q, [op[q] EXCEPT !.pc = c])
  PROVE  /\ q \in Req /\ op[q].src \in RepoId /\ op[q].id \in RepoId
         /\ [op[q] EXCEPT !.pc = c] \in Handler
         /\ RequestSound(q)'
<1>1. q \in Req
  BY DEF Req
<1>2. RequestSound(q) /\ ForkTypeOK
  BY <1>1 DEF ForkIInv, RequestsSound
<1>3. op[q].src \in RepoId /\ op[q].id \in RepoId /\ op[q].seen = {}
  BY <1>2 DEF RequestSound
<1> DEFINE x == [op[q] EXCEPT !.pc = c]
<1>4. x \in Handler /\ x.pc = c /\ x.src = op[q].src /\ x.id = op[q].id /\ x.seen = op[q].seen
  BY <1>1, <1>2, HandlerType DEF Handler, PC
<1> HIDE DEF x
<1>5. op'[q] = x
  BY <1>1, <1>2, <1>4, OpUpdate DEF x
<1>6. RequestSound(q)'
  BY <1>1, <1>3, <1>4, <1>5, SeesNothing
<1>7. QED
  BY <1>1, <1>3, <1>4, <1>6 DEF x

LEMMA CheckForkStep ==
  ASSUME ForkIInv, NEW q \in ForkReqs, CheckFork(q)
  PROVE  ForkIInv'
<1>1. q \in Req
  BY DEF Req
<1>2. UNCHANGED <<repoDir, alt, clock, cache, broken, cut>> /\ op[q].pc = "check"
  BY DEF CheckFork
<1>3. CASE End(q)
  BY <1>1, <1>2, <1>3, EndStep
<1>4. CASE Become(q, [op[q] EXCEPT !.pc = "mkdir"])
  BY <1>2, <1>4, ForkGoesOn, GoesOn
<1>5. QED
  BY <1>3, <1>4 DEF CheckFork

LEMMA MakeDirsStep ==
  ASSUME ForkIInv, NEW q \in ForkReqs, MakeDirs(q)
  PROVE  ForkIInv'
<1>1. /\ Become(q, [op[q] EXCEPT !.pc = "create"]) /\ op[q].pc = "mkdir"
      /\ repoDir' = [repoDir EXCEPT ![op[q].id] = "partial"]
      /\ UNCHANGED <<alt, clock, cache, broken, cut>>
  BY DEF MakeDirs
<1>2. FilesStep
  BY <1>1 DEF FilesStep, ForkIInv, ForkTypeOK
<1>3. op' \in [Req -> Handler] /\ RequestsSound'
  BY <1>1, <1>2, ForkGoesOn, RequestsStep
<1>4. repoDir' \in [RepoId -> {"absent", "partial", "whole"}] /\ \A s \in RepoId : IsDir(s) => IsDir(s)'
  BY <1>1 DEF ForkIInv, ForkTypeOK, IsDir
<1>5. QED
  BY <1>1, <1>3, <1>4, DirsStep

\* An alternates file is written, with a source or empty.
LEMMA WrittenStep ==
  ASSUME ~CoarseClock, ForkIInv, NEW id \in RepoId, NEW s \in Source, IsDir(id), StepClock,
         alt' = [alt EXCEPT ![id] = [mtime |-> clock', src |-> s]],
         broken' \subseteq RepoId, \A f \in RepoId \ {id} : f \in broken' <=> f \in broken,
         s # NoSource /\ id \notin broken' => IsDir(s),
         UNCHANGED <<repoDir, cache, cut>>
  PROVE  /\ FilesStep /\ Dated' /\ BrokenKnown' /\ HitsAreTrue' /\ NoForkBroken'
         /\ op' \in [Req -> Handler] => ForkTypeOK'
<1>1. clock \in Nat \ {0} /\ clock' = clock + 1
  BY DEF ForkIInv, ForkTypeOK, StepClock
<1> DEFINE a == [mtime |-> clock', src |-> s]
<1>2. a \in File /\ a.mtime = clock' /\ a.src = s
  BY <1>1 DEF File
<1>3. /\ alt' \in [RepoId -> File] /\ alt'[id] = a
      /\ \A f \in RepoId \ {id} : alt'[f] = alt[f]
  BY <1>2 DEF ForkIInv, ForkTypeOK
<1> HIDE DEF a
<1>4. FilesStep
  <2>1. ASSUME NEW f \in RepoId, alt'[f] = alt[f], alt[f].src \in broken' \ broken
        PROVE  alt'[alt[f].src] # alt[alt[f].src]
    <3>1. alt[f].src = id
      BY <2>1
    <3>2. alt[id].mtime <= clock /\ alt[id].mtime \in Nat
      BY DEF ForkIInv, Dated, ForkTypeOK, File
    <3>3. QED
      BY <1>1, <1>2, <1>3, <3>1, <3>2
  <2>2. ASSUME NEW r \in RepoId
        PROVE  \/ alt'[r] = alt[r] /\ (r \in broken => r \in broken')
               \/ alt'[r].mtime = clock' /\ clock' > clock
    BY <1>1, <1>2, <1>3
  <2>3. QED
    BY <1>1, <1>3, <2>1, <2>2 DEF FilesStep
<1>5. Dated'
  <2>1. \A r \in RepoId : cache[r].mtime \in Nat /\ alt[r].mtime \in Nat
    BY DEF ForkIInv, ForkTypeOK, Entry, File
  <2>2. QED
    BY <1>1, <1>2, <1>3, <2>1 DEF ForkIInv, Dated
<1>6. BrokenKnown'
  BY <1>2, <1>3 DEF ForkIInv, BrokenKnown, IsDir
<1>7. HitsAreTrue'
  <2> SUFFICES ASSUME NEW r \in RepoId, Hit(r)', alt'[r].src # NoSource, r \notin broken'
               PROVE  cache'[r].src = alt'[r].src
    BY DEF HitsAreTrue
  <2>1. CASE r = id
    <3>1. cache[id].mtime <= clock /\ cache[id].mtime \in Nat
      BY DEF ForkIInv, Dated, ForkTypeOK, Entry
    <3>2. QED
      BY <1>1, <1>2, <1>3, <2>1, <3>1 DEF Hit
  <2>2. CASE r # id
    BY <1>3, <2>2 DEF ForkIInv, HitsAreTrue, Hit
  <2>3. QED
    BY <2>1, <2>2
<1>8. op' \in [Req -> Handler] => ForkTypeOK'
  BY <1>1, <1>3 DEF ForkIInv, ForkTypeOK, IsDir
<1>9. QED
  BY <1>4, <1>5, <1>6, <1>7, <1>8 DEF ForkIInv, NoForkBroken

LEMMA CreateAlternatesStep ==
  ASSUME ~CoarseClock, ForkIInv, NEW q \in ForkReqs, CreateAlternates(q)
  PROVE  ForkIInv'
<1>1. q \in Req
  BY DEF Req
<1>2. CASE Gone(q, op[q].id)
  BY <1>1, <1>2, EndStep DEF Gone
<1>3. CASE ~Gone(q, op[q].id)
  <2>1. /\ IsDir(op[q].id) /\ StepClock /\ op[q].pc = "create"
        /\ alt' = [alt EXCEPT ![op[q].id] = [mtime |-> clock', src |-> NoSource]]
        /\ broken' = broken \ {op[q].id}
        /\ Become(q, [op[q] EXCEPT !.pc = "write"])
        /\ UNCHANGED <<repoDir, cache, cut>>
    BY <1>3 DEF CreateAlternates
  <2>2. [op[q] EXCEPT !.pc = "write"] \in Handler /\ RequestSound(q)' /\ op[q].id \in RepoId
    BY <2>1, ForkGoesOn
  <2>3. /\ FilesStep /\ Dated' /\ BrokenKnown' /\ HitsAreTrue' /\ NoForkBroken'
        /\ op' \in [Req -> Handler] => ForkTypeOK'
    BY <2>1, <2>2, WrittenStep DEF Source, ForkIInv, ForkTypeOK
  <2>4. QED
    BY <1>1, <2>1, <2>2, <2>3, RequestsStep DEF ForkIInv
<1>4. QED
  BY <1>2, <1>3

LEMMA WriteAlternatesStep ==
  ASSUME ~CoarseClock, ForkIInv, NEW q \in ForkReqs, WriteAlternates(q)
  PROVE  ForkIInv'
<1>1. q \in Req
  BY DEF Req
<1>2. CASE Gone(q, op[q].id)
  BY <1>1, <1>2, EndStep DEF Gone
<1>3. CASE ~Gone(q, op[q].id)
  <2>1. /\ IsDir(op[q].id) /\ StepClock /\ op[q].pc = "write"
        /\ alt' = [alt EXCEPT ![op[q].id] = [mtime |-> clock', src |-> op[q].src]]
        /\ broken' = IF IsDir(op[q].src) /\ op[q].src \notin broken
                     THEN broken \ {op[q].id} ELSE broken \cup {op[q].id}
        /\ Become(q, [op[q] EXCEPT !.pc = "refs"])
        /\ UNCHANGED <<repoDir, cache, cut>>
    BY <1>3 DEF WriteAlternates
  <2>2. /\ [op[q] EXCEPT !.pc = "refs"] \in Handler /\ RequestSound(q)'
        /\ op[q].id \in RepoId /\ op[q].src \in RepoId
    BY <2>1, ForkGoesOn
  <2>3. /\ FilesStep /\ Dated' /\ BrokenKnown' /\ HitsAreTrue' /\ NoForkBroken'
        /\ op' \in [Req -> Handler] => ForkTypeOK'
    BY <2>1, <2>2, WrittenStep DEF Source, ForkIInv, ForkTypeOK
  <2>4. QED
    BY <1>1, <2>1, <2>2, <2>3, RequestsStep DEF ForkIInv
<1>4. QED
  BY <1>2, <1>3

LEMMA SnapshotRefsStep ==
  ASSUME ForkIInv, NEW q \in ForkReqs, SnapshotRefs(q)
  PROVE  ForkIInv'
<1>1. q \in Req
  BY DEF Req
<1>2. CASE Gone(q, op[q].id) \/ Gone(q, op[q].src)
  BY <1>1, <1>2, EndStep DEF Gone
<1>3. CASE /\ repoDir' = [repoDir EXCEPT ![op[q].id] = "whole"] /\ End(q)
           /\ UNCHANGED <<alt, clock, cache, broken, cut>>
  <2>1. FilesStep
    BY <1>3 DEF FilesStep, ForkIInv, ForkTypeOK
  <2>2. op'[q] = Ended /\ Become(q, Ended)
    BY <1>1, <1>3, EndedType, OpUpdate DEF ForkIInv, End
  <2>3. RequestSound(q)'
    BY <1>1, <2>2, EndedType, SeesNothing
  <2>4. op' \in [Req -> Handler] /\ RequestsSound'
    BY <1>1, <2>1, <2>2, <2>3, EndedType, RequestsStep
  <2>5. repoDir' \in [RepoId -> {"absent", "partial", "whole"}] /\ \A s \in RepoId : IsDir(s) => IsDir(s)'
    BY <1>3 DEF ForkIInv, ForkTypeOK, IsDir
  <2>6. QED
    BY <1>3, <2>4, <2>5, DirsStep
<1>4. QED
  BY <1>2, <1>3 DEF SnapshotRefs

-----------------------------------------------------------------------------
(* The cache.                                                              *)

\* The cache answers what the file says of a fork that is not broken.
LEMMA LookupTrue ==
  ASSUME ForkIInv, NEW f \in RepoId
  PROVE  /\ LookupSource(f) \in Source
         /\ alt[f].src # NoSource /\ f \notin broken => LookupSource(f) = alt[f].src /\ IsDir(f)
<1>1. alt[f] \in File /\ alt[f].src \in Source /\ cache[f].src \in Source
  BY DEF ForkIInv, ForkTypeOK, File, Entry
<1>2. LookupSource(f) \in Source
  BY <1>1 DEF LookupSource, Resolve, Source
<1>3. ASSUME alt[f].src # NoSource, f \notin broken
      PROVE  LookupSource(f) = alt[f].src /\ IsDir(f)
  <2>1. IsDir(f)
    BY <1>3 DEF ForkIInv, ForkTypeOK, NoFile
  <2>2. IsDir(alt[f].src)
    BY <1>3 DEF ForkIInv, BrokenKnown
  <2>3. QED
    BY <1>3, <2>1, <2>2 DEF LookupSource, Resolve, ForkIInv, HitsAreTrue
<1>4. QED
  BY <1>2, <1>3

\* A step that only the cache and the requests take part in.
LEMMA CacheStep ==
  ASSUME ForkIInv, UNCHANGED <<repoDir, alt, clock, broken, cut>>,
         cache' \in [RepoId -> Entry],
         \A r \in RepoId : \/ cache'[r] = cache[r]
                           \/ cache'[r] = NoEntry
                           \/ cache'[r] = [known |-> TRUE, mtime |-> alt[r].mtime, src |-> LookupSource(r)],
         op' \in [Req -> Handler], RequestsSound'
  PROVE  ForkIInv'
<1>1. ForkTypeOK'
  BY DEF ForkIInv, ForkTypeOK, IsDir
<1>2. Dated'
  <2>1. NoEntry.mtime = 0 /\ clock \in Nat
    BY DEF NoEntry, ForkIInv, ForkTypeOK
  <2>2. ASSUME NEW r \in RepoId PROVE cache'[r].mtime <= clock
    BY <2>1 DEF ForkIInv, Dated
  <2>3. QED
    BY <2>2 DEF ForkIInv, Dated
<1>3. HitsAreTrue'
  <2> SUFFICES ASSUME NEW r \in RepoId, Hit(r)', alt[r].src # NoSource, r \notin broken
               PROVE  cache'[r].src = alt[r].src
    BY DEF HitsAreTrue
  <2>1. CASE cache'[r] = cache[r]
    BY <2>1 DEF ForkIInv, HitsAreTrue, Hit
  <2>2. CASE cache'[r] = NoEntry
    BY <2>2 DEF Hit, NoEntry
  <2>3. CASE cache'[r] = [known |-> TRUE, mtime |-> alt[r].mtime, src |-> LookupSource(r)]
    BY <2>3, LookupTrue
  <2>4. QED
    BY <2>1, <2>2, <2>3
<1>4. BrokenKnown' /\ NoForkBroken'
  BY DEF ForkIInv, BrokenKnown, NoForkBroken, IsDir
<1>5. QED
  BY <1>1, <1>2, <1>3, <1>4 DEF ForkIInv

LEMMA RefreshedType ==
  ASSUME ForkIInv, NEW R
  PROVE  /\ Refreshed(R) \in [RepoId -> Entry]
         /\ \A r \in RepoId : \/ Refreshed(R)[r] = cache[r]
                              \/ Refreshed(R)[r] = [known |-> TRUE, mtime |-> alt[r].mtime, src |-> LookupSource(r)]
<1>1. ASSUME NEW r \in RepoId
      PROVE  [known |-> TRUE, mtime |-> alt[r].mtime, src |-> LookupSource(r)] \in Entry /\ cache[r] \in Entry
  <2>1. LookupSource(r) \in Source
    BY LookupTrue
  <2>2. alt[r].mtime \in Nat /\ cache[r] \in Entry
    BY DEF ForkIInv, ForkTypeOK, File
  <2>3. QED
    BY <2>1, <2>2 DEF Entry
<1>2. QED
  BY <1>1 DEF Refreshed

LEMMA ListReposStep ==
  ASSUME ForkIInv, NEW r \in RepoId, ListRepos(r)
  PROVE  ForkIInv'
<1>1. cache' = Refreshed({r}) /\ UNCHANGED <<repoDir, alt, clock, op, broken, cut>>
  BY DEF ListRepos
<1>2. FilesStep
  BY <1>1 DEF FilesStep, ForkIInv, ForkTypeOK
<1>3. RequestsSound'
  BY <1>1, <1>2, OthersSound DEF RequestsSound
<1>4. op' \in [Req -> Handler]
  BY <1>1 DEF ForkIInv, ForkTypeOK
<1>5. QED
  BY <1>1, <1>3, <1>4, RefreshedType, CacheStep

-----------------------------------------------------------------------------
(* The steps of a delete.                                                  *)

LEMMA DeleteRepoStep ==
  ASSUME ForkIInv, NEW q \in DeleteReqs, DeleteRepo(q)
  PROVE  ForkIInv'
<1>1. q \in Req /\ q \notin ForkReqs
  BY DEF Req
<1>2. PICK r \in RepoId, mode \in Mode :
          Become(q, [op[q] EXCEPT !.pc = "scan", !.id = r, !.mode = mode,
                                  !.seen = IF mode = "force" THEN {}
                                           ELSE {<<f, alt[f].mtime>> : f \in ForksBut(r)}])
  BY DEF DeleteRepo
<1>3. UNCHANGED <<repoDir, alt, clock, cache, broken, cut>>
  BY DEF DeleteRepo
<1> DEFINE seen == IF mode = "force" THEN {} ELSE {<<f, alt[f].mtime>> : f \in ForksBut(r)}
           x == [op[q] EXCEPT !.pc = "scan", !.id = r, !.mode = mode, !.seen = seen]
<1>4. \A f \in RepoId : alt[f].mtime \in Nat
  BY DEF ForkIInv, ForkTypeOK, File
<1>5. seen \in SUBSET (RepoId \X Nat)
  BY <1>4 DEF ForksBut, Present
<1>6. \A f \in RepoId, m \in Nat : <<f, m>> \in seen => f \in ForksBut(r) /\ m = alt[f].mtime
  OBVIOUS
<1> HIDE DEF seen
<1>7. x \in Handler /\ x.pc = "scan" /\ x.id = r /\ x.seen = seen /\ x.mode = mode
  BY <1>1, <1>5, HandlerType DEF ForkIInv, Handler, PC, Source
<1>8. Become(q, x)
  BY <1>2 DEF seen
<1> HIDE DEF x
<1>9. op'[q] = x
  BY <1>1, <1>7, <1>8, OpUpdate DEF ForkIInv
<1>10. \A f \in Kept(q)' : f \in RepoId /\ f \in ForksBut(r)
  BY <1>3, <1>4, <1>6, <1>7, <1>9 DEF Kept, Present
<1>11. \A f \in RepoId, m \in Nat : <<f, m>> \in seen => m \in 1 .. clock
  BY <1>4, <1>6 DEF ForksBut, ForkIInv, Dated, ForkTypeOK
<1>12. \A f \in Kept(q)' : f \notin broken /\ f # r
  BY <1>10 DEF ForksBut
<1>13. RequestSound(q)'
  <2>1. mode = "force" => seen = {}
    BY DEF seen
  <2>2. QED
    BY <1>1, <1>3, <1>7, <1>9, <1>11, <1>12, <2>1 DEF RequestSound
<1>14. QED
  BY <1>1, <1>3, <1>7, <1>8, <1>13, GoesOn

\* A delete goes on to remove what plan says.
LEMMA PlannedStep ==
  ASSUME ForkIInv, NEW q \in DeleteReqs, op[q].pc = "scan",
         NEW plan \in SUBSET RepoId, NEW depth \in [RepoId -> Nat],
         \A f \in Kept(q) \ broken : alt[f].src \in plan => f \in plan /\ depth[f] > depth[alt[f].src],
         Become(q, [op[q] EXCEPT !.pc = "remove", !.todo = plan, !.depth = depth]),
         NEW R, cache' = Refreshed(R), UNCHANGED <<repoDir, alt, clock, broken, cut>>
  PROVE  ForkIInv'
<1>1. q \in Req /\ q \notin ForkReqs /\ ForkTypeOK
  BY DEF Req, ForkIInv
<1> DEFINE x == [op[q] EXCEPT !.pc = "remove", !.todo = plan, !.depth = depth]
<1>2. /\ x \in Handler /\ x.pc = "remove" /\ x.id = op[q].id /\ x.seen = op[q].seen
      /\ x.todo = plan /\ x.depth = depth /\ x.mode = op[q].mode
  BY <1>1, HandlerType DEF Handler, PC
<1> HIDE DEF x
<1>3. Become(q, x) /\ op'[q] = x
  BY <1>1, <1>2, OpUpdate DEF x
<1>4. RequestSound(q)
  BY <1>1 DEF ForkIInv, RequestsSound
<1>5. Kept(q)' = Kept(q)
  BY <1>2, <1>3 DEF Kept, Present, IsDir
<1>6. RequestSound(q)'
  BY <1>1, <1>2, <1>3, <1>4, <1>5 DEF RequestSound
<1>7. FilesStep
  BY DEF FilesStep, ForkIInv, ForkTypeOK
<1>8. op' \in [Req -> Handler] /\ RequestsSound'
  BY <1>1, <1>2, <1>3, <1>6, <1>7, RequestsStep
<1>9. QED
  BY <1>8, RefreshedType, CacheStep

\* A request that has ended, with the cache filled by its scan.
LEMMA RefusedStep ==
  ASSUME ForkIInv, NEW q \in Req, End(q), UNCHANGED <<repoDir, alt, clock, broken, cut>>,
         cache' \in [RepoId -> Entry],
         \A r \in RepoId : \/ cache'[r] = cache[r]
                           \/ cache'[r] = NoEntry
                           \/ cache'[r] = [known |-> TRUE, mtime |-> alt[r].mtime, src |-> LookupSource(r)]
  PROVE  ForkIInv'
<1>1. FilesStep
  BY DEF FilesStep, ForkIInv, ForkTypeOK
<1>2. Become(q, Ended) /\ op'[q] = Ended
  BY EndedType, OpUpdate DEF ForkIInv, End
<1>3. RequestSound(q)'
  BY <1>2, EndedType, SeesNothing
<1>4. op' \in [Req -> Handler] /\ RequestsSound'
  BY <1>1, <1>2, <1>3, EndedType, RequestsStep
<1>5. QED
  BY <1>4, CacheStep

LEMMA ScanForksStep ==
  ASSUME ForkIInv, NEW q \in DeleteReqs, ScanForks(q)
  PROVE  ForkIInv'
<1>1. q \in Req /\ ForkTypeOK
  BY DEF Req, ForkIInv
<1>2. RequestSound(q) /\ op[q].pc = "scan" /\ op[q].id \in RepoId
  BY <1>1 DEF ForkIInv, RequestsSound, ScanForks, RequestSound
<1>3. /\ cache' = Refreshed(Present \ {op[q].id})
      /\ UNCHANGED <<repoDir, alt, clock, broken, cut>>
  BY DEF ScanForks
<1>4. CASE End(q)
  BY <1>1, <1>3, <1>4, RefreshedType, RefusedStep
<1>5. CASE ~End(q)
  <2>1. /\ Become(q, [op[q] EXCEPT !.pc = "remove", !.todo = {op[q].id}])
        /\ ForksOf(op[q].id) = {} \/ op[q].mode = "force"
    BY <1>5 DEF ScanForks
  <2> DEFINE id == op[q].id
  <2>2. ASSUME NEW f \in Kept(q) \ broken, alt[f].src \in {id}
        PROVE  FALSE
    <3>1. f \in RepoId /\ op[q].seen # {} /\ f # id
      BY <1>2 DEF Kept, Present, RequestSound
    <3>2. ForksOf(id) = {}
      BY <1>2, <2>1, <3>1 DEF RequestSound
    <3>3. LookupSource(f) = id /\ IsDir(f)
      BY <1>2, <2>2, <3>1, LookupTrue
    <3>4. QED
      BY <3>1, <3>2, <3>3 DEF ForksOf, Present
  <2>3. op[q].depth \in [RepoId -> Nat]
    BY <1>1, HandlerType
  <2>4. [op[q] EXCEPT !.pc = "remove", !.todo = {id}] =
          [op[q] EXCEPT !.pc = "remove", !.todo = {id}, !.depth = op[q].depth]
    BY <1>1, HandlerType DEF Handler
  <2> DEFINE plan == {id}
             depth == op[q].depth
  <2>5. Become(q, [op[q] EXCEPT !.pc = "remove", !.todo = plan, !.depth = depth])
    BY <2>1, <2>4
  <2>6. plan \in SUBSET RepoId /\ depth \in [RepoId -> Nat]
    BY <1>2, <2>3
  <2>7. \A f \in Kept(q) \ broken : alt[f].src \in plan => f \in plan /\ depth[f] > depth[alt[f].src]
    BY <2>2
  <2> HIDE DEF plan, depth
  <2>8. QED
    BY <1>2, <1>3, <2>5, <2>6, <2>7, PlannedStep
<1>6. QED
  BY <1>4, <1>5

\* The order of a cascade puts a fork below its source, and leaves out none
\* that the request has seen and that is not broken.
LEMMA PlanCascadeStep ==
  ASSUME ForkIInv, NEW q \in DeleteReqs, PlanCascade(q)
  PROVE  ForkIInv'
<1>1. q \in Req /\ ForkTypeOK
  BY DEF Req, ForkIInv
<1>2. RequestSound(q) /\ op[q].pc = "scan" /\ op[q].id \in RepoId
  BY <1>1 DEF ForkIInv, RequestsSound, PlanCascade, RequestSound
<1> DEFINE id == op[q].id
           plan == Below(id) \cup {id}
<1>3. /\ cache' = Refreshed({f \in Present : \E r \in plan : f # r})
      /\ UNCHANGED <<repoDir, alt, clock, broken, cut>>
  BY DEF PlanCascade
<1>4. PICK depth \in Depths(id) :
        Become(q, [op[q] EXCEPT !.pc = "remove", !.todo = plan, !.depth = depth])
  BY DEF PlanCascade
<1>5. Cardinality(RepoId) \in Nat
  BY FS_CardinalityType
<1>6. /\ depth \in [RepoId -> Nat]
      /\ \A f \in RepoId : depth[f] = IF f \in Below(id) THEN depth[LookupSource(f)] + 1 ELSE 0
  BY <1>5 DEF Depths
<1>7. plan \in SUBSET RepoId
  BY <1>2 DEF Below, ReachedFrom
<1>8. ASSUME NEW f \in Kept(q) \ broken, alt[f].src \in plan
      PROVE  f \in plan /\ depth[f] > depth[alt[f].src]
  <2>1. f \in RepoId /\ f \in Present /\ f # id
    BY <1>2 DEF Kept, Present, RequestSound
  <2>2. alt[f].src \in RepoId
    BY <1>7, <1>8
  <2>3. LookupSource(f) = alt[f].src
    BY <1>8, <2>1, <2>2, LookupTrue
  <2>4. f \in Below(id)
    BY <1>8, <2>1, <2>3, ReachedNext DEF Below
  <2>5. depth[f] = depth[alt[f].src] + 1
    BY <1>6, <2>1, <2>3, <2>4
  <2>6. QED
    BY <1>6, <2>2, <2>4, <2>5
<1> HIDE DEF plan
<1>9. QED
  BY <1>2, <1>3, <1>4, <1>6, <1>7, <1>8, PlannedStep

\* Of what a request removes next, no fork that it has seen and that is not
\* broken is left.
LEMMA NoneLeft ==
  ASSUME ForkIInv, NEW q \in DeleteReqs, op[q].pc = "remove", NEW r \in Deepest(q),
         NEW f \in ReachedFrom(r, [g \in Kept(q) |-> alt[g].src])
  PROVE  f \in broken
<1>1. q \in Req /\ ForkTypeOK /\ RequestSound(q)
  BY DEF Req, ForkIInv, RequestsSound
<1>2. /\ op[q].todo \in SUBSET RepoId /\ op[q].depth \in [RepoId -> Nat]
      /\ r \in op[q].todo /\ \A s \in op[q].todo : op[q].depth[s] <= op[q].depth[r]
  BY <1>1, HandlerType DEF Deepest
<1> DEFINE L == [g \in Kept(q) |-> alt[g].src]
           S == {r} \cup (Kept(q) \cap broken)
<1>3. S \in SUBSET RepoId /\ r \in S
  BY <1>2 DEF Kept, Present
<1>4. ASSUME NEW g \in DOMAIN L, L[g] \in S
      PROVE  g \in S
  <2>1. g \in Kept(q) /\ L[g] = alt[g].src
    OBVIOUS
  <2>2. CASE alt[g].src \in Kept(q) \cap broken
    BY <1>1, <2>1, <2>2 DEF RequestSound
  <2>3. CASE alt[g].src = r /\ g \notin broken
    <3>1. g \in op[q].todo /\ op[q].depth[g] > op[q].depth[r]
      BY <1>1, <1>2, <2>1, <2>3 DEF RequestSound
    <3>2. op[q].depth[g] <= op[q].depth[r] /\ op[q].depth[g] \in Nat /\ op[q].depth[r] \in Nat
      BY <1>2, <3>1
    <3>3. QED
      BY <3>1, <3>2
  <2>4. QED
    BY <1>4, <2>1, <2>2, <2>3
<1> HIDE DEF L, S
<1>5. ReachedFrom(r, L) \subseteq S \ {r}
  BY <1>3, <1>4, ReachedBound
<1>6. QED
  BY <1>5 DEF L, S

LEMMA RemoveStep ==
  ASSUME ForkIInv, NEW q \in DeleteReqs, Remove(q)
  PROVE  ForkIInv'
<1>1. q \in Req /\ q \notin ForkReqs /\ ForkTypeOK /\ RequestSound(q) /\ op[q].pc = "remove"
  BY DEF Req, ForkIInv, RequestsSound, Remove
<1>2. PICK r \in Deepest(q) :
          \/ Gone(q, r)
          \/ /\ IsDir(r)
             /\ repoDir' = [repoDir EXCEPT ![r] = "absent"]
             /\ alt' = [alt EXCEPT ![r] = NoFile]
             /\ broken' = (broken \cup Dependents(r)) \ {r}
             /\ cut' = cut \cup {WasThere(q, f, r) :
                                    f \in {g \in Dependents(r) \ broken :
                                             repoDir[g] = "whole" /\ op[q].mode # "force"}}
             /\ Become(q, [op[q] EXCEPT !.pc = "forget", !.id = r])
             /\ UNCHANGED <<clock, cache>>
  BY DEF Remove
<1>3. CASE Gone(q, r)
  BY <1>1, <1>3, EndStep DEF Gone
<1>4. CASE ~Gone(q, r)
  <2>1. r \in RepoId /\ r \in op[q].todo
    BY <1>1, HandlerType DEF Deepest
  <2>2. /\ repoDir' \in [RepoId -> {"absent", "partial", "whole"}]
        /\ alt' \in [RepoId -> File] /\ alt'[r] = NoFile /\ repoDir'[r] = "absent"
        /\ \A f \in RepoId \ {r} : alt'[f] = alt[f] /\ (IsDir(f)' <=> IsDir(f))
        /\ NoFile.mtime = 0 /\ NoFile.src = NoSource
    BY <1>1, <1>2, <1>4, <2>1 DEF ForkTypeOK, IsDir, NoFile, File, Source
  <2>3. Dependents(r) \subseteq RepoId
    BY DEF Dependents, ReachedFrom
  <2>4. broken' = (broken \cup Dependents(r)) \ {r} /\ UNCHANGED <<clock, cache>>
    BY <1>2, <1>4
  \* Whoever has its source in r, or in a repository that depends on r, depends on r.
  <2>5. ASSUME NEW f \in RepoId \ {r}, alt[f].src = r \/ alt[f].src \in Dependents(r)
        PROVE  f \in Dependents(r)
    <3> DEFINE L == [g \in Present |-> alt[g].src]
    <3>1. IsDir(f)
      BY <1>1, <2>1, <2>2, <2>3, <2>5 DEF ForkTypeOK
    <3>2. f \in DOMAIN L /\ L[f] = alt[f].src
      BY <3>1 DEF Present
    <3> HIDE DEF L
    <3>3. Dependents(r) = ReachedFrom(r, L)
      BY DEF Dependents, L
    <3>4. QED
      BY <2>5, <3>2, <3>3, ReachedNext
  <2>6. FilesStep
    <3>1. clock \in Nat /\ clock' = clock
      BY <1>1, <2>4 DEF ForkTypeOK
    <3>2. ASSUME NEW f \in RepoId, alt'[f] = alt[f], alt[f].src \in broken' \ broken
          PROVE  f \in broken'
      <4>1. alt[f].src \in Dependents(r) /\ alt[f].src \in RepoId
        BY <2>3, <2>4, <3>2
      <4>2. f # r
        BY <2>2, <3>2, <4>1
      <4>3. QED
        BY <2>4, <2>5, <4>1, <4>2
    <3>3. \A f \in RepoId : \/ alt'[f] = alt[f] /\ (f \in broken => f \in broken')
                            \/ alt'[f] = NoFile
      BY <2>2, <2>4
    <3>4. QED
      BY <2>2, <3>1, <3>2, <3>3 DEF FilesStep
  <2>7. BrokenKnown'
    <3> SUFFICES ASSUME NEW f \in RepoId, alt'[f].src # NoSource, f \notin broken'
                 PROVE  IsDir(alt[f].src)'
      BY DEF BrokenKnown
    <3>1. f # r /\ alt'[f] = alt[f]
      BY <2>2
    <3>2. f \notin broken /\ alt[f].src # r
      BY <2>4, <2>5, <3>1
    <3>3. IsDir(alt[f].src) /\ alt[f].src \in RepoId
      BY <3>1, <3>2 DEF ForkIInv, BrokenKnown, ForkTypeOK, File, Source
    <3>4. QED
      BY <2>2, <3>1, <3>2, <3>3
  <2>8. Dated' /\ HitsAreTrue'
    <3>1. Dated'
      BY <1>1, <2>2, <2>4 DEF ForkIInv, Dated, ForkTypeOK
    <3>2. HitsAreTrue'
      BY <2>2, <2>4 DEF ForkIInv, HitsAreTrue, Hit
    <3>3. QED
      BY <3>1, <3>2
  \* By the order of the removals, nobody who was there is cut off.
  <2>9. cut' \subseteq BOOLEAN /\ NoForkBroken'
    <3>1. \A f \in Dependents(r) \ broken : WasThere(q, f, r) = FALSE
      BY <1>1, NoneLeft DEF WasThere
    <3> DEFINE lost == {g \in Dependents(r) \ broken : repoDir[g] = "whole" /\ op[q].mode # "force"}
    <3>2. cut' = cut \cup {WasThere(q, f, r) : f \in lost}
      BY <1>2, <1>4, Zenon
    <3>3. \A f \in lost : WasThere(q, f, r) = FALSE
      BY <3>1
    <3> HIDE DEF lost
    <3>4. {WasThere(q, f, r) : f \in lost} \subseteq {FALSE}
      BY <3>3, Zenon
    <3>5. cut' \subseteq cut \cup {FALSE}
      BY <3>2, <3>4, Zenon
    <3>6. QED
      BY <1>1, <3>5 DEF ForkIInv, NoForkBroken, ForkTypeOK
  <2> DEFINE x == [op[q] EXCEPT !.pc = "forget", !.id = r]
  <2>10. /\ x \in Handler /\ x.pc = "forget" /\ x.id = r /\ x.seen = op[q].seen /\ x.mode = op[q].mode
         /\ x.todo = op[q].todo /\ x.depth = op[q].depth
    BY <1>1, <2>1, HandlerType DEF Handler, PC, Source
  <2> HIDE DEF x
  <2>11. Become(q, x) /\ op'[q] = x
    BY <1>1, <1>2, <1>4, <2>10, OpUpdate DEF x
  <2>12. RequestSound(q)'
    <3>1. \A f \in Kept(q)' : f \in RepoId /\ f \in Kept(q) /\ alt'[f] = alt[f] /\ (f \in broken => f \in broken')
      BY <1>1, <2>6, <2>10, <2>11, KeptShrinks DEF Kept, Present
    <3>2. r \notin Kept(q)'
      BY <2>2 DEF Kept, Present, IsDir
    <3>3. \A f \in RepoId, m \in Nat : <<f, m>> \in op'[q].seen => m \in 1 .. clock'
      BY <1>1, <2>4, <2>10, <2>11 DEF RequestSound
    <3>4. ASSUME NEW f \in Kept(q)', alt'[f].src \in Kept(q)' \cap broken'
          PROVE  f \in broken'
      <4>1. f \in RepoId /\ f \in Kept(q) /\ alt'[f] = alt[f] /\ alt[f].src \in Kept(q)
        BY <3>1, <3>4
      <4>2. CASE alt[f].src \in broken
        BY <1>1, <3>1, <4>1, <4>2 DEF RequestSound
      <4>3. CASE alt[f].src \notin broken
        BY <2>4, <2>5, <3>2, <3>4, <4>1, <4>3
      <4>4. QED
        BY <4>2, <4>3
    <3>5. ASSUME NEW f \in Kept(q)' \ broken', alt'[f].src \in op[q].todo
          PROVE  f \in op[q].todo /\ op[q].depth[f] > op[q].depth[alt'[f].src]
      BY <1>1, <3>1, <3>5 DEF RequestSound
    <3>6. QED
      BY <1>1, <2>1, <2>10, <2>11, <3>2, <3>3, <3>4, <3>5 DEF RequestSound
  <2>13. op' \in [Req -> Handler] /\ RequestsSound'
    BY <1>1, <2>6, <2>10, <2>11, <2>12, RequestsStep
  <2>14. ForkTypeOK'
    <3>1. \A f \in RepoId : ~IsDir(f)' => alt'[f] = NoFile
      BY <1>1, <2>2 DEF ForkTypeOK
    <3>2. broken' \subseteq RepoId
      BY <1>1, <2>3, <2>4 DEF ForkTypeOK
    <3>3. QED
      BY <1>1, <2>2, <2>4, <2>9, <2>13, <3>1, <3>2 DEF ForkTypeOK
  <2>15. QED
    BY <2>7, <2>8, <2>9, <2>13, <2>14 DEF ForkIInv
<1>5. QED
  BY <1>3, <1>4

LEMMA ForgetStep ==
  ASSUME ForkIInv, NEW q \in DeleteReqs, Forget(q)
  PROVE  ForkIInv'
<1>1. q \in Req /\ q \notin ForkReqs /\ ForkTypeOK /\ RequestSound(q) /\ op[q].pc = "forget"
  BY DEF Req, ForkIInv, RequestsSound, Forget
<1> DEFINE plan == op[q].todo \ {op[q].id}
           x == [op[q] EXCEPT !.pc = "remove", !.todo = plan]
<1>2. /\ cache' = [cache EXCEPT ![op[q].id] = NoEntry]
      /\ UNCHANGED <<repoDir, alt, clock, broken, cut>>
      /\ End(q) \/ Become(q, x)
  BY DEF Forget
<1>3. cache' \in [RepoId -> Entry] /\ \A r \in RepoId : cache'[r] = cache[r] \/ cache'[r] = NoEntry
  BY <1>1, <1>2 DEF ForkTypeOK, NoEntry, Entry, Source
<1>4. CASE End(q)
  BY <1>1, <1>2, <1>3, <1>4, RefusedStep
<1>5. CASE Become(q, x)
  <2>1. /\ x \in Handler /\ x.pc = "remove" /\ x.id = op[q].id /\ x.seen = op[q].seen
        /\ x.todo = plan /\ x.depth = op[q].depth /\ x.mode = op[q].mode
    BY <1>1, HandlerType DEF Handler, PC
  <2> HIDE DEF x
  <2>2. op'[q] = x
    BY <1>1, <1>5, <2>1, OpUpdate
  <2>3. Kept(q)' = Kept(q) /\ op[q].id \notin Kept(q)
    BY <1>1, <1>2, <2>1, <2>2 DEF Kept, Present, IsDir, RequestSound
  <2>4. RequestSound(q)'
    BY <1>1, <1>2, <2>1, <2>2, <2>3 DEF RequestSound
  <2>5. FilesStep
    BY <1>1, <1>2 DEF FilesStep, ForkTypeOK
  <2>6. op' \in [Req -> Handler] /\ RequestsSound'
    BY <1>1, <1>5, <2>1, <2>4, <2>5, RequestsStep
  <2>7. QED
    BY <1>2, <1>3, <2>6, CacheStep
<1>6. QED
  BY <1>2, <1>4, <1>5

LEMMA RestartStep ==
  ASSUME ForkIInv, Restart
  PROVE  ForkIInv'
<1>1. UNCHANGED <<repoDir, alt, clock, broken, cut>> /\ ForkTypeOK
  BY DEF Restart, ForkIInv
<1>2. cache' \in [RepoId -> Entry] /\ \A r \in RepoId : cache'[r] = NoEntry
  BY DEF Restart, NoEntry, Entry, Source
<1>3. \A q \in Req : op'[q] = op[q] \/ op'[q] = Ended
  BY DEF Restart
<1>4. op' \in [Req -> Handler]
  BY <1>1, <1>3, HandlerType, EndedType DEF Restart
<1>5. FilesStep
  BY <1>1 DEF FilesStep, ForkTypeOK
<1>6. RequestsSound'
  <2> SUFFICES ASSUME NEW q \in Req PROVE RequestSound(q)'
    BY DEF RequestsSound
  <2>1. CASE op'[q] = op[q]
    BY <1>5, <2>1, OthersSound
  <2>2. CASE op'[q] = Ended
    BY <2>2, EndedType, SeesNothing
  <2>3. QED
    BY <1>3, <2>1, <2>2
<1>7. QED
  BY <1>1, <1>2, <1>4, <1>6, CacheStep

-----------------------------------------------------------------------------
(* The theorems about ForkNetwork.                                         *)

LEMMA ForkInitSound == ForkInit => ForkIInv
<1> SUFFICES ASSUME ForkInit PROVE ForkIInv
  OBVIOUS
<1>1. NoFile \in File /\ NoFile.mtime = 0 /\ NoFile.src = NoSource
  BY DEF NoFile, File, Source
<1>2. \A s \in RepoId : [mtime |-> 1, src |-> s] \in File
  BY DEF File, Source
<1>3. alt \in [RepoId -> File] /\ \A r \in RepoId : alt[r].mtime \in {0, 1} /\ (alt[r].src # NoSource => alt[r].mtime = 1)
  BY <1>1, <1>2 DEF ForkInit
<1>4. NoEntry \in Entry /\ NoEntry.mtime = 0 /\ NoEntry.known = FALSE
  BY DEF NoEntry, Entry, Source
<1>5. cache \in [RepoId -> Entry] /\ \A r \in RepoId : cache[r] = NoEntry
  BY <1>4 DEF ForkInit
<1>6. op \in [Req -> Handler] /\ \A q \in Req : op[q] = Fresh
  BY FreshType DEF ForkInit
<1>7. \A r \in RepoId : ~IsDir(r) => alt[r] = NoFile
  BY DEF ForkInit, IsDir
<1>8. ForkTypeOK
  BY <1>3, <1>5, <1>6, <1>7 DEF ForkInit, ForkTypeOK
<1>9. Dated
  BY <1>3, <1>4, <1>5 DEF ForkInit, Dated
<1>10. BrokenKnown
  <2> SUFFICES ASSUME NEW f \in RepoId, alt[f].src # NoSource PROVE IsDir(alt[f].src)
    BY DEF BrokenKnown
  <2>1. alt[f] # NoFile
    BY <1>1
  <2>2. QED
    BY <2>1 DEF ForkInit, IsDir
<1>11. HitsAreTrue /\ NoForkBroken
  BY <1>4, <1>5 DEF ForkInit, HitsAreTrue, NoForkBroken, Hit
<1>12. ASSUME NEW q \in Req PROVE RequestSound(q)
  <2>1. op[q].pc = "idle" /\ op[q].seen = {}
    BY <1>6, FreshType
  <2>2. Kept(q) = {}
    BY <2>1 DEF Kept
  <2>3. QED
    BY <2>1, <2>2 DEF RequestSound
<1>13. QED
  BY <1>8, <1>9, <1>10, <1>11, <1>12 DEF ForkIInv, RequestsSound

LEMMA ForkStepSound ==
  ASSUME ~CoarseClock, ForkIInv, [ForkNext]_forkVars
  PROVE  ForkIInv'
<1>1. ASSUME NEW r \in RepoId, CreateRepo(r) \/ ListRepos(r) PROVE ForkIInv'
  BY <1>1, CreateRepoStep, ListReposStep
<1>2. ASSUME NEW q \in ForkReqs, ForkHandler(q) PROVE ForkIInv'
  BY <1>2, ForkRepoStep, CheckForkStep, MakeDirsStep, CreateAlternatesStep, WriteAlternatesStep,
     SnapshotRefsStep DEF ForkHandler
<1>3. ASSUME NEW q \in DeleteReqs, DeleteHandler(q) PROVE ForkIInv'
  BY <1>3, DeleteRepoStep, ScanForksStep, PlanCascadeStep, RemoveStep, ForgetStep DEF DeleteHandler
<1>4. ASSUME NEW q \in Req, Cancel(q) PROVE ForkIInv'
  BY <1>4, EndStep DEF Cancel
<1>5. CASE Restart
  BY <1>5, RestartStep
<1>6. CASE UNCHANGED forkVars
  BY <1>6 DEF forkVars, ForkIInv, ForkTypeOK, Dated, BrokenKnown, RequestsSound, RequestSound,
     HitsAreTrue, NoForkBroken, Hit, IsDir, Kept, Present
<1>7. QED
  BY <1>1, <1>2, <1>3, <1>4, <1>5, <1>6 DEF ForkNext

\* The invariant holds for every number of repositories, forks and deletes.
THEOREM ForkInvariance == ASSUME ~CoarseClock PROVE ForkSpec => []ForkIInv
<1>1. ForkIInv /\ [ForkNext]_forkVars => ForkIInv'
  BY ForkStepSound
<1>2. QED
  BY <1>1, ForkInitSound, PTL DEF ForkSpec

\* Directories, files, cache and requests keep their types, and no alternates
\* file outlives its directory.
THEOREM ForkTypeCorrect == ASSUME ~CoarseClock PROVE ForkSpec => []ForkTypeOK
<1>1. ForkIInv => ForkTypeOK
  BY DEF ForkIInv
<1>2. QED
  BY <1>1, ForkInvariance, PTL

\* DELETE without force, default or cascade, never breaks a fork that was there
\* when the request came in, with the forks between: however many requests
\* fork, delete and poll at the same time.
THEOREM ForksStayWhole == ASSUME ~CoarseClock PROVE ForkSpec => []NoForkBroken
<1>1. ForkIInv => NoForkBroken
  BY DEF ForkIInv
<1>2. QED
  BY <1>1, ForkInvariance, PTL

\* What AlternatesCache::lookup answers from memory is what the alternates file
\* says, for every fork that has its source.
THEOREM HitsStayTrue == ASSUME ~CoarseClock PROVE ForkSpec => []HitsAreTrue
<1>1. ForkIInv => HitsAreTrue
  BY DEF ForkIInv
<1>2. QED
  BY <1>1, ForkInvariance, PTL
=============================================================================
