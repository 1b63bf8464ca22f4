--------------------------- MODULE MCWebhookKeys ---------------------------
(***************************************************************************)
(* Webhooks besides the outbox: the secrets and their keys, and the bus.   *)
(* The two share no state, nor do an SSE client and the dispatcher: each   *)
(* behaviour runs one of the three and leaves the others as they start.    *)
(*                                                                         *)
(* Keys: two subscriptions and two rotations, with a key for each and the  *)
(* first.  Bus: a ring of one, overtaken twice; hooks that match all kinds *)
(* of event, one kind, or another repository's events not at all.          *)
(***************************************************************************)
EXTENDS WebhookKeys, EventBus, TLC

VARIABLE who

CommitOf(r) == [kind |-> "commit", repo |-> r]
MCPublished == {CommitOf("a"), CommitOf("b"), [kind |-> "fork", parent |-> "a", child |-> "b"]}
MCSubscriptions ==
    {[id |-> 1, repo |-> "a", events |-> {}, secret |-> "key"],
     [id |-> 2, repo |-> "a", events |-> {"fork"}, secret |-> NoSecret]}

MCInit ==
    /\ who \in {"keys", "sse", "dispatcher"}
    /\ KeysInit
    /\ BusInit /\ dispatcher.alive = (who = "dispatcher")

MCNext ==
    /\ UNCHANGED who
    /\ \/ who = "keys" /\ KeysNext /\ UNCHANGED busVars
       \/ who = "sse" /\ BusNext /\ UNCHANGED <<keysVars, hooks>>
       \/ who = "dispatcher" /\ BusNext /\ UNCHANGED <<keysVars, stream>>

MCSpec == MCInit /\ [][MCNext]_<<keysVars, busVars, who>>

Symmetry == Permutations(Hook) \cup Permutations(Rotators) \cup Permutations(Key)
============================================================================
