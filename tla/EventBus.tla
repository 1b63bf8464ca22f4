------------------------------ MODULE EventBus ------------------------------
(***************************************************************************)
(* The in-process event bus, its SSE subscribers and the dispatcher that   *)
(* serves the in-memory webhook registry.                                  *)
(*                                                                         *)
(* The bus is a tokio broadcast channel: a ring of the last BusCapacity    *)
(* events, read by each receiver at its own position.  A receiver that has *)
(* been overtaken is told how many events it missed and goes on at the     *)
(* oldest one kept.  A receiver is a position in the history of the bus.   *)
(*                                                                         *)
(* A subscription is a record [id, repo, events, secret].  Names that do   *)
(* not clash with those of WebhookKeys let one model hold both.            *)
(***************************************************************************)
EXTENDS Naturals, Sequences, FiniteSets

CONSTANTS Published,     \* the events that handlers publish
          Subscriptions, \* the webhooks that may be registered
          Client,        \* SSE clients
          BusCapacity,   \* EVENT_CHANNEL_CAPACITY
          NoSecret,
          MaxSent        \* bound on the events published

EventKind == {"commit", "fork", "status"}

(* An empty set of kinds asks for all of them.                             *)
Subscription(s) == DOMAIN s = {"id", "repo", "events", "secret"} /\ s.events \subseteq EventKind

ASSUME BusAssumption ==
    /\ \A ev \in Published : ev.kind \in EventKind
    /\ \A s \in Subscriptions : Subscription(s)
    /\ BusCapacity \in Nat \ {0}
    /\ MaxSent \in Nat

VARIABLES
    sent,        \* history: the events published, in order
    stream,      \* the SSE stream of each client
    hooks,       \* MemRegistry
    born,        \* history: the first position sent after a hook was added
    dispatcher,  \* the dispatcher's receiver and its drop counter
    handled,     \* history: the positions it has dispatched
    jobs,        \* blocking tasks on their way to a receiver
    posted,      \* history: the deliveries made
    outcomes     \* artifacts_webhook_deliveries_total, by outcome

busVars == <<sent, stream, hooks, born, dispatcher, handled, jobs, posted, outcomes>>

delivery == <<dispatcher, handled, jobs, posted, outcomes>>

Stream == [open : BOOLEAN, from : 0..MaxSent, pos : 0..MaxSent,
           out : Seq(Published \cup [kind : {"lag"}, dropped : 1..MaxSent])]

Delivery == Subscriptions \X (1..MaxSent)

BusTypeOK ==
    /\ sent \in Seq(Published) /\ Len(sent) <= MaxSent
    /\ stream \in [Client -> Stream]
    /\ hooks \subseteq Subscriptions
    /\ born \in [Subscriptions -> 0..MaxSent + 1]
    /\ dispatcher \in [alive : BOOLEAN, pos : 0..MaxSent, dropped : 0..MaxSent]
    /\ handled \subseteq 1..MaxSent
    /\ {j.for : j \in jobs} \cup posted \subseteq Delivery
    /\ outcomes \in [{"success", "client_error", "exhausted"} -> Nat]

Closed == [open |-> FALSE, from |-> 0, pos |-> 0, out |-> <<>>]

(* The dispatcher subscribes before any handler can publish.  There is one *)
(* only with the in-memory registry: the SQLite one has an outbox.         *)
BusInit ==
    /\ sent = <<>>
    /\ stream = [c \in Client |-> Closed]
    /\ hooks = {}
    /\ born = [s \in Subscriptions |-> 0]
    /\ dispatcher \in [alive : BOOLEAN, pos : {0}, dropped : {0}]
    /\ handled = {}
    /\ jobs = {}
    /\ posted = {}
    /\ outcomes = [success |-> 0, client_error |-> 0, exhausted |-> 0]

-----------------------------------------------------------------------------
(* The channel.                                                            *)

Publish(ev) ==
    /\ Len(sent) < MaxSent
    /\ sent' = Append(sent, ev)
    /\ UNCHANGED <<stream, hooks, born, delivery>>

Oldest == IF Len(sent) > BusCapacity THEN Len(sent) - BusCapacity ELSE 0

Lag(n) == [kind |-> "lag", dropped |-> n]

(* What recv gives at a position, and the position after it.               *)
Recv(pos) ==
    IF pos < Oldest
    THEN [item |-> Lag(Oldest - pos), pos |-> Oldest]
    ELSE [item |-> sent[pos + 1], pos |-> pos + 1]

-----------------------------------------------------------------------------
(* GET /v1/events                                                          *)

SseConnect(c) ==
    /\ ~stream[c].open
    /\ stream' = [stream EXCEPT ![c] =
           [open |-> TRUE, from |-> Len(sent), pos |-> Len(sent), out |-> <<>>]]
    /\ UNCHANGED <<sent, hooks, born, delivery>>

SseDisconnect(c) ==
    /\ stream[c].open
    /\ stream' = [stream EXCEPT ![c] = Closed]
    /\ UNCHANGED <<sent, hooks, born, delivery>>

(* A bug: lag is filtered out of the stream.                               *)
SendEventsOnly(c) ==
    /\ stream[c].open /\ stream[c].pos < Len(sent)
    /\ LET got == Recv(stream[c].pos)
       IN  stream' = [stream EXCEPT
               ![c].out = IF got.item.kind = "lag" THEN @ ELSE Append(@, got.item),
               ![c].pos = got.pos]
    /\ UNCHANGED <<sent, hooks, born, delivery>>

SseSend(c) ==
    /\ stream[c].open /\ stream[c].pos < Len(sent)
    /\ LET got == Recv(stream[c].pos)
       IN  stream' = [stream EXCEPT ![c].out = Append(@, got.item),
                                    ![c].pos = got.pos]
    /\ UNCHANGED <<sent, hooks, born, delivery>>

-----------------------------------------------------------------------------
(* The registry.  An id is a fresh UUID: a subscription is added once.     *)

MemAdd(s) ==
    /\ born[s] = 0
    /\ hooks' = hooks \cup {s}
    /\ born' = [born EXCEPT ![s] = Len(sent) + 1]
    /\ UNCHANGED <<sent, stream, delivery>>

MemRemove(s) ==
    /\ s \in hooks
    /\ hooks' = {x \in hooks : ~(x.repo = s.repo /\ x.id = s.id)}
    /\ UNCHANGED <<sent, stream, born, delivery>>

Matching(repo, kind) ==
    {s \in hooks : s.repo = repo /\ (s.events = {} \/ kind \in s.events)}

(* An event belongs to one repository: a fork to the one it was made from. *)
RepoAndKind(ev) ==
    [repo |-> IF ev.kind = "fork" THEN ev.parent ELSE ev.repo, kind |-> ev.kind]

-----------------------------------------------------------------------------
(* The dispatcher.                                                         *)

RecordDispatcherLag(n) ==
    /\ dispatcher' = [dispatcher EXCEPT !.dropped = @ + n, !.pos = Oldest]
    /\ UNCHANGED <<handled, jobs>>

SignBody(secret, body) ==
    IF secret = NoSecret THEN NoSecret ELSE [hmac |-> secret, over |-> body]

(* One blocking task for each matching subscription, without a limit.      *)
DirectDispatch(ev, at) ==
    LET about == RepoAndKind(ev)
    IN  jobs' = jobs \cup
            {[for |-> <<s, at>>, signature |-> SignBody(s.secret, ev)] :
                s \in Matching(about.repo, about.kind)}

DispatchEvent(ev, at) ==
    /\ dispatcher' = [dispatcher EXCEPT !.pos = at]
    /\ handled' = handled \cup {at}
    /\ DirectDispatch(ev, at)

Dispatch ==
    /\ dispatcher.alive /\ dispatcher.pos < Len(sent)
    /\ LET got == Recv(dispatcher.pos)
       IN  IF got.item.kind = "lag"
           THEN RecordDispatcherLag(got.item.dropped)
           ELSE DispatchEvent(got.item, got.pos)
    /\ UNCHANGED <<sent, stream, hooks, born, posted, outcomes>>

CancelDispatcher ==
    /\ dispatcher.alive
    /\ dispatcher' = [dispatcher EXCEPT !.alive = FALSE]
    /\ UNCHANGED <<sent, stream, hooks, born, handled, jobs, posted, outcomes>>

Outcome(answer) ==
    CASE answer = "ok"  -> "success"
      [] answer = "4xx" -> "client_error"
      [] OTHER          -> "exhausted"

(* A single attempt: whatever the receiver answers is final.               *)
Post(j) ==
    /\ jobs' = jobs \ {j}
    /\ posted' = posted \cup {j.for}
    /\ \E answer \in {"ok", "4xx", "5xx"} :
           outcomes' = [outcomes EXCEPT ![Outcome(answer)] = @ + 1]
    /\ UNCHANGED <<sent, stream, hooks, born, dispatcher, handled>>

-----------------------------------------------------------------------------

BusNext ==
    \/ \E ev \in Published : Publish(ev)
    \/ \E c \in Client : SseConnect(c) \/ SseDisconnect(c) \/ SseSend(c)
    \/ \E s \in Subscriptions : MemAdd(s) \/ MemRemove(s)
    \/ Dispatch \/ CancelDispatcher
    \/ \E j \in jobs : Post(j)

BusSpec == BusInit /\ [][BusNext]_busVars

-----------------------------------------------------------------------------

(* What a client can make of its stream: an event takes it one position    *)
(* on and is the one due there, a lag notice as many as it says.           *)
Follows(out, from, pos) ==
    \E at \in [0 .. Len(out) -> 0 .. Len(sent)] :
        /\ at[0] = from /\ at[Len(out)] = pos
        /\ \A i \in 1 .. Len(out) :
               IF out[i].kind = "lag"
               THEN at[i] = at[i - 1] + out[i].dropped
               ELSE at[i] = at[i - 1] + 1 /\ out[i] = sent[at[i]]

Owed(s, at) ==
    LET about == RepoAndKind(sent[at])
    IN  s.repo = about.repo /\ (s.events = {} \/ about.kind \in s.events)

(* No overflow of the ring is silent (sse_stream, spawn_dispatcher).  A    *)
(* client that counts lag notices knows at every moment which event of the *)
(* bus it has got to, and each event it was given is the one due there.    *)
(* The drop counter is the number of events the dispatcher never saw.  An  *)
(* event it did see is, for every hook registered ever since before it was *)
(* published, posted or under way if it matches, and only then; and every  *)
(* delivery has exactly one outcome.                                       *)
NothingLostSilently ==
    /\ \A c \in Client : stream[c].open =>
           Follows(stream[c].out, stream[c].from, stream[c].pos)
    /\ Cardinality(handled) + dispatcher.dropped = dispatcher.pos
    /\ \A at \in handled, s \in hooks : born[s] <= at =>
           (Owed(s, at) <=> <<s, at>> \in posted \cup {j.for : j \in jobs})
    /\ Cardinality(posted) =
           outcomes.success + outcomes.client_error + outcomes.exhausted

=============================================================================
