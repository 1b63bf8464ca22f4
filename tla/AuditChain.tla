----------------------------- MODULE AuditChain -----------------------------
(***************************************************************************)
(* The durable audit log (audit.rs): a SQLite table whose rows carry a     *)
(* SHA-256 hash chain, appended to by every mutating handler, pruned by a  *)
(* retention task and verified on demand.                                  *)
(*                                                                         *)
(* A handler takes the timestamp before it reaches the database, so rows   *)
(* are not in timestamp order, and the wall clock may jump.  SHA-256 is    *)
(* taken to be injective: the hash of a row is the sequence of the         *)
(* contents hashed along the chain up to it.                               *)
(***************************************************************************)
EXTENDS Integers, Sequences, FiniteSets

CONSTANTS Writers,    \* handlers that record an event
          Data,       \* event, actor, repo, fields and request id of an event
          Retention,  \* seconds an event survives; 0: pruning is disabled
          MaxTime,    \* bound on the wall clock
          MaxId       \* bound on the row ids handed out

ASSUME RetentionAssumption == Retention \in Nat
ASSUME BoundsAssumption == MaxTime \in Nat /\ MaxId \in Nat

VARIABLES rows,     \* audit_events
          nextId,   \* its AUTOINCREMENT counter
          now,      \* wall clock, unix seconds
          pending,  \* the event each handler is about to record
          log       \* history: every row as it was inserted

vars == <<rows, nextId, now, pending, log>>

Time == 0 .. MaxTime
Content == [ts : Time, data : Data]
Hash == Seq(Content)
GenesisHash == <<>>

(* Rows inserted before the hash columns existed have NULLs there and are  *)
(* not part of the chain.                                                  *)
Row == [id : 0 .. MaxId, content : Content, chained : BOOLEAN, prev : Hash, hash : Hash]

Legacy(d) == [id |-> 0, content |-> [ts |-> 0, data |-> d], chained |-> FALSE,
              prev |-> GenesisHash, hash |-> GenesisHash]

Init ==
    /\ now = 0
    /\ rows \in {{}} \cup {{Legacy(d)} : d \in Data}
    /\ nextId = 1
    /\ pending = [w \in Writers |-> {}]
    /\ log = rows

HashRow(prev, c) == Append(prev, c)

Chained == {r \in rows : r.chained}

OldestHash ==
    IF Chained = {} THEN GenesisHash
    ELSE (CHOOSE r \in Chained : \A s \in Chained : r.id <= s.id).hash

(* SELECT row_hash ... WHERE row_hash IS NOT NULL ORDER BY id DESC LIMIT 1 *)
TailHash ==
    IF Chained = {} THEN GenesisHash
    ELSE (CHOOSE r \in Chained : \A s \in Chained : s.id <= r.id).hash

(* record_silent stamps the event ...                                      *)
Stamp(w) ==
    /\ pending[w] = {}
    /\ \E d \in Data : pending' = [pending EXCEPT ![w] = {[ts |-> now, data |-> d]}]
    /\ UNCHANGED <<rows, nextId, now, log>>

NewRow(c) == [id |-> nextId, content |-> c, chained |-> TRUE,
              prev |-> TailHash, hash |-> HashRow(TailHash, c)]

(* ... and record reads the tail and inserts under one BEGIN IMMEDIATE     *)
(* transaction.                                                            *)
Record(w) ==
    /\ nextId <= MaxId
    /\ \E c \in pending[w] :
          /\ rows' = rows \cup {NewRow(c)}
          /\ log' = log \cup {NewRow(c)}
    /\ nextId' = nextId + 1
    /\ pending' = [pending EXCEPT ![w] = {}]
    /\ UNCHANGED now

(* The transaction fails (pool exhausted, database busy, disk full): the   *)
(* error is logged and the handler's mutation stands unaudited.            *)
RecordFails(w) ==
    /\ pending[w] # {}
    /\ pending' = [pending EXCEPT ![w] = {}]
    /\ UNCHANGED <<rows, nextId, now, log>>

(* One tick of the retention task: prune_older_than(now - retention).      *)
Prune ==
    /\ Retention > 0
    /\ rows' = {r \in rows : r.content.ts >= now - Retention}
    /\ UNCHANGED <<nextId, now, pending, log>>

ClockChange ==
    /\ now' \in Time
    /\ UNCHANGED <<rows, nextId, pending, log>>

(* Somebody with access to the file rewrites the content of a row.         *)
Tamper(r, c) ==
    /\ rows' = (rows \ {r}) \cup {[r EXCEPT !.content = c]}
    /\ UNCHANGED <<nextId, now, pending, log>>

Next ==
    \/ \E w \in Writers : Stamp(w) \/ Record(w) \/ RecordFails(w)
    \/ Prune
    \/ ClockChange
    \/ \E r \in rows, c \in Content : Tamper(r, c)

Spec == Init /\ [][Next]_vars

(* verify_chain: one scan in id order.                                     *)
ExpectedPrev(r) ==
    LET earlier == {s \in Chained : s.id < r.id}
    IN IF earlier = {} THEN GenesisHash
       ELSE (CHOOSE s \in earlier : \A t \in earlier : t.id <= s.id).hash

VerifyRowsOnly == \A r \in Chained : r.hash = HashRow(r.prev, r.content)

VerifyChain ==
    \A r \in Chained : r.prev = ExpectedPrev(r) /\ r.hash = HashRow(r.prev, r.content)

----------------------------------------------------------------------------
(* Rows, clock and stamped events have their types, and no row has an id   *)
(* that AUTOINCREMENT is still to hand out.                                *)
TypeOK ==
    /\ rows \in SUBSET Row
    /\ nextId \in 1 .. MaxId + 1
    /\ \A r \in rows \cup log : r.id < nextId
    /\ now \in Time
    /\ pending \in [Writers -> SUBSET Content]
    /\ log \in SUBSET Row

StrictPrefix(h, g) == Len(h) < Len(g) /\ \A i \in 1 .. Len(h) : h[i] = g[i]

(* The chain never forks: whatever recorders raced, whatever retention     *)
(* deleted from under them and however timestamps are ordered, each row's  *)
(* hash covers the history of every row before it that is still there.     *)
ChainNeverForks ==
    \A r, s \in Chained : r.id < s.id => StrictPrefix(r.hash, s.hash)

(* A recorder never turns a log that verifies into one that does not: the  *)
(* row it inserts is chained to the row that is the last one at that       *)
(* moment, however many others recorded since it took its timestamp.       *)
RecordKeepsVerdict ==
    [][(\E w \in Writers : Record(w)) => (VerifyChain => VerifyChain')]_vars

(* A row whose content differs from what was recorded is never accepted,   *)
(* also when rows around it have been pruned or appended since.            *)
EditsAreDetected == VerifyChain => Chained \subseteq log

(* What verify_chain really decides: every chained row is as recorded, and *)
(* no row that a surviving one is chained to is missing.                   *)
NoHoles ==
    \A r \in Chained : Len(r.hash) = Cardinality({s \in Chained : s.id <= r.id})
VerdictIsExact == VerifyChain <=> (Chained \subseteq log /\ NoHoles)

(* rest/admin.rs: verify-chain "Returns 500 with a descriptive error on    *)
(* the first mismatch (post-hoc tampering of the SQLite file ...)": it     *)
(* reports a mismatch only when a row was changed behind its back.         *)
MismatchMeansTampering == VerifyChain \/ ~(rows \subseteq log)
=============================================================================
