----------------------------- MODULE PackIngest -----------------------------
(***************************************************************************)
(* native_pack/parse.rs: the pack parser and delta resolver behind         *)
(* SqliteObjectStore::ingest_pack (FsObjectStore hands its packs to gix).  *)
(* A pack is parsed whole, its direct objects are written to the store,    *)
(* and its deltas are resolved in passes: an OFS_DELTA names its base by   *)
(* the distance in the pack, a REF_DELTA by object id, which is looked up  *)
(* in the store.  Meanwhile other pushes write to that store and the       *)
(* garbage collector deletes from it.  Two earlier entry points do less:   *)
(* one takes no OFS_DELTA, the other no delta at all.                      *)
(*                                                                         *)
(* An object is its kind and payload, and is its own id (git's SHA-1 of    *)
(* both).  Every entry is one unit long.  A byte holds two bits of a size  *)
(* (one in the first byte of a header) instead of seven (four), and one    *)
(* bit of an offset.  Sizes have at most two bytes, instead of nine in a   *)
(* header, which fit a word, and ten in a delta, where the last one does   *)
(* not, as it is with a word of three bits.                                *)
(***************************************************************************)
EXTENDS Integers, Sequences, FiniteSets, SequencesExt

CONSTANTS Packs,     \* the packs that clients send
          Stores,    \* the objects a repository may already have
          Resolvers, \* the entry points: "full", "ref", "direct"
          Word,      \* 2^64: sizes and offsets are computed in u64
          MaxCap,    \* MAX_ENTRY_BYTES
          MaxOther,  \* bound on the steps of others
          NoValue    \* what does not decode or apply

VARIABLES
    pack,      \* the entries, in the order of the pack
    intact,    \* whether header, counts, zlib streams ... are well formed
    mode,      \* the entry point
    store,     \* the loose objects of the repository
    phase, i,     \* where store_with_full_resolution is
    resolved,  \* index -> the object an entry stands for, as far as known
    pending, still, before,   \* the queue of a pass
    count, err,
    stable,    \* objects of others in the store all the time so far
    seen,      \* objects of others in the store at any time so far
    other

ingestVars == <<pack, intact, mode, store, phase, i, resolved, pending, still, before, count,
          err, stable, seen, other>>

Index == DOMAIN pack

-----------------------------------------------------------------------------
(* Sizes, deltas and offsets.                                              *)

\* Groups of two bits, the lowest first.
Groups(code) == FoldRight(LAMBDA g, v : g + 4 * v, code, 0)

\* parse_entry_header: refuses a byte that would not fit the word.
DeclaredSize(code) ==
  IF Len(code) > 2 THEN NoValue ELSE Head(code) + 2 * Groups(Tail(code))

\* read_delta_varint: refuses a byte that would start past the word, and
\* drops the bits of the last one that do not fit.
ReadDeltaVarint(code) ==
  IF Len(code) > 2 THEN NoValue ELSE Groups(code) % Word

\* One instruction: what it appends, or NoValue when it is out of range.
Piece(base, op) ==
  IF op.kind = "copy"
  THEN IF op.off + op.len > Len(base) THEN NoValue
       ELSE SubSeq(base, op.off + 1, op.off + op.len)
  ELSE IF op.data = << >> THEN NoValue ELSE op.data

\* apply_delta: the source size, the cap, the instructions, the target size.
ApplyDelta(base, d) ==
  LET pieces == [n \in DOMAIN d.ops |-> Piece(base, d.ops[n])]
      dst == ReadDeltaVarint(d.dst)
  IN  IF \/ ReadDeltaVarint(d.src) # Len(base)
         \/ dst = NoValue \/ dst > MaxCap
         \/ \E n \in DOMAIN pieces : pieces[n] = NoValue
         \/ Len(FlattenSeq(pieces)) # dst
      THEN NoValue
      ELSE FlattenSeq(pieces)

\* A bug: the continuation adds no 1, so that codes collide.
DecodeOffsetPlain(code) ==
  LET value[k \in 1 .. Len(code)] ==
        IF k = 1 THEN code[1] ELSE ((value[k - 1] * 2) % Word) + code[k]
  IN  value[Len(code)]

\* parse_ofs_delta_offset: one more for every continuation, which checked_add
\* refuses at the end of the word, and a shift, which checked_shl takes for
\* good even when it drops bits.
DecodeOffset(code) ==
  LET value[k \in 1 .. Len(code)] ==
        IF k = 1 THEN code[1]
        ELSE IF value[k - 1] \in {NoValue, Word - 1} THEN NoValue
        ELSE (((value[k - 1] + 1) * 2) % Word) + code[k]
  IN  value[Len(code)]

-----------------------------------------------------------------------------
IngestInit ==
  /\ pack \in Packs
  /\ intact \in BOOLEAN
  /\ mode \in Resolvers
  /\ store \in Stores
  /\ phase = "parse" /\ i = 1
  /\ resolved = << >>
  /\ pending = << >> /\ still = << >> /\ before = 0
  /\ count = 0 /\ err = "none"
  /\ stable = store /\ seen = store
  /\ other = 0

otherUnchanged == UNCHANGED <<pack, intact, mode, stable, seen, other>>

Fail(why) == phase' = "failed" /\ err' = why

\* An entry inflates to no more than it declares; it may be less.
Inflates(e) ==
  e.kind = "direct" =>
    LET size == DeclaredSize(e.size)
    IN  size # NoValue /\ size <= MaxCap /\ Len(e.obj.data) <= size

\* The offset of an OFS_DELTA is read with its header.
Decodes(e) == e.kind = "ofs" => DecodeOffset(e.code) # NoValue

\* parse_pack reads all entries before anything is stored.
ParsePack ==
  /\ phase = "parse"
  /\ IF intact /\ \A n \in Index : Inflates(pack[n]) /\ Decodes(pack[n])
       THEN phase' = "direct" /\ UNCHANGED err
       ELSE Fail("parse")
  /\ UNCHANGED <<store, i, resolved, pending, still, before, count>> /\ otherUnchanged

\* write_loose of the object that entry n turned out to be.
Store(n, o) ==
  /\ store' = store \cup {o}
  /\ resolved' = [m \in DOMAIN resolved \cup {n} |-> IF m = n THEN o ELSE resolved[m]]
  /\ count' = count + 1

\* Phase 1: the direct entries.
StoreDirect ==
  /\ phase = "direct"
  /\ i \in Index
  /\ i' = i + 1
  /\ \/ /\ pack[i].kind = "direct"
        /\ Store(i, pack[i].obj)
        /\ UNCHANGED <<phase, err>>
     \/ /\ pack[i].kind # "direct"
        /\ IF mode = "direct" THEN Fail("unsupported") ELSE UNCHANGED <<phase, err>>
        /\ UNCHANGED <<store, resolved, count>>
  /\ UNCHANGED <<pending, still, before>> /\ otherUnchanged

\* Phase 2 starts with every entry that is not resolved.
QueueDeltas ==
  /\ phase = "direct"
  /\ i \notin Index
  /\ LET deltas == Index \ DOMAIN resolved
     IN  \E queue \in [1 .. Cardinality(deltas) -> deltas] :
           /\ Range(queue) = deltas
           /\ \A a, b \in DOMAIN queue : a < b => queue[a] < queue[b]
           /\ pending' = queue
  /\ before' = Len(pending')
  /\ IF mode = "ref" /\ \E n \in Range(pending') : pack[n].kind = "ofs"
       THEN Fail("unsupported")
       ELSE phase' = (IF pending' = << >> THEN "done" ELSE "pass") /\ UNCHANGED err
  /\ UNCHANGED <<store, i, resolved, still, count>> /\ otherUnchanged

\* Where an OFS_DELTA points, in units of entries.
BaseIndex(n) == n - DecodeOffset(pack[n].code)

\* Whether the resolver finds the base now: in the store, or in the pack.
FindsBase(n) ==
  IF pack[n].kind = "ref" THEN pack[n].base \in store ELSE BaseIndex(n) \in DOMAIN resolved

Base(n) == IF pack[n].kind = "ref" THEN pack[n].base ELSE resolved[BaseIndex(n)]

\* The next delta of the pass: resolved and written, put off, or an error.
Resolve ==
  /\ phase = "pass"
  /\ pending # << >>
  /\ LET n == Head(pending)
         lost == pack[n].kind = "ofs" /\ BaseIndex(n) \notin Index
         out == ApplyDelta(Base(n).data, pack[n].delta)
     IN  /\ pending' = Tail(pending)
         /\ \/ /\ lost
               /\ Fail("offset")
               /\ UNCHANGED <<store, resolved, count, still>>
            \/ /\ ~lost /\ ~FindsBase(n)
               /\ still' = Append(still, n)
               /\ UNCHANGED <<store, resolved, count, phase, err>>
            \/ /\ ~lost /\ FindsBase(n) /\ out = NoValue
               /\ Fail("delta")
               /\ UNCHANGED <<store, resolved, count, still>>
            \/ /\ ~lost /\ FindsBase(n) /\ out # NoValue
               /\ Store(n, [kind |-> Base(n).kind, data |-> out])
               /\ UNCHANGED <<still, phase, err>>
  /\ UNCHANGED <<i, before>> /\ otherUnchanged

\* A bug: a pass that resolved nothing is followed by another.
EndPassAnyway ==
  /\ phase = "pass"
  /\ pending = << >>
  /\ IF still = << >> THEN phase' = "done" /\ UNCHANGED <<err, pending, still, before>>
     ELSE /\ pending' = still /\ before' = Len(still) /\ still' = << >>
          /\ UNCHANGED <<phase, err>>
  /\ UNCHANGED <<store, i, resolved, count>> /\ otherUnchanged

\* The end of a pass: done, stuck when it resolved nothing, or once more.
EndPass ==
  /\ phase = "pass"
  /\ pending = << >>
  /\ \/ still = << >> /\ phase' = "done" /\ UNCHANGED <<err, pending, still, before>>
     \/ /\ still # << >> /\ Len(still) = before
        /\ Fail("stuck") /\ UNCHANGED <<pending, still, before>>
     \/ /\ still # << >> /\ Len(still) # before
        /\ pending' = still /\ before' = Len(still) /\ still' = << >>
        /\ UNCHANGED <<phase, err>>
  /\ UNCHANGED <<store, i, resolved, count>> /\ otherUnchanged

\* write_loose fails: the error leaves what is written so far behind.
WriteFails ==
  /\ other < MaxOther
  /\ other' = other + 1
  /\ phase \in {"direct", "pass"}
  /\ Fail("write")
  /\ UNCHANGED <<pack, intact, mode, store, i, resolved, pending, still, before, count, stable, seen>>

Ingesting == phase \notin {"done", "failed"}

\* Another push lands an object.
OtherWrites(o) ==
  /\ Ingesting
  /\ other < MaxOther
  /\ other' = other + 1
  /\ store' = store \cup {o}
  /\ seen' = seen \cup {o}
  /\ UNCHANGED <<pack, intact, mode, phase, i, resolved, pending, still, before, count, err, stable>>

\* gc deletes an old object that this ingest did not write (what it wrote
\* is younger than the guard).
OldDeleted(o) ==
  /\ Ingesting
  /\ other < MaxOther
  /\ other' = other + 1
  /\ o \in stable /\ \A n \in DOMAIN resolved : resolved[n] # o
  /\ store' = store \ {o}
  /\ stable' = stable \ {o}
  /\ UNCHANGED <<pack, intact, mode, phase, i, resolved, pending, still, before, count, err, seen>>

Objects == UNION Stores

Ingest == ParsePack \/ StoreDirect \/ QueueDeltas \/ Resolve \/ EndPass

IngestNext ==
  \/ Ingest \/ WriteFails
  \/ \E o \in Objects : OtherWrites(o) \/ OldDeleted(o)

\* ingest_pack is straight-line code in a thread of its own.
IngestSpec == IngestInit /\ [][IngestNext]_ingestVars /\ WF_ingestVars(Ingest)

-----------------------------------------------------------------------------
(* The reference: what a pack means, whatever the order of its entries.    *)

\* The distance that a code stands for, as far as a word goes: a numeral in
\* base two with the digits one and two, counted from zero.
Numeral(code) ==
  LET number[k \in 0 .. Len(code)] ==
        IF k = 0 THEN 0 ELSE 2 * number[k - 1] + (code[k] + 1)
  IN  number[Len(code)]

Distance(code) == (Numeral(code) - 1) % Word

\* What n may be a delta of, among the known entries and the objects in ext.
Bases(p, known, ext, n) ==
  IF p[n].kind = "ref"
  THEN {p[n].base} \cap (ext \cup {k[2] : k \in known})
  ELSE {k[2] : k \in {x \in known : x[1] = n - Distance(p[n].code)}}

Target(b, delta) == [kind |-> b.kind, data |-> ApplyDelta(b.data, delta)]

\* One more round of deltas over the entries of p that are known.
Derive(p, known, ext) ==
  known \cup
  UNION {{<<n, Target(b, p[n].delta)>> :
            b \in {c \in Bases(p, known, ext, n) : ApplyDelta(c.data, p[n].delta) # NoValue}} :
         n \in {m \in DOMAIN p : p[m].kind # "direct"}}

\* The entries of p and their objects, as rounds of deltas make them known.
Rounds(p, ext) ==
  LET Round[r \in 0 .. Len(p)] ==
        IF r = 0
        THEN {<<n, p[n].obj>> : n \in {m \in DOMAIN p : p[m].kind = "direct"}}
        ELSE Derive(p, Round[r - 1], ext)
  IN  Round

\* What p means, given the objects of others in ext.
Meaning(p, ext) == Rounds(p, ext)[Len(p)]

\* A word has an even number of values; packs are sequences of entries.
ASSUME PackAssumption ==
  /\ Word \in Nat \ {0} /\ Word % 2 = 0
  /\ \A p \in Packs :
       /\ p \in Seq(Range(p))
       /\ \A n \in DOMAIN p :
            /\ p[n].kind \in {"direct", "ref", "ofs"}
            /\ p[n].kind = "ofs" => p[n].code \in Seq({0, 1}) /\ p[n].code # << >>

-----------------------------------------------------------------------------
(* Properties.                                                             *)

\* The resolvers against the reference: whatever they write is what the
\* entry means; they are done only when every entry is written and counted;
\* and they report a missing base only for entries that the bases at hand
\* all along do not give.  A pack that does not parse writes nothing.
ResolvesExactly ==
  /\ \A n \in DOMAIN resolved :
       <<n, resolved[n]>> \in Meaning(pack, seen) /\ resolved[n] \in store
  /\ phase = "done" => count = Len(pack) /\ DOMAIN resolved = Index
  /\ err = "stuck" =>
       \A k \in Range(still) : \A x \in Meaning(pack, stable) : x[1] # k
  /\ err = "parse" => count = 0

\* The passes end, in particular when bases are missing.
Terminates == <>(phase \in {"done", "failed"})
=============================================================================
