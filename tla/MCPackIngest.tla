---------------------------- MODULE MCPackIngest ----------------------------
(***************************************************************************)
(* Packs of up to three entries over two payloads that are deltas of each  *)
(* other: chains in both directions, bases after their deltas, thin packs, *)
(* cycles, bases that are missing, broken deltas and sizes, an offset that *)
(* wraps and one that is refused.                                          *)
(*                                                                         *)
(* The parsers of MCParsers run beside: a behaviour is of one or the other *)
(* and leaves the state of the other as it starts.                         *)
(***************************************************************************)
EXTENDS PackIngest, MCParsers

VARIABLE who

Short == [kind |-> "blob", data |-> <<0>>]
Long  == [kind |-> "blob", data |-> <<0, 1>>]

Copy(o, n) == [kind |-> "copy", off |-> o, len |-> n]
Insert(s)  == [kind |-> "insert", data |-> s]

Grow   == [src |-> <<1>>, dst |-> <<2>>, ops |-> <<Copy(0, 1), Insert(<<1>>)>>]
Shrink == [src |-> <<2, 0>>, dst |-> <<1>>, ops |-> <<Copy(0, 1)>>]
Swap   == [src |-> <<2>>, dst |-> <<2>>, ops |-> <<Copy(1, 1), Copy(0, 1)>>]
Over   == [src |-> <<1>>, dst |-> <<2>>, ops |-> <<Copy(0, 2)>>]
Wide   == [src |-> <<1>>, dst |-> <<2, 0, 0>>, ops |-> <<Copy(0, 1), Insert(<<1>>)>>]

Ofs(c, d) == [kind |-> "ofs", code |-> c, delta |-> d]
Ref(o, d) == [kind |-> "ref", base |-> o, delta |-> d]
Direct(o, s) == [kind |-> "direct", obj |-> o, size |-> s]

Entries ==
  {Direct(Short, <<1>>), Direct(Long, <<0, 1>>), Direct(Short, <<0, 1>>), Direct(Long, <<1, 0>>)}
  \cup {Ofs(c, d) : c \in {<<0>>, <<1>>, <<0, 0>>, <<1, 0>>}, d \in {Grow, Shrink}}
  \cup {Ofs(<<0, 1, 1>>, Grow), Ofs(<<0, 0, 1, 0>>, Grow)}
  \cup {Ref(Short, Grow), Ref(Long, Shrink), Ref(Long, Swap), Ref(Short, Over), Ref(Short, Wide)}

MCPacks == UNION {[1 .. n -> Entries] : n \in 1 .. 3}

(* An empty pack that has been ingested.                                   *)
PackIsIn ==
  /\ pack = << >> /\ intact = TRUE /\ mode = "full" /\ store = {}
  /\ phase = "done" /\ i = 1
  /\ resolved = << >> /\ pending = << >> /\ still = << >> /\ before = 0
  /\ count = 0 /\ err = "none"
  /\ stable = {} /\ seen = {} /\ other = 0

MCInit ==
  \/ /\ who = "pack" /\ IngestInit /\ (mode = "full" \/ Len(pack) <= 2)
     /\ request = Absent /\ response = Absent
     /\ PktStart([frames |-> << >>, bytes |-> << >>])
  \/ who = "parser" /\ ParseInit /\ PackIsIn

MCNext ==
  /\ UNCHANGED who
  /\ \/ who = "pack" /\ IngestNext /\ UNCHANGED parseVars
     \/ who = "parser" /\ (ReadFrame \/ Respond) /\ UNCHANGED ingestVars

MCSpec ==
  MCInit /\ [][MCNext]_<<ingestVars, parseVars, who>> /\ WF_ingestVars(who = "pack" /\ Ingest)

MCStores == {{}, {Short}, {Long}}
=============================================================================
