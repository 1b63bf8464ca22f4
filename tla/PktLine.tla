------------------------------ MODULE PktLine ------------------------------
(***************************************************************************)
(* pkt-line framing (pkt_line.rs): frames written to a byte stream, and    *)
(* the iterator that reads them back from a stream that may be cut short   *)
(* or may never have been frames at all.                                   *)
(*                                                                         *)
(* A byte is what `read` can tell apart: a hex digit 0..15, a plus sign,   *)
(* which Rust's from_str_radix accepts before a number, or another byte.   *)
(***************************************************************************)
EXTENDS Naturals, Sequences, SequencesExt

CONSTANTS MaxPayload,  \* PKT_LINE_MAX_PAYLOAD
          Streams      \* what peers send: bytes, and the frames they are cut from

Plus == 16
Other == 17

Byte == 0..Other

VARIABLE pkt  \* the stream, the buffer of PktIter and what it has yielded

Sentinel(kind) == [kind |-> kind, data |-> <<>>]
Data(bytes) == [kind |-> "data", data |-> bytes]

-----------------------------------------------------------------------------
(* Writing.                                                                *)

Clamp(payload) == SubSeq(payload, 1, IF Len(payload) > MaxPayload THEN MaxPayload ELSE Len(payload))

(* format!("{:04x}"), of a number that has four digits.                    *)
Hex4(n) == <<n \div 4096, (n \div 256) % 16, (n \div 16) % 16, n % 16>>

(* A bug: the length is taken before the payload is truncated.             *)
WriteLengthFirst(payload) == Hex4(Len(payload) + 4) \o Clamp(payload)

WriteData(payload) == Hex4(Len(Clamp(payload)) + 4) \o Clamp(payload)

SentinelLength == [flush |-> 0, delim |-> 1, resp_end |-> 2]

WriteFrame(f) == IF f.kind = "data" THEN WriteData(f.data) ELSE Hex4(SentinelLength[f.kind])

WriteFrames(frames) ==
    LET bytes[n \in 0..Len(frames)] ==
            IF n = 0 THEN <<>> ELSE bytes[n - 1] \o WriteFrame(frames[n])
    IN  bytes[Len(frames)]

(* The advertisement of protocol v2: the service, then the capabilities,   *)
(* each part closed by a flush.                                            *)
NativeV2InfoRefs(service, capabilities) ==
    WriteData(service) \o Hex4(0)
    \o WriteFrames([n \in DOMAIN capabilities |-> Data(capabilities[n])])
    \o Hex4(0)

-----------------------------------------------------------------------------
(* Reading.                                                                *)

IsHex(digits) == Range(digits) \subseteq 0..15

(* u16::from_str_radix: a sign is allowed if a digit follows it.           *)
FromStrRadix(p) ==
    LET digits == IF p[1] = Plus THEN Tail(p) ELSE p
    IN  IF IsHex(digits)
        THEN LET value[n \in 0..Len(digits)] ==
                     IF n = 0 THEN 0 ELSE 16 * value[n - 1] + digits[n]
             IN  value[Len(digits)]
        ELSE -1

Failed(error) == [line |-> Sentinel(error), rest |-> <<>>, ok |-> FALSE]
Took(line, rest) == [line |-> line, rest |-> rest, ok |-> TRUE]

PktRead(buf) ==
    LET n == FromStrRadix(SubSeq(buf, 1, 4))
        after == SubSeq(buf, 5, Len(buf))
    IN  IF Len(buf) < 4 THEN Failed("truncated")
        ELSE CASE n = 0 -> Took(Sentinel("flush"), after)
               [] n = 1 -> Took(Sentinel("delim"), after)
               [] n = 2 -> Took(Sentinel("resp_end"), after)
               [] n = -1 \/ n = 3 -> Failed("bad_length")
               [] n > MaxPayload + 4 -> Failed("oversized")
               [] n \in 4..MaxPayload + 4 /\ Len(buf) < n -> Failed("short_payload")
               [] OTHER -> Took(Data(SubSeq(buf, 5, n)), SubSeq(buf, n + 1, Len(buf)))

(* A stream: the frames that were written, and the bytes that arrive.      *)
PktStart(s) ==
    pkt = [frames |-> s.frames, bytes |-> s.bytes, buf |-> s.bytes,
           got |-> <<>>, error |-> "none", done |-> FALSE]

(* PktIter::next, until it yields None.                                    *)
PktNext ==
    /\ ~pkt.done
    /\ IF pkt.buf = <<>>
       THEN pkt' = [pkt EXCEPT !.done = TRUE]
       ELSE LET r == PktRead(pkt.buf)
            IN  pkt' = IF r.ok
                       THEN [pkt EXCEPT !.got = Append(@, r.line), !.buf = r.rest]
                       ELSE [pkt EXCEPT !.error = r.line.kind, !.done = TRUE]

PktSpec == (\E s \in Streams : PktStart(s)) /\ [][PktNext]_pkt

(* What `write` is given and `read` gives.                                 *)
IsFrame(f) ==
    IF f.kind = "data"
    THEN f = Data(f.data) /\ f.data \in Seq(Byte)
    ELSE f.kind \in DOMAIN SentinelLength /\ f = Sentinel(f.kind)

(* The length of a frame has four digits.  Of frames that are written any  *)
(* part may arrive.                                                        *)
ASSUME PktAssumption ==
    /\ MaxPayload \in Nat /\ MaxPayload <= 65531
    /\ \A s \in Streams :
          /\ s.bytes \in Seq(Byte)
          /\ s.frames \in Seq(Range(s.frames)) /\ \A n \in DOMAIN s.frames : IsFrame(s.frames[n])
          /\ s.frames # <<>> => IsPrefix(s.bytes, WriteFrames(s.frames))

-----------------------------------------------------------------------------

Written(frames) ==
    [i \in DOMAIN frames |->
        IF frames[i].kind = "data" THEN Data(Clamp(frames[i].data)) ELSE frames[i]]

(* Reading undoes writing.  Whatever the bytes are, the frames read are    *)
(* those whose encoding is what was consumed, up to a plus sign in a       *)
(* length.  When the bytes are frames that were written, cut anywhere, the *)
(* frames before the cut come back as they were, except that a payload too *)
(* long for one frame has lost its end, and there is an error exactly if   *)
(* the cut goes through a frame.                                           *)
FramesExact ==
    /\ Plus \notin Range(pkt.bytes) => pkt.bytes = WriteFrames(pkt.got) \o pkt.buf
    /\ pkt.done /\ pkt.frames # <<>> =>
           LET upTo(n) == SubSeq(pkt.frames, 1, n)
               whole == Max({n \in 0..Len(pkt.frames) : IsPrefix(WriteFrames(upTo(n)), pkt.bytes)})
           IN  /\ pkt.got = Written(upTo(whole))
               /\ pkt.error = "none" <=> pkt.bytes = WriteFrames(upTo(whole))

=============================================================================
