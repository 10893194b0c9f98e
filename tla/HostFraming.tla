----------------------------- MODULE HostFraming -----------------------------
(***************************************************************************)
(* The bytes between the host and a device: CRC, COBS and the frame codec   *)
(* (host_protocol.h), the stream parser that cuts the byte stream into      *)
(* frames (host_protocol_stream.h), the message boundary of serviceRx       *)
(* (host_role_integration.h) and the counters it keeps                      *)
(* (host_protocol_diagnostics.h).                                           *)
(*                                                                         *)
(* Bytes, checksum and encoding are the real ones.  The payload is shorter  *)
(* than in the code, so that an OPERATION_REQUEST is always too short for   *)
(* decodeOperationRequest; HELLO_REQUEST has its real two bytes.  A frame   *)
(* is at most 254 bytes, so the COBS code 0xFF is never written, and never  *)
(* accepted: its block would be longer than the candidate.                  *)
(***************************************************************************)
EXTENDS Integers, Sequences, SequencesExt, Bitwise

CONSTANTS MaxPayload,   \* MAX_PAYLOAD_SIZE
          Frames,       \* the frames the host writes
          Noise,        \* the bytes a fault may put on the line
          CounterLimit, \* UINT32_MAX
          MaxFrames,    \* bound on the frames the host writes
          MaxFaults     \* bound on the faults of the line

ASSUME FramingAssumption ==
    /\ MaxPayload \in Nat /\ MaxPayload + 10 < 254
    /\ Noise \subseteq 0 .. 255
    /\ CounterLimit \in Nat /\ MaxFrames \in Nat /\ MaxFaults \in Nat

HelloRequest == 1
OperationRequest == 16
MessageTypes == {HelloRequest, 2, OperationRequest, 17, 127}

HeaderSize == 8
MinDecoded == HeaderSize + 2
MaxDecoded == MinDecoded + MaxPayload
MaxCandidate == MaxDecoded + 1
Delimiter == 0

-----------------------------------------------------------------------------
(* The codec *)

(* n shifts of the register by the polynomial 0x1021 *)
Shifted[n \in 0 .. 8, crc \in 0 .. 65535] ==
    IF n = 0 THEN crc
    ELSE Shifted[n - 1, IF crc >= 32768 THEN ((2 * crc) % 65536) ^^ 4129 ELSE 2 * crc]

(* crc16CcittFalse *)
Crc16(bytes) ==
    LET crc[n \in 0 .. Len(bytes)] ==
            IF n = 0 THEN 65535 ELSE Shifted[8, crc[n - 1] ^^ (bytes[n] * 256)]
    IN  crc[Len(bytes)]

(* cobsEncode: every zero ends a block, and a block starts with its length *)
Block(run) == <<Len(run) + 1>> \o run
CobsByte(a, byte) ==
    IF byte = 0 THEN [out |-> a.out \o Block(a.run), run |-> <<>>]
    ELSE [a EXCEPT !.run = Append(@, byte)]
CobsEncode(bytes) ==
    LET a == FoldLeft(CobsByte, [out |-> <<>>, run |-> <<>>], bytes)
    IN  a.out \o Block(a.run)

Malformed == <<-1>>

(* cobsDecode; Malformed also stands for a block that does not fit *)
RECURSIVE CobsDecode(_, _)
CobsDecode(in, out) ==
    IF in = <<>> THEN out
    ELSE LET code == Head(in)
             run == SubSeq(in, 2, code)
             rest == SubSeq(in, code + 1, Len(in))
             next == out \o run \o (IF rest = <<>> THEN <<>> ELSE <<0>>)
         IN  IF code = 0 \/ code > Len(in) \/ Contains(run, 0) \/ Len(next) > MaxDecoded
             THEN Malformed
             ELSE CobsDecode(rest, next)

Word(lo, hi) == lo + 256 * hi
Bytes(word) == <<word % 256, word \div 256>>

(* encodeFrame, for the frames that it does not refuse *)
EncodeFrame(f) ==
    LET header == <<f.major, f.minor, f.type, f.flags>> \o Bytes(f.id) \o Bytes(Len(f.payload))
        body == header \o f.payload
    IN  Append(CobsEncode(body \o Bytes(Crc16(body))), Delimiter)

(* The envelope's vocabulary, checked in this order once the CRC matches *)
Vocabulary(f) ==
    IF f.major # 0 THEN "UNSUPPORTED_MAJOR"
    ELSE IF f.minor \notin 1 .. 2 THEN "UNSUPPORTED_MINOR"
    ELSE IF f.type \notin MessageTypes THEN "UNSUPPORTED_MESSAGE_TYPE"
    ELSE IF f.flags # 0 THEN "UNSUPPORTED_FLAGS"
    ELSE IF f.id = 0 /\ f.type # 127 THEN "INVALID_REQUEST_ID"
    ELSE "OK"

NoFrame == [major |-> 0]
Refused(why) == [result |-> why, frame |-> NoFrame]

(* The declared length, the CRC and then the vocabulary of decoded bytes *)
Envelope(d) ==
    LET size == Word(d[7], d[8])
        end == HeaderSize + size
    IN  IF size > MaxPayload THEN Refused("PAYLOAD_TOO_LARGE")
        ELSE IF Len(d) # MinDecoded + size THEN Refused("LENGTH_MISMATCH")
        ELSE IF Crc16(SubSeq(d, 1, end)) # Word(d[end + 1], d[end + 2])
        THEN Refused("CRC_MISMATCH")
        ELSE LET f == [major |-> d[1], minor |-> d[2], type |-> d[3], flags |-> d[4],
                       id |-> Word(d[5], d[6]), payload |-> SubSeq(d, HeaderSize + 1, end)]
             IN  [result |-> Vocabulary(f), frame |-> f]

(* decodeFrame, of a candidate that is not empty *)
DecodeFrame(candidate) ==
    LET d == CobsDecode(candidate, <<>>)
    IN  IF d = Malformed THEN Refused("MALFORMED_COBS")
        ELSE IF Len(d) < MinDecoded THEN Refused("DECODED_LENGTH_INVALID")
        ELSE Envelope(d)

-----------------------------------------------------------------------------
(* The parser *)

EmptyParser == [candidate |-> <<>>, discarding |-> FALSE]
Step(parser, event, decoded) == [parser |-> parser, event |-> event, decoded |-> decoded]

(* Mutant: a rejected candidate stays in the buffer *)
ConsumeKeeps(p, byte) ==
    IF byte = Delimiter /\ p.candidate = <<>> THEN Step(p, "NONE", Refused("OK"))
    ELSE IF byte = Delimiter
    THEN LET d == DecodeFrame(p.candidate)
         IN  IF d.result = "OK" THEN Step(EmptyParser, "FRAME_READY", d)
             ELSE Step(p, "FRAME_REJECTED", d)
    ELSE IF Len(p.candidate) < MaxCandidate
    THEN Step([p EXCEPT !.candidate = Append(@, byte)], "NONE", Refused("OK"))
    ELSE Step([EmptyParser EXCEPT !.discarding = TRUE], "NONE", Refused("OK"))

(* consume, of one byte *)
Consume(p, byte) ==
    IF p.discarding /\ byte = Delimiter
    THEN Step(EmptyParser, "OVERSIZED_CANDIDATE", Refused("ENCODED_FRAME_TOO_LARGE"))
    ELSE IF p.discarding \/ (byte = Delimiter /\ p.candidate = <<>>)
    THEN Step(p, "NONE", Refused("OK"))
    ELSE IF byte = Delimiter
    THEN LET d == DecodeFrame(p.candidate)
         IN  Step(EmptyParser, IF d.result = "OK" THEN "FRAME_READY" ELSE "FRAME_REJECTED", d)
    ELSE IF Len(p.candidate) < MaxCandidate
    THEN Step([p EXCEPT !.candidate = Append(@, byte)], "NONE", Refused("OK"))
    ELSE Step([EmptyParser EXCEPT !.discarding = TRUE], "NONE", Refused("OK"))

-----------------------------------------------------------------------------
(* The message boundary and its counters *)

(* isValidHelloMinorRange *)
HelloRangeIsValid(minor, least, most) ==
    IF minor = 1 THEN least = 1 /\ most = 1 ELSE least # 0 /\ most # 0 /\ least <= most

(* selectHighestSupportedMinor; 0 when none of 1 .. 2 is in the range *)
SelectedMinor(least, most) ==
    IF least = 0 \/ most = 0 \/ least > most THEN 0
    ELSE IF least <= 2 /\ most >= 2 THEN 2
    ELSE IF least <= 1 /\ most >= 1 THEN 1 ELSE 0

(* serviceRx: the class of a frame that is ready.  decodeHelloRequest and   *)
(* decodeOperationRequest                                                   *)
Boundary(f) ==
    IF f.type = HelloRequest
    THEN IF Len(f.payload) = 2 /\ HelloRangeIsValid(f.minor, f.payload[1], f.payload[2])
         THEN "accepted" ELSE "malformed"
    ELSE IF f.type = OperationRequest THEN "malformed" ELSE "types"

(* observeDecodeFailure *)
Failure(result) ==
    IF result \in {"UNSUPPORTED_MAJOR", "UNSUPPORTED_MINOR"} THEN "versions"
    ELSE IF result = "UNSUPPORTED_MESSAGE_TYPE" THEN "types" ELSE "malformed"

(* saturatingAdd *)
SaturatingAdd(n) == IF n < CounterLimit THEN n + 1 ELSE n

(* observeFrame *)
ObserveFrame(counts, step) ==
    LET class == IF step.event = "FRAME_READY" THEN Boundary(step.decoded.frame)
                 ELSE Failure(step.decoded.result)
    IN  IF step.event = "NONE" THEN counts
        ELSE [counts EXCEPT !.received = SaturatingAdd(@), ![class] = SaturatingAdd(@)]

-----------------------------------------------------------------------------
(* The line: the host writes frames, the device takes one byte at a time *)

VARIABLES wire,       \* the bytes the device has not read
          parser,     \* StreamParser
          counts,     \* HostProtocolDiagnostics
          sent,       \* history: the frames the host wrote
          trusted,    \* history: the frames whose checksum the device accepted
          faults      \* faults of the line so far
framingVars == <<wire, parser, counts, sent, trusted, faults>>

Counters == {"received", "accepted", "malformed", "versions", "types", "resets"}

FramingInit ==
    /\ wire = <<>> /\ parser = EmptyParser /\ counts = [c \in Counters |-> 0]
    /\ sent = <<>> /\ trusted = <<>> /\ faults = 0

(* Adapter.serviceRx and Stack.serviceRx, for one byte *)
ServiceByte(byte) ==
    LET step == Consume(parser, byte)
    IN  /\ parser' = step.parser
        /\ counts' = ObserveFrame(counts, step)
        /\ trusted' = IF step.decoded.frame = NoFrame THEN trusted
                      ELSE Append(trusted, step.decoded.frame)

Receives ==
    /\ wire # <<>> /\ ServiceByte(Head(wire)) /\ wire' = Tail(wire)
    /\ UNCHANGED <<sent, faults>>

(* observeConnection(false): the transport is reset and the disconnection counted *)
Disconnects ==
    /\ parser' = EmptyParser
    /\ counts' = [counts EXCEPT !.resets = SaturatingAdd(@)]
    /\ wire' \in {wire, <<>>}

(* The host, and what can happen to its bytes *)
HostWrites(f) ==
    /\ wire = <<>> /\ Len(sent) < MaxFrames
    /\ wire' = EncodeFrame(f) /\ sent' = Append(sent, f)
    /\ UNCHANGED <<parser, counts, trusted, faults>>

ByteChanged(b) == wire # <<>> /\ b # Head(wire) /\ ServiceByte(b) /\ wire' = Tail(wire)
ByteLost == wire # <<>> /\ wire' = Tail(wire) /\ UNCHANGED <<parser, counts, trusted>>
ByteAdded(b) == ServiceByte(b) /\ UNCHANGED wire
HostStops == wire # <<>> /\ wire' = <<>> /\ UNCHANGED <<parser, counts, trusted>>
HostFloods ==
    /\ wire = <<>> /\ wire' = [i \in 1 .. MaxCandidate + 1 |-> 1]
    /\ UNCHANGED <<parser, counts, trusted>>

Fault ==
    /\ faults < MaxFaults /\ faults' = faults + 1 /\ UNCHANGED sent
    /\ \/ \E b \in Noise : ByteChanged(b)
       \/ ByteLost
       \/ \E b \in Noise : ByteAdded(b)
       \/ HostStops
       \/ HostFloods
       \/ Disconnects /\ UNCHANGED trusted

FramingNext == Receives \/ Fault \/ \E f \in Frames : HostWrites(f)

FramingSpec == FramingInit /\ [][FramingNext]_framingVars

-----------------------------------------------------------------------------
(* The properties *)

(* The candidate stays within the parser's buffer of                        *)
(* MAX_COBS_CANDIDATE_SIZE bytes, whatever the host writes                  *)
FramingTypeOK ==
    /\ Len(parser.candidate) <= MaxCandidate
    /\ \A i \in DOMAIN parser.candidate : parser.candidate[i] \in 1 .. 255
    /\ parser.discarding => parser.candidate = <<>>
    /\ counts \in [Counters -> 0 .. CounterLimit]

(* The frames whose checksum decodeFrame accepts are frames the host wrote, *)
(* whole and in the order it wrote them: a byte that is changed, lost or    *)
(* added, a write that stops half way or a reset in the middle of a frame   *)
(* never makes one frame out of parts of others.  Once the line is read to  *)
(* its end at most two frames are lost for every fault: after a candidate   *)
(* that it rejects or that is too long the parser resumes at the next       *)
(* delimiter.                                                               *)
OnlySentFrames ==
    /\ FramingTypeOK
    /\ \E places \in [DOMAIN trusted -> DOMAIN sent] :
           /\ \A i \in DOMAIN trusted : trusted[i] = sent[places[i]]
           /\ \A i, j \in DOMAIN trusted : i < j => places[i] < places[j]
    /\ wire = <<>> => Len(sent) - Len(trusted) <= 2 * faults

(* A HELLO_REQUEST whose range of minors has none the device supports is     *)
(* counted as an unsupported version.                                        *)
HelloRangesAreVersions ==
    LET Unsupported(f) == \/ Vocabulary(f) \in {"UNSUPPORTED_MAJOR", "UNSUPPORTED_MINOR"}
                          \/ /\ Vocabulary(f) = "OK" /\ f.type = HelloRequest
                             /\ Len(f.payload) = 2
                             /\ SelectedMinor(f.payload[1], f.payload[2]) = 0
    IN  counts.versions >= Min({Len(SelectSeq(trusted, Unsupported)), CounterLimit})
=============================================================================
