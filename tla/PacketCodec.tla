----------------------------- MODULE PacketCodec -----------------------------
(***************************************************************************)
(* Packet.encode and Packet.decode (app/packet.py), the checksum           *)
(* (app/checksum.py) and the simulator's corrupt_bytes (app/simulator.py)  *)
(* between them.                                                           *)
(*                                                                         *)
(* A byte is the set of its bits that are 1, a datagram a sequence of      *)
(* bytes.  The layout is the code's, in its order, but every field is one  *)
(* byte wide: WordMax stands for 0xFFFFFFFF and a CRC of eight bits for    *)
(* the CRC32 of zlib, computed the same way (reflected, started from ones  *)
(* and complemented).                                                      *)
(***************************************************************************)
EXTENDS Integers, Sequences

LOCAL INSTANCE FiniteSetsExt

CONSTANTS
  MaxPayload,    \* MAX_PAYLOAD_SIZE
  MaxMutations   \* bound on the mutations of corrupt_bytes, 3 in the code

ASSUME CodecAssumption ==
  /\ MaxPayload \in 0..255
  /\ MaxMutations \in 1..3

VARIABLES
  stage,     \* made, encoded, refused (encode raised), decoded; or beyond
  packet,    \* the Packet object of the sending side
  wire,      \* the datagram
  link,      \* what happened to it: intact, corrupted or stray
  mutations, \* how many mutations corrupt_bytes made
  result     \* what decode returned or raised

codecVars == <<stage, packet, wire, link, mutations, result>>

-----------------------------------------------------------------------------
(* Bytes and their checksum *)

Bits    == 0..7
WordMax == 255

(* The low eight bits of a number, as struct.pack would keep them. *)
ByteOf(n) == {b \in Bits : (n \div 2^b) % 2 = 1}
Value(byte) ==
  LET Bit(b) == IF b \in byte THEN 2^b ELSE 0
  IN Bit(0) + Bit(1) + Bit(2) + Bit(3) + Bit(4) + Bit(5) + Bit(6) + Bit(7)

(* One step of the division by x^8 + x^2 + x + 1, bits reflected. *)
DivideStep(rest) ==
  LET shifted == {b - 1 : b \in rest \ {0}} IN
  IF 0 \in rest THEN SymDiff(shifted, {5, 6, 7}) ELSE shifted

CrcTable ==
  [byte \in SUBSET Bits |->
     LET rest[n \in 0..8] == IF n = 0 THEN byte ELSE DivideStep(rest[n - 1]) IN rest[8]]

calculate_checksum(data) ==
  LET rest[n \in 0..Len(data)] ==
        IF n = 0 THEN Bits ELSE CrcTable[SymDiff(rest[n - 1], data[n])]
  IN Bits \ rest[Len(data)]

-----------------------------------------------------------------------------
(* encode *)

HeaderSize == 8
Magic      == 82
Version    == 1

Header(p, checksum) ==
  <<ByteOf(Magic), ByteOf(Version), ByteOf(p.pkt_type), ByteOf(p.session_id),
    ByteOf(p.seq_num), ByteOf(p.ack_num), ByteOf(Len(p.payload)), checksum>>

NoChecksum == {}

(* Mutant: the checksum covers the payload only. *)
ChecksumOfPayload(p) == calculate_checksum(p.payload)

ChecksumOf(p) == calculate_checksum(Header(p, NoChecksum) \o p.payload)

Raises(error) == [error |-> error]
Returns(value) == [error |-> "none", value |-> value]

(* Mutant: a sequence number that does not fit is packed all the same. *)
EncodeWraps(p) ==
  IF p.session_id \notin 1..WordMax THEN Raises("InvalidSessionIdError")
  ELSE IF Len(p.payload) > MaxPayload THEN Raises("InvalidPayloadLengthError")
  ELSE Returns(Header(p, ChecksumOf(p)) \o p.payload)

(* Mutant: a payload of any length is packed. *)
EncodeUnlimited(p) ==
  IF p.session_id \notin 1..WordMax THEN Raises("InvalidSessionIdError")
  ELSE IF p.seq_num \notin 0..WordMax \/ p.ack_num \notin 0..WordMax
       THEN Raises("InvalidSequenceNumberError")
  ELSE Returns(Header(p, ChecksumOf(p)) \o p.payload)

Encode(p) ==
  IF p.session_id \notin 1..WordMax THEN Raises("InvalidSessionIdError")
  ELSE IF p.seq_num \notin 0..WordMax \/ p.ack_num \notin 0..WordMax
       THEN Raises("InvalidSequenceNumberError")
  ELSE IF Len(p.payload) > MaxPayload THEN Raises("InvalidPayloadLengthError")
  ELSE Returns(Header(p, ChecksumOf(p)) \o p.payload)

-----------------------------------------------------------------------------
(* decode *)

Unpacked(raw) ==
  [pkt_type |-> Value(raw[3]), session_id |-> Value(raw[4]),
   seq_num |-> Value(raw[5]), ack_num |-> Value(raw[6]),
   payload |-> SubSeq(raw, HeaderSize + 1, HeaderSize + Value(raw[7]))]

(* Mutant: trailing bytes are cut off in silence. *)
IgnoresTrailing(raw) == FALSE

HasTrailing(raw) == Len(raw) > HeaderSize + Value(raw[7])

(* The checks in the order of the code; those of seq_num and ack_num cannot *)
(* fail on what struct.unpack returns.                                      *)
Decode(raw) ==
  IF Len(raw) < HeaderSize THEN Raises("PacketTruncatedError")
  ELSE IF Len(raw) > HeaderSize + MaxPayload THEN Raises("OversizedPacketError")
  ELSE IF Value(raw[1]) # Magic THEN Raises("InvalidHeaderError")
  ELSE IF Value(raw[2]) # Version THEN Raises("InvalidVersionError")
  ELSE IF Value(raw[3]) \notin 1..7 THEN Raises("InvalidPacketTypeError")
  ELSE IF Value(raw[4]) = 0 THEN Raises("InvalidSessionIdError")
  ELSE IF Value(raw[7]) > MaxPayload THEN Raises("InvalidPayloadLengthError")
  ELSE IF Len(raw) < HeaderSize + Value(raw[7]) THEN Raises("PacketTruncatedError")
  ELSE IF HasTrailing(raw) THEN Raises("OversizedPacketError")
  ELSE IF ChecksumOf(Unpacked(raw)) # raw[8] THEN Raises("ChecksumMismatchError")
  ELSE Returns(Unpacked(raw))

-----------------------------------------------------------------------------
(* corrupt_bytes *)

Masks == {{0}, {1}, {2}, {7}, Bits}

(* The data after one more mutation of a random byte by a random mask. *)
Mutated(data) ==
  {[data EXCEPT ![i] = SymDiff(@, mask)] : i \in DOMAIN data, mask \in Masks}

-----------------------------------------------------------------------------
NoPacket == Raises("nothing decoded yet")

(* A Packet object is about to be sent. *)
PacketIsMade(p) ==
  /\ stage' = "made"
  /\ packet' = p
  /\ UNCHANGED <<wire, link, mutations, result>>

EncodePacket ==
  /\ stage = "made"
  /\ IF Encode(packet).error = "none"
     THEN stage' = "encoded" /\ wire' = Encode(packet).value
     ELSE stage' = "refused" /\ UNCHANGED wire
  /\ UNCHANGED <<packet, link, mutations, result>>

(* The loop of corrupt_bytes, one mutation a step. *)
Corrupt ==
  /\ stage = "encoded" /\ link \in {"intact", "corrupted"}
  /\ mutations < MaxMutations
  /\ wire' \in Mutated(wire)
  /\ link' = "corrupted" /\ mutations' = mutations + 1
  /\ UNCHANGED <<stage, packet, result>>

(* A datagram of some other program: the beginning of one of ours, or one   *)
(* of ours and more.                                                        *)
Stray ==
  /\ stage = "encoded" /\ link = "intact"
  /\ \/ \E n \in 0..(Len(wire) - 1) : wire' = SubSeq(wire, 1, n)
     \/ \E byte \in {ByteOf(0), ByteOf(WordMax)} : wire' = Append(wire, byte)
  /\ link' = "stray"
  /\ UNCHANGED <<stage, packet, mutations, result>>

DecodeDatagram ==
  /\ stage = "encoded"
  /\ stage' = "decoded"
  /\ result' = Decode(wire)
  /\ UNCHANGED <<packet, wire, link, mutations>>

Codec == EncodePacket \/ Corrupt \/ Stray \/ DecodeDatagram

CodecTypeOK ==
  /\ \A i \in DOMAIN wire : wire[i] \subseteq Bits
  /\ link # "stray" => Len(wire) <= HeaderSize + MaxPayload
  /\ link \in {"intact", "corrupted", "stray"}
  /\ mutations \in 0..MaxMutations

-----------------------------------------------------------------------------
(* Properties *)

(* What encode does not refuse, decode gives back: no field is cut off at   *)
(* its width, in particular no sequence number wraps round to the first     *)
(* chunk in a file of more chunks than a word can count (packet.py:132).    *)
DecodeInvertsEncode ==
  stage = "decoded" /\ link = "intact" => result = Returns(packet)

(* Whatever arrives, what decode accepts is exactly what encode would have  *)
(* sent for it: there is no second encoding, nothing hides behind the       *)
(* payload, and every field is in range (packet.py:203-294).                *)
AcceptedIsCanonical ==
  stage = "decoded" /\ result.error = "none" => Encode(result.value) = Returns(wire)

(* If a bit flips in transit, the receiver's computed CRC32 mismatches      *)
(* (README.md:336): no single mutation of corrupt_bytes is accepted,        *)
(* whichever byte of header, checksum or payload it hits.                   *)
OneMutationIsRefused ==
  stage = "decoded" /\ link = "corrupted" /\ mutations = 1 => result.error # "none"
=============================================================================
