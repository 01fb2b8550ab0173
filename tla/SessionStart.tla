---------------------------- MODULE SessionStart ----------------------------
(***************************************************************************)
(* The first datagram of a session, from the checked configuration to the  *)
(* name of the file that the receiver opens: TransferConfig.__post_init__  *)
(* (app/config.py), inspect_file's file name (app/transfer.py),            *)
(* Packet.encode and Packet.decode, wait_for_handshake (app/protocol.py)   *)
(* and the choice of the output path in receive_file (app/transfer.py).    *)
(* The receiver reads DATA and ACK in its place, too.                      *)
(*                                                                         *)
(* The JSON object of START is its file name: one byte for the object and  *)
(* one for each character.  Another byte stands for JSON that is no        *)
(* object, as a list or a number.                                          *)
(***************************************************************************)
EXTENDS PacketCodec, FileNames

CONSTANTS
  Configs,     \* configurations somebody may ask for
  SourceNames, \* names of source files
  OtherNames,  \* names in the START of some other program
  SessionIds,
  Numbers      \* sequence and acknowledgement numbers

ASSUME SessionStartAssumption ==
  /\ SourceNames \cup OtherNames \subseteq Seq(Chars)
  /\ SessionIds \subseteq 1..WordMax /\ Numbers \subseteq Nat
  /\ \A c \in Configs : {c.payload_size, c.window_size, c.max_retries} \subseteq Int

VARIABLES
  config, \* the sender's configuration
  saved   \* the name under which the receiver opens its file

startVars == <<config, saved>>
vars == <<codecVars, startVars>>

-----------------------------------------------------------------------------
START == 1
DATA  == 3
ACK   == 4

(* Mutant: the datagram's limit, not that of the payload. *)
ConfigIsShort(c) ==
  /\ c.payload_size \in 1..(HeaderSize + MaxPayload)
  /\ c.window_size >= 1
  /\ c.max_retries >= 0

ConfigIsValid(c) ==
  /\ c.payload_size \in 1..MaxPayload
  /\ c.window_size >= 1
  /\ c.max_retries >= 0

Object   == ByteOf(0)
NoObject == ByteOf(WordMax - 1)

(* The payload of create_start, and what get_json_payload makes of it. *)
JsonOf(name) ==
  <<Object>> \o [i \in DOMAIN name |-> ByteOf(CHOOSE k \in DOMAIN Alphabet : Alphabet[k] = name[i])]

IsObject(payload) ==
  payload # <<>> =>
    /\ payload[1] = Object
    /\ \A i \in 2..Len(payload) : Value(payload[i]) \in DOMAIN Alphabet

IsJson(payload) == IsObject(payload) \/ payload = <<NoObject>>

(* metadata.get("filename", "received_file") *)
NameIn(payload) ==
  IF payload = <<>> THEN <<"default">>
  ELSE [i \in 1..(Len(payload) - 1) |-> Alphabet[Value(payload[i + 1])]]

(* Mutant: the name as it came, for receive_file to clean up. *)
HandshakeNameRaw(payload) == NameIn(payload)

HandshakeName(payload) == sanitize_filename(NameIn(payload))

-----------------------------------------------------------------------------
Init ==
  /\ stage = "configuring" /\ config \in Configs
  /\ packet = [pkt_type |-> 0] /\ wire = <<>> /\ link = "intact"
  /\ mutations = 0 /\ result = NoPacket /\ saved = <<>>

Configure ==
  /\ stage = "configuring"
  /\ stage' = IF ConfigIsValid(config) THEN "ready" ELSE "misconfigured"
  /\ UNCHANGED <<packet, wire, link, mutations, result, startVars>>

Made(pkt_type, session_id, seq_num, ack_num, payload) ==
  PacketIsMade([pkt_type |-> pkt_type, session_id |-> session_id,
                seq_num |-> seq_num, ack_num |-> ack_num, payload |-> payload])

PrepareStart ==
  /\ stage = "ready"
  /\ \E id \in SessionIds :
       \/ \E name \in SourceNames : Made(START, id, 0, 0, JsonOf(sanitize_filename(name)))
       \/ \E name \in OtherNames : Made(START, id, 0, 0, JsonOf(name))
       \/ \E payload \in {<<>>, <<NoObject>>, <<ByteOf(WordMax)>>} : Made(START, id, 0, 0, payload)
  /\ UNCHANGED startVars

PrepareData ==
  /\ stage = "ready"
  /\ \E id \in SessionIds, seq_num \in Numbers, byte \in {ByteOf(0), ByteOf(WordMax)},
        length \in 1..config.payload_size :
       Made(DATA, id, seq_num, 0, [i \in 1..length |-> byte])
  /\ UNCHANGED startVars

PrepareAck ==
  /\ stage = "ready"
  /\ \E id \in SessionIds, ack_num \in Numbers : Made(ACK, id, 0, ack_num, <<>>)
  /\ UNCHANGED startVars

(* wait_for_handshake returns, and receive_file chooses its output path. *)
AcceptStart ==
  /\ stage = "decoded"
  /\ result.error = "none"
  /\ result.value.pkt_type = START /\ IsObject(result.value.payload)
  /\ saved' = SavedName(HandshakeName(result.value.payload))
  /\ stage' = "saved"
  /\ UNCHANGED <<config, packet, wire, link, mutations, result>>

(* metadata.get raises an AttributeError that is no PacketError, and        *)
(* wait_for_handshake and receive_file end with it.                         *)
RaiseAttributeError ==
  /\ stage = "decoded"
  /\ result.error = "none"
  /\ result.value.pkt_type = START
  /\ IsJson(result.value.payload) /\ ~IsObject(result.value.payload)
  /\ stage' = "raised"
  /\ UNCHANGED <<packet, wire, link, mutations, result, startVars>>

(* wait_for_handshake listens on. *)
Ignore ==
  /\ stage = "decoded"
  /\ \/ result.error # "none"
     \/ result.error = "none" /\ result.value.pkt_type # START
     \/ result.error = "none" /\ ~IsJson(result.value.payload)
  /\ stage' = "ignored"
  /\ UNCHANGED <<packet, wire, link, mutations, result, startVars>>

Prepare == PrepareStart \/ PrepareData \/ PrepareAck
Receive == AcceptStart \/ RaiseAttributeError \/ Ignore

Next ==
  \/ Configure
  \/ Prepare
  \/ Codec /\ UNCHANGED startVars
  \/ Receive

Spec == Init /\ [][Next]_vars

-----------------------------------------------------------------------------
(* Properties *)

(* Type correctness of the session's first datagram, its bytes and the      *)
(* chosen name.                                                             *)
TypeOK ==
  /\ CodecTypeOK
  /\ stage \in {"configuring", "misconfigured", "ready", "made", "encoded",
                "refused", "decoded", "ignored", "raised", "saved"}
  /\ config \in Configs
  /\ saved \in Seq(Chars)

IsStripped(name) ==
  name # <<>> => {name[1], name[Len(name)]} \cap Whitespace = {}

(* The name of the received file is one component of a path, without a dot  *)
(* or a blank at either end.  It is no device, and so settled that          *)
(* sanitizing it again changes nothing, unless the handshake's name has     *)
(* whitespace at an end.  One round of sanitize_filename does not achieve   *)
(* it, because it strips after it has looked for devices (utils.py:173):    *)
(* "CON." becomes "CON".  Two rounds do, one in wait_for_handshake          *)
(* (protocol.py:1029) and one in safe_join_path (utils.py:205), unless the  *)
(* first leaves whitespace that only s.strip() of the second removes        *)
(* (utils.py:159): "CON.", a no-break space and "." still become "CON".     *)
SavedNameIsSettled ==
  stage = "saved" =>
    /\ saved # <<>>
    /\ \A i \in DOMAIN saved : saved[i] \notin {"/", "\\", ":", "<tab>"}
    /\ {saved[1], saved[Len(saved)]} \cap {".", " "} = {}
    /\ IsStripped(HandshakeName(result.value.payload)) =>
         ~IsDevice(saved) /\ sanitize_filename(saved) = saved

(* Every chunk that an accepted payload_size allows (config.py:89) gets     *)
(* through encode's limit (packet.py:140) and both of decode's (:210 and    *)
(* :257) as long as its number is a word: no transfer breaks down at a      *)
(* chunk of full size.                                                      *)
ChunksAreSendable ==
  packet.pkt_type = DATA /\ packet.seq_num <= WordMax =>
    /\ stage # "refused"
    /\ stage = "decoded" /\ link = "intact" => result.error = "none"
=============================================================================
