------------------------------ MODULE Packets ------------------------------
(***************************************************************************)
(* The files, chunks and datagrams of the reliable UDP protocol            *)
(* (app/transfer.py, app/packet.py), without behaviour.                    *)
(*                                                                         *)
(* A session is one run of a sender: its random session_id, the address it *)
(* sends from and the file it sends.  A file is known by its size when     *)
(* inspect_file hashed it (FileSize), its size when read_file_chunks reads *)
(* it later (ReadSize), and the chunks that were edited in between         *)
(* (Edited).  A chunk of bytes is abstracted to the facts that decide      *)
(* whether two chunks are the same bytes: whose it is, its place, whether  *)
(* it was edited, its length.  SHA-256 is modelled as equality of chunk    *)
(* sequences and CRC32 as telling Garbage from every other datagram.       *)
(***************************************************************************)
EXTENDS Integers, Sequences, FiniteSets

CONSTANTS
  Sessions,     \* the sessions (session_id and sender address) that may talk
  NoSession,    \* not a session: the receiver has accepted no START yet
  PayloadSize,  \* TransferConfig.payload_size
  WindowSize,   \* [Sessions -> Nat]: the window a session's START advertises
  FileSize,     \* [Sessions -> Nat]: bytes in the file when it was inspected
  ReadSize,     \* [Sessions -> Nat]: bytes in the file when it is read
  Edited        \* the <<session, chunk>> whose bytes changed in between

ASSUME SessionAssumption == NoSession \notin Sessions
ASSUME SizeAssumption ==
  /\ PayloadSize \in Nat \ {0}
  /\ WindowSize \in [Sessions -> Nat \ {0}]
  /\ FileSize \in [Sessions -> Nat]
  /\ ReadSize \in [Sessions -> Nat]

-----------------------------------------------------------------------------
(* Chunking *)

calculate_total_chunks(filesize, chunk_size) ==
  (filesize + chunk_size - 1) \div chunk_size

NumChunks(s) == calculate_total_chunks(FileSize[s], PayloadSize)
Readable(s)  == calculate_total_chunks(ReadSize[s], PayloadSize)

(* Where chunk n starts in a file of that size, its end at most.            *)
Offset(size, n) == IF n * PayloadSize <= size THEN n * PayloadSize ELSE size

ChunkLength(size, n) == Offset(size, n + 1) - Offset(size, n)

InspectedChunk(s, n) ==
  [owner |-> s, index |-> n, edited |-> FALSE, len |-> ChunkLength(FileSize[s], n)]

ReadChunk(s, n) ==
  [owner |-> s, index |-> n, edited |-> <<s, n>> \in Edited,
   len |-> ChunkLength(ReadSize[s], n)]

(* What the SHA-256 in the metadata stands for: the chunks of the file as   *)
(* inspect_file saw it.                                                     *)
Source(s) == [i \in 1..NumChunks(s) |-> InspectedChunk(s, i - 1)]

(* A receiver that wrote the first k chunks of session s holds these.       *)
FirstChunks(s, k) == [i \in 1..k |-> ReadChunk(s, i - 1)]

(* The chunks an engine of session s ever sends: the windowed engines stop  *)
(* at the announced total, stop-and-wait (window 1) sends what it reads.    *)
Sendable(s) ==
  {n \in 0..(Readable(s) - 1) : n < NumChunks(s) \/ WindowSize[s] = 1}

-----------------------------------------------------------------------------
(* Datagrams.  START and FIN carry the file's metadata, which the session   *)
(* determines, so only the session is kept.                                 *)

StartPkt(s)   == [type |-> "START", session |-> s]
DataPkt(s, n) == [type |-> "DATA", session |-> s, seq_num |-> n,
                  payload |-> ReadChunk(s, n)]
FinPkt(s)     == [type |-> "FIN", session |-> s]

StartAckPkt(s)         == [type |-> "START_ACK", session |-> s]
AckPkt(s, n)           == [type |-> "ACK", session |-> s, ack_num |-> n]
FinAckPkt(s, verified) == [type |-> "FIN_ACK", session |-> s, verified |-> verified]

(* Any datagram that Packet.decode rejects: truncated, foreign magic, bad   *)
(* CRC32.                                                                    *)
Garbage == [type |-> "CORRUPT"]

(* What may be on its way to the receiver, and back to a sender.            *)
Requests ==
  {Garbage} \cup
    (UNION {{StartPkt(s), FinPkt(s)} \cup {DataPkt(s, n) : n \in Sendable(s)} : s \in Sessions})

Replies ==
  [type : {"START_ACK"}, session : Sessions]
    \cup [type : {"ACK"}, session : Sessions, ack_num : Nat]
    \cup [type : {"FIN_ACK"}, session : Sessions, verified : BOOLEAN]
    \cup {Garbage}
=============================================================================
