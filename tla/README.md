# A verification of Reliable-UDP-Transfer in TLA+

This directory models the transfer protocol of `app/` in TLA+, checks it with
TLC on small instances and proves every safety property of the passing runs, the two
refinements among them, with TLAPS for all instances. References of the form `protocol.py:1162` are to `src/app/`.

1. [The system](#1-the-system) - inventory: components, state, operations, hard behaviour
2. [The modules](#2-the-modules) - what models what
3. [The runs](#3-the-runs) - what TLC checks, bounds, fairness, findings
4. [The proofs](#4-the-proofs) - what TLAPS proves and how
5. [What is not modelled](#5-what-is-not-modelled)
6. [The plan](#6-the-plan)

Run things from this directory: `tlc -config SrSafety.cfg MCSelectiveRepeat.tla`,
`tlapm ReceiverOpenProofs.tla`.

## 1. The system

A **sender** process sends one file to a **receiver** process over UDP. The
sender hashes the file (`inspect_file`), announces it (START), streams its
chunks (DATA), asks for verification (FIN) and reports success if and only if
the receiver says that the hash of what it wrote is the announced one
(FIN_ACK with `verified`). Both are single threaded; they share nothing but
the network, and the receiver shares its output directory with whoever reads it.

| Component | State | Operations | Interacts with |
|---|---|---|---|
| Receiver engine, `StopAndWaitReceiver` (`protocol.py:957-1255`; also serves the windowed senders under two aliases) | `expected_seq`, `out_of_order_buffer`, `current_buffer_bytes`, the active `session_id`, the socket's timeout, the file at `output_path` | `wait_for_handshake`, `receive_file_data` (data loop, FIN loop, drain), `close` | all senders through one UDP port; the disk |
| `SelectiveRepeatSender` (`:632-957`, the default engine) | `base_seq`, `next_seq`, `window_packets` (state and retries per packet), socket timeout | `send_handshake`, `send_file_stream`, `_process_ack`, `send_teardown` | the receiver through its own socket |
| `SlidingWindowSender` (`:308-619`) | `base_seq`, `next_seq`, `acknowledged_packets`, `outstanding_packets`, `chunk_cache`, socket timeout | the same | the same |
| `StopAndWaitSender` (`:44-303`) | the attempt counters of its loops | `send_handshake`, `send_chunk`, `send_teardown` | the same |
| Transfer managers (`transfer.py`) | `FileSender.send_file`: the order of the calls above and their exceptions; `FileReceiver.receive_file`: a fresh engine per call | `inspect_file`, `read_file_chunks`, `calculate_total_chunks`, `send_file`, `receive_file` | the source file, read twice |
| Packet format (`packet.py`, `checksum.py`) | none | `encode`, `decode`, `create_*` | every datagram |
| Simulator (`simulator.py`) | a list of timers, counters | `sendto` with loss, corruption, delay; `close` | wraps any socket |
| Configuration (`config.py`) | constants, checked in `__post_init__` | | everywhere |
| File names (`utils.py`) | none | `sanitize_filename`, `safe_join_path` | the path the receiver opens |
| Command line (`sender.py`, `receiver.py`) | | the receiver's service loop: call `receive_file` again unless `--once` | |

### What is hard, and what makes each part correct

*Receiver.* Chunks arrive in any order, several times, after they were written,
before those in front of them, from other sessions. Correct means: the file is
at every moment the first `expected_seq` chunks of the accepted session
(`OutputIsPrefix`); the buffer holds nothing stale
(`BufferIsAhead`) and respects its limits although its byte counter is
maintained incrementally (`BufferWithinLimits`); an acknowledged chunk is
really kept (`AckedIsHeld`); nobody whose session was not accepted gets
anything he could take for an answer (`OnlyTheAcceptedAreAnswered`); no partial file survives any of the five ways out
of `receive_file` (`FileIsWholeOrGone`); a positive FIN_ACK is true for as long
as someone may read it (`ConfirmedIsOnDisk`). Over many calls of `receive_file`, which share one output path, each
call keeps its promise to its own user (`ImplementsService`).

*Senders.* ACKs are lost, late and reordered, timers expire for any subset of
the window. Correct means: what the sender forgets the receiver holds
(`RetiredIsHeld`); the two windows never drift apart, so that no chunk is
dropped as out of window (`NeverOutOfWindow`); FIN never reaches a receiver
that still wants data and would ignore it (`FinFindsDataComplete`);
stop-and-wait stays in step (`LockStep`); the books agree (`BooksAgree`);
nothing acknowledged is sent again (`AckedNeverResent`).

*The two together.* Success reported means the file delivered
(`SuccessMeansDelivered`), also when the source is edited between hashing and
reading; the whole transfer implements `ReliableTransfer`
(`ImplementsPromise`); the stream completes (`StreamCompletes`), the handshake
completes (`HandshakeCompletes`), a loss repaired in the stream does not cost
the transfer its success (`CleanTeardownSucceeds`), both calls return (`SenderTerminates`,
`ReceiverReturns`).

*The simulated socket.* A thread that sends, one that closes, one timer thread
per delayed datagram. Correct means: the counters account for every datagram
(`CountersAccount`), no accepted datagram is forgotten (`NothingIsForgotten`),
`close()` flushes what was accepted before it (`ClosedAfterFlush`), and every
timer thread ends (`TimersEnd`).

*Packets, configuration, file names.* Correct means: what `encode` does not
refuse `decode` gives back (`DecodeInvertsEncode`); there is one encoding of
each packet (`AcceptedIsCanonical`); a mutation shows
(`OneMutationIsRefused`); a chunk of any size the configuration allows can be
sent (`ChunksAreSendable`); the received file's name is one path component, and,
but for one kind of name, no device and nothing that a further round of sanitizing
would change (`SavedNameIsSettled`).

`PROJECT.json` lists the hazards line by line with the properties that cover them,
or with what is known of those that none covers.

## 2. The modules

```
Packets            chunks, files, datagrams            packet.py, transfer.py
  Channel          datagrams in flight, impairments    simulator.py, the network
    Receiver       the receiver engine                 protocol.py:957-1255, receiver.py
      ReceiverOpen   Receiver + Channel                -> MCReceiverOpen
        FileService    what receive_file promises, call after call: an abstract specification
        ReceiverProofs, ReceiverOpenProofs             lemmas and theorems
    SenderSession  handshake and teardown              common to the three engines
      SelectiveRepeatSender   SlidingWindowSender   StopAndWaitSender
Transfer           SenderSession + Receiver: shared properties
  SelectiveRepeatTransfer  SlidingWindowTransfer  StopAndWaitTransfer
                   one sender + receiver + network     -> MC..., with MCTransferConstants
    TransferProofs, SelectiveRepeatProofs, SlidingWindowProofs, StopAndWaitProofs
ReliableTransfer   what a transfer promises: the abstract specification
SimulatedSocket    sendto, timer threads, close        simulator.py
  SimulatedSocketProofs
PacketCodec        bytes, CRC, encode, decode, mutations   packet.py, checksum.py, simulator.py
FileNames          sanitize_filename, safe_join_path   utils.py
  SessionStart     PacketCodec + FileNames + config    config.py, transfer.py, protocol.py:1011-1056
                                                       -> MCSessionStart
    SessionStartProofs
```

**Data.** A chunk of bytes is the record of what makes it different from other
chunks: whose, which, edited or not, how long. Two files are equal when these
sequences are; SHA-256 is taken to tell all others apart. A datagram is a record; one
that `Packet.decode` rejects, for whatever reason, is `Garbage`, so CRC32 is
taken to detect every corruption. `START` and `FIN` carry metadata that the
session determines, so they are identified by their session. Lengths are kept, because
chunk counts and the buffer's byte limit depend on them.

**The source file is read twice**: `FileSize` is what `inspect_file` saw,
`ReadSize` and `Edited` what `read_file_chunks` found later.
`SizeAssumption` says of them only that they are naturals.

**Channel.** `toReceiver` and `toSender[s]` are sets of datagrams in flight, so
any order of delivery is possible. `budget` says what the network may do. With
the budget `Hostile` a delivered datagram stays: it may arrive again at any
time, or never, which covers duplication, loss and delay in one; any datagram
may be corrupted, any timer may expire early, datagrams of an earlier sender
(`Leftover`) are about and the source file may vanish. That is the right
setting for safety. With a number each datagram is delivered once, at most that
many are lost or corrupted, and the network is faster than the timeouts
(`Timely`), the right setting for liveness. The behaviours of a run start with each of its `Budgets`. Two
identical datagrams in flight at once are one element of the set; with the
budget `Hostile` this loses nothing.

**Granularity.** One action is what a thread does between two calls of
`recvfrom`: the receiver's `AcceptInOrder` writes the chunk *and* drains the
buffer behind it *and* sends the ACKs, as the code does before it listens again. The
sender's loop in `send_file_stream` has the steps `pipeline`, `timers`,
`recv`, `drain`, between which a datagram may arrive. The receiver's file is
written through a Python file object and seen by others only when `receive_file_data` has closed it;
no property looks at it from outside before that.

**Phases of the receiver** (`rcv_phase`): `listen` is `wait_for_handshake`,
`data` and `fin` the two loops of `receive_file_data`, `drain` the non-blocking
loop after a verified FIN, `fin_nb` the FIN loop entered again with the socket
still non-blocking, `closed` between two calls.

**The socket's timeout** (`timeout_armed`) is state of the sender: each engine
sets it, and the drain of the ACKs removes it (`setblocking(True)`,
`protocol.py:496` and `:868`). Stop-and-wait never removes it.

**A source that vanishes** (`SourceVanishes`). `read_file_chunks` is a
generator, so the source is opened after the handshake. If that fails
`send_file` reports failure without a FIN; the receiver, which has opened its
file, is left to its own timeout.

**ReliableTransfer** has four variables: the copy, whether it exists, whether it
is kept, what the sender was told. The refinement mapping (`Transfer!Promise`)
reads them from `output`, `output_exists`, `outcome` and `snd_phase`.

**FileService** says what the receiver promises of the one file at its output path
over all the calls of `receive_file`: a call empties the file, extends it by its
own user's chunks in order, and either tells that user that the file is the whole
original and leaves it as it is, or removes it. That a *later* call empties a
confirmed file is not excluded (finding 2). The mapping
(`ReceiverOpen!Service`) takes the user from `session` while one is `Served`,
the confirmation from the phases behind a verified FIN, and those who were told
from the positive FIN_ACKs in flight, which nobody takes away in `ReceiverOpen`.

| Definition | Code |
|---|---|
| `AcceptStart`, `IgnoreBeforeStart` | `wait_for_handshake`, and the `open(..., "wb")` that follows it |
| `AcceptInOrder`, `ReAckDuplicate`, `BufferOutOfOrder`, `DropOnOverflow`, `ReAckStart`, `IgnoreInData` | the branches of the data loop |
| `VerifyFin`, `AckLateData`, `IgnoreInFin` | the branches of the FIN loop |
| `DrainFin`, `DrainIgnore`, `DrainCorrupt`, `DrainEmpty`, `RaiseBlockingIOError` | the non-blocking drain and its ways out |
| `InactivityTimeout` | the two `except socket.timeout` of `receive_file_data` |
| `Rebind`, `DropAtClosedPort` | `receiver.py`'s `while True` without `--once`, and the closed port between its rounds |
| `SendStart` ... `TeardownTimeout` (`SenderSession`) | `send_handshake`, `send_teardown` of each engine |
| `SourceVanishes`, `SourceIsGone` | `validate_file` and `open` at the first `next()` of `read_file_chunks`, the `except` of `send_file` |
| `Pipeline`, `CheckTimers`, `RetryLimit`, `RecvAck`, `RecvIgnored`, `DrainEnds`, `RecvTimeout`, `StreamDone` | the parts of `send_file_stream` and `_process_ack` |
| `SendData`, `RecvAck`, `RecvGarbage`, `RecvTimeout`, `RetryLimit` (`StopAndWaitSender`) | `send_chunk` |

**SimulatedSocket.** What happens under `self._lock` is one step; the steps of
`close()` are the snapshot of `_active_timers`, one join per timer, the
clearing of the list and the closing of the real socket, and sends and timers
may come between any two. Time is discrete: a timer thread runs at most
`SchedDelay` after it is due, and a join gives up after
`max(0.1, 2 * latency)`, of which `JoinFloor` is the 0.1.

**PacketCodec.** A byte is the set of its bits that are 1, so that `^` is the
symmetric difference of two sets. Every field is one byte wide, the CRC has
eight bits, and both are computed as the code (and zlib) computes them: the
order of the fields, the checksum field taken as zero, the order of the checks of
`decode`. `SessionStart` puts our own packets into it and takes them out; its
`START` carries nothing but the file name, or JSON that is no object.

**FileNames.** One character stands for each kind the code tells apart; `"n"`
is a whole device name. There are two kinds of whitespace besides the control characters,
which go first: the blank, and `"<nbsp>"` for U+00A0, U+0085, U+2003 and the like. `s.strip()`
(`utils.py:159`) removes both (`Whitespace`), `strip(" .")` (`:178`) only the blank.
`Stem` is `Path.stem` of Python 3.11, for which
`"CON."` has no suffix; from 3.14 on its suffix is `"."`. The operators agree with
`sanitize_filename` and `safe_join_path` themselves (Python 3.11) on all
7381 names of up to four characters that somebody can type.

| Definition | Code |
|---|---|
| `Drop`, `Delay`, `SendNow` | the branches of `SimulatedSocket.sendto` |
| `Fire`, `Finish` | `delayed_emit`, before and in its `finally` |
| `CloseBegins`, `Join`, `CloseClears`, `CloseSocket` | `SimulatedSocket.close` |
| `Encode`, `Decode`, `calculate_checksum`, `Corrupt` | `Packet.encode`, `Packet.decode`, `calculate_checksum`, one turn of `corrupt_bytes` |
| `Configure` | `TransferConfig.__post_init__` |
| `PrepareStart`, `PrepareData`, `PrepareAck` | `inspect_file` and `create_start`, `create_data`, `create_ack` |
| `AcceptStart`, `Ignore` | `wait_for_handshake`, and `receive_file`'s `safe_join_path` |
| `RaiseAttributeError` | `metadata.get` of JSON that is no object, past `except PacketError` |

The operators commented `Mutant` are defective variants of the definition after
them. No specification uses them; `PROJECT.json` says which property notices each.

## 3. The runs

"Expected to pass" unless marked **violation**; each takes less than a minute. `CHECK_DEADLOCK FALSE`
everywhere because the programs end.

### The receiver alone (`MCReceiverOpen`)

Its environment is *every* request datagram that any session can produce, in
any order and any number of times (`Leftover <- AllRequests`, budget
`Hostile`): more than any sender and network can do to it.

| Run | Instance | Shows |
|---|---|---|
| `ReceiverOpen` | four sessions: five chunks with a short last one and a window of four; a file that grew; one that was edited; an empty one; `--once`; ample limits | type, reassembly, ACKs held, clean-up, truth of FIN_ACK, no answer to a session that was not accepted |
| `ReceiverService` | two sessions, `receive_file` called again and again, limits of two packets and three bytes | nothing of one session leaks into the next call; the limits hold for what is really held; the refinement of `FileService` |
| `OverflowAcked` **violation** | `ReceiverOpen` with the small limits | finding 1 |
| `ServiceOverwrites` **violation** | as `ReceiverService`, ample limits | finding 2 |

Why the bounds are enough: a window of four over five chunks lets the buffer
hold runs and gaps, the window slide past its first position, and duplicates
fall on every side of `expected_seq`; the four sessions are the four relations
of a file to what was announced of it. The small limits are below the window,
unlike the real ones (`config.py:32`, 8192 packets and 16 MB): that is how the
overflow branch is reached in a small instance.

### One sender, the receiver, the network

| Run | Instance | Shows |
|---|---|---|
| `SrSafety` | budget `Hostile`; a late START, DATA and FIN of another session in flight from the beginning | the safety properties of selective repeat and the refinement of `ReliableTransfer` |
| `SrLive` | budget 2 = `MaxRetries`, fairness | the stream completes, a teardown without loss succeeds, the receiver returns, nothing acknowledged is resent |
| `SlidingWindow` | budgets `Hostile` and 2, fairness | the same questions of the sliding-window engine, and that its two books agree |
| `StopAndWait` | budgets `Hostile` and 3 against four attempts, fairness; the source grew after it was hashed: stop-and-wait sends what it reads, and the transfer must end in a mismatch | lock step, the refinement, the handshake and the stream complete, the sender returns |
| `SrFinLost` **violation** | one loss | finding 3 |
| `SrEmptyFile` **violation** | an empty file, one loss | finding 4 |

Window 3 over 4 chunks (size 7, payload 2) is the smallest instance in which
the window slides, an ACK arrives behind a gap of two, and the last chunk is
short. `MaxRetries` 2 gives a packet three transmissions. With the budget `Hostile` one
`Garbage` can be received any number of times. Stop-and-wait has no window:
three chunks, the last one unannounced, show every difference between two
neighbours. A property that concerns one of the networks only says so
(`Timely`); the two parts of a run with two budgets share no state. Selective repeat has two runs
because its liveness is expensive on the hostile network.

### The parts around the protocol

| Run | Instance | Shows |
|---|---|---|
| `SimFlush` | three calls of `sendto`, latencies 0 to 3 on both sides of the floor of 3, threads at most 1 late, loss and corruption possible | the counters, that nothing is forgotten, that `close()` flushes, that timers end |
| `SessionStart` | payloads of up to five bytes, one mutation, configurations at and just beyond their limits, every name of two characters and, around a device name, of dots and both kinds of whitespace, of three and four, START without an object, numbers on both sides of a word | the codec's three properties, the chosen name, that no chunk is too large |

`SimFlush`: three datagrams are the sender's last one, one being joined and one
already fired. That threads are late by less than a join waits beyond the
latency is an assumption: a later one finds the socket closed, as the limit of
the join intends. `SessionStart`: the longest
name with its prefix is one byte too long for a payload, the largest number one
too large for a word, the cut and the lengthened datagram one off on each side.
`MaxMutations` is 1 because what two mutations do is known: two equal ones cancel (see below).

### Fairness

`WF(SenderMoves)` and `WF(ReceiverMoves)`: each process is scheduled; a blocked
`recvfrom` is a step that is not enabled, a timeout one that is.
`WF(GivesUp)`: fifteen seconds pass. For selective repeat also
`SF(TimerFires(n))` for each chunk: the loop looks at `monotonic() - last_sent` of every packet
in each pass, so a packet that stays unacknowledged expires although
the loop is elsewhere most of the time. The sliding-window engine needs none: its timeout resends at
least the oldest packet. No fairness is assumed of losses: they are bounded by the budget.

`Timely` says that a timer expires only when nothing is in flight, and that fifteen
seconds outlast the retransmission timers: the network is faster than the timeouts. Without it no
protocol with a retry limit can promise delivery.

In `SimulatedSocket`: weak fairness of each timer thread, of each join and of the rest of
`close()` once it has begun, and of time. Nobody has to send or to close.

### Findings

Where a run shows the code to do other than what a text of the repository says:

1. `OverflowAcked`: a chunk the full buffer drops is acknowledged like a stored
   one, so it is never sent again and the transfer must fail
   (`protocol.py:1162`; `docs/troubleshooting.md:17` says the sender
   retransmits it).
2. `ServiceOverwrites`: a late duplicate START of a finished session makes the
   service loop empty the verified file and then delete it (`receiver.py:137`;
   `README.md:251` says packets of old sessions are rejected).
3. `SrFinLost`: after a stream whose last ACK came in the drain the sender's
   socket has no timeout; if FIN or FIN_ACK is then lost, `send_teardown`
   blocks for ever (`protocol.py:868`, and the same at `:496` in the
   sliding-window engine).
4. `SrEmptyFile`: for an empty file a lost START_ACK cannot be repaired, the
   receiver is in its FIN loop, which ignores START (`protocol.py:1194`).

Met while modelling and in the model, but not stated as a property of a run:

- A corrupt datagram in the drain after a verified FIN (`DrainCorrupt`) makes
  `receive_file` raise `BlockingIOError` (`RaiseBlockingIOError`): a delivered
  file is logged as an error and `--once` exits with 1 (`protocol.py:1222`).
- The FIN loop acknowledges DATA of any session (`AckLateData`, `:1238`), always in the
  name of the active one, so its sender ignores it: `OnlyTheAcceptedAreAnswered`.
- Two mutations of `corrupt_bytes` may hit the same byte with the same mask
  and cancel, and the datagram leaves unchanged, counted as corrupted
  (`simulator.py:92`; the docstring at `:84` excludes it). For the protocol that is an ordinary
  delivery.
- One pass of `sanitize_filename` may produce what another would change: `"CON."`
  becomes `"CON"` because it strips last (`utils.py:178`). The received name
  has passed twice and then is settled, but it may differ from the one the sender
  announced: `"CON"` is saved as `"safe_CON"`.
- Two passes do not settle a name that the first leaves with whitespace at an end.
  `"CON.\u00a0."` becomes `"CON.\u00a0"` in the handshake and `"CON"` in
  `safe_join_path`: a device's name, where `README.md:365` says that such names "are
  neutralized with safe prefixes". That is so with `Path.stem` before Python 3.14; with every
  version `"x\u00a0.\u00a0."` becomes `"x\u00a0"`, which a third pass would change to
  `"x"`. `SavedNameIsSettled` makes the exception (`IsStripped`) and `DevicesGetThrough`
  proves that it is needed. Without the exception the run `SessionStart` ends with the first
  name as its counterexample.
- A START whose JSON is no object, `[]` or `1`, makes `metadata.get` raise `AttributeError`
  (`protocol.py:1029`), which `except PacketError` (`:1055`) does not catch
  (`RaiseAttributeError`): `receive_file` ends by exception, and with `--once` the program
  with it, although nobody's transfer had begun. `README.md:366` promises that malformed packets are
  "discarded without crashing the daemon"; the daemon logs it and listens again (`receiver.py:150`).
- A file that shrinks between hashing and reading leaves the windowed
  `send_file_stream` turning for ever (`Starved`, `:793`).
- The receiver is gone after one non-blocking drain, so a lost FIN_ACK cannot
  be asked for again and a delivered file is reported as failed (`:1219`);
  `ReliableTransfer` allows it.
- Stop-and-wait counts the first transmission as an attempt (`:179`), the
  windowed engines do not, hence one retransmission fewer.

Finding 3 and the shrunk file are why `SenderTerminates` is a passing property
only of stop-and-wait, where every wait is timed and every attempt counted. `SrFinLost`
refutes it for selective repeat. For the sliding window, whose code at `:496` is the same, and for a
file that shrank no run checks it.

## 4. The proofs

All theorems hold for all sessions, files, windows, limits, networks, numbers of
datagrams, names and payloads that satisfy the named assumptions of the modules
(`SessionAssumption`, `SizeAssumption`, `ChannelAssumption`,
`ReceiverAssumption`, `SenderAssumption`, `StopAndWaitAssumption`,
`SocketAssumption`, `CodecAssumption`, `SessionStartAssumption`). The code
justifies them: `TransferConfig.__post_init__` rejects other sizes, and
stop-and-wait announces window 1.

| Module | Theorem | Says |
|---|---|---|
| `ReceiverOpenProofs` | `ReceiverTypeCorrect` | `Spec => []TypeOK` |
| | `ReassemblyIsCorrect` | `Spec => []OutputIsPrefix` |
| | `BufferStaysAhead` | `Spec => []BufferIsAhead` |
| | `BufferIsWithinLimits` | `Spec => []BufferWithinLimits` |
| | `NoPartialFileRemains` | `Spec => []FileIsWholeOrGone` |
| | `StrangersAreNotAnswered` | `Spec => []OnlyTheAcceptedAreAnswered` |
| | `ConfirmationIsTrue` | `Once /\ Spec => []ConfirmedIsOnDisk` |
| | `AcknowledgedIsHeld` | `Once`, `RoomFor` every session: `[]AckedIsHeld` |
| | `ServiceKeepsPromise` | `Spec => ImplementsService`, the refinement of `FileService`, with or without `Once` |
| | `DiskHoldsWholeFiles` | `Spec => []Service!AtRest`: between two calls there is no file or the whole file of somebody who was told so |
| | `AnswersTellTheTruth` | `Spec => [][AnswersAreTrue]_vars`: an answer is true in the state in which it is given |
| | `VerifiedFileIsFinal` | `Once /\ Spec => [][VerifiedStays]_vars`: no step changes a verified file or its verdict |
| each of `SelectiveRepeatProofs`, `SlidingWindowProofs`, `StopAndWaitProofs` | `TransferTypeCorrect` | `Spec => []TypeOK`, which bounds the retries |
| | `SuccessIsDelivery` | `Once /\ Spec => []SuccessMeansDelivered` |
| | `TransferKeepsPromise` | `Once /\ Spec => ImplementsPromise`, the refinement of `ReliableTransfer` |
| | `NoSuccessWithoutDelivery` | `Spec => ([]~DeliveredNow => [](snd_phase # "success"))`, without `Once` |
| `SelectiveRepeatProofs` | `RetiredChunksAreHeld` | `Once`, `RoomFor(Me)`: `[]RetiredIsHeld` |
| | `WindowIsShared`, `FinComesLast` | the same and `FreshSession`: `[]NeverOutOfWindow`, `[]FinFindsDataComplete` |
| | `OnlyUnacknowledgedAreResent` | `Spec => AckedNeverResent`, an action property |
| `SlidingWindowProofs` | `NothingIsForgotten` | `FreshSession /\ Spec => []BooksAgree` |
| | `RetiredChunksAreHeld`, `WindowIsShared`, `FinComesLast` | as above, all with `Once`, `RoomFor(Me)`, `FreshSession` |
| | `OnlyUnacknowledgedAreResent` | `FreshSession /\ Spec => [][NoAckedResent]_vars`, an action property |
| `StopAndWaitProofs` | `SendersAreInStep` | `Once /\ FreshSession /\ Spec => []LockStep` |
| | `WindowIsShared` | `Once /\ FreshSession /\ Spec => []NeverOutOfWindow` |
| | `FinComesLast` | the same and `FileKeepsItsLength`: `[]FinFindsDataComplete` |
| `SimulatedSocketProofs` | `SocketTypeCorrect`, `TelemetryAccounts`, `TimersAreRemembered` | `Spec => []TypeOK`, `[]CountersAccount`, `[]NothingIsForgotten` |
| | `CloseFlushes` | `InTime /\ Spec => []ClosedAfterFlush` |
| `SessionStartProofs` | `SessionTypeCorrect` | `Spec => []TypeOK` |
| | `DecodingInvertsEncoding`, `AcceptingIsCanonical`, `OneMutationRefused` | the codec's three properties |
| | `SavedNamesSettle`, `ChunksAlwaysSend` | `Spec => []SavedNameIsSettled`, `[]ChunksAreSendable` |
| | `DevicesGetThrough` | every clean name without whitespace at its ends is what two rounds make of some other name, so a device's is |

Five hypotheses appear beside `Spec`. The constants of every run whose properties need one satisfy it.

- `Once`: the receiver was started with `--once`, so it serves one call of
  `receive_file`. Without it `ConfirmedIsOnDisk` is false: finding 2.
- `RoomFor(s)`: the session's window, less the awaited chunk, fits into both limits of
  the buffer. By default eight chunks of 1 KB meet limits of 8192 packets and 16 MB
  (`config.py:32`). A window the configuration accepts may be larger; then
  `AckedIsHeld` is false: finding 1.
- `FreshSession`: no datagram of an earlier sender bears the session's id, which
  is drawn at random for each transfer (`protocol.py:72`, `:314`, `:666`).
- `FileKeepsItsLength`: the file did not shrink after it was inspected. Stop-and-wait
  sends FIN after the last chunk it *reads* (`transfer.py:288`), so with a
  shorter file FIN reaches a receiver that wants more, ignores it and times out; TLC
  finds `FinFindsDataComplete` false there. The windowed engines never get as far as FIN.
- `InTime`: a timer thread is late by less than a join of `close()` waits beyond the
  latency (`simulator.py:220`). A later one finds the socket closed, as the limit of the join intends.

Every inductive invariant was checked by TLC as an invariant of the component's run before it was proved.

**The receiver.** `ReceiverProofs` shows that each of its steps preserves
`ReceiverInv`, for any state of the network in which the datagrams are
`Requests`. `ReceiverInv` joins the type invariant with the properties of the
file and the buffer and with what ties the phases together; none of the
properties is inductive alone. `OutputIsPrefix` after a drain needs
`BufferIsAhead` (the run that is appended holds the right payloads under the
right numbers); `BufferIsAhead` needs that every DATA in flight carries the
chunk its number says (`ChannelTypeOK`); `FileIsWholeOrGone` needs that in
`drain` and `fin_nb` the output is the source, which `VerifyFin` alone
establishes. The numeric heart is `AcceptInOrderStep`: `DrainsUpTo(next)` says
what the drain loop does without recursion, and `ChunksConcat` that the file
followed by the run is `FirstChunks(session, next)`.

`ConfirmInv` strengthens `ConfirmedIsOnDisk`: under `--once` a positive FIN_ACK
in flight is of the accepted session, whose phase is past verification.

`ServiceInv` has the rest, in four parts. `AccountInv` is about
`current_buffer_bytes`: the bytes held are the union of the buffered chunks'
intervals in the file (`HeldBytes`), whose cardinality a stored or a drained chunk
changes by its length; no sum over a set is needed, and the clamp in `-=`
never acts. `ProgressInv` keeps `expected_seq` inside the announced total,
`AnswersInv` keeps every answer in flight to an accepted session, and `AckedInv`
says that what was acknowledged to the active session is written or
buffered. Its critical step is a chunk ahead of `expected_seq`: `RoomFor` leaves the
full buffer no such chunk to drop (`RoomMeansNotFull`).

**The transfers.** `TransferProofs` has what the engines share: `SenderKeepsBounds`
is what a sender's step may do to the rest of the system (send only chunks
that exist, take replies but add none, report success only on a positive
FIN_ACK), and `SharedInv` ties a sender's phase and success to the receiver's state. Each
engine's module shows that its steps keep `SenderKeepsBounds` and its own
books; the receiver's lemmas do the rest. The chunks of a windowed engine exist
because its pipeline stops at the smallest of window, announced total and end of
file; those of stop-and-wait because it announces window 1 and reads what it
sends. A vanished source (`SourceVanishesStep`) disturbs none of it.

The two windows are tied together in three steps. `WindowInv` (`BooksInv`) orders
`base_seq`, `next_seq` and the window; `FlightInv` bounds what is in
flight by them; `HeldInv` says that what lies behind `base_seq` or was
acknowledged is held by the receiver, because its ACK came from there
(`AckTakenIsHeld`). Hence `base_seq` never passes `expected_seq`, no chunk
overshoots the receiver's window, and a FIN, which waits for the last ACK, finds the data complete.
For stop-and-wait `LockInv` says the same of a window of one, and `TearInv` that
FIN follows the last chunk that can be read.

*What is never sent again.* A resend is chosen from what is in flight and not
marked (selective repeat) or from what is outstanding (sliding window). In the second
engine the two books are disjoint only with `FreshSession`: an ACK for a number
not yet sent would be booked, and the packet, once sent, never leave
`outstanding_packets`.

*Without `--once`.* A later session may replace the file, so `SuccessMeansDelivered`
is lost. What survives is the order of the two events:
`NoSuccessWithoutDelivery` says that in a behaviour in which the file never lies whole on
disk in the sender's own session (`DeliveredNow`) success is never returned.
Since `Spec` is a safety property and may stop anywhere, every prefix that ends in
success has such a state in it. The proof keeps `Untold` (no success, no positive
FIN_ACK on its way to `Me`) as long as `DeliveredNow` is false.

*Refinement.* The mapping reads the abstract receiver's file and both results
off the concrete state. Each step of a transfer is one of
`ReliableTransfer` or leaves its variables alone; the two steps that matter are the receiver's
verdict, where the file must be the hashed source, and the sender's, which needs
`SharedInv` to say that the verdict was given before. `FileService` is refined by the
receiver alone, whatever arrives and however often it is called: a step of the data loop
may write several chunks at once, so the abstract `Extend` allows a run of them, and
`DrainStaysInFile` shows that it ends inside what is announced and readable. `TellInv` supplies
that the session of a verified file was told. Its `AtRest` then follows inside
`FileService`, with `RestInv` as inductive invariant, and carries over to the receiver.

**The simulated socket.** `OrderInv` says which datagrams have been taken and in
which state each of them may be, given where the sending thread is; `CountInv`
equates the counters with the cardinalities of sets of datagrams; `WireInv`,
`ListInv` and `TimerInv` tie the socket's list and the due times to the
states. `CloseFlushes` adds `JoinInv`: whoever of those that `close()` saw
still waits is waited for, until after his due time.

**The first datagram.** `ByteOf` and `Value` are inverse on a word
(`ValueOfByte`, `ByteOfValue`, from the eight powers of two). With
`DatagramIs`, which reads each field back out of the concatenation, `decode` after `encode` is
the identity, and since every check of `decode` bounds a field, `encode` after
`decode` is as well. `OneMutationRefused` uses both: a mutated datagram that were accepted would be
the encoding of some packet, so it and the original, which differ in one byte,
would each carry the checksum of the rest. That cannot be: a step of
the CRC's division is injective (`DivideIsInjective`, its highest bit tells
what it did), so is the table, and the two registers, equal before the byte that
differs, never meet again behind it (`OneByteMatters`).

For names, `SanitizeIsClean` says what one round guarantees: one component,
neither dot nor blank at its ends. If there is no other whitespace at its ends either
(`Stripped`), a second round changes a clean name
only if it is a device, and then the prefix stops the third from changing it
(`SanitizeSettles`). If there is, the second round strips the whitespace and, after it has looked
for a device, the dots behind which it was: with `StripBehind` and `BaseNameBehind`, which say what a strip
takes off the end, `DevicesGetThrough` follows both rounds on a name with `"."`, `"<nbsp>"`, `"."` behind it.

**Recursion.** `Printable`, `CrcTable` and `calculate_checksum` are recursive
functions over an interval of numbers. The library's induction theorems take an operator as
a parameter, which the provers cannot instantiate; `WFMin`, which takes a relation and a
*set*, they can. `NatHasMinimum` and `AllAreReached` (induction
for a set of numbers) follow from it, `RecursionExists` says that a
recursion defines a function, and the lemmas about the three are proved with a set chosen for each.

**Only model-checked.** The liveness properties (`StreamCompletes`,
`HandshakeCompletes`, `SenderTerminates`, `ReceiverReturns`, `CleanTeardownSucceeds`,
`TimersEnd`), which need `ENABLED` and fairness, and what is false of some instances and so no
theorem: the four violations. Every other property of a passing run is a theorem
under the hypotheses above. The other way round, the sliding-window run has no properties
`TypeOK`, `NeverOutOfWindow` and `FinFindsDataComplete`, and stop-and-wait's not the last two:
there the theorems stand alone.

## 5. What is not modelled

- Real time in the protocol: timers expire when they may. Round-trip times, goodput, the benchmarks.
  Hence nothing is said of a retransmission timeout near fifteen seconds
  (`protocol.py:1083`), nor of stray datagrams so steady that the sliding-window
  engine's `recvfrom` never times out (`:498`).
- The words and the JSON of control packets, but for the file name and JSON that is no object (an
  object with fields of other types than expected is not); the widths of the
  fields are one byte. More than one mutation of a datagram.
- Settings that only reach the socket, the simulator or the log (`host`, `port`, rates, `log_level`).
- `ConnectionResetError`, which only Windows raises, and `close()` of a manager
  from another thread while its call is running.
- Reading errors in the middle of the source (it vanishes only before the first chunk).
- Two senders *active* at once: other sessions appear as datagrams, not as threads.
- Statistics, formatting and logging; Milestone 2's basic mode, which has no protocol; demos, capture generation, the Lua dissector.

## 6. The plan

Done, in this order: `Packets`, `Channel`, `Receiver`, `ReceiverOpen` and its proofs, `SenderSession`, the
three engines, `ReliableTransfer`, the three transfers, their types and `SuccessMeansDelivered` proved;
`SimulatedSocket`, `PacketCodec`, `FileNames`, `SessionStart`, the source that
vanishes, and the two networks in one run; then the buffer's account, held
acknowledgements, the shared window, lock step, the refinement, the socket and the first datagram as theorems;
last `FileService` and its refinement, FIN behind the data in all three engines, the action properties of
receiver and senders, and what remains of delivery without `--once`.

Left for future work:

1. A service module: two live senders and the receiver's loop; who may starve whom. It would
   also show the stray datagrams that postpone every sliding-window retransmission.
2. Proofs of liveness, for which the prover would need `ENABLED`; `StreamCompletes` first.
3. Several mutations of a datagram at once: which of them an 8-bit, and which a 32-bit CRC must miss.
