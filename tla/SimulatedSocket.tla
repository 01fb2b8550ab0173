--------------------------- MODULE SimulatedSocket ---------------------------
(***************************************************************************)
(* SimulatedSocket (app/simulator.py): sendto loses, corrupts or delays a  *)
(* datagram; a delayed one is emitted later by a timer thread of its own;  *)
(* close() joins these threads, each with a time limit, before it closes   *)
(* the real socket under them.                                             *)
(*                                                                         *)
(* Threads: one that sends, one that closes (a manager's close() may come  *)
(* from another thread than its transfer's), one per delayed datagram.     *)
(* What a thread does while it holds self._lock is one step.  A datagram   *)
(* is known by its number among the calls of sendto.  Time is discrete: a  *)
(* timer thread runs at most SchedDelay after its time, and only such      *)
(* lateness, never the closing thread's own slowness, lets time pass.      *)
(***************************************************************************)
EXTENDS Integers, FiniteSets

CONSTANTS
  MaxSends,        \* bound: calls of sendto
  Latencies,       \* the values config.latency may have
  JoinFloor,       \* the 0.1 s of close()
  SchedDelay,      \* how late the thread of a due timer may run
  LossRate,        \* config.loss_rate, in hundredths
  CorruptionRate   \* config.corruption_rate, in hundredths

ASSUME SocketAssumption ==
  /\ MaxSends \in Nat
  /\ Latencies \subseteq Nat
  /\ JoinFloor \in Nat \ {0}
  /\ SchedDelay \in Nat
  /\ LossRate \in 0..100
  /\ CorruptionRate \in 0..100

VARIABLES
  latency,   \* config.latency, read at every call
  now,
  stats,     \* SimulationStats
  state,     \* what became of each datagram
  due,       \* when the timer of a delayed datagram fires
  active,    \* _active_timers
  wire,      \* the datagrams that went out of the real socket
  open,      \* the real socket
  closing,   \* where close() is: no, joining, closing the socket, done
  pending,   \* its snapshot of _active_timers, less those joined already
  join_by,   \* when the join it waits in gives up
  seen       \* how many datagrams sendto had taken at the snapshot

vars == <<latency, now, stats, state, due, active, wire, open, closing,
          pending, join_by, seen>>

Datagrams == 1..MaxSends
States    == {"unsent", "dropped", "direct", "waiting", "fired", "ended"}

TypeOK ==
  /\ latency \in Latencies
  /\ now \in Nat
  /\ stats \in [attempted : Nat, dropped : Nat, corrupted : Nat, delayed : Nat]
  /\ state \in [Datagrams -> States]
  /\ due \in [Datagrams -> Nat]
  /\ active \subseteq Datagrams
  /\ wire \subseteq Datagrams
  /\ open \in BOOLEAN
  /\ closing \in {"no", "joining", "cleared", "done"}
  /\ pending \subseteq Datagrams
  /\ join_by \in Nat
  /\ seen \in 0..MaxSends

Init ==
  /\ latency \in Latencies
  /\ now = 0
  /\ stats = [attempted |-> 0, dropped |-> 0, corrupted |-> 0, delayed |-> 0]
  /\ state = [d \in Datagrams |-> "unsent"]
  /\ due = [d \in Datagrams |-> 0]
  /\ active = {} /\ wire = {}
  /\ open = TRUE
  /\ closing = "no" /\ pending = {} /\ join_by = 0 /\ seen = 0

-----------------------------------------------------------------------------
(* sendto *)

(* should_drop and should_corrupt: whether random.random() < rate. *)
Draws(rate) == {r < rate : r \in 0..99}

Count(hit) == IF hit THEN 1 ELSE 0

(* Mutant: what is dropped is counted as delayed, too. *)
CountedLate(drop, corrupt) ==
  [attempted |-> stats.attempted + 1,
   dropped   |-> stats.dropped + Count(drop),
   corrupted |-> stats.corrupted + Count(~drop /\ corrupt),
   delayed   |-> stats.delayed + Count(latency > 0)]

(* Mutant: a drop is taken off the corrupted ones. *)
CountedNet(drop, corrupt) ==
  [attempted |-> stats.attempted + 1,
   dropped   |-> stats.dropped + Count(drop),
   corrupted |-> stats.corrupted + Count(~drop /\ corrupt) - Count(drop),
   delayed   |-> stats.delayed + Count(~drop /\ latency > 0)]

(* The counters after a datagram that draws these fates: the three tests    *)
(* come in this order, and what is dropped is neither corrupted nor delayed. *)
Counted(drop, corrupt) ==
  [attempted |-> stats.attempted + 1,
   dropped   |-> stats.dropped + Count(drop),
   corrupted |-> stats.corrupted + Count(~drop /\ corrupt),
   delayed   |-> stats.delayed + Count(~drop /\ latency > 0)]

Take(d) == d \in Datagrams /\ d = stats.attempted + 1

Drop(d) ==
  /\ Take(d) /\ TRUE \in Draws(LossRate)
  /\ stats' = Counted(TRUE, FALSE)
  /\ state' = [state EXCEPT ![d] = "dropped"]
  /\ UNCHANGED <<latency, now, due, active, wire, open, closing, pending, join_by, seen>>

(* The timer is listed and started; sendto reports the datagram as sent,    *)
(* whether the socket is still open or not.                                 *)
Delay(d) ==
  /\ Take(d) /\ FALSE \in Draws(LossRate) /\ latency > 0
  /\ \E corrupt \in Draws(CorruptionRate) : stats' = Counted(FALSE, corrupt)
  /\ state' = [state EXCEPT ![d] = "waiting"]
  /\ due' = [due EXCEPT ![d] = now + latency]
  /\ active' = active \cup {d}
  /\ UNCHANGED <<latency, now, wire, open, closing, pending, join_by, seen>>

(* Without latency the real socket sends at once; a closed one raises. *)
SendNow(d) ==
  /\ Take(d) /\ FALSE \in Draws(LossRate) /\ latency = 0
  /\ \E corrupt \in Draws(CorruptionRate) : stats' = Counted(FALSE, corrupt)
  /\ state' = [state EXCEPT ![d] = "direct"]
  /\ wire' = IF open THEN wire \cup {d} ELSE wire
  /\ UNCHANGED <<latency, now, due, active, open, closing, pending, join_by, seen>>

-----------------------------------------------------------------------------
(* The timer thread: delayed_emit *)

(* Mutant: the OSError of a closed socket leaves the thread hanging. *)
FireWhileOpen(d) ==
  /\ state[d] = "waiting" /\ now >= due[d] /\ open
  /\ state' = [state EXCEPT ![d] = "fired"]
  /\ wire' = wire \cup {d}
  /\ UNCHANGED <<latency, now, stats, due, active, open, closing, pending, join_by, seen>>

(* The OSError of a closed socket is swallowed. *)
Fire(d) ==
  /\ state[d] = "waiting" /\ now >= due[d]
  /\ state' = [state EXCEPT ![d] = "fired"]
  /\ wire' = IF open THEN wire \cup {d} ELSE wire
  /\ UNCHANGED <<latency, now, stats, due, active, open, closing, pending, join_by, seen>>

(* Mutant: the timer stays in the list. *)
FinishListed(d) ==
  /\ state[d] = "fired"
  /\ state' = [state EXCEPT ![d] = "ended"]
  /\ UNCHANGED <<latency, now, stats, due, active, wire, open, closing, pending, join_by, seen>>

Finish(d) ==
  /\ state[d] = "fired"
  /\ state' = [state EXCEPT ![d] = "ended"]
  /\ active' = active \ {d}
  /\ UNCHANGED <<latency, now, stats, due, wire, open, closing, pending, join_by, seen>>

-----------------------------------------------------------------------------
(* close *)

(* Mutant: every join waits for the fixed minimum. *)
JoinLimitFixed == JoinFloor

JoinLimit == IF 2 * latency > JoinFloor THEN 2 * latency ELSE JoinFloor

CloseBegins ==
  /\ closing = "no"
  /\ closing' = "joining"
  /\ pending' = active
  /\ join_by' = now + JoinLimit
  /\ seen' = stats.attempted
  /\ UNCHANGED <<latency, now, stats, state, due, active, wire, open>>

(* The list is in the order of the calls of sendto. *)
IsJoined(d) == d \in pending /\ \A other \in pending : d <= other

JoinReturns(d) == state[d] = "ended" \/ now >= join_by

Join(d) ==
  /\ closing = "joining" /\ IsJoined(d)
  /\ JoinReturns(d)
  /\ pending' = pending \ {d}
  /\ join_by' = now + JoinLimit
  /\ UNCHANGED <<latency, now, stats, state, due, active, wire, open, closing, seen>>

CloseClears ==
  /\ closing = "joining" /\ pending = {}
  /\ closing' = "cleared"
  /\ active' = {}
  /\ UNCHANGED <<latency, now, stats, state, due, wire, open, pending, join_by, seen>>

CloseSocket ==
  /\ closing = "cleared"
  /\ closing' = "done"
  /\ open' = FALSE
  /\ UNCHANGED <<latency, now, stats, state, due, active, wire, pending, join_by, seen>>

-----------------------------------------------------------------------------
CloserCanStep ==
  \/ closing = "joining" /\ pending = {}
  \/ closing = "joining" /\ \E d \in pending : IsJoined(d) /\ JoinReturns(d)
  \/ closing = "cleared"

(* Time passes only while a timer runs or is due no longer ago than         *)
(* SchedDelay, and no thread has anything else to do.                       *)
Tick ==
  /\ \E d \in Datagrams : state[d] = "waiting"
  /\ \A d \in Datagrams :
       /\ state[d] # "fired"
       /\ state[d] = "waiting" => now < due[d] + SchedDelay
  /\ ~CloserCanStep
  /\ now' = now + 1
  /\ UNCHANGED <<latency, stats, state, due, active, wire, open, closing, pending, join_by, seen>>

Send(d)    == Drop(d) \/ Delay(d) \/ SendNow(d)
Timer(d)   == Fire(d) \/ Finish(d)
Close      == CloseBegins \/ (\E d \in Datagrams : Join(d)) \/ CloseClears \/ CloseSocket

Next == (\E d \in Datagrams : Send(d) \/ Timer(d)) \/ Close \/ Tick

Spec == Init /\ [][Next]_vars

(* The threads run.  Nobody has to send, or to close. *)
Fairness ==
  /\ \A d \in Datagrams : WF_vars(Timer(d)) /\ WF_vars(Join(d))
  /\ WF_vars(CloseClears) /\ WF_vars(CloseSocket)
  /\ WF_vars(Tick)

FairSpec == Spec /\ Fairness

-----------------------------------------------------------------------------
(* Properties *)

Accepted(d) == state[d] \notin {"unsent", "dropped"}

(* The telemetry accounts for every datagram: the four counters, kept by    *)
(* sendto, agree with what became of the datagrams (simulator.py:135-160).  *)
CountersAccount ==
  LET In(S) == Cardinality({d \in Datagrams : state[d] \in S}) IN
  /\ stats.attempted = In(States \ {"unsent"})
  /\ stats.dropped = In({"dropped"})
  /\ stats.delayed = In({"waiting", "fired", "ended"})
  /\ stats.corrupted <= stats.attempted - stats.dropped

(* As long as nobody closes the socket, a datagram that was not dropped is  *)
(* on the wire, or a listed timer will put it there: none is forgotten and  *)
(* none is listed for ever.                                                 *)
NothingIsForgotten ==
  closing = "no" =>
    \A d \in Datagrams :
      /\ Accepted(d) => d \in wire \/ (state[d] = "waiting" /\ d \in active)
      /\ d \in active => state[d] \in {"waiting", "fired"}

(* Flush active delayed packets before closing socket (simulator.py:218):   *)
(* what sendto had accepted when close began is on the wire when it ends,   *)
(* each thread being late by less than its join waits beyond the latency.   *)
ClosedAfterFlush ==
  ~open => \A d \in 1..seen : Accepted(d) => d \in wire

(* Every timer thread ends, also one that close no longer waited for.       *)
TimersEnd == \A d \in Datagrams : state[d] = "waiting" ~> state[d] = "ended"
=============================================================================
