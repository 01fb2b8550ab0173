------------------------ MODULE SimulatedSocketProofs ------------------------
(***************************************************************************)
(* What SimFlush checks for three datagrams and four latencies, for any    *)
(* number of datagrams, any latency and any lateness of the timer threads. *)
(***************************************************************************)
EXTENDS SimulatedSocket, FiniteSetTheorems, TLAPS

(* The datagrams are taken in the order of their numbers.                   *)
OrderInv ==
  /\ stats.attempted <= MaxSends
  /\ \A d \in Datagrams : state[d] = "unsent" <=> d > stats.attempted

(* What has one of these fates.                                             *)
Fate(S) == {d \in Datagrams : state[d] \in S}

CountInv ==
  /\ stats.dropped = Cardinality(Fate({"dropped"}))
  /\ stats.delayed = Cardinality(Fate({"waiting", "fired", "ended"}))
  /\ stats.corrupted <= stats.attempted - stats.dropped

(* As long as the socket is open, what was emitted went out.                *)
WireInv ==
  /\ open <=> closing # "done"
  /\ open => \A d \in Datagrams : state[d] \in {"direct", "fired", "ended"} => d \in wire

(* The list, until close() takes it over.                                   *)
ListInv ==
  closing = "no" =>
    \A d \in Datagrams : /\ state[d] = "waiting" => d \in active
                         /\ d \in active => state[d] \in {"waiting", "fired"}

(* A timer that runs is due in at most the latency, and is never later than *)
(* the scheduler allows.                                                    *)
TimerInv ==
  \A d \in Datagrams :
    state[d] = "waiting" =>
      latency > 0 /\ due[d] <= now + latency /\ now <= due[d] + SchedDelay

(* Whoever still waits of what close() saw is waited for, long enough; when *)
(* close() has cleared its list, nobody is left.                            *)
JoinInv ==
  /\ closing # "no" => seen <= stats.attempted
  /\ closing = "joining" =>
       \A d \in 1..seen : state[d] = "waiting" =>
         d \in pending /\ due[d] + SchedDelay < join_by
  /\ closing \in {"cleared", "done"} => \A d \in 1..seen : state[d] # "waiting"

(* The lateness of a thread that the joins of close() make up for: their    *)
(* limit is twice the latency, or the floor (simulator.py:220).             *)
InTime ==
  \A l \in Latencies \ {0} : l + SchedDelay < 2 * l \/ l + SchedDelay < JoinFloor

FlowInv == TypeOK /\ OrderInv /\ CountInv /\ WireInv /\ ListInv /\ TimerInv

IInv == FlowInv /\ (InTime => JoinInv /\ ClosedAfterFlush)

-----------------------------------------------------------------------------
(* The sets that the counters count *)

LEMMA FateIsFinite ==
  ASSUME NEW S
  PROVE  /\ IsFiniteSet(Fate(S))
         /\ Cardinality(Fate(S)) \in Nat
<1>1. IsFiniteSet(Datagrams)
  BY FS_Interval, SocketAssumption, SMT DEF Datagrams
<1>2. Fate(S) \subseteq Datagrams
  BY DEF Fate
<1> QED
  BY <1>1, <1>2, FS_Subset, FS_CardinalityType

(* A datagram that comes to one of the fates S makes it one more, one that  *)
(* moves among them or outside them does not count.                         *)
LEMMA FateGrows ==
  ASSUME state \in [Datagrams -> States], NEW d \in Datagrams, NEW x \in States,
         state' = [state EXCEPT ![d] = x], NEW S, x \in S, state[d] \notin S
  PROVE  Cardinality(Fate(S)') = Cardinality(Fate(S)) + 1
<1>1. Fate(S)' = Fate(S) \cup {d}
  BY DEF Fate
<1>2. d \notin Fate(S)
  BY DEF Fate
<1> QED
  BY <1>1, <1>2, FateIsFinite, FS_AddElement

LEMMA FateStays ==
  ASSUME state \in [Datagrams -> States], NEW d \in Datagrams, NEW x \in States,
         state' = [state EXCEPT ![d] = x], NEW S, x \in S <=> state[d] \in S
  PROVE  Fate(S)' = Fate(S)
  BY DEF Fate

-----------------------------------------------------------------------------
(* The initial states *)

LEMMA InitFlow == Init => IInv
<1> SUFFICES ASSUME Init
             PROVE  IInv
  OBVIOUS
<1> USE SocketAssumption DEF Init
<1>1. TypeOK
  BY SMT DEF TypeOK, States, Datagrams
<1>2. OrderInv
  BY SMT DEF OrderInv, Datagrams
<1>3. CountInv
  <2>1. Fate({"dropped"}) = {} /\ Fate({"waiting", "fired", "ended"}) = {}
    BY DEF Fate
  <2> QED
    BY <2>1, FS_EmptySet DEF CountInv
<1>4. WireInv /\ ListInv /\ TimerInv
  BY DEF WireInv, ListInv, TimerInv
<1>5. JoinInv /\ ClosedAfterFlush
  BY DEF JoinInv, ClosedAfterFlush
<1> QED
  BY <1>1, <1>2, <1>3, <1>4, <1>5 DEF IInv, FlowInv

-----------------------------------------------------------------------------
(* sendto: the datagram it takes is a new one *)

LEMMA TakesTheNext ==
  ASSUME IInv, NEW d, Take(d)
  PROVE  /\ d \in Datagrams /\ state[d] = "unsent"
         /\ d = stats.attempted + 1
         /\ (InTime /\ closing # "no") => d > seen
  BY SocketAssumption, SMT
     DEF IInv, FlowInv, TypeOK, OrderInv, JoinInv, Take, Datagrams

LEMMA DrawsAreBooleans ==
  ASSUME NEW rate, NEW hit \in Draws(rate)
  PROVE  hit \in BOOLEAN
<1>1. PICK r \in 0..99 : hit = (r < rate)
  BY SMT DEF Draws
<1>2. (r < rate) \in BOOLEAN
  BY SMT
<1> QED
  BY <1>1, <1>2, Zenon

LEMMA SendCounts ==
  ASSUME IInv, NEW d, Take(d),
         NEW drop \in BOOLEAN, NEW corrupt \in BOOLEAN, stats' = Counted(drop, corrupt),
         NEW x \in {"dropped", "direct", "waiting"}, state' = [state EXCEPT ![d] = x],
         x = "dropped" <=> drop, x = "waiting" <=> ~drop /\ latency > 0
  PROVE  /\ stats' \in [attempted : Nat, dropped : Nat, corrupted : Nat, delayed : Nat]
         /\ state' \in [Datagrams -> States]
         /\ stats'.attempted = stats.attempted + 1
         /\ OrderInv' /\ CountInv'
<1> USE SocketAssumption
<1>0. d \in Datagrams /\ state[d] = "unsent" /\ d = stats.attempted + 1
  BY TakesTheNext
<1>1. TypeOK /\ OrderInv /\ CountInv
  BY DEF IInv, FlowInv
<1>2. state \in [Datagrams -> States] /\ x \in States /\ x # "unsent"
  BY <1>1 DEF TypeOK, States
<1>3. latency \in Nat
  BY <1>1 DEF TypeOK
<1>4. /\ Count(drop) \in {0, 1} /\ Count(~drop /\ corrupt) \in {0, 1}
      /\ Count(~drop /\ latency > 0) \in {0, 1}
      /\ Count(drop) + Count(~drop /\ corrupt) <= 1
      /\ Count(drop) = IF x = "dropped" THEN 1 ELSE 0
      /\ Count(~drop /\ latency > 0) = IF x = "waiting" THEN 1 ELSE 0
  BY SMT DEF Count
<1>5. /\ stats'.attempted = stats.attempted + 1
      /\ stats'.dropped = stats.dropped + Count(drop)
      /\ stats'.corrupted = stats.corrupted + Count(~drop /\ corrupt)
      /\ stats'.delayed = stats.delayed + Count(~drop /\ latency > 0)
      /\ stats' = [attempted |-> stats'.attempted, dropped |-> stats'.dropped,
                   corrupted |-> stats'.corrupted, delayed |-> stats'.delayed]
  BY DEF Counted
<1>6. /\ stats.attempted \in Nat /\ stats.dropped \in Nat
      /\ stats.corrupted \in Nat /\ stats.delayed \in Nat
  BY <1>1 DEF TypeOK
<1>7. stats' \in [attempted : Nat, dropped : Nat, corrupted : Nat, delayed : Nat]
  <2>1. /\ stats'.attempted \in Nat /\ stats'.dropped \in Nat
        /\ stats'.corrupted \in Nat /\ stats'.delayed \in Nat
    <3> HIDE DEF Count
    <3> QED
      BY <1>4, <1>5, <1>6
  <2> QED
    BY <1>5, <2>1
<1>8. OrderInv'
  BY <1>0, <1>1, <1>2, <1>5, <1>6 DEF OrderInv, Datagrams
<1>9. CountInv'
  <2>1. Cardinality(Fate({"dropped"})') = Cardinality(Fate({"dropped"})) + Count(drop)
    <3> HIDE DEF Count
    <3>1. CASE x = "dropped"
      <4>1. x \in {"dropped"} /\ state[d] \notin {"dropped"}
        BY <1>0, <3>1
      <4>2. Cardinality(Fate({"dropped"})') = Cardinality(Fate({"dropped"})) + 1
        BY <1>0, <1>2, <4>1, FateGrows
      <4> QED
        BY <1>4, <3>1, <4>2
    <3>2. CASE x # "dropped"
      <4>1. x \in {"dropped"} <=> state[d] \in {"dropped"}
        BY <1>0, <3>2
      <4>2. Fate({"dropped"})' = Fate({"dropped"})
        BY <1>0, <1>2, <4>1, FateStays
      <4> QED
        BY <1>4, <3>2, <4>2, FateIsFinite
    <3> QED
      BY <3>1, <3>2
  <2>2. Cardinality(Fate({"waiting", "fired", "ended"})')
          = Cardinality(Fate({"waiting", "fired", "ended"})) + Count(~drop /\ latency > 0)
    <3> HIDE DEF Count
    <3> DEFINE S == {"waiting", "fired", "ended"}
    <3>1. CASE x = "waiting"
      <4>1. x \in S /\ state[d] \notin S
        BY <1>0, <3>1
      <4>2. Cardinality(Fate(S)') = Cardinality(Fate(S)) + 1
        BY <1>0, <1>2, <4>1, FateGrows
      <4> QED
        BY <1>4, <3>1, <4>2
    <3>2. CASE x # "waiting"
      <4>1. x \in S <=> state[d] \in S
        BY <1>0, <3>2
      <4>2. Fate(S)' = Fate(S)
        BY <1>0, <1>2, <4>1, FateStays
      <4> QED
        BY <1>4, <3>2, <4>2, FateIsFinite
    <3> QED
      BY <3>1, <3>2
  <2>3. stats'.corrupted <= stats'.attempted - stats'.dropped
    BY <1>1, <1>4, <1>5, <1>6 DEF CountInv
  <2>4. /\ Fate({"dropped"})' = {i \in Datagrams : state'[i] \in {"dropped"}}
        /\ Fate({"waiting", "fired", "ended"})' = {i \in Datagrams : state'[i] \in {"waiting", "fired", "ended"}}
    BY DEF Fate
  <2> QED
    BY <1>1, <1>5, <2>1, <2>2, <2>3 DEF CountInv
<1> QED
  BY <1>1, <1>2, <1>5, <1>7, <1>8, <1>9

(* close() has seen nothing of a datagram that is taken now.                *)
LEMMA SendIsNotAwaited ==
  ASSUME IInv, InTime, NEW d, Take(d), NEW x, state' = [state EXCEPT ![d] = x],
         stats'.attempted = stats.attempted + 1,
         UNCHANGED <<open, closing, pending, join_by, seen>>,
         \A e \in Datagrams \ {d} : due'[e] = due[e], wire \subseteq wire'
  PROVE  JoinInv' /\ ClosedAfterFlush'
<1>0. d \in Datagrams /\ d = stats.attempted + 1 /\ (closing # "no" => d > seen)
  BY TakesTheNext
<1>1. TypeOK /\ OrderInv /\ WireInv /\ JoinInv /\ ClosedAfterFlush
  BY DEF IInv, FlowInv
<1>2. seen \in Nat /\ stats.attempted \in Nat /\ 1..seen \subseteq Datagrams
      /\ state \in [Datagrams -> States]
  BY <1>1, SocketAssumption DEF TypeOK, Datagrams
<1>3. closing # "no" =>
        \A e \in 1..seen : e # d /\ state'[e] = state[e] /\ due'[e] = due[e]
  BY <1>0, <1>2
<1>4. JoinInv'
  <2>1. closing # "no" => seen <= stats'.attempted
    BY <1>1, <1>2 DEF JoinInv
  <2>2. closing = "joining" =>
          \A e \in 1..seen : state'[e] = "waiting" =>
            e \in pending /\ due'[e] + SchedDelay < join_by
    BY <1>1, <1>3 DEF JoinInv
  <2>3. closing \in {"cleared", "done"} => \A e \in 1..seen : state'[e] # "waiting"
    BY <1>1, <1>3 DEF JoinInv
  <2> QED
    BY <2>1, <2>2, <2>3 DEF JoinInv
<1>5. ClosedAfterFlush'
  <2>1. ~open => closing # "no"
    BY <1>1 DEF WireInv
  <2>2. ~open => \A e \in 1..seen : state[e] \notin {"unsent", "dropped"} => e \in wire
    BY <1>1 DEF ClosedAfterFlush, Accepted
  <2> QED
    BY <1>3, <2>1, <2>2 DEF ClosedAfterFlush, Accepted
<1> QED
  BY <1>4, <1>5

LEMMA DropKeeps ==
  ASSUME IInv, NEW d, Drop(d)
  PROVE  IInv'
<1> USE SocketAssumption
<1>0. /\ d \in Datagrams /\ state[d] = "unsent" /\ d = stats.attempted + 1
      /\ (InTime /\ closing # "no") => d > seen
  BY TakesTheNext DEF Drop
<1>1. TypeOK /\ OrderInv /\ WireInv /\ ListInv /\ TimerInv
  BY DEF IInv, FlowInv
<1>2. /\ stats' = Counted(TRUE, FALSE)
      /\ state' = [state EXCEPT ![d] = "dropped"]
      /\ UNCHANGED <<latency, now, due, active, wire, open, closing, pending, join_by, seen>>
  BY DEF Drop
<1>3. /\ stats' \in [attempted : Nat, dropped : Nat, corrupted : Nat, delayed : Nat]
      /\ state' \in [Datagrams -> States]
      /\ stats'.attempted = stats.attempted + 1
      /\ OrderInv' /\ CountInv'
  BY <1>2, SendCounts DEF Drop
<1>4. TypeOK'
  BY <1>1, <1>2, <1>3 DEF TypeOK
<1>5. WireInv' /\ ListInv' /\ TimerInv'
  BY <1>0, <1>1, <1>2, <1>3 DEF WireInv, ListInv, TimerInv, TypeOK
<1>6. InTime => JoinInv' /\ ClosedAfterFlush'
  BY <1>2, <1>3, SendIsNotAwaited DEF Drop
<1> QED
  BY <1>3, <1>4, <1>5, <1>6 DEF IInv, FlowInv, InTime

LEMMA DelayKeeps ==
  ASSUME IInv, NEW d, Delay(d)
  PROVE  IInv'
<1> USE SocketAssumption
<1>0. /\ d \in Datagrams /\ state[d] = "unsent" /\ d = stats.attempted + 1
      /\ (InTime /\ closing # "no") => d > seen
  BY TakesTheNext DEF Delay
<1>1. TypeOK /\ OrderInv /\ WireInv /\ ListInv /\ TimerInv
  BY DEF IInv, FlowInv
<1>2. /\ state' = [state EXCEPT ![d] = "waiting"] /\ latency > 0
      /\ due' = [due EXCEPT ![d] = now + latency]
      /\ active' = active \cup {d}
      /\ UNCHANGED <<latency, now, wire, open, closing, pending, join_by, seen>>
  BY DEF Delay
<1>3. /\ stats' \in [attempted : Nat, dropped : Nat, corrupted : Nat, delayed : Nat]
      /\ state' \in [Datagrams -> States]
      /\ stats'.attempted = stats.attempted + 1
      /\ OrderInv' /\ CountInv'
  <2>1. PICK corrupt \in Draws(CorruptionRate) : stats' = Counted(FALSE, corrupt)
    BY DEF Delay
  <2>2. corrupt \in BOOLEAN
    BY DrawsAreBooleans
  <2> QED
    BY <1>2, <2>1, <2>2, SendCounts DEF Delay
<1>4. latency \in Nat /\ now \in Nat
  BY <1>1 DEF TypeOK
<1>5. TypeOK'
  <2>1. now + latency \in Nat
    BY <1>4
  <2>2. due' \in [Datagrams -> Nat] /\ active' \subseteq Datagrams
    BY <1>0, <1>1, <1>2, <2>1 DEF TypeOK
  <2> QED
    BY <1>1, <1>2, <1>3, <2>2 DEF TypeOK
<1>6. WireInv' /\ ListInv'
  BY <1>0, <1>1, <1>2, <1>3 DEF WireInv, ListInv, TypeOK
<1>7. TimerInv'
  <2>1. \A e \in Datagrams \ {d} : state'[e] = state[e] /\ due'[e] = due[e]
    BY <1>1, <1>2 DEF TypeOK
  <2>2. due'[d] = now + latency
    BY <1>0, <1>1, <1>2 DEF TypeOK
  <2> QED
    BY <1>1, <1>2, <1>4, <2>1, <2>2 DEF TimerInv
<1>8. InTime => JoinInv' /\ ClosedAfterFlush'
  <2>1. \A e \in Datagrams \ {d} : due'[e] = due[e]
    BY <1>1, <1>2 DEF TypeOK
  <2> QED
    BY <1>2, <1>3, <2>1, SendIsNotAwaited DEF Delay
<1> QED
  BY <1>3, <1>5, <1>6, <1>7, <1>8 DEF IInv, FlowInv, InTime

LEMMA SendNowKeeps ==
  ASSUME IInv, NEW d, SendNow(d)
  PROVE  IInv'
<1> USE SocketAssumption
<1>0. /\ d \in Datagrams /\ state[d] = "unsent" /\ d = stats.attempted + 1
      /\ (InTime /\ closing # "no") => d > seen
  BY TakesTheNext DEF SendNow
<1>1. TypeOK /\ OrderInv /\ WireInv /\ ListInv /\ TimerInv
  BY DEF IInv, FlowInv
<1>2. /\ state' = [state EXCEPT ![d] = "direct"] /\ latency = 0
      /\ wire' = IF open THEN wire \cup {d} ELSE wire
      /\ UNCHANGED <<latency, now, due, active, open, closing, pending, join_by, seen>>
  BY DEF SendNow
<1>3. /\ stats' \in [attempted : Nat, dropped : Nat, corrupted : Nat, delayed : Nat]
      /\ state' \in [Datagrams -> States]
      /\ stats'.attempted = stats.attempted + 1
      /\ OrderInv' /\ CountInv'
  <2>1. PICK corrupt \in Draws(CorruptionRate) : stats' = Counted(FALSE, corrupt)
    BY DEF SendNow
  <2>2. corrupt \in BOOLEAN
    BY DrawsAreBooleans
  <2>3. Take(d) /\ ("direct" = "waiting" <=> ~FALSE /\ latency > 0)
    BY <1>2 DEF SendNow
  <2> QED
    BY <1>2, <2>1, <2>2, <2>3, SendCounts
<1>4. TypeOK'
  BY <1>0, <1>1, <1>2, <1>3 DEF TypeOK
<1>5. WireInv' /\ ListInv' /\ TimerInv'
  BY <1>0, <1>1, <1>2, <1>3 DEF WireInv, ListInv, TimerInv, TypeOK
<1>6. InTime => JoinInv' /\ ClosedAfterFlush'
  BY <1>2, <1>3, SendIsNotAwaited DEF SendNow
<1> QED
  BY <1>3, <1>4, <1>5, <1>6 DEF IInv, FlowInv, InTime

-----------------------------------------------------------------------------
(* The timer threads *)

LEMMA TimerCounts ==
  ASSUME IInv, NEW d \in Datagrams, NEW x \in {"fired", "ended"},
         state[d] \in {"waiting", "fired"}, state' = [state EXCEPT ![d] = x],
         UNCHANGED stats
  PROVE  state' \in [Datagrams -> States] /\ OrderInv' /\ CountInv'
<1>1. TypeOK /\ OrderInv /\ CountInv
  BY DEF IInv, FlowInv
<1>2. state \in [Datagrams -> States] /\ x \in States
  BY <1>1 DEF TypeOK, States
<1>3. OrderInv'
  BY <1>1, <1>2 DEF OrderInv
<1>4. Fate({"dropped"})' = Fate({"dropped"})
  BY <1>2, FateStays
<1>5. Fate({"waiting", "fired", "ended"})' = Fate({"waiting", "fired", "ended"})
  BY <1>2, FateStays
<1> QED
  BY <1>1, <1>2, <1>3, <1>4, <1>5 DEF CountInv

LEMMA FireKeeps ==
  ASSUME IInv, NEW d \in Datagrams, Fire(d)
  PROVE  IInv'
<1> USE SocketAssumption
<1>1. TypeOK /\ OrderInv /\ WireInv /\ ListInv /\ TimerInv
  BY DEF IInv, FlowInv
<1>2. /\ state[d] = "waiting" /\ state' = [state EXCEPT ![d] = "fired"]
      /\ wire' = IF open THEN wire \cup {d} ELSE wire
      /\ UNCHANGED <<latency, now, stats, due, active, open, closing, pending, join_by, seen>>
  BY DEF Fire
<1>3. state' \in [Datagrams -> States] /\ OrderInv' /\ CountInv'
  BY <1>2, TimerCounts
<1>4. TypeOK'
  BY <1>1, <1>2, <1>3 DEF TypeOK
<1>5. WireInv' /\ ListInv' /\ TimerInv'
  BY <1>1, <1>2, <1>3 DEF WireInv, ListInv, TimerInv, TypeOK
<1>6. InTime => JoinInv' /\ ClosedAfterFlush'
  BY <1>1, <1>2 DEF IInv, JoinInv, ClosedAfterFlush, Accepted, TypeOK, WireInv
<1> QED
  BY <1>3, <1>4, <1>5, <1>6 DEF IInv, FlowInv, InTime

LEMMA FinishKeeps ==
  ASSUME IInv, NEW d \in Datagrams, Finish(d)
  PROVE  IInv'
<1> USE SocketAssumption
<1>1. TypeOK /\ OrderInv /\ WireInv /\ ListInv /\ TimerInv
  BY DEF IInv, FlowInv
<1>2. /\ state[d] = "fired" /\ state' = [state EXCEPT ![d] = "ended"]
      /\ active' = active \ {d}
      /\ UNCHANGED <<latency, now, stats, due, wire, open, closing, pending, join_by, seen>>
  BY DEF Finish
<1>3. state' \in [Datagrams -> States] /\ OrderInv' /\ CountInv'
  BY <1>2, TimerCounts
<1>4. TypeOK'
  BY <1>1, <1>2, <1>3 DEF TypeOK
<1>5. WireInv' /\ ListInv' /\ TimerInv'
  BY <1>1, <1>2, <1>3 DEF WireInv, ListInv, TimerInv, TypeOK
<1>6. InTime => JoinInv' /\ ClosedAfterFlush'
  BY <1>1, <1>2 DEF IInv, JoinInv, ClosedAfterFlush, Accepted, TypeOK, WireInv
<1> QED
  BY <1>3, <1>4, <1>5, <1>6 DEF IInv, FlowInv, InTime

-----------------------------------------------------------------------------
(* close(), and the clock *)

(* The counters say nothing of these. *)
LEMMA CountsStay ==
  ASSUME CountInv, OrderInv, UNCHANGED <<stats, state>>
  PROVE  CountInv' /\ OrderInv'
<1>1. Fate({"dropped"})' = Fate({"dropped"})
      /\ Fate({"waiting", "fired", "ended"})' = Fate({"waiting", "fired", "ended"})
  BY DEF Fate
<1> QED
  BY <1>1 DEF CountInv, OrderInv

(* A join that begins now outlasts every timer that still runs.             *)
LEMMA JoinOutlasts ==
  ASSUME TypeOK, TimerInv, InTime
  PROVE  /\ JoinLimit \in Nat
         /\ \A d \in Datagrams : state[d] = "waiting" => due[d] + SchedDelay < now + JoinLimit
<1>1. /\ latency \in Nat /\ latency \in Latencies /\ now \in Nat
      /\ SchedDelay \in Nat /\ JoinFloor \in Nat
  BY SocketAssumption DEF TypeOK
<1>2. JoinLimit \in Nat /\ JoinLimit >= 2 * latency /\ JoinLimit >= JoinFloor
  BY <1>1 DEF JoinLimit
<1>3. ASSUME NEW d \in Datagrams, state[d] = "waiting"
      PROVE  due[d] + SchedDelay < now + JoinLimit
  <2>1. latency > 0 /\ due[d] <= now + latency /\ due[d] \in Nat
    BY <1>3 DEF TimerInv, TypeOK
  <2>2. latency + SchedDelay < 2 * latency \/ latency + SchedDelay < JoinFloor
    BY <1>1, <2>1 DEF InTime
  <2> QED
    BY <1>1, <1>2, <2>1, <2>2
<1> QED
  BY <1>2, <1>3

LEMMA JoinLimitIsNatural == TypeOK => JoinLimit \in Nat
  BY SocketAssumption DEF TypeOK, JoinLimit

LEMMA CloseBeginsKeeps ==
  ASSUME IInv, CloseBegins
  PROVE  IInv'
<1> USE SocketAssumption
<1>1. TypeOK /\ OrderInv /\ CountInv /\ WireInv /\ ListInv /\ TimerInv
  BY DEF IInv, FlowInv
<1>2. /\ closing = "no" /\ closing' = "joining"
      /\ pending' = active /\ join_by' = now + JoinLimit /\ seen' = stats.attempted
      /\ UNCHANGED <<latency, now, stats, state, due, active, wire, open>>
  BY DEF CloseBegins
<1>3. OrderInv' /\ CountInv'
  BY <1>1, <1>2, CountsStay
<1>4. TypeOK'
  <2>1. seen' \in 0..MaxSends
    BY <1>1, <1>2 DEF TypeOK, OrderInv
  <2>2. join_by' \in Nat
    BY <1>1, <1>2, JoinLimitIsNatural DEF TypeOK
  <2> QED
    BY <1>1, <1>2, <2>1, <2>2 DEF TypeOK
<1>5. WireInv' /\ ListInv' /\ TimerInv'
  BY <1>1, <1>2 DEF WireInv, ListInv, TimerInv
<1>6. ASSUME InTime
      PROVE  JoinInv' /\ ClosedAfterFlush'
  <2>1. \A d \in Datagrams : state[d] = "waiting" => due[d] + SchedDelay < now + JoinLimit
    BY <1>1, <1>6, JoinOutlasts
  <2>2. 1..seen' \subseteq Datagrams /\ seen' <= stats'.attempted
    BY <1>1, <1>2 DEF TypeOK, OrderInv, Datagrams
  <2>3. JoinInv'
    BY <1>1, <1>2, <2>1, <2>2 DEF JoinInv, ListInv
  <2>4. open'
    BY <1>1, <1>2 DEF WireInv
  <2> QED
    BY <2>3, <2>4 DEF ClosedAfterFlush
<1> QED
  BY <1>3, <1>4, <1>5, <1>6 DEF IInv, FlowInv, InTime

LEMMA JoinKeeps ==
  ASSUME IInv, NEW d \in Datagrams, Join(d)
  PROVE  IInv'
<1> USE SocketAssumption
<1>1. TypeOK /\ OrderInv /\ CountInv /\ WireInv /\ ListInv /\ TimerInv
  BY DEF IInv, FlowInv
<1>2. /\ closing = "joining" /\ (state[d] = "ended" \/ now >= join_by)
      /\ pending' = pending \ {d} /\ join_by' = now + JoinLimit
      /\ UNCHANGED <<latency, now, stats, state, due, active, wire, open, closing, seen>>
  BY DEF Join, JoinReturns
<1>3. OrderInv' /\ CountInv'
  BY <1>1, <1>2, CountsStay
<1>4. TypeOK'
  <2>1. join_by' \in Nat
    BY <1>1, <1>2, JoinLimitIsNatural DEF TypeOK
  <2> QED
    BY <1>1, <1>2, <2>1 DEF TypeOK
<1>5. WireInv' /\ ListInv' /\ TimerInv'
  BY <1>1, <1>2 DEF WireInv, ListInv, TimerInv
<1>6. ASSUME InTime
      PROVE  JoinInv' /\ ClosedAfterFlush'
  <2>1. \A e \in Datagrams : state[e] = "waiting" => due[e] + SchedDelay < now + JoinLimit
    BY <1>1, <1>6, JoinOutlasts
  <2>2. JoinInv /\ ClosedAfterFlush /\ closing = "joining"
    BY <1>6, Join(d) DEF IInv, Join
  <2>3. 1..seen \subseteq Datagrams /\ due \in [Datagrams -> Nat] /\ join_by \in Nat /\ now \in Nat
    BY <1>1 DEF TypeOK, Datagrams
  (* It was not given up: its thread would be late by more than it may be. *)
  <2>4. d \in 1..seen => state[d] # "waiting"
    <3> SUFFICES ASSUME d \in 1..seen, state[d] = "waiting" PROVE FALSE
      OBVIOUS
    <3>1. due[d] + SchedDelay < join_by
      BY <2>2 DEF JoinInv
    <3>2. now <= due[d] + SchedDelay
      BY <1>1 DEF TimerInv
    <3>3. now >= join_by
      BY DEF Join, JoinReturns
    <3> QED
      BY <2>3, <3>1, <3>2, <3>3
  <2>5. JoinInv'
    BY <1>2, <2>1, <2>2, <2>3, <2>4 DEF JoinInv
  <2> QED
    BY <1>2, <2>2, <2>5 DEF ClosedAfterFlush, Accepted
<1> QED
  BY <1>3, <1>4, <1>5, <1>6 DEF IInv, FlowInv, InTime

LEMMA CloseClearsKeeps ==
  ASSUME IInv, CloseClears
  PROVE  IInv'
<1>1. TypeOK /\ OrderInv /\ CountInv /\ WireInv /\ ListInv /\ TimerInv
  BY DEF IInv, FlowInv
<1>2. /\ closing = "joining" /\ pending = {} /\ closing' = "cleared" /\ active' = {}
      /\ UNCHANGED <<latency, now, stats, state, due, wire, open, pending, join_by, seen>>
  BY DEF CloseClears
<1>3. OrderInv' /\ CountInv'
  BY <1>1, <1>2, CountsStay
<1>4. TypeOK' /\ WireInv' /\ ListInv' /\ TimerInv'
  BY <1>1, <1>2 DEF TypeOK, WireInv, ListInv, TimerInv
<1>5. InTime => JoinInv' /\ ClosedAfterFlush'
  BY <1>2 DEF IInv, JoinInv, ClosedAfterFlush, Accepted
<1> QED
  BY <1>3, <1>4, <1>5 DEF IInv, FlowInv, InTime

LEMMA CloseSocketKeeps ==
  ASSUME IInv, CloseSocket
  PROVE  IInv'
<1> USE SocketAssumption
<1>1. TypeOK /\ OrderInv /\ CountInv /\ WireInv /\ ListInv /\ TimerInv
  BY DEF IInv, FlowInv
<1>2. /\ closing = "cleared" /\ closing' = "done" /\ open' = FALSE
      /\ UNCHANGED <<latency, now, stats, state, due, active, wire, pending, join_by, seen>>
  BY DEF CloseSocket
<1>3. OrderInv' /\ CountInv'
  BY <1>1, <1>2, CountsStay
<1>4. TypeOK' /\ WireInv' /\ ListInv' /\ TimerInv'
  BY <1>1, <1>2 DEF TypeOK, WireInv, ListInv, TimerInv
<1>5. ASSUME InTime
      PROVE  JoinInv' /\ ClosedAfterFlush'
  <2>1. JoinInv
    BY <1>5 DEF IInv
  <2>2. 1..seen \subseteq Datagrams
    BY <1>1 DEF TypeOK, Datagrams
  <2>3. \A d \in 1..seen : state[d] # "waiting"
    BY <1>2, <2>1 DEF JoinInv
  <2>4. \A d \in Datagrams : state[d] \in {"direct", "fired", "ended"} => d \in wire
    BY <1>1, <1>2 DEF WireInv
  <2>5. \A d \in Datagrams : state[d] \in States
    BY <1>1 DEF TypeOK
  <2>6. ClosedAfterFlush'
    BY <1>2, <2>2, <2>3, <2>4, <2>5 DEF ClosedAfterFlush, Accepted, States
  <2>7. JoinInv'
    BY <1>2, <2>1, <2>3 DEF JoinInv
  <2> QED
    BY <2>6, <2>7
<1> QED
  BY <1>3, <1>4, <1>5 DEF IInv, FlowInv, InTime

LEMMA TickKeeps ==
  ASSUME IInv, Tick
  PROVE  IInv'
<1> USE SocketAssumption
<1>1. TypeOK /\ OrderInv /\ CountInv /\ WireInv /\ ListInv /\ TimerInv
  BY DEF IInv, FlowInv
<1>2. /\ \A d \in Datagrams : state[d] = "waiting" => now < due[d] + SchedDelay
      /\ now' = now + 1
      /\ UNCHANGED <<latency, stats, state, due, active, wire, open, closing, pending, join_by, seen>>
  BY DEF Tick
<1>3. OrderInv' /\ CountInv'
  BY <1>1, <1>2, CountsStay
<1>4. TypeOK' /\ WireInv' /\ ListInv'
  BY <1>1, <1>2 DEF TypeOK, WireInv, ListInv
<1>5. TimerInv'
  BY <1>1, <1>2 DEF TypeOK, TimerInv
<1>6. InTime => JoinInv' /\ ClosedAfterFlush'
  BY <1>2 DEF IInv, JoinInv, ClosedAfterFlush, Accepted
<1> QED
  BY <1>3, <1>4, <1>5, <1>6 DEF IInv, FlowInv, InTime

-----------------------------------------------------------------------------
(* The theorems *)

LEMMA StutterKeeps ==
  ASSUME IInv, UNCHANGED vars
  PROVE  IInv'
<1>1. UNCHANGED <<latency, now, stats, state, due, active, wire, open, closing, pending, join_by, seen>>
  BY DEF vars
<1>2. TypeOK' /\ WireInv' /\ ListInv' /\ TimerInv' /\ OrderInv' /\ CountInv'
  BY <1>1, CountsStay DEF IInv, FlowInv, TypeOK, WireInv, ListInv, TimerInv
<1>3. InTime => JoinInv' /\ ClosedAfterFlush'
  BY <1>1 DEF IInv, JoinInv, ClosedAfterFlush, Accepted
<1> QED
  BY <1>2, <1>3 DEF IInv, FlowInv, InTime

LEMMA StepKeeps == IInv /\ [Next]_vars => IInv'
<1> SUFFICES ASSUME IInv, [Next]_vars
             PROVE  IInv'
  OBVIOUS
<1>1. ASSUME NEW d \in Datagrams, Send(d)
      PROVE  IInv'
  BY <1>1, DropKeeps, DelayKeeps, SendNowKeeps DEF Send
<1>2. ASSUME NEW d \in Datagrams, Timer(d)
      PROVE  IInv'
  BY <1>2, FireKeeps, FinishKeeps DEF Timer
<1>3. CASE Close
  BY <1>3, CloseBeginsKeeps, JoinKeeps, CloseClearsKeeps, CloseSocketKeeps DEF Close
<1>4. CASE Tick
  BY <1>4, TickKeeps
<1>5. CASE UNCHANGED vars
  BY <1>5, StutterKeeps
<1> QED
  BY <1>1, <1>2, <1>3, <1>4, <1>5 DEF Next

LEMMA InvariantHolds == Spec => []IInv
  BY InitFlow, StepKeeps, PTL DEF Spec

(* The simulated socket's state keeps its types: no counter of its          *)
(* telemetry is ever negative, no timer belongs to no datagram              *)
(* (simulator.py:93-103).                                                   *)
THEOREM SocketTypeCorrect == Spec => []TypeOK
<1>1. IInv => TypeOK
  BY DEF IInv, FlowInv
<1> QED
  BY <1>1, InvariantHolds, PTL

(* The telemetry of sendto (simulator.py:135-160) accounts for every        *)
(* datagram, whatever the rates, the latencies and the order of threads.    *)
THEOREM TelemetryAccounts == Spec => []CountersAccount
<1>1. IInv => CountersAccount
  <2> SUFFICES ASSUME IInv
               PROVE  CountersAccount
    OBVIOUS
  <2>1. TypeOK /\ OrderInv /\ CountInv
    BY DEF IInv, FlowInv
  <2>2. stats.attempted \in Nat
    BY <2>1 DEF TypeOK
  <2>3. {d \in Datagrams : state[d] \in States \ {"unsent"}} = 1..stats.attempted
    BY <2>1, <2>2, SocketAssumption DEF OrderInv, TypeOK, Datagrams
  <2>4. Cardinality(1..stats.attempted) = stats.attempted
    BY <2>2, FS_Interval
  <2> QED
    BY <2>1, <2>3, <2>4 DEF CountersAccount, CountInv, Fate
<1> QED
  BY <1>1, InvariantHolds, PTL

(* Until close() is called, every datagram that was not dropped is on the   *)
(* wire, or a timer of the list will put it there (simulator.py:163-193).   *)
THEOREM TimersAreRemembered == Spec => []NothingIsForgotten
<1>1. IInv => NothingIsForgotten
  <2> SUFFICES ASSUME IInv
               PROVE  NothingIsForgotten
    OBVIOUS
  <2>1. TypeOK /\ WireInv /\ ListInv
    BY DEF IInv, FlowInv
  <2> QED
    BY <2>1 DEF NothingIsForgotten, Accepted, WireInv, ListInv, TypeOK, States
<1> QED
  BY <1>1, InvariantHolds, PTL

(* close() flushes (simulator.py:218): what sendto had accepted when it     *)
(* began is on the wire before the real socket is closed, for every         *)
(* latency whose threads are late by less than a join waits beyond it.      *)
THEOREM CloseFlushes == InTime /\ Spec => []ClosedAfterFlush
<1>1. CASE InTime
  <2>1. IInv => ClosedAfterFlush
    BY <1>1 DEF IInv
  <2> QED
    BY <2>1, InvariantHolds, PTL
<1>2. CASE ~InTime
  BY <1>2
<1> QED
  BY <1>1, <1>2
=============================================================================
