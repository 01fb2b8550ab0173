------------------------- MODULE SessionStartProofs -------------------------
(***************************************************************************)
(* What SessionStart checks on a few names, numbers and payloads, for      *)
(* names, chunks and datagrams of every length.                            *)
(***************************************************************************)
EXTENDS SessionStart, SequenceTheorems, WellFoundedInduction, TLAPS

LOCAL INSTANCE FiniteSetsExt

-----------------------------------------------------------------------------
(* Numbers *)

LEMMA NatHasMinimum ==
  ASSUME NEW S \in SUBSET Nat, S # {}
  PROVE  \E x \in S : \A y \in S : x <= y
<1> DEFINE R == {pair \in Nat \X Nat : pair[1] < pair[2]}
<1>1. IsWellFoundedOn(R, Nat)
  <2>1. OpToRel(<, Nat) = R
    BY DEF OpToRel
  <2> QED
    BY <2>1, NatLessThanWellFounded
<1>2. PICK x \in S : \A y \in S : ~ (<<y, x>> \in R)
  BY <1>1, WFMin
<1>3. ASSUME NEW y \in S PROVE x <= y
  <2>1. <<y, x>> \in Nat \X Nat /\ <<y, x>> \notin R
    BY <1>2
  <2>2. ~(y < x)
    BY <2>1
  <2> QED
    BY <2>2
<1> QED
  BY <1>3

LEMMA MinIsLeast ==
  ASSUME NEW S \in SUBSET Nat, S # {}
  PROVE  Min(S) \in S /\ \A y \in S : Min(S) <= y
<1>1. PICK x \in S : \A y \in S : x =< y
  BY NatHasMinimum
<1> QED
  BY <1>1 DEF Min

LEMMA MaxIsGreatest ==
  ASSUME NEW n \in Nat, NEW S \in SUBSET (1..n), S # {}
  PROVE  Max(S) \in S /\ \A y \in S : Max(S) >= y
<1> DEFINE T == {n - y : y \in S}
<1>1. T \in SUBSET Nat /\ T # {}
  <2>1. \A y \in S : n - y \in Nat
    OBVIOUS
  <2> QED
    BY <2>1
<1>2. PICK t \in T : \A u \in T : t <= u
  BY <1>1, NatHasMinimum
<1>3. PICK x \in S : t = n - x
  BY <1>2
<1>4. \A y \in S : x >= y
  <2> TAKE y \in S
  <2>1. t <= n - y
    BY <1>2
  <2> QED
    BY <1>3, <2>1
<1> QED
  BY <1>4 DEF Max

-----------------------------------------------------------------------------
(* The control characters of a name *)

Step(name, before, n) == IF name[n] = "<tab>" THEN before ELSE Append(before, name[n])

KeptBy(name, n, f) == f = [i \in 0..n |-> IF i = 0 THEN <<>> ELSE Step(name, f[i - 1], i)]

(* The recursion of Printable defines a function. *)
LEMMA KeptExists ==
  ASSUME NEW name, NEW n \in Nat
  PROVE  \E f : KeptBy(name, n, f)
<1> DEFINE S == {k \in Nat : ~ \E f : KeptBy(name, k, f)}
<1>1. SUFFICES ASSUME S # {}
               PROVE  FALSE
  OBVIOUS
<1>2. PICK k \in S : \A j \in S : k <= j
  BY <1>1, NatHasMinimum
<1>3. k # 0
  <2>1. KeptBy(name, 0, [i \in 0..0 |-> <<>>])
    BY DEF KeptBy
  <2> QED
    BY <2>1
<1>4. k \in Nat /\ k - 1 \in Nat /\ k - 1 \notin S
  BY <1>2, <1>3
<1>5. PICK g : KeptBy(name, k - 1, g)
  BY <1>4
<1> DEFINE f == [i \in 0..k |-> IF i = k THEN Step(name, g[k - 1], k) ELSE g[i]]
<1>6. KeptBy(name, k, f)
  <2>1. \A i \in 0..(k - 1) : g[i] = IF i = 0 THEN <<>> ELSE Step(name, g[i - 1], i)
    BY <1>5 DEF KeptBy
  <2>2. \A i \in 0..(k - 1) : f[i] = g[i]
    BY <1>4
  <2>3. f[k] = Step(name, g[k - 1], k)
    BY <1>4
  <2>4. \A i \in 0..k : f[i] = IF i = 0 THEN <<>> ELSE Step(name, f[i - 1], i)
    <3> TAKE i \in 0..k
    <3>1. CASE i = k
      BY <1>3, <1>4, <2>2, <2>3, <3>1
    <3>2. CASE i # k
      BY <1>4, <2>1, <2>2, <3>2
    <3> QED
      BY <3>1, <3>2
  <2> HIDE DEF f
  <2>5. f = [i \in 0..k |-> f[i]]
    BY DEF f
  <2> QED
    BY <2>4, <2>5 DEF KeptBy
<1> QED
  BY <1>2, <1>6

LEMMA PrintableIs ==
  ASSUME NEW name, Len(name) \in Nat
  PROVE  \E f : KeptBy(name, Len(name), f) /\ Printable(name) = f[Len(name)]
<1> DEFINE f == CHOOSE f : KeptBy(name, Len(name), f)
<1>1. KeptBy(name, Len(name), f)
  BY KeptExists
<1>2. Printable(name) = f[Len(name)]
  BY DEF Printable, KeptBy, Step
<1> QED
  BY <1>1, <1>2

-----------------------------------------------------------------------------
(* Names *)

LEMMA CharsAre ==
  Chars = {"x", "n", ".", " ", "/", "\\", ":", "<tab>", "<nbsp>",
           "_", "safe_", "unnamed", "default", "outside"}
<1>1. DOMAIN Alphabet = 1..14
  BY DEF Alphabet
<1>2. /\ Alphabet[1] = "x" /\ Alphabet[2] = "n" /\ Alphabet[3] = "." /\ Alphabet[4] = " "
      /\ Alphabet[5] = "/" /\ Alphabet[6] = "\\" /\ Alphabet[7] = ":" /\ Alphabet[8] = "<tab>"
      /\ Alphabet[9] = "<nbsp>" /\ Alphabet[10] = "_" /\ Alphabet[11] = "safe_"
      /\ Alphabet[12] = "unnamed" /\ Alphabet[13] = "default" /\ Alphabet[14] = "outside"
  BY DEF Alphabet
<1>3. 1..14 = {1, 2, 3, 4, 5, 6, 7, 8, 9, 10, 11, 12, 13, 14}
  OBVIOUS
<1>4. Chars = {Alphabet[k] : k \in {1, 2, 3, 4, 5, 6, 7, 8, 9, 10, 11, 12, 13, 14}}
  BY <1>1, <1>3 DEF Chars
<1>5. Chars = {Alphabet[1], Alphabet[2], Alphabet[3], Alphabet[4], Alphabet[5], Alphabet[6],
               Alphabet[7], Alphabet[8], Alphabet[9], Alphabet[10], Alphabet[11], Alphabet[12],
               Alphabet[13], Alphabet[14]}
  BY <1>4
<1> QED
  BY <1>2, <1>5

LEMMA PrintableKeeps ==
  ASSUME NEW s \in Seq(Chars)
  PROVE  Printable(s) \in Seq(Chars \ {"<tab>"})
<1>1. Len(s) \in Nat
  OBVIOUS
<1>2. PICK f : KeptBy(s, Len(s), f) /\ Printable(s) = f[Len(s)]
  BY <1>1, PrintableIs
<1> DEFINE C == Chars \ {"<tab>"}
           S == {k \in 0..Len(s) : f[k] \notin Seq(C)}
<1>3. \A k \in 0..Len(s) : f[k] = IF k = 0 THEN <<>> ELSE Step(s, f[k - 1], k)
  BY <1>2 DEF KeptBy
<1>4. SUFFICES ASSUME S # {}
               PROVE  FALSE
  BY <1>1, <1>2
<1>5. PICK k \in S : \A j \in S : k <= j
  <2>1. S \in SUBSET Nat
    BY <1>1
  <2> QED
    BY <1>4, <2>1, NatHasMinimum
<1>6. k \in 1..Len(s) /\ f[k - 1] \in Seq(C)
  <2>1. k # 0
    <3>1. 0 \in 0..Len(s) /\ <<>> \in Seq(C)
      BY <1>1
    <3>2. f[0] \in Seq(C)
      BY <1>3, <3>1
    <3> QED
      BY <3>2
  <2>2. k - 1 \in 0..Len(s) /\ k - 1 \notin S
    BY <1>1, <1>5, <2>1
  <2> QED
    BY <1>1, <2>1, <2>2
<1>7. f[k] = Step(s, f[k - 1], k) /\ s[k] \in Chars
  BY <1>1, <1>3, <1>6
<1>8. Step(s, f[k - 1], k) \in Seq(C)
  BY <1>6, <1>7 DEF Step
<1> QED
  BY <1>5, <1>7, <1>8

LEMMA PrintableStays ==
  ASSUME NEW s \in Seq(Chars), \A i \in 1..Len(s) : s[i] # "<tab>"
  PROVE  Printable(s) = s
<1>1. Len(s) \in Nat
  OBVIOUS
<1>2. PICK f : KeptBy(s, Len(s), f) /\ Printable(s) = f[Len(s)]
  BY <1>1, PrintableIs
<1> DEFINE Begins(t, k) == t \in Seq(Chars) /\ Len(t) = k /\ \A i \in 1..k : t[i] = s[i]
           S == {k \in 0..Len(s) : ~Begins(f[k], k)}
<1>3. \A k \in 0..Len(s) : f[k] = IF k = 0 THEN <<>> ELSE Step(s, f[k - 1], k)
  BY <1>2 DEF KeptBy
<1>4. S = {}
  <2> SUFFICES ASSUME S # {}
               PROVE  FALSE
    OBVIOUS
  <2>1. PICK k \in S : \A j \in S : k <= j
    <3>1. S \in SUBSET Nat
      BY <1>1
    <3> QED
      BY <3>1, NatHasMinimum
  <2>2. k # 0
    <3>1. 0 \in 0..Len(s)
      BY <1>1
    <3>2. f[0] = <<>>
      BY <1>3, <3>1
    <3>3. Begins(<<>>, 0)
      OBVIOUS
    <3> HIDE DEF Begins
    <3> QED
      BY <2>1, <3>2, <3>3
  <2>3. k \in 1..Len(s) /\ Begins(f[k - 1], k - 1)
    <3>1. k - 1 \in 0..Len(s) /\ k - 1 \notin S
      BY <1>1, <2>1, <2>2
    <3> QED
      BY <1>1, <2>1, <2>2, <3>1
  <2>4. f[k] = Append(f[k - 1], s[k]) /\ s[k] \in Chars
    <3>1. k \in 1..Len(s) /\ k \in 0..Len(s) /\ k # 0
      BY <1>1, <2>3
    <3> HIDE DEF Begins, S
    <3>2. f[k] = Step(s, f[k - 1], k)
      BY <1>3, <3>1
    <3>3. s[k] # "<tab>" /\ s[k] \in Chars
      BY <3>1, ElementOfSeq
    <3> QED
      BY <3>2, <3>3 DEF Step
  <2>5. Begins(f[k], k)
    BY <2>3, <2>4
  <2> QED
    BY <2>1, <2>5
<1>5. Begins(f[Len(s)], Len(s))
  <2>1. Len(s) \in 0..Len(s)
    BY <1>1
  <2> QED
    BY <1>4, <2>1
<1> QED
  BY <1>2, <1>5, SeqEqual

LEMMA ReplaceKeeps ==
  ASSUME NEW C \in SUBSET Chars, NEW s \in Seq(C), NEW old, NEW new \in Chars, new # old
  PROVE  /\ Replace(s, old, new) \in Seq((C \ {old}) \cup {new})
         /\ (\A i \in 1..Len(s) : s[i] # old) => Replace(s, old, new) = s
<1>1. Len(s) \in Nat /\ DOMAIN s = 1..Len(s) /\ s = [i \in 1..Len(s) |-> s[i]]
  OBVIOUS
<1> DEFINE e(i) == IF s[i] = old THEN new ELSE s[i]
<1>2. \A i \in 1..Len(s) : e(i) \in (C \ {old}) \cup {new}
  OBVIOUS
<1>3. Replace(s, old, new) = [i \in 1..Len(s) |-> e(i)]
  BY <1>1 DEF Replace
<1>4. [i \in 1..Len(s) |-> e(i)] \in Seq((C \ {old}) \cup {new})
  <2> HIDE DEF e
  <2> QED
    BY <1>1, <1>2, IsASeq
<1>5. ASSUME \A i \in 1..Len(s) : s[i] # old
      PROVE  [i \in 1..Len(s) |-> e(i)] = s
  BY <1>1, <1>5
<1> QED
  BY <1>3, <1>4, <1>5

(* A part of a sequence. *)
LEMMA PartOf ==
  ASSUME NEW C, NEW s \in Seq(C), NEW a \in 1..Len(s), NEW b \in a..Len(s)
  PROVE  /\ SubSeq(s, a, b) \in Seq(C)
         /\ Len(SubSeq(s, a, b)) = b - a + 1
         /\ \A i \in 1..(b - a + 1) : SubSeq(s, a, b)[i] = s[a + i - 1] /\ a + i - 1 \in a..b
         /\ SubSeq(s, a, b) # <<>>
  OBVIOUS

LEMMA BaseNameKeeps ==
  ASSUME NEW C, NEW s \in Seq(C)
  PROVE  BaseName(s) \in Seq(C \ {"/"})
<1>0. Len(s) \in Nat /\ DOMAIN s = 1..Len(s)
  OBVIOUS
<1> DEFINE solid == {i \in DOMAIN s : s[i] \notin {"/"} \cup Whitespace}
           last  == Max(solid)
           segment == {i \in 1..last : \A j \in i..last : s[j] # "/"}
           first == Min(segment \cap {i \in segment : s[i] \notin Whitespace})
<1>1. CASE solid = {}
  <2>1. BaseName(s) = <<>>
    BY <1>1, Zenon DEF BaseName
  <2> QED
    BY <2>1
<1>2. CASE solid # {}
  <2>1. last \in solid /\ last \in 1..Len(s)
    BY <1>0, <1>2, MaxIsGreatest
  <2> HIDE DEF last
  <2>2. last \in segment /\ s[last] \notin Whitespace
    <3>1. last \in Nat /\ last \in 1..last /\ \A j \in last..last : j = last
      <4> HIDE DEF solid, segment, first
      <4> QED
        BY <1>0, <2>1
    <3>2. s[last] \notin {"/"} \cup Whitespace
      BY <2>1
    <3> QED
      BY <3>1, <3>2
  <2>3. first \in segment
    <3> DEFINE begin == segment \cap {i \in segment : s[i] \notin Whitespace}
    <3>1. begin \in SUBSET Nat
      <4>1. last \in Nat
        <5> HIDE DEF solid, segment, first, begin
        <5> QED
          BY <1>0, <2>1
      <4>2. segment \in SUBSET Nat
        BY <4>1
      <4> HIDE DEF segment
      <4> QED
        BY <4>2
    <3>2. begin # {}
      BY <2>2
    <3> HIDE DEF begin
    <3>3. Min(begin) \in begin
      BY <3>1, <3>2, MinIsLeast
    <3> QED
      BY <3>3 DEF begin
  <2>4. BaseName(s) = SubSeq(s, first, last)
    BY <1>2 DEF BaseName, last
  <2> HIDE DEF first
  <2>5. first \in 1..last
    BY <2>3
  <2>6. first \in 1..Len(s) /\ last \in first..Len(s)
    <3> HIDE DEF solid, segment
    <3> QED
      BY <1>0, <2>1, <2>5
  <2>7. \A j \in first..last : s[j] \in C \ {"/"}
    BY <1>0, <2>3, <2>6
  <2> DEFINE base == SubSeq(s, first, last)
  <2>8. /\ Len(base) = last - first + 1 /\ base \in Seq(C)
        /\ \A i \in 1..(last - first + 1) : base[i] \in C \ {"/"}
    BY <2>6, <2>7, PartOf
  <2>9. base \in Seq(C \ {"/"})
    <3> HIDE DEF base
    <3> QED
      BY <2>8
  <2> QED
    BY <2>4, <2>9
<1> QED
  BY <1>1, <1>2

(* What a path may not contain, and what a name neither begins nor ends with. *)
Illegal == {"<tab>", "/", "\\", ":"}
Edge    == {" ", "."}

Clean(s) ==
  /\ s \in Seq(Chars \ Illegal) /\ s # <<>>
  /\ s[1] \notin Edge /\ s[Len(s)] \notin Edge

(* What s.strip() leaves alone, too. *)
Stripped(s) == s[1] \notin Whitespace /\ s[Len(s)] \notin Whitespace

LEMMA StripKeeps ==
  ASSUME NEW C, NEW s \in Seq(C), Strip(s, Edge) # <<>>
  PROVE  /\ Strip(s, Edge) \in Seq(C)
         /\ Strip(s, Edge)[1] \notin Edge
         /\ Strip(s, Edge)[Len(Strip(s, Edge))] \notin Edge
<1>0. Len(s) \in Nat /\ DOMAIN s = 1..Len(s)
  OBVIOUS
<1> DEFINE solid == {i \in DOMAIN s : s[i] \notin Edge}
           a == Min(solid)
           b == Max(solid)
<1>1. solid # {} /\ Strip(s, Edge) = SubSeq(s, a, b)
  BY DEF Strip
<1>2. a \in solid /\ \A y \in solid : a <= y
  <2>1. solid \in SUBSET Nat
    BY <1>0
  <2> QED
    BY <1>1, <2>1, MinIsLeast
<1>3. b \in solid
  <2>1. solid \in SUBSET (1..Len(s))
    BY <1>0
  <2> QED
    BY <1>0, <1>1, <2>1, MaxIsGreatest
<1>4. a \in 1..Len(s) /\ s[a] \notin Edge /\ b \in 1..Len(s) /\ s[b] \notin Edge /\ a <= b
  BY <1>0, <1>2, <1>3
<1> DEFINE t == SubSeq(s, a, b)
<1>5. /\ t \in Seq(C) /\ Len(t) = b - a + 1
      /\ \A i \in 1..(b - a + 1) : t[i] = s[a + i - 1]
  <2> HIDE DEF a, b
  <2>1. b \in a..Len(s)
    BY <1>0, <1>4
  <2> QED
    BY <1>4, <2>1, PartOf
<1>6. t[1] = s[a] /\ t[Len(t)] = s[b]
  <2> HIDE DEF a, b, t
  <2>1. 1 \in 1..(b - a + 1) /\ Len(t) \in 1..(b - a + 1) /\ a + 1 - 1 = a /\ a + Len(t) - 1 = b
    BY <1>0, <1>4, <1>5
  <2> QED
    BY <1>5, <2>1
<1> QED
  BY <1>1, <1>4, <1>5, <1>6

(* Of a name that begins well, strip takes only what is behind e. *)
LEMMA StripBehind ==
  ASSUME NEW C, NEW s \in Seq(C), NEW blanks, NEW e \in 1..Len(s),
         s[1] \notin blanks, s[e] \notin blanks, \A i \in (e + 1)..Len(s) : s[i] \in blanks
  PROVE  Strip(s, blanks) = SubSeq(s, 1, e)
<1>0. Len(s) \in Nat /\ DOMAIN s = 1..Len(s) /\ Len(s) >= 1 /\ e \in Nat /\ 1 <= e
  OBVIOUS
<1> DEFINE solid == {i \in DOMAIN s : s[i] \notin blanks}
<1>1. 1 \in solid /\ e \in solid
  BY <1>0
<1>2. Min(solid) = 1
  <2>1. solid \in SUBSET Nat
    BY <1>0
  <2>2. Min(solid) \in solid /\ Min(solid) <= 1
    BY <1>1, <2>1, MinIsLeast
  <2> QED
    BY <1>0, <2>2
<1>3. Max(solid) = e
  <2>1. solid \in SUBSET (1..e)
    BY <1>0
  <2>2. Max(solid) \in solid /\ Max(solid) >= e
    BY <1>0, <1>1, <2>1, MaxIsGreatest
  <2>3. Max(solid) \in 1..e
    BY <2>1, <2>2, Zenon
  <2>4. \A m \in Nat : \A j \in 1..m : j >= m => j = m
    OBVIOUS
  <2> QED
    BY <1>0, <2>2, <2>3, <2>4, Zenon
<1>4. Strip(s, blanks) = SubSeq(s, Min(solid), Max(solid))
  BY <1>1, Zenon DEF Strip
<1> QED
  BY <1>2, <1>3, <1>4, Zenon

LEMMA StripStays ==
  ASSUME NEW C, NEW s \in Seq(C), s # <<>>, s[1] \notin Edge, s[Len(s)] \notin Edge
  PROVE  Strip(s, Edge) = s
<1>1. Len(s) \in 1..Len(s) /\ \A i \in (Len(s) + 1)..Len(s) : s[i] \in Edge
  OBVIOUS
<1>2. Strip(s, Edge) = SubSeq(s, 1, Len(s))
  BY <1>1, StripBehind
<1> QED
  BY <1>2, SubSeqFull

(* The same of the strip in the base name of a path without slashes. *)
LEMMA BaseNameBehind ==
  ASSUME NEW C, NEW s \in Seq(C \ {"/"}), NEW e \in 1..Len(s),
         s[1] \notin Whitespace, s[e] \notin Whitespace,
         \A i \in (e + 1)..Len(s) : s[i] \in Whitespace
  PROVE  BaseName(s) = SubSeq(s, 1, e)
<1>0. Len(s) \in Nat /\ DOMAIN s = 1..Len(s) /\ Len(s) >= 1 /\ e \in Nat /\ 1 <= e /\ e <= Len(s)
  OBVIOUS
<1>a. \A i \in 1..Len(s) : s[i] # "/"
  OBVIOUS
<1>b. s[1] \notin {"/"} \cup Whitespace /\ s[e] \notin {"/"} \cup Whitespace
  BY <1>0, <1>a
<1> DEFINE solid == {i \in DOMAIN s : s[i] \notin {"/"} \cup Whitespace}
           last  == Max(solid)
           segment == {i \in 1..last : \A j \in i..last : s[j] # "/"}
           Visible(i) == s[i] \notin Whitespace
           begin == segment \cap {i \in segment : Visible(i)}
<1>1. e \in solid /\ 1 \in solid
  <2>1. 1 \in DOMAIN s /\ e \in DOMAIN s
    BY <1>0
  <2> QED
    BY <1>b, <2>1, Zenon
<1>2. last = e
  <2>1. solid \in SUBSET (1..e)
    BY <1>0
  <2>2. Max(solid) \in solid /\ Max(solid) >= e
    BY <1>0, <1>1, <2>1, MaxIsGreatest
  <2>3. Max(solid) \in 1..e
    BY <2>1, <2>2, Zenon
  <2>4. \A k \in Nat : \A j \in 1..k : j >= k => j = k
    OBVIOUS
  <2> QED
    BY <1>0, <2>2, <2>3, <2>4, Zenon
<1>3. Min(begin) = 1
  <2> HIDE DEF last
  <2>1. segment = 1..e
    BY <1>0, <1>a, <1>2
  <2> HIDE DEF segment
  <2>x. Visible(1)
    OBVIOUS
  <2> HIDE DEF Visible
  <2>2. begin \in SUBSET Nat /\ 1 \in begin /\ \A y \in begin : y >= 1
    BY <1>0, <2>1, <2>x
  <2> HIDE DEF begin
  <2>3. Min(begin) \in begin /\ Min(begin) <= 1
    BY <2>2, MinIsLeast
  <2> QED
    <3>1. \A k \in Nat : k >= 1 /\ k <= 1 => k = 1
      OBVIOUS
    <3> QED
      BY <2>2, <2>3, <3>1
<1>4. BaseName(s) = SubSeq(s, Min(begin), last)
  BY <1>1, Zenon DEF BaseName
<1> QED
  BY <1>2, <1>3, <1>4, Zenon

LEMMA BaseNameStays ==
  ASSUME NEW C, NEW s \in Seq(C \ {"/"}), s # <<>>, Stripped(s)
  PROVE  BaseName(s) = s
<1>1. Len(s) \in 1..Len(s) /\ \A i \in (Len(s) + 1)..Len(s) : s[i] \in Whitespace
  OBVIOUS
<1>2. BaseName(s) = SubSeq(s, 1, Len(s))
  BY <1>1, BaseNameBehind DEF Stripped
<1> QED
  BY <1>2, SubSeqFull

(* "safe_" before a name leaves no device. *)
LEMMA SafeIsNoDevice ==
  ASSUME NEW C, NEW s \in Seq(C)
  PROVE  ~IsDevice(<<"safe_">> \o s)
<1> DEFINE t == <<"safe_">> \o s
           dots == {i \in DOMAIN t : t[i] = "."}
<1>1. t \in Seq(C \cup {"safe_"}) /\ t[1] = "safe_" /\ Len(t) \in Nat /\ DOMAIN t = 1..Len(t)
  OBVIOUS
<1> HIDE DEF t
<1>2. CASE dots # {} /\ Max(dots) \in 2..(Len(t) - 1)
  <2> DEFINE m == Max(dots) - 1
  <2>1. Stem(t) = SubSeq(t, 1, m)
    BY <1>2 DEF Stem
  <2>2. m \in 1..Len(t)
    BY <1>1, <1>2
  <2> HIDE DEF m
  <2>3. Len(SubSeq(t, 1, m)) = m /\ SubSeq(t, 1, m)[1] = "safe_"
    BY <1>1, <2>2
  <2>4. <<"n">>[1] = "n"
    OBVIOUS
  <2> QED
    BY <2>1, <2>3, <2>4 DEF IsDevice, t
<1>3. CASE ~(dots # {} /\ Max(dots) \in 2..(Len(t) - 1))
  <2>1. Stem(t) = t
    BY <1>3, Zenon DEF Stem
  <2>2. t # <<"n">>
    BY <1>1
  <2> QED
    BY <2>1, <2>2 DEF IsDevice, t
<1> QED
  BY <1>2, <1>3

LEMMA UnnamedIsClean == Clean(Unnamed) /\ Unnamed \in Seq(Chars \ Illegal)
<1>1. "unnamed" \in Chars \ Illegal
  BY CharsAre DEF Illegal
<1>2. "unnamed" \notin Edge
  BY DEF Edge
<1> QED
  BY <1>1, <1>2 DEF Clean, Unnamed

(* One round of sanitize_filename, whatever the name. *)
LEMMA SanitizeIsClean ==
  ASSUME NEW name \in Seq(Chars)
  PROVE  Clean(sanitize_filename(name))
<1> DEFINE p1    == Printable(name)
           p2    == Replace(p1, "\\", "/")
           p3    == BaseName(p2)
           base  == Replace(p3, ":", "_")
           safe  == IF IsDevice(base) THEN <<"safe_">> \o base ELSE base
           final == Strip(safe, Edge)
           D     == Chars \ {"<tab>", "\\"}
           E     == Chars \ {"<tab>", "\\", "/"}
<1>1. p1 \in Seq(Chars \ {"<tab>"})
  BY PrintableKeeps
<1>2. p2 \in Seq(D)
  <2>1. "/" \in Chars /\ "/" # "\\" /\ "/" # "<tab>"
    BY CharsAre
  <2>2. Chars \ {"<tab>"} \in SUBSET Chars
    OBVIOUS
  <2> HIDE DEF p1
  <2>3. p2 \in Seq(((Chars \ {"<tab>"}) \ {"\\"}) \cup {"/"})
    BY <1>1, <2>1, <2>2, ReplaceKeeps
  <2>4. ((Chars \ {"<tab>"}) \ {"\\"}) \cup {"/"} = D
    BY <2>1
  <2> QED
    BY <2>3, <2>4
<1>3. p3 \in Seq(E)
  <2> HIDE DEF p2
  <2>1. p3 \in Seq(D \ {"/"})
    BY <1>2, BaseNameKeeps
  <2>2. D \ {"/"} = E
    OBVIOUS
  <2> QED
    BY <2>1, <2>2
<1>4. base \in Seq(Chars \ Illegal)
  <2>1. "_" \in Chars /\ "_" # ":" /\ "_" \notin Illegal
    BY CharsAre DEF Illegal
  <2>2. E \in SUBSET Chars
    OBVIOUS
  <2> HIDE DEF p3
  <2>3. base \in Seq((E \ {":"}) \cup {"_"})
    BY <1>3, <2>1, <2>2, ReplaceKeeps
  <2>4. (E \ {":"}) \cup {"_"} = Chars \ Illegal
    BY <2>1 DEF Illegal
  <2> QED
    BY <2>3, <2>4
<1> HIDE DEF base
<1>5. safe \in Seq(Chars \ Illegal)
  <2>1. "safe_" \in Chars \ Illegal
    BY CharsAre DEF Illegal
  <2>2. <<"safe_">> \o base \in Seq(Chars \ Illegal)
    BY <1>4, <2>1
  <2> QED
    BY <1>4, <2>2
<1> HIDE DEF safe
<1>6. final # <<>> => Clean(final)
  BY <1>5, StripKeeps DEF Clean
<1>7. sanitize_filename(name) = Unnamed
        \/ (final # <<>> /\ sanitize_filename(name) = final)
  BY Zenon DEF sanitize_filename, base, safe, Edge
<1> QED
  BY <1>6, <1>7, UnnamedIsClean

LEMMA LegalIsNoStep ==
  ASSUME NEW s \in Seq(Chars \ Illegal)
  PROVE  Printable(s) = s /\ Replace(s, "\\", "/") = s /\ Replace(s, ":", "_") = s
<1>2. \A i \in 1..Len(s) : s[i] \notin Illegal
  OBVIOUS
<1>3. s \in Seq(Chars)
  BY SeqMonotonic
<1>4. Printable(s) = s
  <2>1. \A i \in 1..Len(s) : s[i] # "<tab>"
    BY <1>2, Zenon DEF Illegal
  <2> QED
    BY <1>3, <2>1, PrintableStays
<1>5. Replace(s, "\\", "/") = s
  <2>1. \A i \in 1..Len(s) : s[i] # "\\"
    BY <1>2, Zenon DEF Illegal
  <2>2. "/" \in Chars /\ "/" # "\\" /\ Chars \in SUBSET Chars
    BY CharsAre
  <2> QED
    BY <1>3, <2>1, <2>2, ReplaceKeeps
<1>6. Replace(s, ":", "_") = s
  <2>1. \A i \in 1..Len(s) : s[i] # ":"
    BY <1>2, Zenon DEF Illegal
  <2>2. "_" \in Chars /\ "_" # ":" /\ Chars \in SUBSET Chars
    BY CharsAre
  <2> QED
    BY <1>3, <2>1, <2>2, ReplaceKeeps
<1> QED
  BY <1>4, <1>5, <1>6

LEMMA LegalBaseNameStays ==
  ASSUME NEW s \in Seq(Chars \ Illegal), s # <<>>,
         s[1] \notin Whitespace, s[Len(s)] \notin Whitespace
  PROVE  BaseName(s) = s
<1>1. (Chars \ Illegal) \subseteq Chars \ {"/"}
  BY DEF Illegal
<1>2. s \in Seq(Chars \ {"/"})
  BY <1>1, SeqMonotonic
<1> QED
  BY <1>2, BaseNameStays DEF Stripped

(* A clean name begins and ends with something else than a dot. *)
LEMMA CleanIsNoDots ==
  ASSUME NEW s, Clean(s)
  PROVE  s \notin {<<>>, <<".">>, <<".", ".">>}
<1>1. s # <<>> /\ s[1] \notin Edge
  BY DEF Clean
<1>2. "." \in Edge
  BY DEF Edge
<1>3. <<".">>[1] = "." /\ <<".", ".">>[1] = "."
  OBVIOUS
<1> QED
  BY <1>1, <1>2, <1>3, Zenon

(* A second round only disarms a device, if there is no whitespace at the   *)
(* ends for it to strip.                                                    *)
LEMMA SanitizeSettles ==
  ASSUME NEW s, Clean(s), Stripped(s)
  PROVE  /\ sanitize_filename(s) = IF IsDevice(s) THEN <<"safe_">> \o s ELSE s
         /\ Clean(sanitize_filename(s)) /\ Stripped(sanitize_filename(s))
         /\ ~IsDevice(sanitize_filename(s))
<1> DEFINE safe  == IF IsDevice(s) THEN <<"safe_">> \o s ELSE s
           final == Strip(safe, Edge)
<1>1. s \in Seq(Chars \ Illegal) /\ s # <<>> /\ s[1] \notin Edge /\ s[Len(s)] \notin Edge
  BY DEF Clean
<1>2. Clean(<<"safe_">> \o s) /\ Stripped(<<"safe_">> \o s)
  <2>1. "safe_" \in Chars \ Illegal /\ "safe_" \notin Edge /\ "safe_" \notin Whitespace
    BY CharsAre DEF Illegal, Edge, Whitespace
  <2> DEFINE t == <<"safe_">> \o s
  <2>2. t \in Seq(Chars \ Illegal) /\ t # <<>> /\ t[1] = "safe_" /\ t[Len(t)] = s[Len(s)]
    BY <1>1, <2>1
  <2> HIDE DEF t
  <2>3. Clean(t) /\ Stripped(t)
    BY <1>1, <2>1, <2>2, Zenon DEF Clean, Stripped
  <2> QED
    BY <2>3 DEF t
<1>3. Clean(safe) /\ Stripped(safe) /\ ~IsDevice(safe)
  <2>1. CASE IsDevice(s)
    BY <1>1, <1>2, <2>1, SafeIsNoDevice
  <2>2. CASE ~IsDevice(s)
    BY <2>2
  <2> QED
    BY <2>1, <2>2
<1> HIDE DEF safe
<1>4. final = safe /\ safe # <<>>
  BY <1>3, StripStays DEF Clean
<1>5. BaseName(s) = s
  BY <1>1, LegalBaseNameStays DEF Stripped
<1>6. sanitize_filename(s) = IF s \in {<<>>, <<".">>, <<".", ".">>} \/ final = <<>> THEN Unnamed ELSE final
  BY <1>1, <1>5, LegalIsNoStep, Zenon DEF sanitize_filename, safe, Edge
<1>7. sanitize_filename(s) = safe
  BY <1>4, <1>6, CleanIsNoDots, Zenon
<1> QED
  BY <1>3, <1>7, Zenon DEF safe

LEMMA CleanIsName ==
  ASSUME NEW s, Clean(s)
  PROVE  s \in Seq(Chars)
<1>1. s \in Seq(Chars \ Illegal)
  BY Zenon DEF Clean
<1>2. Chars \ Illegal \subseteq Chars
  OBVIOUS
<1> QED
  BY <1>1, <1>2

(* What receive_file opens is inside its directory. *)
LEMMA CleanIsSaved ==
  ASSUME NEW y, Clean(sanitize_filename(y))
  PROVE  SavedName(y) = sanitize_filename(y)
<1> DEFINE clean == sanitize_filename(y)
<1> HIDE DEF clean
<1>1. clean[1] # "/"
  <2>1. clean \in Seq(Chars \ Illegal) /\ clean # <<>>
    BY DEF Clean, clean
  <2>2. clean[1] \in Chars \ Illegal
    BY <2>1
  <2> QED
    BY <2>2, Zenon DEF Illegal
<1>2. clean # <<".", ".">>
  BY CleanIsNoDots DEF clean
<1> QED
  BY <1>1, <1>2, Zenon DEF SavedName, IsInside, clean

(* What receive_file opens after both rounds. *)
LEMMA SavedNameSettles ==
  ASSUME NEW name \in Seq(Chars), NEW z, z = SavedName(sanitize_filename(name))
  PROVE  /\ Clean(z)
         /\ IsStripped(sanitize_filename(name)) => ~IsDevice(z) /\ sanitize_filename(z) = z
<1> DEFINE y == sanitize_filename(name)
           clean == sanitize_filename(y)
<1>1. Clean(y)
  BY SanitizeIsClean
<1> HIDE DEF y
<1>2. Clean(clean)
  BY <1>1, CleanIsName, SanitizeIsClean
<1>3. z = clean
  BY <1>2, CleanIsSaved DEF y
<1>4. ASSUME IsStripped(y)
      PROVE  ~IsDevice(clean) /\ sanitize_filename(clean) = clean
  <2>1. Stripped(y)
    <3>1. y # <<>>
      BY <1>1 DEF Clean
    <3> QED
      BY <1>4, <3>1, Zenon DEF IsStripped, Stripped
  <2>2. Clean(clean) /\ Stripped(clean) /\ ~IsDevice(clean)
    BY <1>1, <2>1, SanitizeSettles
  <2> HIDE DEF clean
  <2> QED
    BY <2>2, SanitizeSettles
<1> QED
  BY <1>2, <1>3, <1>4, Zenon DEF y

(* A name of two characters or more with a dot at its end is no device. *)
LEMMA DotEndIsNoDevice ==
  ASSUME NEW C, NEW s \in Seq(C), Len(s) >= 2, s[Len(s)] = "."
  PROVE  ~IsDevice(s)
<1> DEFINE dots == {i \in DOMAIN s : s[i] = "."}
<1>1. Len(s) \in Nat /\ DOMAIN s = 1..Len(s)
  OBVIOUS
<1>2. dots \in SUBSET (1..Len(s)) /\ Len(s) \in dots
  BY <1>1
<1>3. Max(dots) \in 1..Len(s) /\ Max(dots) >= Len(s)
  BY <1>1, <1>2, MaxIsGreatest
<1> HIDE DEF dots
<1>4. Max(dots) \notin 2..(Len(s) - 1)
  BY <1>1, <1>3
<1>5. Stem(s) = s
  BY <1>4, Zenon DEF Stem, dots
<1>6. s # <<"n">>
  OBVIOUS
<1> QED
  BY <1>5, <1>6 DEF IsDevice

(* One round on a name without illegal characters or a device. *)
LEMMA RoundIs ==
  ASSUME NEW s \in Seq(Chars \ Illegal), NEW base \in Seq(Chars \ Illegal), BaseName(s) = base,
         ~IsDevice(base), Len(base) >= 2, base # <<".", ".">>, NEW t, Strip(base, Edge) = t, t # <<>>
  PROVE  sanitize_filename(s) = t
<1>1. base \notin {<<>>, <<".">>, <<".", ".">>}
  OBVIOUS
<1> QED
  BY <1>1, LegalIsNoStep, Zenon DEF sanitize_filename, Edge

-----------------------------------------------------------------------------
(* Bytes: pack and unpack are inverse to each other *)

LEMMA PowersOfTwo ==
  /\ 2^0 = 1 /\ 2^1 = 2 /\ 2^2 = 4 /\ 2^3 = 8
  /\ 2^4 = 16 /\ 2^5 = 32 /\ 2^6 = 64 /\ 2^7 = 128
  OBVIOUS

LEMMA ValueOfByte ==
  ASSUME NEW n \in 0..WordMax
  PROVE  Value(ByteOf(n)) = n
<1> DEFINE bit(b) == IF b \in ByteOf(n) THEN 2^b ELSE 0
<1>1. \A k \in Nat : k % 2 \in {0, 1}
  OBVIOUS
<1>2. \A b \in 0..7 : b \in ByteOf(n) <=> (n \div 2^b) % 2 = 1
  BY DEF ByteOf, Bits
<1>3. n \in 0..255
  BY DEF WordMax
<1>4. /\ bit(0) = n % 2              /\ bit(1) = 2 * ((n \div 2) % 2)
      /\ bit(2) = 4 * ((n \div 4) % 2) /\ bit(3) = 8 * ((n \div 8) % 2)
  BY <1>1, <1>2, <1>3, PowersOfTwo
<1>5. /\ bit(4) = 16 * ((n \div 16) % 2) /\ bit(5) = 32 * ((n \div 32) % 2)
      /\ bit(6) = 64 * ((n \div 64) % 2) /\ bit(7) = 128 * ((n \div 128) % 2)
  BY <1>1, <1>2, <1>3, PowersOfTwo
<1>6. n = (n % 2) + (2 * ((n \div 2) % 2)) + (4 * ((n \div 4) % 2)) + (8 * ((n \div 8) % 2))
            + (16 * ((n \div 16) % 2)) + (32 * ((n \div 32) % 2)) + (64 * ((n \div 64) % 2))
            + (128 * ((n \div 128) % 2))
  BY <1>3
<1>7. Value(ByteOf(n)) = bit(0) + bit(1) + bit(2) + bit(3) + bit(4) + bit(5) + bit(6) + bit(7)
  BY Zenon DEF Value
<1> HIDE DEF bit
<1> QED
  BY <1>4, <1>5, <1>6, <1>7

LEMMA ByteOfValue ==
  ASSUME NEW byte \in SUBSET Bits
  PROVE  Value(byte) \in 0..WordMax /\ ByteOf(Value(byte)) = byte
<1> DEFINE a(b) == IF b \in byte THEN 1 ELSE 0
           n == a(0) + (2 * a(1)) + (4 * a(2)) + (8 * a(3)) + (16 * a(4)) + (32 * a(5)) + (64 * a(6)) + (128 * a(7))
<1>1. Value(byte) = n
  <2> DEFINE bit(b) == IF b \in byte THEN 2^b ELSE 0
  <2>1. /\ bit(0) = a(0) /\ bit(1) = 2 * a(1) /\ bit(2) = 4 * a(2) /\ bit(3) = 8 * a(3)
        /\ bit(4) = 16 * a(4) /\ bit(5) = 32 * a(5) /\ bit(6) = 64 * a(6) /\ bit(7) = 128 * a(7)
    BY PowersOfTwo
  <2>2. Value(byte) = bit(0) + bit(1) + bit(2) + bit(3) + bit(4) + bit(5) + bit(6) + bit(7)
    BY Zenon DEF Value
  <2> HIDE DEF a, bit
  <2> QED
    BY <2>1, <2>2
<1>2. /\ a(0) \in {0, 1} /\ a(1) \in {0, 1} /\ a(2) \in {0, 1} /\ a(3) \in {0, 1}
      /\ a(4) \in {0, 1} /\ a(5) \in {0, 1} /\ a(6) \in {0, 1} /\ a(7) \in {0, 1}
  OBVIOUS
<1>3. \A b \in 0..7 : b \in byte <=> a(b) = 1
  OBVIOUS
<1> HIDE DEF a
<1>4. n \in 0..255
  BY <1>2
<1>5. /\ (n \div 1) % 2 = a(0)  /\ (n \div 2) % 2 = a(1)
      /\ (n \div 4) % 2 = a(2)  /\ (n \div 8) % 2 = a(3)
  BY <1>2
<1>6. /\ (n \div 16) % 2 = a(4) /\ (n \div 32) % 2 = a(5)
      /\ (n \div 64) % 2 = a(6) /\ (n \div 128) % 2 = a(7)
  BY <1>2
<1> HIDE DEF n
<1>7. \A b \in 0..7 : (n \div 2^b) % 2 = a(b)
  <2>1. /\ (n \div 2^0) % 2 = a(0) /\ (n \div 2^1) % 2 = a(1)
        /\ (n \div 2^2) % 2 = a(2) /\ (n \div 2^3) % 2 = a(3)
        /\ (n \div 2^4) % 2 = a(4) /\ (n \div 2^5) % 2 = a(5)
        /\ (n \div 2^6) % 2 = a(6) /\ (n \div 2^7) % 2 = a(7)
    BY <1>5, <1>6, PowersOfTwo
  <2>2. \A b \in 0..7 : b = 0 \/ b = 1 \/ b = 2 \/ b = 3 \/ b = 4 \/ b = 5 \/ b = 6 \/ b = 7
    OBVIOUS
  <2> QED
    BY <2>1, <2>2, Zenon
<1>8. ByteOf(n) = byte
  BY <1>3, <1>7 DEF ByteOf, Bits
<1> QED
  BY <1>1, <1>4, <1>8 DEF WordMax

LEMMA ByteOfIsByte == \A n : ByteOf(n) \in SUBSET Bits
  BY DEF ByteOf

LEMMA ChecksumIsByte == \A data : calculate_checksum(data) \in SUBSET Bits
  BY Zenon DEF calculate_checksum

-----------------------------------------------------------------------------
(* Datagrams *)

Bytes == SUBSET Bits

Packets ==
  [pkt_type : 1..7, session_id : 1..WordMax, seq_num : Nat, ack_num : Nat, payload : Seq(Bytes)]

(* What encode takes. *)
Fits(p) == p.seq_num <= WordMax /\ p.ack_num <= WordMax /\ Len(p.payload) <= MaxPayload

LEMMA EncodeOutcome ==
  ASSUME NEW p \in Packets
  PROVE  /\ Fits(p) => Encode(p) = Returns(Header(p, ChecksumOf(p)) \o p.payload)
         /\ Encode(p).error = "none" => Fits(p)
<1>1. p.session_id \in 1..WordMax /\ p.seq_num \in Nat /\ p.ack_num \in Nat
  BY DEF Packets
<1>2. WordMax \in Nat
  BY DEF WordMax
<1>3. (p.seq_num \notin 0..WordMax \/ p.ack_num \notin 0..WordMax)
        <=> ~(p.seq_num <= WordMax /\ p.ack_num <= WordMax)
  BY <1>1, <1>2
<1>4. Len(p.payload) \in Nat /\ MaxPayload \in Nat
  BY CodecAssumption DEF Packets
<1>5. Len(p.payload) > MaxPayload <=> ~(Len(p.payload) <= MaxPayload)
  BY <1>4
<1>6. /\ Raises("InvalidSequenceNumberError").error # "none"
      /\ Raises("InvalidPayloadLengthError").error # "none"
  BY DEF Raises
<1> QED
  BY <1>1, <1>3, <1>5, <1>6, Zenon DEF Encode, Fits

LEMMA HeaderIs ==
  ASSUME NEW p \in Packets, NEW c \in Bytes
  PROVE  /\ Header(p, c) \in Seq(Bytes) /\ Len(Header(p, c)) = 8
         /\ Header(p, c)[1] = ByteOf(Magic)        /\ Header(p, c)[2] = ByteOf(Version)
         /\ Header(p, c)[3] = ByteOf(p.pkt_type)   /\ Header(p, c)[4] = ByteOf(p.session_id)
         /\ Header(p, c)[5] = ByteOf(p.seq_num)    /\ Header(p, c)[6] = ByteOf(p.ack_num)
         /\ Header(p, c)[7] = ByteOf(Len(p.payload)) /\ Header(p, c)[8] = c
  BY ByteOfIsByte DEF Header, Bytes

Joined(h, t, S) ==
  /\ h \o t \in Seq(S) /\ Len(h \o t) = 8 + Len(t)
  /\ \A i \in 1..8 : (h \o t)[i] = h[i]
  /\ \A i \in 1..Len(t) : (h \o t)[8 + i] = t[i]

LEMMA AfterHeader ==
  ASSUME NEW S, NEW h \in Seq(S), Len(h) = 8, NEW t \in Seq(S)
  PROVE  Joined(h, t, S) /\ Len(t) \in Nat
<1>1. h \o t \in Seq(S) /\ Len(h \o t) = 8 + Len(t) /\ Len(t) \in Nat
  <2>1. h \o t \in Seq(S) /\ Len(h \o t) = Len(h) + Len(t)
    BY ConcatProperties, Zenon
  <2>2. Len(t) \in Nat
    BY LenProperties, Zenon
  <2> QED
    BY <2>1, <2>2, Zenon
<1>2. \A i \in 1..8 : (h \o t)[i] = h[i]
  BY <1>1
<1>3. \A i \in 1..Len(t) : (h \o t)[8 + i] = t[i]
  BY <1>1
<1> QED
  BY <1>1, <1>2, <1>3, Zenon DEF Joined

LEMMA BehindHeader ==
  ASSUME NEW S, NEW h \in Seq(S), Len(h) = 8, NEW t \in Seq(S)
  PROVE  /\ h \o t \in Seq(S) /\ Len(h \o t) = 8 + Len(t)
         /\ \A i \in 1..8 : (h \o t)[i] = h[i]
         /\ SubSeq(h \o t, 9, 8 + Len(t)) = t
<1>0. Joined(h, t, S) /\ Len(t) \in Nat
  BY AfterHeader, Zenon
<1>1. /\ h \o t \in Seq(S) /\ Len(h \o t) = 8 + Len(t) /\ Len(t) \in Nat
      /\ \A i \in 1..8 : (h \o t)[i] = h[i]
      /\ \A i \in 1..Len(t) : (h \o t)[8 + i] = t[i]
  BY <1>0, Zenon DEF Joined
<1> DEFINE r == h \o t
           u == SubSeq(r, 9, 8 + Len(t))
<1>2. u \in Seq(S) /\ Len(u) = Len(t) /\ \A i \in 1..Len(t) : u[i] = t[i]
  <2> HIDE DEF r
  <2>1. Len(t) = 0 => u = <<>> /\ t = <<>>
    BY <1>1
  <2>2. ASSUME Len(t) # 0
        PROVE  /\ u \in Seq(S) /\ Len(u) = Len(t)
               /\ \A i \in 1..Len(t) : u[i] = r[8 + i]
    <3>1. 9 \in 1..Len(r) /\ 8 + Len(t) \in 9..Len(r) /\ r \in Seq(S)
      BY <1>1, <2>2 DEF r
    <3> QED
      BY <1>1, <3>1, PartOf
  <2>3. \A i \in 1..Len(t) : r[8 + i] = t[i]
    BY <1>1 DEF r
  <2> QED
    BY <1>1, <2>1, <2>2, <2>3
<1> HIDE DEF u
<1>3. u = t
  BY <1>2, SeqEqual
<1> QED
  BY <1>1, <1>3 DEF u, r

LEMMA DatagramIs ==
  ASSUME NEW p \in Packets, NEW c \in Bytes
  PROVE  LET raw == Header(p, c) \o p.payload IN
         /\ raw \in Seq(Bytes) /\ Len(raw) = 8 + Len(p.payload)
         /\ raw[1] = ByteOf(Magic)        /\ raw[2] = ByteOf(Version)
         /\ raw[3] = ByteOf(p.pkt_type)   /\ raw[4] = ByteOf(p.session_id)
         /\ raw[5] = ByteOf(p.seq_num)    /\ raw[6] = ByteOf(p.ack_num)
         /\ raw[7] = ByteOf(Len(p.payload)) /\ raw[8] = c
         /\ SubSeq(raw, 9, 8 + Len(p.payload)) = p.payload
<1> DEFINE h == Header(p, c)
           raw == h \o p.payload
<1>1. h \in Seq(Bytes) /\ Len(h) = 8
  BY HeaderIs
<1>2. p.payload \in Seq(Bytes) /\ Len(p.payload) \in Nat
  BY DEF Packets
<1>3. /\ raw \in Seq(Bytes) /\ Len(raw) = 8 + Len(p.payload)
      /\ \A i \in 1..8 : raw[i] = h[i]
      /\ SubSeq(raw, 9, 8 + Len(p.payload)) = p.payload
  BY <1>1, <1>2, BehindHeader
<1> QED
  BY <1>3, HeaderIs

(* decode gives back what encode packed. *)
LEMMA DecodeOfEncode ==
  ASSUME NEW p \in Packets, Fits(p)
  PROVE  Decode(Header(p, ChecksumOf(p)) \o p.payload) = Returns(p)
<1> DEFINE c == ChecksumOf(p)
           raw == Header(p, c) \o p.payload
<1>1. c \in Bytes
  BY ChecksumIsByte DEF ChecksumOf, Bytes
<1> HIDE DEF c
<1>2. /\ raw \in Seq(Bytes) /\ Len(raw) = 8 + Len(p.payload)
      /\ raw[1] = ByteOf(Magic)        /\ raw[2] = ByteOf(Version)
      /\ raw[3] = ByteOf(p.pkt_type)   /\ raw[4] = ByteOf(p.session_id)
      /\ raw[5] = ByteOf(p.seq_num)    /\ raw[6] = ByteOf(p.ack_num)
      /\ raw[7] = ByteOf(Len(p.payload)) /\ raw[8] = c
      /\ SubSeq(raw, 9, 8 + Len(p.payload)) = p.payload
  BY <1>1, DatagramIs
<1> HIDE DEF raw
<1>3. /\ p.pkt_type \in 1..7 /\ p.session_id \in 1..255 /\ p.seq_num \in 0..255 /\ p.ack_num \in 0..255
      /\ Len(p.payload) \in 0..MaxPayload /\ MaxPayload \in 0..255
  <2>1. /\ p.pkt_type \in 1..7 /\ p.session_id \in 1..255
        /\ p.seq_num \in Nat /\ p.ack_num \in Nat /\ Len(p.payload) \in Nat
    BY DEF Packets, WordMax
  <2>2. p.seq_num <= 255 /\ p.ack_num <= 255 /\ Len(p.payload) <= MaxPayload
    BY Zenon DEF Fits, WordMax
  <2>3. MaxPayload \in 0..255 /\ MaxPayload \in Nat /\ 255 \in Nat
    BY CodecAssumption
  <2>4. \A k \in Nat : \A m \in Nat : k <= m => k \in 0..m
    OBVIOUS
  <2> QED
    BY <2>1, <2>2, <2>3, <2>4, Zenon
<1>4. /\ Value(raw[1]) = Magic        /\ Value(raw[2]) = Version
      /\ Value(raw[3]) = p.pkt_type   /\ Value(raw[4]) = p.session_id
      /\ Value(raw[5]) = p.seq_num    /\ Value(raw[6]) = p.ack_num
      /\ Value(raw[7]) = Len(p.payload)
  <2>1. /\ Magic \in 0..WordMax /\ Version \in 0..WordMax /\ p.pkt_type \in 0..WordMax
        /\ p.session_id \in 0..WordMax /\ p.seq_num \in 0..WordMax /\ p.ack_num \in 0..WordMax
        /\ Len(p.payload) \in 0..WordMax
    <3>1. Magic \in 0..WordMax /\ Version \in 0..WordMax
      BY DEF Magic, Version, WordMax
    <3>2. 1..7 \subseteq 0..WordMax /\ 1..255 \subseteq 0..WordMax /\ 0..255 = 0..WordMax
      BY DEF WordMax
    <3>3. 0..MaxPayload \subseteq 0..WordMax
      BY CodecAssumption DEF WordMax
    <3> QED
      BY <1>3, <3>1, <3>2, <3>3, Zenon
  <2> QED
    BY <1>2, <2>1, ValueOfByte, Zenon
<1>5. Unpacked(raw) = p
  <2>1. p = [pkt_type |-> p.pkt_type, session_id |-> p.session_id, seq_num |-> p.seq_num,
             ack_num |-> p.ack_num, payload |-> p.payload]
    BY DEF Packets
  <2>2. HeaderSize + 1 = 9 /\ HeaderSize + Len(p.payload) = 8 + Len(p.payload)
    BY DEF HeaderSize
  <2> QED
    BY <1>2, <1>4, <2>1, <2>2, Zenon DEF Unpacked
<1>6. /\ ~(Len(raw) < HeaderSize) /\ ~(Len(raw) > HeaderSize + MaxPayload)
      /\ Value(raw[3]) \in 1..7 /\ Value(raw[4]) # 0
      /\ ~(Value(raw[7]) > MaxPayload) /\ ~(Len(raw) < HeaderSize + Value(raw[7]))
      /\ ~(Len(raw) > HeaderSize + Value(raw[7]))
  <2> DEFINE k == Len(p.payload)
  <2>1. \A m \in 0..255 : \A n \in 0..m :
          /\ ~(8 + n < 8) /\ ~(8 + n > 8 + m) /\ ~(n > m) /\ ~(8 + n < 8 + n) /\ ~(8 + n > 8 + n)
    OBVIOUS
  <2>2. \A n \in 1..255 : n # 0
    OBVIOUS
  <2>3. k \in 0..MaxPayload /\ MaxPayload \in 0..255
    BY <1>3
  <2>4. Len(raw) = 8 + k /\ Value(raw[7]) = k /\ HeaderSize = 8
    BY <1>2, <1>4 DEF HeaderSize
  <2>5. Value(raw[3]) \in 1..7
    <3>1. p.pkt_type \in 1..7 /\ Value(raw[3]) = p.pkt_type
      BY <1>3, <1>4, ZenonT(30)
    <3> QED
      BY <3>1, Zenon
  <2>6. Value(raw[4]) # 0
    <3>1. p.session_id \in 1..255 /\ Value(raw[4]) = p.session_id
      BY <1>3, <1>4, ZenonT(30)
    <3> QED
      BY <2>2, <3>1, Zenon
  <2> HIDE DEF k
  <2>7. /\ ~(8 + k < 8) /\ ~(8 + k > 8 + MaxPayload) /\ ~(k > MaxPayload)
        /\ ~(8 + k < 8 + k) /\ ~(8 + k > 8 + k)
    BY <2>1, <2>3, Zenon
  <2> QED
    BY <2>4, <2>5, <2>6, <2>7, Zenon
<1>7. ~HasTrailing(raw)
  BY <1>6 DEF HasTrailing
<1>8. ChecksumOf(Unpacked(raw)) = raw[8]
  BY <1>2, <1>5 DEF c
<1>9. Decode(raw) = Returns(Unpacked(raw))
  BY <1>4, <1>6, <1>7, <1>8, Zenon DEF Decode
<1> QED
  BY <1>5, <1>9 DEF raw, c

(* What decode accepts, encode packs the same way. *)
LEMMA EncodeOfDecode ==
  ASSUME NEW raw \in Seq(Bytes), Decode(raw).error = "none"
  PROVE  Decode(raw).value \in Packets /\ Encode(Decode(raw).value) = Returns(raw)
<1> DEFINE p == Unpacked(raw)
           n == Value(raw[7])
<1>1. /\ ~(Len(raw) < HeaderSize) /\ ~(Len(raw) > HeaderSize + MaxPayload)
      /\ Value(raw[1]) = Magic /\ Value(raw[2]) = Version
      /\ Value(raw[3]) \in 1..7 /\ Value(raw[4]) # 0
      /\ ~(n > MaxPayload) /\ ~(Len(raw) < HeaderSize + n) /\ ~HasTrailing(raw)
      /\ ChecksumOf(p) = raw[8]
      /\ Decode(raw) = Returns(p)
  <2>1. \A e \in {"PacketTruncatedError", "OversizedPacketError", "InvalidHeaderError",
                  "InvalidVersionError", "InvalidPacketTypeError", "InvalidSessionIdError",
                  "InvalidPayloadLengthError", "ChecksumMismatchError"} : Raises(e).error # "none"
    BY DEF Raises
  <2> QED
    BY <2>1, Zenon DEF Decode
<1>2. Len(raw) \in Nat /\ MaxPayload \in 0..255 /\ 8 <= Len(raw)
  BY <1>1, CodecAssumption DEF HeaderSize
<1>3. \A i \in 1..8 : raw[i] \in SUBSET Bits
  BY <1>2 DEF Bytes
<1>4. \A i \in 1..8 : Value(raw[i]) \in 0..WordMax /\ ByteOf(Value(raw[i])) = raw[i]
  BY <1>3, ByteOfValue
<1>5. n \in 0..255 /\ Len(raw) = 8 + n
  <2>1. n \in 0..255
    BY <1>4 DEF WordMax
  <2> HIDE DEF n
  <2>2. ~(Len(raw) > HeaderSize + n)
    BY <1>1 DEF HasTrailing, n
  <2> QED
    BY <1>1, <1>2, <2>1, <2>2 DEF HeaderSize
<1>6. /\ p.pkt_type = Value(raw[3]) /\ p.session_id = Value(raw[4]) /\ p.seq_num = Value(raw[5])
      /\ p.ack_num = Value(raw[6]) /\ p.payload = SubSeq(raw, 9, 8 + n)
  <2>1. HeaderSize + 1 = 9 /\ HeaderSize = 8
    BY DEF HeaderSize
  <2> QED
    BY <2>1, Zenon DEF Unpacked
<1>7. p.payload \in Seq(Bytes) /\ Len(p.payload) = n /\ \A i \in 1..n : p.payload[i] = raw[8 + i]
  <2> HIDE DEF n, p
  <2>1. CASE n = 0
    BY <1>2, <1>5, <1>6, <2>1
  <2>2. CASE n # 0
    <3>1. 9 \in 1..Len(raw) /\ 8 + n \in 9..Len(raw)
      BY <1>5, <2>2
    <3> QED
      BY <1>5, <1>6, <3>1, PartOf
  <2> QED
    BY <2>1, <2>2
<1>8. p \in Packets
  <2>1. /\ Value(raw[3]) \in 1..7 /\ Value(raw[4]) \in 1..WordMax /\ Value(raw[5]) \in Nat
        /\ Value(raw[6]) \in Nat
    <3>1. /\ Value(raw[4]) \in 0..WordMax /\ Value(raw[5]) \in 0..WordMax /\ Value(raw[6]) \in 0..WordMax
      BY <1>4
    <3>2. \A k \in 0..WordMax : k \in Nat /\ (k # 0 => k \in 1..WordMax)
      BY DEF WordMax
    <3> QED
      BY <1>1, <3>1, <3>2, Zenon
  <2>2. SubSeq(raw, HeaderSize + 1, HeaderSize + Value(raw[7])) \in Seq(Bytes)
    BY <1>6, <1>7, Zenon DEF Unpacked
  <2> QED
    BY <2>1, <2>2 DEF Unpacked, Packets
<1>9. Fits(p)
  <2> HIDE DEF n, p
  <2>1. p.seq_num \in 0..WordMax /\ p.ack_num \in 0..WordMax
    BY <1>4, <1>6
  <2>2. Len(p.payload) <= MaxPayload
    BY <1>1, <1>2, <1>5, <1>7
  <2> QED
    <3>1. \A k \in 0..WordMax : k <= WordMax
      BY DEF WordMax
    <3> QED
      BY <2>1, <2>2, <3>1, Zenon DEF Fits
<1>10. Header(p, raw[8]) \o p.payload = raw
  <2> DEFINE t == Header(p, raw[8]) \o p.payload
  <2>1. raw[8] \in Bytes
    BY <1>3 DEF Bytes
  <2>2. /\ t \in Seq(Bytes) /\ Len(t) = 8 + Len(p.payload)
        /\ t[1] = ByteOf(Magic)        /\ t[2] = ByteOf(Version)
        /\ t[3] = ByteOf(p.pkt_type)   /\ t[4] = ByteOf(p.session_id)
        /\ t[5] = ByteOf(p.seq_num)    /\ t[6] = ByteOf(p.ack_num)
        /\ t[7] = ByteOf(Len(p.payload)) /\ t[8] = raw[8]
        /\ SubSeq(t, 9, 8 + Len(p.payload)) = p.payload
    BY <1>8, <2>1, DatagramIs
  <2> HIDE DEF t, n, p
  <2>3. /\ t[1] = raw[1] /\ t[2] = raw[2] /\ t[3] = raw[3] /\ t[4] = raw[4]
        /\ t[5] = raw[5] /\ t[6] = raw[6] /\ t[7] = raw[7] /\ t[8] = raw[8]
    <3>1. \A i \in 1..8 : ByteOf(Value(raw[i])) = raw[i]
      BY <1>4
    <3>2. /\ ByteOf(Value(raw[1])) = raw[1] /\ ByteOf(Value(raw[2])) = raw[2]
          /\ ByteOf(Value(raw[3])) = raw[3] /\ ByteOf(Value(raw[4])) = raw[4]
          /\ ByteOf(Value(raw[5])) = raw[5] /\ ByteOf(Value(raw[6])) = raw[6]
          /\ ByteOf(Value(raw[7])) = raw[7]
      BY <3>1
    <3>3. Len(p.payload) = Value(raw[7])
      BY <1>7 DEF n
    <3> QED
      BY <1>1, <1>6, <2>2, <3>2, <3>3, Zenon
  <2>4. ASSUME NEW i \in 1..n
        PROVE  t[8 + i] = raw[8 + i]
    <3>1. SubSeq(t, 9, 8 + n)[i] = p.payload[i]
      BY <1>7, <2>2
    <3>2. 9 \in 1..Len(t) /\ 8 + n \in 9..Len(t) /\ n = (8 + n) - 9 + 1
      BY <1>5, <1>7, <2>2
    <3>3. SubSeq(t, 9, 8 + n)[i] = t[9 + i - 1]
      BY <2>2, <3>2, PartOf
    <3>4. 9 + i - 1 = 8 + i
      OBVIOUS
    <3> QED
      BY <1>7, <3>1, <3>3, <3>4
  <2>5. Len(t) = Len(raw)
    BY <1>5, <1>7, <2>2
  <2>6. \A j \in 1..Len(raw) : t[j] = raw[j]
    <3> SUFFICES ASSUME NEW j \in 1..Len(raw) PROVE t[j] = raw[j]
      OBVIOUS
    <3>1. CASE j <= 8
      <4>1. j = 1 \/ j = 2 \/ j = 3 \/ j = 4 \/ j = 5 \/ j = 6 \/ j = 7 \/ j = 8
        BY <3>1
      <4> QED
        BY <2>3, <4>1, Zenon
    <3>2. CASE j > 8
      <4>1. j - 8 \in 1..n /\ 8 + (j - 8) = j
        BY <1>5, <3>2
      <4> QED
        BY <2>4, <4>1
    <3> QED
      BY <3>1, <3>2
  <2>7. t = raw
    BY <2>2, <2>5, <2>6, SeqEqual
  <2> QED
    BY <2>7 DEF t
<1>11. Encode(p) = Returns(Header(p, ChecksumOf(p)) \o p.payload)
  BY <1>8, <1>9, EncodeOutcome
<1>12. Decode(raw).value = p
  BY <1>1 DEF Returns
<1> QED
  BY <1>1, <1>8, <1>10, <1>11, <1>12, Zenon

-----------------------------------------------------------------------------
(* The checksum *)

(* Induction, for a set of the numbers up to n. *)
LEMMA AllAreReached ==
  ASSUME NEW m \in Nat, NEW n \in Nat, NEW T, m \in T,
         \A i \in (m + 1)..n : i - 1 \in T => i \in T
  PROVE  \A i \in m..n : i \in T
<1> DEFINE Missed == {k \in Nat : k \in m..n /\ k \notin T}
<1> SUFFICES ASSUME NEW j \in m..n, j \notin T PROVE FALSE
  OBVIOUS
<1>1. j \in Missed
  OBVIOUS
<1>2. PICK k \in Missed : \A l \in Missed : k <= l
  <2> HIDE DEF Missed
  <2>1. Missed \in SUBSET Nat /\ Missed # {}
    BY <1>1 DEF Missed
  <2> QED
    BY <2>1, NatHasMinimum
<1>3. k \in (m + 1)..n /\ k - 1 \in m..n
  BY <1>2
<1>4. k - 1 \in T
  <2> HIDE DEF Missed
  <2>1. ~(k <= k - 1) /\ k - 1 \in Nat
    BY <1>3
  <2>2. k - 1 \notin Missed
    BY <1>2, <2>1
  <2> QED
    BY <1>3, <2>1, <2>2 DEF Missed
<1> QED
  BY <1>2, <1>3, <1>4

(* A recursion over the numbers up to n defines a function. *)
Recursion(f, n, start, step) ==
  \A i \in 0..n : f[i] = IF i = 0 THEN start ELSE step[<<i, f[i - 1]>>]

LEMMA RecursionExists ==
  ASSUME NEW n \in Nat, NEW S, NEW start \in S, NEW step \in [(1..n) \X S -> S]
  PROVE  \E f \in [0..n -> S] : Recursion(f, n, start, step)
<1> DEFINE Good(k, f) == \A i \in 0..k : f[i] = IF i = 0 THEN start ELSE step[<<i, f[i - 1]>>]
           T == {k \in 0..n : \E f \in [0..k -> S] : Good(k, f)}
<1>1. 0 \in T
  <2> DEFINE f == [i \in 0..0 |-> start]
  <2>1. f \in [0..0 -> S] /\ f[0] = start
    OBVIOUS
  <2> HIDE DEF f
  <2>2. Good(0, f)
    BY <2>1
  <2> QED
    BY <2>1, <2>2
<1>2. ASSUME NEW i \in 1..n, i - 1 \in T
      PROVE  i \in T
  <2>1. PICK g \in [0..(i - 1) -> S] : Good(i - 1, g)
    BY <1>2
  <2> DEFINE f == [k \in 0..i |-> IF k = i THEN step[<<i, g[i - 1]>>] ELSE g[k]]
  <2>2. g[i - 1] \in S
    OBVIOUS
  <2>3. step[<<i, g[i - 1]>>] \in S
    BY <2>2
  <2>4. f \in [0..i -> S]
    BY <2>3
  <2>5. f[i] = step[<<i, g[i - 1]>>] /\ \A k \in 0..(i - 1) : f[k] = g[k]
    OBVIOUS
  <2> HIDE DEF f
  <2>6. Good(i, f)
    <3> SUFFICES ASSUME NEW k \in 0..i
                 PROVE  f[k] = IF k = 0 THEN start ELSE step[<<k, f[k - 1]>>]
      OBVIOUS
    <3>1. CASE k = i
      <4>1. i # 0 /\ f[i - 1] = g[i - 1]
        BY <2>5
      <4> QED
        BY <2>5, <3>1, <4>1
    <3>2. CASE k # i
      <4>1. k \in 0..(i - 1) /\ (k # 0 => k - 1 \in 0..(i - 1))
        BY <3>2
      <4>2. f[k] = g[k] /\ (k # 0 => f[k - 1] = g[k - 1])
        BY <2>5, <4>1
      <4>3. g[k] = IF k = 0 THEN start ELSE step[<<k, g[k - 1]>>]
        BY <2>1, <4>1
      <4> QED
        BY <4>2, <4>3
    <3> QED
      BY <3>1, <3>2
  <2>7. i \in 0..n
    OBVIOUS
  <2> QED
    BY <2>4, <2>6, <2>7
<1> HIDE DEF T
<1>3. \A i \in 0..n : i \in T
  <2>1. \A i \in (0 + 1)..n : i - 1 \in T => i \in T
    BY <1>2
  <2> QED
    BY <1>1, <2>1, AllAreReached
<1>4. n \in 0..n
  OBVIOUS
<1> QED
  BY <1>3, <1>4 DEF T, Recursion

LEMMA SymDiffIsByte ==
  ASSUME NEW x \in Bytes, NEW y \in Bytes
  PROVE  SymDiff(x, y) \in Bytes
  BY DEF SymDiff, Bytes

(* A step of the division can be undone: its highest bit tells what it did. *)
LEMMA DivideIsInjective ==
  ASSUME NEW x \in Bytes, NEW y \in Bytes
  PROVE  DivideStep(x) \in Bytes /\ (DivideStep(x) = DivideStep(y) => x = y)
<1> DEFINE sx == {b - 1 : b \in x \ {0}}
           sy == {b - 1 : b \in y \ {0}}
<1>1. sx \subseteq 0..6 /\ sy \subseteq 0..6
  BY DEF Bytes, Bits
<1>2. \A b \in 1..7 : (b \in x <=> b - 1 \in sx) /\ (b \in y <=> b - 1 \in sy)
  BY DEF Bytes, Bits
<1> HIDE DEF sx, sy
<1>3. /\ DivideStep(x) = IF 0 \in x THEN SymDiff(sx, {5, 6, 7}) ELSE sx
      /\ DivideStep(y) = IF 0 \in y THEN SymDiff(sy, {5, 6, 7}) ELSE sy
  BY DEF DivideStep, sx, sy
<1>4. DivideStep(x) \in Bytes
  BY <1>1, <1>3 DEF SymDiff, Bytes, Bits
<1>5. ASSUME DivideStep(x) = DivideStep(y)
      PROVE  x = y
  <2>1. (0 \in x <=> 7 \in DivideStep(x)) /\ (0 \in y <=> 7 \in DivideStep(y))
    BY <1>1, <1>3 DEF SymDiff
  <2>2. 0 \in x <=> 0 \in y
    BY <1>5, <2>1
  <2>3. \A b \in 0..6 : b \in sx <=> b \in sy
    <3>1. SymDiff(sx, {5, 6, 7}) = SymDiff(sy, {5, 6, 7}) => \A b : b \in sx <=> b \in sy
      BY DEF SymDiff
    <3> QED
      BY <1>3, <1>5, <2>2, <3>1
  <2>4. \A b \in Bits : b = 0 \/ (b \in 1..7 /\ b - 1 \in 0..6)
    BY DEF Bits
  <2>5. \A b \in Bits : b \in x <=> b \in y
    BY <1>2, <2>2, <2>3, <2>4
  <2> QED
    BY <2>5 DEF Bytes
<1> QED
  BY <1>4, <1>5

(* The recursion of CrcTable divides eight times. *)
DividedBy(x, f) == f = [n \in 0..8 |-> IF n = 0 THEN x ELSE DivideStep(f[n - 1])]

LEMMA EightDivisions ==
  ASSUME NEW x \in Bytes
  PROVE  \E f : DividedBy(x, f) /\ CrcTable[x] = f[8]
<1> DEFINE step == [pair \in (1..8) \X Bytes |-> DivideStep(pair[2])]
<1>1. step \in [(1..8) \X Bytes -> Bytes]
  BY DivideIsInjective
<1> HIDE DEF step
<1>2. PICK f \in [0..8 -> Bytes] : Recursion(f, 8, x, step)
  <2>1. 8 \in Nat
    OBVIOUS
  <2> QED
    BY <1>1, <2>1, RecursionExists, Zenon
<1>3. DividedBy(x, f)
  <2>1. \A i \in 1..8 : step[<<i, f[i - 1]>>] = DivideStep(f[i - 1])
    <3> TAKE i \in 1..8
    <3>1. f[i - 1] \in Bytes /\ <<i, f[i - 1]>> \in (1..8) \X Bytes
      BY <1>2
    <3> QED
      BY <3>1 DEF step
  <2>2. \A i \in 0..8 : i = 0 \/ i \in 1..8
    OBVIOUS
  <2>3. \A i \in 0..8 : f[i] = IF i = 0 THEN x ELSE DivideStep(f[i - 1])
    BY <1>2, <2>1, <2>2, Zenon DEF Recursion
  <2>4. f = [i \in 0..8 |-> f[i]]
    BY <1>2
  <2> QED
    BY <2>3, <2>4 DEF DividedBy
<1> DEFINE g == CHOOSE h : DividedBy(x, h)
<1>4. DividedBy(x, g)
  BY <1>3
<1>5. CrcTable[x] = g[8]
  <2>1. x \in SUBSET Bits
    BY DEF Bytes
  <2> QED
    BY <2>1, Zenon DEF CrcTable, DividedBy
<1> QED
  BY <1>4, <1>5

LEMMA TableIsInjective ==
  ASSUME NEW x \in Bytes, NEW y \in Bytes
  PROVE  CrcTable[x] \in Bytes /\ (CrcTable[x] = CrcTable[y] => x = y)
<1>1. PICK f : DividedBy(x, f) /\ CrcTable[x] = f[8]
  BY EightDivisions
<1>2. PICK g : DividedBy(y, g) /\ CrcTable[y] = g[8]
  BY EightDivisions
<1>3. /\ \A i \in 0..8 : f[i] = IF i = 0 THEN x ELSE DivideStep(f[i - 1])
      /\ \A i \in 0..8 : g[i] = IF i = 0 THEN y ELSE DivideStep(g[i - 1])
  BY <1>1, <1>2, Zenon DEF DividedBy
<1> DEFINE T == {i \in 0..8 : f[i] \in Bytes /\ g[i] \in Bytes /\ (f[i] = g[i] => x = y)}
<1>4. 0 \in T
  BY <1>3
<1>5. ASSUME NEW i \in 1..8, i - 1 \in T
      PROVE  i \in T
  <2>1. i \in 0..8 /\ i # 0
    OBVIOUS
  <2>2. f[i] = DivideStep(f[i - 1]) /\ g[i] = DivideStep(g[i - 1])
    BY <1>3, <2>1, Zenon
  <2> QED
    BY <1>5, <2>1, <2>2, DivideIsInjective, Zenon
<1> HIDE DEF T
<1>6. \A i \in 0..8 : i \in T
  <2>1. \A i \in (0 + 1)..8 : i - 1 \in T => i \in T
    BY <1>5
  <2> QED
    BY <1>4, <2>1, AllAreReached
<1>7. 8 \in T
  BY <1>6
<1> QED
  BY <1>1, <1>2, <1>7 DEF T

(* The recursion of calculate_checksum goes over the data once. *)
RegisterBy(data, f) ==
  f = [n \in 0..Len(data) |-> IF n = 0 THEN Bits ELSE CrcTable[SymDiff(f[n - 1], data[n])]]

LEMMA ChecksumIs ==
  ASSUME NEW data \in Seq(Bytes)
  PROVE  \E f : /\ calculate_checksum(data) = Bits \ f[Len(data)]
                /\ f[0] = Bits
                /\ \A n \in 1..Len(data) : f[n] = CrcTable[SymDiff(f[n - 1], data[n])]
                /\ \A n \in 0..Len(data) : f[n] \in Bytes
<1> DEFINE N == Len(data)
           step == [pair \in (1..N) \X Bytes |-> CrcTable[SymDiff(pair[2], data[pair[1]])]]
<1>1. N \in Nat /\ \A n \in 1..N : data[n] \in Bytes
  OBVIOUS
<1> HIDE DEF N
<1>2. step \in [(1..N) \X Bytes -> Bytes]
  <2>1. ASSUME NEW n \in 1..N, NEW x \in Bytes
        PROVE  CrcTable[SymDiff(x, data[n])] \in Bytes
    BY <1>1, SymDiffIsByte, TableIsInjective, Zenon
  <2> QED
    BY <2>1
<1>3. Bits \in Bytes
  BY DEF Bytes
<1> HIDE DEF step
<1>4. PICK f \in [0..N -> Bytes] : Recursion(f, N, Bits, step)
  BY <1>1, <1>2, <1>3, RecursionExists, Zenon
<1>5. RegisterBy(data, f)
  <2>1. \A i \in 1..N : step[<<i, f[i - 1]>>] = CrcTable[SymDiff(f[i - 1], data[i])]
    <3> TAKE i \in 1..N
    <3>1. f[i - 1] \in Bytes /\ <<i, f[i - 1]>> \in (1..N) \X Bytes
      BY <1>1, <1>4
    <3> QED
      BY <3>1 DEF step
  <2>2. \A i \in 0..N : i = 0 \/ i \in 1..N
    BY <1>1
  <2>3. \A i \in 0..N : f[i] = IF i = 0 THEN Bits ELSE CrcTable[SymDiff(f[i - 1], data[i])]
    BY <1>4, <2>1, <2>2, Zenon DEF Recursion
  <2>4. f = [i \in 0..N |-> f[i]]
    BY <1>4
  <2>5. f = [i \in 0..N |-> IF i = 0 THEN Bits ELSE CrcTable[SymDiff(f[i - 1], data[i])]]
    BY <2>3, <2>4
  <2> QED
    BY <2>5, Zenon DEF RegisterBy, N
<1> DEFINE g == CHOOSE h : RegisterBy(data, h)
<1>6. RegisterBy(data, g)
  BY <1>5
<1>7. calculate_checksum(data) = Bits \ g[N]
  BY Zenon DEF calculate_checksum, RegisterBy, N
<1> HIDE DEF g
<1>8. \A i \in 0..N : g[i] = IF i = 0 THEN Bits ELSE CrcTable[SymDiff(g[i - 1], data[i])]
  BY <1>6, Zenon DEF RegisterBy, N
<1>9. g[0] = Bits /\ \A n \in 1..N : g[n] = CrcTable[SymDiff(g[n - 1], data[n])]
  <2>1. 0 \in 0..N /\ \A n \in 1..N : n \in 0..N /\ n # 0
    BY <1>1
  <2> QED
    BY <1>8, <2>1, Zenon
<1> DEFINE T == {i \in 0..N : g[i] \in Bytes}
<1>10. 0 \in T
  BY <1>1, <1>3, <1>9
<1>11. ASSUME NEW i \in 1..N, i - 1 \in T
       PROVE  i \in T
  <2>1. i \in 0..N
    BY <1>1
  <2>2. g[i] \in Bytes
    BY <1>1, <1>9, <1>11, SymDiffIsByte, TableIsInjective, Zenon
  <2> QED
    BY <2>1, <2>2
<1> HIDE DEF T
<1>12. \A i \in 0..N : i \in T
  <2>1. \A i \in (0 + 1)..N : i - 1 \in T => i \in T
    BY <1>11
  <2> QED
    BY <1>1, <1>10, <2>1, AllAreReached
<1>13. \A n \in 0..N : g[n] \in Bytes
  BY <1>12 DEF T
<1> QED
  BY <1>7, <1>9, <1>13, Zenon DEF N

LEMMA SymDiffIsInjective ==
  ASSUME NEW x, NEW y, NEW z
  PROVE  /\ SymDiff(x, y) = SymDiff(x, z) => y = z
         /\ SymDiff(x, z) = SymDiff(y, z) => x = y
  BY DEF SymDiff

(* Two sequences of bytes that differ at one place have different checksums. *)
LEMMA OneByteMatters ==
  ASSUME NEW a \in Seq(Bytes), NEW b \in Seq(Bytes), Len(a) = Len(b),
         NEW i \in 1..Len(a), a[i] # b[i], \A j \in 1..Len(a) : j # i => a[j] = b[j]
  PROVE  calculate_checksum(a) # calculate_checksum(b)
<1> DEFINE N == Len(a)
<1>1. N \in Nat /\ \A n \in 1..N : a[n] \in Bytes /\ b[n] \in Bytes
  OBVIOUS
<1>2. PICK f : /\ calculate_checksum(a) = Bits \ f[N]
               /\ f[0] = Bits
               /\ \A n \in 1..N : f[n] = CrcTable[SymDiff(f[n - 1], a[n])]
               /\ \A n \in 0..N : f[n] \in Bytes
  BY ChecksumIs
<1>3. PICK g : /\ calculate_checksum(b) = Bits \ g[N]
               /\ g[0] = Bits
               /\ \A n \in 1..N : g[n] = CrcTable[SymDiff(g[n - 1], b[n])]
               /\ \A n \in 0..N : g[n] \in Bytes
  <2>1. N = Len(b)
    OBVIOUS
  <2> QED
    BY <2>1, ChecksumIs
<1> HIDE DEF N
<1>4. i \in 1..N /\ \A j \in 1..N : j # i => a[j] = b[j]
  BY DEF N
<1>0. \A x \in Bytes : \A y \in Bytes : x # y => CrcTable[x] # CrcTable[y]
  BY TableIsInjective, Zenon
<1>5. i - 1 \in Nat /\ i \in Nat /\ i - 1 \in 0..N /\ i \in i..N
  BY <1>1, <1>4
<1>6. f[i - 1] = g[i - 1]
  <2> DEFINE T == {n \in 0..(i - 1) : f[n] = g[n]}
  <2>1. 0 \in T
    BY <1>2, <1>3, <1>5
  <2>2. ASSUME NEW n \in 1..(i - 1), n - 1 \in T
        PROVE  n \in T
    <3>1. n \in 1..N /\ n # i /\ n \in 0..(i - 1)
      BY <1>1, <1>4
    <3>2. f[n] = g[n]
      BY <1>2, <1>3, <1>4, <2>2, <3>1, Zenon
    <3> QED
      BY <3>1, <3>2
  <2> HIDE DEF T
  <2>3. \A n \in 0..(i - 1) : n \in T
    <3>1. \A n \in (0 + 1)..(i - 1) : n - 1 \in T => n \in T
      BY <2>2
    <3> QED
      BY <1>5, <2>1, <3>1, AllAreReached
  <2>4. i - 1 \in T
    BY <1>5, <2>3
  <2> QED
    BY <2>4 DEF T
<1>7. f[N] # g[N]
  <2> DEFINE T == {n \in i..N : f[n] # g[n]}
  <2>1. i \in T
    <3>1. SymDiff(f[i - 1], a[i]) # SymDiff(g[i - 1], b[i])
      BY <1>6, SymDiffIsInjective, Zenon
    <3>2. SymDiff(f[i - 1], a[i]) \in Bytes /\ SymDiff(g[i - 1], b[i]) \in Bytes
      BY <1>1, <1>2, <1>3, <1>4, <1>5, SymDiffIsByte, Zenon
    <3>3. f[i] # g[i]
      <4>1. CrcTable[SymDiff(f[i - 1], a[i])] # CrcTable[SymDiff(g[i - 1], b[i])]
        BY <1>0, <3>1, <3>2, Zenon
      <4> QED
        BY <1>2, <1>3, <1>4, <4>1, Zenon
    <3> QED
      BY <1>5, <3>3
  <2>2. ASSUME NEW n \in (i + 1)..N, n - 1 \in T
        PROVE  n \in T
    <3>1. n \in 1..N /\ n # i /\ n \in i..N /\ n - 1 \in 0..N
      BY <1>1, <1>4
    <3>2. f[n - 1] # g[n - 1]
      BY <2>2
    <3>3. SymDiff(f[n - 1], a[n]) # SymDiff(g[n - 1], b[n])
      <4>1. a[n] = b[n]
        BY <1>4, <3>1
      <4>2. SymDiff(f[n - 1], b[n]) # SymDiff(g[n - 1], b[n])
        BY <3>2, SymDiffIsInjective
      <4> QED
        BY <4>1, <4>2, Zenon
    <3>4. SymDiff(f[n - 1], a[n]) \in Bytes /\ SymDiff(g[n - 1], b[n]) \in Bytes
      BY <1>1, <1>2, <1>3, <3>1, SymDiffIsByte, Zenon
    <3>5. f[n] # g[n]
      <4>1. CrcTable[SymDiff(f[n - 1], a[n])] # CrcTable[SymDiff(g[n - 1], b[n])]
        BY <1>0, <3>3, <3>4, Zenon
      <4> QED
        BY <1>2, <1>3, <3>1, <4>1, Zenon
    <3> QED
      BY <3>1, <3>5
  <2> HIDE DEF T
  <2>3. \A n \in i..N : n \in T
    BY <1>1, <1>5, <2>1, <2>2, AllAreReached
  <2>4. N \in T
    BY <1>1, <1>4, <2>3
  <2> QED
    BY <2>4 DEF T
<1>8. f[N] \in Bytes /\ g[N] \in Bytes
  BY <1>1, <1>2, <1>3
<1>9. Bits \ f[N] # Bits \ g[N]
  BY <1>7, <1>8 DEF Bytes
<1> QED
  BY <1>2, <1>3, <1>9

-----------------------------------------------------------------------------
(* The inductive invariant *)

Sent   == {"encoded", "decoded", "ignored", "raised", "saved"}
Packed == Sent \cup {"made", "refused"}

ConfigInv ==
  /\ config \in Configs
  /\ stage = "ready" => ConfigIsValid(config)

PacketInv ==
  /\ stage \in Packed => packet \in Packets
  /\ stage \notin Packed => packet.pkt_type # DATA
  /\ packet.pkt_type = DATA => packet.ack_num = 0 /\ Len(packet.payload) <= MaxPayload

WireInv ==
  /\ wire \in Seq(Bytes)
  /\ link \in {"intact", "corrupted", "stray"}
  /\ link # "stray" => Len(wire) <= HeaderSize + MaxPayload
  /\ stage = "refused" => Encode(packet).error # "none"
  /\ stage \in Sent /\ link = "intact" => Encode(packet) = Returns(wire)
  /\ stage = "decoded" => result = Decode(wire)

MutationInv ==
  /\ mutations \in 0..MaxMutations
  /\ link = "corrupted" => stage \in Sent /\ mutations > 0
  /\ link = "corrupted" /\ mutations = 1 =>
       Encode(packet).error = "none" /\ wire \in Mutated(Encode(packet).value)

NameInv ==
  /\ saved \in Seq(Chars)
  /\ stage = "saved" =>
       /\ Clean(saved)
       /\ IsStripped(HandshakeName(result.value.payload)) =>
            ~IsDevice(saved) /\ sanitize_filename(saved) = saved

IInv ==
  /\ stage \in Packed \cup {"configuring", "misconfigured", "ready"}
  /\ ConfigInv /\ PacketInv /\ WireInv /\ MutationInv /\ NameInv

-----------------------------------------------------------------------------
(* What the actions put together *)

LEMMA MutatedIs ==
  ASSUME NEW data \in Seq(Bytes), NEW d \in Mutated(data)
  PROVE  d \in Seq(Bytes) /\ Len(d) = Len(data)
<1>1. PICK i \in DOMAIN data, mask \in Masks : d = [data EXCEPT ![i] = SymDiff(@, mask)]
  BY DEF Mutated
<1>2. data[i] \in Bytes
  OBVIOUS
<1>3. mask \in Bytes
  BY DEF Masks, Bytes, Bits
<1>4. SymDiff(data[i], mask) \in Bytes
  BY <1>2, <1>3 DEF SymDiff, Bytes
<1>5. d = [data EXCEPT ![i] = SymDiff(data[i], mask)]
  BY <1>1
<1> HIDE DEF Mutated
<1> QED
  BY <1>4, <1>5

LEMMA JsonIsBytes ==
  ASSUME NEW name \in Seq(Chars)
  PROVE  JsonOf(name) \in Seq(Bytes)
<1> DEFINE t == [i \in DOMAIN name |->
                   ByteOf(CHOOSE k \in DOMAIN Alphabet : Alphabet[k] = name[i])]
<1>1. \A n : ByteOf(n) \in Bytes
  BY ByteOfIsByte DEF Bytes
<1>2. DOMAIN name = 1..Len(name) /\ Len(name) \in Nat
  OBVIOUS
<1>3. t \in [1..Len(name) -> Bytes]
  BY <1>1, <1>2, Zenon
<1>4. t \in Seq(Bytes)
  BY <1>2, <1>3
<1>5. <<Object>> \in Seq(Bytes)
  BY <1>1 DEF Object
<1> HIDE DEF t
<1>6. <<Object>> \o t \in Seq(Bytes)
  BY <1>4, <1>5
<1> QED
  BY <1>6 DEF JsonOf, t

LEMMA NameInIsName ==
  ASSUME NEW payload \in Seq(Bytes), IsObject(payload)
  PROVE  NameIn(payload) \in Seq(Chars)
<1>1. CASE payload = <<>>
  <2>1. "default" \in Chars
    BY CharsAre
  <2> QED
    BY <1>1, <2>1 DEF NameIn
<1>2. CASE payload # <<>>
  <2>1. Len(payload) - 1 \in Nat
    BY <1>2
  <2>2. ASSUME NEW i \in 1..(Len(payload) - 1)
        PROVE  Alphabet[Value(payload[i + 1])] \in Chars
    <3>1. i + 1 \in 2..Len(payload)
      BY <2>1
    <3>2. Value(payload[i + 1]) \in DOMAIN Alphabet
      BY <1>2, <3>1, Zenon DEF IsObject
    <3> QED
      BY <3>2, Zenon DEF Chars
  <2>3. [i \in 1..(Len(payload) - 1) |-> Alphabet[Value(payload[i + 1])]]
          \in [1..(Len(payload) - 1) -> Chars]
    BY <2>2, Zenon
  <2>4. \A n \in Nat : \A f \in [1..n -> Chars] : f \in Seq(Chars)
    OBVIOUS
  <2> QED
    BY <1>2, <2>1, <2>3, <2>4, Zenon DEF NameIn
<1> QED
  BY <1>1, <1>2

LEMMA EncodedIs ==
  ASSUME NEW p \in Packets, Encode(p).error = "none"
  PROVE  /\ Encode(p) = Returns(Encode(p).value)
         /\ Encode(p).value = Header(p, ChecksumOf(p)) \o p.payload
         /\ Encode(p).value \in Seq(Bytes)
         /\ Len(Encode(p).value) <= HeaderSize + MaxPayload
<1> DEFINE c   == ChecksumOf(p)
           raw == Header(p, c) \o p.payload
<1>1. c \in Bytes
  BY ChecksumIsByte DEF ChecksumOf, Bytes
<1>2. Fits(p) /\ Encode(p) = Returns(raw)
  BY EncodeOutcome
<1> HIDE DEF c
<1>3. raw \in Seq(Bytes) /\ Len(raw) = 8 + Len(p.payload)
  BY <1>1, DatagramIs
<1> HIDE DEF raw
<1>4. Encode(p).value = raw
  BY <1>2 DEF Returns
<1>5. Len(raw) <= HeaderSize + MaxPayload
  <2>1. Len(p.payload) \in Nat /\ Len(p.payload) <= MaxPayload
    BY <1>2 DEF Fits, Packets
  <2>2. MaxPayload \in Nat
    BY CodecAssumption
  <2>3. \A k \in Nat : \A m \in Nat : k <= m => 8 + k <= 8 + m
    OBVIOUS
  <2> QED
    BY <1>3, <2>1, <2>2, <2>3, Zenon DEF HeaderSize
<1> QED
  BY <1>2, <1>3, <1>4, <1>5 DEF raw, c

(* A mutation changes one byte of a datagram. *)
LEMMA MutatedDiffers ==
  ASSUME NEW data \in Seq(Bytes), NEW d \in Mutated(data)
  PROVE  \E i \in 1..Len(data) :
           d[i] # data[i] /\ \A j \in 1..Len(data) : j # i => d[j] = data[j]
<1>1. PICK i \in DOMAIN data, mask \in Masks : d = [data EXCEPT ![i] = SymDiff(@, mask)]
  BY DEF Mutated
<1>2. mask # {}
  <2>1. \A m \in Masks : m = {0} \/ m = {1} \/ m = {2} \/ m = {7} \/ m = 0..7
    BY Zenon DEF Masks, Bits
  <2>2. 0 \in 0..7
    OBVIOUS
  <2> QED
    BY <2>1, <2>2, Zenon
<1>3. SymDiff(data[i], mask) # data[i]
  BY <1>2 DEF SymDiff
<1>4. i \in 1..Len(data) /\ DOMAIN data = 1..Len(data)
  OBVIOUS
<1>5. d[i] = SymDiff(data[i], mask) /\ \A j \in 1..Len(data) : j # i => d[j] = data[j]
  BY <1>1, <1>4
<1> QED
  BY <1>3, <1>4, <1>5

WithChecksum(raw, c) == [raw EXCEPT ![8] = c]
Blank(raw) == WithChecksum(raw, NoChecksum)

SameFields(h, g) == \A i \in 1..7 : h[i] = g[i]

(* A header of eight bytes whose last one is replaced. *)
LEMMA Replaced ==
  ASSUME NEW S, NEW h \in Seq(S), NEW g \in Seq(S), Len(h) = 8, Len(g) = 8, NEW t \in Seq(S),
         g[8] \in S, SameFields(h, g)
  PROVE  WithChecksum(h \o t, g[8]) = g \o t
<1>0. Joined(h, t, S) /\ Joined(g, t, S)
  BY AfterHeader, Zenon
<1> DEFINE a == h \o t
           b == g \o t
           x == g[8]
           r == [a EXCEPT ![8] = x]
           k == Len(t)
<1>1. /\ a \in Seq(S) /\ Len(a) = 8 + k
      /\ \A i \in 1..8 : a[i] = h[i]
      /\ \A i \in 1..k : a[8 + i] = t[i]
  BY <1>0, Zenon DEF Joined
<1>2. /\ b \in Seq(S) /\ Len(b) = 8 + k
      /\ \A i \in 1..8 : b[i] = g[i]
      /\ \A i \in 1..k : b[8 + i] = t[i]
  BY <1>0, Zenon DEF Joined
<1>3. k \in Nat
  BY LenProperties, Zenon
<1>4. x \in S /\ b[8] = x
  <2>1. 8 \in 1..8
    OBVIOUS
  <2> QED
    BY <1>2, <2>1, Zenon
<1>5. \A i \in 1..(8 + k) : i # 8 => a[i] = b[i]
  <2>1. \A i \in 1..(8 + k) : i # 8 => i \in 1..7 \/ (i - 8 \in 1..k /\ 8 + (i - 8) = i)
    BY <1>3
  <2>2. \A i \in 1..7 : i \in 1..8
    OBVIOUS
  <2>3. \A i \in 1..7 : a[i] = b[i]
    BY <1>1, <1>2, <2>2, Zenon DEF SameFields
  <2>4. \A i \in 1..k : a[8 + i] = b[8 + i]
    BY <1>1, <1>2, Zenon
  <2> HIDE DEF a, b, k
  <2> SUFFICES ASSUME NEW i \in 1..(8 + k), i # 8 PROVE a[i] = b[i]
    OBVIOUS
  <2>5. CASE i \in 1..7
    BY <2>3, <2>5
  <2>6. CASE i - 8 \in 1..k /\ 8 + (i - 8) = i
    BY <2>4, <2>6, Zenon
  <2> QED
    BY <2>1, <2>5, <2>6
<1> HIDE DEF a, b, x, k
<1>6. r \in Seq(S) /\ Len(r) = 8 + k /\ \A i \in 1..(8 + k) : r[i] = IF i = 8 THEN x ELSE a[i]
  BY <1>1, <1>3, <1>4
<1> HIDE DEF r
<1>7. \A i \in 1..(8 + k) : r[i] = b[i]
  BY <1>4, <1>5, <1>6, Zenon
<1>8. r = b
  BY <1>2, <1>6, <1>7, SeqEqual
<1> QED
  BY <1>8, Zenon DEF r, a, b, x, WithChecksum

(* The checksum that encode packs is that of the datagram without it. *)
LEMMA CarriesItsChecksum ==
  ASSUME NEW p \in Packets, NEW raw, Encode(p) = Returns(raw)
  PROVE  /\ raw \in Seq(Bytes) /\ Len(raw) \in Nat /\ 8 <= Len(raw)
         /\ raw[8] = calculate_checksum(Blank(raw))
<1> DEFINE c == ChecksumOf(p)
           h == Header(p, c)
           g == Header(p, NoChecksum)
<1>1. c \in Bytes /\ NoChecksum \in Bytes
  BY ChecksumIsByte DEF ChecksumOf, Bytes, NoChecksum
<1>2. Encode(p).error = "none" /\ Encode(p).value = raw
  BY DEF Returns
<1>3. raw = h \o p.payload
  BY <1>2, EncodedIs
<1>4. c = calculate_checksum(g \o p.payload)
  BY DEF ChecksumOf
<1> HIDE DEF c
<1>5. /\ h \in Seq(Bytes) /\ Len(h) = 8 /\ g \in Seq(Bytes) /\ Len(g) = 8
      /\ SameFields(h, g) /\ g[8] = NoChecksum
  <2>1. h \in Seq(Bytes) /\ Len(h) = 8 /\ g \in Seq(Bytes) /\ Len(g) = 8 /\ g[8] = NoChecksum
    BY <1>1, HeaderIs
  <2>2. /\ h[1] = g[1] /\ h[2] = g[2] /\ h[3] = g[3] /\ h[4] = g[4] /\ h[5] = g[5]
        /\ h[6] = g[6] /\ h[7] = g[7]
    BY <1>1, HeaderIs
  <2>3. \A i \in 1..7 : i = 1 \/ i = 2 \/ i = 3 \/ i = 4 \/ i = 5 \/ i = 6 \/ i = 7
    OBVIOUS
  <2>4. SameFields(h, g)
    BY <2>2, <2>3, Zenon DEF SameFields
  <2> QED
    BY <2>1, <2>4
<1>6. p.payload \in Seq(Bytes)
  BY DEF Packets
<1>7. raw \in Seq(Bytes) /\ Len(raw) = 8 + Len(p.payload) /\ raw[8] = c /\ Len(p.payload) \in Nat
  BY <1>1, <1>3, <1>6, DatagramIs
<1> HIDE DEF h, g
<1>8. Blank(raw) = g \o p.payload
  <2>1. g[8] \in Bytes
    BY <1>1, <1>5
  <2>2. WithChecksum(h \o p.payload, g[8]) = g \o p.payload
    BY <1>5, <1>6, <2>1, Replaced, Zenon
  <2> QED
    BY <1>3, <1>5, <2>2, Zenon DEF Blank
<1>9. 8 <= Len(raw) /\ Len(raw) \in Nat
  BY <1>7
<1> QED
  BY <1>4, <1>7, <1>8, <1>9, Zenon

(* decode refuses what encode packed and one mutation changed: the two      *)
(* datagrams would both carry their checksum.                               *)
LEMMA MutationIsRefused ==
  ASSUME NEW p \in Packets, Encode(p).error = "none", NEW b \in Mutated(Encode(p).value)
  PROVE  Decode(b).error # "none"
<1> DEFINE a == Encode(p).value
<1> SUFFICES ASSUME Decode(b).error = "none" PROVE FALSE
  OBVIOUS
<1>1. Encode(p) = Returns(a)
  BY EncodedIs
<1>2. a \in Seq(Bytes) /\ Len(a) \in Nat /\ 8 <= Len(a) /\ a[8] = calculate_checksum(Blank(a))
  BY <1>1, CarriesItsChecksum
<1>3. b \in Seq(Bytes) /\ Len(b) = Len(a)
  BY <1>2, MutatedIs
<1>4. b[8] = calculate_checksum(Blank(b))
  <2>1. Decode(b).value \in Packets /\ Encode(Decode(b).value) = Returns(b)
    BY <1>3, EncodeOfDecode
  <2> QED
    BY <2>1, CarriesItsChecksum, Zenon
<1>5. PICK i \in 1..Len(a) : b[i] # a[i] /\ \A j \in 1..Len(a) : j # i => b[j] = a[j]
  BY <1>2, MutatedDiffers
<1> HIDE DEF a
<1>6. /\ Blank(a) \in Seq(Bytes) /\ Len(Blank(a)) = Len(a)
      /\ Blank(b) \in Seq(Bytes) /\ Len(Blank(b)) = Len(a)
      /\ \A j \in 1..Len(a) : /\ Blank(a)[j] = IF j = 8 THEN NoChecksum ELSE a[j]
                              /\ Blank(b)[j] = IF j = 8 THEN NoChecksum ELSE b[j]
  <2>1. NoChecksum \in Bytes
    BY DEF NoChecksum, Bytes
  <2> QED
    BY <1>2, <1>3, <2>1 DEF Blank, WithChecksum
<1>7. 8 \in 1..Len(a)
  BY <1>2
<1>8. CASE i = 8
  <2>1. \A j \in 1..Len(a) : Blank(a)[j] = Blank(b)[j]
    BY <1>5, <1>6, <1>8, Zenon
  <2>2. Blank(a) = Blank(b)
    BY <1>6, <2>1, SeqEqual
  <2> QED
    BY <1>2, <1>4, <1>5, <1>8, <2>2, Zenon
<1>9. CASE i # 8
  <2>1. Blank(a)[i] # Blank(b)[i] /\ \A j \in 1..Len(a) : j # i => Blank(a)[j] = Blank(b)[j]
    BY <1>5, <1>6, <1>9, Zenon
  <2>2. calculate_checksum(Blank(a)) # calculate_checksum(Blank(b))
    <3> DEFINE x == Blank(a)
               y == Blank(b)
    <3>1. /\ x \in Seq(Bytes) /\ y \in Seq(Bytes) /\ Len(x) = Len(y) /\ i \in 1..Len(x)
          /\ x[i] # y[i] /\ \A j \in 1..Len(x) : j # i => x[j] = y[j]
      BY <1>6, <2>1, Zenon
    <3> HIDE DEF x, y
    <3>2. calculate_checksum(x) # calculate_checksum(y)
      BY <3>1, OneByteMatters
    <3> QED
      BY <3>2 DEF x, y
  <2>3. a[8] = b[8]
    BY <1>5, <1>7, <1>9, Zenon
  <2> QED
    BY <1>2, <1>4, <2>2, <2>3, Zenon
<1> QED
  BY <1>8, <1>9

-----------------------------------------------------------------------------
(* The invariant is inductive, one lemma an action *)

LEMMA InitEstablishes == Init => IInv
<1> SUFFICES ASSUME Init PROVE IInv
  OBVIOUS
<1>1. /\ stage = "configuring" /\ config \in Configs
      /\ packet = [pkt_type |-> 0] /\ wire = <<>> /\ link = "intact"
      /\ mutations = 0 /\ saved = <<>>
  BY DEF Init
<1>2. PacketInv
  BY <1>1 DEF PacketInv, Packed, Sent, DATA
<1>3. WireInv /\ MutationInv
  BY <1>1, CodecAssumption DEF WireInv, MutationInv, Sent, HeaderSize
<1>4. ConfigInv /\ NameInv
  BY <1>1 DEF ConfigInv, NameInv
<1> QED
  BY <1>1, <1>2, <1>3, <1>4 DEF IInv

LEMMA ConfigureKeeps ==
  ASSUME IInv, Configure
  PROVE  IInv'
<1>1. /\ stage = "configuring" /\ stage' \in {"ready", "misconfigured"}
      /\ stage' = "ready" => ConfigIsValid(config)
      /\ UNCHANGED <<packet, wire, link, mutations, result, config, saved>>
  BY DEF Configure, startVars
<1>2. ConfigInv'
  BY <1>1 DEF IInv, ConfigInv, ConfigIsValid
<1>3. PacketInv'
  BY <1>1, Zenon DEF IInv, PacketInv, Packed, Sent
<1>4. WireInv' /\ MutationInv' /\ NameInv'
  BY <1>1, Zenon DEF IInv, WireInv, MutationInv, NameInv, Sent
<1> QED
  BY <1>1, <1>2, <1>3, <1>4 DEF IInv

(* Whatever packet is made out of a checked configuration. *)
LEMMA MadeKeeps ==
  ASSUME IInv, stage = "ready", UNCHANGED startVars,
         NEW p \in Packets, PacketIsMade(p),
         p.pkt_type = DATA => p.ack_num = 0 /\ Len(p.payload) <= MaxPayload
  PROVE  IInv'
<1>1. stage' = "made" /\ packet' = p /\ UNCHANGED <<wire, link, mutations, result, config, saved>>
  BY DEF PacketIsMade, startVars
<1>2. PacketInv'
  BY <1>1, Zenon DEF PacketInv, Packed, Sent
<1>3. ConfigInv' /\ WireInv' /\ MutationInv' /\ NameInv'
  BY <1>1, Zenon DEF IInv, ConfigInv, WireInv, MutationInv, NameInv, Sent
<1> QED
  BY <1>1, <1>2, <1>3 DEF IInv, Packed

LEMMA PrepareStartKeeps ==
  ASSUME IInv, PrepareStart
  PROVE  IInv'
<1>1. PICK id \in SessionIds, payload \in Seq(Bytes) : Made(START, id, 0, 0, payload)
  <2>1. \A name \in SourceNames \cup OtherNames : name \in Seq(Chars)
    BY SessionStartAssumption
  <2>2. \A name \in SourceNames : JsonOf(sanitize_filename(name)) \in Seq(Bytes)
    BY <2>1, SanitizeIsClean, CleanIsName, JsonIsBytes, Zenon
  <2>3. \A name \in OtherNames : JsonOf(name) \in Seq(Bytes)
    BY <2>1, JsonIsBytes, Zenon
  <2>4. \A payload \in {<<>>, <<NoObject>>, <<ByteOf(WordMax)>>} : payload \in Seq(Bytes)
    <3>1. NoObject \in Bytes /\ ByteOf(WordMax) \in Bytes
      BY ByteOfIsByte DEF Bytes, NoObject
    <3>2. \A byte \in Bytes : <<byte>> \in Seq(Bytes)
      OBVIOUS
    <3>3. <<>> \in Seq(Bytes)
      OBVIOUS
    <3> QED
      BY <3>1, <3>2, <3>3, Zenon
  <2> QED
    BY <2>2, <2>3, <2>4, Zenon DEF PrepareStart
<1> DEFINE p == [pkt_type |-> START, session_id |-> id, seq_num |-> 0, ack_num |-> 0, payload |-> payload]
<1>2. p \in Packets
  BY SessionStartAssumption DEF Packets, START
<1>3. p.pkt_type # DATA /\ PacketIsMade(p)
  BY <1>1 DEF Made, START, DATA
<1>4. stage = "ready" /\ UNCHANGED startVars
  BY DEF PrepareStart
<1> HIDE DEF p
<1> QED
  BY <1>2, <1>3, <1>4, MadeKeeps

LEMMA PrepareDataKeeps ==
  ASSUME IInv, PrepareData
  PROVE  IInv'
<1>1. PICK id \in SessionIds, seq_num \in Numbers, byte \in {ByteOf(0), ByteOf(WordMax)},
           length \in 1..config.payload_size :
             Made(DATA, id, seq_num, 0, [i \in 1..length |-> byte])
  BY DEF PrepareData
<1> DEFINE payload == [i \in 1..length |-> byte]
           p == [pkt_type |-> DATA, session_id |-> id, seq_num |-> seq_num, ack_num |-> 0,
                 payload |-> payload]
<1>2. stage = "ready" /\ UNCHANGED startVars
  BY DEF PrepareData
<1>3. byte \in Bytes
  BY ByteOfIsByte DEF Bytes
<1>4. length \in Nat /\ length <= MaxPayload
  <2>1. config.payload_size \in 1..MaxPayload
    BY <1>2 DEF IInv, ConfigInv, ConfigIsValid
  <2>2. MaxPayload \in Nat
    BY CodecAssumption
  <2>3. \A m \in Nat : \A size \in 1..m : \A k \in 1..size : k \in Nat /\ k <= m
    OBVIOUS
  <2> QED
    BY <2>1, <2>2, <2>3, Zenon
<1>5. payload \in Seq(Bytes) /\ Len(payload) = length
  BY <1>3, <1>4
<1> HIDE DEF payload
<1>6. p \in Packets
  BY <1>5, SessionStartAssumption DEF Packets, DATA
<1>7. p.ack_num = 0 /\ Len(p.payload) <= MaxPayload
  BY <1>4, <1>5
<1>8. PacketIsMade(p)
  BY <1>1 DEF Made, payload
<1> HIDE DEF p
<1> QED
  BY <1>2, <1>6, <1>7, <1>8, MadeKeeps

LEMMA PrepareAckKeeps ==
  ASSUME IInv, PrepareAck
  PROVE  IInv'
<1>1. PICK id \in SessionIds, ack_num \in Numbers : Made(ACK, id, 0, ack_num, <<>>)
  BY DEF PrepareAck
<1> DEFINE p == [pkt_type |-> ACK, session_id |-> id, seq_num |-> 0, ack_num |-> ack_num,
                 payload |-> <<>>]
<1>2. p \in Packets
  BY SessionStartAssumption DEF Packets, ACK
<1>3. p.pkt_type # DATA /\ PacketIsMade(p)
  BY <1>1 DEF Made, ACK, DATA
<1>4. stage = "ready" /\ UNCHANGED startVars
  BY DEF PrepareAck
<1> HIDE DEF p
<1> QED
  BY <1>2, <1>3, <1>4, MadeKeeps

LEMMA EncodeKeeps ==
  ASSUME IInv, EncodePacket, UNCHANGED startVars
  PROVE  IInv'
<1>1. /\ stage = "made" /\ stage' \in {"encoded", "refused"}
      /\ stage' = "encoded" => Encode(packet).error = "none" /\ wire' = Encode(packet).value
      /\ stage' = "refused" => Encode(packet).error # "none" /\ wire' = wire
      /\ UNCHANGED <<packet, link, mutations, result, config, saved>>
  BY DEF EncodePacket, startVars
<1>2. packet \in Packets
  BY <1>1 DEF IInv, PacketInv, Packed
<1>3. Encode(packet)' = Encode(packet)
  BY <1>1
<1>4. WireInv'
  <2>1. CASE stage' = "encoded"
    <3>1. /\ Encode(packet) = Returns(wire') /\ wire' \in Seq(Bytes)
          /\ Len(wire') <= HeaderSize + MaxPayload
      BY <1>1, <1>2, <2>1, EncodedIs, Zenon
    <3> QED
      BY <1>1, <1>3, <2>1, <3>1, Zenon DEF IInv, WireInv
  <2>2. CASE stage' = "refused"
    <3>1. stage' \notin Sent /\ stage' # "decoded"
      BY <2>2 DEF Sent
    <3> QED
      BY <1>1, <1>3, <2>2, <3>1, Zenon DEF IInv, WireInv
  <2> QED
    BY <1>1, <2>1, <2>2
<1>5. PacketInv'
  BY <1>1, <1>2, Zenon DEF IInv, PacketInv, Packed, Sent
<1>6. ConfigInv' /\ NameInv'
  BY <1>1, Zenon DEF IInv, ConfigInv, NameInv
<1>7. MutationInv'
  BY <1>1, Zenon DEF IInv, MutationInv, Sent
<1> QED
  BY <1>1, <1>4, <1>5, <1>6, <1>7 DEF IInv, Packed, Sent

LEMMA CorruptKeeps ==
  ASSUME IInv, Corrupt, UNCHANGED startVars
  PROVE  IInv'
<1>1. /\ stage = "encoded" /\ link # "stray" /\ mutations < MaxMutations
      /\ wire' \in Mutated(wire) /\ link' = "corrupted" /\ mutations' = mutations + 1
      /\ UNCHANGED <<stage, packet, result, config, saved>>
  BY DEF Corrupt, startVars
<1>2. wire' \in Seq(Bytes) /\ Len(wire') = Len(wire)
  BY <1>1, MutatedIs DEF IInv, WireInv
<1>3. mutations' \in 0..MaxMutations
  <2>1. mutations \in 0..MaxMutations /\ MaxMutations \in 1..3
    BY CodecAssumption DEF IInv, MutationInv
  <2> QED
    BY <1>1, <2>1
<1>4. WireInv'
  BY <1>1, <1>2, Zenon DEF IInv, WireInv
<1>5. ConfigInv' /\ PacketInv' /\ NameInv'
  BY <1>1, Zenon DEF IInv, ConfigInv, PacketInv, NameInv
<1>6. MutationInv'
  <2>1. mutations \in Nat
    BY CodecAssumption DEF IInv, MutationInv
  <2>2. mutations' > 0 /\ (mutations' = 1 => ~(mutations > 0))
    BY <1>1, <2>1
  <2>3. mutations' = 1 => link = "intact"
    BY <1>1, <2>2, Zenon DEF IInv, MutationInv, WireInv
  <2>4. "encoded" \in Sent
    BY DEF Sent
  <2>5. link = "intact" => Encode(packet) = Returns(wire)
    BY <1>1, <2>4, Zenon DEF IInv, WireInv
  <2>6. Returns(wire).error = "none" /\ Returns(wire).value = wire
    BY DEF Returns
  <2>7. mutations' = 1 => Encode(packet).error = "none" /\ wire' \in Mutated(Encode(packet).value)
    BY <1>1, <2>3, <2>5, <2>6, Zenon
  <2>8. Encode(packet)' = Encode(packet)
    BY <1>1
  <2> QED
    BY <1>1, <1>3, <2>2, <2>4, <2>7, <2>8, Zenon DEF MutationInv
<1> QED
  BY <1>1, <1>4, <1>5, <1>6 DEF IInv

LEMMA StrayKeeps ==
  ASSUME IInv, Stray, UNCHANGED startVars
  PROVE  IInv'
<1>1. /\ stage = "encoded" /\ link' = "stray"
      /\ UNCHANGED <<stage, packet, mutations, result, config, saved>>
  BY DEF Stray, startVars
<1>2. wire \in Seq(Bytes)
  BY DEF IInv, WireInv
<1>3. wire' \in Seq(Bytes)
  <2>1. ASSUME NEW n \in 0..(Len(wire) - 1), wire' = SubSeq(wire, 1, n)
        PROVE  wire' \in Seq(Bytes)
    BY <1>2, <2>1
  <2>2. ASSUME NEW byte \in {ByteOf(0), ByteOf(WordMax)}, wire' = Append(wire, byte)
        PROVE  wire' \in Seq(Bytes)
    <3>1. byte \in Bytes
      BY ByteOfIsByte DEF Bytes
    <3> QED
      BY <1>2, <2>2, <3>1
  <2> QED
    BY <2>1, <2>2, Zenon DEF Stray
<1>4. WireInv'
  BY <1>1, <1>3, Zenon DEF IInv, WireInv
<1>5. ConfigInv' /\ PacketInv' /\ NameInv'
  BY <1>1, Zenon DEF IInv, ConfigInv, PacketInv, NameInv
<1>6. MutationInv'
  BY <1>1, Zenon DEF IInv, MutationInv
<1> QED
  BY <1>1, <1>4, <1>5, <1>6 DEF IInv

LEMMA DecodeKeeps ==
  ASSUME IInv, DecodeDatagram, UNCHANGED startVars
  PROVE  IInv'
<1>1. /\ stage = "encoded" /\ stage' = "decoded" /\ result' = Decode(wire)
      /\ UNCHANGED <<packet, wire, link, mutations, config, saved>>
  BY DEF DecodeDatagram, startVars
<1>2. WireInv'
  <2>1. "encoded" \in Sent
    BY DEF Sent
  <2> QED
    BY <1>1, <2>1, Zenon DEF IInv, WireInv
<1>3. PacketInv'
  BY <1>1, Zenon DEF IInv, PacketInv, Packed, Sent
<1>4. ConfigInv' /\ NameInv'
  BY <1>1, Zenon DEF IInv, ConfigInv, NameInv
<1>5. MutationInv'
  BY <1>1, Zenon DEF IInv, MutationInv, Sent
<1> QED
  BY <1>1, <1>2, <1>3, <1>4, <1>5 DEF IInv, Packed, Sent

(* What decode accepts is a packet. *)
LEMMA AcceptedIsPacket ==
  ASSUME IInv, stage = "decoded", result.error = "none"
  PROVE  result.value \in Packets /\ Encode(result.value) = Returns(wire)
<1>1. wire \in Seq(Bytes) /\ result = Decode(wire)
  BY DEF IInv, WireInv
<1> QED
  BY <1>1, EncodeOfDecode

LEMMA AcceptStartKeeps ==
  ASSUME IInv, AcceptStart
  PROVE  IInv'
<1>1. /\ stage = "decoded" /\ result.error = "none" /\ IsObject(result.value.payload)
      /\ saved' = SavedName(HandshakeName(result.value.payload)) /\ stage' = "saved"
      /\ UNCHANGED <<config, packet, wire, link, mutations, result>>
  BY DEF AcceptStart
<1>2. result.value.payload \in Seq(Bytes)
  BY <1>1, AcceptedIsPacket DEF Packets
<1>3. NameIn(result.value.payload) \in Seq(Chars)
  BY <1>1, <1>2, NameInIsName
<1>4. saved' = SavedName(sanitize_filename(NameIn(result.value.payload)))
  BY <1>1 DEF HandshakeName
<1>5. /\ Clean(saved')
      /\ IsStripped(HandshakeName(result.value.payload)) =>
           ~IsDevice(saved') /\ sanitize_filename(saved') = saved'
  BY <1>3, <1>4, SavedNameSettles DEF HandshakeName
<1>6. NameInv'
  BY <1>1, <1>5, CleanIsName, Zenon DEF NameInv
<1>7. WireInv'
  BY <1>1, Zenon DEF IInv, WireInv, Sent
<1>8. PacketInv'
  BY <1>1, Zenon DEF IInv, PacketInv, Packed, Sent
<1>9. ConfigInv' /\ MutationInv'
  BY <1>1, Zenon DEF IInv, ConfigInv, MutationInv, Sent
<1> QED
  BY <1>1, <1>6, <1>7, <1>8, <1>9 DEF IInv, Packed, Sent

LEMMA IgnoreKeeps ==
  ASSUME IInv, Ignore
  PROVE  IInv'
<1>1. /\ stage = "decoded" /\ stage' = "ignored"
      /\ UNCHANGED <<packet, wire, link, mutations, result, config, saved>>
  BY DEF Ignore, startVars
<1>2. WireInv'
  BY <1>1, Zenon DEF IInv, WireInv, Sent
<1>3. PacketInv'
  BY <1>1, Zenon DEF IInv, PacketInv, Packed, Sent
<1>4. ConfigInv' /\ MutationInv' /\ NameInv'
  BY <1>1, Zenon DEF IInv, ConfigInv, MutationInv, NameInv, Sent
<1> QED
  BY <1>1, <1>2, <1>3, <1>4 DEF IInv, Packed, Sent

LEMMA RaiseKeeps ==
  ASSUME IInv, RaiseAttributeError
  PROVE  IInv'
<1>1. /\ stage = "decoded" /\ stage' = "raised"
      /\ UNCHANGED <<packet, wire, link, mutations, result, config, saved>>
  BY DEF RaiseAttributeError, startVars
<1>2. WireInv'
  BY <1>1, Zenon DEF IInv, WireInv, Sent
<1>3. PacketInv'
  BY <1>1, Zenon DEF IInv, PacketInv, Packed, Sent
<1>4. ConfigInv' /\ MutationInv' /\ NameInv'
  BY <1>1, Zenon DEF IInv, ConfigInv, MutationInv, NameInv, Sent
<1> QED
  BY <1>1, <1>2, <1>3, <1>4 DEF IInv, Packed, Sent

LEMMA StutterKeeps ==
  ASSUME IInv, UNCHANGED vars
  PROVE  IInv'
<1>1. UNCHANGED <<stage, packet, wire, link, mutations, result, config, saved>>
  BY DEF vars, codecVars, startVars
<1> QED
  BY <1>1, Zenon DEF IInv, ConfigInv, PacketInv, WireInv, MutationInv, NameInv

LEMMA StepKeeps == IInv /\ [Next]_vars => IInv'
<1> SUFFICES ASSUME IInv, [Next]_vars PROVE IInv'
  OBVIOUS
<1>1. CASE Configure
  BY <1>1, ConfigureKeeps
<1>2. CASE Prepare
  BY <1>2, PrepareStartKeeps, PrepareDataKeeps, PrepareAckKeeps DEF Prepare
<1>3. CASE Codec /\ UNCHANGED startVars
  BY <1>3, EncodeKeeps, CorruptKeeps, StrayKeeps, DecodeKeeps DEF Codec
<1>4. CASE Receive
  BY <1>4, AcceptStartKeeps, RaiseKeeps, IgnoreKeeps DEF Receive
<1>5. CASE UNCHANGED vars
  BY <1>5, StutterKeeps
<1> QED
  BY <1>1, <1>2, <1>3, <1>4, <1>5 DEF Next

(* The inductive invariant holds throughout the session: the packet is one  *)
(* of the format (packet.py), the datagram is what encode made of it unless *)
(* it was corrupted or replaced, and the name is clean once it is chosen,   *)
(* and settled if the handshake's has no whitespace at its ends.            *)
THEOREM SessionKeepsInv == Spec => []IInv
BY InitEstablishes, StepKeeps, PTL DEF Spec

-----------------------------------------------------------------------------
(* Theorems *)

(* The session's first datagram keeps its types, whatever bytes it is made  *)
(* of: it never grows beyond what the receiver of a datagram reserves.      *)
THEOREM SessionTypeCorrect == Spec => []TypeOK
<1>1. IInv => TypeOK
  <2> SUFFICES ASSUME IInv PROVE TypeOK
    OBVIOUS
  <2>1. \A i \in DOMAIN wire : wire[i] \subseteq Bits
    <3>1. wire \in Seq(SUBSET Bits)
      BY DEF IInv, WireInv, Bytes
    <3> QED
      BY <3>1
  <2>2. CodecTypeOK
    BY <2>1, Zenon DEF IInv, WireInv, MutationInv, CodecTypeOK
  <2> QED
    BY <2>2 DEF IInv, ConfigInv, NameInv, TypeOK, Packed, Sent
<1> QED
  BY <1>1, SessionKeepsInv, PTL

(* For every packet that encode takes, decode gives the same packet back:   *)
(* its numbers of any size, its payload of any length and any bytes.        *)
THEOREM DecodingInvertsEncoding == Spec => []DecodeInvertsEncode
<1>1. IInv => DecodeInvertsEncode
  <2> SUFFICES ASSUME IInv, stage = "decoded", link = "intact" PROVE result = Returns(packet)
    BY DEF DecodeInvertsEncode
  <2>1. packet \in Packets /\ Encode(packet) = Returns(wire) /\ result = Decode(wire)
    BY Zenon DEF IInv, PacketInv, WireInv, Packed, Sent
  <2>2. Encode(packet).error = "none" /\ Encode(packet).value = wire
    BY <2>1 DEF Returns
  <2>3. wire = Header(packet, ChecksumOf(packet)) \o packet.payload /\ Fits(packet)
    BY <2>1, <2>2, EncodedIs, EncodeOutcome
  <2> QED
    BY <2>1, <2>3, DecodeOfEncode
<1> QED
  BY <1>1, SessionKeepsInv, PTL

(* One changed byte is always noticed: a step of the checksum's division    *)
(* can be undone, so two datagrams that differ in one byte, wherever it is  *)
(* and however long they are, never both carry the checksum of the rest.    *)
THEOREM OneMutationRefused == Spec => []OneMutationIsRefused
<1>1. IInv => OneMutationIsRefused
  <2> SUFFICES ASSUME IInv, stage = "decoded", link = "corrupted", mutations = 1
               PROVE  result.error # "none"
    BY DEF OneMutationIsRefused
  <2>1. packet \in Packets /\ result = Decode(wire)
    BY Zenon DEF IInv, PacketInv, WireInv, Packed, Sent
  <2>2. Encode(packet).error = "none" /\ wire \in Mutated(Encode(packet).value)
    BY Zenon DEF IInv, MutationInv
  <2> QED
    BY <2>1, <2>2, MutationIsRefused
<1> QED
  BY <1>1, SessionKeepsInv, PTL

(* Every datagram that decode accepts, corrupted and stray ones with them,  *)
(* is the one that encode makes of the packet decode returns.               *)
THEOREM AcceptingIsCanonical == Spec => []AcceptedIsCanonical
<1>1. IInv => AcceptedIsCanonical
  BY AcceptedIsPacket DEF AcceptedIsCanonical
<1> QED
  BY <1>1, SessionKeepsInv, PTL

(* Whatever name a START carries, of whatever length, the receiver's file   *)
(* is one component of a path, without a dot or a blank at either end.  If  *)
(* the first round of sanitize_filename (protocol.py:1029) leaves no        *)
(* whitespace at the ends, the second (utils.py:205) leaves no device, and  *)
(* a third would change nothing.                                            *)
THEOREM SavedNamesSettle == Spec => []SavedNameIsSettled
<1>1. IInv => SavedNameIsSettled
  <2> SUFFICES ASSUME IInv, stage = "saved"
               PROVE  /\ saved # <<>>
                      /\ \A i \in DOMAIN saved : saved[i] \notin {"/", "\\", ":", "<tab>"}
                      /\ {saved[1], saved[Len(saved)]} \cap {".", " "} = {}
                      /\ IsStripped(HandshakeName(result.value.payload)) =>
                           ~IsDevice(saved) /\ sanitize_filename(saved) = saved
    BY Zenon DEF SavedNameIsSettled
  <2>1. /\ Clean(saved)
        /\ IsStripped(HandshakeName(result.value.payload)) =>
             ~IsDevice(saved) /\ sanitize_filename(saved) = saved
    BY Zenon DEF IInv, NameInv
  <2>2. saved \in Seq(Chars \ Illegal) /\ saved # <<>> /\ saved[1] \notin Edge /\ saved[Len(saved)] \notin Edge
    BY <2>1, Zenon DEF Clean
  <2>3. {saved[1], saved[Len(saved)]} \cap {".", " "} = {}
    BY <2>2, Zenon DEF Edge
  <2>4. \A i \in DOMAIN saved : saved[i] \notin {"/", "\\", ":", "<tab>"}
    <3>1. \A i \in DOMAIN saved : saved[i] \in Chars \ Illegal
      BY <2>2
    <3> QED
      BY <3>1, Zenon DEF Illegal
  <2> QED
    BY <2>1, <2>2, <2>3, <2>4, Zenon
<1> QED
  BY <1>1, SessionKeepsInv, PTL

(* The hypothesis is needed.  Behind any clean name a dot, a whitespace     *)
(* that strip(" .") of utils.py:178 leaves alone, and a dot get through     *)
(* both rounds and are gone: the first takes the last dot, the second the   *)
(* whitespace (utils.py:159) and then the other dot, after it has looked    *)
(* for devices (utils.py:173).  So a device's name reaches receive_file.    *)
THEOREM DevicesGetThrough ==
  /\ \A s : Clean(s) /\ Stripped(s) =>
               SavedName(sanitize_filename(s \o <<".", "<nbsp>", ".">>)) = s
  /\ Clean(<<"n">>) /\ Stripped(<<"n">>) /\ IsDevice(<<"n">>)
<1>1. ASSUME NEW s, Clean(s), Stripped(s)
      PROVE  SavedName(sanitize_filename(s \o <<".", "<nbsp>", ".">>)) = s
  <2> DEFINE C == Chars \ Illegal
             k == Len(s)
             whole == s \o <<".", "<nbsp>", ".">>
             first == s \o <<".", "<nbsp>">>
             dotted == s \o <<".">>
  <2>1. /\ s \in Seq(C) /\ k \in Nat /\ k >= 1 /\ s # <<>>
        /\ s[1] \notin Edge \cup Whitespace /\ s[k] \notin Edge \cup Whitespace
    <3>1. s \in Seq(C) /\ s # <<>> /\ s[1] \notin Edge /\ s[k] \notin Edge
      BY <1>1, Zenon DEF Clean
    <3>2. s[1] \notin Whitespace /\ s[k] \notin Whitespace
      BY <1>1, Zenon DEF Stripped
    <3>3. k \in Nat /\ k >= 1
      BY <3>1
    <3> QED
      BY <3>1, <3>2, <3>3
  <2>2. "." \in C /\ "<nbsp>" \in C
    BY CharsAre DEF Illegal
  <2>3. /\ "." \in Edge /\ "<nbsp>" \notin Edge /\ "." \notin Whitespace /\ "<nbsp>" \in Whitespace
    BY DEF Edge, Whitespace
  <2> HIDE DEF C
  <2>4. /\ whole \in Seq(C) /\ Len(whole) = k + 3 /\ whole[1] = s[1]
        /\ whole[k + 2] = "<nbsp>" /\ whole[k + 3] = "." /\ SubSeq(whole, 1, k + 2) = first
    <3>1. /\ whole \in Seq(C) /\ Len(whole) = k + 3 /\ whole[1] = s[1]
          /\ whole[k + 2] = "<nbsp>" /\ whole[k + 3] = "."
      BY <2>1, <2>2
    <3>2. SubSeq(whole, 1, k + 2) = first
      BY <2>1, <2>2
    <3> QED
      BY <3>1, <3>2
  <2>5. /\ first \in Seq(C) /\ Len(first) = k + 2 /\ first[1] = s[1]
        /\ first[k + 1] = "." /\ first[k + 2] = "<nbsp>" /\ SubSeq(first, 1, k + 1) = dotted
    <3>1. /\ first \in Seq(C) /\ Len(first) = k + 2 /\ first[1] = s[1]
          /\ first[k + 1] = "." /\ first[k + 2] = "<nbsp>"
      BY <2>1, <2>2
    <3>2. SubSeq(first, 1, k + 1) = dotted
      BY <2>1, <2>2
    <3> QED
      BY <3>1, <3>2
  <2>6. /\ dotted \in Seq(C) /\ Len(dotted) = k + 1 /\ dotted[1] = s[1] /\ dotted[k] = s[k]
        /\ dotted[k + 1] = "." /\ SubSeq(dotted, 1, k) = s
    <3>1. /\ dotted \in Seq(C) /\ Len(dotted) = k + 1 /\ dotted[1] = s[1] /\ dotted[k] = s[k]
          /\ dotted[k + 1] = "."
      BY <2>1, <2>2
    <3>2. SubSeq(dotted, 1, k) = s
      BY <2>1, <2>2
    <3> QED
      BY <3>1, <3>2
  <2> HIDE DEF whole, first, dotted, k
  <2>7. sanitize_filename(whole) = first
    <3>1. BaseName(whole) = whole
      BY <2>1, <2>3, <2>4, LegalBaseNameStays DEF C
    <3>2. ~IsDevice(whole)
      BY <2>1, <2>4, DotEndIsNoDevice
    <3>3. Strip(whole, Edge) = first
      <4>1. k + 2 \in 1..Len(whole) /\ \A i \in (k + 2 + 1)..Len(whole) : i = k + 3
        BY <2>1, <2>4
      <4> QED
        BY <2>1, <2>3, <2>4, <4>1, StripBehind
    <3> QED
      <4>1. Len(whole) >= 2 /\ whole # <<".", ".">>
        <5>1. Len(<<".", ".">>) = 2
          OBVIOUS
        <5>2. Len(whole) >= 2 /\ Len(whole) # 2
          BY <2>1, <2>4
        <5> QED
          BY <5>1, <5>2, Zenon
      <4>2. first # <<>>
        <5>1. Len(<<>>) = 0
          OBVIOUS
        <5>2. Len(first) # 0
          BY <2>1, <2>5
        <5> QED
          BY <5>1, <5>2, Zenon
      <4>3. whole \in Seq(Chars \ Illegal)
        BY <2>4 DEF C
      <4> QED
        BY <3>1, <3>2, <3>3, <4>1, <4>2, <4>3, RoundIs
  <2>8. sanitize_filename(first) = s
    <3>1. BaseName(first) = dotted
      <4>1. k + 1 \in 1..Len(first) /\ \A i \in (k + 1 + 1)..Len(first) : i = k + 2
        BY <2>1, <2>5
      <4>2. first \in Seq(Chars \ {"/"})
        BY <2>5, SeqMonotonic DEF C, Illegal
      <4> QED
        BY <2>1, <2>3, <2>5, <4>1, <4>2, BaseNameBehind
    <3>2. ~IsDevice(dotted)
      BY <2>1, <2>6, DotEndIsNoDevice
    <3>3. Strip(dotted, Edge) = s
      <4>1. k \in 1..Len(dotted) /\ \A i \in (k + 1)..Len(dotted) : i = k + 1
        BY <2>1, <2>6
      <4> QED
        BY <2>1, <2>3, <2>6, <4>1, StripBehind
    <3> QED
      <4>1. dotted # <<".", ".">> /\ Len(dotted) >= 2
        <5>1. <<".", ".">>[1] = "."
          OBVIOUS
        <5>2. dotted # <<".", ".">>
          BY <2>1, <2>3, <2>6, <5>1, Zenon
        <5> QED
          BY <2>1, <2>6, <5>2
      <4> QED
        BY <2>1, <2>5, <2>6, <3>1, <3>2, <3>3, <4>1, RoundIs, Zenon DEF C
  <2> QED
    BY <1>1, <2>7, <2>8, CleanIsSaved DEF whole
<1>2. Clean(<<"n">>) /\ Stripped(<<"n">>)
  <2>1. "n" \in Chars \ Illegal /\ "n" \notin Edge /\ "n" \notin Whitespace
    BY CharsAre DEF Illegal, Edge, Whitespace
  <2> QED
    BY <2>1 DEF Clean, Stripped
<1>3. IsDevice(<<"n">>)
  <2>1. {i \in DOMAIN <<"n">> : <<"n">>[i] = "."} = {}
    OBVIOUS
  <2> QED
    BY <2>1, Zenon DEF IsDevice, Stem
<1> QED
  BY <1>1, <1>2, <1>3

(* No accepted payload_size makes a chunk that encode refuses or decode     *)
(* rejects, whatever limit the build sets.                                  *)
THEOREM ChunksAlwaysSend == Spec => []ChunksAreSendable
<1>1. IInv /\ DecodeInvertsEncode => ChunksAreSendable
  <2> SUFFICES ASSUME IInv, DecodeInvertsEncode, packet.pkt_type = DATA, packet.seq_num <= WordMax
               PROVE  /\ stage # "refused"
                      /\ stage = "decoded" /\ link = "intact" => result.error = "none"
    BY Zenon DEF ChunksAreSendable
  <2>1. packet \in Packets /\ packet.ack_num = 0 /\ Len(packet.payload) <= MaxPayload
    BY Zenon DEF IInv, PacketInv
  <2>2. Fits(packet)
    <3>1. 0 <= WordMax
      BY DEF WordMax
    <3> QED
      BY <2>1, <3>1, Zenon DEF Fits
  <2>3. Encode(packet).error = "none"
    <3>1. Encode(packet) = Returns(Header(packet, ChecksumOf(packet)) \o packet.payload)
      BY <2>1, <2>2, EncodeOutcome, Zenon
    <3> QED
      BY <3>1 DEF Returns
  <2>4. stage # "refused"
    BY <2>3 DEF IInv, WireInv
  <2>5. stage = "decoded" /\ link = "intact" => result.error = "none"
    BY DEF DecodeInvertsEncode, Returns
  <2> QED
    BY <2>4, <2>5
<1> QED
  BY <1>1, SessionKeepsInv, DecodingInvertsEncoding, PTL
=============================================================================
