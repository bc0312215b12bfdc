------------------------- MODULE RtcmBuffer_proofs -------------------------
(***************************************************************************)
(* Proofs about the parse buffer, for every length of a frame and of its   *)
(* header, every place that looks like a sync byte, every read and every   *)
(* limit.                                                                  *)
(*                                                                         *)
(* The scan is an induction over its turns (Extracted), by the turn that   *)
(* would be the first to go wrong.  FramesArrive rests on where in the     *)
(* buffers the bytes of each frame are (At), on these pieces coming in the *)
(* order of their frames (Rising), and on what is taken being older than   *)
(* what has come in since (Since).                                         *)
(***************************************************************************)
EXTENDS RtcmBuffer, SequenceTheorems, WellFoundedInduction, TLAPS

-----------------------------------------------------------------------------
(* Turns of the scan.                                                      *)

\* Numbers have a least one, in every set of them.
LEMMA LeastNumber ==
    ASSUME NEW S \in SUBSET Nat, S # {}
    PROVE  \E n \in S : \A m \in S : n <= m
  <1> DEFINE Less == {ss \in Nat \X Nat : ss[1] < ss[2]}
  <1>1. IsWellFoundedOn(Less, Nat)
    BY NatLessThanWellFounded DEF OpToRel
  <1> HIDE DEF Less
  <1>2. PICK n \in S : \A m \in S : <<m, n>> \notin Less
    BY <1>1, WFMin
  <1>3. \A m \in S : ~(m < n)
    BY <1>2 DEF Less
  <1> QED
    BY <1>3

\* Nothing has been scanned.
ScanStart == [next |-> 1, frames |-> <<>>, cut |-> {}]

\* f is what the scan of s gives after each of its first m turns.
Turns(s, m, f) == f = [n \in 0..m |-> IF n = 0 THEN ScanStart ELSE Scan(s, f[n - 1])]

\* There are these turns, however many: the shortest scan without them would be one
\* turn longer than one that has them.
LEMMA TurnsExist ==
    ASSUME NEW s, NEW m \in Nat
    PROVE  \E f : Turns(s, m, f)
  <1> DEFINE Missing == {k \in Nat : ~\E f : Turns(s, k, f)}
  <1> SUFFICES ASSUME Missing # {} PROVE FALSE
    OBVIOUS
  <1>1. PICK k \in Missing : \A j \in Missing : k <= j
    <2> HIDE DEF Missing
    <2>1. Missing \in SUBSET Nat
      BY DEF Missing
    <2> QED
      BY <2>1, LeastNumber
  <1>2. CASE k = 0
    <2> DEFINE f == [n \in 0..0 |-> ScanStart]
    <2>1. f = [n \in 0..0 |-> IF n = 0 THEN ScanStart ELSE Scan(s, f[n - 1])]
      OBVIOUS
    <2> QED
      BY <1>1, <1>2, <2>1 DEF Turns
  <1>3. CASE k # 0
    <2>1. k - 1 \in Nat /\ k - 1 \notin Missing
      BY <1>1, <1>3
    <2>2. PICK f : Turns(s, k - 1, f)
      BY <2>1
    <2> DEFINE g == [n \in 0..k |-> IF n = 0 THEN ScanStart ELSE Scan(s, f[n - 1])]
    <2>3. \A n \in 0..(k - 1) : g[n] = f[n]
      <3>1. \A n \in 0..(k - 1) : f[n] = IF n = 0 THEN ScanStart ELSE Scan(s, f[n - 1])
        BY <2>2 DEF Turns
      <3> QED
        BY <1>1, <3>1
    <2>4. \A n \in 0..k : g[n] = IF n = 0 THEN ScanStart ELSE Scan(s, g[n - 1])
      <3>1. \A n \in 0..k : n # 0 => n - 1 \in 0..(k - 1)
        BY <1>1
      <3> QED
        BY <2>3, <3>1
    <2>5. g = [n \in 0..k |-> IF n = 0 THEN ScanStart ELSE Scan(s, g[n - 1])]
      BY <2>4
    <2> QED
      BY <1>1, <2>5 DEF Turns
  <1> QED
    BY <1>2, <1>3

\* extract_rtcm_frames is the last of them.
LEMMA ExtractTurns ==
    ASSUME NEW s, Len(s) \in Nat
    PROVE  \E f : /\ f[0] = ScanStart
                  /\ \A n \in 1..Len(s) : f[n] = Scan(s, f[n - 1])
                  /\ Extract(s) = f[Len(s)]
  <1> DEFINE f == CHOOSE f : Turns(s, Len(s), f)
  <1>1. Turns(s, Len(s), f)
    BY TurnsExist
  <1>2. Extract(s) = f[Len(s)]
    BY DEF Extract, Turns, ScanStart
  <1> HIDE DEF f
  <1> QED
    BY <1>1, <1>2 DEF Turns

-----------------------------------------------------------------------------
\* Bytes before frame k, and the number of a byte in the stream.
Offset(k) == (k - 1) * FrameLength
Number(b) == Offset(b.frame) + b.place

\* A product grows with its factors.
LEMMA Times ==
    ASSUME NEW a \in Nat, NEW b \in Nat, NEW c \in Nat
    PROVE  a * c \in Nat /\ (a <= b => a * c <= b * c) /\ (a + 1) * c = a * c + c
  OBVIOUS

\* Frames lie one behind the other.
LEMMA OffsetOrder ==
    ASSUME NEW k \in Nat \ {0}, NEW l \in Nat \ {0}
    PROVE  /\ Offset(k) \in Nat /\ Offset(k) + FrameLength = k * FrameLength
           /\ k < l => Offset(k) + FrameLength <= Offset(l)
           /\ Offset(k) < Offset(l) => k < l
           /\ Offset(k) < Offset(l) + FrameLength => k <= l
  <1>0. FrameLength \in Nat
    BY LengthsAssumption
  <1>1. \A a, b \in Nat : a * FrameLength \in Nat /\ (a <= b => a * FrameLength <= b * FrameLength)
    BY <1>0, Times
  <1>2. k - 1 \in Nat /\ l - 1 \in Nat /\ (k - 1) + 1 = k /\ (l - 1) + 1 = l
    OBVIOUS
  <1>3. (k - 1) * FrameLength + FrameLength = k * FrameLength /\ (l - 1) * FrameLength + FrameLength = l * FrameLength
    BY <1>0, <1>2, Times
  <1> DEFINE T(a) == a * FrameLength
  <1>4. /\ T(k - 1) \in Nat /\ T(k - 1) + FrameLength = T(k) /\ T(l - 1) + FrameLength = T(l)
        /\ T(k) \in Nat /\ T(l - 1) \in Nat
        /\ \A a, b \in Nat : a <= b => T(a) <= T(b)
    BY <1>1, <1>2, <1>3
  <1> HIDE DEF T
  <1>5. k < l => T(k) <= T(l - 1)
    BY <1>2, <1>4
  <1>6. l <= k => T(l - 1) <= T(k - 1)
    BY <1>2, <1>4
  <1>7. l < k => T(l) <= T(k - 1)
    BY <1>2, <1>4
  <1> QED
    BY <1>0, <1>4, <1>5, <1>6, <1>7 DEF Offset, T

\* The n-th byte of the stream, and the number of a byte.
LEMMA ByteOf ==
    ASSUME NEW k \in 1..Frames, NEW j \in 1..FrameLength
    PROVE  /\ Offset(k) + j \in 1..(Frames * FrameLength)
           /\ Byte(Offset(k) + j) = [frame |-> k, place |-> j]
  <1>0. FrameLength \in Nat /\ FrameLength > 0 /\ Frames \in Nat
    BY LengthsAssumption
  <1>1. Offset(k) \in Nat /\ Offset(k) + FrameLength <= Frames * FrameLength
    <2>1. Offset(k) \in Nat /\ Offset(k) + FrameLength = k * FrameLength
      BY <1>0, OffsetOrder
    <2>2. k * FrameLength <= Frames * FrameLength
      BY <1>0, Times
    <2> QED
      BY <2>1, <2>2
  <1>2. ((k - 1) * FrameLength + (j - 1)) \div FrameLength = k - 1
    BY <1>0
  <1>3. ((k - 1) * FrameLength + (j - 1)) % FrameLength = j - 1
    BY <1>0
  <1>4. Offset(k) + j - 1 = (k - 1) * FrameLength + (j - 1)
    BY <1>0, <1>1 DEF Offset
  <1> QED
    BY <1>0, <1>1, <1>2, <1>3, <1>4 DEF Byte

LEMMA ByteTyped ==
    ASSUME NEW n \in 1..(Frames * FrameLength)
    PROVE  Byte(n) \in Bytes /\ Number(Byte(n)) = n
  <1>0. FrameLength \in Nat /\ FrameLength > 0 /\ Frames \in Nat /\ Frames * FrameLength \in Nat /\ n - 1 \in Nat
    BY LengthsAssumption
  <1> DEFINE q == (n - 1) \div FrameLength
             p == (n - 1) % FrameLength
  <1>1. q \in Nat /\ p \in 0..(FrameLength - 1) /\ n - 1 = q * FrameLength + p
    BY <1>0
  <1>2. q < Frames
    <2>1. q \in Nat /\ q * FrameLength < Frames * FrameLength
      BY <1>0, <1>1
    <2> HIDE DEF q
    <2>2. Frames <= q => Frames * FrameLength <= q * FrameLength
      BY <1>0, <2>1, Times
    <2> QED
      BY <1>0, <2>1, <2>2
  <1>3. Byte(n) = [frame |-> q + 1, place |-> p + 1]
    BY DEF Byte
  <1> HIDE DEF q, p
  <1> QED
    BY <1>0, <1>1, <1>2, <1>3 DEF Bytes, Number, Offset

-----------------------------------------------------------------------------
(* The scan.                                                               *)

\* A place with a sync byte that waits for the rest of its frame; and a whole frame.
Stuck(s, i) == i <= Len(s) /\ Sync(s, i) /\ ~Fits(s, i)
Framed(s, i) == Fits(s, i) /\ Whole(s, i)

\* After turns many turns the scan is as many places on, or waits; what it has
\* cut out are whole frames before its place, in their order, and of the starts of
\* frames before it none is missing: it was whole and is cut out, or it has been
\* passed over before its length was known.
ScanTyped(s, r, turns) ==
    /\ r \in [next : 1..(Len(s) + 1), frames : Seq(1..Frames), cut : SUBSET (1..Frames)]
    /\ r.next > turns \/ Stuck(s, r.next)

ScanFound(s, r) ==
    /\ \A x \in 1..Len(r.frames) : \E a \in 1..Len(s) :
          Framed(s, a) /\ s[a].frame = r.frames[x] /\ a + FrameLength <= r.next
    /\ \A a \in 1..(r.next - 1) : s[a].place = 1 =>
          /\ Framed(s, a) => \E x \in 1..Len(r.frames) : r.frames[x] = s[a].frame
          /\ ~Fits(s, a) => s[a].frame \in r.cut

\* Whole frames come in the order of their numbers.
InOrder(s) ==
    \A a, b \in 1..Len(s) : Framed(s, a) /\ Framed(s, b) /\ a < b => s[a].frame < s[b].frame

\* What Append does.
LEMMA Appended ==
    ASSUME NEW S, NEW s \in Seq(S), NEW e \in S
    PROVE  /\ Append(s, e) \in Seq(S) /\ Len(Append(s, e)) = Len(s) + 1 /\ Len(s) \in Nat
           /\ \A i \in 1..Len(s) : Append(s, e)[i] = s[i]
           /\ Append(s, e)[Len(s) + 1] = e
  OBVIOUS

\* The three ends of a turn.
LEMMA ScanStays ==
    ASSUME NEW s, NEW r, r.next \in Nat, Len(s) \in Nat,
           r.next > Len(s) \/ Stuck(s, r.next)
    PROVE  Scan(s, r) = r
  <1>1. CASE r.next > Len(s)
    BY <1>1 DEF Scan
  <1>2. CASE Stuck(s, r.next)
    BY <1>2 DEF Scan, Stuck
  <1> QED
    BY <1>1, <1>2

LEMMA ScanTakes ==
    ASSUME NEW s, NEW r, r.next \in Nat, Len(s) \in Nat,
           r.next <= Len(s), Sync(s, r.next), Framed(s, r.next)
    PROVE  Scan(s, r) = [r EXCEPT !.next = r.next + FrameLength, !.frames = Append(@, s[r.next].frame)]
  BY DEF Scan, Framed

LEMMA ScanPasses ==
    ASSUME NEW s, NEW r, r.next \in Nat, Len(s) \in Nat,
           r.next <= Len(s), ~Stuck(s, r.next), ~(Sync(s, r.next) /\ Framed(s, r.next))
    PROVE  Scan(s, r) = [r EXCEPT !.next = r.next + 1,
                               !.cut = IF CutHeader(s, r.next) THEN @ \cup {s[r.next].frame} ELSE @]
  BY DEF Scan, Framed, Stuck

\* A turn.
LEMMA ScanTurn ==
    ASSUME NEW s \in Seq(Bytes), NEW n \in 0..(Len(s) - 1), NEW r, ScanTyped(s, r, n)
    PROVE  LET next == Scan(s, r) IN
           /\ ScanTyped(s, next, n + 1)
           /\ ScanFound(s, r) => ScanFound(s, next)
           /\ InOrder(s) /\ ScanFound(s, r) /\ (\A x, y \in 1..Len(r.frames) : x < y => r.frames[x] < r.frames[y])
                => \A x, y \in 1..Len(next.frames) : x < y => next.frames[x] < next.frames[y]
  <1> DEFINE i == r.next
             next == Scan(s, r)
  <1>0. /\ Len(s) \in Nat /\ FrameLength \in Nat /\ HeaderLength \in Nat /\ HeaderLength > 0
        /\ FrameLength > HeaderLength /\ i \in 1..(Len(s) + 1)
        /\ r \in [next : 1..(Len(s) + 1), frames : Seq(1..Frames), cut : SUBSET (1..Frames)]
        /\ \A a \in 1..Len(s) : s[a] \in Bytes
        /\ i > n \/ Stuck(s, i)
    BY LengthsAssumption DEF ScanTyped
  <1>a. i \in Nat /\ Len(s) \in Nat
    BY <1>0
  <1>1. CASE i > Len(s) \/ Stuck(s, i)
    <2>1. next = r
      BY <1>a, <1>1, ScanStays
    <2> HIDE DEF next
    <2>2. ScanTyped(s, next, n + 1)
      BY <1>0, <1>1, <2>1 DEF ScanTyped
    <2> QED
      BY <2>1, <2>2 DEF next
  <1>2. CASE i <= Len(s) /\ Sync(s, i) /\ Framed(s, i)
    <2>1. next = [r EXCEPT !.next = i + FrameLength, !.frames = Append(@, s[i].frame)]
      BY <1>a, <1>2, ScanTakes
    <2> HIDE DEF next
    <2>2. s[i].frame \in 1..Frames /\ i + FrameLength \in 1..(Len(s) + 1) /\ i \in 1..Len(s)
      <3>1. i + FrameLength - 1 <= Len(s)
        BY <1>2 DEF Framed, Fits
      <3>2. i \in 1..Len(s) /\ i + FrameLength \in 1..(Len(s) + 1)
        BY <1>0, <1>2, <3>1
      <3>3. s[i] \in Bytes
        BY <1>0, <3>2
      <3> QED
        BY <3>2, <3>3 DEF Bytes
    <2>3. /\ next.next = i + FrameLength /\ next.frames = Append(r.frames, s[i].frame) /\ next.cut = r.cut
          /\ next \in [next : 1..(Len(s) + 1), frames : Seq(1..Frames), cut : SUBSET (1..Frames)]
      BY <1>0, <2>1, <2>2, Appended
    <2>4. next.next > n + 1
      BY <1>0, <1>2, <2>3 DEF Stuck, Framed
    <2>5. /\ Len(next.frames) = Len(r.frames) + 1 /\ Len(r.frames) \in Nat
          /\ \A x \in 1..Len(r.frames) : next.frames[x] = r.frames[x]
          /\ next.frames[Len(r.frames) + 1] = s[i].frame
      BY <1>0, <2>2, <2>3, Appended
    <2>6. ASSUME ScanFound(s, r) PROVE ScanFound(s, next)
      <3>1. ASSUME NEW x \in 1..Len(next.frames)
            PROVE  \E a \in 1..Len(s) :
                      Framed(s, a) /\ s[a].frame = next.frames[x] /\ a + FrameLength <= next.next
        <4>1. CASE x \in 1..Len(r.frames)
          <5>1. PICK a \in 1..Len(s) : Framed(s, a) /\ s[a].frame = r.frames[x] /\ a + FrameLength <= r.next
            BY <2>6, <4>1 DEF ScanFound
          <5> QED
            BY <1>0, <2>3, <2>5, <4>1, <5>1
        <4>2. CASE x = Len(r.frames) + 1
          <5>1. Framed(s, i) /\ s[i].frame = next.frames[x] /\ i + FrameLength <= next.next
            BY <1>0, <1>2, <2>2, <2>3, <2>5, <4>2
          <5> QED
            BY <2>2, <5>1
        <4>3. x \in 1..Len(r.frames) \/ x = Len(r.frames) + 1
          BY <2>5
        <4> QED
          BY <4>1, <4>2, <4>3
      <3>2. ASSUME NEW a \in 1..(next.next - 1), s[a].place = 1
            PROVE  /\ Framed(s, a) => \E x \in 1..Len(next.frames) : next.frames[x] = s[a].frame
                   /\ ~Fits(s, a) => s[a].frame \in next.cut
        <4>1. CASE a \in 1..(i - 1)
          <5>1. /\ Framed(s, a) => \E x \in 1..Len(r.frames) : r.frames[x] = s[a].frame
                /\ ~Fits(s, a) => s[a].frame \in r.cut
            BY <2>6, <3>2, <4>1 DEF ScanFound
          <5>2. \A x \in 1..Len(r.frames) : x \in 1..Len(next.frames) /\ next.frames[x] = r.frames[x]
            BY <2>5
          <5> QED
            BY <2>3, <5>1, <5>2
        <4>2. CASE a = i
          BY <1>2, <2>5, <4>2 DEF Framed
        <4>3. CASE a \in (i + 1)..(i + FrameLength - 1)
          <5>1. a - i + 1 \in 1..FrameLength /\ i + (a - i + 1) - 1 = a
            BY <1>0, <4>3
          <5>2. s[a] = [frame |-> s[i].frame, place |-> a - i + 1]
            BY <1>2, <5>1 DEF Framed, Whole
          <5>3. a - i + 1 # 1
            <6>1. a > i /\ a \in Int /\ i \in Int
              BY <1>0, <4>3
            <6> QED
              BY <6>1
          <5>4. s[a].place = a - i + 1
            BY <5>2
          <5> QED
            BY <3>2, <5>3, <5>4
        <4>4. a \in 1..(i - 1) \/ a = i \/ a \in (i + 1)..(i + FrameLength - 1)
          <5>1. i \in Nat /\ FrameLength \in Nat
            BY <1>0
          <5>2. next.next = i + FrameLength
            BY <2>3
          <5>3. a \in 1..(i + FrameLength - 1)
            BY <5>1, <5>2
          <5> QED
            BY <5>1, <5>3
        <4> QED
          BY <4>1, <4>2, <4>3, <4>4
      <3> QED
        BY <3>1, <3>2 DEF ScanFound
    <2>7. ASSUME InOrder(s), ScanFound(s, r), NEW x \in 1..Len(next.frames), NEW y \in 1..Len(next.frames), x < y,
                 \A v, w \in 1..Len(r.frames) : v < w => r.frames[v] < r.frames[w]
          PROVE  next.frames[x] < next.frames[y]
      <3>1. CASE y \in 1..Len(r.frames)
        <4>1. x \in 1..Len(r.frames)
          BY <2>5, <2>7, <3>1
        <4> QED
          BY <2>5, <2>7, <3>1, <4>1
      <3>2. CASE y = Len(r.frames) + 1
        <4>1. x \in 1..Len(r.frames)
          BY <2>5, <2>7, <3>2
        <4>2. PICK a \in 1..Len(s) : Framed(s, a) /\ s[a].frame = r.frames[x] /\ a + FrameLength <= r.next
          BY <2>7, <4>1 DEF ScanFound
        <4>3. a < i
          BY <1>0, <4>2
        <4> QED
          BY <1>2, <2>2, <2>5, <2>7, <3>2, <4>1, <4>2, <4>3 DEF InOrder
      <3>3. y \in 1..Len(r.frames) \/ y = Len(r.frames) + 1
        BY <2>5
      <3> QED
        BY <3>1, <3>2, <3>3
    <2> QED
      BY <2>3, <2>4, <2>6, <2>7 DEF ScanTyped, next
  <1>3. CASE i <= Len(s) /\ ~Stuck(s, i) /\ ~(Sync(s, i) /\ Framed(s, i))
    <2>1. next = [r EXCEPT !.next = i + 1, !.cut = IF CutHeader(s, i) THEN @ \cup {s[i].frame} ELSE @]
      BY <1>a, <1>3, ScanPasses
    <2> HIDE DEF next
    <2>2. s[i].frame \in 1..Frames /\ i \in 1..Len(s) /\ i + 1 \in 1..(Len(s) + 1)
      BY SMTT(30), <1>0, <1>3 DEF Bytes
    <2>3. /\ next.next = i + 1 /\ next.frames = r.frames
          /\ next.cut = IF CutHeader(s, i) THEN r.cut \cup {s[i].frame} ELSE r.cut
          /\ next \in [next : 1..(Len(s) + 1), frames : Seq(1..Frames), cut : SUBSET (1..Frames)]
      BY <1>0, <2>1, <2>2
    <2>4. next.next > n + 1
      BY <1>0, <1>3, <2>3
    <2>5. ASSUME ScanFound(s, r) PROVE ScanFound(s, next)
      <3>1. ASSUME NEW x \in 1..Len(next.frames)
            PROVE  \E a \in 1..Len(s) :
                      Framed(s, a) /\ s[a].frame = next.frames[x] /\ a + FrameLength <= next.next
        <4>1. PICK a \in 1..Len(s) : Framed(s, a) /\ s[a].frame = r.frames[x] /\ a + FrameLength <= r.next
          BY <2>3, <2>5, <3>1 DEF ScanFound
        <4> QED
          BY <1>0, <2>3, <4>1
      <3>2. ASSUME NEW a \in 1..(next.next - 1), s[a].place = 1
            PROVE  /\ Framed(s, a) => \E x \in 1..Len(next.frames) : next.frames[x] = s[a].frame
                   /\ ~Fits(s, a) => s[a].frame \in next.cut
        <4>1. CASE a \in 1..(i - 1)
          BY <1>0, <2>3, <2>5, <3>2, <4>1 DEF ScanFound
        <4>2. CASE a = i
          <5>1. Framed(s, i) => Sync(s, i)
            BY <1>0, <1>3, <3>2, <4>2 DEF Framed, Fits, Sync
          <5>2. ~Fits(s, i) => CutHeader(s, i)
            BY <1>3, <3>2, <4>2 DEF Stuck, CutHeader
          <5> QED
            BY <1>3, <2>3, <4>2, <5>1, <5>2
        <4> QED
          BY <1>0, <2>3, <4>1, <4>2
      <3> QED
        BY <3>1, <3>2 DEF ScanFound
    <2> QED
      BY <2>3, <2>4, <2>5 DEF ScanTyped, next
  <1> QED
    BY <1>0, <1>1, <1>2, <1>3 DEF Framed, Stuck

\* What extract_rtcm_frames gives.
Increasing(w) == \A x, y \in 1..Len(w) : x < y => w[x] < w[y]
Scanned(s, r, n) ==
    /\ ScanTyped(s, r, n) /\ ScanFound(s, r)
    /\ InOrder(s) => Increasing(r.frames)

LEMMA Extracted ==
    ASSUME NEW s \in Seq(Bytes)
    PROVE  Scanned(s, Extract(s), Len(s))
  <1>0. Len(s) \in Nat
    OBVIOUS
  <1>1. PICK f : /\ f[0] = ScanStart
                 /\ \A n \in 1..Len(s) : f[n] = Scan(s, f[n - 1])
                 /\ Extract(s) = f[Len(s)]
    BY <1>0, ExtractTurns
  <1>2. Scanned(s, f[0], 0)
    <2>1. /\ f[0].next = 1 /\ f[0].frames = <<>> /\ f[0].cut = {}
          /\ f[0] \in [next : 1..(Len(s) + 1), frames : Seq(1..Frames), cut : SUBSET (1..Frames)]
      BY <1>0, <1>1 DEF ScanStart
    <2> QED
      BY <2>1 DEF Scanned, ScanTyped, ScanFound, Increasing
  <1>3. ASSUME NEW n \in 0..(Len(s) - 1), Scanned(s, f[n], n) PROVE Scanned(s, f[n + 1], n + 1)
    <2>1. f[n + 1] = Scan(s, f[n])
      <3>1. n + 1 \in 1..Len(s) /\ (n + 1) - 1 = n
        BY <1>0
      <3> QED
        BY <1>1, <3>1
    <2> QED
      BY <1>3, <2>1, ScanTurn DEF Scanned, Increasing
  <1> DEFINE Bad == {n \in Nat : n <= Len(s) /\ ~Scanned(s, f[n], n)}
  <1>4. Bad = {}
    <2> SUFFICES ASSUME Bad # {} PROVE FALSE
      OBVIOUS
    <2>1. Bad \in SUBSET Nat
      OBVIOUS
    <2> HIDE DEF Bad
    <2>2. PICK n \in Bad : \A m \in Bad : n <= m
      BY <2>1, LeastNumber
    <2>3. n \in Nat /\ n <= Len(s) /\ ~Scanned(s, f[n], n)
      BY <2>2 DEF Bad
    <2>4. n # 0
      BY <1>2, <2>3
    <2>5. n - 1 \in 0..(Len(s) - 1) /\ n - 1 \notin Bad /\ (n - 1) + 1 = n
      BY <1>0, <2>2, <2>3, <2>4
    <2>6. Scanned(s, f[n - 1], n - 1)
      BY <1>0, <2>5 DEF Bad
    <2> QED
      BY <1>3, <2>3, <2>5, <2>6
  <1> QED
    BY <1>0, <1>1, <1>4

\* The rest is what is behind the last turn: less than a frame.
LEMMA Rest ==
    ASSUME NEW s \in Seq(Bytes)
    PROVE  LET next == Extract(s).next IN
           /\ next \in 1..(Len(s) + 1)
           /\ Remaining(s) \in Seq(Bytes)
           /\ Len(Remaining(s)) = Len(s) + 1 - next
           /\ Len(Remaining(s)) < FrameLength
           /\ \A i \in 1..Len(Remaining(s)) : i + next - 1 \in 1..Len(s) /\ Remaining(s)[i] = s[i + next - 1]
  <1> DEFINE next == Extract(s).next
  <1>0. Len(s) \in Nat /\ FrameLength \in Nat /\ FrameLength > 0
    BY LengthsAssumption
  <1>1. next \in 1..(Len(s) + 1) /\ (next > Len(s) \/ Stuck(s, next))
    <2>1. ScanTyped(s, Extract(s), Len(s))
      BY Extracted DEF Scanned
    <2> QED
      BY <2>1 DEF ScanTyped
  <1>2. Len(s) + 1 - next < FrameLength
    <2>1. CASE next > Len(s)
      BY <1>0, <1>1, <2>1
    <2>2. CASE Stuck(s, next)
      <3>1. ~(next + FrameLength - 1 <= Len(s))
        BY <2>2 DEF Stuck, Fits
      <3> QED
        BY <1>0, <1>1, <3>1
    <2> QED
      BY <1>1, <2>1, <2>2
  <1>3. Remaining(s) = SubSeq(s, next, Len(s))
    BY DEF Remaining
  <1> HIDE DEF next
  <1>4. /\ SubSeq(s, next, Len(s)) \in Seq(Bytes)
        /\ Len(SubSeq(s, next, Len(s))) = Len(s) + 1 - next
        /\ \A i \in 1..(Len(s) + 1 - next) : SubSeq(s, next, Len(s))[i] = s[i + next - 1]
    BY <1>0, <1>1
  <1> QED
    BY SMTT(30), <1>0, <1>1, <1>2, <1>3, <1>4 DEF next

-----------------------------------------------------------------------------
(* Types, and the size of the buffer.                                      *)

\* While the parser thread has taken the buffer, what has come in since keeps to
\* the limit, and so leaves room for the rest.
RoomInv ==
    /\ parsing = "put" => Len(buffer) <= MaxBuffer
    /\ parsing = "take" => taken = <<>>

\* Two rows of bytes, one behind the other.
LEMMA Joined ==
    ASSUME NEW S, NEW v \in Seq(S), NEW w \in Seq(S)
    PROVE  /\ v \o w \in Seq(S) /\ Len(v \o w) = Len(v) + Len(w)
           /\ Len(v) \in Nat /\ Len(w) \in Nat
           /\ \A i \in 1..Len(v) : (v \o w)[i] = v[i]
           /\ \A i \in 1..Len(w) : (v \o w)[Len(v) + i] = w[i]
  OBVIOUS

\* The oldest are dropped.
LEMMA Left ==
    ASSUME NEW S, NEW w \in Seq(S), NEW n \in 0..Len(w)
    PROVE  /\ Dropped(w, n) \in Seq(S) /\ Len(Dropped(w, n)) = Len(w) - n
           /\ \A i \in 1..(Len(w) - n) : Dropped(w, n)[i] = w[n + i]
           /\ SubSeq(w, 1, n) \in Seq(S) /\ Len(SubSeq(w, 1, n)) = n
           /\ \A i \in 1..n : SubSeq(w, 1, n)[i] = w[i]
  BY DEF Dropped

\* What upload_data does with n bytes: excess of the oldest go.
Excess(n) == IF Len(buffer) + n > MaxBuffer THEN Len(buffer) + n - MaxBuffer ELSE 0
Chunk(n) == [i \in 1..n |-> Byte(read + i)]

LEMMA Uploaded ==
    ASSUME ParserTypeOK, NEW n \in 1..MaxChunk, Upload(n)
    PROVE  /\ n \in Nat /\ Excess(n) \in 0..Len(buffer) /\ read + n <= Frames * FrameLength
           /\ Chunk(n) \in Seq(Bytes) /\ Len(Chunk(n)) = n
           /\ \A i \in 1..n : read + i \in 1..(Frames * FrameLength) /\ Chunk(n)[i] = Byte(read + i)
           /\ read' = read + n
           /\ buffer' = Dropped(buffer, Excess(n)) \o Chunk(n)
           /\ excused' = excused \cup FramesIn(SubSeq(buffer, 1, Excess(n)))
           /\ UNCHANGED <<taken, parsing, parsed>>
  <1>1. MaxChunk \in Nat /\ MaxBuffer \in Nat /\ MaxChunk <= MaxBuffer /\ Frames * FrameLength \in Nat
    BY LengthsAssumption
  <1>2. Len(buffer) \in Nat /\ read \in Nat
    BY <1>1 DEF ParserTypeOK
  <1>3. read + n <= Frames * FrameLength
    BY DEF Upload
  <1>4. Excess(n) \in 0..Len(buffer)
    BY <1>1, <1>2 DEF Excess
  <1>5. \A i \in 1..n : read + i \in 1..(Frames * FrameLength)
    BY <1>1, <1>2, <1>3
  <1>6. Chunk(n) \in Seq(Bytes) /\ Len(Chunk(n)) = n /\ \A i \in 1..n : Chunk(n)[i] = Byte(read + i)
    <2>1. \A i \in 1..n : Byte(read + i) \in Bytes
      BY <1>5, ByteTyped
    <2> QED
      BY <1>1, <2>1 DEF Chunk
  <1> QED
    BY <1>1, <1>3, <1>4, <1>5, <1>6 DEF Upload, Excess, Chunk

\* Frames of bytes are frames.
LEMMA FramesTyped ==
    ASSUME NEW w \in Seq(Bytes)
    PROVE  FramesIn(w) \subseteq 1..Frames /\ CutAtEnd(w) \subseteq 1..Frames
  <1>1. \A i \in 1..Len(w) : w[i].frame \in 1..Frames
    <2>1. \A i \in 1..Len(w) : w[i] \in Bytes
      OBVIOUS
    <2> QED
      BY <2>1 DEF Bytes
  <1>2. w # <<>> => Len(w) \in 1..Len(w)
    OBVIOUS
  <1> QED
    BY <1>1, <1>2 DEF FramesIn, CutAtEnd

\* The parser begins well typed.
LEMMA ParserTypeInit == ParserInit => ParserTypeOK /\ RoomInv
  <1>1. Frames * FrameLength \in Nat /\ MaxBuffer \in Nat /\ FrameLength \in Nat /\ FrameLength > 0
    BY LengthsAssumption
  <1> QED
    BY <1>1 DEF ParserInit, ParserTypeOK, RoomInv

\* Every step keeps the types and the limits.
LEMMA ParserTypeNext == ParserTypeOK /\ RoomInv /\ [ParserNext]_parserVars => ParserTypeOK' /\ RoomInv'
  <1> SUFFICES ASSUME ParserTypeOK, RoomInv, [ParserNext]_parserVars PROVE ParserTypeOK' /\ RoomInv'
    OBVIOUS
  <1>0. /\ Frames * FrameLength \in Nat /\ MaxBuffer \in Nat /\ FrameLength \in Nat /\ FrameLength > 0
        /\ read \in Nat /\ Len(buffer) \in Nat
    BY LengthsAssumption DEF ParserTypeOK
  <1>1. ASSUME NEW n \in 1..MaxChunk, Upload(n) PROVE ParserTypeOK' /\ RoomInv'
    <2> DEFINE d == Dropped(buffer, Excess(n))
               c == Chunk(n)
    <2>1. /\ n \in Nat /\ Excess(n) \in 0..Len(buffer) /\ read + n <= Frames * FrameLength
          /\ c \in Seq(Bytes) /\ Len(c) = n /\ read' = read + n /\ buffer' = d \o c
          /\ excused' = excused \cup FramesIn(SubSeq(buffer, 1, Excess(n)))
          /\ UNCHANGED <<taken, parsing, parsed>>
      BY <1>1, Uploaded
    <2>2. d \in Seq(Bytes) /\ Len(d) = Len(buffer) - Excess(n) /\ SubSeq(buffer, 1, Excess(n)) \in Seq(Bytes)
      BY <2>1, Left DEF ParserTypeOK
    <2>3. buffer' \in Seq(Bytes) /\ Len(buffer') = Len(buffer) - Excess(n) + n
      BY <2>1, <2>2, Joined
    <2>4. Len(buffer') <= MaxBuffer
      <3>1. Excess(n) >= Len(buffer) + n - MaxBuffer
        BY <1>0, <2>1 DEF Excess
      <3> QED
        BY <1>0, <2>1, <2>3, <3>1
    <2>5. excused' \subseteq 1..Frames
      BY <2>1, <2>2, FramesTyped DEF ParserTypeOK
    <2>6. read' \in 0..(Frames * FrameLength)
      BY <1>0, <2>1
    <2>7. Len(buffer') < MaxBuffer + FrameLength
      BY <1>0, <2>3, <2>4
    <2> HIDE DEF d, c
    <2> QED
      BY <2>1, <2>3, <2>4, <2>5, <2>6, <2>7 DEF ParserTypeOK, RoomInv
  <1>2. CASE Take
    BY <1>0, <1>2 DEF Take, ParserTypeOK, RoomInv
  <1>3. CASE PutBack
    <2> DEFINE rest == Remaining(taken)
               r == Extract(taken)
    <2>1. /\ parsing = "put" /\ parsing' = "take" /\ buffer' = buffer \o rest /\ taken' = <<>>
          /\ parsed' = parsed \o r.frames /\ UNCHANGED read
          /\ excused' \subseteq excused \cup r.cut \cup FramesIn(rest) \cup CutAtEnd(buffer)
      BY <1>3 DEF PutBack
    <2>2. rest \in Seq(Bytes) /\ Len(rest) < FrameLength
      BY Rest DEF ParserTypeOK
    <2>3. r.frames \in Seq(1..Frames) /\ r.cut \subseteq 1..Frames
      <3>1. ScanTyped(taken, r, Len(taken))
        BY Extracted DEF ParserTypeOK, Scanned
      <3> HIDE DEF r
      <3> QED
        BY <3>1 DEF ScanTyped
    <2> HIDE DEF rest, r
    <2>4. buffer' \in Seq(Bytes) /\ Len(buffer') = Len(buffer) + Len(rest) /\ Len(rest) \in Nat
      BY <2>1, <2>2, Joined DEF ParserTypeOK
    <2>5. Len(buffer') < MaxBuffer + FrameLength
      BY <1>0, <2>1, <2>2, <2>4 DEF RoomInv
    <2>6. parsed' \in Seq(1..Frames)
      BY <2>1, <2>3, Joined DEF ParserTypeOK
    <2>7. excused' \subseteq 1..Frames
      BY <2>1, <2>2, <2>3, FramesTyped DEF ParserTypeOK
    <2> QED
      BY <2>1, <2>4, <2>5, <2>6, <2>7 DEF ParserTypeOK, RoomInv
  <1>4. CASE UNCHANGED parserVars
    BY <1>4 DEF parserVars, ParserTypeOK, RoomInv
  <1> QED
    BY <1>1, <1>2, <1>3, <1>4 DEF ParserNext

\* Types hold for ever, and the buffer outgrows its limit by less than a frame.
THEOREM ParserTypeCorrect == ParserSpec => []ParserTypeOK
  BY ParserTypeInit, ParserTypeNext, PTL DEF ParserSpec

-----------------------------------------------------------------------------
(* Frames arrive.                                                          *)

\* Of n bytes that have been read: the frames that have begun, and how much of
\* each has been read.
Begun(n) == {k \in 1..Frames : Offset(k) < n}
Length(k, n) == IF Offset(k) + FrameLength <= n THEN FrameLength ELSE n - Offset(k)

\* That much of frame k is in w in one piece, behind its first a bytes; a frame that
\* is not complete ends w.
At(w, n, k, a) ==
    /\ a + Length(k, n) <= Len(w)
    /\ \A j \in 1..Length(k, n) : w[a + j] = Byte(Offset(k) + j)
    /\ Length(k, n) < FrameLength => a + Length(k, n) = Len(w)

\* Nothing is there that has not been read, and pieces come in the order of frames.
WasRead(w, n) == \A i \in 1..Len(w) : Number(w[i]) <= n
Rising(w, n) ==
    \A k, l \in Begun(n), a, b \in Nat : At(w, n, k, a) /\ At(w, n, l, b) /\ a < b => k < l

\* What has come in since the parser thread has taken the buffer is the end of the
\* stream, and behind everything that has been taken.
Since(v, w, n) ==
    /\ Len(w) <= n
    /\ \A i \in 1..Len(w) : w[i] = Byte(n - Len(w) + i)
    /\ \A i \in 1..Len(v) : Number(v[i]) <= n - Len(w)

\* The numbers of a row of bytes.
LEMMA Numbered ==
    ASSUME NEW w \in Seq(Bytes)
    PROVE  Len(w) \in Nat /\ \A i \in 1..Len(w) : w[i] \in Bytes /\ Number(w[i]) \in Nat
  <1>1. \A i \in 1..Len(w) : w[i] \in Bytes
    OBVIOUS
  <1>2. ASSUME NEW b \in Bytes PROVE Number(b) \in Nat
    <2>1. b.frame \in 1..Frames /\ b.place \in 1..FrameLength /\ Frames \in Nat /\ FrameLength \in Nat
      BY LengthsAssumption DEF Bytes
    <2>2. Offset(b.frame) \in Nat
      <3>1. b.frame \in Nat \ {0}
        BY <2>1
      <3> QED
        BY <3>1, OffsetOrder
    <2>3. b.place \in Nat
      BY <2>1
    <2> QED
      BY <2>2, <2>3 DEF Number
  <1> QED
    BY <1>1, <1>2

\* What a piece is made of.
LEMMA Piece ==
    ASSUME NEW n \in 0..(Frames * FrameLength), NEW k \in Begun(n)
    PROVE  /\ k \in 1..Frames /\ Offset(k) \in Nat /\ Length(k, n) \in 1..FrameLength
           /\ Offset(k) + Length(k, n) <= n
           /\ Length(k, n) < FrameLength => Offset(k) + Length(k, n) = n
           /\ \A j \in 1..FrameLength :
                 /\ Offset(k) + j \in 1..(Frames * FrameLength)
                 /\ Number(Byte(Offset(k) + j)) = Offset(k) + j
                 /\ Byte(Offset(k) + j) = [frame |-> k, place |-> j]
  <1>1. FrameLength \in Nat /\ FrameLength > 0 /\ n \in Nat
    BY LengthsAssumption
  <1>2. k \in 1..Frames /\ Offset(k) < n
    BY DEF Begun
  <1>3. Offset(k) \in Nat
    BY <1>2, OffsetOrder
  <1>4. Length(k, n) \in 1..FrameLength /\ Offset(k) + Length(k, n) <= n
        /\ (Length(k, n) < FrameLength => Offset(k) + Length(k, n) = n)
    BY <1>1, <1>2, <1>3 DEF Length
  <1>5. \A j \in 1..FrameLength :
                 /\ Offset(k) + j \in 1..(Frames * FrameLength)
                 /\ Byte(Offset(k) + j) = [frame |-> k, place |-> j]
    BY <1>2, ByteOf
  <1>6. \A j \in 1..FrameLength : Number(Byte(Offset(k) + j)) = Offset(k) + j
    BY <1>5, ByteTyped
  <1> QED
    BY <1>2, <1>3, <1>4, <1>5, <1>6

\* A frame that is read on gets longer, or was complete.
LEMMA Longer ==
    ASSUME NEW n \in Nat, NEW more \in Nat \ {0}, NEW k \in Begun(n), n + more <= Frames * FrameLength
    PROVE  /\ k \in Begun(n + more) /\ Length(k, n) <= Length(k, n + more)
           /\ Length(k, n) = FrameLength => Length(k, n + more) = FrameLength
           /\ Length(k, n) < FrameLength => Length(k, n) < Length(k, n + more)
           /\ Offset(k) + Length(k, n + more) <= n + more
           /\ Length(k, n + more) \in 1..FrameLength
           /\ Length(k, n + more) < FrameLength => Offset(k) + Length(k, n + more) = n + more
  <1>1. FrameLength \in Nat /\ FrameLength > 0 /\ Frames * FrameLength \in Nat
    BY LengthsAssumption
  <1>2. k \in 1..Frames /\ Offset(k) < n
    BY DEF Begun
  <1>3. Offset(k) \in Nat
    BY <1>2, OffsetOrder
  <1>4. k \in Begun(n + more)
    BY <1>2, <1>3 DEF Begun
  <1> QED
    BY <1>1, <1>2, <1>3, <1>4 DEF Length

\* upload_data, with v taken and u in the buffer: of t, one behind the other, w is
\* left, without the first bytes of u and with more bytes of the stream.
Grows(v, u, dropped, n, more, t, w) ==
    /\ v \in Seq(Bytes) /\ u \in Seq(Bytes) /\ t \in Seq(Bytes) /\ w \in Seq(Bytes)
    /\ n \in Nat /\ more \in Nat \ {0} /\ n + more <= Frames * FrameLength
    /\ dropped \in 0..Len(u)
    /\ Len(t) = Len(v) + Len(u) /\ Len(w) = Len(v) + Len(u) - dropped + more
    /\ \A i \in 1..Len(v) : t[i] = v[i] /\ w[i] = v[i]
    /\ \A i \in 1..Len(u) : t[Len(v) + i] = u[i]
    /\ \A i \in 1..(Len(u) - dropped) : w[Len(v) + i] = u[dropped + i]
    /\ \A i \in 1..more : w[Len(v) + Len(u) - dropped + i] = Byte(n + i)
    /\ WasRead(t, n) /\ (v = <<>> \/ Since(v, u, n))

\* The same, by the places of t and w, and the numbers of the bytes.
LEMMA Growing ==
    ASSUME NEW v, NEW u, NEW dropped, NEW n, NEW more, NEW t, NEW w, Grows(v, u, dropped, n, more, t, w)
    PROVE  LET old == Len(v) + Len(u) - dropped IN
           /\ Len(v) \in Nat /\ Len(u) \in Nat /\ old \in Nat /\ dropped \in Nat /\ Len(v) <= old
           /\ Len(w) = old + more /\ Len(t) = old + dropped
           /\ \A i \in 1..Len(v) : w[i] = t[i]
           /\ \A i \in (Len(v) + 1)..old : w[i] = t[i + dropped]
           /\ \A i \in (old + 1)..(old + more) : w[i] = Byte(n + i - old) /\ Number(w[i]) = n + i - old
           /\ \A i \in 1..old : Number(w[i]) <= n
           /\ WasRead(w, n + more)
           /\ \A i \in 1..Len(w) : Number(w[i]) \in Nat
  <1> DEFINE old == Len(v) + Len(u) - dropped
  <1>1. /\ Len(v) \in Nat /\ Len(u) \in Nat /\ old \in Nat /\ dropped \in Nat /\ Len(v) <= old
        /\ Len(w) = old + more /\ Len(t) = old + dropped /\ n \in Nat /\ more \in Nat
    BY DEF Grows
  <1>2. \A i \in 1..Len(v) : w[i] = t[i]
    BY DEF Grows
  <1>3. ASSUME NEW i \in (Len(v) + 1)..old PROVE w[i] = t[i + dropped]
    <2>1. i - Len(v) \in 1..(Len(u) - dropped) /\ Len(v) + (i - Len(v)) = i
      BY <1>1
    <2>2. w[i] = u[dropped + (i - Len(v))]
      BY <2>1 DEF Grows
    <2>3. dropped + (i - Len(v)) \in 1..Len(u) /\ Len(v) + (dropped + (i - Len(v))) = i + dropped
      BY <1>1, <2>1
    <2> QED
      BY <2>2, <2>3 DEF Grows
  <1>4. ASSUME NEW i \in (old + 1)..(old + more) PROVE w[i] = Byte(n + i - old) /\ Number(w[i]) = n + i - old
    <2>1. i - old \in 1..more /\ old + (i - old) = i /\ n + (i - old) = n + i - old
      BY <1>1
    <2>2. w[i] = Byte(n + (i - old))
      BY <2>1 DEF Grows
    <2>3. n + (i - old) \in 1..(Frames * FrameLength)
      <3>1. n + more <= Frames * FrameLength /\ Frames * FrameLength \in Nat
        BY LengthsAssumption DEF Grows
      <3> QED
        BY <1>1, <2>1, <3>1
    <2>4. Number(Byte(n + (i - old))) = n + (i - old)
      BY <2>3, ByteTyped
    <2> HIDE DEF old
    <2> QED
      BY <2>1, <2>2, <2>4
  <1>5. ASSUME NEW i \in 1..old PROVE Number(w[i]) <= n
    <2>1. PICK p \in 1..Len(t) : w[i] = t[p]
      <3>1. CASE i \in 1..Len(v)
        BY <1>1, <1>2, <3>1
      <3>2. CASE i \in (Len(v) + 1)..old
        <4>1. i + dropped \in 1..Len(t)
          BY <1>1, <3>2
        <4> QED
          BY <1>3, <3>2, <4>1
      <3> QED
        BY <1>1, <3>1, <3>2
    <2> QED
      BY <2>1 DEF Grows, WasRead
  <1>6. ASSUME NEW i \in 1..Len(w) PROVE Number(w[i]) <= n + more
    <2>0. Number(w[i]) \in Nat
      BY Numbered DEF Grows
    <2>1. CASE i \in 1..old
      BY <1>1, <1>5, <2>0, <2>1
    <2>2. CASE i \in (old + 1)..(old + more)
      BY <1>1, <1>4, <2>2
    <2> QED
      BY <1>1, <2>1, <2>2
  <1>7. \A i \in 1..Len(w) : Number(w[i]) \in Nat
    BY Numbered DEF Grows
  <1> HIDE DEF old
  <1>8. old = Len(v) + Len(u) - dropped
    BY DEF old
  <1> QED
    BY <1>1, <1>2, <1>3, <1>4, <1>5, <1>6, <1>7, <1>8 DEF WasRead

\* Where a piece was before.
Before(v, dropped, a) == IF a < Len(v) THEN a ELSE a + dropped

\* A piece of a frame that had begun was there before, as far as it had been read.
LEMMA GrownFrom ==
    ASSUME NEW v, NEW u, NEW dropped, NEW n, NEW more, NEW t, NEW w, Grows(v, u, dropped, n, more, t, w),
           NEW k \in Begun(n), NEW a \in Nat, At(w, n + more, k, a)
    PROVE  At(t, n, k, Before(v, dropped, a)) /\ Before(v, dropped, a) \in Nat /\ a < Len(v) + Len(u) - dropped
  <1> DEFINE old == Len(v) + Len(u) - dropped
             m == Length(k, n)
             long == Length(k, n + more)
  <1>1. /\ n \in Nat /\ n \in 0..(Frames * FrameLength) /\ more \in Nat \ {0} /\ n + more <= Frames * FrameLength
        /\ FrameLength \in Nat /\ Frames * FrameLength \in Nat
    BY LengthsAssumption DEF Grows
  <1>2. /\ Offset(k) \in Nat /\ m \in 1..FrameLength /\ Offset(k) + m <= n
        /\ m < FrameLength => Offset(k) + m = n
        /\ \A j \in 1..FrameLength : Number(Byte(Offset(k) + j)) = Offset(k) + j
    BY <1>1, Piece
  <1>3. long \in 1..FrameLength /\ m <= long /\ (m < FrameLength => m < long)
    BY <1>1, Longer
  <1>4. a + long <= Len(w) /\ \A j \in 1..long : w[a + j] = Byte(Offset(k) + j)
    BY DEF At
  <1>5. /\ Len(v) \in Nat /\ Len(u) \in Nat /\ old \in Nat /\ dropped \in Nat /\ Len(v) <= old
        /\ Len(w) = old + more /\ Len(t) = old + dropped
        /\ \A i \in 1..Len(v) : w[i] = t[i]
        /\ \A i \in (Len(v) + 1)..old : w[i] = t[i + dropped]
        /\ \A i \in (old + 1)..(old + more) : Number(w[i]) = n + i - old
        /\ \A i \in 1..old : Number(w[i]) <= n
        /\ \A i \in 1..Len(w) : Number(w[i]) \in Nat
    BY Growing
  <1> HIDE DEF old, m, long
  <1>6. \A j \in 1..long : Number(w[a + j]) = Offset(k) + j
    BY <1>1, <1>2, <1>3, <1>4
  <1>7. a + m <= old
    <2> SUFFICES ASSUME a + m > old PROVE FALSE
      BY SMTT(30), <1>1, <1>2, <1>5
    <2>1. m \in 1..long /\ a + m \in (old + 1)..(old + more)
      BY <1>1, <1>2, <1>3, <1>4, <1>5
    <2>2. Offset(k) + m = n + (a + m) - old
      BY <1>5, <1>6, <2>1
    <2> QED
      BY <1>1, <1>2, <1>5, <2>1, <2>2
  <1>8. m < FrameLength => a + m = old
    <2>0. a \in Nat /\ m \in Nat /\ old \in Nat
      BY <1>1, <1>2, <1>5
    <2> SUFFICES ASSUME m < FrameLength, a + m < old PROVE FALSE
      BY <1>7, <2>0
    <2>1. m + 1 \in 1..long /\ a + (m + 1) \in 1..old
      <3>1. long \in Nat /\ m < long
        BY <1>1, <1>3
      <3> QED
        BY <2>0, <3>1
    <2>2. Number(w[a + (m + 1)]) = Offset(k) + (m + 1) /\ Number(w[a + (m + 1)]) <= n
      BY <1>5, <1>6, <2>1
    <2> QED
      BY <1>1, <1>2, <2>2
  <1>9. dropped = 0 \/ a >= Len(v) \/ (a + m <= Len(v) /\ m = FrameLength)
    <2> SUFFICES ASSUME dropped > 0, a < Len(v) PROVE a + m <= Len(v) /\ m = FrameLength
      BY <1>2, <1>5
    <2>1. Since(v, u, n)
      <3>1. v # <<>>
        BY <1>5
      <3> QED
        BY <3>1 DEF Grows
    <2>2. /\ \A i \in 1..Len(v) : Number(v[i]) <= n - Len(u)
          /\ \A i \in 1..Len(u) : u[i] = Byte(n - Len(u) + i)
          /\ Len(u) <= n
      BY <2>1 DEF Since
    <2>3. dropped <= Len(u)
      BY DEF Grows
    <2>4. \A i \in 1..Len(v) : Number(w[i]) < n
      <3>1. \A i \in 1..Len(v) : w[i] = v[i]
        BY DEF Grows
      <3> SUFFICES ASSUME NEW i \in 1..Len(v) PROVE Number(w[i]) < n
        OBVIOUS
      <3>2. Number(w[i]) <= n - Len(u) /\ Number(w[i]) \in Nat
        <4>1. i \in 1..Len(w)
          BY <1>1, <1>5
        <4>2. Number(w[i]) \in Nat
          BY <1>5, <4>1
        <4> QED
          BY <2>2, <3>1, <4>2
      <3> QED
        BY SMTT(30), <1>1, <1>5, <2>3, <3>2
    <2>5. a + m <= Len(v)
      <3> SUFFICES ASSUME a + m > Len(v) PROVE FALSE
        BY <1>2, <1>5
      <3> DEFINE j == Len(v) - a
      <3>1. j \in 1..long /\ j + 1 \in 1..long /\ a + j = Len(v) /\ a + (j + 1) = Len(v) + 1
        BY <1>2, <1>3, <1>5
      <3>2. Number(w[Len(v)]) = Offset(k) + j /\ Number(w[Len(v) + 1]) = Offset(k) + (j + 1)
        BY <1>6, <3>1
      <3>3. Len(v) + 1 \in (Len(v) + 1)..old /\ Len(v) \in 1..Len(v) /\ 1 \in 1..(Len(u) - dropped)
        BY <1>2, <1>5, <1>7 DEF old
      <3>4. w[Len(v) + 1] = u[dropped + 1] /\ dropped + 1 \in 1..Len(u)
        BY <1>5, <2>3, <3>3 DEF Grows
      <3>5. n - Len(u) + (dropped + 1) \in 1..(Frames * FrameLength)
        <4>1. dropped + 1 <= Len(u) /\ n <= Frames * FrameLength /\ Len(u) <= n
          BY <1>1, <2>2, <3>4
        <4>2. dropped \in Nat /\ Len(u) \in Nat /\ n \in Nat /\ Frames * FrameLength \in Nat
          BY <1>1, <1>5
        <4> QED
          BY <4>1, <4>2
      <3>6. Number(w[Len(v) + 1]) = n - Len(u) + (dropped + 1)
        BY <2>2, <3>4, <3>5, ByteTyped
      <3>7. Number(w[Len(v)]) <= n - Len(u)
        BY <2>2, <3>3 DEF Grows
      <3> HIDE DEF j
      <3>8. Offset(k) + (j + 1) = n - Len(u) + (dropped + 1) /\ Offset(k) + j <= n - Len(u)
        BY <3>2, <3>6, <3>7
      <3>9. j \in Nat /\ Offset(k) \in Nat /\ n \in Nat /\ Len(u) \in Nat /\ dropped \in Nat /\ dropped > 0
        BY <1>1, <1>2, <1>3, <1>5, <3>1
      <3> QED
        BY <3>8, <3>9
    <2>6. m = FrameLength
      <3> SUFFICES ASSUME m < FrameLength PROVE FALSE
        BY <1>1, <1>2
      <3>1. Number(w[a + m]) = n /\ a + m \in 1..Len(v)
        <4>1. m \in 1..long
          BY <1>2, <1>3
        <4>2. Number(w[a + m]) = Offset(k) + m
          BY <1>6, <4>1
        <4> QED
          BY <1>2, <1>5, <2>5, <4>2
      <3> QED
        BY <1>1, <2>4, <3>1
    <2> QED
      BY <2>5, <2>6
  <1>10. \A j \in 1..m : w[a + j] = t[Before(v, dropped, a) + j]
    <2> TAKE j \in 1..m
    <2>1. a + j \in 1..old
      BY <1>2, <1>5, <1>7
    <2>2. CASE a + j <= Len(v)
      <3>1. Before(v, dropped, a) = a /\ a + j \in 1..Len(v)
        BY <1>2, <1>5, <2>1, <2>2 DEF Before
      <3> QED
        BY <1>5, <3>1
    <2>3. CASE a + j > Len(v)
      <3>1. w[a + j] = t[(a + j) + dropped]
        <4>1. a + j \in (Len(v) + 1)..old
          BY <1>5, <2>1, <2>3
        <4> QED
          BY <1>5, <4>1
      <3>2. dropped = 0 \/ a >= Len(v)
        BY <1>2, <1>5, <1>9, <2>3
      <3>3. (a + j) + dropped = Before(v, dropped, a) + j
        BY <1>2, <1>5, <3>2 DEF Before
      <3> QED
        BY <3>1, <3>3
    <2>4. a + j \in Nat
      BY <2>1, <1>5
    <2> QED
      BY <1>5, <2>2, <2>3, <2>4
  <1>11. Before(v, dropped, a) \in Nat /\ Before(v, dropped, a) + m <= Len(t)
    BY <1>2, <1>5, <1>7, <1>9 DEF Before
  <1>12. m < FrameLength => Before(v, dropped, a) + m = Len(t)
    BY <1>2, <1>5, <1>8, <1>9 DEF Before
  <1>13. \A j \in 1..m : t[Before(v, dropped, a) + j] = Byte(Offset(k) + j)
    <2> TAKE j \in 1..m
    <2>1. j \in 1..long
      BY <1>2, <1>3
    <2> QED
      BY <1>4, <1>10, <2>1
  <1>14. a < old
    BY <1>2, <1>5, <1>7
  <1> QED
    BY <1>11, <1>12, <1>13, <1>14 DEF At, m, old

\* A piece of a frame that had begun is still there, and longer, or bytes of it have
\* been dropped.
LEMMA GrownForth ==
    ASSUME NEW v, NEW u, NEW dropped, NEW n, NEW more, NEW t, NEW w, Grows(v, u, dropped, n, more, t, w),
           NEW k \in Begun(n), NEW a \in Nat, At(t, n, k, a)
    PROVE  k \in FramesIn(SubSeq(u, 1, dropped)) \/ \E b \in Nat : At(w, n + more, k, b)
  <1> DEFINE old == Len(v) + Len(u) - dropped
             m == Length(k, n)
             long == Length(k, n + more)
  <1>1. /\ n \in Nat /\ n \in 0..(Frames * FrameLength) /\ more \in Nat \ {0} /\ n + more <= Frames * FrameLength
        /\ FrameLength \in Nat /\ Frames * FrameLength \in Nat
    BY LengthsAssumption DEF Grows
  <1>2. /\ Offset(k) \in Nat /\ m \in 1..FrameLength /\ Offset(k) + m <= n
        /\ m < FrameLength => Offset(k) + m = n
        /\ \A j \in 1..FrameLength : Byte(Offset(k) + j) = [frame |-> k, place |-> j]
    BY <1>1, Piece
  <1>3. /\ long \in 1..FrameLength /\ m <= long /\ (m < FrameLength => m < long)
        /\ m = FrameLength => long = FrameLength
        /\ Offset(k) + long <= n + more /\ (long < FrameLength => Offset(k) + long = n + more)
    BY <1>1, Longer
  <1>4. /\ a + m <= Len(t) /\ \A j \in 1..m : t[a + j] = Byte(Offset(k) + j)
        /\ m < FrameLength => a + m = Len(t)
    BY DEF At
  <1>5. /\ Len(v) \in Nat /\ Len(u) \in Nat /\ old \in Nat /\ dropped \in Nat /\ Len(v) <= old
        /\ Len(w) = old + more /\ Len(t) = old + dropped
        /\ \A i \in 1..Len(v) : w[i] = t[i]
        /\ \A i \in (Len(v) + 1)..old : w[i] = t[i + dropped]
        /\ \A i \in (old + 1)..(old + more) : w[i] = Byte(n + i - old)
    BY Growing
  <1>6. Len(t) = Len(v) + Len(u) /\ dropped \in 0..Len(u)
    BY DEF Grows
  <1> HIDE DEF old, m, long
  <1>7. m \in Nat /\ long \in Nat /\ more \in Nat
    BY <1>1, <1>2, <1>3
  <1>8. ASSUME dropped > 0, a + m > Len(v), a < Len(v) + dropped PROVE k \in FramesIn(SubSeq(u, 1, dropped))
    <2>1. PICK j \in 1..m : a + j - Len(v) \in 1..dropped
      <3>1. CASE a >= Len(v)
        <4>1. 1 \in 1..m /\ a + 1 - Len(v) \in 1..dropped
          BY <1>2, <1>5, <1>7, <1>8, <3>1
        <4> QED
          BY <4>1
      <3>2. CASE a < Len(v)
        <4>1. Len(v) + 1 - a \in 1..m /\ a + (Len(v) + 1 - a) - Len(v) \in 1..dropped
          BY <1>2, <1>5, <1>7, <1>8, <3>2
        <4> QED
          BY <4>1
      <3> QED
        BY <1>5, <3>1, <3>2
    <2> DEFINE i == a + j - Len(v)
    <2>2. i \in 1..dropped /\ i \in 1..Len(u) /\ Len(v) + i = a + j
      BY <1>5, <1>6, <1>7, <2>1
    <2> HIDE DEF i
    <2>3. u[i] = t[Len(v) + i]
      BY <2>2 DEF Grows
    <2>4. u[i].frame = k
      <3>1. u[i] = Byte(Offset(k) + j)
        BY <1>4, <2>2, <2>3
      <3>2. j \in 1..FrameLength
        BY <1>1, <1>2
      <3>3. Byte(Offset(k) + j) = [frame |-> k, place |-> j]
        BY <1>2, <3>2
      <3> QED
        BY <3>1, <3>3
    <2>5. Len(SubSeq(u, 1, dropped)) = dropped /\ SubSeq(u, 1, dropped)[i] = u[i]
      BY <1>6, <2>2, Left DEF Grows
    <2> QED
      BY <2>2, <2>4, <2>5 DEF FramesIn
  <1>9. ASSUME a + m <= Len(v), m = FrameLength PROVE At(w, n + more, k, a)
    <2>1. long = m /\ long = FrameLength
      BY <1>3, <1>9
    <2>2. a + long <= Len(w)
      BY <1>5, <1>7, <1>9, <2>1
    <2>3. ASSUME NEW j \in 1..long PROVE w[a + j] = Byte(Offset(k) + j)
      <3>1. a + j \in 1..Len(v) /\ j \in 1..m
        BY <1>5, <1>7, <1>9, <2>1
      <3> QED
        BY <1>4, <1>5, <3>1
    <2>4. ~(long < FrameLength)
      BY <1>1, <2>1
    <2> QED
      BY <2>2, <2>3, <2>4 DEF At, long
  <1>10. ASSUME dropped = 0 \/ a >= Len(v) + dropped PROVE a - dropped \in Nat /\ At(w, n + more, k, a - dropped)
    <2> DEFINE b == a - dropped
    <2>1. b \in Nat /\ b + dropped = a
      BY <1>5, <1>10
    <2>2. ASSUME NEW j \in 1..m PROVE w[b + j] = Byte(Offset(k) + j)
      <3>1. b + j \in 1..old /\ (b + j) + dropped = a + j
        BY <1>4, <1>5, <1>7, <2>1
      <3>2. w[b + j] = t[a + j]
        <4>1. CASE b + j <= Len(v)
          <5>1. dropped = 0 /\ b + j \in 1..Len(v) /\ b + j = a + j
            BY <1>5, <1>10, <2>1, <3>1, <4>1
          <5> QED
            BY <1>5, <5>1
        <4>2. CASE b + j > Len(v)
          <5>1. b + j \in (Len(v) + 1)..old
            BY <1>5, <3>1, <4>2
          <5> QED
            BY <1>5, <3>1, <5>1
        <4>3. b + j \in Nat
          BY <2>1
        <4> QED
          BY <1>5, <4>1, <4>2, <4>3
      <3> QED
        BY <1>4, <3>2
    <2>3. ASSUME m < FrameLength PROVE b + m = old /\ Offset(k) + m = n
      <3>1. a + m = Len(t)
        BY <1>4, <2>3
      <3> QED
        BY SMTT(30), <1>2, <1>5, <1>7, <2>1, <2>3, <3>1
    <2> HIDE DEF b
    <2>4. ASSUME NEW j \in (m + 1)..long PROVE w[b + j] = Byte(Offset(k) + j)
      <3>1. m < FrameLength
        BY <1>1, <1>3, <1>7
      <3>2. b + m = old /\ Offset(k) + m = n
        BY <2>3, <3>1
      <3>3. b + j \in (old + 1)..(old + more) /\ n + (b + j) - old = Offset(k) + j
        <4>1. n \in Nat /\ more \in Nat /\ Offset(k) \in Nat /\ m \in Nat /\ long \in Nat /\ old \in Nat /\ b \in Nat
          BY <1>1, <1>2, <1>5, <1>7, <2>1
        <4>2. Offset(k) + long <= n + more
          BY <1>3
        <4> QED
          BY <3>2, <4>1, <4>2
      <3> QED
        BY <1>5, <3>3
    <2>5. b + long <= Len(w) /\ (long < FrameLength => b + long = Len(w))
      <3>1. CASE m = FrameLength
        <4>1. long = m /\ b + m <= old
          BY SMTT(30), <1>3, <1>4, <1>5, <1>7, <2>1, <3>1
        <4> QED
          BY <1>1, <1>5, <1>7, <2>1, <3>1, <4>1
      <3>2. CASE m < FrameLength
        <4>1. b + m = old /\ Offset(k) + m = n
          BY <2>3, <3>2
        <4> QED
          BY SMTT(30), <1>1, <1>2, <1>3, <1>5, <1>7, <2>1, <4>1
      <3>3. m = FrameLength \/ m < FrameLength
        BY <1>1, <1>2
      <3> QED
        BY <3>1, <3>2, <3>3
    <2>6. ASSUME NEW j \in 1..long PROVE w[b + j] = Byte(Offset(k) + j)
      <3>1. j \in 1..m \/ j \in (m + 1)..long
        BY <1>7
      <3> QED
        BY <2>2, <2>4, <3>1
    <2> QED
      BY <2>1, <2>5, <2>6 DEF At, long, b
  <1>11. \/ dropped > 0 /\ a + m > Len(v) /\ a < Len(v) + dropped
         \/ a + m <= Len(v) /\ m = FrameLength
         \/ dropped = 0 \/ a >= Len(v) + dropped
    <2>1. m = FrameLength \/ m < FrameLength
      BY <1>1, <1>2
    <2>2. m < FrameLength => a + m = Len(v) + Len(u)
      BY <1>4, <1>6
    <2> QED
      BY <1>5, <1>6, <1>7, <2>1, <2>2
  <1> QED
    BY <1>8, <1>9, <1>10, <1>11

\* A frame that has begun since is where its bytes have come in, and nowhere else.
LEMMA GrownNew ==
    ASSUME NEW v, NEW u, NEW dropped, NEW n, NEW more, NEW t, NEW w, Grows(v, u, dropped, n, more, t, w),
           NEW k \in Begun(n + more) \ Begun(n)
    PROVE  LET old == Len(v) + Len(u) - dropped
               place == old + Offset(k) - n
           IN  /\ old \in Nat /\ Offset(k) \in Nat /\ Offset(k) >= n /\ place \in Nat
               /\ At(w, n + more, k, place)
               /\ \A a \in Nat : At(w, n + more, k, a) => a = place
  <1> DEFINE old == Len(v) + Len(u) - dropped
             long == Length(k, n + more)
             place == old + Offset(k) - n
  <1>1. /\ n \in Nat /\ more \in Nat \ {0} /\ n + more <= Frames * FrameLength
        /\ n + more \in 0..(Frames * FrameLength)
        /\ FrameLength \in Nat /\ Frames * FrameLength \in Nat
    BY LengthsAssumption DEF Grows
  <1>2. /\ k \in 1..Frames /\ Offset(k) \in Nat /\ long \in 1..FrameLength /\ Offset(k) + long <= n + more
        /\ long < FrameLength => Offset(k) + long = n + more
        /\ \A j \in 1..FrameLength : Number(Byte(Offset(k) + j)) = Offset(k) + j
    BY <1>1, Piece
  <1>3. Offset(k) >= n
    BY <1>1, <1>2 DEF Begun
  <1>4. /\ Len(v) \in Nat /\ Len(u) \in Nat /\ old \in Nat /\ dropped \in Nat /\ Len(v) <= old
        /\ Len(w) = old + more
        /\ \A i \in (old + 1)..(old + more) : w[i] = Byte(n + i - old) /\ Number(w[i]) = n + i - old
        /\ \A i \in 1..old : Number(w[i]) <= n
    BY Growing
  <1> HIDE DEF old, long
  <1>5. place \in Nat /\ place - old = Offset(k) - n
    BY SMTT(30), <1>1, <1>2, <1>3, <1>4
  <1>s. /\ n \in Nat /\ more \in Nat /\ Offset(k) \in Nat /\ long \in Nat /\ long > 0 /\ old \in Nat
        /\ Offset(k) + long <= n + more /\ Len(w) = old + more /\ Offset(k) >= n
        /\ long < FrameLength => Offset(k) + long = n + more
    BY <1>1, <1>2, <1>3, <1>4
  <1>6. At(w, n + more, k, place)
    <2>1. ASSUME NEW j \in 1..long PROVE w[place + j] = Byte(Offset(k) + j)
      <3>1. place + j \in (old + 1)..(old + more) /\ n + (place + j) - old = Offset(k) + j
        <4>1. j \in Nat /\ j > 0 /\ Offset(k) + j <= n + more
          BY <1>s
        <4>2. n \in Nat /\ more \in Nat /\ Offset(k) \in Nat /\ old \in Nat /\ Offset(k) >= n
          BY <1>s
        <4> HIDE DEF place
        <4>3. place \in Nat /\ place - old = Offset(k) - n
          BY <1>5
        <4> QED
          BY <4>1, <4>2, <4>3
      <3> QED
        BY <1>4, <3>1
    <2>2. place + long <= Len(w) /\ (long < FrameLength => place + long = Len(w))
      BY <1>s, <1>5
    <2> HIDE DEF place
    <2> QED
      BY <2>1, <2>2 DEF At, long
  <1>7. ASSUME NEW a \in Nat, At(w, n + more, k, a) PROVE a = place
    <2>1. a + long <= Len(w) /\ 1 \in 1..long /\ w[a + 1] = Byte(Offset(k) + 1)
      BY <1>2, <1>7 DEF At, long
    <2>2. Number(w[a + 1]) = Offset(k) + 1
      <3>1. 1 \in 1..FrameLength
        BY <1>1, <1>2
      <3>2. Number(Byte(Offset(k) + 1)) = Offset(k) + 1
        BY <1>2, <3>1
      <3> QED
        BY <2>1, <3>2
    <2>3. a + 1 \notin 1..old
      <3> SUFFICES ASSUME a + 1 \in 1..old PROVE FALSE
        OBVIOUS
      <3>1. Offset(k) + 1 <= n
        BY <1>4, <2>2
      <3> QED
        BY <1>1, <1>2, <1>3, <3>1
    <2>4. a + 1 \in (old + 1)..(old + more)
      BY <1>1, <1>2, <1>4, <2>1, <2>3
    <2>5. Offset(k) + 1 = n + (a + 1) - old
      BY <1>4, <2>2, <2>4
    <2> QED
      BY SMTT(30), <1>s, <2>5
  <1> QED
    BY <1>2, <1>3, <1>4, <1>5, <1>6, <1>7 DEF old

\* Everything that has been read has arrived: the pieces in w come in the order of
\* their frames, and behind all frames that have been handed on; and every frame has
\* been handed on, is there, or is excused.
Arrived(w, n, done, ex) ==
    /\ WasRead(w, n) /\ Rising(w, n) /\ Increasing(done)
    /\ \A x \in 1..Len(done) : Offset(done[x]) + FrameLength <= n
    /\ \A k \in Begun(n), a \in Nat, x \in 1..Len(done) : At(w, n, k, a) => done[x] < k
    /\ \A k \in Begun(n) :
          k \in ex \/ (\E x \in 1..Len(done) : done[x] = k) \/ \E a \in Nat : At(w, n, k, a)

LEMMA GrownRising ==
    ASSUME NEW v, NEW u, NEW dropped, NEW n, NEW more, NEW t, NEW w, Grows(v, u, dropped, n, more, t, w),
           Rising(t, n)
    PROVE  Rising(w, n + more)
  <1> DEFINE old == Len(v) + Len(u) - dropped
  <1>0. old \in Nat /\ n \in Nat /\ Len(v) \in Nat /\ dropped \in Nat
    BY Growing DEF Grows
  <1> SUFFICES ASSUME NEW k \in Begun(n + more), NEW l \in Begun(n + more), NEW a \in Nat, NEW b \in Nat,
                      At(w, n + more, k, a), At(w, n + more, l, b), a < b
               PROVE  k < l
    BY DEF Rising
  <1>1. k \in Nat \ {0} /\ l \in Nat \ {0}
    BY LengthsAssumption DEF Begun
  <1>2. Offset(k) \in Nat /\ Offset(l) \in Nat /\ (Offset(k) < Offset(l) => k < l)
    BY <1>1, OffsetOrder
  <1> HIDE DEF old
  <1>3. CASE k \in Begun(n) /\ l \in Begun(n)
    <2>1. /\ At(t, n, k, Before(v, dropped, a)) /\ Before(v, dropped, a) \in Nat
          /\ At(t, n, l, Before(v, dropped, b)) /\ Before(v, dropped, b) \in Nat
      BY <1>3, GrownFrom
    <2>2. Before(v, dropped, a) < Before(v, dropped, b)
      BY <1>0 DEF Before
    <2> QED
      BY <1>3, <2>1, <2>2 DEF Rising
  <1>4. CASE k \in Begun(n) /\ l \notin Begun(n)
    <2>1. Offset(k) < n
      BY <1>4 DEF Begun
    <2>2. Offset(l) >= n
      BY <1>4, GrownNew
    <2> QED
      BY <1>0, <1>2, <2>1, <2>2
  <1>5. CASE k \notin Begun(n) /\ l \in Begun(n)
    <2>1. b < old
      BY <1>5, GrownFrom DEF old
    <2>2. a = old + Offset(k) - n /\ Offset(k) >= n
      BY <1>5, GrownNew DEF old
    <2> QED
      BY <1>0, <1>2, <2>1, <2>2
  <1>6. CASE k \notin Begun(n) /\ l \notin Begun(n)
    <2>1. a = old + Offset(k) - n
      BY <1>6, GrownNew DEF old
    <2>2. b = old + Offset(l) - n
      BY <1>6, GrownNew DEF old
    <2> QED
      BY <1>0, <1>2, <2>1, <2>2
  <1> QED
    BY <1>3, <1>4, <1>5, <1>6

LEMMA GrownArrived ==
    ASSUME NEW v, NEW u, NEW dropped, NEW n, NEW more, NEW t, NEW w, Grows(v, u, dropped, n, more, t, w),
           NEW done \in Seq(1..Frames), NEW ex, NEW ex2, ex \subseteq ex2, FramesIn(SubSeq(u, 1, dropped)) \subseteq ex2,
           Arrived(t, n, done, ex)
    PROVE  Arrived(w, n + more, done, ex2)
  <1>0. /\ n \in Nat /\ more \in Nat \ {0} /\ n + more \in Nat /\ FrameLength \in Nat
        /\ n + more <= Frames * FrameLength /\ Frames \in Nat
    BY LengthsAssumption DEF Grows
  <1>1. WasRead(w, n + more) /\ Rising(w, n + more)
    BY GrownRising, Growing DEF Arrived
  <1>2. \A x \in 1..Len(done) : /\ done[x] \in Nat \ {0} /\ Offset(done[x]) \in Nat
                                /\ Offset(done[x]) + FrameLength <= n
    <2> SUFFICES ASSUME NEW x \in 1..Len(done)
                 PROVE  done[x] \in Nat \ {0} /\ Offset(done[x]) \in Nat /\ Offset(done[x]) + FrameLength <= n
      OBVIOUS
    <2>1. done[x] \in Nat \ {0}
      BY <1>0
    <2>2. Offset(done[x]) \in Nat
      BY <2>1, OffsetOrder
    <2> QED
      BY <2>1, <2>2 DEF Arrived
  <1>3. \A x \in 1..Len(done) : Offset(done[x]) + FrameLength <= n + more
    BY <1>0, <1>2
  <1>4. ASSUME NEW k \in Begun(n + more), NEW a \in Nat, NEW x \in 1..Len(done), At(w, n + more, k, a)
        PROVE  done[x] < k
    <2>1. CASE k \in Begun(n)
      <3>1. At(t, n, k, Before(v, dropped, a)) /\ Before(v, dropped, a) \in Nat
        BY <1>4, <2>1, GrownFrom
      <3> QED
        BY <2>1, <3>1 DEF Arrived
    <2>2. CASE k \notin Begun(n)
      <3>1. Offset(k) >= n /\ Offset(k) \in Nat
        BY <2>2, GrownNew
      <3>2. k \in Nat \ {0} /\ done[x] \in Nat \ {0}
        BY <1>0, <1>2 DEF Begun
      <3>3. FrameLength > 0
        BY LengthsAssumption
      <3>4. Offset(done[x]) < Offset(k)
        BY <1>0, <1>2, <3>1, <3>3
      <3> QED
        BY <3>2, <3>4, OffsetOrder
    <2> QED
      BY <2>1, <2>2
  <1>5. ASSUME NEW k \in Begun(n + more)
        PROVE  k \in ex2 \/ (\E x \in 1..Len(done) : done[x] = k) \/ \E a \in Nat : At(w, n + more, k, a)
    <2>1. CASE k \in Begun(n)
      <3>1. k \in ex \/ (\E x \in 1..Len(done) : done[x] = k) \/ \E a \in Nat : At(t, n, k, a)
        BY <2>1 DEF Arrived
      <3>2. ASSUME NEW a \in Nat, At(t, n, k, a) PROVE k \in ex2 \/ \E b \in Nat : At(w, n + more, k, b)
        BY <2>1, <3>2, GrownForth
      <3> QED
        BY <3>1, <3>2
    <2>2. CASE k \notin Begun(n)
      BY <2>2, GrownNew
    <2> QED
      BY <2>1, <2>2
  <1> QED
    BY <1>1, <1>3, <1>4, <1>5 DEF Arrived

LEMMA GrownSince ==
    ASSUME NEW v \in Seq(Bytes), NEW u \in Seq(Bytes), NEW w \in Seq(Bytes), NEW n \in Nat, NEW more \in Nat,
           NEW dropped \in 0..Len(u), Since(v, u, n), Len(w) = Len(u) - dropped + more,
           \A i \in 1..(Len(u) - dropped) : w[i] = u[dropped + i],
           \A i \in 1..more : w[Len(u) - dropped + i] = Byte(n + i)
    PROVE  Since(v, w, n + more)
  <1>0. Len(u) \in Nat /\ Len(u) <= n /\ Len(w) \in Nat /\ dropped \in Nat
    BY DEF Since
  <1>1. Len(w) <= n + more /\ n + more - Len(w) = n - Len(u) + dropped
    BY <1>0
  <1>2. ASSUME NEW i \in 1..Len(w) PROVE w[i] = Byte(n + more - Len(w) + i)
    <2>1. CASE i <= Len(u) - dropped
      <3>1. i \in 1..(Len(u) - dropped) /\ dropped + i \in 1..Len(u)
        BY <1>0, <2>1
      <3>2. w[i] = Byte(n - Len(u) + (dropped + i))
        BY <3>1 DEF Since
      <3>3. n - Len(u) + (dropped + i) = n + more - Len(w) + i
        BY <1>0
      <3> QED
        BY <3>2, <3>3
    <2>2. CASE i > Len(u) - dropped
      <3>1. PICK h \in 1..more : h = i - Len(u) + dropped
        <4>1. i - Len(u) + dropped \in 1..more
          BY <1>0, <2>2
        <4> QED
          BY <4>1
      <3>2. Len(u) - dropped + h = i /\ n + h = n + more - Len(w) + i
        BY <1>0, <1>1, <3>1
      <3> QED
        BY <3>1, <3>2
    <2> QED
      BY <1>0, <2>1, <2>2
  <1>3. ASSUME NEW i \in 1..Len(v) PROVE Number(v[i]) <= n + more - Len(w)
    <2>1. Number(v[i]) \in Nat
      BY Numbered
    <2>2. Number(v[i]) <= n - Len(u)
      BY DEF Since
    <2> QED
      BY <1>0, <1>1, <2>1, <2>2
  <1> QED
    BY <1>1, <1>2, <1>3 DEF Since

\* process_rtcm_buffer, with v taken and u in the buffer: of t, one behind the other,
\* w is left, the rest of v behind u.
Puts(v, u, n, t, w) ==
    /\ v \in Seq(Bytes) /\ u \in Seq(Bytes) /\ t \in Seq(Bytes) /\ w \in Seq(Bytes)
    /\ n \in 0..(Frames * FrameLength)
    /\ Len(t) = Len(v) + Len(u) /\ Len(w) = Len(u) + Len(Remaining(v))
    /\ \A i \in 1..Len(v) : t[i] = v[i]
    /\ \A i \in 1..Len(u) : t[Len(v) + i] = u[i] /\ w[i] = u[i]
    /\ \A i \in 1..Len(Remaining(v)) : w[Len(u) + i] = Remaining(v)[i]
    /\ WasRead(t, n) /\ Since(v, u, n)

\* The same, by the places of t and w, and the numbers of the bytes.
LEMMA Putting ==
    ASSUME NEW v, NEW u, NEW n, NEW t, NEW w, Puts(v, u, n, t, w)
    PROVE  LET next == Extract(v).next IN
           /\ next \in 1..(Len(v) + 1) /\ Len(v) + 1 - next < FrameLength
           /\ Len(v) \in Nat /\ Len(u) \in Nat /\ n \in Nat /\ Len(u) <= n
           /\ Len(t) = Len(v) + Len(u) /\ Len(w) = Len(u) + (Len(v) + 1 - next)
           /\ \A i \in 1..Len(v) : t[i] = v[i]
           /\ \A i \in 1..Len(u) : w[i] = t[Len(v) + i] /\ w[i] = u[i] /\ Number(w[i]) = n - Len(u) + i
           /\ \A i \in 1..(Len(v) + 1 - next) :
                 i + next - 1 \in 1..Len(v) /\ w[Len(u) + i] = t[i + next - 1]
           /\ \A i \in (Len(u) + 1)..Len(w) : Number(w[i]) \in Nat /\ Number(w[i]) <= n - Len(u)
           /\ WasRead(w, n)
  <1> DEFINE next == Extract(v).next
  <1>1. /\ next \in 1..(Len(v) + 1) /\ Len(Remaining(v)) = Len(v) + 1 - next /\ Len(Remaining(v)) < FrameLength
        /\ \A i \in 1..Len(Remaining(v)) : i + next - 1 \in 1..Len(v) /\ Remaining(v)[i] = v[i + next - 1]
    BY Rest DEF Puts
  <1> HIDE DEF next
  <1>2. /\ Len(v) \in Nat /\ Len(u) \in Nat /\ n \in Nat /\ Len(u) <= n /\ Frames * FrameLength \in Nat
        /\ n <= Frames * FrameLength
        /\ Len(t) = Len(v) + Len(u) /\ Len(w) = Len(u) + (Len(v) + 1 - next) /\ Len(w) \in Nat
    BY <1>1, LengthsAssumption DEF Puts, Since
  <1>3. \A i \in 1..Len(v) : t[i] = v[i]
    BY DEF Puts
  <1>4. ASSUME NEW i \in 1..Len(u)
        PROVE  w[i] = t[Len(v) + i] /\ w[i] = u[i] /\ Number(w[i]) = n - Len(u) + i
    <2>1. w[i] = t[Len(v) + i] /\ w[i] = u[i]
      BY DEF Puts
    <2>2. u[i] = Byte(n - Len(u) + i)
      BY DEF Puts, Since
    <2>3. n - Len(u) + i \in 1..(Frames * FrameLength)
      BY <1>2
    <2> QED
      BY <2>1, <2>2, <2>3, ByteTyped
  <1>5. ASSUME NEW i \in 1..(Len(v) + 1 - next)
        PROVE  i + next - 1 \in 1..Len(v) /\ w[Len(u) + i] = t[i + next - 1]
    <2>1. i + next - 1 \in 1..Len(v) /\ Remaining(v)[i] = v[i + next - 1]
      BY <1>1
    <2>2. w[Len(u) + i] = Remaining(v)[i]
      BY <1>1 DEF Puts
    <2> QED
      BY <1>3, <2>1, <2>2
  <1>6. ASSUME NEW i \in (Len(u) + 1)..Len(w) PROVE Number(w[i]) \in Nat /\ Number(w[i]) <= n - Len(u)
    <2> DEFINE h == i - Len(u)
    <2>1. h \in 1..(Len(v) + 1 - next) /\ Len(u) + h = i
      BY <1>1, <1>2
    <2> HIDE DEF h
    <2>2. h + next - 1 \in 1..Len(v) /\ w[i] = v[h + next - 1]
      BY <1>3, <1>5, <2>1
    <2>3. Number(w[i]) <= n - Len(u)
      BY <2>2 DEF Puts, Since
    <2>4. Number(w[i]) \in Nat
      BY <2>2, Numbered DEF Puts
    <2> QED
      BY <2>3, <2>4
  <1>7. ASSUME NEW i \in 1..Len(w) PROVE Number(w[i]) <= n
    <2>1. CASE i <= Len(u)
      BY <1>2, <1>4, <2>1
    <2>2. CASE i > Len(u)
      BY <1>2, <1>6, <2>2
    <2> QED
      BY <1>2, <2>1, <2>2
  <1> QED
    BY <1>1, <1>2, <1>3, <1>4, <1>5, <1>6, <1>7 DEF next, WasRead

\* A whole frame in v is a complete piece, and the other way round.
LEMMA FramedPiece ==
    ASSUME NEW v, NEW u, NEW n, NEW t, NEW w, Puts(v, u, n, t, w), NEW i \in 1..Len(v), Framed(v, i)
    PROVE  /\ v[i].frame \in Begun(n) /\ Length(v[i].frame, n) = FrameLength
           /\ Offset(v[i].frame) + FrameLength <= n
           /\ At(t, n, v[i].frame, i - 1) /\ i - 1 \in Nat
  <1> DEFINE k == v[i].frame
  <1>1. /\ FrameLength \in Nat /\ FrameLength > 0 /\ n \in Nat /\ Len(v) \in Nat /\ Len(u) \in Nat
        /\ Len(t) = Len(v) + Len(u)
        /\ \A h \in 1..Len(v) : t[h] = v[h]
    BY LengthsAssumption, Putting
  <1>2. k \in 1..Frames /\ k \in Nat \ {0}
    <2>1. v[i] \in Bytes
      BY DEF Puts
    <2>2. k \in 1..Frames
      BY <2>1 DEF Bytes
    <2> QED
      BY <2>2, LengthsAssumption
  <1>3. i + FrameLength - 1 <= Len(v) /\ \A j \in 1..FrameLength : v[i + j - 1] = [frame |-> k, place |-> j]
    BY DEF Framed, Fits, Whole
  <1>4. Offset(k) \in Nat
    BY <1>2, OffsetOrder
  <1> HIDE DEF k
  <1>5. ASSUME NEW j \in 1..FrameLength PROVE t[(i - 1) + j] = Byte(Offset(k) + j) /\ (i - 1) + j \in 1..Len(t)
    <2>1. i + j - 1 \in 1..Len(v) /\ (i - 1) + j = i + j - 1
      BY <1>1, <1>3
    <2>2. Byte(Offset(k) + j) = [frame |-> k, place |-> j]
      BY <1>2, ByteOf
    <2> QED
      BY <1>1, <1>3, <2>1, <2>2
  <1>6. Offset(k) + FrameLength <= n
    <2>1. FrameLength \in 1..FrameLength
      BY <1>1
    <2>2. Number(t[(i - 1) + FrameLength]) <= n
      BY <1>5, <2>1 DEF Puts, WasRead
    <2>3. Number(Byte(Offset(k) + FrameLength)) = Offset(k) + FrameLength
      BY <1>2, <2>1, ByteOf, ByteTyped
    <2> QED
      BY <1>5, <2>1, <2>2, <2>3
  <1>7. k \in Begun(n) /\ Length(k, n) = FrameLength
    BY <1>1, <1>2, <1>4, <1>6 DEF Begun, Length
  <1>8. At(t, n, k, i - 1)
    <2>1. (i - 1) + FrameLength <= Len(t)
      BY <1>1, <1>3
    <2> QED
      BY <1>1, <1>5, <1>7, <2>1 DEF At
  <1> QED
    BY <1>6, <1>7, <1>8 DEF k

LEMMA PieceFramed ==
    ASSUME NEW v, NEW u, NEW n, NEW t, NEW w, Puts(v, u, n, t, w),
           NEW k \in Begun(n), NEW a \in Nat, At(t, n, k, a), a < Len(v)
    PROVE  /\ a + 1 \in 1..Len(v) /\ v[a + 1].place = 1 /\ v[a + 1].frame = k
           /\ Length(k, n) = FrameLength /\ a + FrameLength <= Len(v) => Framed(v, a + 1)
  <1>1. /\ FrameLength \in Nat /\ FrameLength > 0 /\ n \in Nat /\ Len(v) \in Nat
        /\ \A h \in 1..Len(v) : t[h] = v[h]
    BY LengthsAssumption, Putting
  <1>2. /\ Length(k, n) \in 1..FrameLength
        /\ \A j \in 1..FrameLength : Byte(Offset(k) + j) = [frame |-> k, place |-> j]
    BY Piece DEF Puts
  <1>3. \A j \in 1..Length(k, n) : t[a + j] = Byte(Offset(k) + j)
    BY DEF At
  <1>4. \A j \in 1..Length(k, n) : a + j <= Len(v) => v[a + j] = [frame |-> k, place |-> j]
    <2> SUFFICES ASSUME NEW j \in 1..Length(k, n), a + j <= Len(v) PROVE v[a + j] = [frame |-> k, place |-> j]
      OBVIOUS
    <2>1. a + j \in 1..Len(v) /\ j \in 1..FrameLength
      BY <1>1, <1>2
    <2> QED
      BY <1>1, <1>2, <1>3, <2>1
  <1>5. 1 \in 1..Length(k, n) /\ a + 1 \in 1..Len(v)
    BY <1>1, <1>2
  <1>6. v[a + 1] = [frame |-> k, place |-> 1]
    BY <1>4, <1>5
  <1>7. ASSUME Length(k, n) = FrameLength, a + FrameLength <= Len(v) PROVE Framed(v, a + 1)
    <2>1. Fits(v, a + 1)
      BY <1>1, <1>7 DEF Fits
    <2>2. ASSUME NEW j \in 1..FrameLength PROVE v[(a + 1) + j - 1] = [frame |-> k, place |-> j]
      <3>1. (a + 1) + j - 1 = a + j /\ a + j <= Len(v)
        BY <1>1, <1>7
      <3> QED
        BY <1>4, <1>7, <3>1
    <2> QED
      BY <1>6, <2>1, <2>2 DEF Framed, Whole
  <1> QED
    BY <1>5, <1>6, <1>7

\* Where a piece of what is left was before.
Origin(v, u, b) == IF u = <<>> THEN b + Extract(v).next - 1 ELSE Len(v) + b

\* A piece of what is left was there before, and behind what has been cut out.
LEMMA PutFrom ==
    ASSUME NEW v, NEW u, NEW n, NEW t, NEW w, Puts(v, u, n, t, w),
           NEW k \in Begun(n), NEW b \in Nat, At(w, n, k, b)
    PROVE  /\ At(t, n, k, Origin(v, u, b)) /\ Origin(v, u, b) \in Nat
           /\ Origin(v, u, b) >= Extract(v).next - 1
  <1> DEFINE next == Extract(v).next
             m == Length(k, n)
  <1>1. /\ next \in 1..(Len(v) + 1) /\ Len(v) + 1 - next < FrameLength
        /\ Len(v) \in Nat /\ Len(u) \in Nat /\ n \in Nat /\ Len(u) <= n
        /\ Len(t) = Len(v) + Len(u) /\ Len(w) = Len(u) + (Len(v) + 1 - next)
        /\ \A i \in 1..Len(u) : w[i] = t[Len(v) + i] /\ Number(w[i]) = n - Len(u) + i
        /\ \A i \in 1..(Len(v) + 1 - next) :
                 i + next - 1 \in 1..Len(v) /\ w[Len(u) + i] = t[i + next - 1]
        /\ \A i \in (Len(u) + 1)..Len(w) : Number(w[i]) \in Nat /\ Number(w[i]) <= n - Len(u)
    BY SMTT(30), Putting
  <1>2. /\ Offset(k) \in Nat /\ m \in 1..FrameLength /\ Offset(k) + m <= n /\ FrameLength \in Nat
        /\ m < FrameLength => Offset(k) + m = n
        /\ \A j \in 1..FrameLength : Number(Byte(Offset(k) + j)) = Offset(k) + j
    BY Piece, LengthsAssumption DEF Puts
  <1>3. /\ b + m <= Len(w) /\ \A j \in 1..m : w[b + j] = Byte(Offset(k) + j)
        /\ m < FrameLength => b + m = Len(w)
    BY DEF At
  <1> HIDE DEF next, m
  <1>s. /\ next \in 1..(Len(v) + 1) /\ Len(v) + 1 - next < FrameLength
        /\ Len(v) \in Nat /\ Len(u) \in Nat /\ n \in Nat /\ Len(u) <= n /\ m \in Nat /\ m > 0 /\ m <= FrameLength
        /\ Len(t) = Len(v) + Len(u) /\ Len(w) = Len(u) + (Len(v) + 1 - next)
        /\ Offset(k) \in Nat /\ Offset(k) + m <= n /\ FrameLength \in Nat /\ (m < FrameLength => Offset(k) + m = n)
        /\ b + m <= Len(w) /\ (m < FrameLength => b + m = Len(w))
    BY <1>1, <1>2, <1>3
  <1>4. \A j \in 1..m : Number(w[b + j]) = Offset(k) + j
    <2> SUFFICES ASSUME NEW j \in 1..m PROVE Number(w[b + j]) = Offset(k) + j
      OBVIOUS
    <2>1. j \in 1..FrameLength
      BY <1>2
    <2> QED
      BY <1>2, <1>3, <2>1
  <1>5. CASE u = <<>>
    <2>1. Len(u) = 0
      BY <1>5
    <2> DEFINE a == b + next - 1
    <2>2. a \in Nat /\ a >= next - 1
      BY <1>1
    <2>3. a + m <= Len(t) /\ (m < FrameLength => a + m = Len(t))
      BY <1>s, <2>1
    <2>4. ASSUME NEW j \in 1..m PROVE t[a + j] = Byte(Offset(k) + j)
      <3>1. b + j \in 1..(Len(v) + 1 - next) /\ (b + j) + next - 1 = a + j
        BY <1>s, <2>1
      <3>2. w[Len(u) + (b + j)] = t[(b + j) + next - 1]
        BY <1>1, <3>1
      <3>3. Len(u) + (b + j) = b + j
        BY <2>1
      <3> HIDE DEF a
      <3> QED
        BY <1>3, <3>1, <3>2, <3>3
    <2>5. At(t, n, k, a)
      BY <2>3, <2>4 DEF At, m
    <2> QED
      BY <1>5, <2>2, <2>5 DEF Origin, next
  <1>6. CASE u # <<>>
    <2>1. Len(u) > 0
      <3>1. u \in Seq(Bytes)
        BY DEF Puts
      <3> QED
        BY <1>6, <3>1
    <2>2. b + m <= Len(u)
      <3> SUFFICES ASSUME b + m > Len(u) PROVE FALSE
        BY <1>1, <1>2
      <3>1. Offset(k) + m <= n - Len(u)
        <4>1. b + m \in (Len(u) + 1)..Len(w) /\ m \in 1..m
          BY <1>s
        <4>2. Number(w[b + m]) = Offset(k) + m /\ Number(w[b + m]) <= n - Len(u)
          BY <1>1, <1>4, <4>1
        <4> QED
          BY <4>2
      <3>2. m = FrameLength
        BY <1>s, <2>1, <3>1
      <3>3. b < Len(u)
        BY <1>s, <3>2
      <3>4. PICK j \in 1..m : b + j = Len(u) /\ j < m
        <4>1. Len(u) - b \in 1..m /\ b + (Len(u) - b) = Len(u) /\ Len(u) - b < m
          BY SMTT(30), <1>s, <3>3
        <4> QED
          BY <4>1
      <3>5. Len(u) \in 1..Len(u)
        BY <1>1, <2>1
      <3>6. Number(w[Len(u)]) = n - Len(u) + Len(u)
        BY <1>1, <3>5
      <3>7. Number(w[Len(u)]) = Offset(k) + j
        BY <1>4, <3>4
      <3>8. Offset(k) + j = n
        BY <1>1, <3>6, <3>7
      <3>9. j \in Nat
        BY <3>4
      <3>10. n < Offset(k) + m
        <4>1. Offset(k) \in Nat /\ m \in Nat /\ n \in Nat
          BY <1>s
        <4> QED
          BY <3>4, <3>8, <3>9, <4>1
      <3>11. Offset(k) + m \in Nat /\ n \in Nat /\ Len(u) \in Nat
        BY SMTT(30), <1>s
      <3> QED
        BY <3>1, <3>10, <3>11
    <2> DEFINE a == Len(v) + b
    <2>3. a \in Nat /\ a >= next - 1
      BY <1>1
    <2>4. a + m <= Len(t) /\ (m < FrameLength => a + m = Len(t))
      <3>1. a + m <= Len(t)
        BY <1>s, <2>2
      <3>2. m < FrameLength => b + m = Len(u)
        <4>1. Len(u) <= Len(w) /\ b + m \in Nat /\ Len(w) \in Nat
          BY <1>s
        <4> QED
          BY <1>s, <2>2, <4>1
      <3>3. b + m = Len(u) => a + m = Len(t)
        <4>1. a + m = Len(v) + (b + m)
          <5>1. Len(v) \in Nat /\ m \in Nat
            BY <1>s
          <5> QED
            BY <5>1
        <4>2. Len(t) = Len(v) + Len(u)
          BY <1>s
        <4> HIDE DEF a
        <4> QED
          BY <4>1, <4>2
      <3> QED
        BY <3>1, <3>2, <3>3
    <2>5. ASSUME NEW j \in 1..m PROVE t[a + j] = Byte(Offset(k) + j)
      <3>1. b + j \in 1..Len(u) /\ Len(v) + (b + j) = a + j
        BY <1>s, <2>2
      <3> HIDE DEF a
      <3> QED
        BY <1>1, <1>3, <3>1
    <2>6. At(t, n, k, a)
      BY <2>4, <2>5 DEF At, m
    <2> QED
      BY <1>6, <2>3, <2>6 DEF Origin, next
  <1> QED
    BY <1>5, <1>6

\* A frame of which a piece was there is cut out, cut, or still there.
LEMMA PutForth ==
    ASSUME NEW v, NEW u, NEW n, NEW t, NEW w, Puts(v, u, n, t, w),
           NEW k \in Begun(n), NEW a \in Nat, At(t, n, k, a)
    PROVE  \/ \E x \in 1..Len(Extract(v).frames) : Extract(v).frames[x] = k
           \/ k \in Extract(v).cut
           \/ Remaining(v) # <<>> /\ u # <<>> /\ k \in FramesIn(Remaining(v)) \cup CutAtEnd(u)
           \/ \E b \in Nat : At(w, n, k, b)
  <1> DEFINE r == Extract(v)
             next == Extract(v).next
             m == Length(k, n)
  <1>1. /\ next \in 1..(Len(v) + 1) /\ Len(v) + 1 - next < FrameLength
        /\ Len(v) \in Nat /\ Len(u) \in Nat /\ n \in Nat /\ Len(u) <= n
        /\ Len(t) = Len(v) + Len(u) /\ Len(w) = Len(u) + (Len(v) + 1 - next)
        /\ \A i \in 1..Len(u) : w[i] = t[Len(v) + i] /\ w[i] = u[i]
        /\ \A i \in 1..(Len(v) + 1 - next) :
                 i + next - 1 \in 1..Len(v) /\ w[Len(u) + i] = t[i + next - 1]
    BY Putting
  <1>2. /\ Offset(k) \in Nat /\ m \in 1..FrameLength /\ Offset(k) + m <= n /\ FrameLength \in Nat /\ m \in Nat
        /\ m < FrameLength => Offset(k) + m = n
        /\ \A j \in 1..FrameLength : Byte(Offset(k) + j) = [frame |-> k, place |-> j]
    BY Piece, LengthsAssumption DEF Puts
  <1>3. /\ a + m <= Len(t) /\ \A j \in 1..m : t[a + j] = Byte(Offset(k) + j)
        /\ m < FrameLength => a + m = Len(t)
    BY DEF At
  <1>4. ScanFound(v, r)
    BY Extracted DEF Puts, Scanned
  <1>5. /\ Remaining(v) \in Seq(Bytes) /\ Len(Remaining(v)) = Len(v) + 1 - next
        /\ \A i \in 1..Len(Remaining(v)) : Remaining(v)[i] = v[i + next - 1]
    BY Rest DEF Puts
  <1>6. u \in Seq(Bytes) /\ v \in Seq(Bytes)
    BY DEF Puts
  <1>r. next = r.next
    OBVIOUS
  <1> HIDE DEF m, r, next
  <1>s. /\ next \in 1..(Len(v) + 1) /\ Len(v) + 1 - next < FrameLength
        /\ Len(v) \in Nat /\ Len(u) \in Nat /\ n \in Nat /\ Len(u) <= n /\ m \in Nat /\ m > 0 /\ m <= FrameLength
        /\ Len(t) = Len(v) + Len(u) /\ Len(w) = Len(u) + (Len(v) + 1 - next)
        /\ Offset(k) \in Nat /\ Offset(k) + m <= n /\ FrameLength \in Nat /\ (m < FrameLength => Offset(k) + m = n)
        /\ a + m <= Len(t) /\ (m < FrameLength => a + m = Len(t))
    BY <1>1, <1>2, <1>3
  \* What begins in v before next has been cut out, or was too short.
  <1>7. ASSUME a < Len(v)
        PROVE  /\ a + 1 \in 1..Len(v) /\ v[a + 1].place = 1 /\ v[a + 1].frame = k
               /\ m = FrameLength /\ a + FrameLength <= Len(v) => Framed(v, a + 1)
    BY <1>7, PieceFramed DEF m
  <1>8. ASSUME a < Len(v), a + 1 < next
        PROVE  (\E x \in 1..Len(r.frames) : r.frames[x] = k) \/ k \in r.cut
    <2>1. a + 1 \in 1..(next - 1)
      BY <1>1, <1>8
    <2>2. /\ Framed(v, a + 1) => \E x \in 1..Len(r.frames) : r.frames[x] = k
          /\ ~Fits(v, a + 1) => k \in r.cut
      BY <1>4, <1>7, <1>8, <1>r, <2>1 DEF ScanFound
    <2>3. Fits(v, a + 1) => a + FrameLength <= Len(v)
      BY <1>1, <1>2 DEF Fits
    <2>4. a + FrameLength <= Len(v) => m = FrameLength
      BY <1>s
    <2> QED
      BY <1>7, <1>8, <2>2, <2>3, <2>4
  <1>9. CASE a < Len(v) /\ a + 1 >= next /\ a + m <= Len(v)
    <2>1. m < FrameLength
      BY <1>s, <1>9
    <2>2. Len(u) = 0 /\ a + m = Len(v)
      BY <1>s, <1>9, <2>1
    <2> DEFINE b == a + 1 - next
    <2>3. b \in Nat /\ b + m = Len(w)
      BY <1>s, <1>9, <2>2
    <2>4. ASSUME NEW j \in 1..m PROVE w[b + j] = Byte(Offset(k) + j)
      <3>1. b + j \in 1..(Len(v) + 1 - next) /\ (b + j) + next - 1 = a + j /\ Len(u) + (b + j) = b + j
        BY <1>s, <1>9, <2>2
      <3> HIDE DEF b
      <3>2. w[Len(u) + (b + j)] = t[(b + j) + next - 1]
        BY <1>1, <3>1
      <3> QED
        BY <1>3, <3>1, <3>2
    <2> HIDE DEF b
    <2>5. b + m <= Len(w)
      BY <1>s, <2>3
    <2>6. At(w, n, k, b)
      BY <2>3, <2>4, <2>5 DEF At, m
    <2> QED
      BY <2>3, <2>6
  <1>10. CASE a < Len(v) /\ a + 1 >= next /\ a + m > Len(v)
    <2>1. Len(u) > 0
      BY <1>s, <1>10
    <2>2. u # <<>>
      BY <2>1
    <2> DEFINE i == a + 2 - next
    <2>3. i \in 1..Len(Remaining(v)) /\ i + next - 1 = a + 1
      BY <1>1, <1>5, <1>10
    <2> HIDE DEF i
    <2>4. Remaining(v)[i].frame = k
      BY <1>5, <1>7, <1>10, <2>3
    <2>5. k \in FramesIn(Remaining(v)) /\ Remaining(v) # <<>>
      BY <2>3, <2>4 DEF FramesIn
    <2> QED
      BY <2>2, <2>5
  <1>11. CASE a >= Len(v)
    <2>1. PICK b \in Nat : b + m <= Len(u) /\ Len(v) + b = a /\ (m < FrameLength => b + m = Len(u))
      <3>1. /\ a - Len(v) \in Nat /\ (a - Len(v)) + m <= Len(u) /\ Len(v) + (a - Len(v)) = a
            /\ m < FrameLength => (a - Len(v)) + m = Len(u)
        BY <1>s, <1>11
      <3> QED
        BY <3>1
    <2>2. ASSUME NEW j \in 1..m PROVE w[b + j] = Byte(Offset(k) + j) /\ u[b + j] = Byte(Offset(k) + j)
      <3>0. Len(v) \in Nat /\ Len(u) \in Nat /\ m \in Nat /\ j \in Nat /\ j >= 1 /\ j <= m
        BY <1>s
      <3>1. b + j \in 1..Len(u)
        BY <2>1, <3>0
      <3>2. Len(v) + (b + j) = a + j
        BY <2>1, <3>0
      <3> QED
        BY <1>1, <1>3, <3>1, <3>2
    <2>3. CASE m = FrameLength \/ Len(w) = Len(u)
      <3>1. b + m <= Len(w) /\ (m < FrameLength => b + m = Len(w))
        <4>1. Len(u) <= Len(w) /\ Len(u) \in Nat /\ Len(w) \in Nat /\ m \in Nat /\ FrameLength \in Nat
          BY <1>s
        <4> QED
          BY <2>1, <2>3, <4>1
      <3>2. At(w, n, k, b)
        BY <2>2, <3>1 DEF At, m
      <3> QED
        BY <2>1, <3>2
    <2>4. CASE m < FrameLength /\ Len(w) # Len(u)
      <3>1. Len(Remaining(v)) # 0 /\ Remaining(v) # <<>>
        <4>1. Len(Remaining(v)) # 0
          BY <1>1, <1>5, <2>4
        <4> QED
          BY <4>1
      <3>2. m \in 1..m /\ b + m = Len(u) /\ m \in 1..FrameLength
        BY <1>2, <2>1, <2>4
      <3>3. u[Len(u)] = [frame |-> k, place |-> m]
        BY <1>2, <2>2, <3>2
      <3>4. u # <<>>
        <4>1. Len(u) > 0
          BY <1>s, <2>1, <3>2
        <4> QED
          BY <4>1
      <3>5. k \in CutAtEnd(u)
        BY <1>2, <2>4, <3>3, <3>4 DEF CutAtEnd
      <3> QED
        BY <3>1, <3>4, <3>5
    <2>5. m = FrameLength \/ m < FrameLength
      BY <1>2
    <2> QED
      BY <2>3, <2>4, <2>5
  <1> QED
    BY SMTT(30), <1>s, <1>8, <1>9, <1>10, <1>11 DEF r

LEMMA PutArrived ==
    ASSUME NEW v, NEW u, NEW n, NEW t, NEW w, Puts(v, u, n, t, w),
           NEW done \in Seq(1..Frames), NEW ex, NEW ex2, ex \cup Extract(v).cut \subseteq ex2,
           Remaining(v) # <<>> /\ u # <<>> => FramesIn(Remaining(v)) \cup CutAtEnd(u) \subseteq ex2,
           Arrived(t, n, done, ex)
    PROVE  Arrived(w, n, done \o Extract(v).frames, ex2)
  <1> DEFINE found == Extract(v).frames
             next == Extract(v).next
             all == done \o found
  <1>1. ScanFound(v, Extract(v)) /\ (InOrder(v) => Increasing(found)) /\ found \in Seq(1..Frames)
    <2>1. Scanned(v, Extract(v), Len(v))
      BY Extracted DEF Puts
    <2> QED
      BY <2>1 DEF Scanned, ScanTyped
  <1>2. WasRead(t, n) /\ Rising(t, n) /\ Increasing(done)
    BY DEF Arrived
  <1>3. Len(v) \in Nat /\ FrameLength \in Nat /\ FrameLength > 0 /\ next \in Nat
    <2>1. next \in 1..(Len(v) + 1)
      BY Putting
    <2> QED
      BY <2>1, Putting, LengthsAssumption
  <1>4. InOrder(v)
    <2> SUFFICES ASSUME NEW a \in 1..Len(v), NEW b \in 1..Len(v), Framed(v, a), Framed(v, b), a < b
                 PROVE  v[a].frame < v[b].frame
      BY DEF InOrder
    <2>1. /\ v[a].frame \in Begun(n) /\ At(t, n, v[a].frame, a - 1) /\ a - 1 \in Nat
          /\ v[b].frame \in Begun(n) /\ At(t, n, v[b].frame, b - 1) /\ b - 1 \in Nat
      BY FramedPiece
    <2>2. a - 1 < b - 1
      BY <1>3
    <2> QED
      BY <1>2, <2>1, <2>2 DEF Rising
  \* What has been cut out: a piece before next.
  <1>5. ASSUME NEW x \in 1..Len(found)
        PROVE  \E a \in Nat : /\ found[x] \in Begun(n) /\ At(t, n, found[x], a) /\ a < next - 1
                              /\ Offset(found[x]) + FrameLength <= n
    <2>1. PICK a \in 1..Len(v) : Framed(v, a) /\ v[a].frame = found[x] /\ a + FrameLength <= next
      BY <1>1 DEF ScanFound
    <2>2. /\ found[x] \in Begun(n) /\ At(t, n, found[x], a - 1) /\ a - 1 \in Nat
          /\ Offset(found[x]) + FrameLength <= n
      BY <2>1, FramedPiece
    <2>3. a - 1 < next - 1
      BY <1>3, <2>1
    <2> QED
      BY <2>2, <2>3
  <1> HIDE DEF found, next
  <1>6. /\ Len(all) = Len(done) + Len(found) /\ Len(done) \in Nat /\ Len(found) \in Nat
        /\ \A x \in 1..Len(done) : all[x] = done[x]
        /\ \A x \in 1..Len(found) : all[Len(done) + x] = found[x]
    BY <1>1, Joined
  <1> HIDE DEF all
  <1>7. ASSUME NEW x \in 1..Len(all)
        PROVE  \/ x \in 1..Len(done) /\ all[x] = done[x]
               \/ x - Len(done) \in 1..Len(found) /\ all[x] = found[x - Len(done)] /\ x > Len(done)
    <2>1. CASE x <= Len(done)
      BY <1>6, <2>1
    <2>2. CASE x > Len(done)
      <3>1. x - Len(done) \in 1..Len(found) /\ Len(done) + (x - Len(done)) = x
        BY <1>6, <2>2
      <3> QED
        BY <1>6, <2>2, <3>1
    <2> QED
      BY <1>6, <2>1, <2>2
  <1>8. ASSUME NEW x \in 1..Len(done), NEW y \in 1..Len(found) PROVE done[x] < found[y]
    <2>1. PICK a \in Nat : found[y] \in Begun(n) /\ At(t, n, found[y], a)
      BY <1>5
    <2> QED
      BY <2>1 DEF Arrived
  <1>9. Increasing(all)
    <2> SUFFICES ASSUME NEW x \in 1..Len(all), NEW y \in 1..Len(all), x < y PROVE all[x] < all[y]
      BY DEF Increasing
    <2>1. CASE x \in 1..Len(done) /\ y \in 1..Len(done)
      BY <1>2, <1>6, <2>1 DEF Increasing
    <2>2. CASE x \in 1..Len(done) /\ y \notin 1..Len(done)
      BY <1>7, <1>8, <2>2
    <2>3. CASE x \notin 1..Len(done)
      <3>1. x > Len(done) /\ y \notin 1..Len(done)
        BY <1>6, <2>3
      <3>2. /\ x - Len(done) \in 1..Len(found) /\ all[x] = found[x - Len(done)]
            /\ y - Len(done) \in 1..Len(found) /\ all[y] = found[y - Len(done)]
        BY <1>7, <2>3, <3>1
      <3>3. x - Len(done) < y - Len(done)
        BY <1>6
      <3> QED
        BY <1>1, <1>4, <3>2, <3>3 DEF Increasing
    <2> QED
      BY <2>1, <2>2, <2>3
  <1>10. \A x \in 1..Len(all) : Offset(all[x]) + FrameLength <= n
    <2> SUFFICES ASSUME NEW x \in 1..Len(all) PROVE Offset(all[x]) + FrameLength <= n
      OBVIOUS
    <2>1. CASE x \in 1..Len(done) /\ all[x] = done[x]
      BY <2>1 DEF Arrived
    <2>2. CASE x - Len(done) \in 1..Len(found) /\ all[x] = found[x - Len(done)]
      BY <1>5, <2>2
    <2> QED
      BY <1>7, <2>1, <2>2
  <1>11. ASSUME NEW k \in Begun(n), NEW b \in Nat, At(w, n, k, b)
         PROVE  At(t, n, k, Origin(v, u, b)) /\ Origin(v, u, b) \in Nat /\ Origin(v, u, b) >= next - 1
    BY <1>11, PutFrom DEF next
  <1>12. Rising(w, n)
    <2> SUFFICES ASSUME NEW k \in Begun(n), NEW l \in Begun(n), NEW a \in Nat, NEW b \in Nat,
                        At(w, n, k, a), At(w, n, l, b), a < b
                 PROVE  k < l
      BY DEF Rising
    <2>1. /\ At(t, n, k, Origin(v, u, a)) /\ Origin(v, u, a) \in Nat
          /\ At(t, n, l, Origin(v, u, b)) /\ Origin(v, u, b) \in Nat
      BY <1>11
    <2>2. Origin(v, u, a) < Origin(v, u, b)
      BY <1>3 DEF Origin, next
    <2> QED
      BY <1>2, <2>1, <2>2 DEF Rising
  <1>13. ASSUME NEW k \in Begun(n), NEW b \in Nat, NEW x \in 1..Len(all), At(w, n, k, b) PROVE all[x] < k
    <2>1. At(t, n, k, Origin(v, u, b)) /\ Origin(v, u, b) \in Nat /\ Origin(v, u, b) >= next - 1
      BY <1>11, <1>13
    <2>2. CASE x \in 1..Len(done) /\ all[x] = done[x]
      BY <2>1, <2>2 DEF Arrived
    <2>3. CASE x - Len(done) \in 1..Len(found) /\ all[x] = found[x - Len(done)]
      <3>1. PICK a \in Nat : all[x] \in Begun(n) /\ At(t, n, all[x], a) /\ a < next - 1
        BY <1>5, <2>3
      <3>2. a < Origin(v, u, b)
        BY <1>3, <2>1, <3>1
      <3> QED
        BY <1>2, <2>1, <3>1, <3>2 DEF Rising
    <2> QED
      BY <1>7, <2>2, <2>3
  <1>14. ASSUME NEW k \in Begun(n)
         PROVE  k \in ex2 \/ (\E x \in 1..Len(all) : all[x] = k) \/ \E b \in Nat : At(w, n, k, b)
    <2>1. ASSUME NEW x \in 1..Len(done), done[x] = k PROVE \E y \in 1..Len(all) : all[y] = k
      <3>1. x \in 1..Len(all) /\ all[x] = k
        BY <1>6, <2>1
      <3> QED
        BY <3>1
    <2>2. ASSUME NEW x \in 1..Len(found), found[x] = k PROVE \E y \in 1..Len(all) : all[y] = k
      <3>1. Len(done) + x \in 1..Len(all) /\ all[Len(done) + x] = k
        BY <1>6, <2>2
      <3> QED
        BY <3>1
    <2>3. ASSUME NEW a \in Nat, At(t, n, k, a)
          PROVE  k \in ex2 \/ (\E x \in 1..Len(found) : found[x] = k) \/ \E b \in Nat : At(w, n, k, b)
      <3>1. \/ \E x \in 1..Len(found) : found[x] = k
            \/ k \in Extract(v).cut
            \/ Remaining(v) # <<>> /\ u # <<>> /\ k \in FramesIn(Remaining(v)) \cup CutAtEnd(u)
            \/ \E b \in Nat : At(w, n, k, b)
        BY <2>3, PutForth DEF found
      <3> QED
        BY <3>1
    <2>4. k \in ex \/ (\E x \in 1..Len(done) : done[x] = k) \/ \E a \in Nat : At(t, n, k, a)
      BY DEF Arrived
    <2> QED
      BY <2>1, <2>2, <2>3, <2>4
  <1>15. WasRead(w, n)
    BY Putting
  <1> QED
    BY <1>9, <1>10, <1>12, <1>13, <1>14, <1>15 DEF Arrived, all, found

\* The invariant: of what has been read, all has arrived, and what the parser thread
\* has taken is older than what is in the buffer.
StreamInv ==
    /\ Arrived(taken \o buffer, read, parsed, excused)
    /\ parsing = "put" => Since(taken, buffer, read)

LEMMA StreamInit == ParserInit => StreamInv
  <1> SUFFICES ASSUME ParserInit PROVE StreamInv
    OBVIOUS
  <1>1. read = 0 /\ taken \o buffer = <<>> /\ parsed = <<>> /\ parsing = "take" /\ FrameLength \in Nat
    BY LengthsAssumption DEF ParserInit
  <1>2. Begun(0) = {}
    <2> SUFFICES ASSUME NEW k \in 1..Frames PROVE ~(Offset(k) < 0)
      BY DEF Begun
    <2>1. Offset(k) \in Nat
      BY OffsetOrder, LengthsAssumption
    <2> QED
      BY <2>1
  <1>3. Arrived(<<>>, 0, <<>>, excused)
    BY <1>1, <1>2 DEF Arrived, WasRead, Rising, Increasing
  <1> QED
    BY <1>1, <1>3 DEF StreamInv

LEMMA StreamNext ==
    ParserTypeOK /\ RoomInv /\ StreamInv /\ [ParserNext]_parserVars => StreamInv'
  <1> SUFFICES ASSUME ParserTypeOK, RoomInv, StreamInv, [ParserNext]_parserVars PROVE StreamInv'
    OBVIOUS
  <1>0. /\ Frames * FrameLength \in Nat /\ read \in 0..(Frames * FrameLength) /\ read \in Nat
        /\ buffer \in Seq(Bytes) /\ taken \in Seq(Bytes) /\ parsed \in Seq(1..Frames)
        /\ parsing \in {"take", "put"} /\ (parsing = "take" => taken = <<>>)
    BY LengthsAssumption DEF ParserTypeOK, RoomInv
  <1>1. ASSUME NEW n \in 1..MaxChunk, Upload(n) PROVE StreamInv'
    <2> DEFINE out == Excess(n)
               left == Dropped(buffer, out)
    <2>1. /\ n \in Nat \ {0} /\ out \in 0..Len(buffer) /\ read + n <= Frames * FrameLength
          /\ Chunk(n) \in Seq(Bytes) /\ Len(Chunk(n)) = n
          /\ \A i \in 1..n : Chunk(n)[i] = Byte(read + i)
          /\ read' = read + n /\ buffer' = left \o Chunk(n)
          /\ excused' = excused \cup FramesIn(SubSeq(buffer, 1, out))
          /\ UNCHANGED <<taken, parsing, parsed>>
      BY <1>1, Uploaded
    <2> HIDE DEF out
    <2>2. /\ left \in Seq(Bytes) /\ Len(left) = Len(buffer) - out
          /\ \A i \in 1..(Len(buffer) - out) : left[i] = buffer[out + i]
      BY <1>0, <2>1, Left
    <2> HIDE DEF left
    <2>3. /\ buffer' \in Seq(Bytes) /\ Len(buffer') = Len(buffer) - out + n /\ Len(buffer) \in Nat
          /\ \A i \in 1..(Len(buffer) - out) : buffer'[i] = buffer[out + i]
          /\ \A i \in 1..n : buffer'[Len(buffer) - out + i] = Byte(read + i)
      <3> DEFINE all == left \o Chunk(n)
      <3>1. /\ all \in Seq(Bytes) /\ Len(all) = Len(left) + Len(Chunk(n))
            /\ \A i \in 1..Len(left) : all[i] = left[i]
            /\ \A i \in 1..Len(Chunk(n)) : all[Len(left) + i] = Chunk(n)[i]
        <4>1. left \in Seq(Bytes) /\ Chunk(n) \in Seq(Bytes)
          BY <2>1, <2>2
        <4> QED
          BY <4>1, Joined
      <3>2. Len(buffer) \in Nat
        BY <1>0
      <3> HIDE DEF all
      <3>3. /\ all \in Seq(Bytes) /\ Len(all) = Len(buffer) - out + n
            /\ \A i \in 1..(Len(buffer) - out) : all[i] = buffer[out + i]
            /\ \A i \in 1..n : all[Len(buffer) - out + i] = Byte(read + i)
        BY <2>1, <2>2, <3>1
      <3>4. buffer' = all
        BY <2>1 DEF all
      <3> QED
        BY <3>2, <3>3, <3>4
    <2> DEFINE t == taken \o buffer
               w == taken \o buffer'
    <2>4. /\ t \in Seq(Bytes) /\ Len(t) = Len(taken) + Len(buffer) /\ Len(taken) \in Nat
          /\ \A i \in 1..Len(taken) : t[i] = taken[i]
          /\ \A i \in 1..Len(buffer) : t[Len(taken) + i] = buffer[i]
      BY <1>0, Joined
    <2>5. /\ w \in Seq(Bytes) /\ Len(w) = Len(taken) + Len(buffer')
          /\ \A i \in 1..Len(taken) : w[i] = taken[i]
          /\ \A i \in 1..Len(buffer') : w[Len(taken) + i] = buffer'[i]
      <3>1. taken \in Seq(Bytes) /\ buffer' \in Seq(Bytes)
        BY <1>0, <2>3
      <3> QED
        BY <3>1, Joined
    <2>6. Arrived(t, read, parsed, excused) /\ (taken = <<>> \/ Since(taken, buffer, read))
      BY <1>0 DEF StreamInv
    <2> HIDE DEF t, w
    <2>7. Grows(taken, buffer, out, read, n, t, w)
      <3>1. Len(w) = Len(taken) + Len(buffer) - out + n
        BY SMTT(30), <2>1, <2>3, <2>4, <2>5
      <3>2. ASSUME NEW i \in 1..(Len(buffer) - out) PROVE w[Len(taken) + i] = buffer[out + i]
        <4>1. i \in 1..Len(buffer')
          BY <2>1, <2>3
        <4> QED
          BY <2>3, <2>5, <4>1
      <3>3. ASSUME NEW i \in 1..n PROVE w[Len(taken) + Len(buffer) - out + i] = Byte(read + i)
        <4>1. Len(buffer) - out + i \in 1..Len(buffer')
          BY <2>1, <2>3
        <4>2. Len(taken) + (Len(buffer) - out + i) = Len(taken) + Len(buffer) - out + i
          BY <2>1, <2>3, <2>4
        <4> QED
          BY <2>3, <2>5, <4>1, <4>2
      <3> QED
        BY <1>0, <2>1, <2>4, <2>5, <2>6, <3>1, <3>2, <3>3 DEF Grows, Arrived
    <2>8. Arrived(w, read + n, parsed, excused')
      BY <1>0, <2>1, <2>6, <2>7, GrownArrived
    <2>9. ASSUME parsing = "put" PROVE Since(taken, buffer', read + n)
      <3>1. Since(taken, buffer, read)
        BY <2>9 DEF StreamInv
      <3> QED
        BY <1>0, <2>1, <2>3, <3>1, GrownSince
    <2> QED
      BY <2>1, <2>8, <2>9 DEF StreamInv, w
  <1>2. CASE Take
    <2>1. taken = <<>> /\ taken' = buffer /\ buffer' = <<>> /\ UNCHANGED <<read, parsed, excused>>
      BY <1>0, <1>2 DEF Take
    <2>2. taken \o buffer = buffer /\ taken' \o buffer' = buffer
      BY <1>0, <2>1
    <2>3. Arrived(taken' \o buffer', read', parsed', excused')
      BY <2>1, <2>2 DEF StreamInv
    <2>4. Since(taken', buffer', read')
      <3>1. WasRead(buffer, read)
        BY <2>2 DEF StreamInv, Arrived
      <3>2. Len(buffer') = 0
        BY <2>1
      <3> QED
        BY <1>0, <2>1, <3>1, <3>2 DEF Since, WasRead
    <2> QED
      BY <2>3, <2>4 DEF StreamInv
  <1>3. CASE PutBack
    <2> DEFINE rest == Remaining(taken)
               t == taken \o buffer
               w == buffer \o rest
    <2>1. /\ parsing = "put" /\ parsing' = "take" /\ buffer' = w /\ taken' = <<>>
          /\ parsed' = parsed \o Extract(taken).frames /\ UNCHANGED read
          /\ excused' = excused \cup Extract(taken).cut
               \cup (IF rest # <<>> /\ buffer # <<>> THEN FramesIn(rest) \cup CutAtEnd(buffer) ELSE {})
      BY <1>3 DEF PutBack
    <2>2. rest \in Seq(Bytes)
      BY <1>0, Rest
    <2>3. /\ t \in Seq(Bytes) /\ Len(t) = Len(taken) + Len(buffer) /\ Len(taken) \in Nat /\ Len(buffer) \in Nat
          /\ \A i \in 1..Len(taken) : t[i] = taken[i]
          /\ \A i \in 1..Len(buffer) : t[Len(taken) + i] = buffer[i]
      BY <1>0, Joined
    <2> HIDE DEF rest
    <2>4. /\ w \in Seq(Bytes) /\ Len(w) = Len(buffer) + Len(rest)
          /\ \A i \in 1..Len(buffer) : w[i] = buffer[i]
          /\ \A i \in 1..Len(rest) : w[Len(buffer) + i] = rest[i]
      BY <1>0, <2>2, Joined
    <2>5. Arrived(t, read, parsed, excused) /\ Since(taken, buffer, read)
      BY <2>1 DEF StreamInv
    <2>6. taken' \o buffer' = w
      BY <2>1, <2>4
    <2> HIDE DEF t, w
    <2>7. Puts(taken, buffer, read, t, w)
      BY <1>0, <2>3, <2>4, <2>5 DEF Puts, Arrived, rest
    <2>8. /\ excused \cup Extract(taken).cut \subseteq excused'
          /\ rest # <<>> /\ buffer # <<>> => FramesIn(rest) \cup CutAtEnd(buffer) \subseteq excused'
      BY <2>1
    <2>9. Arrived(w, read, parsed \o Extract(taken).frames, excused')
      BY <1>0, <2>5, <2>7, <2>8, PutArrived DEF rest
    <2> QED
      BY <2>1, <2>6, <2>9 DEF StreamInv
  <1>4. CASE UNCHANGED parserVars
    BY <1>4 DEF parserVars, StreamInv
  <1> QED
    BY <1>1, <1>2, <1>3, <1>4 DEF ParserNext

\* What has arrived is in order, and nothing is lost that has not itself been cut.
LEMMA StreamArrives == ParserTypeOK /\ StreamInv => FramesArrive
  <1> SUFFICES ASSUME ParserTypeOK, StreamInv PROVE FramesArrive
    OBVIOUS
  <1> DEFINE t == taken \o buffer
  <1>0. /\ Frames \in Nat /\ FrameLength \in Nat /\ FrameLength > 0 /\ read \in Nat
        /\ read <= Frames * FrameLength
    BY LengthsAssumption DEF ParserTypeOK
  <1>1. Arrived(t, read, parsed, excused) /\ Len(t) \in Nat
    BY Joined DEF ParserTypeOK, StreamInv
  <1> HIDE DEF t
  <1>2. \A i, j \in 1..Len(parsed) : i < j => parsed[i] < parsed[j]
    BY <1>1 DEF Arrived, Increasing
  <1>3. ASSUME NEW k \in 1..(read \div FrameLength)
        PROVE  k \in excused \/ Has(t, k) \/ \E i \in 1..Len(parsed) : parsed[i] = k
    <2>1. k \in 1..Frames /\ Offset(k) \in Nat /\ Offset(k) + FrameLength <= read
      <3> DEFINE q == read \div FrameLength
      <3>1. q \in Nat /\ q * FrameLength <= read
        BY <1>0
      <3> HIDE DEF q
      <3>2. k \in Nat \ {0} /\ k <= q
        BY <3>1 DEF q
      <3>3. Offset(k) \in Nat /\ Offset(k) + FrameLength = k * FrameLength /\ k * FrameLength <= q * FrameLength
        BY <1>0, <3>1, <3>2, OffsetOrder, Times
      <3>4. k <= Frames
        <4> SUFFICES ASSUME Frames + 1 <= k PROVE FALSE
          BY <1>0, <3>2
        <4>1. (Frames + 1) * FrameLength <= k * FrameLength
          BY <1>0, <3>2, Times
        <4>2. (Frames + 1) * FrameLength = Frames * FrameLength + FrameLength /\ Frames * FrameLength \in Nat
          BY <1>0, Times
        <4>3. k * FrameLength \in Nat /\ q * FrameLength \in Nat
          BY <1>0, <3>1, <3>2, Times
        <4> QED
          BY <1>0, <3>1, <3>3, <4>1, <4>2, <4>3
      <3>5. q * FrameLength \in Nat
        BY <1>0, <3>1, Times
      <3> QED
        BY <1>0, <3>1, <3>2, <3>3, <3>4, <3>5
    <2>2. k \in Begun(read) /\ Length(k, read) = FrameLength
      BY <1>0, <2>1 DEF Begun, Length
    <2>3. ASSUME NEW a \in Nat, At(t, read, k, a) PROVE Has(t, k)
      <3>1. a + FrameLength <= Len(t) /\ \A j \in 1..FrameLength : t[a + j] = Byte(Offset(k) + j)
        BY <2>2, <2>3 DEF At
      <3>2. a \in 0..(Len(t) - FrameLength)
        BY <1>0, <1>1, <3>1
      <3>3. \A j \in 1..FrameLength : t[a + j] = [frame |-> k, place |-> j]
        BY <2>1, <3>1, ByteOf
      <3> QED
        BY <3>2, <3>3 DEF Has
    <2> QED
      BY <1>1, <2>2, <2>3 DEF Arrived
  <1> QED
    BY <1>2, <1>3 DEF FramesArrive, t

\* Frames are handed on in order, and none is lost that was not itself cut.
THEOREM FramesCorrect == ParserSpec => []FramesArrive
  <1>1. ParserInit => ParserTypeOK /\ RoomInv /\ StreamInv
    BY ParserTypeInit, StreamInit
  <1>2. (ParserTypeOK /\ RoomInv /\ StreamInv) /\ [ParserNext]_parserVars => (ParserTypeOK /\ RoomInv /\ StreamInv)'
    BY ParserTypeNext, StreamNext
  <1>3. ParserTypeOK /\ RoomInv /\ StreamInv => FramesArrive
    BY StreamArrives
  <1> QED
    BY <1>1, <1>2, <1>3, PTL DEF ParserSpec
=============================================================================
