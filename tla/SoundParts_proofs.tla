------------------------- MODULE SoundParts_proofs --------------------------
(***************************************************************************)
(* What the components of a stream of sound promise, for every size and    *)
(* rate: the byte ring, the isochronous queue and pace, the capture rings, *)
(* the count of starvings, the pump's port, castif's sound, the ESP32's    *)
(* I2S channel, a camera's frames in a ring, Windows' two ends of a sound, *)
(* and a file fed to the pump. Each has its invariant; what they have in   *)
(* common is arithmetic of rests and of positions in a ring, which comes   *)
(* first, and what sequences put end to end give.                          *)
(***************************************************************************)
EXTENDS ByteRing, IsoPackets, CaptureRing, RxRing, StarveCount, PumpPort,
        CastAudio, I2sChannel, UvcFrame, Wasapi, FileFeed,
        WellFoundedInduction, SequenceTheorems, FiniteSetTheorems, TLAPS

\* A quotient and a rest give back the number, and the rest is short of the divisor.
LEMMA DivMod ==
    ASSUME NEW L \in Nat \ {0}, NEW a \in Int
    PROVE  a = L * (a \div L) + (a % L) /\ a % L \in 0 .. L - 1 /\ a \div L \in Int
<1>1. a \div L \in Int
  OBVIOUS
<1>2. a % L \in 0 .. L - 1
  OBVIOUS
<1>3. a = L * (a \div L) + (a % L)
  OBVIOUS
<1> QED BY <1>1, <1>2, <1>3

\* Only one quotient and one rest do.
LEMMA ModOf ==
    ASSUME NEW L \in Nat \ {0}, NEW q \in Int, NEW r \in 0 .. L - 1
    PROVE  (L * q + r) % L = r /\ (L * q + r) \div L = q
OBVIOUS

\* A rest is its own rest, and so is what is one divisor past it.
LEMMA ModSmall ==
    ASSUME NEW L \in Nat \ {0}, NEW r \in 0 .. L - 1
    PROVE  r % L = r /\ (r + L) % L = r
OBVIOUS

\* Less than two laps, a rest is what is over one.
LEMMA ModTwice ==
    ASSUME NEW L \in Nat \ {0}, NEW x \in Nat, x < 2 * L
    PROVE  x % L = IF x < L THEN x ELSE x - L
<1>1. CASE x < L
  BY <1>1, ModSmall
<1>2. CASE x >= L
  <2>1. x - L \in 0 .. L - 1
    BY <1>2
  <2>2. ((x - L) + L) % L = x - L
    BY <2>1, ModSmall
  <2> QED BY <1>2, <2>2
<1> QED BY <1>1, <1>2

\* A position in a ring, and i further on.
LEMMA RingOn ==
    ASSUME NEW L \in Nat \ {0}, NEW r \in 0 .. L - 1, NEW i \in 0 .. L
    PROVE  /\ (r + i) % L \in 0 .. L - 1
           /\ (r + i) % L = IF r + i < L THEN r + i ELSE r + i - L
<1> DEFINE x == r + i
<1>1. x \in Nat /\ x < 2 * L /\ x = r + i
  OBVIOUS
<1> HIDE DEF x
<1>2. x % L = IF x < L THEN x ELSE x - L
  BY <1>1, ModTwice
<1> QED BY <1>1, <1>2

\* The distance from one position in a ring to another.
LEMMA RingBetween ==
    ASSUME NEW L \in Nat \ {0}, NEW w \in 0 .. L - 1, NEW r \in 0 .. L - 1
    PROVE  (w + L - r) % L = IF w >= r THEN w - r ELSE w + L - r
<1> DEFINE x == w + L - r
<1>1. x \in Nat /\ x < 2 * L /\ x = w + L - r
  OBVIOUS
<1> HIDE DEF x
<1>2. x % L = IF x < L THEN x ELSE x - L
  BY <1>1, ModTwice
<1> QED BY <1>1, <1>2

\* Two positions in a ring tell how far apart two counts are that are less than a lap apart.
LEMMA ModDistance ==
    ASSUME NEW L \in Nat \ {0}, NEW a \in Nat, NEW b \in Nat, a <= b, b - a < L
    PROVE  ((b % L) + L - (a % L)) % L = b - a
<1> DEFINE qa == a \div L qb == b \div L ra == a % L rb == b % L
<1>1. /\ a = L * qa + ra /\ b = L * qb + rb /\ qa \in Int /\ qb \in Int
      /\ ra \in 0 .. L - 1 /\ rb \in 0 .. L - 1
  BY DivMod
<1> HIDE DEF qa, qb, ra, rb
<1>2. L * (qb - qa) = L * qb - L * qa
  BY <1>1
<1>3. L * (qb - qa) < 2 * L /\ L * (qb - qa) > 0 - L
  BY <1>1, <1>2
<1>4. qb - qa \in {0, 1}
  BY <1>1, <1>3
<1>5. rb + L - ra = IF qb = qa THEN (b - a) + L ELSE b - a
  BY <1>1, <1>2, <1>4
<1>6. b - a \in 0 .. L - 1
  OBVIOUS
<1>7. (rb + L - ra) % L = b - a
  BY <1>5, <1>6, ModSmall
<1> QED BY <1>7 DEF ra, rb

\* A quotient of naturals is one, rounded down.
LEMMA FloorIs ==
    ASSUME NEW a \in Nat, NEW b \in Nat \ {0}
    PROVE  a \div b \in Nat /\ b * (a \div b) <= a
<1> DEFINE q == a \div b  r == a % b
<1>1. a = b * q + r /\ r \in 0 .. b - 1 /\ q \in Int
  BY DivMod
<1> HIDE DEF q, r
<1>2. b * q <= a
  BY <1>1
<1>3. q >= 0
  <2> SUFFICES ASSUME q <= -1 PROVE FALSE
    BY <1>1
  <2>1. b * q <= b * (-1)
    BY <1>1
  <2> QED BY <1>1, <2>1
<1> QED BY <1>1, <1>2, <1>3 DEF q

\* DivMod and FloorIs in one.
LEMMA NatDiv ==
    ASSUME NEW a \in Nat, NEW b \in Nat \ {0}
    PROVE  a = b * (a \div b) + (a % b) /\ a % b \in 0 .. b - 1 /\ a \div b \in Nat
<1>1. a \in Int
  OBVIOUS
<1>2. a = b * (a \div b) + (a % b) /\ a % b \in 0 .. b - 1
  BY <1>1, DivMod
<1>3. a \div b \in Nat
  BY FloorIs
<1> QED BY <1>2, <1>3

-----------------------------------------------------------------------------
(***************************************************************************)
(* The byte ring keeps its contract at every size whose double lap, and    *)
(* one ring more, fits the word, however long the stream runs. Inductive   *)
(* is where each byte between the two indices lies, and that the           *)
(* producer's and the consumer's copies are of places the other does not   *)
(* own.                                                                    *)
(***************************************************************************)

\* What the queue's two words mean, and the order of its bytes.
BrInv == BrTypeOK /\ BrCounts /\ BrInOrder

\* An index never runs past the second lap, and moves on by what was copied.
LEMMA AdvanceSpans ==
    ASSUME NEW h \in 0 .. 2 * BrSize - 1, NEW t \in 0 .. 2 * BrSize - 1, NEW n \in 0 .. BrSize
    PROVE  /\ BrAdvance(h, n) \in 0 .. 2 * BrSize - 1
           /\ BrSpan(h, t) \in 0 .. 2 * BrSize - 1
           /\ BrSpan(h, t) + n <= BrSize => BrSpan(BrAdvance(h, n), t) = BrSpan(h, t) + n
           /\ n <= BrSpan(h, t) => BrSpan(h, BrAdvance(t, n)) = BrSpan(h, t) - n
  BY BrAssumption DEF BrAdvance, BrSpan, BrWrap

\* A place is inside the storage, and its distance from the index is what
\* put it there.
LEMMA PlacesAreOffsets ==
    ASSUME NEW h \in 0 .. 2 * BrSize - 1, NEW k \in 0 .. BrSize - 1
    PROVE  BrPlaceOf(h, k) \in 0 .. BrSize - 1 /\ BrOffset(h, BrPlaceOf(h, k)) = k
  BY BrAssumption DEF BrPlaceOf, BrOffset, BrPlace

\* The bytes from the tail, seen from a head that is Span ahead of it.
LEMMA PlacesFromTail ==
    ASSUME NEW h \in 0 .. 2 * BrSize - 1, NEW t \in 0 .. 2 * BrSize - 1,
           BrSpan(h, t) <= BrSize, NEW k \in 0 .. BrSize - 1
    PROVE  BrOffset(h, BrPlaceOf(t, k)) =
             IF k >= BrSpan(h, t) THEN k - BrSpan(h, t) ELSE k - BrSpan(h, t) + BrSize
  BY BrAssumption DEF BrPlaceOf, BrOffset, BrPlace, BrSpan

\* A pop moves the tail over the bytes it copied, and no other.
LEMMA PlacesMoveOn ==
    ASSUME NEW t \in 0 .. 2 * BrSize - 1, NEW n \in 0 .. BrSize, NEW k \in 0 .. BrSize - 1,
           n + k < BrSize
    PROVE  BrPlaceOf(BrAdvance(t, n), k) = BrPlaceOf(t, n + k)
  BY BrAssumption DEF BrPlaceOf, BrPlace, BrAdvance, BrWrap

\* The empty queue is as the invariant says.
LEMMA BrStarts == BrInit => BrInv
  BY BrAssumption DEF BrInit, BrInv, BrTypeOK, BrCounts, BrInOrder, BrIdle, BrSpan, BrRoom

\* And every step of either side keeps it so.
LEMMA BrSteps == BrInv /\ [BrNext]_brVars => BrInv'
<1> SUFFICES ASSUME BrInv, [BrNext]_brVars PROVE BrInv'
  OBVIOUS
<1> USE BrAssumption
<1>t. BrTypeOK /\ BrCounts /\ BrInOrder
  BY DEF BrInv
<1>s. BrSpan(brHead, brTail) \in 0 .. BrSize
  BY <1>t, AdvanceSpans DEF BrTypeOK, BrCounts
<1>1. ASSUME NEW len \in 1 .. BrSize, BrPushLoad(len) PROVE BrInv'
  <2>1. BrTypeOK'
    BY <1>1, <1>t, <1>s DEF BrTypeOK, BrPushLoad, BrRoom
  <2>2. BrCounts'
    BY <1>1, <1>t, <1>s DEF BrTypeOK, BrPushLoad, BrCounts, BrRoom
  <2>3. BrInOrder'
    BY <1>1, <1>t DEF BrPushLoad, BrInOrder
  <2> QED BY <2>1, <2>2, <2>3 DEF BrInv
<1>2. ASSUME NEW len \in 1 .. BrSize, BrPopLoad(len) PROVE BrInv'
  <2>1. BrTypeOK'
    BY <1>2, <1>t, <1>s DEF BrTypeOK, BrPopLoad
  <2>2. BrCounts'
    BY <1>2, <1>t, <1>s DEF BrTypeOK, BrPopLoad, BrCounts, BrRoom
  <2>3. BrInOrder'
    BY <1>2, <1>t DEF BrPopLoad, BrInOrder
  <2> QED BY <2>1, <2>2, <2>3 DEF BrInv
<1>3. ASSUME BrCopyIn PROVE BrInv'
  <2>0. /\ brPush.n \in 0 .. BrSize
        /\ BrSpan(brHead, brTail) + brPush.n <= BrSize
        /\ brHead \in 0 .. 2 * BrSize - 1 /\ brTail \in 0 .. 2 * BrSize - 1
    BY <1>t, <1>s DEF BrTypeOK, BrCounts, BrRoom
  <2>h. /\ brHead' \in 0 .. 2 * BrSize - 1
        /\ BrSpan(brHead', brTail) = BrSpan(brHead, brTail) + brPush.n
    BY <1>3, <2>0, AdvanceSpans DEF BrCopyIn
  <2>b. \A i \in 0 .. BrSize - 1 : BrOffset(brHead, i) \in Int
    BY <2>0 DEF BrOffset, BrPlace
  <2>1. BrTypeOK'
    BY <1>3, <1>t, <2>h, <2>b DEF BrTypeOK, BrCopyIn, BrIdle
  <2>2. BrCounts'
    BY <1>3, <1>t, <1>s, <2>0, <2>h, SMTT(30) DEF BrTypeOK, BrCopyIn, BrCounts, BrRoom, BrIdle
  <2>3. BrInOrder'
    <3> SUFFICES ASSUME NEW k \in 0 .. BrSpan(brHead', brTail) - 1
                 PROVE  brBuf'[BrPlaceOf(brTail, k)] = brOut + k
      BY <1>3 DEF BrInOrder, BrCopyIn
    <3>1. k \in 0 .. BrSize - 1
      BY <2>0, <2>h, <1>s
    <3>2. BrPlaceOf(brTail, k) \in 0 .. BrSize - 1
      BY <3>1, <2>0, PlacesAreOffsets
    <3>3. brIn = brOut + BrSpan(brHead, brTail)
      BY <1>t, <1>s DEF BrTypeOK, BrCounts
    <3>4. CASE k >= BrSpan(brHead, brTail)
      <4>1. BrOffset(brHead, BrPlaceOf(brTail, k)) = k - BrSpan(brHead, brTail)
        BY <3>4, <3>1, <2>0, <1>s, PlacesFromTail
      <4>2. k - BrSpan(brHead, brTail) < brPush.n
        BY <2>h, <2>0, <1>s, <3>1
      <4>3. brBuf'[BrPlaceOf(brTail, k)] = brIn + (k - BrSpan(brHead, brTail))
        BY <1>3, <3>2, <4>1, <4>2 DEF BrCopyIn
      <4> QED BY <4>3, <3>3, <1>s, <3>1, <1>t DEF BrTypeOK
    <3>5. CASE k < BrSpan(brHead, brTail)
      <4>1. BrOffset(brHead, BrPlaceOf(brTail, k)) = k - BrSpan(brHead, brTail) + BrSize
        BY <3>5, <3>1, <2>0, <1>s, PlacesFromTail
      <4>2. ~(k - BrSpan(brHead, brTail) + BrSize < brPush.n)
        BY <2>0, <1>s, <3>1
      <4>3. brBuf'[BrPlaceOf(brTail, k)] = brBuf[BrPlaceOf(brTail, k)]
        BY <1>3, <3>2, <4>1, <4>2 DEF BrCopyIn
      <4>4. k \in 0 .. BrSpan(brHead, brTail) - 1
        BY <3>5, <3>1, <1>s
      <4> QED BY <4>3, <4>4, <1>t DEF BrInOrder
    <3> QED BY <3>4, <3>5, <3>1, <1>s
  <2> QED BY <2>1, <2>2, <2>3 DEF BrInv
<1>4. ASSUME BrCopyOut PROVE BrInv'
  <2>0. /\ brPop.n \in 0 .. BrSize
        /\ brPop.n <= BrSpan(brHead, brTail)
        /\ brHead \in 0 .. 2 * BrSize - 1 /\ brTail \in 0 .. 2 * BrSize - 1
    BY <1>t DEF BrTypeOK, BrCounts
  <2>h. /\ brTail' \in 0 .. 2 * BrSize - 1
        /\ BrSpan(brHead, brTail') = BrSpan(brHead, brTail) - brPop.n
    BY <1>4, <2>0, AdvanceSpans DEF BrCopyOut
  <2>1. BrTypeOK'
    BY <1>4, <1>t, <2>h DEF BrTypeOK, BrCopyOut, BrIdle
  <2>2. BrCounts'
    <3>1. BrSpan(brHead, brTail)' = BrSpan(brHead, brTail) - brPop.n
      BY <1>4, <2>h DEF BrCopyOut
    <3>2. brOut' = brOut + brPop.n /\ brIn' = brIn /\ brPush' = brPush /\ brPop'.n = 0
      BY <1>4 DEF BrCopyOut, BrIdle
    <3>3. /\ brIn \in Nat /\ brOut \in Nat /\ brPush.n \in 0 .. BrSize
          /\ brIn - brOut = BrSpan(brHead, brTail)
          /\ brPush.n <= BrSize - BrSpan(brHead, brTail)
      BY <1>t DEF BrTypeOK, BrCounts, BrRoom
    <3> QED BY <3>1, <3>2, <3>3, <2>0, <1>s DEF BrCounts, BrRoom
  <2>3. BrInOrder'
    <3> SUFFICES ASSUME NEW k \in 0 .. BrSpan(brHead, brTail') - 1
                 PROVE  brBuf[BrPlaceOf(brTail', k)] = brOut + brPop.n + k
      BY <1>4 DEF BrInOrder, BrCopyOut
    <3>1. brPop.n + k \in 0 .. BrSpan(brHead, brTail) - 1 /\ k \in 0 .. BrSize - 1 /\ brPop.n + k < BrSize
      BY <2>0, <2>h, <1>s
    <3>2. BrPlaceOf(brTail', k) = BrPlaceOf(brTail, brPop.n + k)
      BY <1>4, <3>1, <2>0, PlacesMoveOn DEF BrCopyOut
    <3>3. brBuf[BrPlaceOf(brTail, brPop.n + k)] = brOut + (brPop.n + k)
      BY <3>1, <1>t DEF BrInOrder
    <3> QED BY <3>2, <3>3, <3>1, <2>0, <1>t DEF BrTypeOK
  <2> QED BY <2>1, <2>2, <2>3 DEF BrInv
<1>5. ASSUME UNCHANGED brVars PROVE BrInv'
  BY <1>5, <1>t DEF brVars, BrInv, BrTypeOK, BrCounts, BrInOrder, BrRoom
<1> QED BY <1>1, <1>2, <1>3, <1>4, <1>5 DEF BrNext

\* The words stay within two laps whatever is pushed and popped:
\* usbhost_byte_ring_advance never leaves an index past them.
THEOREM ByteRingTypeCorrect == BrSpec => []BrTypeOK
<1>1. BrInv => BrTypeOK
  BY DEF BrInv
<1> QED BY <1>1, BrStarts, BrSteps, PTL DEF BrSpec

\* The two words tell how much is queued, and each side's view of the room or
\* of the bytes stays good while it copies.
THEOREM ByteRingCounts == BrSpec => []BrCounts
<1>1. BrInv => BrCounts
  BY DEF BrInv
<1> QED BY <1>1, BrStarts, BrSteps, PTL DEF BrSpec

\* The consumer gets the producer's bytes, each once and in order, at every
\* size and over any number of laps.
THEOREM ByteRingInOrder == BrSpec => []BrInOrder
<1>1. BrInv => BrInOrder
  BY DEF BrInv
<1> QED BY <1>1, BrStarts, BrSteps, PTL DEF BrSpec

\* The two memcpy's of a push and of a pop under way never touch one byte.
THEOREM ByteRingApart == BrSpec => []BrApart
<1>1. BrInv => BrApart
  <2> SUFFICES ASSUME BrInv, NEW k \in 0 .. brPush.n - 1, NEW l \in 0 .. brPop.n - 1
               PROVE  BrPlaceOf(brHead, k) # BrPlaceOf(brTail, l)
    BY DEF BrApart
  <2> USE BrAssumption
  <2>1. /\ brHead \in 0 .. 2 * BrSize - 1 /\ brTail \in 0 .. 2 * BrSize - 1
        /\ brPush.n \in 0 .. BrSize /\ brPop.n \in 0 .. BrSize
        /\ BrSpan(brHead, brTail) \in 0 .. BrSize
        /\ brPush.n <= BrSize - BrSpan(brHead, brTail) /\ brPop.n <= BrSpan(brHead, brTail)
    BY AdvanceSpans DEF BrInv, BrTypeOK, BrCounts, BrRoom
  <2>2. k \in 0 .. BrSize - 1 /\ l \in 0 .. BrSize - 1 /\ l < BrSpan(brHead, brTail)
    BY <2>1
  <2>3. BrOffset(brHead, BrPlaceOf(brHead, k)) = k
    BY <2>1, <2>2, PlacesAreOffsets
  <2>4. BrOffset(brHead, BrPlaceOf(brTail, l)) = l - BrSpan(brHead, brTail) + BrSize
    BY <2>1, <2>2, PlacesFromTail
  <2> QED BY <2>1, <2>2, <2>3, <2>4
<1> QED BY <1>1, BrStarts, BrSteps, PTL DEF BrSpec

-----------------------------------------------------------------------------
(***************************************************************************)
(* The isochronous queue never runs dry: what a tick finds queued covers   *)
(* the tick and a missed one (a bound on a rounded-up quotient, that the   *)
(* cap of twelve transfers leaves intact up to 21 ms). The pace owes what  *)
(* is left over of packets times the rate, so what was sent is the         *)
(* quotient.                                                               *)
(***************************************************************************)

-----------------------------------------------------------------------------
\* The queue.

\* What each variable of the queue holds.
IqTypeOK ==
    /\ iqEp \in [high : BOOLEAN, interval : IsoIntervals, tick : IsoTicks]
    /\ iqDry \in BOOLEAN

\* The queue's inductive invariant.
IqInv == IqTypeOK /\ iqAt \in 0 .. Queue.pkts - 1 /\ ~iqDry

\* A quotient of naturals, rounded up.
LEMMA CeilIs ==
    ASSUME NEW a \in Nat, NEW b \in Nat \ {0}
    PROVE  IqCeil(a, b) \in Nat /\ b * IqCeil(a, b) >= a
<1> DEFINE x == a + b - 1
<1>1. x \in Nat /\ x = a + b - 1
  OBVIOUS
<1> HIDE DEF x
<1>2. x \div b \in Nat
  BY <1>1, FloorIs
<1>3. x = b * (x \div b) + (x % b) /\ x % b \in 0 .. b - 1
  BY <1>1, DivMod
<1> DEFINE q == x \div b  r == x % b
<1>4. q \in Nat /\ r \in 0 .. b - 1 /\ x = b * q + r
  BY <1>2, <1>3
<1> HIDE DEF q, r
<1>5. b * q >= a
  BY <1>1, <1>4
<1>6. IqCeil(a, b) = q
  BY <1>1 DEF IqCeil, q
<1> QED BY <1>4, <1>5, <1>6

\* A transfer's packets, at most 61 slots of them, cover more than half of that
\* unless they are all that a transfer may have.
LEMMA TransferSlots ==
    ASSUME NEW most \in {8, 32}, NEW interval \in Nat \ {0}
    PROVE  LET pkts == IF most * interval <= 61 THEN most ELSE IqMax(1, 61 \div interval) IN
           /\ pkts \in Nat \ {0}
           /\ pkts = most \/ pkts * interval >= 31
<1> DEFINE d == 61 \div interval
<1>1. d \in Nat /\ interval * d <= 61
  BY FloorIs
<1>2. 61 = interval * d + (61 % interval) /\ 61 % interval \in 0 .. interval - 1
  BY DivMod
<1>3. interval * d > 61 - interval
  BY <1>1, <1>2
<1> HIDE DEF d
<1>4. CASE most * interval <= 61
  BY <1>4
<1>5. CASE ~(most * interval <= 61)
  <2> DEFINE pkts == IqMax(1, d)
  <2>1. pkts \in Nat \ {0} /\ pkts >= 1
    BY <1>1 DEF IqMax
  <2>2. pkts * interval >= 31
    <3>1. CASE interval > 30
      <4>1. pkts * interval >= interval
        <5> HIDE DEF pkts
        <5> QED BY <2>1
      <4> QED BY <2>1, <3>1, <4>1
    <3>2. CASE interval <= 30
      <4>1. d >= 1
        <5>1. interval * d > 0
          BY <1>1, <1>3, <3>2
        <5> QED BY <1>1, <5>1
      <4>2. pkts = d
        BY <1>1, <4>1 DEF IqMax
      <4>3. pkts * interval = interval * d
        BY <1>1, <4>2
      <4> QED BY <1>1, <1>3, <3>2, <4>3
    <3> QED BY <3>1, <3>2
  <2> QED BY <1>5, <2>1, <2>2 DEF d
<1> QED BY <1>4, <1>5

\* What the queue's size promises: transfers of some 4 ms or more, three or more,
\* and three ticks of them unless that takes more than twelve.
LEMMA SizeIs ==
    ASSUME NEW high \in BOOLEAN, NEW interval \in Nat \ {0}, NEW tick \in Nat \ {0}
    PROVE  LET q == QueueSize(high, interval, tick)
               us == interval * SlotUs(high)
           IN  /\ q.pkts \in Nat \ {0} /\ q.num \in 3 .. 12 /\ us \in Nat \ {0}
               /\ q.pkts * us >= 3875
               /\ q.num = 12 \/ q.pkts * us * q.num >= 3 * tick * 1000
<1> DEFINE most == IF high THEN 32 ELSE 8
           pkts == IF most * interval <= 61 THEN most ELSE IqMax(1, 61 \div interval)
           slot == SlotUs(high)
           xfer_us == pkts * interval * slot
           ticks == 3 * tick * 1000
           need == IqCeil(ticks, xfer_us)
           num == IqMin(12, IqMax(3, need))
<1>1. most \in {8, 32} /\ slot \in {125, 1000} /\ (most = 8 => slot = 1000)
  BY DEF SlotUs
<1>2. pkts \in Nat \ {0} /\ (pkts = most \/ pkts * interval >= 31)
  BY <1>1, TransferSlots
<1>3. QueueSize(high, interval, tick) = [pkts |-> pkts, num |-> num]
  BY DEF QueueSize
<1> HIDE DEF most, pkts, slot
<1>4. pkts * interval \in Nat \ {0} /\ pkts * interval >= pkts
  BY <1>2
<1>5. xfer_us \in Nat \ {0} /\ xfer_us >= 3875
  <2> DEFINE z == pkts * interval
  <2>1. z \in Nat \ {0} /\ z >= pkts /\ (z >= 31 \/ pkts = most)
    BY <1>2, <1>4
  <2> HIDE DEF z
  <2>2. z >= 31 \/ (z >= 8 /\ slot = 1000)
    BY <1>1, <1>2, <2>1
  <2>3. xfer_us = z * slot
    BY DEF z
  <2> HIDE DEF xfer_us
  <2> QED BY <1>1, <2>1, <2>2, <2>3
<1>6. slot * interval \in Nat \ {0} /\ interval * slot \in Nat \ {0}
  BY <1>1
<1>7. pkts * (interval * slot) = xfer_us
  BY <1>1, <1>2
<1> HIDE DEF xfer_us
<1>8. ticks \in Nat /\ ticks = 3 * tick * 1000
  OBVIOUS
<1> HIDE DEF ticks
<1>9. need \in Nat /\ xfer_us * need >= ticks
  BY <1>5, <1>8, CeilIs
<1> HIDE DEF need
<1>10. num \in 3 .. 12 /\ (num = 12 \/ num >= need)
  BY <1>9 DEF IqMin, IqMax
<1> HIDE DEF num
<1>11. num = 12 \/ xfer_us * num >= ticks
  <2> SUFFICES ASSUME num >= need PROVE xfer_us * num >= ticks
    BY <1>10
  <2>1. xfer_us * num >= xfer_us * need
    BY <1>5, <1>9, <1>10
  <2>2. xfer_us * num \in Nat /\ xfer_us * need \in Nat
    BY <1>5, <1>9, <1>10
  <2> QED BY <1>8, <1>9, <2>1, <2>2
<1> QED BY <1>2, <1>3, <1>5, <1>6, <1>7, <1>8, <1>10, <1>11 DEF slot

\* With such a size, two ticks of packets after part of a transfer are within it.
LEMMA QueueCovers ==
    ASSUME NEW pkts \in Nat \ {0}, NEW num \in 3 .. 12, NEW us \in Nat \ {0},
           NEW t \in Nat, t <= 21000, pkts * us >= 3875,
           num = 12 \/ pkts * us * num >= 3 * t,
           NEW at \in 0 .. pkts - 1, NEW gone \in Nat, gone = 1 \/ us * gone <= 2 * t
    PROVE  at + gone <= pkts * num
<1> DEFINE x == pkts * us
<1>1. x \in Nat /\ x >= 3875 /\ (num = 12 \/ x * num >= 3 * t)
  OBVIOUS
<1>2. x = us * pkts
  OBVIOUS
<1> HIDE DEF x
<1>3. CASE gone = 1
  <2>1. pkts * num >= pkts * 3
    OBVIOUS
  <2> QED BY <1>3, <2>1
<1>4. CASE us * gone <= 2 * t
  <2> SUFFICES ASSUME at + gone > pkts * num PROVE FALSE
    BY SMT
  <2>1. us * (at + gone) > us * (pkts * num)
    <3>1. \A a, b \in Nat : a > b => us * a > us * b
      OBVIOUS
    <3>2. pkts * num \in Nat /\ at + gone \in Nat
      OBVIOUS
    <3> QED BY <3>1, <3>2
  <2>2. us * at <= x - us
    <3>1. us * at <= us * (pkts - 1)
      OBVIOUS
    <3>2. us * (pkts - 1) = us * pkts - us
      OBVIOUS
    <3> QED BY <1>2, <3>1, <3>2
  <2>3. us * (at + gone) = us * at + us * gone
    OBVIOUS
  <2>4. us * (pkts * num) = x * num
    BY <1>2
  <2> DEFINE ua == us * at  ug == us * gone  xn == x * num
  <2>5. ua \in Nat /\ ug \in Nat /\ ua <= x - us /\ ug <= 2 * t /\ ua + ug > xn /\ xn \in Int
    BY <1>1, <1>4, <2>1, <2>2, <2>3, <2>4
  <2>6. x * num >= x * 3 /\ (num = 12 => x * num = x * 12)
    BY <1>1
  <2>7. xn >= 3 * x /\ (num = 12 => xn = 12 * x) /\ (num = 12 \/ xn >= 3 * t)
    BY <1>1, <2>6
  <2> HIDE DEF ua, ug, xn
  <2> QED BY <1>1, <2>5, <2>7
<1> QED BY <1>3, <1>4

\* The endpoint's parts, from the type.
LEMMA IqSlotIs ==
    ASSUME IqTypeOK
    PROVE  /\ iqEp.high \in BOOLEAN /\ iqEp.interval \in Nat \ {0} /\ iqEp.tick \in IsoTicks
           /\ iqEp.tick \in Nat \ {0}
<1>1. iqEp.high \in BOOLEAN /\ iqEp.interval \in IsoIntervals /\ iqEp.tick \in IsoTicks
  BY DEF IqTypeOK
<1> QED BY <1>1, IsoQueueAssumption

\* A tick, with or without the task, leaves the bus something to send.
LEMMA IqStep ==
    ASSUME IsoTicks \subseteq 1 .. 21, IqInv, IqNext
    PROVE  IqInv'
<1> DEFINE us == iqEp.interval * SlotUs(iqEp.high)
           t == iqEp.tick * 1000
<1>1. /\ iqEp.high \in BOOLEAN /\ iqEp.interval \in Nat \ {0} /\ iqEp.tick \in 1 .. 21
      /\ iqEp.tick \in Nat \ {0}
  BY IqSlotIs DEF IqInv
<1>2. /\ Queue.pkts \in Nat \ {0} /\ Queue.num \in 3 .. 12 /\ us \in Nat \ {0}
      /\ Queue.pkts * us >= 3875
      /\ Queue.num = 12 \/ Queue.pkts * us * Queue.num >= 3 * iqEp.tick * 1000
  <2> DEFINE h == iqEp.high  i == iqEp.interval  k == iqEp.tick
  <2>1. h \in BOOLEAN /\ i \in Nat \ {0} /\ k \in Nat \ {0}
    BY <1>1
  <2>2. Queue = QueueSize(h, i, k) /\ us = i * SlotUs(h)
    BY DEF Queue
  <2> HIDE DEF h, i, k, us
  <2>3. LET q == QueueSize(h, i, k)
            u == i * SlotUs(h)
        IN  /\ q.pkts \in Nat \ {0} /\ q.num \in 3 .. 12 /\ u \in Nat \ {0}
            /\ q.pkts * u >= 3875
            /\ q.num = 12 \/ q.pkts * u * q.num >= 3 * k * 1000
    BY <2>1, SizeIs
  <2>4. /\ Queue.pkts \in Nat \ {0} /\ Queue.num \in 3 .. 12 /\ us \in Nat \ {0}
        /\ Queue.pkts * us >= 3875
        /\ Queue.num = 12 \/ Queue.pkts * us * Queue.num >= 3 * k * 1000
    BY <2>2, <2>3
  <2> QED BY <2>4 DEF k
<1>3. t \in Nat /\ t <= 21000 /\ 3 * iqEp.tick * 1000 = 3 * t /\ 2 * iqEp.tick * 1000 = 2 * t
  BY <1>1
<1>4. PICK gone \in 1 .. IqMax(1, InTwoTicks) : IqPump(gone)
  BY DEF IqNext
<1>5. InTwoTicks \in Nat /\ us * InTwoTicks <= 2 * t
  <2>1. InTwoTicks = (2 * t) \div us
    BY <1>3 DEF InTwoTicks
  <2> HIDE DEF us, t
  <2>2. 2 * t \in Nat
    BY <1>3
  <2>3. (2 * t) \div us \in Nat /\ us * ((2 * t) \div us) <= 2 * t
    BY <1>2, <2>2, FloorIs
  <2> QED BY <2>1, <2>3
<1> HIDE DEF us, t
<1>6. gone \in Nat /\ (gone = 1 \/ us * gone <= 2 * t)
  <2>1. CASE InTwoTicks <= 1
    BY <1>4, <1>5, <2>1 DEF IqMax
  <2>2. CASE InTwoTicks > 1
    <3> DEFINE k == InTwoTicks
    <3>1. gone \in Nat /\ gone <= k
      BY <1>4, <1>5, <2>2 DEF IqMax
    <3>2. k \in Nat /\ us * k <= 2 * t
      BY <1>5
    <3> HIDE DEF k
    <3>3. us * gone <= us * k
      BY <1>2, <3>1, <3>2
    <3> QED BY <1>2, <1>3, <3>1, <3>2, <3>3
  <2> QED BY <1>5, <2>1, <2>2
<1>7. iqAt \in 0 .. Queue.pkts - 1 /\ ~iqDry
  BY DEF IqInv
<1>8. iqAt + gone <= Queue.pkts * Queue.num
  <2> DEFINE p == Queue.pkts  n == Queue.num
  <2>1. /\ p \in Nat \ {0} /\ n \in 3 .. 12 /\ us \in Nat \ {0} /\ p * us >= 3875
        /\ n = 12 \/ p * us * n >= 3 * t
        /\ iqAt \in 0 .. p - 1
    BY <1>2, <1>3, <1>7
  <2> HIDE DEF p, n
  <2>2. iqAt + gone <= p * n
    BY <1>3, <1>6, <2>1, QueueCovers
  <2> QED BY <2>2 DEF p, n
<1>9. iqEp' = iqEp /\ Queue' = Queue
  BY <1>4 DEF IqPump, Queue
<1>10. ~iqDry'
  <2>1. iqDry' = (iqDry \/ iqAt + gone > Queue.pkts * Queue.num)
    BY <1>4 DEF IqPump
  <2>2. iqAt + gone \in Int /\ Queue.pkts * Queue.num \in Int
    BY <1>2, <1>6, <1>7
  <2>3. ~(iqAt + gone > Queue.pkts * Queue.num)
    BY <1>8, <2>2
  <2> QED BY <1>7, <2>1, <2>3
<1>11. iqAt' \in 0 .. Queue.pkts - 1
  <2>1. iqAt' = (iqAt + gone) % Queue.pkts
    BY <1>4 DEF IqPump
  <2>2. iqAt + gone \in Int
    BY <1>2, <1>6, <1>7
  <2> DEFINE p == Queue.pkts  x == iqAt + gone
  <2>3. p \in Nat \ {0} /\ x \in Int /\ iqAt' = x % p
    BY <1>2, <2>1, <2>2
  <2> HIDE DEF p, x
  <2>4. x % p \in 0 .. p - 1
    BY <2>3, DivMod
  <2> QED BY <2>3, <2>4 DEF p
<1>12. IqTypeOK'
  <2>1. iqDry' \in BOOLEAN
    BY <1>4, Zenon DEF IqPump
  <2>2. iqEp \in [high : BOOLEAN, interval : IsoIntervals, tick : IsoTicks]
    BY DEF IqInv, IqTypeOK
  <2> QED BY ONLY <1>9, <2>1, <2>2 DEF IqTypeOK
<1> QED BY <1>9, <1>10, <1>11, <1>12 DEF IqInv

\* With ticks of up to 21 ms, where the cap of twelve transfers begins to tell, the
\* bus never finds the queue empty, at either speed and for any period, though the
\* task miss a tick. (usbhost_iso_queue_size; the ports' ticks are of 10 ms or less)
THEOREM IqNeverDry ==
    ASSUME IsoTicks \subseteq 1 .. 21
    PROVE  IqSpec => []NeverDry
<1>1. IqInit => IqInv
  <2> SUFFICES ASSUME IqInit PROVE IqInv
    OBVIOUS
  <2>1. IqTypeOK
    BY DEF IqInit, IqTypeOK
  <2>2. iqEp.high \in BOOLEAN /\ iqEp.interval \in Nat \ {0} /\ iqEp.tick \in Nat \ {0}
    BY <2>1, IqSlotIs
  <2>3. Queue.pkts \in Nat \ {0}
    BY <2>2, SizeIs DEF Queue
  <2>4. iqAt = 0 /\ ~iqDry
    BY DEF IqInit
  <2> QED BY <2>1, <2>3, <2>4 DEF IqInv
<1>2. IqInv /\ [IqNext]_iqVars => IqInv'
  <2>1. CASE IqNext
    BY <2>1, IqStep
  <2>2. CASE UNCHANGED iqVars
    BY <2>2 DEF iqVars, IqInv, IqTypeOK, Queue
  <2> QED BY <2>1, <2>2
<1>3. IqInv => NeverDry
  BY DEF IqInv, NeverDry
<1> QED BY <1>1, <1>2, <1>3, PTL DEF IqSpec

-----------------------------------------------------------------------------
\* The packets.

\* What each variable of the pace holds.
PcTypeOK ==
    /\ pcRate \in Nat /\ pcUs \in Nat \ {0} /\ pcRing \in Nat
    /\ pcMax \in {PacketMax(pcRate, pcUs, 0), PacketMax(pcRate, pcUs, 1)}
    /\ pcSent \in [packets : Nat, bytes : Nat, taken : Nat]

\* What is carried to the next packet is what the rate still owes.
PcCarried == pcAcc = (pcSent.packets * Owed) % Second

\* The pace's inductive invariant.
PcInv == PcTypeOK /\ PcCarried /\ OnRate /\ Aligned

\* A second, as a positive number of microseconds.
LEMMA SecondIs == Second \in Nat \ {0}
BY SMT DEF Second

\* The rounding down of a number to whole frames.
LEMMA WholeFrames ==
    ASSUME NEW n \in Nat, NEW f \in Nat \ {0}
    PROVE  /\ n - (n % f) \in Nat /\ n - (n % f) <= n /\ n - (n % f) > n - f
           /\ (n - (n % f)) % f = 0
<1>1. n = f * (n \div f) + (n % f) /\ n % f \in 0 .. f - 1 /\ n \div f \in Nat
  BY NatDiv
<1> DEFINE q == n \div f  r == n % f
<1>2. n = f * q + r /\ r \in 0 .. f - 1 /\ q \in Nat
  BY <1>1
<1> HIDE DEF q, r
<1>3. f * q \in Nat /\ n - r = f * q /\ n - r <= n /\ n - r > n - f
  BY <1>2
<1>4. (f * q + 0) % f = 0
  BY <1>2, ModOf
<1>5. f * q + 0 = f * q
  BY <1>3
<1>6. (n - r) % f = 0
  BY <1>3, <1>4, <1>5
<1> QED BY <1>3, <1>6 DEF r

\* Two whole numbers of frames are one.
LEMMA FramesAdd ==
    ASSUME NEW a \in Nat, NEW b \in Nat, NEW f \in Nat \ {0}, a % f = 0, b % f = 0
    PROVE  (a + b) % f = 0
<1> DEFINE qa == a \div f  qb == b \div f
<1>1. a = f * qa + (a % f) /\ b = f * qb + (b % f) /\ qa \in Int /\ qb \in Int
  BY DivMod
<1> HIDE DEF qa, qb
<1>2. a + b = f * (qa + qb) + 0
  BY <1>1
<1>3. (f * (qa + qb) + 0) % f = 0
  BY <1>1, ModOf, SMTT(30)
<1> QED BY <1>2, <1>3

\* A packet that holds an interval's whole frames and one, holds whatever is owed
\* when less than a frame was carried; a part of a frame more changes nothing.
LEMMA PacketHolds ==
    ASSUME NEW m \in Nat \ {0}, NEW f \in Nat \ {0}, NEW o \in Nat, NEW acc \in 0 .. m - 1,
           NEW odd \in {0, 1},
           NEW frames, frames = (acc + o) \div m,
           NEW max, max = ((o \div m) + 1) * f + odd
    PROVE  /\ frames \in Nat /\ acc + o - frames * m \in 0 .. m - 1
           /\ frames * f \in Nat /\ max \in Nat /\ frames * f <= max - (max % f)
<1> DEFINE floor == o \div m  rest == o % m  x == acc + o  left == x % m  k == floor + 1
<1>1. o = m * floor + rest /\ rest \in 0 .. m - 1 /\ floor \in Nat
  BY NatDiv
<1>2. x \in Nat /\ x = acc + o
  OBVIOUS
<1>3. frames = x \div m
  OBVIOUS
<1> HIDE DEF x
<1>4. x = m * (x \div m) + (x % m) /\ x % m \in 0 .. m - 1 /\ x \div m \in Nat
  BY <1>2, NatDiv
<1>5. x = m * frames + left /\ left \in 0 .. m - 1 /\ frames \in Nat
  BY <1>3, <1>4
<1>6. max = k * f + odd
  OBVIOUS
<1> HIDE DEF floor, rest, left
<1>7. frames <= floor + 1
  <2> SUFFICES ASSUME frames >= floor + 2 PROVE FALSE
    BY <1>1, <1>5
  <2>1. m * frames >= m * (floor + 2)
    BY <1>1, <1>5
  <2>2. m * (floor + 2) = m * floor + 2 * m
    BY <1>1
  <2> DEFINE mf == m * frames  ml == m * floor  mk == m * (floor + 2)
  <2>3. mf \in Int /\ ml \in Int /\ mk \in Int /\ mf >= mk /\ mk = ml + 2 * m /\ x = mf + left /\ o = ml + rest
    BY <1>1, <1>5, <2>1, <2>2
  <2> HIDE DEF mf, ml, mk
  <2> QED BY <1>1, <1>2, <1>5, <2>3
<1>8. k \in Nat /\ frames <= k
  BY <1>1, <1>7
<1> HIDE DEF k
<1>9. k * f \in Nat /\ frames * f \in Nat /\ frames * f <= k * f /\ k * f = f * k
  BY <1>5, <1>8
<1>10. max \in Nat /\ k * f <= max - (max % f)
  <2>1. CASE odd = 0
    <3>1. (f * k + 0) % f = 0
      BY <1>8, ModOf
    <3>2. f * k + 0 = max
      BY <1>6, <1>9, <2>1
    <3>3. max % f = 0
      BY <3>1, <3>2
    <3> DEFINE kf == k * f
    <3>4. kf \in Nat /\ max = kf
      BY <1>6, <1>9, <2>1
    <3> HIDE DEF kf
    <3>5. max \in Nat /\ kf <= max - (max % f)
      BY <3>3, <3>4
    <3> QED BY <3>5 DEF kf
  <2>2. CASE odd = 1
    <3>1. max \in Nat /\ max = k * f + 1
      BY <1>6, <1>9, <2>2
    <3>2. CASE f = 1
      <4>1. max % f \in 0 .. f - 1
        <5>1. max \in Int
          BY <3>1
        <5> QED BY <5>1, DivMod
      <4>2. max % f = 0
        BY <3>2, <4>1
      <4> DEFINE kf == k * f
      <4>3. kf \in Nat /\ max = kf + 1
        BY <1>9, <3>1
      <4> HIDE DEF kf
      <4>4. kf <= max - (max % f)
        BY <4>2, <4>3
      <4> QED BY <3>1, <4>4 DEF kf
    <3>3. CASE f > 1
      <4>1. (f * k + 1) % f = 1
        <5>1. k \in Int /\ 1 \in 0 .. f - 1
          BY <1>8, <3>3
        <5> QED BY <5>1, ModOf
      <4>2. f * k + 1 = max
        BY <1>9, <3>1
      <4>3. max % f = 1
        BY <4>1, <4>2
      <4> DEFINE kf == k * f
      <4>4. kf \in Nat /\ max = kf + 1
        BY <1>9, <3>1
      <4> HIDE DEF kf
      <4>5. kf <= max - (max % f)
        BY <4>3, <4>4
      <4> QED BY <3>1, <4>5 DEF kf
    <3> QED BY <3>2, <3>3
  <2> QED BY <2>1, <2>2
<1>11. frames * f <= max - (max % f)
  <2> DEFINE kf == k * f  ff == frames * f  c == max % f
  <2>1. kf \in Nat /\ ff \in Nat /\ ff <= kf /\ kf <= max - c
    BY <1>9, <1>10
  <2>2. c \in Int
    BY <1>10, DivMod
  <2> HIDE DEF kf, ff, c
  <2>3. ff <= max - c
    BY <1>10, <2>1, <2>2
  <2> QED BY <2>3 DEF ff, c
<1>12. acc + o - frames * m \in 0 .. m - 1
  <2>1. frames * m = m * frames /\ m * frames \in Int
    BY <1>5
  <2> DEFINE mf == m * frames
  <2>2. frames * m = mf /\ mf \in Int /\ x = mf + left
    BY <1>5, <2>1
  <2> HIDE DEF mf
  <2> QED BY <1>2, <1>5, <2>2
<1> QED BY <1>5, <1>9, <1>10, <1>11, <1>12

\* A packet holds what an interval ever asks of it.
LEMMA NextIs ==
    ASSUME PcTypeOK, pcAcc \in 0 .. Second - 1
    PROVE  LET frames == (pcAcc + Owed) \div Second IN
           /\ frames \in Nat
           /\ PaceNext.acc = pcAcc + Owed - frames * Second
           /\ PaceNext.acc \in 0 .. Second - 1
           /\ PaceNext.want = frames * PaceFrame
<1> DEFINE frames == (pcAcc + Owed) \div Second
           cap == pcMax - (pcMax % PaceFrame)
<1>1. Owed \in Nat /\ PaceFrame \in Nat \ {0} /\ Second \in Nat \ {0}
  BY PaceAssumption, SecondIs DEF PcTypeOK, Owed
<1>2. \E odd \in {0, 1} : pcMax = ((Owed \div Second) + 1) * PaceFrame + odd
  BY DEF PcTypeOK, PacketMax, Owed
<1>3. PICK odd \in {0, 1} : pcMax = ((Owed \div Second) + 1) * PaceFrame + odd
  BY <1>2
<1>4. /\ frames \in Nat /\ pcAcc + Owed - frames * Second \in 0 .. Second - 1
      /\ frames * PaceFrame \in Nat /\ pcMax \in Nat
      /\ frames * PaceFrame <= pcMax - (pcMax % PaceFrame)
  BY <1>1, <1>3, PacketHolds
<1>5. PaceNext = [acc |-> pcAcc + Owed - frames * Second, want |-> PcMin(frames * PaceFrame, cap)]
  BY DEF PaceNext
<1>6. PcMin(frames * PaceFrame, cap) = frames * PaceFrame
  <2> DEFINE c == pcMax % PaceFrame  ff == frames * PaceFrame
  <2>1. c \in Int
    BY <1>1, <1>4, DivMod
  <2>2. ff \in Nat /\ pcMax \in Nat /\ ff <= pcMax - c /\ cap = pcMax - c
    BY <1>4
  <2> HIDE DEF ff, c, cap
  <2>3. PcMin(ff, cap) = ff
    BY <2>1, <2>2 DEF PcMin
  <2> QED BY <2>3 DEF ff
<1> HIDE DEF frames, cap
<1>7. PaceNext.acc = pcAcc + Owed - frames * Second /\ PaceNext.want = frames * PaceFrame
  BY <1>5, <1>6
<1> QED BY <1>4, <1>7 DEF frames

\* What is taken from the ring is whole frames that are there.
LEMMA TakeIs ==
    ASSUME NEW want \in Nat, pcRing \in Nat
    PROVE  Take(want) \in Nat /\ Take(want) % PaceFrame = 0 /\ pcRing - Take(want) \in Nat
<1> DEFINE take == PcMin(pcRing, want)  f == PaceFrame
<1>1. f \in Nat \ {0} /\ take \in Nat /\ take <= pcRing
  BY PaceAssumption DEF PcMin
<1>2. Take(want) = take - (take % f)
  BY DEF Take
<1> HIDE DEF take, f
<1>3. take - (take % f) \in Nat /\ take - (take % f) <= take /\ (take - (take % f)) % f = 0
  BY <1>1, WholeFrames
<1>4. Take(want) \in Nat /\ Take(want) <= take /\ Take(want) % f = 0
  BY <1>2, <1>3
<1> QED BY <1>1, <1>4 DEF f

\* Filling a packet keeps the rate and the frames.
LEMMA PcFillKeeps ==
    ASSUME PcInv, PcFill
    PROVE  PcInv'
<1> DEFINE m == Second  o == Owed  n == pcSent.packets  k == (pcSent.packets * Owed) \div Second
           frames == (pcAcc + Owed) \div Second  f == PaceFrame  next == PaceNext
           took == Take(next.want)
<1>1. /\ pcRate \in Nat /\ pcUs \in Nat \ {0} /\ pcRing \in Nat
      /\ pcSent \in [packets : Nat, bytes : Nat, taken : Nat]
  BY DEF PcInv, PcTypeOK
<1>0. m \in Nat \ {0}
  BY SecondIs
<1>2. o \in Nat /\ n \in Nat /\ n * o \in Nat
  BY <1>1 DEF Owed
<1>3. f \in Nat \ {0}
  BY PaceAssumption
<1>4. n * o = m * k + pcAcc /\ pcAcc \in 0 .. Second - 1 /\ k \in Nat
  <2>1. pcAcc = (n * o) % m /\ k = (n * o) \div m
    BY DEF PcInv, PcCarried
  <2> DEFINE x == n * o
  <2>2. x \in Nat
    BY <1>2
  <2> HIDE DEF x, k
  <2>3. m \in Nat \ {0}
    BY SecondIs
  <2> HIDE DEF m
  <2>4. x = m * (x \div m) + (x % m) /\ x % m \in 0 .. m - 1 /\ x \div m \in Nat
    BY <2>2, <2>3, NatDiv
  <2>5. x = m * k + pcAcc /\ pcAcc \in 0 .. m - 1 /\ k \in Nat
    BY <2>1, <2>4 DEF x
  <2> QED BY <2>5 DEF x, m
<1>5. pcSent.bytes = k * f
  BY DEF PcInv, OnRate
<1>6. pcSent.taken \in Nat /\ pcSent.taken % f = 0
  BY <1>1 DEF PcInv, Aligned
<1>7. /\ frames \in Nat /\ next.acc = pcAcc + o - frames * m /\ next.acc \in 0 .. Second - 1
      /\ next.want = frames * f
  BY <1>4, NextIs DEF PcInv
<1>8. next.want \in Nat
  <2> HIDE DEF frames, next
  <2> QED BY <1>3, <1>7
<1>9. took \in Nat /\ took % f = 0 /\ pcRing - took \in Nat
  BY <1>1, <1>8, TakeIs
<1>10. /\ pcAcc' = next.acc /\ pcRing' = pcRing - took
       /\ pcSent' = [packets |-> n + 1, bytes |-> pcSent.bytes + next.want,
                     taken |-> pcSent.taken + took]
       /\ pcRate' = pcRate /\ pcUs' = pcUs /\ pcMax' = pcMax
  BY DEF PcFill
<1>11. Owed' = Owed
  BY <1>10 DEF Owed
<1> HIDE DEF m, o, n, k, frames, f, next, took
<1>12. (n + 1) * o = m * (k + frames) + next.acc
  <2>1. (n + 1) * o = n * o + o
    BY <1>2
  <2>3. m * (k + frames) = m * k + m * frames /\ m * frames = frames * m /\ m * k \in Int
        /\ m * frames \in Int
    BY <1>0, <1>4, <1>7
  <2> DEFINE z == n * o
  <2>2. z = m * k + pcAcc /\ (n + 1) * o = z + o
    BY <1>4, <2>1
  <2> DEFINE mk == m * k  mf == m * frames
  <2>4. z = mk + pcAcc /\ (n + 1) * o = z + o /\ m * (k + frames) = mk + mf /\ mk \in Int /\ mf \in Int
        /\ next.acc = pcAcc + o - mf
    BY <1>7, <2>2, <2>3
  <2> HIDE DEF z, mk, mf
  <2> DEFINE a == next.acc  lhs == (n + 1) * o  rhs == m * (k + frames)
  <2>5. z = mk + pcAcc /\ lhs = z + o /\ rhs = mk + mf /\ mk \in Int /\ mf \in Int
        /\ a = pcAcc + o - mf /\ pcAcc \in Int /\ o \in Int
    BY <1>2, <1>4, <2>4
  <2> HIDE DEF a, lhs, rhs
  <2>6. lhs = rhs + a
    BY <2>5
  <2> QED BY <2>6 DEF a, lhs, rhs
<1>13. ((n + 1) * o) % m = next.acc /\ ((n + 1) * o) \div m = k + frames
  <2>1. (m * (k + frames) + next.acc) % m = next.acc /\ (m * (k + frames) + next.acc) \div m = k + frames
    <3>1. k + frames \in Int /\ next.acc \in 0 .. m - 1 /\ m \in Nat \ {0}
      <4>1. k + frames \in Int
        BY <1>4, <1>7
      <4>2. next.acc \in 0 .. m - 1
        BY <1>7 DEF m
      <4> QED BY <1>0, <4>1, <4>2
    <3> QED BY <3>1, ModOf
  <2> QED BY <1>12, <2>1
<1>14. pcSent'.packets = n + 1 /\ pcSent'.bytes = pcSent.bytes + next.want
       /\ pcSent'.taken = pcSent.taken + took
  BY <1>10
<1>15. PcTypeOK'
  <2>1. pcRing' \in Nat
    BY <1>9, <1>10
  <2>2. pcSent' \in [packets : Nat, bytes : Nat, taken : Nat]
    BY <1>1, <1>2, <1>8, <1>9, <1>10
  <2>3. pcMax \in {PacketMax(pcRate, pcUs, 0), PacketMax(pcRate, pcUs, 1)}
    BY DEF PcInv, PcTypeOK
  <2> QED BY <1>1, <1>10, <2>1, <2>2, <2>3 DEF PcTypeOK
<1>16. PcCarried'
  <2>1. pcAcc' = (pcSent'.packets * Owed') % m
    BY <1>10, <1>11, <1>13, <1>14 DEF o
  <2> QED BY <2>1 DEF PcCarried, m
<1>17. pcSent'.bytes = (k + frames) * f
  <2>1. (k + frames) * f = k * f + frames * f
    BY <1>3, <1>4, <1>7
  <2> QED BY <1>5, <1>7, <1>14, <2>1
<1>18. OnRate'
  <2>1. pcSent'.bytes = ((pcSent'.packets * Owed') \div m) * f
    BY <1>11, <1>13, <1>14, <1>17 DEF o
  <2> QED BY <2>1 DEF OnRate, m, f
<1>19. Aligned'
  <2>1. pcSent'.taken % f = 0
    BY <1>3, <1>6, <1>9, <1>14, FramesAdd
  <2>2. pcSent'.bytes = f * (k + frames) + 0
    BY <1>3, <1>4, <1>7, <1>17
  <2>3. (f * (k + frames) + 0) % f = 0
    <3>1. k + frames \in Int /\ 0 \in 0 .. f - 1
      BY <1>3, <1>4, <1>7
    <3> QED BY <1>3, <3>1, ModOf
  <2> QED BY <2>1, <2>2, <2>3 DEF Aligned, f
<1> QED BY <1>15, <1>16, <1>18, <1>19 DEF PcInv

\* So does every step.
LEMMA PcStep ==
    ASSUME PcInv, [PcNext]_pcVars
    PROVE  PcInv'
<1>1. CASE PcFill
  BY <1>1, PcFillKeeps
<1>2. CASE PcPush
  <2>1. pcRing \in Nat
    BY DEF PcInv, PcTypeOK
  <2>2. pcRing' \in Nat
    <3>1. PacePush \in Nat /\ PaceRing \in Nat
      BY PaceAssumption
    <3> DEFINE n == PcMin(PacePush, PaceRing - pcRing)
    <3>2. pcRing' = pcRing + n
      BY <1>2 DEF PcPush
    <3>3. n = PacePush \/ n = PaceRing - pcRing
      BY DEF PcMin
    <3> HIDE DEF n
    <3> QED BY <2>1, <3>1, <3>2, <3>3
  <2> QED BY <1>2, <2>2 DEF PcPush, PcInv, PcTypeOK, PcCarried, OnRate, Aligned, Owed, PacketMax
<1>3. CASE UNCHANGED pcVars
  BY <1>3 DEF pcVars, PcInv, PcTypeOK, PcCarried, OnRate, Aligned, Owed, PacketMax
<1> QED BY <1>1, <1>2, <1>3 DEF PcNext

\* For any rate, period, frame and source: the packets carry the rate to the frame,
\* each of whole frames no longer than the endpoint's packet, and what the ring
\* cannot give is made up. (usbhost_iso_pace_next, usbhost_stream_fill)
THEOREM PaceKeepsRate == PcSpec => []PaceSafe
<1>1. PcInit => PcInv
  <2> SUFFICES ASSUME PcInit PROVE PcInv
    OBVIOUS
  <2>1. /\ pcRate \in Nat /\ pcUs \in Nat \ {0} /\ pcRing = 0 /\ pcAcc = 0
        /\ pcMax \in {PacketMax(pcRate, pcUs, 0), PacketMax(pcRate, pcUs, 1)}
        /\ pcSent = [packets |-> 0, bytes |-> 0, taken |-> 0]
    BY PaceAssumption DEF PcInit
  <2>2. PcTypeOK
    BY <2>1 DEF PcTypeOK
  <2>3. PaceFrame \in Nat \ {0} /\ Owed \in Nat
    BY <2>1, PaceAssumption DEF Owed
  <2>4. 0 * Owed = 0 /\ 0 % Second = 0 /\ 0 \div Second = 0 /\ 0 % PaceFrame = 0 /\ 0 * PaceFrame = 0
    <3>1. 0 * Owed = 0 /\ 0 * PaceFrame = 0
      BY <2>3
    <3>2. \A d \in Nat \ {0} : 0 % d = 0 /\ 0 \div d = 0
      OBVIOUS
    <3> QED BY <2>3, <3>1, <3>2, SecondIs
  <2> QED BY <2>1, <2>2, <2>4 DEF PcInv, PcCarried, OnRate, Aligned
<1>2. PcInv /\ [PcNext]_pcVars => PcInv'
  BY PcStep
<1>3. PcInv => PaceSafe
  BY DEF PcInv, PaceSafe
<1> QED BY <1>1, <1>2, <1>3, PTL DEF PcSpec

\* Both of what an isochronous OUT endpoint needs of its helpers, together.
\* (usbhost_iso_queue.h, usbhost_iso_pace.h)
THEOREM IsoKeepsItsPromises ==
    ASSUME IsoTicks \subseteq 1 .. 21
    PROVE  IqSpec /\ PcSpec => []IsoSafe
<1>1. IqSpec => []NeverDry
  BY IqNeverDry
<1>2. PcSpec => []PaceSafe
  BY PaceKeepsRate
<1>3. NeverDry /\ PaceSafe => IsoSafe
  BY DEF IsoSafe
<1> QED BY <1>1, <1>2, <1>3, PTL

-----------------------------------------------------------------------------
(***************************************************************************)
(* The capture ring. Inductive is that the unread slots, from the reader's *)
(* on, hold numbers that rise to the interrupt's clock, by ones until a    *)
(* drop is counted; that a push in hand has room behind them; and that a   *)
(* pull in hand copies the first of them.                                  *)
(***************************************************************************)

\* The places of the ring.
CrSlots == 0 .. CrLen - 1

\* What each variable holds.
CrTypeOK ==
    /\ crRing \in [CrSlots -> Nat]
    /\ crPos \in [w : CrSlots, r : CrSlots]
    /\ crCount \in [written : 0 .. CrWord - 1, taken : 0 .. CrWord - 1]
    /\ crTold \in [dropped : Nat, seen : Nat, overflow : BOOLEAN]
    /\ crCap \in [buf : BOOLEAN, armed : BOOLEAN]
    /\ crIsr \in [at : {"off", "seen", "push"}, in : Nat, of : Nat]
    /\ crRec.does \in {"idle", "ask", "pull"} /\ crRec.n \in Nat
    /\ crGot \in Nat /\ crClock \in Nat /\ crOwed \in BOOLEAN

\* The slot i after the reader's, and the frames that came before a push in hand.
CrFrom(r, i) == (r + i) % CrLen
CrSlot(i) == CrFrom(crPos.r, i)
CrBefore == crClock - (IF CrPushing THEN crIsr.of ELSE 0)

\* The counts and the positions say the same.
CrCounts == CrHave <= CrLen /\ crPos.w = CrSlot(CrHave)

\* What is unread is new, in order, and without a hole until one was told of.
CrUnread ==
    /\ CrBefore \in Nat /\ crGot <= CrBefore
    /\ \A i \in 0 .. CrHave - 1 : crGot < crRing[CrSlot(i)] /\ crRing[CrSlot(i)] <= CrBefore
    /\ \A i, j \in 0 .. CrHave - 1 : i < j => crRing[CrSlot(i)] < crRing[CrSlot(j)]
    /\ crTold.dropped = 0 =>
          \A i \in 0 .. CrHave - 1 : crRing[CrSlot(i)] = CrBefore + i + 1 - CrHave

\* A push in hand fits behind it.
CrPushed ==
    CrPushing =>
      /\ crCap.buf /\ crIsr.in <= crIsr.of /\ CrHave + crIsr.in <= CrLen
      /\ \A i \in 0 .. crIsr.in - 1 : crRing[CrSlot(CrHave + i)] = CrBefore + 1 + i

\* The copy in hand is of what is still there.
CrCopied ==
    CrPulling =>
      /\ crRec.n \in 1 .. CrHave
      /\ crRec.copy = [i \in 1 .. crRec.n |-> crRing[CrSlot(i - 1)]]

\* What was told of drops is no more than there were.
CrTelling == crTold.seen <= crTold.dropped /\ CrDropsAreTold

\* The inductive invariant.
CrInv == CrTypeOK /\ CrCounts /\ CrUnread /\ CrPushed /\ CrCopied /\ CrTelling

\* A place counted from another, within one lap.
LEMMA CrFromIs ==
    ASSUME NEW r \in CrSlots, NEW i \in 0 .. CrLen
    PROVE  CrFrom(r, i) \in CrSlots /\ CrFrom(r, i) = IF r + i < CrLen THEN r + i ELSE r + i - CrLen
BY RingOn, CrAssumption DEF CrFrom, CrSlots

\* The distance of two counts that wrap at a word.
LEMMA CrHaveIs ==
    ASSUME NEW w \in 0 .. CrWord - 1, NEW t \in 0 .. CrWord - 1
    PROVE  (w + CrWord - t) % CrWord = IF w >= t THEN w - t ELSE w + CrWord - t
<1>1. CrWord \in Nat \ {0}
  BY CrAssumption
<1> QED BY <1>1, RingBetween

\* A count, moved on by no more than the ring is long.
LEMMA CrAddIs ==
    ASSUME NEW w \in 0 .. CrWord - 1, NEW n \in 0 .. CrLen
    PROVE  /\ (w + n) % CrWord \in 0 .. CrWord - 1
           /\ (w + n) % CrWord = IF w + n < CrWord THEN w + n ELSE w + n - CrWord
<1>1. CrWord \in Nat \ {0} /\ n \in 0 .. CrWord
  BY CrAssumption
<1> QED BY <1>1, RingOn

\* What is unread is a number of frames.
LEMMA CrHaveType == CrTypeOK => CrHave \in Nat
<1> SUFFICES ASSUME CrTypeOK PROVE CrHave \in Nat
  OBVIOUS
<1>1. crCount.written \in 0 .. CrWord - 1 /\ crCount.taken \in 0 .. CrWord - 1
  BY DEF CrTypeOK
<1>2. CrHave = IF crCount.written >= crCount.taken THEN crCount.written - crCount.taken
               ELSE crCount.written + CrWord - crCount.taken
  BY <1>1, CrHaveIs DEF CrHave
<1> QED BY <1>1, <1>2, CrAssumption

\* A step that leaves the ring alone leaves what is unread.
LEMMA CrRingStays ==
    ASSUME UNCHANGED <<crRing, crPos, crCount>>
    PROVE  /\ CrHave' = CrHave /\ \A k : CrSlot(k)' = CrSlot(k)
           /\ CrCounts => CrCounts'
BY DEF CrHave, CrSlot, CrCounts

\* Telling of drops makes none, and forgets none.
LEMMA CrNotedKeeps ==
    ASSUME CrTypeOK
    PROVE  /\ CrNoted \in [dropped : Nat, seen : Nat, overflow : BOOLEAN]
           /\ CrNoted.dropped = crTold.dropped /\ CrNoted.seen = crTold.dropped
           /\ crTold.overflow \/ crTold.dropped # crTold.seen => CrNoted.overflow
<1>1. crTold \in [dropped : Nat, seen : Nat, overflow : BOOLEAN]
  BY DEF CrTypeOK
<1>2. CrNoted \in [dropped : Nat, seen : Nat, overflow : BOOLEAN]
  BY <1>1 DEF CrNoted
<1>3. CrNoted.dropped = crTold.dropped /\ CrNoted.seen = crTold.dropped
  BY <1>1 DEF CrNoted
<1>4. crTold.overflow \/ crTold.dropped # crTold.seen => CrNoted.overflow
  BY <1>1 DEF CrNoted
<1> QED BY <1>2, <1>3, <1>4

\* The interrupt's look, and the ring's life but for its beginning.
LEMMA CrLooks ==
    ASSUME CrInv, CrIsrSees \/ CrIsrGivesUp \/ CrArm \/ CrRelease
    PROVE  CrInv'
<1> USE DEF CrInv
<1>1. /\ UNCHANGED <<crRing, crPos, crCount, crTold, crRec, crGot, crClock, crOwed>>
      /\ ~CrPushing => ~CrPushing'
      /\ CrPushing => crIsr' = crIsr
  BY DEF CrIsrSees, CrIsrGivesUp, CrArm, CrRelease, CrPushing, CrAt, CrTypeOK
<1>2. CrTypeOK'
  <2>1. crIsr' \in [at : {"off", "seen", "push"}, in : Nat, of : Nat]
    BY DEF CrIsrSees, CrIsrGivesUp, CrArm, CrRelease, CrAt, CrTypeOK
  <2>2. crCap' \in [buf : BOOLEAN, armed : BOOLEAN]
    <3>1. CASE CrIsrSees \/ CrIsrGivesUp
      BY <3>1 DEF CrIsrSees, CrIsrGivesUp, CrTypeOK
    <3>2. CASE CrArm
      BY <3>2 DEF CrArm, CrTypeOK
    <3>3. CASE CrRelease
      BY <3>3 DEF CrRelease
    <3> QED BY <3>1, <3>2, <3>3
  <2> QED BY <1>1, <2>1, <2>2 DEF CrTypeOK
<1>3. CrHave' = CrHave /\ (\A k : CrSlot(k)' = CrSlot(k)) /\ CrCounts'
  BY <1>1, CrRingStays
<1>4. CrPushing' = CrPushing /\ CrBefore' = CrBefore
  BY <1>1 DEF CrBefore, CrPushing
<1>5. CrUnread'
  BY <1>1, <1>3, <1>4 DEF CrUnread
<1>6. CrPushing => crCap'.buf = crCap.buf
  BY DEF CrIsrSees, CrIsrGivesUp, CrArm, CrRelease, CrTypeOK, CrPushing
<1>7. CrPushed'
  BY <1>1, <1>3, <1>4, <1>6 DEF CrPushed
<1>8. CrCopied'
  BY <1>1, <1>3 DEF CrCopied, CrPulling
<1>9. CrTelling'
  <2>1. crCap'.buf => crCap.buf
    BY DEF CrIsrSees, CrIsrGivesUp, CrArm, CrRelease, CrTypeOK
  <2> QED BY <1>1, <2>1 DEF CrTelling, CrDropsAreTold
<1> QED BY <1>2, <1>3, <1>5, <1>7, <1>8, <1>9

\* A push is copied into slots nobody reads.
LEMMA CrCopies ==
    ASSUME CrInv, NEW k \in 1 .. CrBurst, CrIsrCopies(k)
    PROVE  CrInv'
<1> USE DEF CrInv
<1> DEFINE n == CrLeast(k, CrLen - CrHave)
           At(slot) == (slot + CrLen - crPos.w) % CrLen
<1>1. /\ crIsr.at = "seen" /\ CrStillArmed
      /\ crRing' = [s \in 0..CrLen - 1 |-> IF At(s) < n THEN crClock + 1 + At(s) ELSE crRing[s]]
      /\ crIsr' = [at |-> "push", in |-> n, of |-> k]
      /\ crClock' = crClock + k
      /\ UNCHANGED <<crPos, crCount, crTold, crCap, crRec, crGot, crOwed>>
  BY DEF CrIsrCopies
<1>2. /\ CrHave \in 0 .. CrLen /\ CrHave' = CrHave /\ \A i : CrSlot(i)' = CrSlot(i)
      /\ n \in 0 .. CrLen - CrHave /\ n <= k /\ k \in Nat
  BY <1>1, CrHaveType, CrAssumption DEF CrHave, CrSlot, CrCounts, CrLeast
<1>3. CrBefore = crClock /\ CrBefore' = crClock
  BY <1>1 DEF CrBefore, CrPushing, CrTypeOK
<1>4. crPos.r \in CrSlots /\ crPos.w \in CrSlots /\ crClock \in Nat /\ crPos.w = CrSlot(CrHave)
  BY DEF CrTypeOK, CrCounts
<1> HIDE DEF n
<1>5. \A s \in CrSlots : At(s) = IF s >= crPos.w THEN s - crPos.w ELSE s + CrLen - crPos.w
  <2> SUFFICES ASSUME NEW s \in CrSlots
               PROVE  At(s) = IF s >= crPos.w THEN s - crPos.w ELSE s + CrLen - crPos.w
    OBVIOUS
  <2>1. CrLen \in Nat \ {0} /\ s \in 0 .. CrLen - 1 /\ crPos.w \in 0 .. CrLen - 1
    BY <1>4, CrAssumption DEF CrSlots
  <2> QED BY ONLY <2>1, RingBetween
<1> HIDE DEF At
<1>6. \A s \in CrSlots : At(s) \in Nat /\ crRing'[s] = IF At(s) < n THEN crClock + 1 + At(s) ELSE crRing[s]
  <2> SUFFICES ASSUME NEW s \in CrSlots
               PROVE  At(s) \in Nat
                      /\ crRing'[s] = IF At(s) < n THEN crClock + 1 + At(s) ELSE crRing[s]
    OBVIOUS
  <2>1. At(s) \in Nat
    BY <1>4, <1>5, CrAssumption DEF CrSlots
  <2>2. s \in 0 .. CrLen - 1
    BY DEF CrSlots
  <2>3. crRing'[s] = IF At(s) < n THEN crClock + 1 + At(s) ELSE crRing[s]
    BY <1>1, <2>2, Zenon
  <2> QED BY <2>1, <2>3
<1>7. \A i \in 0 .. CrLen - 1 : CrSlot(i) \in CrSlots
             /\ At(CrSlot(i)) = IF i < CrHave THEN i + CrLen - CrHave ELSE i - CrHave
  <2> SUFFICES ASSUME NEW i \in 0 .. CrLen - 1
               PROVE  CrSlot(i) \in CrSlots
             /\ At(CrSlot(i)) = IF i < CrHave THEN i + CrLen - CrHave ELSE i - CrHave
    OBVIOUS
  <2>1. /\ CrSlot(i) \in CrSlots
        /\ CrSlot(i) = IF crPos.r + i < CrLen THEN crPos.r + i ELSE crPos.r + i - CrLen
    BY <1>4, CrFromIs, CrAssumption DEF CrSlot
  <2>2. crPos.w = IF crPos.r + CrHave < CrLen THEN crPos.r + CrHave ELSE crPos.r + CrHave - CrLen
    BY <1>2, <1>4, CrFromIs DEF CrSlot
  <2> QED BY <1>2, <1>4, <1>5, <2>1, <2>2, CrAssumption DEF CrSlots
<1>8. \A i \in 0 .. CrHave - 1 : crRing'[CrSlot(i)] = crRing[CrSlot(i)]
  BY <1>2, <1>6, <1>7, CrAssumption
<1>9. CrTypeOK'
  <2>1. crRing' \in [CrSlots -> Nat]
    BY <1>1, <1>4, <1>5, <1>6 DEF CrTypeOK, CrSlots
  <2>2. crIsr' \in [at : {"off", "seen", "push"}, in : Nat, of : Nat] /\ crClock' \in Nat
    BY <1>1, <1>2, <1>4
  <2> QED BY <1>1, <2>1, <2>2 DEF CrTypeOK
<1>10. CrCounts'
  BY <1>1, <1>2 DEF CrCounts
<1>11. CrUnread'
  BY <1>1, <1>2, <1>3, <1>8 DEF CrUnread
<1>12. CrPushed'
  <2>1. crCap'.buf /\ crIsr'.in = n /\ crIsr'.of = k
    BY <1>1 DEF CrStillArmed
  <2>2. \A i \in 0 .. n - 1 : crRing'[CrSlot(CrHave + i)] = crClock + 1 + i
    <3> SUFFICES ASSUME NEW i \in 0 .. n - 1
                 PROVE  crRing'[CrSlot(CrHave + i)] = crClock + 1 + i
      OBVIOUS
    <3>1. CrHave + i \in 0 .. CrLen - 1 /\ ~(CrHave + i < CrHave) /\ (CrHave + i) - CrHave = i /\ i < n
      BY <1>2, CrAssumption
    <3> QED BY <1>6, <1>7, <3>1
  <2> QED BY <1>2, <1>3, <2>1, <2>2, CrAssumption DEF CrPushed
<1>13. CrCopied'
  <2> SUFFICES ASSUME CrPulling'
               PROVE  /\ crRec'.n \in 1 .. CrHave'
                      /\ crRec'.copy = [i \in 1 .. crRec'.n |-> crRing'[CrSlot(i - 1)']]
    BY DEF CrCopied
  <2>1. /\ crRec' = crRec /\ crRec.n \in 1 .. CrHave
        /\ crRec.copy = [i \in 1 .. crRec.n |-> crRing[CrSlot(i - 1)]]
    BY <1>1 DEF CrCopied, CrPulling
  <2>2. \A i \in 1 .. crRec.n : crRing'[CrSlot(i - 1)] = crRing[CrSlot(i - 1)]
    BY <1>2, <1>8, <2>1
  <2> QED BY <1>2, <2>1, <2>2
<1>14. CrTelling'
  BY <1>1 DEF CrTelling, CrDropsAreTold
<1> QED BY <1>9, <1>10, <1>11, <1>12, <1>13, <1>14

\* What was copied is told, or what there was no room for.
LEMMA CrPublishes ==
    ASSUME CrInv, CrIsrPublishes
    PROVE  CrInv'
<1> USE DEF CrInv
<1> DEFINE lost == crIsr.of - crIsr.in
<1>1. /\ CrPushing
      /\ crPos' = [crPos EXCEPT !.w = (@ + crIsr.in) % CrLen]
      /\ crCount' = [crCount EXCEPT !.written = (@ + crIsr.in) % CrWord]
      /\ crTold' = [crTold EXCEPT !.dropped = @ + lost]
      /\ crOwed' = (crOwed \/ lost > 0)
      /\ crIsr' = CrAt("off")
      /\ UNCHANGED <<crRing, crCap, crRec, crGot, crClock>>
  BY DEF CrIsrPublishes
<1>2. /\ CrHave \in 0 .. CrLen /\ crIsr.in \in 0 .. CrLen /\ CrHave + crIsr.in \in 0 .. CrLen
      /\ lost \in Nat /\ crIsr.in \in Nat /\ crIsr.of \in Nat
  BY <1>1, CrHaveType, CrAssumption DEF CrTypeOK, CrCounts, CrPushed
<1>3. /\ crCount'.taken = crCount.taken /\ crCount'.written = (crCount.written + crIsr.in) % CrWord
      /\ crCount.written \in 0 .. CrWord - 1 /\ crCount.taken \in 0 .. CrWord - 1
      /\ crPos'.r = crPos.r /\ crPos'.w = (crPos.w + crIsr.in) % CrLen
      /\ crPos.r \in CrSlots /\ crPos.w \in CrSlots
  BY <1>1 DEF CrTypeOK
<1>4. /\ crCount'.written \in 0 .. CrWord - 1
      /\ crCount'.written = IF crCount.written + crIsr.in < CrWord THEN crCount.written + crIsr.in
                            ELSE crCount.written + crIsr.in - CrWord
  BY <1>2, <1>3, CrAddIs
<1>5. CrHave' = CrHave + crIsr.in
  <2>1. CrHave = IF crCount.written >= crCount.taken THEN crCount.written - crCount.taken
                 ELSE crCount.written + CrWord - crCount.taken
    BY <1>3, CrHaveIs DEF CrHave
  <2>2. CrHave' = IF crCount'.written >= crCount.taken THEN crCount'.written - crCount.taken
                  ELSE crCount'.written + CrWord - crCount.taken
    BY <1>3, <1>4, CrHaveIs DEF CrHave
  <2>3. crCount.written \in 0 .. CrWord - 1 /\ crCount.taken \in 0 .. CrWord - 1
    BY <1>3
  <2> QED BY ONLY <1>2, <1>4, <2>1, <2>2, <2>3, CrAssumption
<1>6. \A k : CrSlot(k)' = CrSlot(k)
  BY <1>3 DEF CrSlot
<1>7. crPos'.w \in CrSlots /\ crPos'.w = CrSlot(CrHave + crIsr.in)
  <2>1. crPos'.w \in CrSlots /\ crPos'.w = IF crPos.w + crIsr.in < CrLen THEN crPos.w + crIsr.in
                                           ELSE crPos.w + crIsr.in - CrLen
    BY <1>2, <1>3, CrFromIs DEF CrFrom
  <2>2. crPos.w = IF crPos.r + CrHave < CrLen THEN crPos.r + CrHave ELSE crPos.r + CrHave - CrLen
    BY <1>2, <1>3, CrFromIs DEF CrCounts, CrSlot
  <2>3. CrSlot(CrHave + crIsr.in) = IF crPos.r + (CrHave + crIsr.in) < CrLen THEN crPos.r + (CrHave + crIsr.in)
                                    ELSE crPos.r + (CrHave + crIsr.in) - CrLen
    BY <1>2, <1>3, CrFromIs DEF CrSlot
  <2> QED BY <1>2, <1>3, <2>1, <2>2, <2>3, CrAssumption DEF CrSlots
<1>8. CrBefore = crClock - crIsr.of /\ CrBefore' = crClock /\ crClock \in Nat /\ CrBefore \in Nat
  BY <1>1 DEF CrBefore, CrPushing, CrAt, CrTypeOK, CrUnread
<1>9. /\ crTold'.dropped = crTold.dropped + lost /\ crTold'.seen = crTold.seen
      /\ crTold'.overflow = crTold.overflow
      /\ crTold.dropped \in Nat /\ crTold.seen \in Nat
  BY <1>1 DEF CrTypeOK
<1>10. CrTypeOK'
  <2>1. crPos' \in [w : CrSlots, r : CrSlots]
    BY <1>1, <1>3, <1>7 DEF CrTypeOK
  <2>2. crCount' \in [written : 0 .. CrWord - 1, taken : 0 .. CrWord - 1]
    BY <1>1, <1>3, <1>4 DEF CrTypeOK
  <2>3. crTold' \in [dropped : Nat, seen : Nat, overflow : BOOLEAN]
    BY <1>1, <1>2 DEF CrTypeOK
  <2>4. crIsr' \in [at : {"off", "seen", "push"}, in : Nat, of : Nat]
    BY <1>1 DEF CrAt
  <2>5. crOwed' \in BOOLEAN
    BY <1>1
  <2> QED BY <1>1, <2>1, <2>2, <2>3, <2>4, <2>5 DEF CrTypeOK
<1>11. CrCounts'
  BY <1>2, <1>5, <1>6, <1>7 DEF CrCounts
<1>12. \A i \in 0 .. crIsr.in - 1 : crRing[CrSlot(CrHave + i)] = CrBefore + 1 + i
  BY <1>1 DEF CrPushed
<1>13. \A j \in 0 .. CrHave' - 1 : j \in 0 .. CrHave - 1 \/
           (j - CrHave \in 0 .. crIsr.in - 1 /\ crRing[CrSlot(j)] = CrBefore + 1 + (j - CrHave))
  <2> SUFFICES ASSUME NEW j \in 0 .. CrHave' - 1, ~(j \in 0 .. CrHave - 1)
               PROVE  j - CrHave \in 0 .. crIsr.in - 1
                      /\ crRing[CrSlot(j)] = CrBefore + 1 + (j - CrHave)
    OBVIOUS
  <2>1. j - CrHave \in 0 .. crIsr.in - 1 /\ CrHave + (j - CrHave) = j
    BY <1>2, <1>5
  <2> QED BY <1>12, <2>1
<1>0. \A i \in 0 .. CrLen : CrSlot(i) \in CrSlots
  BY <1>3, CrFromIs DEF CrSlot
<1>14. CrUnread'
  <2>1. CrBefore' \in Nat /\ crGot <= CrBefore'
    BY <1>1, <1>2, <1>8 DEF CrUnread, CrTypeOK
  <2>2. \A i \in 0 .. CrHave' - 1 : crGot < crRing[CrSlot(i)] /\ crRing[CrSlot(i)] <= crClock
    <3> SUFFICES ASSUME NEW i \in 0 .. CrHave' - 1
                 PROVE  crGot < crRing[CrSlot(i)] /\ crRing[CrSlot(i)] <= crClock
      OBVIOUS
    <3>1. CASE i \in 0 .. CrHave - 1
      <4>1. CrSlot(i) \in CrSlots
        <5>1. i \in 0 .. CrLen
          BY <1>2, <3>1, CrAssumption
        <5> QED BY <1>0, <5>1
      <4>2. crRing[CrSlot(i)] \in Nat
        BY <4>1 DEF CrTypeOK
      <4> QED BY <1>2, <1>8, <3>1, <4>2 DEF CrUnread
    <3>2. CASE i - CrHave \in 0 .. crIsr.in - 1 /\ crRing[CrSlot(i)] = CrBefore + 1 + (i - CrHave)
      <4>1. crIsr.in <= crIsr.of /\ crGot \in Nat /\ crGot <= CrBefore
        BY <1>1 DEF CrPushed, CrTypeOK, CrUnread
      <4> QED BY <1>2, <1>8, <3>2, <4>1
    <3> QED BY <1>13, <3>1, <3>2
  <2>3. \A i, j \in 0 .. CrHave' - 1 : i < j => crRing[CrSlot(i)] < crRing[CrSlot(j)]
    <3> SUFFICES ASSUME NEW i \in 0 .. CrHave' - 1, NEW j \in 0 .. CrHave' - 1, i < j
                 PROVE  crRing[CrSlot(i)] < crRing[CrSlot(j)]
      OBVIOUS
    <3>1. CASE j \in 0 .. CrHave - 1
      <4>1. i \in 0 .. CrHave - 1
        BY <1>2, <3>1
      <4> QED BY <3>1, <4>1 DEF CrUnread
    <3>2. CASE i \in 0 .. CrHave - 1 /\ ~(j \in 0 .. CrHave - 1)
      <4>1. crRing[CrSlot(i)] <= CrBefore /\ crRing[CrSlot(j)] = CrBefore + 1 + (j - CrHave)
            /\ j - CrHave \in Nat
        BY <1>2, <1>13, <3>2 DEF CrUnread
      <4>2. CrSlot(i) \in CrSlots
        <5>1. i \in 0 .. CrLen
          BY <1>2, <3>2, CrAssumption
        <5> QED BY <1>0, <5>1
      <4>3. crRing[CrSlot(i)] \in Nat
        BY <4>2 DEF CrTypeOK
      <4> QED BY <1>8, <4>1, <4>3
    <3>3. CASE ~(i \in 0 .. CrHave - 1) /\ ~(j \in 0 .. CrHave - 1)
      <4>1. crRing[CrSlot(i)] = CrBefore + 1 + (i - CrHave)
        BY <1>13, <3>3
      <4>2. crRing[CrSlot(j)] = CrBefore + 1 + (j - CrHave)
        BY <1>13, <3>3
      <4> QED BY <1>2, <1>8, <4>1, <4>2
    <3> QED BY <3>1, <3>2, <3>3
  <2>4. crTold'.dropped = 0 =>
          \A i \in 0 .. CrHave' - 1 : crRing[CrSlot(i)] = crClock + i + 1 - CrHave'
    <3> SUFFICES ASSUME crTold'.dropped = 0, NEW i \in 0 .. CrHave' - 1
                 PROVE  crRing[CrSlot(i)] = crClock + i + 1 - CrHave'
      OBVIOUS
    <3>1. lost = 0 /\ crTold.dropped = 0
      BY <1>2, <1>9
    <3>2. crIsr.of = crIsr.in /\ crClock = CrBefore + crIsr.in
      BY <1>2, <1>8, <3>1
    <3>3. CASE i \in 0 .. CrHave - 1
      <4>1. crRing[CrSlot(i)] = CrBefore + i + 1 - CrHave
        BY <3>1, <3>3 DEF CrUnread
      <4> QED BY <1>2, <1>5, <1>8, <3>2, <4>1
    <3>4. CASE crRing[CrSlot(i)] = CrBefore + 1 + (i - CrHave)
      BY <1>2, <1>5, <1>8, <3>2, <3>4
    <3> QED BY <1>13, <3>3, <3>4
  <2> QED BY <1>1, <1>6, <1>8, <2>1, <2>2, <2>3, <2>4 DEF CrUnread
<1>15. CrPushed'
  BY <1>1 DEF CrPushed, CrPushing, CrAt
<1>16. CrCopied'
  <2> SUFFICES ASSUME CrPulling'
               PROVE  /\ crRec'.n \in 1 .. CrHave'
                      /\ crRec'.copy = [i \in 1 .. crRec'.n |-> crRing'[CrSlot(i - 1)']]
    BY DEF CrCopied
  <2>1. /\ crRec' = crRec /\ crRec.n \in 1 .. CrHave
        /\ crRec.copy = [i \in 1 .. crRec.n |-> crRing[CrSlot(i - 1)]]
    BY <1>1 DEF CrCopied, CrPulling
  <2>2. crRec.n \in 1 .. CrHave'
    BY <1>2, <1>5, <2>1
  <2> QED BY <1>1, <1>6, <2>1, <2>2
<1>17. CrTelling'
  <2>1. crTold'.seen <= crTold'.dropped
    BY <1>2, <1>9 DEF CrTelling
  <2>2. CASE lost > 0
    <3>1. crTold'.dropped # crTold'.seen
      BY <1>2, <1>9, <2>2 DEF CrTelling
    <3> QED BY <2>1, <3>1 DEF CrTelling, CrDropsAreTold
  <2>3. CASE ~(lost > 0)
    <3>1. crTold'.dropped = crTold.dropped /\ crOwed' = crOwed
      BY <1>1, <1>2, <1>9, <2>3 DEF CrTypeOK
    <3> QED BY <1>1, <1>9, <2>1, <3>1 DEF CrTelling, CrDropsAreTold
  <2> QED BY <2>2, <2>3
<1> QED BY <1>10, <1>11, <1>14, <1>15, <1>16, <1>17

\* A recording begins with an empty ring.
LEMMA CrBegins ==
    ASSUME CrInv, NEW join \in BOOLEAN, CrBegin(join)
    PROVE  CrInv'
<1> USE CrAssumption DEF CrInv
<1>1. /\ crRec.does = "idle" /\ ~CrPushing
      /\ crRing' = [s \in 0..CrLen - 1 |-> 0] /\ crPos' = [w |-> 0, r |-> 0]
      /\ crCount' = [written |-> 0, taken |-> 0]
      /\ crTold' = [dropped |-> 0, seen |-> 0, overflow |-> FALSE]
      /\ crOwed' = FALSE /\ crCap' = [buf |-> TRUE, armed |-> join]
      /\ UNCHANGED <<crIsr, crRec, crGot, crClock>>
  BY DEF CrBegin
<1>2. 0 \in CrSlots /\ 0 \in 0 .. CrWord - 1 /\ 0 \in 0 .. CrLen
  BY DEF CrSlots
<1>3. CrHave' = 0
  <2>1. (0 + CrWord - 0) % CrWord = 0
    BY <1>2, CrHaveIs
  <2> QED BY <1>1, <2>1 DEF CrHave
<1>4. CrTypeOK'
  <2>1. crRing' \in [CrSlots -> Nat] /\ crPos' \in [w : CrSlots, r : CrSlots]
        /\ crCount' \in [written : 0 .. CrWord - 1, taken : 0 .. CrWord - 1]
    BY <1>1, <1>2 DEF CrSlots
  <2>2. crTold' \in [dropped : Nat, seen : Nat, overflow : BOOLEAN]
    BY <1>1
  <2>3. crCap' \in [buf : BOOLEAN, armed : BOOLEAN]
    BY <1>1
  <2>4. crOwed' \in BOOLEAN
    BY <1>1
  <2> QED BY <1>1, <2>1, <2>2, <2>3, <2>4 DEF CrTypeOK
<1>5. CrCounts'
  <2>1. CrFrom(0, 0) = 0
    BY <1>2, CrFromIs
  <2> QED BY <1>1, <1>3, <2>1 DEF CrCounts, CrSlot
<1>6. ~CrPushing' /\ CrBefore' = crClock /\ CrBefore = crClock /\ crClock \in Nat
  BY <1>1 DEF CrPushing, CrBefore, CrTypeOK
<1>7. CrUnread'
  BY <1>1, <1>3, <1>6 DEF CrUnread
<1>8. CrPushed' /\ CrCopied'
  BY <1>1, <1>6 DEF CrPushed, CrCopied, CrPulling
<1>9. CrTelling'
  BY <1>1 DEF CrTelling, CrDropsAreTold
<1> QED BY <1>4, <1>5, <1>7, <1>8, <1>9

\* The reader moves on by n of what is unread.
LEMMA CrReads ==
    ASSUME CrTypeOK, CrCounts, NEW n \in 0 .. CrHave,
           crPos' = [crPos EXCEPT !.r = (@ + n) % CrLen],
           crCount' = [crCount EXCEPT !.taken = (@ + n) % CrWord]
    PROVE  /\ crPos' \in [w : CrSlots, r : CrSlots]
           /\ crCount' \in [written : 0 .. CrWord - 1, taken : 0 .. CrWord - 1]
           /\ CrHave' = CrHave - n
           /\ \A k \in 0 .. CrLen - n : CrFrom(crPos'.r, k) = CrSlot(n + k)
           /\ CrCounts'
<1>1. CrHave \in 0 .. CrLen /\ n \in 0 .. CrLen
  BY CrHaveType, CrAssumption DEF CrCounts
<1>2. /\ crCount'.written = crCount.written /\ crCount'.taken = (crCount.taken + n) % CrWord
      /\ crCount.written \in 0 .. CrWord - 1 /\ crCount.taken \in 0 .. CrWord - 1
      /\ crPos'.w = crPos.w /\ crPos'.r = (crPos.r + n) % CrLen
      /\ crPos.r \in CrSlots /\ crPos.w \in CrSlots
  BY DEF CrTypeOK
<1>3. /\ crCount'.taken \in 0 .. CrWord - 1
      /\ crCount'.taken = IF crCount.taken + n < CrWord THEN crCount.taken + n ELSE crCount.taken + n - CrWord
  BY <1>1, <1>2, CrAddIs
<1>4. /\ crPos'.r \in CrSlots
      /\ crPos'.r = IF crPos.r + n < CrLen THEN crPos.r + n ELSE crPos.r + n - CrLen
  BY <1>1, <1>2, CrFromIs DEF CrFrom
<1>5. CrHave' = CrHave - n
  <2>1. CrHave = IF crCount.written >= crCount.taken THEN crCount.written - crCount.taken
                 ELSE crCount.written + CrWord - crCount.taken
    BY <1>2, CrHaveIs DEF CrHave
  <2>2. CrHave' = IF crCount.written >= crCount'.taken THEN crCount.written - crCount'.taken
                  ELSE crCount.written + CrWord - crCount'.taken
    BY <1>2, <1>3, CrHaveIs DEF CrHave
  <2>3. crCount.written \in 0 .. CrWord - 1 /\ crCount.taken \in 0 .. CrWord - 1 /\ n \in 0 .. CrHave
    BY <1>2
  <2> QED BY ONLY <1>1, <1>3, <2>1, <2>2, <2>3, CrAssumption
<1>6. \A k \in 0 .. CrLen - n : CrFrom(crPos'.r, k) = CrSlot(n + k)
  <2> SUFFICES ASSUME NEW k \in 0 .. CrLen - n PROVE CrFrom(crPos'.r, k) = CrSlot(n + k)
    OBVIOUS
  <2>1. k \in 0 .. CrLen /\ n + k \in 0 .. CrLen
    BY <1>1, CrAssumption
  <2>2. CrFrom(crPos'.r, k) = IF crPos'.r + k < CrLen THEN crPos'.r + k ELSE crPos'.r + k - CrLen
    BY <1>4, <2>1, CrFromIs
  <2>3. CrSlot(n + k) = IF crPos.r + (n + k) < CrLen THEN crPos.r + (n + k) ELSE crPos.r + (n + k) - CrLen
    BY <1>2, <2>1, CrFromIs DEF CrSlot
  <2>4. crPos.r \in 0 .. CrLen - 1 /\ crPos'.r \in 0 .. CrLen - 1
    BY <1>2, <1>4 DEF CrSlots
  <2> QED BY ONLY <1>1, <1>4, <2>1, <2>2, <2>3, <2>4, CrAssumption
<1>7. CrCounts'
  <2>1. CrHave - n \in 0 .. CrLen - n /\ n + (CrHave - n) = CrHave
    BY <1>1, CrAssumption
  <2>2. CrFrom(crPos'.r, CrHave - n) = CrSlot(CrHave)
    BY <1>6, <2>1
  <2>3. CrHave' <= CrLen
    BY <1>1, <1>5, CrAssumption
  <2>4. crPos'.w = CrFrom(crPos'.r, CrHave')
    BY <1>2, <1>5, <2>2 DEF CrCounts
  <2> QED BY <2>3, <2>4 DEF CrCounts, CrSlot
<1>8. crPos' \in [w : CrSlots, r : CrSlots]
      /\ crCount' \in [written : 0 .. CrWord - 1, taken : 0 .. CrWord - 1]
  BY <1>2, <1>3, <1>4 DEF CrTypeOK
<1> QED BY <1>5, <1>6, <1>7, <1>8

\* What a reader has left is as it was.
LEMMA CrStillUnread ==
    ASSUME CrInv, NEW n \in 0 .. CrHave,
           crPos' = [crPos EXCEPT !.r = (@ + n) % CrLen],
           crCount' = [crCount EXCEPT !.taken = (@ + n) % CrWord],
           UNCHANGED <<crRing, crIsr, crClock, crCap>>, crTold'.dropped = crTold.dropped,
           crGot' \in Nat, crGot' <= CrBefore,
           \A i \in n .. CrHave - 1 : crGot' < crRing[CrSlot(i)]
    PROVE  CrUnread' /\ CrPushed'
<1> USE DEF CrInv
<1>1. CrHave \in 0 .. CrLen /\ n \in 0 .. CrLen /\ CrLen \in Nat
  BY CrHaveType, CrAssumption DEF CrCounts
<1>2. CrHave' = CrHave - n /\ \A k \in 0 .. CrLen - n : CrFrom(crPos'.r, k) = CrSlot(n + k)
  BY CrReads
<1>3. CrBefore' = CrBefore /\ CrPushing' = CrPushing /\ CrBefore \in Nat
  BY DEF CrBefore, CrPushing, CrUnread
<1>4. \A i \in 0 .. CrHave' - 1 : n + i \in n .. CrHave - 1 /\ n + i \in 0 .. CrHave - 1
                                  /\ CrFrom(crPos'.r, i) = CrSlot(n + i)
  BY <1>1, <1>2
<1>5. \A i \in 0 .. CrHave' - 1 : crGot' < crRing[CrFrom(crPos'.r, i)]
                                  /\ crRing[CrFrom(crPos'.r, i)] <= CrBefore
  BY <1>4 DEF CrUnread
<1>6. \A i, j \in 0 .. CrHave' - 1 : i < j => crRing[CrFrom(crPos'.r, i)] < crRing[CrFrom(crPos'.r, j)]
  <2> SUFFICES ASSUME NEW i \in 0 .. CrHave' - 1, NEW j \in 0 .. CrHave' - 1, i < j
               PROVE  crRing[CrFrom(crPos'.r, i)] < crRing[CrFrom(crPos'.r, j)]
    OBVIOUS
  <2>1. n + i < n + j
    BY <1>1, <1>2
  <2> QED BY <1>4, <2>1 DEF CrUnread
<1>7. crTold'.dropped = 0 =>
         \A i \in 0 .. CrHave' - 1 : crRing[CrFrom(crPos'.r, i)] = CrBefore + i + 1 - CrHave'
  <2> SUFFICES ASSUME crTold'.dropped = 0, NEW i \in 0 .. CrHave' - 1
               PROVE  crRing[CrFrom(crPos'.r, i)] = CrBefore + i + 1 - CrHave'
    OBVIOUS
  <2>1. crRing[CrFrom(crPos'.r, i)] = CrBefore + (n + i) + 1 - CrHave
    BY <1>4 DEF CrUnread
  <2> QED BY <1>1, <1>2, <1>3, <2>1
<1>8. CrUnread'
  BY <1>3, <1>5, <1>6, <1>7 DEF CrUnread, CrSlot
<1>9. CrPushed'
  <2> SUFFICES ASSUME CrPushing PROVE CrPushed'
    BY <1>3 DEF CrPushed
  <2>1. /\ crCap.buf /\ crIsr.in <= crIsr.of /\ CrHave + crIsr.in <= CrLen /\ crIsr.in \in Nat
        /\ \A i \in 0 .. crIsr.in - 1 : crRing[CrSlot(CrHave + i)] = CrBefore + 1 + i
    BY DEF CrPushed, CrTypeOK
  <2>2. \A i \in 0 .. crIsr.in - 1 : crRing[CrFrom(crPos'.r, CrHave' + i)] = CrBefore + 1 + i
    <3> SUFFICES ASSUME NEW i \in 0 .. crIsr.in - 1
                 PROVE  crRing[CrFrom(crPos'.r, CrHave' + i)] = CrBefore + 1 + i
      OBVIOUS
    <3>1. CrHave' + i \in 0 .. CrLen - n /\ n + (CrHave' + i) = CrHave + i
      BY <1>1, <1>2, <2>1
    <3>2. CrFrom(crPos'.r, CrHave' + i) = CrSlot(CrHave + i)
      BY <1>2, <3>1
    <3> QED BY <2>1, <3>2
  <2>3. CrHave' + crIsr.in <= CrLen
    BY <1>1, <1>2, <2>1
  <2> QED BY <1>3, <2>1, <2>2, <2>3 DEF CrPushed, CrSlot
<1> QED BY <1>8, <1>9

\* record() and its pulls.
LEMMA CrPullsDone ==
    ASSUME CrInv, CrPullDone
    PROVE  CrInv'
<1> USE DEF CrInv
<1> DEFINE n == crRec.n
<1>1. /\ CrPulling
      /\ crPos' = [crPos EXCEPT !.r = (@ + n) % CrLen]
      /\ crCount' = [crCount EXCEPT !.taken = (@ + n) % CrWord]
      /\ crGot' = crRec.copy[n] /\ crRec' = CrDoes("ask")
      /\ UNCHANGED <<crRing, crTold, crCap, crIsr, crClock, crOwed>>
  BY DEF CrPullDone, CrTaken, CrTypeOK
<1>2. CrHave \in 0 .. CrLen /\ CrLen \in Nat /\ n \in 1 .. CrHave /\ n \in 0 .. CrHave
  BY <1>1, CrHaveType, CrAssumption DEF CrCounts, CrCopied
<1>3. crGot' = crRing[CrSlot(n - 1)] /\ n - 1 \in 0 .. CrHave - 1
  BY <1>1, <1>2 DEF CrCopied
<1>4. crGot' <= CrBefore /\ \A i \in n .. CrHave - 1 : crGot' < crRing[CrSlot(i)]
  <2>1. crGot' <= CrBefore
    BY <1>3 DEF CrUnread
  <2>2. ASSUME NEW i \in n .. CrHave - 1 PROVE crGot' < crRing[CrSlot(i)]
    <3>1. i \in 0 .. CrHave - 1 /\ n - 1 < i
      BY <1>2
    <3> QED BY <1>3, <3>1 DEF CrUnread
  <2> QED BY <2>1, <2>2
<1>5. crGot' \in Nat
  <2>1. n - 1 \in 0 .. CrLen /\ crPos.r \in CrSlots
    BY <1>2 DEF CrTypeOK
  <2>2. CrSlot(n - 1) \in CrSlots
    BY <2>1, CrFromIs DEF CrSlot
  <2> QED BY <1>3, <2>2 DEF CrTypeOK
<1>6. /\ crPos' \in [w : CrSlots, r : CrSlots]
      /\ crCount' \in [written : 0 .. CrWord - 1, taken : 0 .. CrWord - 1]
      /\ CrCounts'
  BY <1>1, <1>2, CrReads
<1>7. CrUnread' /\ CrPushed'
  BY <1>1, <1>2, <1>4, <1>5, CrStillUnread
<1>8. CrTypeOK'
  BY <1>1, <1>5, <1>6 DEF CrTypeOK, CrDoes
<1>9. CrCopied'
  BY <1>1 DEF CrCopied, CrPulling, CrDoes
<1>10. CrTelling'
  BY <1>1 DEF CrTelling, CrDropsAreTold
<1> QED BY <1>6, <1>7, <1>8, <1>9, <1>10

\* record(), which tells of what was dropped before it asks for more.
LEMMA CrRecords ==
    ASSUME CrInv, CrRecord
    PROVE  CrInv'
<1> USE DEF CrInv
<1>1. /\ crRec.does = "idle" /\ crTold' = CrNoted /\ crRec' = CrDoes("ask")
      /\ UNCHANGED <<crRing, crCap, crIsr, crGot, crClock, crOwed>>
  BY DEF CrRecord
<1>2. /\ crTold' \in [dropped : Nat, seen : Nat, overflow : BOOLEAN]
      /\ crTold'.dropped = crTold.dropped /\ crTold'.seen = crTold.dropped
      /\ crTold.overflow \/ crTold.dropped # crTold.seen => crTold'.overflow
      /\ crTold.dropped \in Nat
  BY <1>1, CrNotedKeeps DEF CrTypeOK
<1>3. CrTelling'
  BY <1>1, <1>2 DEF CrTelling, CrDropsAreTold
<1>4. CrCopied'
  BY <1>1 DEF CrCopied, CrPulling, CrDoes
<1>5. CASE crTold.dropped # crTold.seen
  <2> DEFINE n == CrHave
  <2>0. CrHave \in 0 .. CrLen /\ n \in 0 .. CrHave /\ CrLen \in Nat
    BY CrHaveType, CrAssumption DEF CrCounts
  <2>1. crPos' = [crPos EXCEPT !.r = (@ + n) % CrLen] /\ crCount' = [crCount EXCEPT !.taken = crCount.written]
    BY <1>5 DEF CrRecord, CrDiscarded
  <2>2. crCount.written = (crCount.taken + n) % CrWord
    <3>1. crCount.written \in 0 .. CrWord - 1 /\ crCount.taken \in 0 .. CrWord - 1
      BY DEF CrTypeOK
    <3>2. n = IF crCount.written >= crCount.taken THEN crCount.written - crCount.taken
                 ELSE crCount.written + CrWord - crCount.taken
      BY <3>1, CrHaveIs DEF CrHave
    <3>3. (crCount.taken + n) % CrWord =
              IF crCount.taken + n < CrWord THEN crCount.taken + n ELSE crCount.taken + n - CrWord
      BY <2>0, <3>1, CrAddIs
    <3> HIDE DEF n
    <3> QED BY <3>1, <3>2, <3>3, CrAssumption
  <2>3. crCount' = [crCount EXCEPT !.taken = (@ + n) % CrWord]
    BY <2>1, <2>2 DEF CrTypeOK
  <2>4. crGot' \in Nat /\ crGot' <= CrBefore /\ \A i \in n .. CrHave - 1 : crGot' < crRing[CrSlot(i)]
    BY <1>1, <2>0 DEF CrTypeOK, CrUnread
  <2>5. CrUnread' /\ CrPushed'
    BY <1>1, <1>2, <2>0, <2>1, <2>3, <2>4, CrStillUnread
  <2>6. /\ crPos' \in [w : CrSlots, r : CrSlots]
        /\ crCount' \in [written : 0 .. CrWord - 1, taken : 0 .. CrWord - 1]
        /\ CrCounts'
    BY <2>0, <2>1, <2>3, CrReads
  <2>7. CrTypeOK'
    BY <1>1, <1>2, <2>6 DEF CrTypeOK, CrDoes
  <2> QED BY <1>3, <1>4, <2>5, <2>6, <2>7
<1>6. CASE ~(crTold.dropped # crTold.seen)
  <2>1. UNCHANGED <<crCount, crPos>>
    BY <1>6 DEF CrRecord
  <2>2. CrHave' = CrHave /\ (\A k : CrSlot(k)' = CrSlot(k)) /\ CrCounts'
    BY <1>1, <2>1, CrRingStays
  <2>3. CrPushing' = CrPushing /\ CrBefore' = CrBefore
    BY <1>1 DEF CrBefore, CrPushing
  <2>4. CrUnread' /\ CrPushed'
    BY <1>1, <1>2, <2>2, <2>3 DEF CrUnread, CrPushed
  <2>5. CrTypeOK'
    BY <1>1, <1>2, <2>1 DEF CrTypeOK, CrDoes
  <2> QED BY <1>3, <1>4, <2>2, <2>4, <2>5
<1> QED BY <1>5, <1>6

\* The rest of record(), and `overflow`.
LEMMA CrAsks ==
    ASSUME CrInv, CrRecordEnds \/ CrOverflow \/ \E want \in 1 .. CrAsk : CrPull(want)
    PROVE  CrInv'
<1> USE DEF CrInv
<1>1. UNCHANGED <<crRing, crPos, crCount, crCap, crIsr, crGot, crClock>>
  BY DEF CrRecordEnds, CrOverflow, CrPull
<1>2. CrHave' = CrHave /\ (\A k : CrSlot(k)' = CrSlot(k)) /\ CrCounts'
  BY <1>1, CrRingStays
<1>3. CrPushing' = CrPushing /\ CrBefore' = CrBefore
  BY <1>1 DEF CrBefore, CrPushing
<1>4. /\ crTold \in [dropped : Nat, seen : Nat, overflow : BOOLEAN]
      /\ CrNoted \in [dropped : Nat, seen : Nat, overflow : BOOLEAN]
      /\ CrNoted.dropped = crTold.dropped /\ CrNoted.seen = crTold.dropped
      /\ crTold.overflow \/ crTold.dropped # crTold.seen => CrNoted.overflow
  BY CrNotedKeeps DEF CrTypeOK
<1>5. crTold'.dropped = crTold.dropped /\ crTold' \in [dropped : Nat, seen : Nat, overflow : BOOLEAN]
  BY <1>4 DEF CrRecordEnds, CrOverflow, CrPull
<1>6. CrUnread' /\ CrPushed'
  BY <1>1, <1>2, <1>3, <1>5 DEF CrUnread, CrPushed
<1>7. CASE CrRecordEnds
  <2>1. crRec' = CrDoes("idle") /\ crTold' \in {CrNoted, crTold} /\ crOwed' = crOwed
    BY <1>7 DEF CrRecordEnds
  <2>2. CrTypeOK' /\ CrCopied'
    BY <1>1, <1>5, <2>1 DEF CrTypeOK, CrCopied, CrPulling, CrDoes
  <2>3. CrTelling'
    BY <1>1, <1>4, <2>1 DEF CrTelling, CrDropsAreTold
  <2> QED BY <1>2, <1>6, <2>2, <2>3
<1>8. CASE CrOverflow
  <2>1. /\ crTold' = [CrNoted EXCEPT !.overflow = FALSE] /\ crRec' = crRec /\ crCap.buf
        /\ crOwed' = (crOwed /\ ~CrNoted.overflow)
    BY <1>8 DEF CrOverflow
  <2>2. crOwed' = FALSE
    BY <1>4, <2>1 DEF CrTelling, CrDropsAreTold, CrTypeOK
  <2>3. CrTypeOK'
    BY <1>1, <1>5, <2>1, <2>2 DEF CrTypeOK
  <2>4. CrCopied'
    BY <1>1, <1>2, <2>1 DEF CrCopied, CrPulling
  <2>5. CrTelling'
    BY <1>4, <2>1, <2>2 DEF CrTelling, CrDropsAreTold
  <2> QED BY <1>2, <1>6, <2>3, <2>4, <2>5
<1>9. ASSUME NEW want \in 1 .. CrAsk, CrPull(want) PROVE CrInv'
  <2> DEFINE n == CrLeast(want, CrHave)
  <2>1. /\ n > 0 /\ crTold' = crTold /\ crOwed' = crOwed
        /\ crRec' = [does |-> "pull", n |-> n,
                     copy |-> [i \in 1..n |-> crRing[(crPos.r + i - 1) % CrLen]]]
    BY <1>9 DEF CrPull
  <2>2. n \in 1 .. CrHave /\ n \in Nat
    BY <2>1, CrHaveType, CrAssumption DEF CrLeast
  <2> HIDE DEF n
  <2>3. \A i \in 1 .. n : (crPos.r + i - 1) = crPos.r + (i - 1)
    BY <2>2 DEF CrTypeOK, CrSlots
  <2>4. crRec'.copy = [i \in 1 .. n |-> crRing[CrSlot(i - 1)]]
    BY <2>1, <2>3 DEF CrSlot, CrFrom
  <2>5. CrTypeOK'
    BY <1>1, <1>5, <2>1, <2>2 DEF CrTypeOK
  <2>6. CrCopied'
    BY <1>1, <1>2, <2>1, <2>2, <2>4 DEF CrCopied
  <2>7. CrTelling'
    BY <1>1, <2>1 DEF CrTelling, CrDropsAreTold
  <2> QED BY <1>2, <1>6, <2>5, <2>6, <2>7
<1> QED BY <1>7, <1>8, <1>9

\* A recorder gets what came, in order, and every drop is told, for any ring, burst and word.
THEOREM CrKeepsOrder == CrSpec => []CrSafe
<1>1. CrInit => CrInv
  <2> SUFFICES ASSUME CrInit PROVE CrInv
    OBVIOUS
  <2>1. 0 \in CrSlots /\ 0 \in 0 .. CrWord - 1 /\ 0 \in 0 .. CrLen
    BY CrAssumption DEF CrSlots
  <2>2. CrHave = 0 /\ CrFrom(0, 0) = 0
    BY <2>1, CrHaveIs, CrFromIs, CrAssumption DEF CrInit, CrHave
  <2>3. ~CrPushing /\ CrBefore = 0
    BY DEF CrInit, CrPushing, CrBefore, CrAt
  <2>4. crRing \in [CrSlots -> Nat] /\ crPos \in [w : CrSlots, r : CrSlots]
        /\ crCount \in [written : 0 .. CrWord - 1, taken : 0 .. CrWord - 1]
    BY <2>1 DEF CrInit, CrSlots
  <2>5. crTold \in [dropped : Nat, seen : Nat, overflow : BOOLEAN]
    BY DEF CrInit
  <2>6. crCap \in [buf : BOOLEAN, armed : BOOLEAN]
    BY DEF CrInit
  <2>7. crOwed \in BOOLEAN
    BY DEF CrInit
  <2>8. CrTypeOK
    BY <2>4, <2>5, <2>6, <2>7 DEF CrInit, CrTypeOK, CrAt, CrDoes
  <2>9. CrCounts /\ CrUnread
    BY <2>2, <2>3, CrAssumption DEF CrInit, CrCounts, CrUnread, CrSlot
  <2>10. CrPushed /\ CrCopied /\ CrTelling
    BY <2>3 DEF CrInit, CrPushed, CrCopied, CrPulling, CrDoes, CrTelling, CrDropsAreTold
  <2> QED BY <2>8, <2>9, <2>10 DEF CrInv
<1>2. CrInv /\ [CrNext]_crVars => CrInv'
  <2> SUFFICES ASSUME CrInv, [CrNext]_crVars PROVE CrInv'
    OBVIOUS
  <2>1. CASE UNCHANGED crVars
    <3>1. CrHave' = CrHave /\ (\A k : CrSlot(k)' = CrSlot(k)) /\ CrCounts'
      BY <2>1, CrRingStays DEF crVars, CrInv
    <3> QED BY <2>1, <3>1 DEF crVars, CrInv, CrTypeOK, CrUnread, CrPushed, CrCopied, CrPulling, CrTelling,
            CrDropsAreTold, CrBefore, CrPushing
  <2> QED BY <2>1, CrLooks, CrCopies, CrPublishes, CrBegins, CrRecords, CrPullsDone, CrAsks DEF CrNext
<1>3. CrInv => CrSafe
  <2> SUFFICES ASSUME CrInv PROVE CrSafe
    OBVIOUS
  <2>1. CrNeverFreed /\ CrDropsAreTold
    BY DEF CrInv, CrPushed, CrNeverFreed, CrTelling
  <2>2. CrInOrder
    <3> SUFFICES ASSUME CrPulling
                 PROVE  /\ \A i \in 1..crRec.n : crRec.copy[i] > crGot
                        /\ \A i \in 1..crRec.n - 1 :
                              /\ crRec.copy[i] < crRec.copy[i + 1]
                              /\ crTold.dropped = 0 => crRec.copy[i + 1] = crRec.copy[i] + 1
      BY DEF CrInOrder
    <3>1. /\ CrHave \in 0 .. CrLen /\ CrLen \in Nat /\ crRec.n \in 1 .. CrHave
          /\ crGot \in Nat /\ CrBefore \in Nat /\ crPos.r \in CrSlots
          /\ \A i \in 1 .. crRec.n : crRec.copy[i] = crRing[CrSlot(i - 1)] /\ i - 1 \in 0 .. CrHave - 1
      <4>1. CrHave \in 0 .. CrLen /\ CrLen \in Nat
        BY CrHaveType, CrAssumption DEF CrInv, CrCounts
      <4>2. crRec.n \in 1 .. CrHave /\ crRec.copy = [i \in 1 .. crRec.n |-> crRing[CrSlot(i - 1)]]
        BY DEF CrInv, CrCopied
      <4>3. crGot \in Nat /\ CrBefore \in Nat /\ crPos.r \in CrSlots
        BY DEF CrInv, CrTypeOK, CrUnread
      <4>4. \A i \in 1 .. crRec.n : crRec.copy[i] = crRing[CrSlot(i - 1)]
        BY ONLY <4>2
      <4>5. \A i \in 1 .. crRec.n : i - 1 \in 0 .. CrHave - 1
        BY ONLY <4>1, <4>2
      <4> QED BY ONLY <4>1, <4>2, <4>3, <4>4, <4>5
    <3>2. ASSUME NEW i \in 1 .. crRec.n PROVE crRec.copy[i] > crGot
      <4>1. i - 1 \in 0 .. CrLen
        BY <3>1
      <4>2. CrSlot(i - 1) \in CrSlots
        BY <3>1, <4>1, CrFromIs DEF CrSlot
      <4>3. crRing[CrSlot(i - 1)] \in Nat
        BY <4>2 DEF CrInv, CrTypeOK
      <4> QED BY <3>1, <4>3 DEF CrInv, CrUnread
    <3>3. ASSUME NEW i \in 1 .. crRec.n - 1
          PROVE  /\ crRec.copy[i] < crRec.copy[i + 1]
                 /\ crTold.dropped = 0 => crRec.copy[i + 1] = crRec.copy[i] + 1
      <4>1. /\ i \in 1 .. crRec.n /\ i + 1 \in 1 .. crRec.n /\ (i + 1) - 1 = i /\ i - 1 < i
            /\ i - 1 \in 0 .. CrHave - 1 /\ i \in 0 .. CrHave - 1
        BY <3>1
      <4>2. crRec.copy[i] = crRing[CrSlot(i - 1)] /\ crRec.copy[i + 1] = crRing[CrSlot(i)]
        BY <3>1, <4>1
      <4>3. crRing[CrSlot(i - 1)] < crRing[CrSlot(i)]
        BY <4>1 DEF CrInv, CrUnread
      <4>4. crTold.dropped = 0 => /\ crRing[CrSlot(i - 1)] = CrBefore + (i - 1) + 1 - CrHave
                                  /\ crRing[CrSlot(i)] = CrBefore + i + 1 - CrHave
        BY <4>1 DEF CrInv, CrUnread
      <4>5. crTold.dropped = 0 => crRing[CrSlot(i)] = crRing[CrSlot(i - 1)] + 1
        BY <3>1, <4>1, <4>4
      <4> QED BY <4>2, <4>3, <4>5
    <3> QED BY <3>2, <3>3
  <2> QED BY <2>1, <2>2 DEF CrSafe
<1> QED BY <1>1, <1>2, <1>3, PTL DEF CrSpec

-----------------------------------------------------------------------------
(***************************************************************************)
(* The receive ring of I2SIn. Inductive is the order of tail, head and     *)
(* DMA, less than a lap apart, which is what makes the distance modulo the *)
(* ring the real one; and that what the tail has passed the reader by is   *)
(* no more than what was counted as dropped.                               *)
(***************************************************************************)

\* What each variable holds.
RxTypeOK ==
    /\ rxOn \in BOOLEAN /\ rxDma \in Nat /\ rxHead \in Nat /\ rxTail \in Nat /\ rxSkip \in Nat
    /\ rxDropped \in Nat
    /\ rxPull \in [on : BOOLEAN, from : Nat, n : Nat, done : Nat, since : Nat]
    /\ rxRead \in [next : Nat, missed : Nat]
    /\ rxGen \in Nat /\ rxGuards \subseteq Nat

\* The count is less than a lap behind the DMA, and the reader's part of the
\* ring is clear of the margin before it.
RxOrder ==
    /\ rxTail <= rxHead /\ rxHead <= rxDma /\ rxDma - rxHead < RxLen
    /\ rxHead - rxTail <= RxLimit

\* The samples of a pull were clear of the DMA when it began, which has not
\* crossed the margin since.
RxPulling ==
    rxPull.on =>
      /\ rxOn /\ rxPull.since <= rxDma /\ rxDma - rxPull.since <= RxMargin
      /\ rxPull.since + RxMargin <= rxPull.from + RxLen
      /\ rxPull.from + rxPull.n <= rxHead

\* What the tail is ahead of the reader, but for what is still to be skipped,
\* was dropped.
RxOwing ==
    rxOn => IF rxPull.on
            THEN /\ rxSkip = 0 /\ rxPull.from <= rxTail
                 /\ rxRead.missed + (rxTail - rxPull.from) <= rxDropped
            ELSE /\ rxRead.next <= rxTail + rxSkip
                 /\ rxRead.missed + (rxTail + rxSkip - rxRead.next) <= rxDropped

\* A recording has its own guard.
RxGuarded == rxOn => rxGen \in rxGuards

\* The inductive invariant.
RxInv == RxTypeOK /\ RxOrder /\ RxPulling /\ RxOwing /\ RxGuarded

\* What a step may do to a recording that is running.
RxOwnEnd ==
    /\ rxOn /\ ~rxOn' => rxBy'.what \in {"end", "reset"}
    /\ rxBy'.what = "reset" => ~rxOn'

\* What a poll of the DMA moves: the head to it, and the tail, what is to be skipped
\* and what was dropped by the same number of samples.
LEMMA RxPolledFacts ==
    ASSUME RxTypeOK, RxOrder
    PROVE  /\ RxPolled.head = rxDma
           /\ RxPolled.tail \in Nat /\ RxPolled.skip \in Nat /\ RxPolled.dropped \in Nat
           /\ rxTail <= RxPolled.tail /\ RxPolled.tail <= rxDma /\ rxDma - RxPolled.tail <= RxLimit
           /\ RxPolled.tail + RxPolled.skip - (rxTail + rxSkip) = RxPolled.dropped - rxDropped
           /\ rxDropped <= RxPolled.dropped /\ RxPolled.skip <= rxSkip
           /\ RxPolled.skip # 0 => RxPolled.tail = rxDma
<1>1. RxMoved = rxDma - rxHead
  <2>1. RxLen \in Nat \ {0} /\ rxHead \in Nat /\ rxDma \in Nat /\ rxHead <= rxDma /\ rxDma - rxHead < RxLen
    BY RxAssumption DEF RxTypeOK, RxOrder
  <2> QED BY ONLY <2>1, ModDistance DEF RxMoved
<1> QED BY <1>1, RxAssumption DEF RxPolled, RxTypeOK, RxOrder, RxLimit, RxLeast, RxCounted

\* Every step keeps the invariant, and ends a recording only as it may.
LEMMA RxSteps == RxInv /\ [RxNext]_rxVars => RxInv' /\ [RxOwnEnd]_rxVars
<1> SUFFICES ASSUME RxInv, [RxNext]_rxVars PROVE RxInv' /\ [RxOwnEnd]_rxVars
  OBVIOUS
<1> USE RxAssumption DEF RxInv
<1>0. /\ RxPolled.head = rxDma
      /\ RxPolled.tail \in Nat /\ RxPolled.skip \in Nat /\ RxPolled.dropped \in Nat
      /\ rxTail <= RxPolled.tail /\ RxPolled.tail <= rxDma /\ rxDma - RxPolled.tail <= RxLimit
      /\ RxPolled.tail + RxPolled.skip - (rxTail + rxSkip) = RxPolled.dropped - rxDropped
      /\ rxDropped <= RxPolled.dropped /\ RxPolled.skip <= rxSkip
      /\ RxPolled.skip # 0 => RxPolled.tail = rxDma
  BY RxPolledFacts
<1> USE DEF RxTypeOK, RxOrder, RxPulling, RxOwing, RxGuarded, RxOwnEnd, RxDid, RxNoPull, RxLimit
<1>1. CASE RxDmaWrites
  BY <1>1 DEF RxDmaWrites
<1>2. CASE RxPoll
  BY <1>0, <1>2 DEF RxPoll
<1>3. CASE RxCopy
  BY <1>3 DEF RxCopy
<1>4. CASE RxPullEnds
  <2>1. RxTypeOK'
    BY <1>4 DEF RxPullEnds, RxTailTo
  <2>2. (RxOrder /\ RxPulling)'
    BY <1>4 DEF RxPullEnds, RxTailTo
  <2>3. (RxOwing /\ RxGuarded)'
    BY <1>4 DEF RxPullEnds, RxTailTo
  <2>4. RxOwnEnd
    BY <1>4 DEF RxPullEnds, RxTailTo
  <2> QED BY <2>1, <2>2, <2>3, <2>4
<1>5. CASE RxDiscard
  BY <1>0, <1>5, SMTT(30) DEF RxDiscard
<1>6. ASSUME NEW want \in 1 .. RxWant, RxPullStart(want) PROVE RxInv' /\ RxOwnEnd
  BY <1>0, <1>6 DEF RxPullStart, RxLeast
<1>7. ASSUME NEW ok \in BOOLEAN, NEW skip \in RxSkips, RxBegin(ok, skip) PROVE RxInv' /\ RxOwnEnd
  <2>1. RxTypeOK'
    <3>1. rxOn' \in BOOLEAN /\ rxGen' \in Nat /\ rxGuards' \subseteq Nat
      <4>1. rxOn' \in BOOLEAN
        BY <1>7 DEF RxBegin
      <4>2. rxGen' \in Nat
        BY <1>7 DEF RxBegin
      <4>3. rxGuards' \subseteq Nat
        BY <1>7 DEF RxBegin
      <4> QED BY <4>1, <4>2, <4>3
    <3>2. rxDma' \in Nat /\ rxHead' \in Nat /\ rxTail' \in Nat /\ rxSkip' \in Nat /\ rxDropped' \in Nat
      BY <1>7 DEF RxBegin
    <3>3. rxPull' \in [on : BOOLEAN, from : Nat, n : Nat, done : Nat, since : Nat]
      BY <1>7 DEF RxBegin
    <3>4. rxRead' \in [next : Nat, missed : Nat]
      BY <1>7 DEF RxBegin
    <3> QED BY <3>1, <3>2, <3>3, <3>4
  <2>2. (RxOrder /\ RxPulling)'
    BY <1>7 DEF RxBegin
  <2>3. (RxOwing /\ RxGuarded)'
    BY <1>7 DEF RxBegin
  <2>4. RxOwnEnd
    BY <1>7 DEF RxBegin
  <2> QED BY <2>1, <2>2, <2>3, <2>4
<1>8. CASE RxEnd
  <2>1. RxTypeOK'
    <3>1. rxOn' \in BOOLEAN /\ rxGen' \in Nat /\ rxGuards' \subseteq Nat
      <4>1. rxOn' \in BOOLEAN
        BY <1>8 DEF RxEnd, RxEnded
      <4>2. rxGen' \in Nat
        BY <1>8 DEF RxEnd, RxEnded
      <4>3. rxGuards' \subseteq Nat
        BY <1>8 DEF RxEnd, RxEnded
      <4> QED BY <4>1, <4>2, <4>3
    <3>2. rxDma' \in Nat /\ rxHead' \in Nat /\ rxTail' \in Nat /\ rxSkip' \in Nat /\ rxDropped' \in Nat
      BY <1>8 DEF RxEnd, RxEnded
    <3>3. rxPull' \in [on : BOOLEAN, from : Nat, n : Nat, done : Nat, since : Nat]
      BY <1>8 DEF RxEnd, RxEnded
    <3>4. rxRead' \in [next : Nat, missed : Nat]
      BY <1>8 DEF RxEnd, RxEnded
    <3> QED BY <3>1, <3>2, <3>3, <3>4
  <2>2. (RxOrder /\ RxPulling)'
    BY <1>8 DEF RxEnd, RxEnded
  <2>3. (RxOwing /\ RxGuarded)'
    BY <1>8 DEF RxEnd, RxEnded
  <2>4. RxOwnEnd
    BY <1>8 DEF RxEnd, RxEnded
  <2> QED BY <2>1, <2>2, <2>3, <2>4
<1>9. CASE RxSoftReset
  <2>1. RxTypeOK'
    <3>1. rxOn' \in BOOLEAN /\ rxGen' \in Nat /\ rxGuards' \subseteq Nat
      <4>1. rxOn' \in BOOLEAN
        BY <1>9 DEF RxSoftReset, RxEnded, RxOwn
      <4>2. rxGen' \in Nat
        BY <1>9 DEF RxSoftReset, RxEnded, RxOwn
      <4>3. rxGuards' \subseteq Nat
        BY <1>9 DEF RxSoftReset, RxEnded, RxOwn
      <4> QED BY <4>1, <4>2, <4>3
    <3>2. rxDma' \in Nat /\ rxHead' \in Nat /\ rxTail' \in Nat /\ rxSkip' \in Nat /\ rxDropped' \in Nat
      BY <1>9 DEF RxSoftReset, RxEnded, RxOwn
    <3>3. rxPull' \in [on : BOOLEAN, from : Nat, n : Nat, done : Nat, since : Nat]
      BY <1>9 DEF RxSoftReset, RxEnded, RxOwn
    <3>4. rxRead' \in [next : Nat, missed : Nat]
      BY <1>9 DEF RxSoftReset, RxEnded, RxOwn
    <3> QED BY <3>1, <3>2, <3>3, <3>4
  <2>2. (RxOrder /\ RxPulling)'
    BY <1>9 DEF RxSoftReset, RxEnded, RxOwn
  <2>3. (RxOwing /\ RxGuarded)'
    BY <1>9 DEF RxSoftReset, RxEnded, RxOwn
  <2>4. RxOwnEnd
    BY <1>9 DEF RxSoftReset, RxEnded, RxOwn
  <2> QED BY <2>1, <2>2, <2>3, <2>4
<1>10. ASSUME NEW g \in rxGuards, RxCollects(g) PROVE RxInv' /\ RxOwnEnd
  BY <1>10 DEF RxCollects, RxEnded, RxOwn, RxRooted
<1>11. CASE UNCHANGED rxVars
  BY <1>11 DEF rxVars
<1> QED BY <1>1, <1>2, <1>3, <1>4, <1>5, <1>6, <1>7, <1>8, <1>9, <1>10, <1>11 DEF RxNext

\* A recording is whole, counted and ended by nobody else, for any ring and margin.
THEOREM RxKeepsRecording == RxSpec => RxKept
<1>1. RxInit => RxInv
  <2> SUFFICES ASSUME RxInit PROVE RxInv
    OBVIOUS
  <2>1. /\ rxOn \in BOOLEAN /\ rxGen \in Nat /\ rxGuards \subseteq Nat
        /\ rxDma \in Nat /\ rxHead \in Nat /\ rxTail \in Nat /\ rxSkip \in Nat /\ rxDropped \in Nat
    BY DEF RxInit
  <2>2. rxPull \in [on : BOOLEAN, from : Nat, n : Nat, done : Nat, since : Nat]
    BY DEF RxInit, RxNoPull
  <2>3. rxRead \in [next : Nat, missed : Nat]
    BY DEF RxInit
  <2>4. RxTypeOK
    BY <2>1, <2>2, <2>3 DEF RxTypeOK
  <2>5. RxOrder /\ RxPulling /\ RxOwing /\ RxGuarded
    BY RxAssumption DEF RxInit, RxNoPull, RxOrder, RxPulling, RxOwing, RxGuarded, RxLimit
  <2> QED BY <2>4, <2>5 DEF RxInv
<1>2. RxInv' => RxSafe'
  BY RxAssumption DEF RxInv, RxTypeOK, RxOrder, RxPulling, RxOwing, RxSafe, RxCopyGood, RxLossTold
<1>3. RxInv /\ [RxNext]_rxVars =>
        [ /\ RxSafe'
          /\ rxOn /\ ~rxOn' => rxBy'.what \in {"end", "reset"}
          /\ rxBy'.what = "reset" => ~rxOn' ]_rxVars
  BY <1>2, RxSteps DEF RxOwnEnd
<1> QED BY <1>1, <1>3, RxSteps, PTL DEF RxSpec, RxKept

-----------------------------------------------------------------------------
(***************************************************************************)
(* The count of starvings. What counting waits for is a write: behind it   *)
(* are the word, and the pump that is about to set it. Inductive is that   *)
(* the time the two witnesses have charged, the gap that is open and the   *)
(* descriptor known to be dry but not yet counted fit the time since then, *)
(* with the gap the write landed in; and, while play() forgets word by     *)
(* word, that nothing counts and what it has cleared stays so.             *)
(***************************************************************************)

ScTypeOK ==
    /\ scDry \in Nat /\ scHalted \in Nat /\ scGap \in Nat
    /\ scSeen \in [since : Nat, before : Nat]

\* What has been charged, and what is bound to be.
ScCharged == scDry + scHalted
ScOwed == (IF scLast THEN scGap ELSE 0) + (IF scDma = "dry" THEN 1 ELSE 0)

ScWithin ==
    ~ScResetting => IF scSeen.since = 0 THEN ScCharged = 0
                    ELSE ScCharged + ScOwed <= scSeen.since + scSeen.before

ScBehind == scLive \/ scPump \in {"wrote", "mark", "marking"} => scSeen.since # 0

ScForgets ==
    /\ ScResetting => ~scLive /\ scSeen.since = 0 /\ scPump = "off"
    /\ scObj \in {"halted", "pending"} => scDry = 0
    /\ scObj = "pending" => scHalted = 0

ScInv == ScTypeOK /\ ScWithin /\ ScBehind /\ ScForgets

\* A gap is charged what it is too long by.
LEMMA ScChargeIs == ASSUME NEW gap \in Nat PROVE ScCharge(gap + 1) \in 0 .. gap
BY DEF ScCharge

\* A pass of time, since the first write if there was one.
LEMMA ScPassesIs ==
    ASSUME ScTypeOK, ScPasses
    PROVE  /\ scSeen' \in [since : Nat, before : Nat] /\ scSeen'.before = scSeen.before
           /\ scSeen'.since = IF scSeen.since = 0 THEN 0 ELSE scSeen.since + 1
<1> PICK s : s = IF scSeen.since = 0 THEN 0 ELSE scSeen.since + 1
  OBVIOUS
<1>1. s \in Nat
  BY DEF ScTypeOK
<1>2. scSeen' = [scSeen EXCEPT !.since = s]
  BY DEF ScPasses
<1>3. /\ scSeen' \in [since : Nat, before : Nat]
      /\ scSeen'.since = s /\ scSeen'.before = scSeen.before
  BY <1>1, <1>2 DEF ScTypeOK
<1> QED BY <1>1, <1>3

\* A descriptor goes out: the gap that was open is charged, or is lost, and the
\* descriptor is one more that is owed if it is dry.
LEMMA ScSentKeeps == ScInv /\ ScSent => ScInv'
<1> SUFFICES ASSUME ScInv, ScSent PROVE ScInv'
  OBVIOUS
<1>1. ScTypeOK /\ ScPasses
  BY DEF ScInv, ScSent
<1>2. UNCHANGED <<scLive, scPending, scDry, scPump, scObj, scPlayed>> /\ scLast' /\ scGap' = 0
  BY DEF ScSent
<1> PICK charge : charge = IF scLive /\ scLast THEN ScCharge(scGap + 1) ELSE 0
  OBVIOUS
<1>3. charge \in Nat /\ charge <= (IF scLast THEN scGap ELSE 0)
  BY <1>1, ScChargeIs DEF ScTypeOK
<1>4. scHalted' = scHalted + charge /\ (~scLive => charge = 0)
  BY <1>1, <1>3 DEF ScSent, ScTypeOK
<1>5. scDma = "runs" /\ ScOwed' \in {0, 1}
  BY <1>1, <1>2 DEF ScPasses, ScOwed
<1>6. ScTypeOK'
  BY <1>1, <1>2, <1>3, <1>4, ScPassesIs DEF ScTypeOK
<1>7. ScWithin'
  <2> SUFFICES ASSUME ~ScResetting PROVE ScWithin'
    BY <1>2 DEF ScWithin, ScResetting
  <2>1. CASE scSeen.since = 0
    <3>1. ScCharged = 0 /\ ~scLive
      BY <2>1 DEF ScInv, ScWithin, ScBehind
    <3>2. ScCharged' = 0 /\ scSeen'.since = 0
      BY <1>1, <1>2, <1>4, <2>1, <3>1, ScPassesIs DEF ScCharged, ScTypeOK
    <3> QED BY <3>2 DEF ScWithin
  <2>2. CASE scSeen.since # 0
    <3>1. ScCharged + ScOwed <= scSeen.since + scSeen.before
      BY <2>2 DEF ScInv, ScWithin
    <3>2. scDry + scHalted + charge <= scSeen.since + scSeen.before
      BY <1>1, <1>3, <1>5, <3>1 DEF ScCharged, ScOwed, ScTypeOK
    <3>3. ScCharged' = scDry + scHalted + charge
      BY <1>1, <1>2, <1>3, <1>4 DEF ScCharged, ScTypeOK
    <3>4. scSeen'.since = scSeen.since + 1 /\ scSeen'.before = scSeen.before
      BY <1>1, <2>2, ScPassesIs
    <3>5. ScCharged' + ScOwed' <= scSeen'.since + scSeen'.before /\ scSeen'.since # 0
      BY <1>1, <1>3, <1>5, <3>2, <3>3, <3>4 DEF ScTypeOK
    <3> QED BY <3>5 DEF ScWithin
  <2> QED BY <2>1, <2>2
<1>8. ScBehind'
  BY <1>1, <1>2, ScPassesIs DEF ScInv, ScBehind, ScTypeOK
<1>9. ScForgets'
  <2>1. ScResetting => scSeen'.since = 0 /\ ~scLive /\ scPump = "off"
    BY <1>1, ScPassesIs DEF ScInv, ScForgets
  <2>2. scObj = "pending" => scHalted' = 0
    BY <1>1, <1>4, <2>1 DEF ScInv, ScForgets, ScResetting, ScTypeOK
  <2> QED BY <1>2, <2>1, <2>2 DEF ScInv, ScForgets, ScResetting
<1> QED BY <1>6, <1>7, <1>8, <1>9 DEF ScInv

\* The dry descriptor that was owed is counted, or is not.
LEMMA ScDryKeeps == ScInv /\ ScDry => ScInv'
<1> SUFFICES ASSUME ScInv, ScDry PROVE ScInv'
  OBVIOUS
<1>0. ScTypeOK
  BY DEF ScInv
<1>1. /\ UNCHANGED <<scLive, scPending, scHalted, scGap, scLast, scPump, scObj, scSeen>>
      /\ scDma = "dry" /\ scDma' = "runs"
  BY DEF ScDry
<1>2. scDry' = IF scLive THEN scDry + 1 ELSE scDry
  BY DEF ScDry
<1>3. ScTypeOK'
  BY <1>1, <1>2 DEF ScInv, ScTypeOK
<1>4. ScWithin'
  <2> SUFFICES ASSUME ~ScResetting PROVE ScWithin'
    BY <1>1 DEF ScWithin, ScResetting
  <2>1. CASE scSeen.since = 0
    <3>1. ScCharged' = 0
      BY <1>1, <1>2, <2>1 DEF ScInv, ScWithin, ScBehind, ScCharged
    <3> QED BY <1>1, <2>1, <3>1 DEF ScWithin
  <2>2. CASE scSeen.since # 0
    <3>1. ScCharged + ScOwed <= scSeen.since + scSeen.before
      BY <2>2 DEF ScInv, ScWithin
    <3>2. scDry' <= scDry + 1 /\ ScOwed = ScOwed' + 1
      BY <1>0, <1>1, <1>2 DEF ScTypeOK, ScOwed
    <3>3. ScCharged' + ScOwed' <= scSeen.since + scSeen.before
      BY <1>0, <1>1, <1>3, <3>1, <3>2 DEF ScTypeOK, ScCharged, ScOwed
    <3> QED BY <1>1, <2>2, <3>3 DEF ScWithin
  <2> QED BY <2>1, <2>2
<1>5. ScBehind' /\ ScForgets'
  BY <1>1, <1>2 DEF ScInv, ScBehind, ScForgets, ScResetting
<1> QED BY <1>3, <1>4, <1>5 DEF ScInv

\* The gap that is open grows with the time.
LEMMA ScStandsKeeps == ScInv /\ ScStands => ScInv'
<1> SUFFICES ASSUME ScInv, ScStands PROVE ScInv'
  OBVIOUS
<1>1. ScTypeOK /\ ScPasses
  BY DEF ScInv, ScStands
<1>2. /\ UNCHANGED <<scLive, scDry, scHalted, scLast, scDma, scPump, scObj>>
      /\ scGap' = scGap + 1
  BY DEF ScStands
<1>3. ScTypeOK'
  BY <1>1, <1>2, ScPassesIs DEF ScTypeOK
<1>4. ScWithin'
  <2> SUFFICES ASSUME ~ScResetting PROVE ScWithin'
    BY <1>2 DEF ScWithin, ScResetting
  <2>1. CASE scSeen.since = 0
    BY <1>1, <1>2, <2>1, ScPassesIs DEF ScInv, ScWithin, ScCharged
  <2>2. CASE scSeen.since # 0
    <3>1. ScCharged + ScOwed <= scSeen.since + scSeen.before
      BY <2>2 DEF ScInv, ScWithin
    <3>2. ScCharged' + ScOwed' <= ScCharged + ScOwed + 1
      BY <1>1, <1>2 DEF ScTypeOK, ScCharged, ScOwed
    <3>3. ScCharged' + ScOwed' <= scSeen'.since + scSeen'.before /\ scSeen'.since # 0
      BY <1>1, <1>2, <1>3, <2>2, <3>1, <3>2, ScPassesIs DEF ScTypeOK, ScCharged, ScOwed
    <3> QED BY <3>3 DEF ScWithin
  <2> QED BY <2>1, <2>2
<1>5. ScBehind' /\ ScForgets'
  BY <1>1, <1>2, ScPassesIs DEF ScInv, ScBehind, ScForgets, ScResetting, ScTypeOK
<1> QED BY <1>3, <1>4, <1>5 DEF ScInv

\* The first write of a performance lands in the gap that is open, and what is
\* owed then is within it and the descriptor going out.
LEMMA ScWriteKeeps == ScInv /\ ScWrite => ScInv'
<1> SUFFICES ASSUME ScInv, ScWrite PROVE ScInv'
  OBVIOUS
<1>1. /\ UNCHANGED <<scLive, scDry, scHalted, scGap, scLast, scDma, scObj>>
      /\ scPump = "run" /\ scPump' = "wrote"
  BY DEF ScWrite
<1>2. ~ScResetting
  BY <1>1 DEF ScInv, ScForgets
<1>3. ScTypeOK' /\ scSeen'.since # 0
  BY <1>1 DEF ScInv, ScTypeOK, ScWrite
<1>4. ScCharged' + ScOwed' = ScCharged + ScOwed
  BY <1>1 DEF ScCharged, ScOwed
<1>5. ScCharged' + ScOwed' <= scSeen'.since + scSeen'.before
  <2>1. CASE scSeen.since = 0
    <3>1. ScCharged = 0
      BY <1>2, <2>1 DEF ScInv, ScWithin
    <3>2. scSeen' = [since |-> 1, before |-> IF scLast THEN scGap ELSE 0]
      BY <2>1 DEF ScWrite
    <3>3. ScOwed <= scSeen'.since + scSeen'.before
      BY <3>2 DEF ScInv, ScTypeOK, ScOwed
    <3> QED BY <1>4, <3>1, <3>3 DEF ScInv, ScTypeOK, ScOwed
  <2>2. CASE scSeen.since # 0
    BY <1>2, <1>4, <2>2 DEF ScInv, ScWithin, ScWrite
  <2> QED BY <2>1, <2>2
<1>6. ScWithin'
  BY <1>3, <1>5 DEF ScWithin
<1>7. ScBehind' /\ ScForgets'
  BY <1>1, <1>2, <1>3 DEF ScInv, ScBehind, ScForgets, ScResetting
<1> QED BY <1>3, <1>6, <1>7 DEF ScInv

\* Where the words play() clears are as they were, a step of the pump's thread or of
\* the interpreter that charges nothing and forgets no write keeps it.
LEMMA ScQuietly ==
    ASSUME ScInv, UNCHANGED <<scDry, scHalted, scGap, scLast, scDma, scSeen>>,
           ScResetting' = ScResetting, scObj' \in {"halted", "pending"} => scObj' = scObj,
           scLive' => scLive \/ scPump = "marking",
           scPump' \in {"wrote", "mark", "marking"} => scPump \in {"wrote", "mark", "marking"},
           ScResetting => ~scLive' /\ scPump' = "off"
    PROVE  ScInv'
<1>1. ScTypeOK' /\ ScWithin'
  BY DEF ScInv, ScTypeOK, ScWithin, ScCharged, ScOwed
<1>2. ScBehind' /\ ScForgets'
  BY DEF ScInv, ScBehind, ScForgets
<1> QED BY <1>1, <1>2 DEF ScInv

\* The pump's look at the word, its two stores, and its end.
LEMMA ScPumpKeeps == ScInv /\ (ScLooks \/ ScMark \/ ScCounts \/ ScEnds) => ScInv'
<1> SUFFICES ASSUME ScInv, ScLooks \/ ScMark \/ ScCounts \/ ScEnds PROVE ScInv'
  OBVIOUS
<1>1. UNCHANGED <<scDry, scHalted, scGap, scLast, scDma, scSeen, scObj>>
  BY DEF ScLooks, ScMark, ScCounts, ScEnds
<1>2. ~ScResetting
  BY DEF ScInv, ScForgets, ScLooks, ScMark, ScCounts, ScEnds
<1>3. scLive' => scLive \/ scPump = "marking"
  BY DEF ScLooks, ScMark, ScCounts, ScEnds
<1>4. scPump' \in {"wrote", "mark", "marking"} => scPump \in {"wrote", "mark", "marking"}
  BY DEF ScLooks, ScMark, ScCounts, ScEnds
<1> QED BY <1>1, <1>2, <1>3, <1>4, ScQuietly DEF ScResetting

\* play() forgets, a word a step, and then the pump starts; or the channel opens anew.
LEMMA ScPlayKeeps ==
    ScInv /\ (ScPlay \/ ScForgetsDry \/ ScForgetsHalted \/ ScPends \/ ScStarts \/ ScReopen) => ScInv'
<1> SUFFICES ASSUME ScInv, ScPlay \/ ScForgetsDry \/ ScForgetsHalted \/ ScPends \/ ScStarts \/ ScReopen
             PROVE  ScInv'
  OBVIOUS
<1> USE DEF ScInv, ScTypeOK, ScWithin, ScBehind, ScForgets, ScResetting, ScCharged, ScOwed
<1>1. CASE ScPlay
  BY <1>1 DEF ScPlay
<1>2. CASE ScForgetsDry
  BY <1>2 DEF ScForgetsDry
<1>3. CASE ScForgetsHalted
  BY <1>3 DEF ScForgetsHalted
<1>4. CASE ScPends
  BY <1>4 DEF ScPends
<1>5. CASE ScStarts
  BY <1>5 DEF ScStarts
<1>6. CASE ScReopen
  BY <1>6 DEF ScReopen
<1> QED BY <1>1, <1>2, <1>3, <1>4, <1>5, <1>6

\* stop(), and pause() and resume(), a word a step.
LEMMA ScAsksKeep ==
    ScInv /\ (ScStop \/ ScHold \/ ScHeld \/ ScPaused \/ ScResume \/ ScResumed) => ScInv'
<1> SUFFICES ASSUME ScInv, ScStop \/ ScHold \/ ScHeld \/ ScPaused \/ ScResume \/ ScResumed
             PROVE  ScInv'
  OBVIOUS
<1> USE DEF ScStop, ScHold, ScHeld, ScPaused, ScResume, ScResumed
<1>1. UNCHANGED <<scDry, scHalted, scGap, scLast, scDma, scSeen>>
  OBVIOUS
<1>2. ~ScResetting /\ ~ScResetting'
  BY DEF ScResetting
<1>3. scObj' \notin {"halted", "pending"}
  OBVIOUS
<1>4. scLive' => scLive
  OBVIOUS
<1>5. scPump' \in {"wrote", "mark", "marking"} => scPump \in {"wrote", "mark", "marking"}
  OBVIOUS
<1> QED BY <1>1, <1>2, <1>3, <1>4, <1>5, ScQuietly DEF ScResetting

\* For every depth, however long the DMA stands still, and for any number of plays:
\* what the program reads is no more than the time since the first write and the
\* gap it landed in.
THEOREM ScCountsNoStartup == ScSpec => []ScNoStartup
<1>1. ScInit => ScInv
  BY DEF ScInit, ScInv, ScTypeOK, ScWithin, ScBehind, ScForgets, ScResetting, ScCharged
<1>2. ScInv /\ [ScNext]_scVars => ScInv'
  <2> SUFFICES ASSUME ScInv, [ScNext]_scVars PROVE ScInv'
    OBVIOUS
  <2>1. CASE UNCHANGED scVars
    BY <2>1 DEF scVars, ScInv, ScTypeOK, ScWithin, ScBehind, ScForgets, ScResetting, ScCharged, ScOwed
  <2> QED BY <2>1, ScSentKeeps, ScDryKeeps, ScStandsKeeps, ScWriteKeeps, ScPumpKeeps,
             ScPlayKeeps, ScAsksKeep DEF ScNext
<1>3. ScInv => ScNoStartup
  BY DEF ScInv, ScTypeOK, ScWithin, ScCharged, ScOwed, ScNoStartup
<1> QED BY <1>1, <1>2, <1>3, PTL DEF ScSpec

-----------------------------------------------------------------------------
(***************************************************************************)
(* The pump's port. Inductive is who has the lock and how deep, told from  *)
(* where each thread is; that a wait nothing asks for any more has its     *)
(* wake coming; and, where no stop overtakes the pump's first pace, that   *)
(* the timer is the pump's.                                                *)
(***************************************************************************)

\* From asking for the lock to leaving it.
PpLocked == {"ensures", "builds", "takes", "inside", "leaves"}
\* In the pacing, whichever way it is done.
PpPacing == {"paces", "creates", "owns", "picks", "on timer", "spins"}
\* Where the pump may be.
PpPumpAt == PpLocked \cup PpPacing \cup
    {"none", "top", "made", "ring", "park", "ring spins", "ring waits", "ring returns",
     "park spins", "park waits", "park returns", "ended"}

\* Where the interpreter may be.
PpInterpAt == PpLocked \cup PpPacing \cup {"idle", "wakes", "stops", "stopping"}

\* What each variable holds.
PpTypeOK ==
    /\ ppDriver \in {"esp32", "win32", "pthread"}
    /\ ppAt \in [pump : PpPumpAt, interp : PpInterpAt]
    /\ ppMutex \in [state : 0 .. 2, built : Nat, owner : PpThreads \cup {PpNobody}, depth : 0 .. 2]
    /\ ppTimer \in [made : BOOLEAN, owner : PpThreads \cup {PpNobody}]
    /\ ppWake \in BOOLEAN
    /\ ppFull \in BOOLEAN
    /\ ppPark \in BOOLEAN
    /\ ppStop \in BOOLEAN
    /\ ppCount \in [starts : Nat, calls : Nat]

\* One thread builds the lock, before any takes it.
PpOneBuilds ==
    /\ ppMutex.state = 2 => ppMutex.built = 1
    /\ ppMutex.state # 2 => ppMutex.built = 0 /\ ppMutex.owner = PpNobody
    /\ \A t \in PpThreads :
         /\ ppAt[t] = "builds" => ppMutex.state = 1
         /\ ppAt[t] \in {"takes", "inside", "leaves"} => ppMutex.state = 2
    /\ ~(ppAt["pump"] = "builds" /\ ppAt["interp"] = "builds")

\* Who holds the lock, how deep, and where that thread is.
PpOneHolds ==
    /\ (ppMutex.depth = 0) = (ppMutex.owner = PpNobody)
    /\ \A t \in PpThreads :
         /\ ppAt[t] \in {"inside", "leaves"} => ppMutex.owner = t
         /\ ppAt[t] = "leaves" => ppMutex.depth = 1
         /\ ppMutex.owner = t => ppAt[t] \in {"ensures", "takes", "inside", "leaves"}
         /\ ppMutex.depth = 2 /\ ppMutex.owner = t => ppAt[t] = "inside"

\* A wait that nothing asks for any more, begun or about to be, has its wake.
PpWoken ==
    \A place \in PpPlaces :
      /\ ppAt.pump \in {PpSpins(place), PpInWait(place)} /\ ~PpToldToWait(place)
      /\ ppAt.interp \notin {"wakes", "stops"}
      => ppWake /\ (ppAt.pump = PpInWait(place) => ppDriver # "pthread")

\* The timer is the pump's, and made before the interpreter first paces.
PpTimerIsPumps ==
    /\ ppTimer.owner # "interp"
    /\ ppTimer.owner = "pump" \/ ppAt.pump = "owns" => ppTimer.made
    /\ ppAt.interp \notin {"creates", "owns", "on timer"}
    /\ ppAt.interp = "paces" /\ ppDriver = "win32" => ppTimer.owner = "pump"

\* The inductive invariant.
PpInv == PpTypeOK /\ PpOneBuilds /\ PpOneHolds /\ PpWoken
\* And with the timer, for a stop that waits for the pump.
PpPumpInv == PpInv /\ PpTimerIsPumps

\* The steps of both threads, one by one.
LEMMA PpSteps ==
    ASSUME PpNext
    PROVE  \/ \E t \in PpThreads :
                 \/ PpEnsure(t) \/ PpBuild(t) \/ PpTake(t) \/ PpNest(t) \/ PpGive(t)
                 \/ PpSleep(t) \/ PpCreate(t) \/ PpPick(t) \/ PpPaced(t)
           \/ \E place \in PpPlaces :
                 PpWaits(place) \/ PpReturns(place) \/ PpWaitEnds(place) \/ PpCeiling(place)
           \/ PpLooks("ring", "park") \/ PpLooks("park", "paces")
           \/ PpWakes("wakes", "idle") \/ PpWakes("stops", "stopping")
           \/ PpTop \/ PpMade \/ PpStopWaits \/ PpRelease \/ PpStart \/ PpControl \/ PpStops
<1>1. "pump" \in PpThreads /\ "interp" \in PpThreads
  BY DEF PpThreads
<1>2. CASE PpPump
  BY <1>1, <1>2 DEF PpPump, PpLock, PpPace
<1>3. CASE PpInterp
  BY <1>1, <1>3 DEF PpInterp, PpLock, PpPace
<1>4. CASE ~PpPump /\ ~PpInterp
  BY <1>4 DEF PpNext
<1> QED BY <1>2, <1>3, <1>4

\* A step that leaves the lock alone, and takes no thread to it or from it.
LEMMA PpAside ==
    ASSUME PpInv, ppMutex' = ppMutex,
           ppAt'["pump"] = ppAt["pump"] \/ (ppAt["pump"] \notin PpLocked /\ ppAt'["pump"] \notin PpLocked),
           ppAt'["interp"] = ppAt["interp"]
             \/ (ppAt["interp"] \notin PpLocked /\ ppAt'["interp"] \notin PpLocked)
    PROVE  PpOneBuilds' /\ PpOneHolds'
BY DEF PpInv, PpOneBuilds, PpOneHolds, PpThreads, PpLocked

\* Waiting and waking, which do.
LEMMA PpWaitsAside ==
    ASSUME PpInv, NEW place \in PpPlaces, PpWaits(place)
    PROVE  PpOneBuilds' /\ PpOneHolds'
<1>1. ppAt \in [pump : PpPumpAt, interp : PpInterpAt]
  BY DEF PpInv, PpTypeOK
<1>2. ppMutex' = ppMutex /\ ppAt'.interp = ppAt.interp
  BY <1>1 DEF PpWaits, PpGoes
<1>3. ppAt.pump = PpSpins(place) /\ ppAt'.pump \in {place, PpInWait(place)}
  BY <1>1 DEF PpWaits, PpGoes
<1>4. ppAt.pump \notin PpLocked /\ ppAt'.pump \notin PpLocked
  BY <1>3 DEF PpPlaces, PpSpins, PpInWait, PpLocked
<1> QED BY <1>2, <1>4, PpAside

\* A wake leaves the lock alone.
LEMMA PpWakesAside ==
    ASSUME PpInv, NEW from \in {"wakes", "stops"}, NEW to \in {"idle", "stopping"}, PpWakes(from, to)
    PROVE  PpOneBuilds' /\ PpOneHolds'
<1>1. ppMutex' = ppMutex /\ ppAt.interp = from /\ ppAt'.interp = to
  BY DEF PpWakes
<1>2. \/ ppAt'.pump = ppAt.pump
      \/ ppAt.pump \in {"ring waits", "park waits"} /\ ppAt'.pump \in {"ring returns", "park returns"}
  BY DEF PpWakes
<1>3. ppAt.interp \notin PpLocked /\ ppAt'.interp \notin PpLocked
  BY <1>1 DEF PpLocked
<1>4. ppAt'.pump = ppAt.pump \/ (ppAt.pump \notin PpLocked /\ ppAt'.pump \notin PpLocked)
  BY <1>2 DEF PpLocked
<1> QED BY <1>1, <1>3, <1>4, PpAside

\* A thread that takes the lock again has it but once, and the lock keeps its type.
LEMMA PpDepth ==
    ASSUME PpTypeOK, PpOneHolds, NEW t \in PpThreads, PpTake(t) \/ PpGive(t)
    PROVE  ppMutex' \in [state : 0 .. 2, built : Nat, owner : PpThreads \cup {PpNobody}, depth : 0 .. 2]
<1>1. /\ ppMutex \in [state : 0 .. 2, built : Nat, owner : PpThreads \cup {PpNobody}, depth : 0 .. 2]
      /\ ppMutex.depth \in 0 .. 2
  BY DEF PpTypeOK
<1>2. CASE PpTake(t)
  <2>1. ppAt[t] = "takes" /\ ppMutex.owner \in {PpNobody, t}
    BY <1>2 DEF PpTake, PpGoes
  <2>2. ppMutex.depth # 2
    <3>1. CASE ppMutex.owner = t
      BY <2>1, <3>1 DEF PpOneHolds
    <3>2. CASE ppMutex.owner = PpNobody
      BY <3>2 DEF PpOneHolds
    <3> QED BY <2>1, <3>1, <3>2
  <2>3. ppMutex' = [ppMutex EXCEPT !.owner = t, !.depth = @ + 1]
    BY <1>2 DEF PpTake
  <2> DEFINE d == ppMutex.depth + 1
  <2>4. d \in 0 .. 2
    BY <1>1, <2>2
  <2>5. ppMutex' = [ppMutex EXCEPT !.owner = t, !.depth = d]
    BY <2>3
  <2> HIDE DEF d
  <2> QED BY <1>1, <2>4, <2>5
<1>3. CASE PpGive(t)
  <2> DEFINE d == ppMutex.depth - 1  o == IF ppMutex.depth = 2 THEN ppMutex.owner ELSE PpNobody
  <2>1. ppMutex' = [ppMutex EXCEPT !.depth = d, !.owner = o] /\ ppMutex.depth \in {1, 2}
    BY <1>3 DEF PpGive
  <2>2. d \in 0 .. 2 /\ o \in PpThreads \cup {PpNobody}
    BY <1>1, <2>1
  <2> HIDE DEF d, o
  <2> QED BY <1>1, <2>1, <2>2
<1> QED BY <1>2, <1>3

\* Every step keeps the types.
LEMMA PpTypeKept ==
    ASSUME PpTypeOK, PpOneHolds, PpNext
    PROVE  PpTypeOK'
<1> USE PpAssumption
<1>1. ASSUME NEW t \in PpThreads, PpEnsure(t) PROVE PpTypeOK'
  <2>1. ppAt' \in [pump : PpPumpAt, interp : PpInterpAt]
    <3>1. CASE t = "pump"
      BY <1>1, <3>1 DEF PpEnsure, PpGoes, PpWaitsSame, PpToBuild, PpTypeOK, PpLocked, PpPacing, PpPumpAt, PpInterpAt
    <3>2. CASE t = "interp"
      BY <1>1, <3>2 DEF PpEnsure, PpGoes, PpWaitsSame, PpToBuild, PpTypeOK, PpLocked, PpPacing, PpPumpAt, PpInterpAt
    <3> QED BY <3>1, <3>2 DEF PpThreads
  <2>2. ppMutex' \in [state : 0 .. 2, built : Nat, owner : PpThreads \cup {PpNobody}, depth : 0 .. 2]
    BY <1>1 DEF PpEnsure, PpGoes, PpWaitsSame, PpToBuild, PpTypeOK, PpThreads
  <2>3. ppTimer' \in [made : BOOLEAN, owner : PpThreads \cup {PpNobody}]
    BY <1>1 DEF PpEnsure, PpGoes, PpWaitsSame, PpToBuild, PpTypeOK, PpThreads
  <2>4. ppWake' \in BOOLEAN /\ ppFull' \in BOOLEAN /\ ppPark' \in BOOLEAN /\ ppStop' \in BOOLEAN
    BY <1>1 DEF PpEnsure, PpGoes, PpWaitsSame, PpToBuild, PpTypeOK
  <2>5. ppDriver' \in {"esp32", "win32", "pthread"} /\ ppCount' \in [starts : Nat, calls : Nat]
    BY <1>1 DEF PpEnsure, PpGoes, PpWaitsSame, PpToBuild, PpTypeOK
  <2> QED BY <2>1, <2>2, <2>3, <2>4, <2>5 DEF PpTypeOK
<1>2. ASSUME NEW t \in PpThreads, PpBuild(t) PROVE PpTypeOK'
  <2>1. ppAt' \in [pump : PpPumpAt, interp : PpInterpAt]
    <3>1. CASE t = "pump"
      BY <1>2, <3>1 DEF PpBuild, PpGoes, PpWaitsSame, PpTypeOK, PpLocked, PpPacing, PpPumpAt, PpInterpAt
    <3>2. CASE t = "interp"
      BY <1>2, <3>2 DEF PpBuild, PpGoes, PpWaitsSame, PpTypeOK, PpLocked, PpPacing, PpPumpAt, PpInterpAt
    <3> QED BY <3>1, <3>2 DEF PpThreads
  <2>2. ppMutex' \in [state : 0 .. 2, built : Nat, owner : PpThreads \cup {PpNobody}, depth : 0 .. 2]
    BY <1>2 DEF PpBuild, PpGoes, PpWaitsSame, PpTypeOK, PpThreads
  <2>3. ppTimer' \in [made : BOOLEAN, owner : PpThreads \cup {PpNobody}]
    BY <1>2 DEF PpBuild, PpGoes, PpWaitsSame, PpTypeOK, PpThreads
  <2>4. ppWake' \in BOOLEAN /\ ppFull' \in BOOLEAN /\ ppPark' \in BOOLEAN /\ ppStop' \in BOOLEAN
    BY <1>2 DEF PpBuild, PpGoes, PpWaitsSame, PpTypeOK
  <2>5. ppDriver' \in {"esp32", "win32", "pthread"} /\ ppCount' \in [starts : Nat, calls : Nat]
    BY <1>2 DEF PpBuild, PpGoes, PpWaitsSame, PpTypeOK
  <2> QED BY <2>1, <2>2, <2>3, <2>4, <2>5 DEF PpTypeOK
<1>3. ASSUME NEW t \in PpThreads, PpTake(t) PROVE PpTypeOK'
  <2>1. ppAt' \in [pump : PpPumpAt, interp : PpInterpAt]
    <3>1. CASE t = "pump"
      BY <1>3, <3>1 DEF PpTake, PpGoes, PpWaitsSame, PpTypeOK, PpLocked, PpPacing, PpPumpAt, PpInterpAt
    <3>2. CASE t = "interp"
      BY <1>3, <3>2 DEF PpTake, PpGoes, PpWaitsSame, PpTypeOK, PpLocked, PpPacing, PpPumpAt, PpInterpAt
    <3> QED BY <3>1, <3>2 DEF PpThreads
  <2>2. ppMutex' \in [state : 0 .. 2, built : Nat, owner : PpThreads \cup {PpNobody}, depth : 0 .. 2]
    BY <1>3, PpDepth DEF PpTypeOK, PpThreads
  <2>3. ppTimer' \in [made : BOOLEAN, owner : PpThreads \cup {PpNobody}]
    BY <1>3 DEF PpTake, PpGoes, PpWaitsSame, PpTypeOK, PpThreads
  <2>4. ppWake' \in BOOLEAN /\ ppFull' \in BOOLEAN /\ ppPark' \in BOOLEAN /\ ppStop' \in BOOLEAN
    BY <1>3 DEF PpTake, PpGoes, PpWaitsSame, PpTypeOK
  <2>5. ppDriver' \in {"esp32", "win32", "pthread"} /\ ppCount' \in [starts : Nat, calls : Nat]
    BY <1>3 DEF PpTake, PpGoes, PpWaitsSame, PpTypeOK
  <2> QED BY <2>1, <2>2, <2>3, <2>4, <2>5 DEF PpTypeOK
<1>4. ASSUME NEW t \in PpThreads, PpNest(t) PROVE PpTypeOK'
  <2>1. ppAt' \in [pump : PpPumpAt, interp : PpInterpAt]
    <3>1. CASE t = "pump"
      BY <1>4, <3>1 DEF PpNest, PpGoes, PpWaitsSame, PpTypeOK, PpLocked, PpPacing, PpPumpAt, PpInterpAt
    <3>2. CASE t = "interp"
      BY <1>4, <3>2 DEF PpNest, PpGoes, PpWaitsSame, PpTypeOK, PpLocked, PpPacing, PpPumpAt, PpInterpAt
    <3> QED BY <3>1, <3>2 DEF PpThreads
  <2>2. ppMutex' \in [state : 0 .. 2, built : Nat, owner : PpThreads \cup {PpNobody}, depth : 0 .. 2]
    BY <1>4 DEF PpNest, PpGoes, PpWaitsSame, PpTypeOK, PpThreads
  <2>3. ppTimer' \in [made : BOOLEAN, owner : PpThreads \cup {PpNobody}]
    BY <1>4 DEF PpNest, PpGoes, PpWaitsSame, PpTypeOK, PpThreads
  <2>4. ppWake' \in BOOLEAN /\ ppFull' \in BOOLEAN /\ ppPark' \in BOOLEAN /\ ppStop' \in BOOLEAN
    BY <1>4 DEF PpNest, PpGoes, PpWaitsSame, PpTypeOK
  <2>5. ppDriver' \in {"esp32", "win32", "pthread"} /\ ppCount' \in [starts : Nat, calls : Nat]
    BY <1>4 DEF PpNest, PpGoes, PpWaitsSame, PpTypeOK
  <2> QED BY <2>1, <2>2, <2>3, <2>4, <2>5 DEF PpTypeOK
<1>5. ASSUME NEW t \in PpThreads, PpGive(t) PROVE PpTypeOK'
  <2>1. ppAt' \in [pump : PpPumpAt, interp : PpInterpAt]
    <3>1. CASE t = "pump"
      BY <1>5, <3>1 DEF PpGive, PpGoes, PpWaitsSame, PpTypeOK, PpLocked, PpPacing, PpPumpAt, PpInterpAt
    <3>2. CASE t = "interp"
      BY <1>5, <3>2 DEF PpGive, PpGoes, PpWaitsSame, PpTypeOK, PpLocked, PpPacing, PpPumpAt, PpInterpAt
    <3> QED BY <3>1, <3>2 DEF PpThreads
  <2>2. ppMutex' \in [state : 0 .. 2, built : Nat, owner : PpThreads \cup {PpNobody}, depth : 0 .. 2]
    BY <1>5, PpDepth DEF PpTypeOK, PpThreads
  <2>3. ppTimer' \in [made : BOOLEAN, owner : PpThreads \cup {PpNobody}]
    BY <1>5 DEF PpGive, PpGoes, PpWaitsSame, PpTypeOK, PpThreads
  <2>4. ppWake' \in BOOLEAN /\ ppFull' \in BOOLEAN /\ ppPark' \in BOOLEAN /\ ppStop' \in BOOLEAN
    BY <1>5 DEF PpGive, PpGoes, PpWaitsSame, PpTypeOK
  <2>5. ppDriver' \in {"esp32", "win32", "pthread"} /\ ppCount' \in [starts : Nat, calls : Nat]
    BY <1>5 DEF PpGive, PpGoes, PpWaitsSame, PpTypeOK
  <2> QED BY <2>1, <2>2, <2>3, <2>4, <2>5 DEF PpTypeOK
<1>6. ASSUME NEW t \in PpThreads, PpSleep(t) PROVE PpTypeOK'
  <2>1. ppAt' \in [pump : PpPumpAt, interp : PpInterpAt]
    <3>1. CASE t = "pump"
      BY <1>6, <3>1 DEF PpSleep, PpGoes, PpWaitsSame, PpPaceDone, PpTypeOK, PpLocked, PpPacing, PpPumpAt, PpInterpAt
    <3>2. CASE t = "interp"
      BY <1>6, <3>2 DEF PpSleep, PpGoes, PpWaitsSame, PpPaceDone, PpTypeOK, PpLocked, PpPacing, PpPumpAt, PpInterpAt
    <3> QED BY <3>1, <3>2 DEF PpThreads
  <2>2. ppMutex' \in [state : 0 .. 2, built : Nat, owner : PpThreads \cup {PpNobody}, depth : 0 .. 2]
    BY <1>6 DEF PpSleep, PpGoes, PpWaitsSame, PpPaceDone, PpTypeOK, PpThreads
  <2>3. ppTimer' \in [made : BOOLEAN, owner : PpThreads \cup {PpNobody}]
    BY <1>6 DEF PpSleep, PpGoes, PpWaitsSame, PpPaceDone, PpTypeOK, PpThreads
  <2>4. ppWake' \in BOOLEAN /\ ppFull' \in BOOLEAN /\ ppPark' \in BOOLEAN /\ ppStop' \in BOOLEAN
    BY <1>6 DEF PpSleep, PpGoes, PpWaitsSame, PpPaceDone, PpTypeOK
  <2>5. ppDriver' \in {"esp32", "win32", "pthread"} /\ ppCount' \in [starts : Nat, calls : Nat]
    BY <1>6 DEF PpSleep, PpGoes, PpWaitsSame, PpPaceDone, PpTypeOK
  <2> QED BY <2>1, <2>2, <2>3, <2>4, <2>5 DEF PpTypeOK
<1>7. ASSUME NEW t \in PpThreads, PpCreate(t) PROVE PpTypeOK'
  <2>1. ppAt' \in [pump : PpPumpAt, interp : PpInterpAt]
    <3>1. CASE t = "pump"
      BY <1>7, <3>1 DEF PpCreate, PpGoes, PpTypeOK, PpLocked, PpPacing, PpPumpAt, PpInterpAt
    <3>2. CASE t = "interp"
      BY <1>7, <3>2 DEF PpCreate, PpGoes, PpTypeOK, PpLocked, PpPacing, PpPumpAt, PpInterpAt
    <3> QED BY <3>1, <3>2 DEF PpThreads
  <2>2. ppMutex' \in [state : 0 .. 2, built : Nat, owner : PpThreads \cup {PpNobody}, depth : 0 .. 2]
    BY <1>7 DEF PpCreate, PpGoes, PpTypeOK, PpThreads
  <2>3. ppTimer' \in [made : BOOLEAN, owner : PpThreads \cup {PpNobody}]
    BY <1>7 DEF PpCreate, PpGoes, PpTypeOK, PpThreads
  <2>4. ppWake' \in BOOLEAN /\ ppFull' \in BOOLEAN /\ ppPark' \in BOOLEAN /\ ppStop' \in BOOLEAN
    BY <1>7 DEF PpCreate, PpGoes, PpTypeOK
  <2>5. ppDriver' \in {"esp32", "win32", "pthread"} /\ ppCount' \in [starts : Nat, calls : Nat]
    BY <1>7 DEF PpCreate, PpGoes, PpTypeOK
  <2> QED BY <2>1, <2>2, <2>3, <2>4, <2>5 DEF PpTypeOK
<1>8. ASSUME NEW t \in PpThreads, PpPick(t) PROVE PpTypeOK'
  <2>1. ppAt' \in [pump : PpPumpAt, interp : PpInterpAt]
    <3>1. CASE t = "pump"
      BY <1>8, <3>1 DEF PpPick, PpGoes, PpWaitsSame, PpTypeOK, PpLocked, PpPacing, PpPumpAt, PpInterpAt
    <3>2. CASE t = "interp"
      BY <1>8, <3>2 DEF PpPick, PpGoes, PpWaitsSame, PpTypeOK, PpLocked, PpPacing, PpPumpAt, PpInterpAt
    <3> QED BY <3>1, <3>2 DEF PpThreads
  <2>2. ppMutex' \in [state : 0 .. 2, built : Nat, owner : PpThreads \cup {PpNobody}, depth : 0 .. 2]
    BY <1>8 DEF PpPick, PpGoes, PpWaitsSame, PpTypeOK, PpThreads
  <2>3. ppTimer' \in [made : BOOLEAN, owner : PpThreads \cup {PpNobody}]
    BY <1>8 DEF PpPick, PpGoes, PpWaitsSame, PpTypeOK, PpThreads
  <2>4. ppWake' \in BOOLEAN /\ ppFull' \in BOOLEAN /\ ppPark' \in BOOLEAN /\ ppStop' \in BOOLEAN
    BY <1>8 DEF PpPick, PpGoes, PpWaitsSame, PpTypeOK
  <2>5. ppDriver' \in {"esp32", "win32", "pthread"} /\ ppCount' \in [starts : Nat, calls : Nat]
    BY <1>8 DEF PpPick, PpGoes, PpWaitsSame, PpTypeOK
  <2> QED BY <2>1, <2>2, <2>3, <2>4, <2>5 DEF PpTypeOK
<1>9. ASSUME NEW t \in PpThreads, PpPaced(t) PROVE PpTypeOK'
  <2> PICK from \in {"on timer", "spins"} : PpGoes(t, from, PpPaceDone(t))
    BY <1>9 DEF PpPaced
  <2>1. CASE t = "pump"
    <3>1. ppAt' \in [pump : PpPumpAt, interp : PpInterpAt]
      BY <1>9, <2>1 DEF PpPaced, PpGoes, PpWaitsSame, PpPaceDone, PpTypeOK, PpLocked, PpPacing, PpPumpAt, PpInterpAt
    <3>2. ppMutex' \in [state : 0 .. 2, built : Nat, owner : PpThreads \cup {PpNobody}, depth : 0 .. 2]
      BY <1>9, <2>1 DEF PpPaced, PpGoes, PpWaitsSame, PpPaceDone, PpTypeOK, PpThreads
    <3>3. ppTimer' \in [made : BOOLEAN, owner : PpThreads \cup {PpNobody}]
      BY <1>9, <2>1 DEF PpPaced, PpGoes, PpWaitsSame, PpPaceDone, PpTypeOK, PpThreads
    <3>4. ppWake' \in BOOLEAN
      BY <1>9, <2>1 DEF PpPaced, PpGoes, PpWaitsSame, PpPaceDone, PpTypeOK
    <3>5. ppFull' \in BOOLEAN /\ ppPark' \in BOOLEAN /\ ppStop' \in BOOLEAN
      BY <1>9, <2>1 DEF PpPaced, PpGoes, PpWaitsSame, PpPaceDone, PpTypeOK
    <3>6. ppDriver' \in {"esp32", "win32", "pthread"} /\ ppCount' \in [starts : Nat, calls : Nat]
      BY <1>9, <2>1 DEF PpPaced, PpGoes, PpWaitsSame, PpPaceDone, PpTypeOK
    <3> QED BY <3>1, <3>2, <3>3, <3>4, <3>5, <3>6 DEF PpTypeOK
  <2>2. CASE t = "interp"
    <3>1. ppAt' \in [pump : PpPumpAt, interp : PpInterpAt]
      BY <1>9, <2>2 DEF PpPaced, PpGoes, PpWaitsSame, PpPaceDone, PpTypeOK, PpLocked, PpPacing, PpPumpAt, PpInterpAt
    <3>2. ppMutex' \in [state : 0 .. 2, built : Nat, owner : PpThreads \cup {PpNobody}, depth : 0 .. 2]
      BY <1>9, <2>2 DEF PpPaced, PpGoes, PpWaitsSame, PpPaceDone, PpTypeOK, PpThreads
    <3>3. ppTimer' \in [made : BOOLEAN, owner : PpThreads \cup {PpNobody}]
      BY <1>9, <2>2 DEF PpPaced, PpGoes, PpWaitsSame, PpPaceDone, PpTypeOK, PpThreads
    <3>4. ppWake' \in BOOLEAN
      BY <1>9, <2>2 DEF PpPaced, PpGoes, PpWaitsSame, PpPaceDone, PpTypeOK
    <3>5. ppFull' \in BOOLEAN /\ ppPark' \in BOOLEAN /\ ppStop' \in BOOLEAN
      BY <1>9, <2>2 DEF PpPaced, PpGoes, PpWaitsSame, PpPaceDone, PpTypeOK
    <3>6. ppDriver' \in {"esp32", "win32", "pthread"} /\ ppCount' \in [starts : Nat, calls : Nat]
      BY <1>9, <2>2 DEF PpPaced, PpGoes, PpWaitsSame, PpPaceDone, PpTypeOK
    <3> QED BY <3>1, <3>2, <3>3, <3>4, <3>5, <3>6 DEF PpTypeOK
  <2> QED BY <2>1, <2>2 DEF PpThreads
<1>10. ASSUME NEW place \in PpPlaces, PpWaits(place) PROVE PpTypeOK'
  <2>1. CASE place = "ring"
    <3>1. ppAt' \in [pump : PpPumpAt, interp : PpInterpAt]
      BY <1>10, <2>1 DEF PpWaits, PpGoes, PpSpins, PpInWait, PpPlaces, PpTypeOK, PpLocked, PpPacing, PpPumpAt, PpInterpAt
    <3>2. ppMutex' \in [state : 0 .. 2, built : Nat, owner : PpThreads \cup {PpNobody}, depth : 0 .. 2]
      BY <1>10, <2>1 DEF PpWaits, PpGoes, PpSpins, PpInWait, PpPlaces, PpTypeOK, PpThreads
    <3>3. ppTimer' \in [made : BOOLEAN, owner : PpThreads \cup {PpNobody}]
      BY <1>10, <2>1 DEF PpWaits, PpGoes, PpSpins, PpInWait, PpPlaces, PpTypeOK, PpThreads
    <3>4. ppWake' \in BOOLEAN
      BY <1>10, <2>1 DEF PpWaits, PpGoes, PpSpins, PpInWait, PpPlaces, PpTypeOK
    <3>5. ppFull' \in BOOLEAN /\ ppPark' \in BOOLEAN /\ ppStop' \in BOOLEAN
      BY <1>10, <2>1 DEF PpWaits, PpGoes, PpSpins, PpInWait, PpPlaces, PpTypeOK
    <3>6. ppDriver' \in {"esp32", "win32", "pthread"} /\ ppCount' \in [starts : Nat, calls : Nat]
      BY <1>10, <2>1 DEF PpWaits, PpGoes, PpSpins, PpInWait, PpPlaces, PpTypeOK
    <3> QED BY <3>1, <3>2, <3>3, <3>4, <3>5, <3>6 DEF PpTypeOK
  <2>2. CASE place = "park"
    <3>1. ppAt' \in [pump : PpPumpAt, interp : PpInterpAt]
      BY <1>10, <2>2 DEF PpWaits, PpGoes, PpSpins, PpInWait, PpPlaces, PpTypeOK, PpLocked, PpPacing, PpPumpAt, PpInterpAt
    <3>2. ppMutex' \in [state : 0 .. 2, built : Nat, owner : PpThreads \cup {PpNobody}, depth : 0 .. 2]
      BY <1>10, <2>2 DEF PpWaits, PpGoes, PpSpins, PpInWait, PpPlaces, PpTypeOK, PpThreads
    <3>3. ppTimer' \in [made : BOOLEAN, owner : PpThreads \cup {PpNobody}]
      BY <1>10, <2>2 DEF PpWaits, PpGoes, PpSpins, PpInWait, PpPlaces, PpTypeOK, PpThreads
    <3>4. ppWake' \in BOOLEAN
      BY <1>10, <2>2 DEF PpWaits, PpGoes, PpSpins, PpInWait, PpPlaces, PpTypeOK
    <3>5. ppFull' \in BOOLEAN /\ ppPark' \in BOOLEAN /\ ppStop' \in BOOLEAN
      BY <1>10, <2>2 DEF PpWaits, PpGoes, PpSpins, PpInWait, PpPlaces, PpTypeOK
    <3>6. ppDriver' \in {"esp32", "win32", "pthread"} /\ ppCount' \in [starts : Nat, calls : Nat]
      BY <1>10, <2>2 DEF PpWaits, PpGoes, PpSpins, PpInWait, PpPlaces, PpTypeOK
    <3> QED BY <3>1, <3>2, <3>3, <3>4, <3>5, <3>6 DEF PpTypeOK
  <2> QED BY <2>1, <2>2 DEF PpPlaces
<1>11. ASSUME NEW place \in PpPlaces, PpReturns(place) PROVE PpTypeOK'
  <2>1. CASE place = "ring"
    <3>1. ppAt' \in [pump : PpPumpAt, interp : PpInterpAt]
      BY <1>11, <2>1 DEF PpReturns, PpGoes, PpBack, PpPlaces, PpTypeOK, PpLocked, PpPacing, PpPumpAt, PpInterpAt
    <3>2. ppMutex' \in [state : 0 .. 2, built : Nat, owner : PpThreads \cup {PpNobody}, depth : 0 .. 2]
      BY <1>11, <2>1 DEF PpReturns, PpGoes, PpBack, PpPlaces, PpTypeOK, PpThreads
    <3>3. ppTimer' \in [made : BOOLEAN, owner : PpThreads \cup {PpNobody}]
      BY <1>11, <2>1 DEF PpReturns, PpGoes, PpBack, PpPlaces, PpTypeOK, PpThreads
    <3>4. ppWake' \in BOOLEAN
      BY <1>11, <2>1 DEF PpReturns, PpGoes, PpBack, PpPlaces, PpTypeOK
    <3>5. ppFull' \in BOOLEAN /\ ppPark' \in BOOLEAN /\ ppStop' \in BOOLEAN
      BY <1>11, <2>1 DEF PpReturns, PpGoes, PpBack, PpPlaces, PpTypeOK
    <3>6. ppDriver' \in {"esp32", "win32", "pthread"} /\ ppCount' \in [starts : Nat, calls : Nat]
      BY <1>11, <2>1 DEF PpReturns, PpGoes, PpBack, PpPlaces, PpTypeOK
    <3> QED BY <3>1, <3>2, <3>3, <3>4, <3>5, <3>6 DEF PpTypeOK
  <2>2. CASE place = "park"
    <3>1. ppAt' \in [pump : PpPumpAt, interp : PpInterpAt]
      BY <1>11, <2>2 DEF PpReturns, PpGoes, PpBack, PpPlaces, PpTypeOK, PpLocked, PpPacing, PpPumpAt, PpInterpAt
    <3>2. ppMutex' \in [state : 0 .. 2, built : Nat, owner : PpThreads \cup {PpNobody}, depth : 0 .. 2]
      BY <1>11, <2>2 DEF PpReturns, PpGoes, PpBack, PpPlaces, PpTypeOK, PpThreads
    <3>3. ppTimer' \in [made : BOOLEAN, owner : PpThreads \cup {PpNobody}]
      BY <1>11, <2>2 DEF PpReturns, PpGoes, PpBack, PpPlaces, PpTypeOK, PpThreads
    <3>4. ppWake' \in BOOLEAN
      BY <1>11, <2>2 DEF PpReturns, PpGoes, PpBack, PpPlaces, PpTypeOK
    <3>5. ppFull' \in BOOLEAN /\ ppPark' \in BOOLEAN /\ ppStop' \in BOOLEAN
      BY <1>11, <2>2 DEF PpReturns, PpGoes, PpBack, PpPlaces, PpTypeOK
    <3>6. ppDriver' \in {"esp32", "win32", "pthread"} /\ ppCount' \in [starts : Nat, calls : Nat]
      BY <1>11, <2>2 DEF PpReturns, PpGoes, PpBack, PpPlaces, PpTypeOK
    <3> QED BY <3>1, <3>2, <3>3, <3>4, <3>5, <3>6 DEF PpTypeOK
  <2> QED BY <2>1, <2>2 DEF PpPlaces
<1>12. ASSUME NEW place \in PpPlaces, PpWaitEnds(place) PROVE PpTypeOK'
  <2>1. CASE place = "ring"
    <3>1. ppAt' \in [pump : PpPumpAt, interp : PpInterpAt]
      BY <1>12, <2>1 DEF PpWaitEnds, PpGoes, PpInWait, PpPlaces, PpTypeOK, PpLocked, PpPacing, PpPumpAt, PpInterpAt
    <3>2. ppMutex' \in [state : 0 .. 2, built : Nat, owner : PpThreads \cup {PpNobody}, depth : 0 .. 2]
      BY <1>12, <2>1 DEF PpWaitEnds, PpGoes, PpInWait, PpPlaces, PpTypeOK, PpThreads
    <3>3. ppTimer' \in [made : BOOLEAN, owner : PpThreads \cup {PpNobody}]
      BY <1>12, <2>1 DEF PpWaitEnds, PpGoes, PpInWait, PpPlaces, PpTypeOK, PpThreads
    <3>4. ppWake' \in BOOLEAN
      BY <1>12, <2>1 DEF PpWaitEnds, PpGoes, PpInWait, PpPlaces, PpTypeOK
    <3>5. ppFull' \in BOOLEAN /\ ppPark' \in BOOLEAN /\ ppStop' \in BOOLEAN
      BY <1>12, <2>1 DEF PpWaitEnds, PpGoes, PpInWait, PpPlaces, PpTypeOK
    <3>6. ppDriver' \in {"esp32", "win32", "pthread"} /\ ppCount' \in [starts : Nat, calls : Nat]
      BY <1>12, <2>1 DEF PpWaitEnds, PpGoes, PpInWait, PpPlaces, PpTypeOK
    <3> QED BY <3>1, <3>2, <3>3, <3>4, <3>5, <3>6 DEF PpTypeOK
  <2>2. CASE place = "park"
    <3>1. ppAt' \in [pump : PpPumpAt, interp : PpInterpAt]
      BY <1>12, <2>2 DEF PpWaitEnds, PpGoes, PpInWait, PpPlaces, PpTypeOK, PpLocked, PpPacing, PpPumpAt, PpInterpAt
    <3>2. ppMutex' \in [state : 0 .. 2, built : Nat, owner : PpThreads \cup {PpNobody}, depth : 0 .. 2]
      BY <1>12, <2>2 DEF PpWaitEnds, PpGoes, PpInWait, PpPlaces, PpTypeOK, PpThreads
    <3>3. ppTimer' \in [made : BOOLEAN, owner : PpThreads \cup {PpNobody}]
      BY <1>12, <2>2 DEF PpWaitEnds, PpGoes, PpInWait, PpPlaces, PpTypeOK, PpThreads
    <3>4. ppWake' \in BOOLEAN
      BY <1>12, <2>2 DEF PpWaitEnds, PpGoes, PpInWait, PpPlaces, PpTypeOK
    <3>5. ppFull' \in BOOLEAN /\ ppPark' \in BOOLEAN /\ ppStop' \in BOOLEAN
      BY <1>12, <2>2 DEF PpWaitEnds, PpGoes, PpInWait, PpPlaces, PpTypeOK
    <3>6. ppDriver' \in {"esp32", "win32", "pthread"} /\ ppCount' \in [starts : Nat, calls : Nat]
      BY <1>12, <2>2 DEF PpWaitEnds, PpGoes, PpInWait, PpPlaces, PpTypeOK
    <3> QED BY <3>1, <3>2, <3>3, <3>4, <3>5, <3>6 DEF PpTypeOK
  <2> QED BY <2>1, <2>2 DEF PpPlaces
<1>13. ASSUME NEW place \in PpPlaces, PpCeiling(place) PROVE PpTypeOK'
  <2>1. CASE place = "ring"
    <3>1. ppAt' \in [pump : PpPumpAt, interp : PpInterpAt]
      BY <1>13, <2>1 DEF PpCeiling, PpGoes, PpWaitsSame, PpInWait, PpBack, PpPlaces, PpTypeOK, PpLocked, PpPacing, PpPumpAt, PpInterpAt
    <3>2. ppMutex' \in [state : 0 .. 2, built : Nat, owner : PpThreads \cup {PpNobody}, depth : 0 .. 2]
      BY <1>13, <2>1 DEF PpCeiling, PpGoes, PpWaitsSame, PpInWait, PpBack, PpPlaces, PpTypeOK, PpThreads
    <3>3. ppTimer' \in [made : BOOLEAN, owner : PpThreads \cup {PpNobody}]
      BY <1>13, <2>1 DEF PpCeiling, PpGoes, PpWaitsSame, PpInWait, PpBack, PpPlaces, PpTypeOK, PpThreads
    <3>4. ppWake' \in BOOLEAN
      BY <1>13, <2>1 DEF PpCeiling, PpGoes, PpWaitsSame, PpInWait, PpBack, PpPlaces, PpTypeOK
    <3>5. ppFull' \in BOOLEAN /\ ppPark' \in BOOLEAN /\ ppStop' \in BOOLEAN
      BY <1>13, <2>1 DEF PpCeiling, PpGoes, PpWaitsSame, PpInWait, PpBack, PpPlaces, PpTypeOK
    <3>6. ppDriver' \in {"esp32", "win32", "pthread"} /\ ppCount' \in [starts : Nat, calls : Nat]
      BY <1>13, <2>1 DEF PpCeiling, PpGoes, PpWaitsSame, PpInWait, PpBack, PpPlaces, PpTypeOK
    <3> QED BY <3>1, <3>2, <3>3, <3>4, <3>5, <3>6 DEF PpTypeOK
  <2>2. CASE place = "park"
    <3>1. ppAt' \in [pump : PpPumpAt, interp : PpInterpAt]
      BY <1>13, <2>2 DEF PpCeiling, PpGoes, PpWaitsSame, PpInWait, PpBack, PpPlaces, PpTypeOK, PpLocked, PpPacing, PpPumpAt, PpInterpAt
    <3>2. ppMutex' \in [state : 0 .. 2, built : Nat, owner : PpThreads \cup {PpNobody}, depth : 0 .. 2]
      BY <1>13, <2>2 DEF PpCeiling, PpGoes, PpWaitsSame, PpInWait, PpBack, PpPlaces, PpTypeOK, PpThreads
    <3>3. ppTimer' \in [made : BOOLEAN, owner : PpThreads \cup {PpNobody}]
      BY <1>13, <2>2 DEF PpCeiling, PpGoes, PpWaitsSame, PpInWait, PpBack, PpPlaces, PpTypeOK, PpThreads
    <3>4. ppWake' \in BOOLEAN
      BY <1>13, <2>2 DEF PpCeiling, PpGoes, PpWaitsSame, PpInWait, PpBack, PpPlaces, PpTypeOK
    <3>5. ppFull' \in BOOLEAN /\ ppPark' \in BOOLEAN /\ ppStop' \in BOOLEAN
      BY <1>13, <2>2 DEF PpCeiling, PpGoes, PpWaitsSame, PpInWait, PpBack, PpPlaces, PpTypeOK
    <3>6. ppDriver' \in {"esp32", "win32", "pthread"} /\ ppCount' \in [starts : Nat, calls : Nat]
      BY <1>13, <2>2 DEF PpCeiling, PpGoes, PpWaitsSame, PpInWait, PpBack, PpPlaces, PpTypeOK
    <3> QED BY <3>1, <3>2, <3>3, <3>4, <3>5, <3>6 DEF PpTypeOK
  <2> QED BY <2>1, <2>2 DEF PpPlaces
<1>14. CASE PpLooks("ring", "park")
  <2>1. ppAt' \in [pump : PpPumpAt, interp : PpInterpAt]
    BY <1>14 DEF PpLooks, PpGoes, PpWaitsSame, PpSpins, PpTypeOK, PpLocked, PpPacing, PpPumpAt, PpInterpAt
  <2>2. ppMutex' \in [state : 0 .. 2, built : Nat, owner : PpThreads \cup {PpNobody}, depth : 0 .. 2]
    BY <1>14 DEF PpLooks, PpGoes, PpWaitsSame, PpSpins, PpTypeOK, PpThreads
  <2>3. ppTimer' \in [made : BOOLEAN, owner : PpThreads \cup {PpNobody}]
    BY <1>14 DEF PpLooks, PpGoes, PpWaitsSame, PpSpins, PpTypeOK, PpThreads
  <2>4. ppWake' \in BOOLEAN /\ ppFull' \in BOOLEAN /\ ppPark' \in BOOLEAN /\ ppStop' \in BOOLEAN
    BY <1>14 DEF PpLooks, PpGoes, PpWaitsSame, PpSpins, PpTypeOK
  <2>5. ppDriver' \in {"esp32", "win32", "pthread"} /\ ppCount' \in [starts : Nat, calls : Nat]
    BY <1>14 DEF PpLooks, PpGoes, PpWaitsSame, PpSpins, PpTypeOK
  <2> QED BY <2>1, <2>2, <2>3, <2>4, <2>5 DEF PpTypeOK
<1>15. CASE PpLooks("park", "paces")
  <2>1. ppAt' \in [pump : PpPumpAt, interp : PpInterpAt]
    BY <1>15 DEF PpLooks, PpGoes, PpWaitsSame, PpSpins, PpTypeOK, PpLocked, PpPacing, PpPumpAt, PpInterpAt
  <2>2. ppMutex' \in [state : 0 .. 2, built : Nat, owner : PpThreads \cup {PpNobody}, depth : 0 .. 2]
    BY <1>15 DEF PpLooks, PpGoes, PpWaitsSame, PpSpins, PpTypeOK, PpThreads
  <2>3. ppTimer' \in [made : BOOLEAN, owner : PpThreads \cup {PpNobody}]
    BY <1>15 DEF PpLooks, PpGoes, PpWaitsSame, PpSpins, PpTypeOK, PpThreads
  <2>4. ppWake' \in BOOLEAN /\ ppFull' \in BOOLEAN /\ ppPark' \in BOOLEAN /\ ppStop' \in BOOLEAN
    BY <1>15 DEF PpLooks, PpGoes, PpWaitsSame, PpSpins, PpTypeOK
  <2>5. ppDriver' \in {"esp32", "win32", "pthread"} /\ ppCount' \in [starts : Nat, calls : Nat]
    BY <1>15 DEF PpLooks, PpGoes, PpWaitsSame, PpSpins, PpTypeOK
  <2> QED BY <2>1, <2>2, <2>3, <2>4, <2>5 DEF PpTypeOK
<1>16. CASE PpWakes("wakes", "idle")
  <2>1. ppAt' \in [pump : PpPumpAt, interp : PpInterpAt]
    BY <1>16 DEF PpWakes, PpKept, PpTypeOK, PpLocked, PpPacing, PpPumpAt, PpInterpAt
  <2>2. ppMutex' \in [state : 0 .. 2, built : Nat, owner : PpThreads \cup {PpNobody}, depth : 0 .. 2]
    BY <1>16 DEF PpWakes, PpKept, PpTypeOK, PpThreads
  <2>3. ppTimer' \in [made : BOOLEAN, owner : PpThreads \cup {PpNobody}]
    BY <1>16 DEF PpWakes, PpKept, PpTypeOK, PpThreads
  <2>4. ppWake' \in BOOLEAN /\ ppFull' \in BOOLEAN /\ ppPark' \in BOOLEAN /\ ppStop' \in BOOLEAN
    BY <1>16 DEF PpWakes, PpKept, PpTypeOK
  <2>5. ppDriver' \in {"esp32", "win32", "pthread"} /\ ppCount' \in [starts : Nat, calls : Nat]
    BY <1>16 DEF PpWakes, PpKept, PpTypeOK
  <2> QED BY <2>1, <2>2, <2>3, <2>4, <2>5 DEF PpTypeOK
<1>17. CASE PpWakes("stops", "stopping")
  <2>1. ppAt' \in [pump : PpPumpAt, interp : PpInterpAt]
    BY <1>17 DEF PpWakes, PpKept, PpTypeOK, PpLocked, PpPacing, PpPumpAt, PpInterpAt
  <2>2. ppMutex' \in [state : 0 .. 2, built : Nat, owner : PpThreads \cup {PpNobody}, depth : 0 .. 2]
    BY <1>17 DEF PpWakes, PpKept, PpTypeOK, PpThreads
  <2>3. ppTimer' \in [made : BOOLEAN, owner : PpThreads \cup {PpNobody}]
    BY <1>17 DEF PpWakes, PpKept, PpTypeOK, PpThreads
  <2>4. ppWake' \in BOOLEAN /\ ppFull' \in BOOLEAN /\ ppPark' \in BOOLEAN /\ ppStop' \in BOOLEAN
    BY <1>17 DEF PpWakes, PpKept, PpTypeOK
  <2>5. ppDriver' \in {"esp32", "win32", "pthread"} /\ ppCount' \in [starts : Nat, calls : Nat]
    BY <1>17 DEF PpWakes, PpKept, PpTypeOK
  <2> QED BY <2>1, <2>2, <2>3, <2>4, <2>5 DEF PpTypeOK
<1>18. CASE PpTop
  <2>1. ppAt' \in [pump : PpPumpAt, interp : PpInterpAt]
    BY <1>18 DEF PpTop, PpGoes, PpWaitsSame, PpTypeOK, PpLocked, PpPacing, PpPumpAt, PpInterpAt
  <2>2. ppMutex' \in [state : 0 .. 2, built : Nat, owner : PpThreads \cup {PpNobody}, depth : 0 .. 2]
    BY <1>18 DEF PpTop, PpGoes, PpWaitsSame, PpTypeOK, PpThreads
  <2>3. ppTimer' \in [made : BOOLEAN, owner : PpThreads \cup {PpNobody}]
    BY <1>18 DEF PpTop, PpGoes, PpWaitsSame, PpTypeOK, PpThreads
  <2>4. ppWake' \in BOOLEAN /\ ppFull' \in BOOLEAN /\ ppPark' \in BOOLEAN /\ ppStop' \in BOOLEAN
    BY <1>18 DEF PpTop, PpGoes, PpWaitsSame, PpTypeOK
  <2>5. ppDriver' \in {"esp32", "win32", "pthread"} /\ ppCount' \in [starts : Nat, calls : Nat]
    BY <1>18 DEF PpTop, PpGoes, PpWaitsSame, PpTypeOK
  <2> QED BY <2>1, <2>2, <2>3, <2>4, <2>5 DEF PpTypeOK
<1>19. CASE PpMade
  <2>1. ppAt' \in [pump : PpPumpAt, interp : PpInterpAt]
    BY <1>19 DEF PpMade, PpGoes, PpTypeOK, PpLocked, PpPacing, PpPumpAt, PpInterpAt
  <2>2. ppMutex' \in [state : 0 .. 2, built : Nat, owner : PpThreads \cup {PpNobody}, depth : 0 .. 2]
    BY <1>19 DEF PpMade, PpGoes, PpTypeOK, PpThreads
  <2>3. ppTimer' \in [made : BOOLEAN, owner : PpThreads \cup {PpNobody}]
    BY <1>19 DEF PpMade, PpGoes, PpTypeOK, PpThreads
  <2>4. ppWake' \in BOOLEAN /\ ppFull' \in BOOLEAN /\ ppPark' \in BOOLEAN /\ ppStop' \in BOOLEAN
    BY <1>19 DEF PpMade, PpGoes, PpTypeOK
  <2>5. ppDriver' \in {"esp32", "win32", "pthread"} /\ ppCount' \in [starts : Nat, calls : Nat]
    BY <1>19 DEF PpMade, PpGoes, PpTypeOK
  <2> QED BY <2>1, <2>2, <2>3, <2>4, <2>5 DEF PpTypeOK
<1>20. CASE PpStopWaits
  <2>1. ppAt' \in [pump : PpPumpAt, interp : PpInterpAt]
    BY <1>20 DEF PpStopWaits, PpGoes, PpWaitsSame, PpTypeOK, PpLocked, PpPacing, PpPumpAt, PpInterpAt
  <2>2. ppMutex' \in [state : 0 .. 2, built : Nat, owner : PpThreads \cup {PpNobody}, depth : 0 .. 2]
    BY <1>20 DEF PpStopWaits, PpGoes, PpWaitsSame, PpTypeOK, PpThreads
  <2>3. ppTimer' \in [made : BOOLEAN, owner : PpThreads \cup {PpNobody}]
    BY <1>20 DEF PpStopWaits, PpGoes, PpWaitsSame, PpTypeOK, PpThreads
  <2>4. ppWake' \in BOOLEAN /\ ppFull' \in BOOLEAN /\ ppPark' \in BOOLEAN /\ ppStop' \in BOOLEAN
    BY <1>20 DEF PpStopWaits, PpGoes, PpWaitsSame, PpTypeOK
  <2>5. ppDriver' \in {"esp32", "win32", "pthread"} /\ ppCount' \in [starts : Nat, calls : Nat]
    BY <1>20 DEF PpStopWaits, PpGoes, PpWaitsSame, PpTypeOK
  <2> QED BY <2>1, <2>2, <2>3, <2>4, <2>5 DEF PpTypeOK
<1>21. CASE PpRelease
  <2>1. ppAt' \in [pump : PpPumpAt, interp : PpInterpAt]
    BY <1>21 DEF PpRelease, PpTeardown, PpTypeOK, PpLocked, PpPacing, PpPumpAt, PpInterpAt
  <2>2. ppMutex' \in [state : 0 .. 2, built : Nat, owner : PpThreads \cup {PpNobody}, depth : 0 .. 2]
    BY <1>21 DEF PpRelease, PpTeardown, PpTypeOK, PpThreads
  <2>3. ppTimer' \in [made : BOOLEAN, owner : PpThreads \cup {PpNobody}]
    BY <1>21 DEF PpRelease, PpTeardown, PpTypeOK, PpThreads
  <2>4. ppWake' \in BOOLEAN /\ ppFull' \in BOOLEAN /\ ppPark' \in BOOLEAN /\ ppStop' \in BOOLEAN
    BY <1>21 DEF PpRelease, PpTeardown, PpTypeOK
  <2>5. ppDriver' \in {"esp32", "win32", "pthread"} /\ ppCount' \in [starts : Nat, calls : Nat]
    BY <1>21 DEF PpRelease, PpTeardown, PpTypeOK
  <2> QED BY <2>1, <2>2, <2>3, <2>4, <2>5 DEF PpTypeOK
<1>22. CASE PpStart
  <2>1. ppAt' \in [pump : PpPumpAt, interp : PpInterpAt]
    BY <1>22 DEF PpStart, PpTypeOK, PpLocked, PpPacing, PpPumpAt, PpInterpAt
  <2>2. ppMutex' \in [state : 0 .. 2, built : Nat, owner : PpThreads \cup {PpNobody}, depth : 0 .. 2]
    BY <1>22 DEF PpStart, PpTypeOK, PpThreads
  <2>3. ppTimer' \in [made : BOOLEAN, owner : PpThreads \cup {PpNobody}]
    BY <1>22 DEF PpStart, PpTypeOK, PpThreads
  <2>4. ppWake' \in BOOLEAN /\ ppFull' \in BOOLEAN /\ ppPark' \in BOOLEAN /\ ppStop' \in BOOLEAN
    BY <1>22 DEF PpStart, PpTypeOK
  <2>5. ppDriver' \in {"esp32", "win32", "pthread"} /\ ppCount' \in [starts : Nat, calls : Nat]
    BY <1>22 DEF PpStart, PpTypeOK
  <2> QED BY <2>1, <2>2, <2>3, <2>4, <2>5 DEF PpTypeOK
<1>23. CASE PpControl
  <2>1. ppAt' \in [pump : PpPumpAt, interp : PpInterpAt]
    BY <1>23 DEF PpControl, PpGoes, PpCall, PpTypeOK, PpLocked, PpPacing, PpPumpAt, PpInterpAt
  <2>2. ppMutex' \in [state : 0 .. 2, built : Nat, owner : PpThreads \cup {PpNobody}, depth : 0 .. 2]
    BY <1>23 DEF PpControl, PpGoes, PpCall, PpTypeOK, PpThreads
  <2>3. ppTimer' \in [made : BOOLEAN, owner : PpThreads \cup {PpNobody}]
    BY <1>23 DEF PpControl, PpGoes, PpCall, PpTypeOK, PpThreads
  <2>4. ppWake' \in BOOLEAN /\ ppFull' \in BOOLEAN /\ ppPark' \in BOOLEAN /\ ppStop' \in BOOLEAN
    BY <1>23 DEF PpControl, PpGoes, PpCall, PpTypeOK
  <2>5. ppDriver' \in {"esp32", "win32", "pthread"} /\ ppCount' \in [starts : Nat, calls : Nat]
    BY <1>23 DEF PpControl, PpGoes, PpCall, PpTypeOK
  <2> QED BY <2>1, <2>2, <2>3, <2>4, <2>5 DEF PpTypeOK
<1>24. CASE PpStops
  <2>1. ppAt' \in [pump : PpPumpAt, interp : PpInterpAt]
    BY <1>24 DEF PpStops, PpGoes, PpTypeOK, PpLocked, PpPacing, PpPumpAt, PpInterpAt
  <2>2. ppMutex' \in [state : 0 .. 2, built : Nat, owner : PpThreads \cup {PpNobody}, depth : 0 .. 2]
    BY <1>24 DEF PpStops, PpGoes, PpTypeOK, PpThreads
  <2>3. ppTimer' \in [made : BOOLEAN, owner : PpThreads \cup {PpNobody}]
    BY <1>24 DEF PpStops, PpGoes, PpTypeOK, PpThreads
  <2>4. ppWake' \in BOOLEAN /\ ppFull' \in BOOLEAN /\ ppPark' \in BOOLEAN /\ ppStop' \in BOOLEAN
    BY <1>24 DEF PpStops, PpGoes, PpTypeOK
  <2>5. ppDriver' \in {"esp32", "win32", "pthread"} /\ ppCount' \in [starts : Nat, calls : Nat]
    BY <1>24 DEF PpStops, PpGoes, PpTypeOK
  <2> QED BY <2>1, <2>2, <2>3, <2>4, <2>5 DEF PpTypeOK
<1> QED BY PpSteps, <1>1, <1>2, <1>3, <1>4, <1>5, <1>6, <1>7, <1>8, <1>9, <1>10, <1>11, <1>12, <1>13, <1>14, <1>15, <1>16, <1>17, <1>18, <1>19, <1>20, <1>21, <1>22, <1>23, <1>24

\* Every step keeps the building of the lock.
LEMMA PpBuildsKept ==
    ASSUME PpInv, PpNext
    PROVE  PpOneBuilds'
<1> USE PpAssumption DEF PpInv, PpTypeOK, PpOneBuilds, PpOneHolds, PpThreads
<1>1. ASSUME NEW t \in PpThreads, PpEnsure(t) PROVE PpOneBuilds'
  <2>1. CASE t = "pump"
    BY <1>1, <2>1 DEF PpEnsure, PpGoes, PpWaitsSame, PpToBuild
  <2>2. CASE t = "interp"
    BY <1>1, <2>2 DEF PpEnsure, PpGoes, PpWaitsSame, PpToBuild
  <2> QED BY <2>1, <2>2 DEF PpThreads
<1>2. ASSUME NEW t \in PpThreads, PpBuild(t) PROVE PpOneBuilds'
  <2>1. CASE t = "pump"
    BY <1>2, <2>1 DEF PpBuild, PpGoes, PpWaitsSame
  <2>2. CASE t = "interp"
    BY <1>2, <2>2 DEF PpBuild, PpGoes, PpWaitsSame
  <2> QED BY <2>1, <2>2 DEF PpThreads
<1>3. ASSUME NEW t \in PpThreads, PpTake(t) PROVE PpOneBuilds'
  <2>1. CASE t = "pump"
    BY <1>3, <2>1 DEF PpTake, PpGoes, PpWaitsSame
  <2>2. CASE t = "interp"
    BY <1>3, <2>2 DEF PpTake, PpGoes, PpWaitsSame
  <2> QED BY <2>1, <2>2 DEF PpThreads
<1>4. ASSUME NEW t \in PpThreads, PpNest(t) PROVE PpOneBuilds'
  <2>1. CASE t = "pump"
    BY <1>4, <2>1 DEF PpNest, PpGoes, PpWaitsSame
  <2>2. CASE t = "interp"
    BY <1>4, <2>2 DEF PpNest, PpGoes, PpWaitsSame
  <2> QED BY <2>1, <2>2 DEF PpThreads
<1>5. ASSUME NEW t \in PpThreads, PpGive(t) PROVE PpOneBuilds'
  <2>1. CASE t = "pump"
    BY <1>5, <2>1 DEF PpGive, PpGoes, PpWaitsSame
  <2>2. CASE t = "interp"
    BY <1>5, <2>2 DEF PpGive, PpGoes, PpWaitsSame
  <2> QED BY <2>1, <2>2 DEF PpThreads
<1>6. ASSUME NEW t \in PpThreads, PpSleep(t) PROVE PpOneBuilds'
  <2>1. CASE t = "pump"
    BY <1>6, <2>1 DEF PpSleep, PpGoes, PpWaitsSame, PpPaceDone
  <2>2. CASE t = "interp"
    BY <1>6, <2>2 DEF PpSleep, PpGoes, PpWaitsSame, PpPaceDone
  <2> QED BY <2>1, <2>2 DEF PpThreads
<1>7. ASSUME NEW t \in PpThreads, PpCreate(t) PROVE PpOneBuilds'
  <2>1. CASE t = "pump"
    BY <1>7, <2>1 DEF PpCreate, PpGoes
  <2>2. CASE t = "interp"
    BY <1>7, <2>2 DEF PpCreate, PpGoes
  <2> QED BY <2>1, <2>2 DEF PpThreads
<1>8. ASSUME NEW t \in PpThreads, PpPick(t) PROVE PpOneBuilds'
  <2>1. CASE t = "pump"
    BY <1>8, <2>1 DEF PpPick, PpGoes, PpWaitsSame
  <2>2. CASE t = "interp"
    BY <1>8, <2>2 DEF PpPick, PpGoes, PpWaitsSame
  <2> QED BY <2>1, <2>2 DEF PpThreads
<1>9. ASSUME NEW t \in PpThreads, PpPaced(t) PROVE PpOneBuilds'
  <2> PICK from \in {"on timer", "spins"} : PpGoes(t, from, PpPaceDone(t))
    BY <1>9 DEF PpPaced
  <2>1. CASE t = "pump"
    BY <1>9, <2>1 DEF PpPaced, PpGoes, PpWaitsSame, PpPaceDone
  <2>2. CASE t = "interp"
    BY <1>9, <2>2 DEF PpPaced, PpGoes, PpWaitsSame, PpPaceDone
  <2> QED BY <2>1, <2>2 DEF PpThreads
<1>10. ASSUME NEW place \in PpPlaces, PpWaits(place) PROVE PpOneBuilds'
  BY <1>10, PpWaitsAside
<1>11. ASSUME NEW place \in PpPlaces, PpReturns(place) PROVE PpOneBuilds'
  <2>1. CASE place = "ring"
    BY <1>11, <2>1 DEF PpReturns, PpGoes, PpBack, PpPlaces
  <2>2. CASE place = "park"
    BY <1>11, <2>2 DEF PpReturns, PpGoes, PpBack, PpPlaces
  <2> QED BY <2>1, <2>2 DEF PpPlaces
<1>12. ASSUME NEW place \in PpPlaces, PpWaitEnds(place) PROVE PpOneBuilds'
  <2>1. CASE place = "ring"
    BY <1>12, <2>1 DEF PpWaitEnds, PpGoes, PpInWait, PpPlaces
  <2>2. CASE place = "park"
    BY <1>12, <2>2 DEF PpWaitEnds, PpGoes, PpInWait, PpPlaces
  <2> QED BY <2>1, <2>2 DEF PpPlaces
<1>13. ASSUME NEW place \in PpPlaces, PpCeiling(place) PROVE PpOneBuilds'
  <2>1. CASE place = "ring"
    BY <1>13, <2>1 DEF PpCeiling, PpGoes, PpWaitsSame, PpInWait, PpBack, PpPlaces
  <2>2. CASE place = "park"
    BY <1>13, <2>2 DEF PpCeiling, PpGoes, PpWaitsSame, PpInWait, PpBack, PpPlaces
  <2> QED BY <2>1, <2>2 DEF PpPlaces
<1>14. CASE PpLooks("ring", "park")
  BY <1>14 DEF PpLooks, PpGoes, PpWaitsSame, PpSpins
<1>15. CASE PpLooks("park", "paces")
  BY <1>15 DEF PpLooks, PpGoes, PpWaitsSame, PpSpins
<1>16. CASE PpWakes("wakes", "idle")
  BY <1>16, PpWakesAside
<1>17. CASE PpWakes("stops", "stopping")
  BY <1>17, PpWakesAside
<1>18. CASE PpTop
  BY <1>18 DEF PpTop, PpGoes, PpWaitsSame
<1>19. CASE PpMade
  BY <1>19 DEF PpMade, PpGoes
<1>20. CASE PpStopWaits
  BY <1>20 DEF PpStopWaits, PpGoes, PpWaitsSame
<1>21. CASE PpRelease
  BY <1>21 DEF PpRelease, PpTeardown
<1>22. CASE PpStart
  BY <1>22 DEF PpStart
<1>23. CASE PpControl
  <2>1. /\ \/ PpGoes("interp", "idle", "ensures") /\ UNCHANGED <<ppFull, ppPark>>
           \/ PpGoes("interp", "idle", "wakes")
        /\ UNCHANGED <<ppDriver, ppMutex, ppWake, ppTimer, ppStop>>
    BY <1>23 DEF PpControl
  <2>2. CASE PpGoes("interp", "idle", "ensures") /\ UNCHANGED <<ppFull, ppPark>>
    BY <2>1, <2>2 DEF PpGoes
  <2>3. CASE PpGoes("interp", "idle", "wakes")
    BY <2>1, <2>3 DEF PpGoes
  <2> QED BY <2>1, <2>2, <2>3
<1>24. CASE PpStops
  BY <1>24 DEF PpStops, PpGoes
<1> QED BY PpSteps, <1>1, <1>2, <1>3, <1>4, <1>5, <1>6, <1>7, <1>8, <1>9, <1>10, <1>11, <1>12, <1>13, <1>14, <1>15, <1>16, <1>17, <1>18, <1>19, <1>20, <1>21, <1>22, <1>23, <1>24

\* Every step keeps the holding of the lock.
LEMMA PpHoldsKept ==
    ASSUME PpInv, PpNext
    PROVE  PpOneHolds'
<1> USE PpAssumption DEF PpInv, PpTypeOK, PpOneBuilds, PpOneHolds, PpThreads
<1>1. ASSUME NEW t \in PpThreads, PpEnsure(t) PROVE PpOneHolds'
  <2>1. CASE t = "pump"
    BY <1>1, <2>1 DEF PpEnsure, PpGoes, PpWaitsSame, PpToBuild
  <2>2. CASE t = "interp"
    BY <1>1, <2>2 DEF PpEnsure, PpGoes, PpWaitsSame, PpToBuild
  <2> QED BY <2>1, <2>2 DEF PpThreads
<1>2. ASSUME NEW t \in PpThreads, PpBuild(t) PROVE PpOneHolds'
  <2>1. CASE t = "pump"
    BY <1>2, <2>1 DEF PpBuild, PpGoes, PpWaitsSame
  <2>2. CASE t = "interp"
    BY <1>2, <2>2 DEF PpBuild, PpGoes, PpWaitsSame
  <2> QED BY <2>1, <2>2 DEF PpThreads
<1>3. ASSUME NEW t \in PpThreads, PpTake(t) PROVE PpOneHolds'
  <2>1. CASE t = "pump"
    BY <1>3, <2>1 DEF PpTake, PpGoes, PpWaitsSame
  <2>2. CASE t = "interp"
    BY <1>3, <2>2 DEF PpTake, PpGoes, PpWaitsSame
  <2> QED BY <2>1, <2>2 DEF PpThreads
<1>4. ASSUME NEW t \in PpThreads, PpNest(t) PROVE PpOneHolds'
  <2>1. CASE t = "pump"
    BY <1>4, <2>1 DEF PpNest, PpGoes, PpWaitsSame
  <2>2. CASE t = "interp"
    BY <1>4, <2>2 DEF PpNest, PpGoes, PpWaitsSame
  <2> QED BY <2>1, <2>2 DEF PpThreads
<1>5. ASSUME NEW t \in PpThreads, PpGive(t) PROVE PpOneHolds'
  <2>1. CASE t = "pump"
    BY <1>5, <2>1 DEF PpGive, PpGoes, PpWaitsSame
  <2>2. CASE t = "interp"
    BY <1>5, <2>2 DEF PpGive, PpGoes, PpWaitsSame
  <2> QED BY <2>1, <2>2 DEF PpThreads
<1>6. ASSUME NEW t \in PpThreads, PpSleep(t) PROVE PpOneHolds'
  <2>1. CASE t = "pump"
    BY <1>6, <2>1 DEF PpSleep, PpGoes, PpWaitsSame, PpPaceDone
  <2>2. CASE t = "interp"
    BY <1>6, <2>2 DEF PpSleep, PpGoes, PpWaitsSame, PpPaceDone
  <2> QED BY <2>1, <2>2 DEF PpThreads
<1>7. ASSUME NEW t \in PpThreads, PpCreate(t) PROVE PpOneHolds'
  <2>1. CASE t = "pump"
    BY <1>7, <2>1 DEF PpCreate, PpGoes
  <2>2. CASE t = "interp"
    BY <1>7, <2>2 DEF PpCreate, PpGoes
  <2> QED BY <2>1, <2>2 DEF PpThreads
<1>8. ASSUME NEW t \in PpThreads, PpPick(t) PROVE PpOneHolds'
  <2>1. CASE t = "pump"
    BY <1>8, <2>1 DEF PpPick, PpGoes, PpWaitsSame
  <2>2. CASE t = "interp"
    BY <1>8, <2>2 DEF PpPick, PpGoes, PpWaitsSame
  <2> QED BY <2>1, <2>2 DEF PpThreads
<1>9. ASSUME NEW t \in PpThreads, PpPaced(t) PROVE PpOneHolds'
  <2> PICK from \in {"on timer", "spins"} : PpGoes(t, from, PpPaceDone(t))
    BY <1>9 DEF PpPaced
  <2>1. CASE t = "pump"
    BY <1>9, <2>1 DEF PpPaced, PpGoes, PpWaitsSame, PpPaceDone
  <2>2. CASE t = "interp"
    BY <1>9, <2>2 DEF PpPaced, PpGoes, PpWaitsSame, PpPaceDone
  <2> QED BY <2>1, <2>2 DEF PpThreads
<1>10. ASSUME NEW place \in PpPlaces, PpWaits(place) PROVE PpOneHolds'
  BY <1>10, PpWaitsAside
<1>11. ASSUME NEW place \in PpPlaces, PpReturns(place) PROVE PpOneHolds'
  <2>1. CASE place = "ring"
    BY <1>11, <2>1 DEF PpReturns, PpGoes, PpBack, PpPlaces
  <2>2. CASE place = "park"
    BY <1>11, <2>2 DEF PpReturns, PpGoes, PpBack, PpPlaces
  <2> QED BY <2>1, <2>2 DEF PpPlaces
<1>12. ASSUME NEW place \in PpPlaces, PpWaitEnds(place) PROVE PpOneHolds'
  <2>1. CASE place = "ring"
    BY <1>12, <2>1 DEF PpWaitEnds, PpGoes, PpInWait, PpPlaces
  <2>2. CASE place = "park"
    BY <1>12, <2>2 DEF PpWaitEnds, PpGoes, PpInWait, PpPlaces
  <2> QED BY <2>1, <2>2 DEF PpPlaces
<1>13. ASSUME NEW place \in PpPlaces, PpCeiling(place) PROVE PpOneHolds'
  <2>1. CASE place = "ring"
    BY <1>13, <2>1 DEF PpCeiling, PpGoes, PpWaitsSame, PpInWait, PpBack, PpPlaces
  <2>2. CASE place = "park"
    BY <1>13, <2>2 DEF PpCeiling, PpGoes, PpWaitsSame, PpInWait, PpBack, PpPlaces
  <2> QED BY <2>1, <2>2 DEF PpPlaces
<1>14. CASE PpLooks("ring", "park")
  BY <1>14 DEF PpLooks, PpGoes, PpWaitsSame, PpSpins
<1>15. CASE PpLooks("park", "paces")
  BY <1>15 DEF PpLooks, PpGoes, PpWaitsSame, PpSpins
<1>16. CASE PpWakes("wakes", "idle")
  BY <1>16, PpWakesAside
<1>17. CASE PpWakes("stops", "stopping")
  BY <1>17, PpWakesAside
<1>18. CASE PpTop
  BY <1>18 DEF PpTop, PpGoes, PpWaitsSame
<1>19. CASE PpMade
  BY <1>19 DEF PpMade, PpGoes
<1>20. CASE PpStopWaits
  BY <1>20 DEF PpStopWaits, PpGoes, PpWaitsSame
<1>21. CASE PpRelease
  BY <1>21 DEF PpRelease, PpTeardown
<1>22. CASE PpStart
  BY <1>22 DEF PpStart
<1>23. CASE PpControl
  <2>1. /\ \/ PpGoes("interp", "idle", "ensures") /\ UNCHANGED <<ppFull, ppPark>>
           \/ PpGoes("interp", "idle", "wakes")
        /\ UNCHANGED <<ppDriver, ppMutex, ppWake, ppTimer, ppStop>>
    BY <1>23 DEF PpControl
  <2>2. CASE PpGoes("interp", "idle", "ensures") /\ UNCHANGED <<ppFull, ppPark>>
    BY <2>1, <2>2 DEF PpGoes
  <2>3. CASE PpGoes("interp", "idle", "wakes")
    BY <2>1, <2>3 DEF PpGoes
  <2> QED BY <2>1, <2>2, <2>3
<1>24. CASE PpStops
  BY <1>24 DEF PpStops, PpGoes
<1> QED BY PpSteps, <1>1, <1>2, <1>3, <1>4, <1>5, <1>6, <1>7, <1>8, <1>9, <1>10, <1>11, <1>12, <1>13, <1>14, <1>15, <1>16, <1>17, <1>18, <1>19, <1>20, <1>21, <1>22, <1>23, <1>24

\* Every step keeps the wakes.
LEMMA PpWokenKept ==
    ASSUME PpInv, PpNext
    PROVE  PpWoken'
<1> USE PpAssumption DEF PpInv, PpTypeOK, PpWoken, PpToldToWait, PpSpins, PpInWait, PpPlaces
<1>1. ASSUME NEW t \in PpThreads, PpEnsure(t) PROVE PpWoken'
  <2>1. CASE t = "pump"
    BY <1>1, <2>1 DEF PpEnsure, PpGoes, PpWaitsSame, PpToBuild
  <2>2. CASE t = "interp"
    BY <1>1, <2>2 DEF PpEnsure, PpGoes, PpWaitsSame, PpToBuild
  <2> QED BY <2>1, <2>2 DEF PpThreads
<1>2. ASSUME NEW t \in PpThreads, PpBuild(t) PROVE PpWoken'
  <2>1. CASE t = "pump"
    BY <1>2, <2>1 DEF PpBuild, PpGoes, PpWaitsSame
  <2>2. CASE t = "interp"
    BY <1>2, <2>2 DEF PpBuild, PpGoes, PpWaitsSame
  <2> QED BY <2>1, <2>2 DEF PpThreads
<1>3. ASSUME NEW t \in PpThreads, PpTake(t) PROVE PpWoken'
  <2>1. CASE t = "pump"
    BY <1>3, <2>1 DEF PpTake, PpGoes, PpWaitsSame
  <2>2. CASE t = "interp"
    BY <1>3, <2>2 DEF PpTake, PpGoes, PpWaitsSame
  <2> QED BY <2>1, <2>2 DEF PpThreads
<1>4. ASSUME NEW t \in PpThreads, PpNest(t) PROVE PpWoken'
  <2>1. CASE t = "pump"
    BY <1>4, <2>1 DEF PpNest, PpGoes, PpWaitsSame
  <2>2. CASE t = "interp"
    BY <1>4, <2>2 DEF PpNest, PpGoes, PpWaitsSame
  <2> QED BY <2>1, <2>2 DEF PpThreads
<1>5. ASSUME NEW t \in PpThreads, PpGive(t) PROVE PpWoken'
  <2>1. CASE t = "pump"
    BY <1>5, <2>1 DEF PpGive, PpGoes, PpWaitsSame
  <2>2. CASE t = "interp"
    BY <1>5, <2>2 DEF PpGive, PpGoes, PpWaitsSame
  <2> QED BY <2>1, <2>2 DEF PpThreads
<1>6. ASSUME NEW t \in PpThreads, PpSleep(t) PROVE PpWoken'
  <2>1. CASE t = "pump"
    BY <1>6, <2>1 DEF PpSleep, PpGoes, PpWaitsSame, PpPaceDone
  <2>2. CASE t = "interp"
    BY <1>6, <2>2 DEF PpSleep, PpGoes, PpWaitsSame, PpPaceDone
  <2> QED BY <2>1, <2>2 DEF PpThreads
<1>7. ASSUME NEW t \in PpThreads, PpCreate(t) PROVE PpWoken'
  <2>1. CASE t = "pump"
    BY <1>7, <2>1 DEF PpCreate, PpGoes
  <2>2. CASE t = "interp"
    BY <1>7, <2>2 DEF PpCreate, PpGoes
  <2> QED BY <2>1, <2>2 DEF PpThreads
<1>8. ASSUME NEW t \in PpThreads, PpPick(t) PROVE PpWoken'
  <2>1. CASE t = "pump"
    BY <1>8, <2>1 DEF PpPick, PpGoes, PpWaitsSame
  <2>2. CASE t = "interp"
    BY <1>8, <2>2 DEF PpPick, PpGoes, PpWaitsSame
  <2> QED BY <2>1, <2>2 DEF PpThreads
<1>9. ASSUME NEW t \in PpThreads, PpPaced(t) PROVE PpWoken'
  <2> PICK from \in {"on timer", "spins"} : PpGoes(t, from, PpPaceDone(t))
    BY <1>9 DEF PpPaced
  <2>1. CASE t = "pump"
    BY <1>9, <2>1 DEF PpPaced, PpGoes, PpWaitsSame, PpPaceDone
  <2>2. CASE t = "interp"
    BY <1>9, <2>2 DEF PpPaced, PpGoes, PpWaitsSame, PpPaceDone
  <2> QED BY <2>1, <2>2 DEF PpThreads
<1>10. ASSUME NEW place \in PpPlaces, PpWaits(place) PROVE PpWoken'
  <2>1. CASE place = "ring"
    BY <1>10, <2>1 DEF PpWaits, PpGoes, PpSpins, PpInWait, PpPlaces
  <2>2. CASE place = "park"
    BY <1>10, <2>2 DEF PpWaits, PpGoes, PpSpins, PpInWait, PpPlaces
  <2> QED BY <2>1, <2>2 DEF PpPlaces
<1>11. ASSUME NEW place \in PpPlaces, PpReturns(place) PROVE PpWoken'
  <2>1. CASE place = "ring"
    BY <1>11, <2>1 DEF PpReturns, PpGoes, PpBack, PpPlaces
  <2>2. CASE place = "park"
    BY <1>11, <2>2 DEF PpReturns, PpGoes, PpBack, PpPlaces
  <2> QED BY <2>1, <2>2 DEF PpPlaces
<1>12. ASSUME NEW place \in PpPlaces, PpWaitEnds(place) PROVE PpWoken'
  <2>1. CASE place = "ring"
    BY <1>12, <2>1 DEF PpWaitEnds, PpGoes, PpInWait, PpPlaces
  <2>2. CASE place = "park"
    BY <1>12, <2>2 DEF PpWaitEnds, PpGoes, PpInWait, PpPlaces
  <2> QED BY <2>1, <2>2 DEF PpPlaces
<1>13. ASSUME NEW place \in PpPlaces, PpCeiling(place) PROVE PpWoken'
  <2>1. CASE place = "ring"
    BY <1>13, <2>1 DEF PpCeiling, PpGoes, PpWaitsSame, PpInWait, PpBack, PpPlaces
  <2>2. CASE place = "park"
    BY <1>13, <2>2 DEF PpCeiling, PpGoes, PpWaitsSame, PpInWait, PpBack, PpPlaces
  <2> QED BY <2>1, <2>2 DEF PpPlaces
<1>14. CASE PpLooks("ring", "park")
  BY <1>14 DEF PpLooks, PpGoes, PpWaitsSame, PpSpins
<1>15. CASE PpLooks("park", "paces")
  BY <1>15 DEF PpLooks, PpGoes, PpWaitsSame, PpSpins
<1>16. CASE PpWakes("wakes", "idle")
  BY <1>16 DEF PpWakes, PpKept
<1>17. CASE PpWakes("stops", "stopping")
  BY <1>17 DEF PpWakes, PpKept
<1>18. CASE PpTop
  BY <1>18 DEF PpTop, PpGoes, PpWaitsSame
<1>19. CASE PpMade
  BY <1>19 DEF PpMade, PpGoes
<1>20. CASE PpStopWaits
  BY <1>20 DEF PpStopWaits, PpGoes, PpWaitsSame
<1>21. CASE PpRelease
  BY <1>21 DEF PpRelease, PpTeardown
<1>22. CASE PpStart
  BY <1>22 DEF PpStart
<1>23. CASE PpControl
  <2>1. /\ \/ PpGoes("interp", "idle", "ensures") /\ UNCHANGED <<ppFull, ppPark>>
           \/ PpGoes("interp", "idle", "wakes")
        /\ UNCHANGED <<ppDriver, ppMutex, ppWake, ppTimer, ppStop>>
    BY <1>23 DEF PpControl
  <2>2. CASE PpGoes("interp", "idle", "ensures") /\ UNCHANGED <<ppFull, ppPark>>
    BY <2>1, <2>2 DEF PpGoes
  <2>3. CASE PpGoes("interp", "idle", "wakes")
    BY <2>1, <2>3 DEF PpGoes
  <2> QED BY <2>1, <2>2, <2>3
<1>24. CASE PpStops
  BY <1>24 DEF PpStops, PpGoes
<1> QED BY PpSteps, <1>1, <1>2, <1>3, <1>4, <1>5, <1>6, <1>7, <1>8, <1>9, <1>10, <1>11, <1>12, <1>13, <1>14, <1>15, <1>16, <1>17, <1>18, <1>19, <1>20, <1>21, <1>22, <1>23, <1>24

\* Every step keeps the timer.
LEMMA PpTimerKept ==
    ASSUME PpPumpInv, PpEarlyStop = FALSE, PpNext
    PROVE  PpTimerIsPumps'
<1> USE PpAssumption DEF PpPumpInv, PpInv, PpTypeOK, PpTimerIsPumps
<1>1. ASSUME NEW t \in PpThreads, PpEnsure(t) PROVE PpTimerIsPumps'
  <2>1. CASE t = "pump"
    BY <1>1, <2>1 DEF PpEnsure, PpGoes, PpWaitsSame, PpToBuild
  <2>2. CASE t = "interp"
    BY <1>1, <2>2 DEF PpEnsure, PpGoes, PpWaitsSame, PpToBuild
  <2> QED BY <2>1, <2>2 DEF PpThreads
<1>2. ASSUME NEW t \in PpThreads, PpBuild(t) PROVE PpTimerIsPumps'
  <2>1. CASE t = "pump"
    BY <1>2, <2>1 DEF PpBuild, PpGoes, PpWaitsSame
  <2>2. CASE t = "interp"
    BY <1>2, <2>2 DEF PpBuild, PpGoes, PpWaitsSame
  <2> QED BY <2>1, <2>2 DEF PpThreads
<1>3. ASSUME NEW t \in PpThreads, PpTake(t) PROVE PpTimerIsPumps'
  <2>1. CASE t = "pump"
    BY <1>3, <2>1 DEF PpTake, PpGoes, PpWaitsSame
  <2>2. CASE t = "interp"
    BY <1>3, <2>2 DEF PpTake, PpGoes, PpWaitsSame
  <2> QED BY <2>1, <2>2 DEF PpThreads
<1>4. ASSUME NEW t \in PpThreads, PpNest(t) PROVE PpTimerIsPumps'
  <2>1. CASE t = "pump"
    BY <1>4, <2>1 DEF PpNest, PpGoes, PpWaitsSame
  <2>2. CASE t = "interp"
    BY <1>4, <2>2 DEF PpNest, PpGoes, PpWaitsSame
  <2> QED BY <2>1, <2>2 DEF PpThreads
<1>5. ASSUME NEW t \in PpThreads, PpGive(t) PROVE PpTimerIsPumps'
  <2>1. CASE t = "pump"
    BY <1>5, <2>1 DEF PpGive, PpGoes, PpWaitsSame
  <2>2. CASE t = "interp"
    BY <1>5, <2>2 DEF PpGive, PpGoes, PpWaitsSame
  <2> QED BY <2>1, <2>2 DEF PpThreads
<1>6. ASSUME NEW t \in PpThreads, PpSleep(t) PROVE PpTimerIsPumps'
  <2>1. CASE t = "pump"
    BY <1>6, <2>1 DEF PpSleep, PpGoes, PpWaitsSame, PpPaceDone
  <2>2. CASE t = "interp"
    BY <1>6, <2>2 DEF PpSleep, PpGoes, PpWaitsSame, PpPaceDone
  <2> QED BY <2>1, <2>2 DEF PpThreads
<1>7. ASSUME NEW t \in PpThreads, PpCreate(t) PROVE PpTimerIsPumps'
  <2>1. CASE t = "pump"
    BY <1>7, <2>1 DEF PpCreate, PpGoes
  <2>2. CASE t = "interp"
    BY <1>7, <2>2 DEF PpCreate, PpGoes
  <2> QED BY <2>1, <2>2 DEF PpThreads
<1>8. ASSUME NEW t \in PpThreads, PpPick(t) PROVE PpTimerIsPumps'
  <2>1. CASE t = "pump"
    BY <1>8, <2>1 DEF PpPick, PpGoes, PpWaitsSame
  <2>2. CASE t = "interp"
    BY <1>8, <2>2 DEF PpPick, PpGoes, PpWaitsSame
  <2> QED BY <2>1, <2>2 DEF PpThreads
<1>9. ASSUME NEW t \in PpThreads, PpPaced(t) PROVE PpTimerIsPumps'
  <2> PICK from \in {"on timer", "spins"} : PpGoes(t, from, PpPaceDone(t))
    BY <1>9 DEF PpPaced
  <2>1. CASE t = "pump"
    BY <1>9, <2>1 DEF PpPaced, PpGoes, PpWaitsSame, PpPaceDone
  <2>2. CASE t = "interp"
    BY <1>9, <2>2 DEF PpPaced, PpGoes, PpWaitsSame, PpPaceDone
  <2> QED BY <2>1, <2>2 DEF PpThreads
<1>10. ASSUME NEW place \in PpPlaces, PpWaits(place) PROVE PpTimerIsPumps'
  <2>1. CASE place = "ring"
    BY <1>10, <2>1 DEF PpWaits, PpGoes, PpSpins, PpInWait, PpPlaces
  <2>2. CASE place = "park"
    BY <1>10, <2>2 DEF PpWaits, PpGoes, PpSpins, PpInWait, PpPlaces
  <2> QED BY <2>1, <2>2 DEF PpPlaces
<1>11. ASSUME NEW place \in PpPlaces, PpReturns(place) PROVE PpTimerIsPumps'
  <2>1. CASE place = "ring"
    BY <1>11, <2>1 DEF PpReturns, PpGoes, PpBack, PpPlaces
  <2>2. CASE place = "park"
    BY <1>11, <2>2 DEF PpReturns, PpGoes, PpBack, PpPlaces
  <2> QED BY <2>1, <2>2 DEF PpPlaces
<1>12. ASSUME NEW place \in PpPlaces, PpWaitEnds(place) PROVE PpTimerIsPumps'
  <2>1. CASE place = "ring"
    BY <1>12, <2>1 DEF PpWaitEnds, PpGoes, PpInWait, PpPlaces
  <2>2. CASE place = "park"
    BY <1>12, <2>2 DEF PpWaitEnds, PpGoes, PpInWait, PpPlaces
  <2> QED BY <2>1, <2>2 DEF PpPlaces
<1>13. ASSUME NEW place \in PpPlaces, PpCeiling(place) PROVE PpTimerIsPumps'
  <2>1. CASE place = "ring"
    BY <1>13, <2>1 DEF PpCeiling, PpGoes, PpWaitsSame, PpInWait, PpBack, PpPlaces
  <2>2. CASE place = "park"
    BY <1>13, <2>2 DEF PpCeiling, PpGoes, PpWaitsSame, PpInWait, PpBack, PpPlaces
  <2> QED BY <2>1, <2>2 DEF PpPlaces
<1>14. CASE PpLooks("ring", "park")
  BY <1>14 DEF PpLooks, PpGoes, PpWaitsSame, PpSpins
<1>15. CASE PpLooks("park", "paces")
  BY <1>15 DEF PpLooks, PpGoes, PpWaitsSame, PpSpins
<1>16. CASE PpWakes("wakes", "idle")
  BY <1>16 DEF PpWakes, PpKept
<1>17. CASE PpWakes("stops", "stopping")
  BY <1>17 DEF PpWakes, PpKept
<1>18. CASE PpTop
  BY <1>18 DEF PpTop, PpGoes, PpWaitsSame
<1>19. CASE PpMade
  BY <1>19 DEF PpMade, PpGoes
<1>20. CASE PpStopWaits
  <2>1. ppAt'.interp = "paces" /\ UNCHANGED <<ppTimer, ppDriver>> /\ ppAt'.pump = ppAt.pump
    BY <1>20 DEF PpStopWaits, PpGoes, PpWaitsSame
  <2>2. ppDriver = "win32" => ppTimer.owner # PpNobody
    BY <1>20 DEF PpStopWaits
  <2>3. ppTimer.owner \in {"pump", "interp", PpNobody}
    BY DEF PpThreads
  <2> QED BY <2>1, <2>2, <2>3
<1>21. CASE PpRelease
  BY <1>21 DEF PpRelease, PpTeardown
<1>22. CASE PpStart
  BY <1>22 DEF PpStart
<1>23. CASE PpControl
  <2>1. /\ \/ PpGoes("interp", "idle", "ensures") /\ UNCHANGED <<ppFull, ppPark>>
           \/ PpGoes("interp", "idle", "wakes")
        /\ UNCHANGED <<ppDriver, ppMutex, ppWake, ppTimer, ppStop>>
    BY <1>23 DEF PpControl
  <2>2. CASE PpGoes("interp", "idle", "ensures") /\ UNCHANGED <<ppFull, ppPark>>
    BY <2>1, <2>2 DEF PpGoes
  <2>3. CASE PpGoes("interp", "idle", "wakes")
    BY <2>1, <2>3 DEF PpGoes
  <2> QED BY <2>1, <2>2, <2>3
<1>24. CASE PpStops
  BY <1>24 DEF PpStops, PpGoes
<1> QED BY PpSteps, <1>1, <1>2, <1>3, <1>4, <1>5, <1>6, <1>7, <1>8, <1>9, <1>10, <1>11, <1>12, <1>13, <1>14, <1>15, <1>16, <1>17, <1>18, <1>19, <1>20, <1>21, <1>22, <1>23, <1>24

\* What a step keeps, it keeps when nothing happens.
LEMMA PpInvStays ==
    ASSUME PpInv, [PpNext]_ppVars
    PROVE  PpInv'
<1>1. CASE PpNext
  <2>1. PpTypeOK'
    BY <1>1, PpTypeKept DEF PpInv
  <2>2. PpOneBuilds'
    BY <1>1, PpBuildsKept
  <2>3. PpOneHolds'
    BY <1>1, PpHoldsKept
  <2>4. PpWoken'
    BY <1>1, PpWokenKept
  <2> QED BY <2>1, <2>2, <2>3, <2>4 DEF PpInv
<1>2. CASE UNCHANGED ppVars
  <2>1. PpTypeOK'
    BY <1>2 DEF ppVars, PpInv, PpTypeOK
  <2>2. PpOneBuilds' /\ PpOneHolds'
    BY <1>2 DEF ppVars, PpInv, PpOneBuilds, PpOneHolds
  <2>3. PpWoken'
    BY <1>2 DEF ppVars, PpInv, PpWoken, PpToldToWait
  <2> QED BY <2>1, <2>2, <2>3 DEF PpInv
<1> QED BY <1>1, <1>2

\* The invariant holds before the first start.
LEMMA PpInvStarts == PpInit => PpInv
<1> SUFFICES ASSUME PpInit PROVE PpInv
  OBVIOUS
<1> USE PpAssumption DEF PpInit
<1>1. PpTypeOK
  <2>1. ppAt \in [pump : PpPumpAt, interp : PpInterpAt]
    BY DEF PpLocked, PpPacing, PpPumpAt, PpInterpAt
  <2>2. /\ ppMutex \in [state : 0 .. 2, built : Nat, owner : PpThreads \cup {PpNobody}, depth : 0 .. 2]
        /\ ppTimer \in [made : BOOLEAN, owner : PpThreads \cup {PpNobody}]
        /\ ppCount \in [starts : Nat, calls : Nat]
    OBVIOUS
  <2>3. ppWake \in BOOLEAN /\ ppFull \in BOOLEAN /\ ppPark \in BOOLEAN /\ ppStop \in BOOLEAN
    OBVIOUS
  <2>4. ppDriver \in {"esp32", "win32", "pthread"}
    OBVIOUS
  <2> QED BY <2>1, <2>2, <2>3, <2>4 DEF PpTypeOK
<1>2. PpOneBuilds
  BY DEF PpOneBuilds, PpThreads
<1>3. PpOneHolds
  BY DEF PpOneHolds, PpThreads
<1>4. PpWoken
  BY DEF PpWoken, PpSpins, PpInWait, PpPlaces
<1> QED BY <1>1, <1>2, <1>3, <1>4 DEF PpInv

\* The lock is built once and has one thread inside, and no wake is lost, on each
\* port and whenever stop() comes. (audiopump_lock_ensure, audiopump_park_spin)
THEOREM PpLocksAndWakes == PpSpec => [](PpExclusive /\ PpNoLostWake)
<1>1. PpInit => PpInv
  BY PpInvStarts
<1>2. PpInv /\ [PpNext]_ppVars => PpInv'
  BY PpInvStays
<1>3. PpInv => PpExclusive /\ PpNoLostWake
  <2> SUFFICES ASSUME PpInv PROVE PpExclusive /\ PpNoLostWake
    OBVIOUS
  <2>1. PpExclusive
    <3>1. ppMutex.built <= 1
      <4>1. ppMutex.state \in {0, 1, 2}
        BY DEF PpInv, PpTypeOK
      <4> QED BY <4>1 DEF PpInv, PpOneBuilds
    <3>2. ~(ppAt["pump"] \in {"inside", "leaves"} /\ ppAt["interp"] \in {"inside", "leaves"})
      BY DEF PpInv, PpOneHolds, PpThreads
    <3>3. (ppMutex.depth > 0) = (ppMutex.owner # PpNobody)
      <4>1. ppMutex.depth \in 0 .. 2
        BY DEF PpInv, PpTypeOK
      <4>2. (ppMutex.depth = 0) <=> (ppMutex.owner = PpNobody)
        BY DEF PpInv, PpOneHolds
      <4>3. (ppMutex.depth > 0) <=> (ppMutex.owner # PpNobody)
        BY <4>1, <4>2
      <4> QED BY <4>3
    <3> QED BY <3>1, <3>2, <3>3 DEF PpExclusive, PpThreads
  <2>2. PpNoLostWake
    BY DEF PpInv, PpWoken, PpNoLostWake
  <2> QED BY <2>1, <2>2
<1> QED BY <1>1, <1>2, <1>3, PTL DEF PpSpec

\* With the first pace the pump's own, all of it: the timer too has one waiter.
\* (audiopump_sleep_us)
THEOREM PpKeepsTwoThreads ==
    ASSUME PpEarlyStop = FALSE
    PROVE  PpSpec => []PpSafe
<1>1. PpInit => PpPumpInv
  <2> SUFFICES ASSUME PpInit PROVE PpPumpInv
    OBVIOUS
  <2>1. PpTimerIsPumps
    BY PpAssumption DEF PpInit, PpTimerIsPumps
  <2> QED BY <2>1, PpInvStarts DEF PpPumpInv
<1>2. PpPumpInv /\ [PpNext]_ppVars => PpPumpInv'
  <2> SUFFICES ASSUME PpPumpInv, [PpNext]_ppVars PROVE PpPumpInv'
    OBVIOUS
  <2>1. PpInv'
    BY PpInvStays DEF PpPumpInv
  <2>2. PpTimerIsPumps'
    <3>1. CASE PpNext
      BY <3>1, PpTimerKept
    <3>2. CASE UNCHANGED ppVars
      BY <3>2 DEF ppVars, PpPumpInv, PpTimerIsPumps
    <3> QED BY <3>1, <3>2
  <2> QED BY <2>1, <2>2 DEF PpPumpInv
<1>3. PpPumpInv => PpOneWaits
  BY DEF PpPumpInv, PpTimerIsPumps, PpOneWaits
<1>4. PpSpec => [](PpExclusive /\ PpNoLostWake)
  BY PpLocksAndWakes
<1>5. (PpExclusive /\ PpNoLostWake) /\ PpOneWaits => PpSafe
  BY DEF PpSafe
<1> QED BY <1>1, <1>2, <1>3, <1>4, <1>5, PTL DEF PpSpec

-----------------------------------------------------------------------------
(***************************************************************************)
(* Castif's sound keeps its order and its place. Inductive is where a      *)
(* block is: every slot from the tail to the head holds the block and the  *)
(* stamp it was published with, and the slot the feeder fills is none of   *)
(* them. That the head may run round the ring while the tail is read is a  *)
(* matter of the rest of two counts less than a lap apart (ModDistance).   *)
(***************************************************************************)

\* What each variable holds.
CaTypeOK ==
    /\ caRing \in [0 .. CaBlocks - 1 -> [num : Nat, stamp : Nat]]
    /\ caHead \in Nat /\ caTail \in Nat /\ caFed \in Nat
    /\ caFeed \in {"idle", "copied", "stamped"}
    /\ caTrack \in Nat /\ caNext \in Nat /\ caSince \in Nat /\ caNow \in Nat
    /\ caRef \in [set : BOOLEAN, at : Int]
    /\ caOut \in [num : Nat, pts : Nat, stamp : Nat, ref : Int]

\* Block i waits in its slot, with a stamp of this session.
CaWaits(i) ==
    /\ caRing[CaSlot(i)].num = i + 1
    /\ caRing[CaSlot(i)].stamp >= CaOrigin

\* The ring holds what lies between its indices, and the block that is being fed.
CaHolds ==
    /\ caTail <= caHead /\ caHead - caTail <= CaBlocks /\ caHead = caFed /\ caNow >= CaOrigin
    /\ \A i \in caTail .. caHead - 1 : CaWaits(i)
    /\ caFeed # "idle" => caHead - caTail < CaBlocks /\ caRing[CaSlot(caHead)].num = caHead + 1
    /\ caFeed = "stamped" => caRing[CaSlot(caHead)].stamp >= CaOrigin

\* The track is ahead of what went out; it has a reference once it has begun.
CaTracks ==
    /\ caOut.num = caTail
    /\ caTrack = 0 => caOut = CaNothing /\ ~caRef.set
    /\ caTrack > 0 => caOut.num > 0 /\ caOut.pts > 0 /\ caOut.pts < caTrack
    /\ ~caRef.set => caRef.at = 0

\* The inductive invariant.
CaInv == CaTypeOK /\ CaHolds /\ CaTracks /\ CaBeside
-----------------------------------------------------------------------------
\* Two counts less than a lap apart have slots of their own.
LEMMA CaApart ==
    ASSUME NEW i \in Nat, NEW j \in Nat, i < j, j - i < CaBlocks
    PROVE  CaSlot(i) # CaSlot(j)
<1>1. CaBlocks \in Nat \ {0}
  BY CaAssumption
<1>2. ((j % CaBlocks) + CaBlocks - (i % CaBlocks)) % CaBlocks = j - i
  <2>1. i <= j
    OBVIOUS
  <2> QED BY <1>1, <2>1, ModDistance
<1> SUFFICES ASSUME i % CaBlocks = j % CaBlocks PROVE FALSE
  BY DEF CaSlot
<1>3. j % CaBlocks \in 0 .. CaBlocks - 1
  BY <1>1, DivMod
<1> DEFINE r == j % CaBlocks
<1>4. (r + CaBlocks - r) % CaBlocks = j - i
  BY <1>2
<1> HIDE DEF r
<1>5. r + CaBlocks - r = CaBlocks
  BY <1>1, <1>3 DEF r
<1>6. CaBlocks % CaBlocks = 0
  <2>1. 0 \in 0 .. CaBlocks - 1 /\ 0 + CaBlocks = CaBlocks
    BY <1>1
  <2> QED BY <1>1, <2>1, ModSmall
<1> QED BY <1>4, <1>5, <1>6

\* A count has a slot of the ring.
LEMMA CaSlotIs == ASSUME NEW i \in Nat PROVE CaSlot(i) \in 0 .. CaBlocks - 1
<1>1. CaBlocks \in Nat \ {0}
  BY CaAssumption
<1> QED BY <1>1, DivMod DEF CaSlot

\* It holds at first.
LEMMA CaStarted == CaInit => CaInv
<1> SUFFICES ASSUME CaInit PROVE CaInv
  OBVIOUS
<1>1. CaTypeOK
  BY CaAssumption DEF CaInit, CaTypeOK, CaNothing
<1>2. CaHolds
  BY CaAssumption DEF CaInit, CaHolds
<1> QED BY <1>1, <1>2 DEF CaInit, CaInv, CaTracks, CaBeside, CaNothing

-----------------------------------------------------------------------------
\* What the pacer makes of the oldest block: its stamp, and a timestamp that is
\* past the track's, or its own stamp.
CaDated(own, pts, ref) ==
    /\ own \in Nat /\ pts \in Nat /\ pts > 0
    /\ ref \in [set : BOOLEAN, at : Int] /\ (~ref.set => ref.at = 0)
    /\ own - pts - ref.at <= CaRejoin
    /\ caTrack > 0 => pts >= caTrack \/ CaLed
    /\ ref.set => caTrack > 0 /\ pts = caTrack /\ ref = caRef

\* What it then does with it: hold it, send it, or pad or drop.
CaDoes(own, pts, ref) ==
    \/ UNCHANGED <<caTail, caTrack, caSince, caRef, caOut>>
    \/ /\ caTail' = caTail + 1 /\ caTrack' = pts + 1 /\ caSince' \in Nat
       /\ caRef' \in {ref} \cup {[set |-> TRUE, at |-> d] : d \in {0, own - pts}}
       /\ caOut' = [num |-> caTail + 1, pts |-> pts, stamp |-> own, ref |-> ref.at]
    \/ /\ ref.set /\ caSince' \in Nat /\ caRef' = ref
       /\ \/ /\ caTrack' = pts + 1 /\ caOut' = [caOut EXCEPT !.pts = pts] /\ UNCHANGED caTail
          \/ /\ caTail' = caTail + 1 /\ caOut' = [caOut EXCEPT !.num = @ + 1] /\ caTrack' = pts

\* A track that begins anew has no reference.
LEMMA CaNoRef ==
    LET none == [set |-> FALSE, at |-> 0]
    IN  none.set = FALSE /\ none.at = 0 /\ none \in [set : BOOLEAN, at : Int]
OBVIOUS

\* A block is due at some time.
LEMMA CaDue == CaTypeOK => CaDueAt \in Nat
BY CaAssumption DEF CaTypeOK, CaDueAt

\* The pacer dates the oldest block, and does one of these with it.
LEMMA CaPaces ==
    ASSUME CaInv, CaPace
    PROVE  /\ \E own, pts, ref : CaDated(own, pts, ref) /\ CaDoes(own, pts, ref)
           /\ caNext' \in Nat /\ UNCHANGED <<caRing, caHead, caFeed, caNow, caFed>>
<1>0. caHead # caTail
  BY DEF CaPace
<1>2. /\ caTail \in Nat /\ caHead \in Nat /\ caTail < caHead /\ caHead - caTail <= CaBlocks
      /\ caHead - 1 \in Nat /\ caTrack \in Nat /\ caSince \in Nat
      /\ CaBlocks \in Nat /\ CaOrigin \in Nat /\ CaBlocks <= CaOrigin /\ CaRejoin \in Nat
  BY <1>0, CaAssumption DEF CaInv, CaTypeOK, CaHolds
<1> DEFINE own == caRing[CaSlot(caTail)].stamp
           newest == caRing[CaSlot(caHead - 1)].stamp
           at == IF caTrack = 0 THEN CaAnchor(newest, caHead - caTail) ELSE caTrack
           pts == CaJump(own, at)
           fresh == caTrack = 0 \/ CaLate(own, at)
           since == IF fresh THEN 0 ELSE caSince
           ref == IF fresh THEN [set |-> FALSE, at |-> 0] ELSE caRef
<1>1. /\ caHead # caTail /\ UNCHANGED <<caRing, caHead, caFeed, caNow, caFed>>
      /\ \/ /\ caNext' = CaDueAt
            /\ UNCHANGED <<caTail, caTrack, caSince, caRef, caOut>>
         \/ /\ caTail' = caTail + 1 /\ caTrack' = pts + 1 /\ caNext' = CaDueAt + 1
            /\ caSince' = IF since < CaSettle THEN since + 1 ELSE since
            /\ caRef' \in IF ref.set \/ since < CaSettle THEN {ref}
                          ELSE {[set |-> TRUE, at |-> d] : d \in {0, own - pts}}
            /\ caOut' = [num |-> caRing[CaSlot(caTail)].num, pts |-> pts, stamp |-> own,
                         ref |-> ref.at]
         \/ /\ ref.set
            /\ \/ /\ caTrack' = pts + 1 /\ caOut' = [caOut EXCEPT !.pts = pts]
                  /\ caNext' = CaDueAt + 1 /\ UNCHANGED caTail
               \/ /\ caTail' = caTail + 1 /\ caOut' = [caOut EXCEPT !.num = @ + 1]
                  /\ caTrack' = pts /\ caNext' = CaDueAt
            /\ caSince' = since /\ caRef' = ref
  BY DEF CaPace
<1>9. caRef \in [set : BOOLEAN, at : Int] /\ caRef.at \in Int
  BY DEF CaInv, CaTypeOK
<1>3. CaWaits(caTail) /\ CaWaits(caHead - 1)
  BY <1>2 DEF CaInv, CaHolds
<1>4. own \in Nat /\ newest \in Nat /\ own >= CaOrigin /\ newest >= CaOrigin
      /\ caRing[CaSlot(caTail)].num = caTail + 1
  BY <1>2, <1>3, CaSlotIs DEF CaInv, CaTypeOK, CaWaits
<1> HIDE DEF own, newest
<1>5. at \in Nat /\ at > 0 /\ (caTrack > 0 => at = caTrack)
  BY <1>2, <1>4 DEF CaAnchor
<1> HIDE DEF at
<1>6. (caTrack = 0 => ~caRef.set) /\ (~caRef.set => caRef.at = 0)
  BY DEF CaInv, CaTracks
<1>7. CASE CaLate(own, at)
  <2>1. pts = own /\ ref = [set |-> FALSE, at |-> 0] /\ since = 0
    BY <1>7 DEF CaJump
  <2>2. own - at - caRef.at > CaRejoin
    BY <1>2, <1>6, <1>7, <1>9 DEF CaLate
  <2>3. own > at \/ CaLed
    BY <1>2, <1>4, <1>5, <1>6, <1>9, <2>2 DEF CaLed
  <2>4. ref.set = FALSE /\ ref.at = 0 /\ ref \in [set : BOOLEAN, at : Int]
    BY ONLY <2>1, CaNoRef
  <2> HIDE DEF pts, ref, since
  <2>5. CaDated(own, pts, ref)
    BY <1>2, <1>4, <1>5, <2>1, <2>3, <2>4 DEF CaDated
  <2>6. CaDoes(own, pts, ref)
    BY <1>1, <1>2, <1>4, <2>1, <2>4 DEF CaDoes
  <2> QED BY <1>1, <2>5, <2>6, CaDue DEF CaInv
<1>8. CASE ~CaLate(own, at)
  <2>1. pts = at /\ since \in Nat
    BY <1>2, <1>8 DEF CaJump
  <2>2. own - at - caRef.at <= CaRejoin
    BY <1>2, <1>4, <1>5, <1>6, <1>8, <1>9 DEF CaLate
  <2>3. /\ ref \in [set : BOOLEAN, at : Int] /\ ref.at = caRef.at
        /\ (ref.set => caTrack > 0 /\ ref = caRef) /\ (~ref.set => ref.at = 0)
    <3>1. CASE caTrack = 0
      <4>1. ref = [set |-> FALSE, at |-> 0]
        BY <3>1
      <4>2. ref.set = FALSE /\ ref.at = 0 /\ ref \in [set : BOOLEAN, at : Int]
        BY ONLY <4>1, CaNoRef
      <4> HIDE DEF ref
      <4> QED BY <1>6, <3>1, <4>2
    <3>2. CASE caTrack > 0
      <4>1. ref = caRef
        BY <1>8, <3>2
      <4> HIDE DEF ref
      <4> QED BY <1>6, <1>9, <3>2, <4>1
    <3>3. caTrack = 0 \/ caTrack > 0
      BY <1>2
    <3> HIDE DEF ref
    <3> QED BY <3>1, <3>2, <3>3
  <2> HIDE DEF pts, ref, since
  <2>5. CaDated(own, pts, ref)
    BY <1>2, <1>4, <1>5, <2>1, <2>2, <2>3 DEF CaDated
  <2>6. CaDoes(own, pts, ref)
    BY <1>1, <1>2, <1>4, <2>1, <2>3 DEF CaDoes
  <2> QED BY <1>1, <2>5, <2>6, CaDue DEF CaInv
<1> QED BY <1>7, <1>8

\* So the track goes on, and what goes out is the next block.
LEMMA CaPaceKeeps ==
    ASSUME CaInv, CaPace
    PROVE  /\ CaInv'
           /\ caOut'.num # caOut.num => caOut'.num = caOut.num + 1
           /\ caOut'.pts # caOut.pts => caOut'.pts > caOut.pts \/ CaLed
<1>1. PICK own, pts, ref : CaDated(own, pts, ref) /\ CaDoes(own, pts, ref)
  BY CaPaces
<1>2. caNext' \in Nat /\ UNCHANGED <<caRing, caHead, caFeed, caNow, caFed>> /\ caHead # caTail
  BY CaPaces DEF CaPace
<1>3. /\ caTail \in Nat /\ caHead \in Nat /\ caTail < caHead /\ caTrack \in Nat
      /\ caOut \in [num : Nat, pts : Nat, stamp : Nat, ref : Int]
      /\ caOut.num = caTail /\ (caTrack = 0 => caOut.pts = 0 /\ caOut.num = 0)
      /\ (caTrack > 0 => caOut.num > 0 /\ caOut.pts > 0 /\ caOut.pts < caTrack)
      /\ (caOut.num > 0 => caOut.stamp - caOut.pts - caOut.ref <= CaRejoin)
      /\ CaRejoin \in Nat
  BY <1>2, CaAssumption DEF CaInv, CaTypeOK, CaHolds, CaTracks, CaBeside, CaNothing
<1>4. CASE UNCHANGED <<caTail, caTrack, caSince, caRef, caOut>>
  <2>1. CaTypeOK' /\ CaHolds'
    BY <1>2, <1>4 DEF CaInv, CaTypeOK, CaHolds, CaWaits
  <2> QED BY <1>4, <2>1 DEF CaInv, CaTracks, CaBeside
<1>5. ASSUME caTail' \in {caTail, caTail + 1}, caTrack' \in Nat, caSince' \in Nat,
             caRef' \in [set : BOOLEAN, at : Int],
             caOut' \in [num : Nat, pts : Nat, stamp : Nat, ref : Int]
      PROVE  CaTypeOK' /\ CaHolds'
  <2>1. CaTypeOK'
    BY <1>2, <1>3, <1>5 DEF CaInv, CaTypeOK
  <2>2. \A i \in caTail' .. caHead' - 1 : CaWaits(i)'
    BY <1>2, <1>3, <1>5 DEF CaInv, CaHolds, CaWaits
  <2>3. CaBlocks \in Nat
    BY CaAssumption
  <2>8. caTail \in Nat /\ caHead \in Nat /\ caTail < caHead
        /\ (caTail' = caTail \/ caTail' = caTail + 1)
    BY <1>3, <1>5
  <2>7. caHead - caTail <= CaBlocks /\ caHead' = caHead
    BY <1>2 DEF CaInv, CaHolds
  <2>4. caTail' <= caHead' /\ caHead' - caTail' <= CaBlocks /\ caHead' - caTail' <= caHead - caTail
    BY ONLY <2>7, <2>3, <2>8
  <2>5. caHead - caTail < CaBlocks => caHead' - caTail' < CaBlocks
    BY ONLY <2>7, <2>3, <2>8
  <2>6. CaHolds'
    BY <1>2, <2>2, <2>4, <2>5 DEF CaInv, CaHolds
  <2> QED BY <2>1, <2>6
<1>6. ASSUME caTail' = caTail + 1, caTrack' = pts + 1, caSince' \in Nat,
             caRef' \in {ref} \cup {[set |-> TRUE, at |-> d] : d \in {0, own - pts}},
             caOut' = [num |-> caTail + 1, pts |-> pts, stamp |-> own, ref |-> ref.at]
      PROVE  /\ CaInv' /\ caOut'.num = caOut.num + 1
             /\ caOut'.pts # caOut.pts => caOut'.pts > caOut.pts \/ CaLed
  <2>1. caRef' \in [set : BOOLEAN, at : Int] /\ (~caRef'.set => caRef'.at = 0)
    <3>1. CASE caRef' = ref
      BY <1>1, <3>1 DEF CaDated
    <3>2. ASSUME NEW d \in {0, own - pts}, caRef' = [set |-> TRUE, at |-> d] PROVE caRef' \in [set : BOOLEAN, at : Int] /\ caRef'.set
      <4>1. d \in Int
        BY <1>1 DEF CaDated
      <4> QED BY <3>2, <4>1
    <3> QED BY <1>6, <3>1, <3>2
  <2>2. caOut' \in [num : Nat, pts : Nat, stamp : Nat, ref : Int]
    BY <1>1, <1>3, <1>6 DEF CaDated
  <2>3. CaTypeOK' /\ CaHolds'
    BY <1>1, <1>3, <1>5, <1>6, <2>1, <2>2 DEF CaDated
  <2>4. /\ caOut'.num = caTail + 1 /\ caOut'.pts = pts /\ caOut'.stamp = own /\ caOut'.ref = ref.at
    BY <1>6
  <2>5. CaTracks'
    BY <1>1, <1>3, <1>6, <2>1, <2>4 DEF CaTracks, CaDated
  <2>6. CaBeside'
    BY <1>1, <2>4 DEF CaBeside, CaDated
  <2>7. caOut'.pts # caOut.pts => caOut'.pts > caOut.pts \/ CaLed
    BY <1>1, <1>3, <2>4 DEF CaDated
  <2> QED BY <1>3, <2>3, <2>4, <2>5, <2>6, <2>7 DEF CaInv
<1>7. ASSUME ref.set, caSince' \in Nat, caRef' = ref, caTrack' = pts + 1,
             caOut' = [caOut EXCEPT !.pts = pts], caTail' = caTail
      PROVE  CaInv' /\ caOut'.num = caOut.num /\ caOut'.pts > caOut.pts
  <2>1. caRef' \in [set : BOOLEAN, at : Int] /\ caRef'.set /\ caTrack > 0 /\ pts = caTrack
    BY <1>1, <1>7 DEF CaDated
  <2>2. caOut' \in [num : Nat, pts : Nat, stamp : Nat, ref : Int]
    BY <1>1, <1>3, <1>7 DEF CaDated
  <2>3. CaTypeOK' /\ CaHolds'
    BY <1>3, <1>5, <1>7, <2>1, <2>2
  <2>4. caOut'.num = caOut.num /\ caOut'.pts = pts /\ caOut'.stamp = caOut.stamp /\ caOut'.ref = caOut.ref
    BY <1>3, <1>7
  <2>5. CaTracks' /\ CaBeside'
    BY <1>3, <1>7, <2>1, <2>4 DEF CaTracks, CaBeside
  <2> QED BY <1>3, <2>1, <2>3, <2>4, <2>5 DEF CaInv
<1>8. ASSUME ref.set, caSince' \in Nat, caRef' = ref, caTail' = caTail + 1,
             caOut' = [caOut EXCEPT !.num = @ + 1], caTrack' = pts
      PROVE  CaInv' /\ caOut'.num = caOut.num + 1 /\ caOut'.pts = caOut.pts
  <2>1. caRef' \in [set : BOOLEAN, at : Int] /\ caRef'.set /\ caTrack > 0 /\ pts = caTrack
    BY <1>1, <1>8 DEF CaDated
  <2>2. caOut' \in [num : Nat, pts : Nat, stamp : Nat, ref : Int]
    BY <1>3, <1>8
  <2>3. CaTypeOK' /\ CaHolds'
    BY <1>3, <1>5, <1>8, <2>1, <2>2
  <2>4. caOut'.num = caOut.num + 1 /\ caOut'.pts = caOut.pts /\ caOut'.stamp = caOut.stamp
        /\ caOut'.ref = caOut.ref
    BY <1>3, <1>8
  <2>5. CaTracks' /\ CaBeside'
    BY <1>3, <1>8, <2>1, <2>4 DEF CaTracks, CaBeside
  <2> QED BY <2>3, <2>4, <2>5 DEF CaInv
<1> QED BY <1>1, <1>4, <1>6, <1>7, <1>8 DEF CaDoes

-----------------------------------------------------------------------------
\* What the feeder writes is in none of the slots that wait.
LEMMA CaFeeds ==
    ASSUME CaInv, CaCopies \/ CaStamps \/ CaPublishes
    PROVE  CaTypeOK' /\ CaHolds'
<1>1. /\ caTail \in Nat /\ caHead \in Nat /\ caTail <= caHead /\ caHead - caTail <= CaBlocks
      /\ caFed = caHead /\ CaSlot(caHead) \in 0 .. CaBlocks - 1 /\ caNow \in Nat /\ caNow >= CaOrigin
      /\ CaBlocks \in Nat \ {0}
      /\ caRing \in [0 .. CaBlocks - 1 -> [num : Nat, stamp : Nat]]
  BY CaSlotIs, CaAssumption DEF CaInv, CaTypeOK, CaHolds
<1>2. ASSUME caHead - caTail < CaBlocks, NEW i \in caTail .. caHead - 1
      PROVE  CaSlot(i) \in 0 .. CaBlocks - 1 /\ CaSlot(i) # CaSlot(caHead)
  <2>1. i \in Nat /\ i < caHead /\ caHead - i < CaBlocks
    BY <1>1, <1>2
  <2> QED BY <1>1, <2>1, CaApart, CaSlotIs
<1>3. CASE CaCopies
  <2>1. caHead - caTail < CaBlocks
    BY <1>1, <1>3 DEF CaCopies, CaFull
  <2> DEFINE slot == [caRing[CaSlot(caHead)] EXCEPT !.num = caFed + 1]
  <2>6. slot \in [num : Nat, stamp : Nat]
    BY <1>1
  <2>7. caRing' = [caRing EXCEPT ![CaSlot(caHead)] = slot]
    BY <1>3 DEF CaCopies
  <2> HIDE DEF slot
  <2>8. caRing' \in [0 .. CaBlocks - 1 -> [num : Nat, stamp : Nat]]
    BY <1>1, <2>6, <2>7
  <2>2. CaTypeOK'
    BY <1>3, <2>8 DEF CaCopies, CaInv, CaTypeOK
  <2>3. \A i \in caTail .. caHead - 1 : caRing'[CaSlot(i)] = caRing[CaSlot(i)]
    BY <1>1, <1>2, <2>1, <2>7
  <2>4. caRing'[CaSlot(caHead)].num = caHead + 1
    BY <1>1, <2>7 DEF slot
  <2>5. UNCHANGED <<caHead, caTail, caFed, caNow>> /\ caFeed' = "copied"
    BY <1>3 DEF CaCopies
  <2> QED BY <1>1, <2>1, <2>2, <2>3, <2>4, <2>5 DEF CaInv, CaHolds, CaWaits
<1>4. CASE CaStamps
  <2>1. caHead - caTail < CaBlocks /\ caRing[CaSlot(caHead)].num = caHead + 1
    BY <1>4 DEF CaStamps, CaInv, CaHolds
  <2>2. CaTypeOK'
    BY <1>1, <1>4 DEF CaStamps, CaInv, CaTypeOK
  <2>3. \A i \in caTail .. caHead - 1 : caRing'[CaSlot(i)] = caRing[CaSlot(i)]
    BY <1>1, <1>2, <1>4, <2>1 DEF CaStamps
  <2>4. caRing'[CaSlot(caHead)].num = caHead + 1 /\ caRing'[CaSlot(caHead)].stamp = caNow
    BY <1>1, <1>4, <2>1 DEF CaStamps
  <2>5. UNCHANGED <<caHead, caTail, caFed, caNow>> /\ caFeed' = "stamped"
    BY <1>4 DEF CaStamps
  <2> QED BY <1>1, <2>1, <2>2, <2>3, <2>4, <2>5 DEF CaInv, CaHolds, CaWaits
<1>5. CASE CaPublishes
  <2>1. CaWaits(caHead) /\ caHead - caTail < CaBlocks
    BY <1>5 DEF CaPublishes, CaInv, CaHolds, CaWaits
  <2>2. CaTypeOK'
    BY <1>1, <1>5 DEF CaPublishes, CaInv, CaTypeOK
  <2>3. \A i \in caTail .. caHead : CaWaits(i)
    BY <1>1, <2>1 DEF CaInv, CaHolds
  <2>4. caHead' = caHead + 1 /\ caFed' = caFed + 1 /\ UNCHANGED <<caTail, caRing, caNow>> /\ caFeed' = "idle"
    BY <1>5 DEF CaPublishes
  <2>5. \A i \in caTail' .. caHead' - 1 : CaWaits(i)'
    BY <1>1, <2>3, <2>4 DEF CaWaits
  <2> QED BY <1>1, <2>1, <2>2, <2>4, <2>5 DEF CaHolds
<1> QED BY <1>3, <1>4, <1>5

\* A step keeps the invariant, sends the next block or none, and dates it later.
LEMMA CaSteps ==
    ASSUME CaInv, [CaNextStep]_caVars
    PROVE  /\ CaInv'
           /\ caOut'.num # caOut.num => caOut'.num = caOut.num + 1
           /\ caOut'.pts # caOut.pts => caOut'.pts > caOut.pts \/ CaLed
<1>1. CASE CaPace
  BY <1>1, CaPaceKeeps
<1>2. CASE CaCopies \/ CaStamps \/ CaPublishes
  <2>1. UNCHANGED <<caTail, caTrack, caRef, caOut>>
    BY <1>2 DEF CaCopies, CaStamps, CaPublishes
  <2>2. CaTracks' /\ CaBeside'
    BY <2>1 DEF CaInv, CaTracks, CaBeside
  <2> QED BY <1>2, <2>1, <2>2, CaFeeds DEF CaInv
<1>3. CASE CaClock
  <2>1. CaTypeOK'
    BY <1>3 DEF CaClock, CaInv, CaTypeOK
  <2>2. CaHolds'
    BY <1>3, CaAssumption DEF CaClock, CaInv, CaTypeOK, CaHolds, CaWaits
  <2> QED BY <1>3, <2>1, <2>2 DEF CaClock, CaInv, CaTracks, CaBeside
<1>4. CASE UNCHANGED caVars
  <2>1. CaTypeOK' /\ CaHolds'
    BY <1>4 DEF caVars, CaInv, CaTypeOK, CaHolds, CaWaits
  <2> QED BY <1>4, <2>1 DEF caVars, CaInv, CaTracks, CaBeside
<1> QED BY <1>1, <1>2, <1>3, <1>4 DEF CaNextStep

-----------------------------------------------------------------------------
\* No block is dated more than REJOIN before the time it was fed, for a ring of
\* any length and any pacing, whatever gaps came. (drain_one)
THEOREM CaStaysBeside == CaSpec => []CaBeside
<1>1. CaInv /\ [CaNextStep]_caVars => CaInv'
  BY CaSteps
<1>2. CaInv => CaBeside
  BY DEF CaInv
<1> QED BY CaStarted, <1>1, <1>2, PTL DEF CaSpec

\* Blocks go out one after the other, and the track goes forward but for a
\* rejoin of one the feeder led. (feed_audio, drain_one)
THEOREM CaGoesOn == CaSpec => CaInOrder
<1>1. CaInv /\ [CaNextStep]_caVars
        => /\ CaInv'
           /\ [/\ caOut'.num # caOut.num => caOut'.num = caOut.num + 1
               /\ caOut'.pts # caOut.pts => caOut'.pts > caOut.pts \/ CaLed]_caVars
  BY CaSteps
<1> QED BY CaStarted, <1>1, PTL DEF CaSpec, CaInOrder

-----------------------------------------------------------------------------
(***************************************************************************)
(* The ESP32's I2S channel, shared by an output and a recorder, for any    *)
(* rates and slot widths. Inductive is what a channel may be between two   *)
(* calls (IcOk), and that the output knows its rate; each of the           *)
(* operations on the channel keeps that, and the half it is not asked      *)
(* about.                                                                  *)
(***************************************************************************)

\* What a channel may be between two calls: what is held is open and what nobody
\* holds is closed; there is a ring while a recorder holds it, a channel of its own
\* is a recorder's, and otherwise the two halves are one wire, of two slots.
IcChannel ==
    [tx : IcWire \cup {IcNull}, rx : IcWire \cup {IcNull}, holds : SUBSET {"in", "out"},
     alone : BOOLEAN, live : IcWire \cup {IcNull}, rxLive : IcWire \cup {IcNull}, cap : BOOLEAN]

IcOk(c) ==
    /\ c \in IcChannel
    /\ "out" \in c.holds => c.tx # IcNull
    /\ "in" \in c.holds => c.rx # IcNull
    /\ "in" \in c.holds <=> c.cap
    /\ c.holds = {} => c.tx = IcNull /\ c.rx = IcNull
    /\ c.alone => "in" \in c.holds
    /\ ~c.alone /\ c.rx # IcNull => c.rx = c.tx
    /\ c.rx # IcNull => c.rx.ch = 2
    /\ c.tx # IcNull => c.live = c.tx

\* The inductive invariant: what the output believes of the clock is so while it
\* holds its half, and an output with a microphone on its wire has two slots.
IcInv ==
    /\ IcOk(icCh)
    /\ icOut \in IcOutput \cup {IcNull}
    /\ icDo # "idle" => icOut # IcNull
    /\ "out" \in icCh.holds => icOut # IcNull /\ icOut.rate = icCh.tx.rate
    /\ icOut # IcNull /\ icOut.wire.din => icOut.wire.ch = 2

\* Neither half takes the other's.
IcLeavesIn(c, d) == "in" \in c.holds => "in" \in d.holds /\ d.rx = c.rx /\ d.cap
IcLeavesOut(c, d) == "out" \in c.holds => "out" \in d.holds /\ d.tx = c.tx

\* Closing leaves nothing.
LEMMA IcCloses ==
    ASSUME NEW c, IcOk(c)
    PROVE  IcOk(IcClose(c)) /\ IcClose(c).holds = {}
<1>1. IcClose(c) = [c EXCEPT !.cap = FALSE, !.holds = {}, !.rx = IcNull, !.tx = IcNull, !.alone = FALSE]
  BY DEF IcClose
<1> QED BY <1>1 DEF IcOk, IcChannel

\* A close of the output's half leaves a recorder with a channel of its own.
LEMMA IcClosesTx ==
    ASSUME NEW c, IcOk(c), c.alone, "out" \notin c.holds
    PROVE  IcOk(IcCloseTx(c)) /\ IcCloseTx(c).holds = c.holds /\ IcLeavesIn(c, IcCloseTx(c))
<1>1. IcCloseTx(c) = [c EXCEPT !.tx = IcNull]
  BY DEF IcCloseTx
<1> QED BY <1>1 DEF IcOk, IcChannel, IcLeavesIn

\* shutdown: the output's hold goes, and what nobody holds.
LEMMA IcShutsDown ==
    ASSUME NEW c, IcOk(c)
    PROVE  /\ IcOk(IcShutdown(c)) /\ "out" \notin IcShutdown(c).holds
           /\ IcLeavesIn(c, IcShutdown(c))
<1>. DEFINE left == [c EXCEPT !.holds = @ \ {"out"}]
<1>1. /\ left \in IcChannel /\ left.holds = c.holds \ {"out"}
      /\ left.tx = c.tx /\ left.rx = c.rx /\ left.live = c.live
      /\ left.alone = c.alone /\ left.cap = c.cap
  BY DEF IcOk, IcChannel
<1>2. IcShutdown(c) = IF left.holds = {} THEN IcClose(left)
                      ELSE IF left.alone THEN IcCloseTx(left) ELSE left
  BY DEF IcShutdown
<1>. HIDE DEF left
<1>3. CASE left.holds = {}
  <2>1. /\ IcClose(left) = [left EXCEPT !.cap = FALSE, !.holds = {}, !.rx = IcNull, !.tx = IcNull,
                                        !.alone = FALSE]
        /\ "in" \notin c.holds
    BY <1>1, <1>3 DEF IcClose
  <2> QED BY <1>1, <1>2, <1>3, <2>1 DEF IcOk, IcChannel, IcLeavesIn
<1>4. CASE left.holds # {}
  <2>1. IcOk(left) /\ "out" \notin left.holds
    BY <1>1, <1>4 DEF IcOk
  <2>2. IcLeavesIn(c, left)
    BY <1>1 DEF IcLeavesIn, IcOk
  <2>3. CASE left.alone
    BY <1>2, <1>4, <2>1, <2>2, <2>3, IcClosesTx DEF IcLeavesIn
  <2>4. CASE ~left.alone
    BY <1>2, <1>4, <2>1, <2>2, <2>4
  <2> QED BY <2>3, <2>4
<1> QED BY <1>3, <1>4

\* open: the output joins what is open, opens a pair, or is refused or fails; a
\* recorder keeps what it has whatever comes of it.
LEMMA IcOpensKeep ==
    ASSUME NEW c, IcOk(c), NEW cfg \in IcWire, cfg.din => cfg.ch = 2,
           NEW res \in IcOpens(c, cfg)
    PROVE  /\ IcOk(res.ch) /\ IcLeavesIn(c, res.ch) /\ res.ok \in BOOLEAN
           /\ res.ok => "out" \in res.ch.holds /\ res.ch.tx.rate = cfg.rate
           /\ ~res.ok => ("out" \in res.ch.holds => "out" \in c.holds /\ res.ch.tx = c.tx)
<1>1. CASE c.tx # IcNull
  <2>1. \/ res = [ch |-> c, ok |-> FALSE]
        \/ /\ IcJoins(c, cfg, FALSE)
           /\ res = [ch |-> [c EXCEPT !.holds = @ \cup {"out"}], ok |-> TRUE]
    BY <1>1 DEF IcOpens
  <2>2. CASE res = [ch |-> c, ok |-> FALSE]
    BY <2>2 DEF IcLeavesIn, IcOk
  <2>3. CASE /\ IcJoins(c, cfg, FALSE)
             /\ res = [ch |-> [c EXCEPT !.holds = @ \cup {"out"}], ok |-> TRUE]
    <3>1. cfg.rate = c.tx.rate
      BY <1>1, <2>3 DEF IcJoins, IcOk
    <3>2. /\ res.ch = [c EXCEPT !.holds = @ \cup {"out"}] /\ res.ok = TRUE
      BY <2>3
    <3>3. /\ res.ch \in IcChannel /\ res.ch.holds = c.holds \cup {"out"}
          /\ res.ch.tx = c.tx /\ res.ch.rx = c.rx /\ res.ch.live = c.live
          /\ res.ch.alone = c.alone /\ res.ch.cap = c.cap
      BY <3>2 DEF IcOk, IcChannel
    <3>4. IcOk(res.ch)
      BY <1>1, <3>3 DEF IcOk
    <3> QED BY <3>1, <3>2, <3>3, <3>4 DEF IcOk, IcLeavesIn
  <2> QED BY <2>1, <2>2, <2>3
<1>2. CASE c.tx = IcNull /\ c.alone /\ (cfg.pins = c.rxLive.pins \/ cfg.din)
  <2>1. res = [ch |-> c, ok |-> FALSE]
    BY <1>2 DEF IcOpens
  <2> QED BY <2>1 DEF IcLeavesIn, IcOk
<1>3. CASE c.tx = IcNull /\ ~(c.alone /\ (cfg.pins = c.rxLive.pins \/ cfg.din))
  <2>0. cfg # IcNull /\ "out" \notin c.holds
    BY <1>3, IcAssumption DEF IcOk
  <2>1. \/ res = [ch |-> IcOpenRaw(c, cfg, FALSE), ok |-> FALSE]
        \/ res = [ch |-> [IcOpenRaw(c, cfg, TRUE) EXCEPT
                            !.holds = (IF c.alone THEN @ ELSE {}) \cup {"out"}], ok |-> TRUE]
    BY <1>3 DEF IcOpens
  <2>2. CASE c.alone
    <3>1. ~cfg.din
      BY <1>3, <2>2
    <3>2. /\ IcOpenRaw(c, cfg, TRUE) = [c EXCEPT !.tx = cfg, !.live = cfg]
          /\ IcOpenRaw(c, cfg, FALSE) = [c EXCEPT !.tx = IcNull]
      BY <2>2, <3>1 DEF IcOpenRaw, IcOpenFailed, IcCloseTx, IcOk, IcChannel
    <3>3. CASE res = [ch |-> IcOpenRaw(c, cfg, FALSE), ok |-> FALSE]
      <4>1. res.ch = c /\ res.ok = FALSE
        BY <1>3, <3>2, <3>3 DEF IcOk, IcChannel
      <4> QED BY <4>1 DEF IcLeavesIn, IcOk
    <3>4. CASE res = [ch |-> [IcOpenRaw(c, cfg, TRUE) EXCEPT !.holds = @ \cup {"out"}], ok |-> TRUE]
      <4>1. /\ res.ch = [c EXCEPT !.tx = cfg, !.live = cfg, !.holds = @ \cup {"out"}] /\ res.ok = TRUE
        BY <3>2, <3>4 DEF IcOk, IcChannel
      <4> QED BY <2>0, <2>2, <4>1 DEF IcOk, IcChannel, IcLeavesIn
    <3> QED BY <2>1, <2>2, <3>3, <3>4
  <2>3. CASE ~c.alone
    <3>1. c.rx = IcNull /\ "in" \notin c.holds /\ ~c.cap
      BY <1>3, <2>3 DEF IcOk
    <3>2. IcOpenRaw(c, cfg, TRUE) = [c EXCEPT !.tx = cfg, !.rx = IF cfg.din THEN cfg ELSE IcNull, !.live = cfg]
      BY <3>1 DEF IcOpenRaw, IcOk, IcChannel
    <3>3. IcOpenRaw(c, cfg, FALSE) =
            [c EXCEPT !.tx = IcNull, !.rx = IcNull, !.cap = FALSE, !.holds = {}, !.alone = FALSE]
      BY <2>3 DEF IcOpenRaw, IcOpenFailed, IcClose, IcOk, IcChannel
    <3>4. CASE res = [ch |-> IcOpenRaw(c, cfg, FALSE), ok |-> FALSE]
      <4>1. res.ch = [c EXCEPT !.tx = IcNull, !.rx = IcNull, !.cap = FALSE, !.holds = {}, !.alone = FALSE]
            /\ res.ok = FALSE
        BY <3>3, <3>4
      <4> QED BY <3>1, <4>1 DEF IcOk, IcChannel, IcLeavesIn
    <3>5. CASE res = [ch |-> [IcOpenRaw(c, cfg, TRUE) EXCEPT !.holds = {"out"}], ok |-> TRUE]
      <4>1. res.ch = [c EXCEPT !.tx = cfg, !.rx = IF cfg.din THEN cfg ELSE IcNull, !.live = cfg,
                               !.holds = {"out"}]
            /\ res.ok = TRUE
        BY <3>2, <3>5 DEF IcOk, IcChannel
      <4>2. /\ res.ch \in IcChannel /\ res.ch.holds = {"out"} /\ res.ch.tx = cfg
            /\ res.ch.rx = (IF cfg.din THEN cfg ELSE IcNull) /\ res.ch.live = cfg
            /\ res.ch.alone = c.alone /\ res.ch.cap = c.cap
        BY <4>1, ZenonT(60) DEF IcOk, IcChannel
      <4>3. IcOk(res.ch)
        BY <2>0, <2>3, <3>1, <4>2 DEF IcOk
      <4> QED BY <3>1, <4>1, <4>2, <4>3 DEF IcLeavesIn
    <3> QED BY <2>1, <2>3, <3>4, <3>5
  <2> QED BY <2>2, <2>3 DEF IcOk, IcChannel
<1> QED BY <1>1, <1>2, <1>3

\* rx_begin: a recorder joins, opens the pair or a channel of its own, or fails;
\* an output keeps what it has.
LEMMA IcRecorderKeeps ==
    ASSUME NEW c, IcOk(c), NEW cfg \in IcWire, cfg.din, cfg.ch = 2, NEW d \in IcRxBegins(c, cfg)
    PROVE  IcOk(d) /\ IcLeavesOut(c, d) /\ ("out" \in d.holds => "out" \in c.holds)
<1>. DEFINE join == c.tx # IcNull /\ c.rx # IcNull /\ ~c.alone
            pair == ~join /\ c.tx = IcNull /\ cfg.dout
            ringed == [c EXCEPT !.cap = TRUE]
<1>0. cfg # IcNull /\ c.alone \in BOOLEAN /\ c.cap \in BOOLEAN
  BY IcAssumption DEF IcOk, IcChannel
<1>1. CASE d = c
  BY <1>1 DEF IcLeavesOut
<1>2. CASE d # c
  <2>1. "in" \notin c.holds /\ ~c.alone /\ ~c.cap
    BY <1>0, <1>2 DEF IcRxBegins, IcOk
  <2>2. CASE join
    <3>1. d = [ringed EXCEPT !.holds = @ \cup {"in"}]
      BY <1>2, <2>2 DEF IcRxBegins
    <3>2. d = [c EXCEPT !.cap = TRUE, !.holds = @ \cup {"in"}]
      BY <3>1 DEF IcOk, IcChannel
    <3> QED BY <2>1, <2>2, <3>2 DEF IcOk, IcChannel, IcLeavesOut
  <2>3. CASE pair
    <3>1. c.rx = IcNull /\ c.holds = {}
      BY <2>1, <2>3 DEF IcOk, IcChannel
    <3>2. \/ d = [IcOpenRaw(ringed, cfg, FALSE) EXCEPT !.cap = FALSE]
          \/ d = [IcOpenRaw(ringed, cfg, TRUE) EXCEPT !.holds = @ \cup {"in"}]
      BY <1>2, <2>3 DEF IcRxBegins
    <3>3. /\ ringed.alone = FALSE /\ ringed.holds = {} /\ ringed.rx = IcNull /\ ringed \in IcChannel
          /\ ringed = [c EXCEPT !.cap = TRUE]
      BY <2>1, <3>1 DEF IcOk, IcChannel
    <3>4. IcOpenRaw(ringed, cfg, TRUE) = [ringed EXCEPT !.tx = cfg, !.rx = cfg, !.live = cfg]
      BY DEF IcOpenRaw
    <3>5. IcOpenRaw(ringed, cfg, FALSE) =
            [ringed EXCEPT !.tx = IcNull, !.rx = IcNull, !.cap = FALSE, !.holds = {}, !.alone = FALSE]
      BY <3>3 DEF IcOpenRaw, IcOpenFailed, IcClose, IcChannel
    <3>6. CASE d = [IcOpenRaw(ringed, cfg, FALSE) EXCEPT !.cap = FALSE]
      <4>1. d = [c EXCEPT !.tx = IcNull, !.rx = IcNull, !.cap = FALSE, !.holds = {}, !.alone = FALSE]
        BY <3>3, <3>5, <3>6 DEF IcOk, IcChannel
      <4> QED BY <3>1, <4>1 DEF IcOk, IcChannel, IcLeavesOut
    <3>7. CASE d = [IcOpenRaw(ringed, cfg, TRUE) EXCEPT !.holds = @ \cup {"in"}]
      <4>1. d = [c EXCEPT !.tx = cfg, !.rx = cfg, !.live = cfg, !.cap = TRUE, !.holds = {"in"}]
        BY <3>1, <3>3, <3>4, <3>7 DEF IcOk, IcChannel
      <4> QED BY <1>0, <2>1, <3>1, <4>1 DEF IcOk, IcChannel, IcLeavesOut
    <3> QED BY <3>2, <3>6, <3>7
  <2>4. CASE ~join /\ ~pair
    <3>1. c.rx = IcNull
      BY <2>1, <2>4 DEF IcOk
    <3>2. \/ d = [IcOpenRxOnly(ringed, cfg, FALSE) EXCEPT !.cap = FALSE]
          \/ d = [IcOpenRxOnly(ringed, cfg, TRUE) EXCEPT !.holds = @ \cup {"in"}]
      BY <1>2, <2>4 DEF IcRxBegins
    <3>3. CASE d = [IcOpenRxOnly(ringed, cfg, FALSE) EXCEPT !.cap = FALSE]
      <4>1. d = c
        BY <2>1, <3>1, <3>3 DEF IcOpenRxOnly, IcOk, IcChannel
      <4> QED BY <1>2, <4>1
    <3>4. CASE d = [IcOpenRxOnly(ringed, cfg, TRUE) EXCEPT !.holds = @ \cup {"in"}]
      <4>1. d = [c EXCEPT !.cap = TRUE, !.rx = cfg, !.alone = TRUE, !.rxLive = cfg,
                          !.holds = @ \cup {"in"}]
        BY <3>4 DEF IcOpenRxOnly, IcOk, IcChannel
      <4> QED BY <1>0, <2>1, <4>1 DEF IcOk, IcChannel, IcLeavesOut
    <3> QED BY <3>2, <3>3, <3>4
  <2> QED BY <2>2, <2>3, <2>4
<1> QED BY <1>1, <1>2

\* rx_end: the recorder's hold goes, and its ring, and what nobody holds.
LEMMA IcRecorderGoes ==
    ASSUME NEW c, IcOk(c)
    PROVE  /\ IcOk(IcRxEnd(c)) /\ IcLeavesOut(c, IcRxEnd(c))
           /\ "out" \in IcRxEnd(c).holds => "out" \in c.holds
<1>. DEFINE ended == [c EXCEPT !.cap = FALSE, !.holds = @ \ {"in"}]
            left == IF c.alone THEN IcCloseRxAlone(ended) ELSE ended
<1>1. CASE "in" \notin c.holds
  BY <1>1 DEF IcRxEnd, IcLeavesOut
<1>2. CASE "in" \in c.holds
  <2>1. IcRxEnd(c) = IF left.holds = {} THEN IcClose(left) ELSE left
    BY <1>2 DEF IcRxEnd
  <2>3. /\ left \in IcChannel /\ left.holds = c.holds \ {"in"} /\ left.tx = c.tx
        /\ left.live = c.live /\ left.cap = FALSE /\ left.alone = FALSE
        /\ left.rx = IF c.alone THEN IcNull ELSE c.rx
    <3>1. CASE c.alone
      <4>1. left = [c EXCEPT !.cap = FALSE, !.holds = @ \ {"in"}, !.rx = IcNull, !.alone = FALSE]
        BY <3>1 DEF IcCloseRxAlone, IcOk, IcChannel
      <4> QED BY <3>1, <4>1 DEF IcOk, IcChannel
    <3>2. CASE ~c.alone
      <4>1. left = ended /\ c.alone = FALSE
        BY <3>2 DEF IcOk, IcChannel
      <4> QED BY <4>1 DEF IcOk, IcChannel
    <3> QED BY <3>1, <3>2
  <2>. HIDE DEF left
  <2>4. CASE left.holds = {}
    <3>1. IcClose(left) = [left EXCEPT !.cap = FALSE, !.holds = {}, !.rx = IcNull, !.tx = IcNull,
                                       !.alone = FALSE]
          /\ "out" \notin c.holds
      BY <2>3, <2>4 DEF IcClose
    <3> QED BY <2>1, <2>3, <2>4, <3>1 DEF IcOk, IcChannel, IcLeavesOut
  <2>5. CASE left.holds # {}
    <3>1. "out" \in left.holds /\ "in" \notin left.holds
      BY <2>3, <2>5 DEF IcOk, IcChannel
    <3>2. IcOk(left)
      BY <2>3, <3>1 DEF IcOk
    <3> QED BY <2>1, <2>3, <2>5, <3>2 DEF IcLeavesOut
  <2> QED BY <2>4, <2>5
<1> QED BY <1>1, <1>2

\* The output's handlers keep the invariant, and what a recorder holds.
LEMMA IcOutputSteps ==
    ASSUME IcInv,
           \/ \E cfg \in IcWire : cfg.dout /\ cfg.bits = 16 /\ cfg.ch = 2 /\ IcMakeOut(cfg)
           \/ IcDeinit \/ IcStopPlaying \/ IcRetune \/ IcSpawn \/ IcReap
           \/ \E rate \in IcRates, direct \in BOOLEAN, ch \in {1, 2} : IcPlay(rate, direct, ch)
    PROVE  IcInv' /\ icBy' = "out" /\ IcLeavesIn(icCh, icCh')
<1>1. ASSUME NEW cfg \in IcWire, cfg.ch = 2, IcMakeOut(cfg)
      PROVE  IcInv' /\ icBy' = "out" /\ IcLeavesIn(icCh, icCh')
  <2>1. PICK res \in IcOpens(icCh, cfg) :
          /\ icCh' = res.ch
          /\ icOut' = IF res.ok THEN [wire |-> cfg, rate |-> cfg.rate, playing |-> FALSE]
                                ELSE IcNull
    BY <1>1 DEF IcMakeOut
  <2>2. /\ IcOk(res.ch) /\ IcLeavesIn(icCh, res.ch) /\ res.ok \in BOOLEAN
        /\ res.ok => "out" \in res.ch.holds /\ res.ch.tx.rate = cfg.rate
        /\ ~res.ok => ("out" \in res.ch.holds => "out" \in icCh.holds /\ res.ch.tx = icCh.tx)
    BY <1>1, IcOpensKeep DEF IcInv
  <2>3. /\ icOut = IcNull /\ icDo' = "idle" /\ icBy' = "out" /\ "out" \notin icCh.holds
    BY <1>1 DEF IcMakeOut, IcInv
  <2>4. CASE res.ok
    <3>1. icOut' = [wire |-> cfg, rate |-> cfg.rate, playing |-> FALSE] /\ icOut' \in IcOutput
      BY <1>1, <2>1, <2>4 DEF IcOutput, IcWire
    <3>2. icOut' # IcNull
      BY <3>1, IcAssumption
    <3> QED BY <1>1, <2>1, <2>2, <2>3, <2>4, <3>1, <3>2 DEF IcInv
  <2>5. CASE ~res.ok
    BY <2>1, <2>2, <2>3, <2>5 DEF IcInv
  <2> QED BY <2>4, <2>5
<1>2. ASSUME IcDeinit
      PROVE  IcInv' /\ icBy' = "out" /\ IcLeavesIn(icCh, icCh')
  BY <1>2, IcShutsDown DEF IcInv, IcDeinit
<1>3. ASSUME IcStopPlaying \/ IcReap
      PROVE  IcInv' /\ icBy' = "out" /\ IcLeavesIn(icCh, icCh')
  <2>1. /\ icOut \in IcOutput /\ icOut' = [icOut EXCEPT !.playing = FALSE] /\ icBy' = "out"
        /\ icCh' = icCh /\ icDo' = icDo
    BY <1>3 DEF IcInv, IcStopPlaying, IcReap
  <2>2. icOut' \in IcOutput /\ icOut'.rate = icOut.rate /\ icOut'.wire = icOut.wire
    BY <2>1 DEF IcOutput
  <2>3. icOut' # IcNull /\ icOut # IcNull
    BY <2>1, <2>2, IcAssumption
  <2> QED BY <2>1, <2>2, <2>3 DEF IcInv, IcLeavesIn, IcOk
<1>4. ASSUME IcRetune
      PROVE  IcInv' /\ icBy' = "out" /\ IcLeavesIn(icCh, icCh')
  <2>1. /\ icOut \in IcOutput /\ icOut # IcNull /\ icOut.wire \in IcWire
        /\ icOut.wire.din => icOut.wire.ch = 2
    BY <1>4 DEF IcInv, IcRetune, IcOutput
  <2>2. PICK res \in IcOpens(icCh, icOut.wire) :
          /\ icCh' = res.ch
          /\ icDo' = IF res.ok THEN "spawn" ELSE "idle"
          /\ icOut' = IF res.ok THEN [icOut EXCEPT !.rate = icOut.wire.rate] ELSE icOut
    BY <1>4 DEF IcRetune
  <2>3. /\ IcOk(res.ch) /\ IcLeavesIn(icCh, res.ch) /\ res.ok \in BOOLEAN
        /\ res.ok => "out" \in res.ch.holds /\ res.ch.tx.rate = icOut.wire.rate
        /\ ~res.ok => ("out" \in res.ch.holds => "out" \in icCh.holds /\ res.ch.tx = icCh.tx)
    BY <2>1, IcOpensKeep DEF IcInv
  <2>4. icBy' = "out"
    BY <1>4 DEF IcRetune
  <2>5. CASE res.ok
    <3>1. /\ icOut' \in IcOutput /\ icOut'.rate = icOut.wire.rate /\ icOut'.wire = icOut.wire
      BY <2>1, <2>2, <2>5 DEF IcOutput, IcWire
    <3>2. icOut' # IcNull
      BY <3>1, IcAssumption
    <3> QED BY <2>1, <2>2, <2>3, <2>4, <2>5, <3>1, <3>2 DEF IcInv
  <2>6. CASE ~res.ok
    BY <2>1, <2>2, <2>3, <2>4, <2>6 DEF IcInv
  <2> QED BY <2>5, <2>6
<1>5. ASSUME IcSpawn
      PROVE  IcInv' /\ icBy' = "out" /\ IcLeavesIn(icCh, icCh')
  <2>1. /\ icOut \in IcOutput /\ icBy' = "out" /\ icCh' = icCh /\ icDo' = "idle"
        /\ icOut' = [icOut EXCEPT !.playing = icPump = "off" /\ icCh.tx # IcNull]
    BY <1>5 DEF IcInv, IcSpawn
  <2>2. icOut' \in IcOutput /\ icOut'.rate = icOut.rate /\ icOut'.wire = icOut.wire
    BY <2>1 DEF IcOutput
  <2>3. icOut' # IcNull /\ icOut # IcNull
    BY <2>1, <2>2, IcAssumption
  <2> QED BY <2>1, <2>2, <2>3 DEF IcInv, IcLeavesIn, IcOk
<1>6. ASSUME NEW rate \in IcRates, NEW direct \in BOOLEAN, NEW ch \in {1, 2}, IcPlay(rate, direct, ch)
      PROVE  IcInv' /\ icBy' = "out" /\ IcLeavesIn(icCh, icCh')
  <2>. DEFINE want == IcWantChannels(direct, ch)
  <2>1. /\ icOut \in IcOutput /\ icOut # IcNull /\ icBy' = "out"
        /\ icOut.wire.din => icOut.wire.ch = 2
    BY <1>6 DEF IcInv, IcPlay
  <2>2. want \in {1, 2} /\ (icOut.wire.din => want = 2)
    BY DEF IcWantChannels, IcStereoLocked
  <2>3. \/ /\ icCh' = IcShutdown(icCh) /\ icDo' = "retune"
           /\ icOut' = [icOut EXCEPT !.playing = FALSE, !.wire.rate = rate, !.wire.ch = want]
        \/ /\ icCh' = icCh /\ icDo' = "spawn"
           /\ icOut' = [icOut EXCEPT !.playing = FALSE]
    BY <1>6 DEF IcPlay
  <2>. HIDE DEF want
  <2>4. CASE /\ icCh' = IcShutdown(icCh) /\ icDo' = "retune"
             /\ icOut' = [icOut EXCEPT !.playing = FALSE, !.wire.rate = rate, !.wire.ch = want]
    <3>1. icOut' \in IcOutput
      BY <2>1, <2>2, <2>4 DEF IcOutput, IcWire
    <3>2. icOut'.wire.din = icOut.wire.din /\ icOut'.wire.ch = want
      BY <2>1, <2>4 DEF IcOutput, IcWire
    <3>3. icOut' # IcNull
      BY <3>1, IcAssumption
    <3>4. IcOk(icCh') /\ "out" \notin icCh'.holds /\ IcLeavesIn(icCh, icCh')
      BY <2>4, IcShutsDown DEF IcInv
    <3> QED BY <2>1, <2>2, <3>1, <3>2, <3>3, <3>4 DEF IcInv
  <2>5. CASE /\ icCh' = icCh /\ icDo' = "spawn" /\ icOut' = [icOut EXCEPT !.playing = FALSE]
    <3>1. icOut' \in IcOutput /\ icOut'.rate = icOut.rate /\ icOut'.wire = icOut.wire
      BY <2>1, <2>5 DEF IcOutput
    <3>2. icOut' # IcNull
      BY <3>1, IcAssumption
    <3> QED BY <2>1, <2>5, <3>1, <3>2 DEF IcInv, IcLeavesIn, IcOk
  <2> QED BY <2>3, <2>4, <2>5
<1> QED BY <1>1, <1>2, <1>3, <1>4, <1>5, <1>6

\* The recorder's, a stop and the pump's keep it too, and a recorder's what an
\* output holds.
LEMMA IcOtherSteps ==
    ASSUME IcInv,
           \/ \E cfg \in IcWire : cfg.din /\ cfg.ch = 2 /\ (cfg.dout => cfg.bits = 16)
                              /\ IcRecord(cfg)
           \/ IcRecordEnds \/ IcStop \/ IcPumpTakes \/ IcPumpWrote
    PROVE  IcInv' /\ icBy' # "out" /\ (icBy' = "rec" => IcLeavesOut(icCh, icCh'))
<1>1. ASSUME NEW d, IcOk(d), IcLeavesOut(icCh, d), "out" \in d.holds => "out" \in icCh.holds,
             icCh' = d, icOut' = icOut, icDo' = icDo
      PROVE  IcInv'
  BY <1>1 DEF IcInv, IcLeavesOut
<1>2. ASSUME NEW cfg \in IcWire, cfg.din, cfg.ch = 2, IcRecord(cfg)
      PROVE  IcInv' /\ icBy' = "rec" /\ IcLeavesOut(icCh, icCh')
  <2>1. PICK d \in IcRxBegins(icCh, cfg) : icCh' = d
    BY <1>2 DEF IcRecord
  <2>2. IcOk(d) /\ IcLeavesOut(icCh, d) /\ ("out" \in d.holds => "out" \in icCh.holds)
    BY <1>2, IcRecorderKeeps DEF IcInv
  <2> QED BY <1>1, <1>2, <2>1, <2>2 DEF IcRecord
<1>3. ASSUME IcRecordEnds
      PROVE  IcInv' /\ icBy' = "rec" /\ IcLeavesOut(icCh, icCh')
  <2>1. /\ IcOk(IcRxEnd(icCh)) /\ IcLeavesOut(icCh, IcRxEnd(icCh))
        /\ "out" \in IcRxEnd(icCh).holds => "out" \in icCh.holds
    BY IcRecorderGoes DEF IcInv
  <2> QED BY <1>1, <1>3, <2>1 DEF IcRecordEnds
<1>4. ASSUME IcStop
      PROVE  IcInv' /\ icBy' = "stop"
  BY <1>4, IcCloses DEF IcInv, IcStop
<1>5. ASSUME IcPumpTakes \/ IcPumpWrote
      PROVE  IcInv' /\ icBy' = "pump"
  BY <1>5 DEF IcInv, IcPumpTakes, IcPumpWrote
<1> QED BY <1>2, <1>3, <1>4, <1>5

\* The invariant holds, initially and after each step.
LEMMA IcHolds == IcSpec => []IcInv
<1>1. IcInit => IcInv
  <2>. SUFFICES ASSUME IcInit PROVE IcInv
    OBVIOUS
  <2>1. IcOk(icCh)
    BY DEF IcInit, IcOk, IcChannel
  <2> QED BY <2>1 DEF IcInit, IcInv
<1>2. IcInv /\ [IcNext]_icVars => IcInv'
  <2>1. IcInv /\ IcNext => IcInv'
    BY IcOutputSteps, IcOtherSteps DEF IcNext
  <2>2. IcInv /\ UNCHANGED icVars => IcInv'
    BY DEF IcInv, icVars
  <2> QED BY <2>1, <2>2
<1> QED BY <1>1, <1>2, PTL DEF IcSpec

\* Its two halves agree.
LEMMA IcAgrees == IcInv => IcSafe
<1>1. IcInv => IcHoldsAreOpen
  BY DEF IcInv, IcOk, IcHoldsAreOpen
<1>2. IcInv => IcOneClock
  BY DEF IcInv, IcOk, IcOneClock, IcInputHeld
<1> QED BY <1>1, <1>2 DEF IcSafe

\* The port is shared: what is held is open, on one clock at one rate; nothing the
\* output's object does touches a recording, and no recorder touches an output.
\* (_audioif.c:1576-1584, 2004-2016, 2971-2983; audiobusio.c's play)
THEOREM IcSharesThePort == IcSpec => IcShared
<1>1. IcInv /\ IcInv' /\ [IcNext]_icVars
        => [ /\ IcSafe'
             /\ "in" \in icCh.holds /\ icBy' = "out"
                => "in" \in icCh'.holds /\ icCh'.rx = icCh.rx /\ icCh'.cap
             /\ "out" \in icCh.holds /\ icBy' = "rec"
                => "out" \in icCh'.holds /\ icCh'.tx = icCh.tx ]_icVars
  <2>. SUFFICES ASSUME IcInv, IcInv', IcNext
                PROVE  /\ IcSafe'
                       /\ "in" \in icCh.holds /\ icBy' = "out"
                          => "in" \in icCh'.holds /\ icCh'.rx = icCh.rx /\ icCh'.cap
                       /\ "out" \in icCh.holds /\ icBy' = "rec"
                          => "out" \in icCh'.holds /\ icCh'.tx = icCh.tx
    OBVIOUS
  <2>1. IcSafe'
    BY IcAgrees, PTL
  <2>2. \/ icBy' = "out" /\ IcLeavesIn(icCh, icCh')
        \/ icBy' # "out" /\ (icBy' = "rec" => IcLeavesOut(icCh, icCh'))
    BY IcOutputSteps, IcOtherSteps DEF IcNext
  <2> QED BY <2>1, <2>2 DEF IcLeavesIn, IcLeavesOut
<1> QED BY <1>1, IcHolds, PTL DEF IcSpec, IcShared

-----------------------------------------------------------------------------
(***************************************************************************)
(* What sequences put end to end give (FlattenSeq), and how long it is.    *)
(* That its recursive function exists is shown from the least beginning    *)
(* that would have none.                                                   *)
(***************************************************************************)
\* A set of naturals that has any has a least.
LEMMA LeastIn ==
    ASSUME NEW S \in SUBSET Nat, S # {}
    PROVE  \E m \in S : \A k \in S : m <= k
<1>1. IsWellFoundedOn(OpToRel(<, Nat), Nat)
  BY NatLessThanWellFounded
<1>2. PICK m \in S : \A k \in S : ~(<<k, m>> \in OpToRel(<, Nat))
  BY <1>1, WFMin
<1>3. \A k \in S : ~(k < m)
  BY <1>2 DEF OpToRel
<1> QED BY <1>3

\* s is found in t, d further on.
IsPart(s, t, d) == d + Len(s) <= Len(t) /\ \A i \in 1 .. Len(s) : s[i] = t[i + d]

\* The first n sequences of a sequence, put end to end one after the other.
IsFlat(g, n, seqs) == g = [i \in 1 .. n |-> IF i = 1 THEN seqs[i] ELSE g[i - 1] \o seqs[i]]

\* That function exists for any beginning,
LEMMA FlatExists ==
    ASSUME NEW S, NEW seqs \in Seq(Seq(S)), NEW n \in 0 .. Len(seqs)
    PROVE  \E g : IsFlat(g, n, seqs)
<1> DEFINE Bad == {k \in Nat : k <= Len(seqs) /\ ~\E g : IsFlat(g, k, seqs)}
<1>1. SUFFICES Bad = {}
  OBVIOUS
<1>2. SUFFICES ASSUME Bad # {} PROVE FALSE
  OBVIOUS
<1>3. PICK m \in Bad : \A k \in Bad : m <= k
  BY <1>2, LeastIn
<1>4. CASE m = 0
  <2>1. IsFlat([i \in 1 .. 0 |-> <<>>], 0, seqs)
    BY DEF IsFlat
  <2> QED BY <1>3, <1>4, <2>1
<1>5. CASE m # 0
  <2>0. m \in Nat /\ m <= Len(seqs)
    BY <1>3
  <2>a. Bad \subseteq Nat /\ Len(seqs) \in Nat
    OBVIOUS
  <2>1. m - 1 \in Nat /\ m - 1 <= Len(seqs) /\ m - 1 \notin Bad
    <3> HIDE DEF Bad
    <3> QED BY <2>0, <2>a, <1>3, <1>5
  <2>2. PICK g : IsFlat(g, m - 1, seqs)
    BY <2>1
  <2> DEFINE h == [i \in 1 .. m |-> IF i = m THEN IF m = 1 THEN seqs[m] ELSE g[m - 1] \o seqs[m]
                                             ELSE g[i]]
  <2>3. \A i \in 1 .. m - 1 : g[i] = IF i = 1 THEN seqs[i] ELSE g[i - 1] \o seqs[i]
    BY <2>2 DEF IsFlat
  <2>4. \A i \in 1 .. m : h[i] = IF i = 1 THEN seqs[i] ELSE h[i - 1] \o seqs[i]
    BY <2>0, <2>1, <2>3, <1>5
  <2>5. IsFlat(h, m, seqs)
    BY <2>4 DEF IsFlat
  <2> QED BY <1>3, <2>5
<1> QED BY <1>4, <1>5

\* and what FlattenSeq gives is its last value.
LEMMA FlattenIs ==
    ASSUME NEW S, NEW seqs \in Seq(Seq(S)), Len(seqs) # 0
    PROVE  \E g : IsFlat(g, Len(seqs), seqs) /\ FlattenSeq(seqs) = g[Len(seqs)]
<1> DEFINE c == CHOOSE g : IsFlat(g, Len(seqs), seqs)
<1>0. Len(seqs) \in 0 .. Len(seqs)
  BY LenProperties
<1>1. IsFlat(c, Len(seqs), seqs)
  BY <1>0, FlatExists
<1>2. FlattenSeq(seqs) = c[Len(seqs)]
  BY DEF FlattenSeq, IsFlat
<1> QED BY <1>1, <1>2

\* No sequences leave nothing.
LEMMA FlattenEmpty == FlattenSeq(<<>>) = <<>>
BY DEF FlattenSeq

\* What is put end to end is a sequence.
LEMMA FlatTyped ==
    ASSUME NEW S, NEW seqs \in Seq(Seq(S)), NEW n \in 0 .. Len(seqs), NEW g, IsFlat(g, n, seqs)
    PROVE  \A i \in 1 .. n : g[i] \in Seq(S)
<1> DEFINE Bad == {k \in 1 .. n : g[k] \notin Seq(S)}
<1>1. SUFFICES ASSUME Bad # {} PROVE FALSE
  OBVIOUS
<1>2. Bad \in SUBSET Nat
  OBVIOUS
<1>3. PICK m \in Bad : \A k \in Bad : m <= k
  BY <1>1, <1>2, LeastIn
<1>4. \A i \in 1 .. n : g[i] = IF i = 1 THEN seqs[i] ELSE g[i - 1] \o seqs[i]
  BY DEF IsFlat
<1>5. m \in 1 .. n /\ g[m] \notin Seq(S)
  OBVIOUS
<1>9. seqs[m] \in Seq(S)
  <2>1. m \in 1 .. Len(seqs)
    BY <1>5
  <2> QED BY <2>1, ElementOfSeq
<1>6. m # 1
  BY <1>4, <1>5, <1>9
<1>7. m - 1 \in 1 .. n /\ m - 1 \notin Bad
  <2> HIDE DEF Bad
  <2>1. m - 1 \in 1 .. n /\ m - 1 < m
    BY <1>5, <1>6
  <2> QED BY <2>1, <1>2, <1>3
<1>8. g[m - 1] \in Seq(S)
  BY <1>7
<1>10. g[m] = g[m - 1] \o seqs[m]
  BY <1>4, <1>5, <1>6
<1> QED BY <1>5, <1>8, <1>9, <1>10, ConcatProperties

\* What FlattenSeq gives is a sequence.
LEMMA FlattenTyped ==
    ASSUME NEW S, NEW seqs \in Seq(Seq(S))
    PROVE  FlattenSeq(seqs) \in Seq(S)
<1>0. Len(seqs) \in Nat
  BY LenProperties
<1>1. CASE Len(seqs) = 0
  <2>1. FlattenSeq(seqs) = seqs /\ seqs = <<>>
    BY <1>1, EmptySeq DEF FlattenSeq
  <2> QED BY <2>1, EmptySeq
<1>2. CASE Len(seqs) # 0
  <2>1. PICK g : IsFlat(g, Len(seqs), seqs) /\ FlattenSeq(seqs) = g[Len(seqs)]
    BY <1>2, FlattenIs
  <2>2. Len(seqs) \in 0 .. Len(seqs) /\ Len(seqs) \in 1 .. Len(seqs)
    BY <1>0, <1>2
  <2> QED BY <2>1, <2>2, FlatTyped
<1> QED BY <1>1, <1>2

\* Longer and shorter agree where they both are.
LEMMA FlatAgree ==
    ASSUME NEW S, NEW s \in Seq(Seq(S)), NEW t \in Seq(Seq(S)),
           NEW g, IsFlat(g, Len(s), s), NEW h, IsFlat(h, Len(t), t),
           IsPart(s, t, 0)
    PROVE  \A i \in 1 .. Len(s) : h[i] = g[i]
<1> DEFINE Bad == {k \in 1 .. Len(s) : h[k] # g[k]}
<1>0. Len(s) \in Nat /\ Len(t) \in Nat
  BY LenProperties
<1>p. Len(s) <= Len(t) /\ \A i \in 1 .. Len(s) : s[i] = t[i]
  BY <1>0 DEF IsPart
<1>1. SUFFICES ASSUME Bad # {} PROVE FALSE
  OBVIOUS
<1>2. Bad \in SUBSET Nat
  OBVIOUS
<1>3. PICK m \in Bad : \A k \in Bad : m <= k
  BY <1>1, <1>2, LeastIn
<1>4. \A i \in 1 .. Len(s) : g[i] = IF i = 1 THEN s[i] ELSE g[i - 1] \o s[i]
  BY DEF IsFlat
<1>5. \A i \in 1 .. Len(t) : h[i] = IF i = 1 THEN t[i] ELSE h[i - 1] \o t[i]
  BY DEF IsFlat
<1>6. m \in 1 .. Len(s) /\ m \in 1 .. Len(t) /\ h[m] # g[m] /\ s[m] = t[m]
  BY <1>0, <1>p
<1>7. m # 1
  BY <1>4, <1>5, <1>6
<1>8. m - 1 \in 1 .. Len(s) /\ m - 1 \notin Bad
  <2> HIDE DEF Bad
  <2>1. m - 1 \in 1 .. Len(s) /\ m - 1 < m
    BY <1>0, <1>6, <1>7
  <2> QED BY <2>1, <1>2, <1>3
<1>9. h[m - 1] = g[m - 1]
  BY <1>8
<1> QED BY <1>4, <1>5, <1>6, <1>7, <1>9

\* One more at the end goes behind,
LEMMA FlattenAppend ==
    ASSUME NEW S, NEW seqs \in Seq(Seq(S)), NEW x \in Seq(S)
    PROVE  FlattenSeq(Append(seqs, x)) = FlattenSeq(seqs) \o x
<1> DEFINE t == Append(seqs, x)
<1>0. /\ t \in Seq(Seq(S)) /\ Len(t) = Len(seqs) + 1 /\ Len(seqs) \in Nat
      /\ t[Len(t)] = x /\ \A i \in 1 .. Len(seqs) : seqs[i] = t[i]
  BY AppendProperties, LenProperties
<1> HIDE DEF t
<1>1. PICK h : IsFlat(h, Len(t), t) /\ FlattenSeq(t) = h[Len(t)]
  <2>1. Len(t) # 0
    BY <1>0
  <2> QED BY <1>0, <2>1, FlattenIs
<1>2. \A i \in 1 .. Len(t) : h[i] = IF i = 1 THEN t[i] ELSE h[i - 1] \o t[i]
  BY <1>1 DEF IsFlat
<1>3. CASE Len(seqs) = 0
  <2>1. FlattenSeq(seqs) = <<>>
    <3>1. seqs = <<>>
      BY <1>3, EmptySeq
    <3> QED BY <3>1, FlattenEmpty
  <2>2. h[Len(t)] = x
    BY <1>0, <1>2, <1>3
  <2>3. <<>> \o x = x
    BY ConcatEmptySeq
  <2> QED BY <1>1, <2>1, <2>2, <2>3 DEF t
<1>4. CASE Len(seqs) # 0
  <2>1. PICK g : IsFlat(g, Len(seqs), seqs) /\ FlattenSeq(seqs) = g[Len(seqs)]
    BY <1>4, FlattenIs
  <2>2. \A i \in 1 .. Len(seqs) : h[i] = g[i]
    <3>1. IsPart(seqs, t, 0)
      BY <1>0 DEF IsPart
    <3>2. IsFlat(g, Len(seqs), seqs) /\ IsFlat(h, Len(t), t) /\ t \in Seq(Seq(S))
      BY <1>0, <1>1, <2>1
    <3> QED BY ONLY <3>1, <3>2, FlatAgree, seqs \in Seq(Seq(S))
  <2>3. Len(seqs) \in 1 .. Len(seqs) /\ Len(t) \in 1 .. Len(t) /\ Len(t) # 1 /\ Len(t) - 1 = Len(seqs)
    BY <1>0, <1>4
  <2>4. h[Len(t)] = h[Len(seqs)] \o x
    BY <1>0, <1>2, <2>3
  <2> QED BY <1>1, <2>1, <2>2, <2>3, <2>4 DEF t
<1> QED BY <1>3, <1>4

\* and the first comes first.
LEMMA FlattenHead ==
    ASSUME NEW S, NEW seqs \in Seq(Seq(S)), seqs # <<>>
    PROVE  FlattenSeq(seqs) = seqs[1] \o FlattenSeq(Tail(seqs))
<1> DEFINE t == Tail(seqs)
<1>0. /\ t \in Seq(Seq(S)) /\ Len(t) = Len(seqs) - 1 /\ Len(seqs) \in Nat /\ Len(seqs) # 0
      /\ \A i \in 1 .. Len(t) : t[i] = seqs[i + 1]
  BY HeadTailProperties, LenProperties, EmptySeq
<1>b. seqs[1] \in Seq(S)
  <2>1. 1 \in 1 .. Len(seqs)
    BY <1>0
  <2> QED BY <2>1, ElementOfSeq
<1>1. PICK h : IsFlat(h, Len(seqs), seqs) /\ FlattenSeq(seqs) = h[Len(seqs)]
  BY <1>0, FlattenIs
<1>2. \A i \in 1 .. Len(seqs) : h[i] = IF i = 1 THEN seqs[i] ELSE h[i - 1] \o seqs[i]
  BY <1>1 DEF IsFlat
<1> HIDE DEF t
<1>3. CASE Len(t) = 0
  <2>1. FlattenSeq(t) = <<>>
    <3>1. t = <<>>
      BY <1>0, <1>3, EmptySeq
    <3> QED BY <3>1, FlattenEmpty
  <2>2. h[Len(seqs)] = seqs[1]
    <3>1. Len(seqs) = 1
      BY <1>0, <1>3
    <3> QED BY <1>2, <3>1
  <2>3. seqs[1] \o <<>> = seqs[1]
    BY <1>b, ConcatEmptySeq
  <2> QED BY <1>1, <2>1, <2>2, <2>3 DEF t
<1>4. CASE Len(t) # 0
  <2>1. PICK g : IsFlat(g, Len(t), t) /\ FlattenSeq(t) = g[Len(t)]
    BY <1>0, <1>4, FlattenIs
  <2>2. \A i \in 1 .. Len(t) : g[i] = IF i = 1 THEN t[i] ELSE g[i - 1] \o t[i]
    BY <2>1 DEF IsFlat
  <2>n. Len(t) \in Nat /\ Len(t) \in 0 .. Len(t) /\ Len(t) \in 1 .. Len(t) /\ Len(t) + 1 = Len(seqs)
    BY <1>0, <1>4
  <2>s. \A i \in 1 .. Len(t) : g[i] \in Seq(S)
    BY <1>0, <2>1, <2>n, FlatTyped
  <2> DEFINE Bad == {k \in 1 .. Len(t) : h[k + 1] # seqs[1] \o g[k]}
  <2>3. Bad = {}
    <3>1. SUFFICES ASSUME Bad # {} PROVE FALSE
      OBVIOUS
    <3>2. Bad \in SUBSET Nat
      <4>1. 1 .. Len(t) \subseteq Nat
        BY <2>n
      <4>2. Bad \subseteq 1 .. Len(t)
        OBVIOUS
      <4> QED BY <4>1, <4>2
    <3>3. PICK m \in Bad : \A k \in Bad : m <= k
      BY <3>1, <3>2, LeastIn
    <3>4. m \in 1 .. Len(t) /\ h[m + 1] # seqs[1] \o g[m]
      OBVIOUS
    <3>5. m + 1 \in 1 .. Len(seqs) /\ m + 1 # 1 /\ m + 1 - 1 = m /\ t[m] = seqs[m + 1]
      BY <1>0, <2>n, <3>4
    <3>6. h[m + 1] = h[m] \o t[m]
      <4>1. PICK j \in 1 .. Len(seqs) : j = m + 1
        BY <3>5
      <4>2. h[j] = IF j = 1 THEN seqs[j] ELSE h[j - 1] \o seqs[j]
        BY <1>2
      <4>3. j # 1 /\ j - 1 = m /\ t[m] = seqs[j]
        BY <3>5, <4>1
      <4>4. h[j] = h[m] \o t[m]
        BY <4>2, <4>3
      <4> QED BY <4>1, <4>4
    <3>7. m # 1
      <4>1. SUFFICES ASSUME m = 1 PROVE FALSE
        OBVIOUS
      <4>2. h[1] = seqs[1] /\ g[1] = t[1]
        BY <1>2, <2>2, <1>0, <2>n, <3>4, <4>1
      <4> QED BY <3>4, <3>6, <4>1, <4>2
    <3>8. m - 1 \in 1 .. Len(t) /\ m - 1 \notin Bad
      <4> HIDE DEF Bad
      <4>1. m - 1 \in 1 .. Len(t) /\ m - 1 < m
        BY <2>n, <3>4, <3>7
      <4> QED BY <4>1, <3>2, <3>3
    <3>9. h[m] = seqs[1] \o g[m - 1]
      <4>1. h[m - 1 + 1] = seqs[1] \o g[m - 1]
        BY <3>8
      <4>2. m - 1 + 1 = m
        BY <3>4
      <4> QED BY <4>1, <4>2
    <3>10. g[m] = g[m - 1] \o t[m]
      BY <2>2, <3>4, <3>7
    <3>11. g[m - 1] \in Seq(S) /\ t[m] \in Seq(S)
      BY <1>0, <2>s, <3>4, <3>8, ElementOfSeq
    <3>12. (seqs[1] \o g[m - 1]) \o t[m] = seqs[1] \o (g[m - 1] \o t[m])
      <4>1. PICK a \in Seq(S), b \in Seq(S), c \in Seq(S) : a = seqs[1] /\ b = g[m - 1] /\ c = t[m]
        BY <1>b, <3>11
      <4>2. (a \o b) \o c = a \o (b \o c)
        BY ConcatAssociative
      <4> QED BY <4>1, <4>2
    <3> QED BY <3>4, <3>6, <3>9, <3>10, <3>12
  <2>4. h[Len(seqs)] = seqs[1] \o g[Len(t)]
    BY <2>3, <2>n
  <2> QED BY <1>1, <2>1, <2>4 DEF t
<1> QED BY <1>3, <1>4

\* What is put end to end is as long as its sequences are in all.
LEMMA TotalOfNone ==
    ASSUME NEW S, NEW seqs \in Seq(Seq(S))
    PROVE  Len(FlattenSeq(seqs)) \in Nat /\ (seqs = <<>> => Len(FlattenSeq(seqs)) = 0)
<1>1. FlattenSeq(seqs) \in Seq(S)
  BY FlattenTyped
<1>2. Len(FlattenSeq(seqs)) \in Nat
  BY <1>1, LenProperties
<1>3. seqs = <<>> => Len(FlattenSeq(seqs)) = 0
  BY FlattenEmpty
<1> QED BY <1>2, <1>3

\* A sequence more at the end adds its length,
LEMMA TotalOfAppend ==
    ASSUME NEW S, NEW seqs \in Seq(Seq(S)), NEW x \in Seq(S)
    PROVE  Len(FlattenSeq(Append(seqs, x))) = Len(FlattenSeq(seqs)) + Len(x)
<1>1. FlattenSeq(seqs) \in Seq(S)
  BY FlattenTyped
<1>2. Len(FlattenSeq(seqs) \o x) = Len(FlattenSeq(seqs)) + Len(x)
  BY <1>1, ConcatProperties
<1> QED BY <1>2, FlattenAppend

\* and the head's length is what the tail is short of.
LEMMA TotalOfTail ==
    ASSUME NEW S, NEW seqs \in Seq(Seq(S)), seqs # <<>>
    PROVE  Len(FlattenSeq(seqs)) = Len(Head(seqs)) + Len(FlattenSeq(Tail(seqs)))
<1>1. Tail(seqs) \in Seq(Seq(S)) /\ Head(seqs) = seqs[1] /\ Head(seqs) \in Seq(S)
  BY HeadTailProperties, LenProperties, EmptySeq
<1>2. FlattenSeq(Tail(seqs)) \in Seq(S)
  BY <1>1, FlattenTyped
<1>3. Len(Head(seqs) \o FlattenSeq(Tail(seqs))) = Len(Head(seqs)) + Len(FlattenSeq(Tail(seqs)))
  BY <1>1, <1>2, ConcatProperties
<1> QED BY <1>1, <1>3, FlattenHead

-----------------------------------------------------------------------------
(***************************************************************************)
(* The frames of a camera, for any sizes of frames and ring, and any loss  *)
(* that leaves the IDs to be told apart. Inductive is where the assembler  *)
(* is between two frames or inside one, and that what is staged has its    *)
(* room.                                                                   *)
(***************************************************************************)
\* A packet with payload is its frame's number and its own.
UvcPackets == Nat \X Nat
UvcStates == [fill : Seq(UvcPackets), seen : Nat, got : BOOLEAN, has_fid : BOOLEAN, fid : 0 .. 1,
              torn : BOOLEAN, full : BOOLEAN, big : BOOLEAN]
UvcTallies == [frames : Nat, full : Nat, torn : Nat, big : Nat]
UvcCams == [frame : Nat \ {0}, size : UvcSizes, idx : Nat \ {0}, over : BOOLEAN]
UvcHistories == [any : SUBSET Nat, bad : SUBSET Nat, ended : SUBSET Nat, open : Nat]

UvcTypeOK ==
    /\ uvc \in UvcStates /\ uvcRing \in Seq(Seq(UvcPackets)) /\ uvcEnds \in UvcTallies
    /\ uvcCam \in UvcCams /\ uvcCam.idx <= uvcCam.size + 1
    /\ uvcCam.over => uvcCam.idx = uvcCam.size + 1
    /\ uvcSeen \in UvcHistories /\ IsFiniteSet(uvcSeen.any)
    /\ \A a \in uvcSeen.any \cup uvcSeen.bad \cup uvcSeen.ended : a \in 1 .. uvcCam.frame
    /\ uvcCam.frame \in uvcSeen.ended => uvcCam.over

\* Packets of one frame, in order.
UvcOf(s, g) ==
    /\ \A i \in 1 .. Len(s) : s[i][1] = g
    /\ \A i, j \in 1 .. Len(s) : i < j => s[i][2] < s[j][2]

\* A record is of a frame whose end was heard, not the first and without an error.
UvcWhole(s, ended, bad) ==
    s # <<>> /\ \E g \in ended : UvcOf(s, g) /\ g \notin bad /\ g # 1
UvcRecords == \A r \in 1 .. Len(uvcRing) : UvcWhole(uvcRing[r], uvcSeen.ended, uvcSeen.bad)

\* Between two frames, or in frame g: the camera still sends it, or the one after
\* it, of which nothing was heard yet. A frame that is not to be published is
\* marked so, and its own packets do not take the mark away.
UvcBetween ==
    /\ uvcSeen.open = 0 /\ uvc.fill = <<>> /\ ~uvc.full /\ ~uvc.big
    /\ uvcCam.frame \in uvcSeen.any => uvcCam.frame \in uvcSeen.ended
UvcInside(g) ==
    /\ g \in uvcSeen.any \ uvcSeen.ended /\ \A a \in uvcSeen.any : a <= g
    /\ uvc.has_fid /\ uvc.got /\ uvc.fid = g % 2
    /\ UvcOf(uvc.fill, g) /\ (uvc.fill # <<>> \/ uvc.torn \/ uvc.full \/ uvc.big)
    /\ \/ uvcCam.frame = g /\ \A i \in 1 .. Len(uvc.fill) : uvc.fill[i][2] < uvcCam.idx
       \/ uvcCam.frame = g + 1
UvcMarked ==
    uvcCam.frame \in (uvcSeen.bad \cup {1}) \ uvcSeen.ended =>
        uvc.torn /\ (uvc.has_fid => uvc.fid = uvcCam.frame % 2)
UvcPlace ==
    /\ uvc.seen = 0 => UvcBetween
    /\ uvc.seen # 0 => UvcInside(uvcSeen.open)
    /\ UvcMarked

\* What is staged has its room, as what is committed has.
UvcRoom ==
    /\ UvcUsed <= UvcRing
    /\ uvc.fill # <<>> => UvcUsed + UvcLen + Len(uvc.fill) <= UvcRing

UvcInv == UvcTypeOK /\ UvcRecords /\ UvcPlace /\ UvcRoom /\ UvcCountedOnce

UvcSum(ends) == ends.frames + ends.full + ends.torn + ends.big

\* The assembler as it stands in frame g, of packets before idx, for the frames
\* that payload came of and those an error was marked in.
UvcReady(f, ends, g, any, bad, idx) ==
    /\ f \in UvcStates /\ ends \in UvcTallies
    /\ UvcOf(f.fill, g) /\ \A i \in 1 .. Len(f.fill) : f.fill[i][2] < idx
    /\ f.fill # <<>> => UvcUsed + UvcLen + Len(f.fill) <= UvcRing
    /\ g \in (bad \cup {1}) \ uvcSeen.ended => f.torn
    /\ f.seen # 0 <=> g \in any \ uvcSeen.ended
    /\ f.seen = 0 => f.fill = <<>> /\ ~f.full /\ ~f.big
    /\ f.seen # 0 => f.fill # <<>> \/ f.torn \/ f.full \/ f.big
    /\ UvcSum(ends) = Cardinality(any) - (IF f.seen # 0 THEN 1 ELSE 0)
---------------------------------------------------------------------------
\* What has room still has it when less is used,
LEMMA UvcLessRoom ==
    ASSUME NEW u \in Int, NEW v \in Int, NEW r \in Int, NEW a \in Int, NEW b \in Int,
           v <= u, u + a + b <= r
    PROVE  v + a + b <= r
OBVIOUS

\* and room for one more is room for it.
LEMMA UvcOneMoreRoom ==
    ASSUME NEW u \in Int, NEW r \in Int, NEW a \in Int, NEW b \in Int, NEW c \in Int,
           c = b + 1, u + a + b + 1 <= r
    PROVE  u + a + c <= r
OBVIOUS

\* The room that records take is a number,
LEMMA UvcUsedIs ==
    ASSUME NEW ring \in Seq(Seq(UvcPackets))
    PROVE  Len(FlattenSeq(ring)) + UvcLen * Len(ring) \in Nat
<1>1. Len(FlattenSeq(ring)) \in Nat /\ Len(ring) \in Nat /\ UvcLen \in Nat
  BY TotalOfNone, LenProperties, UvcAssumption
<1>2. \A a, b \in Nat : a * b \in Nat
  OBVIOUS
<1>3. PICK a \in Nat : a = UvcLen * Len(ring)
  BY <1>1, <1>2
<1>4. PICK b \in Nat : b = Len(FlattenSeq(ring))
  BY <1>1
<1>5. b + a \in Nat
  OBVIOUS
<1> QED BY <1>3, <1>4, <1>5

\* and so are the constants and where the camera is.
LEMMA UvcNumbers ==
    ASSUME UvcTypeOK
    PROVE  /\ UvcRing \in Nat /\ UvcLen \in Nat /\ UvcUsed \in Nat
           /\ uvcCam.frame \in Nat \ {0} /\ uvcCam.idx \in Nat \ {0} /\ uvcCam.size \in Nat
           /\ uvcCam.idx <= uvcCam.size + 1
<1>1. UvcRing \in Nat /\ UvcLen \in Nat /\ UvcSizes \subseteq Nat
  BY UvcAssumption
<1>2. UvcUsed \in Nat
  BY UvcUsedIs DEF UvcTypeOK, UvcUsed
<1>3. uvcCam.frame \in Nat \ {0} /\ uvcCam.idx \in Nat \ {0} /\ uvcCam.size \in UvcSizes
  BY DEF UvcTypeOK, UvcCams
<1>4. uvcCam.size \in Nat /\ uvcCam.idx <= uvcCam.size + 1
  BY <1>1, <1>3 DEF UvcTypeOK
<1> QED BY <1>1, <1>2, <1>3, <1>4

\* Every frame that ends is counted once, if payload came of it,
LEMMA UvcEndCounts ==
    ASSUME NEW f \in UvcStates, NEW ends \in UvcTallies, f.seen # 0,
           f.fill # <<>> \/ f.torn \/ f.full \/ f.big
    PROVE  UvcEnd(f, ends) \in UvcTallies /\ UvcSum(UvcEnd(f, ends)) = UvcSum(ends) + 1
<1>1. \A w \in {"frames", "full", "torn", "big"} :
          UvcCount(ends, w) \in UvcTallies /\ UvcSum(UvcCount(ends, w)) = UvcSum(ends) + 1
  BY DEF UvcCount, UvcSum, UvcTallies
<1>2. \E w \in {"frames", "full", "torn", "big"} : UvcEnd(f, ends) = UvcCount(ends, w)
  BY DEF UvcEnd
<1> QED BY <1>1, <1>2

\* and is over for the assembler.
LEMMA UvcClearedIs ==
    ASSUME NEW f \in UvcStates, NEW h, h = UvcCleared(f)
    PROVE  /\ h \in UvcStates /\ h.seen = 0 /\ h.fill = <<>> /\ ~h.full /\ ~h.big
           /\ h.has_fid = f.has_fid /\ h.fid = f.fid
<1>1. PICK z \in Nat : z = 0
  OBVIOUS
<1>2. <<>> \in Seq(UvcPackets)
  OBVIOUS
<1>3. h = [f EXCEPT !.fill = <<>>, !.seen = z, !.got = FALSE,
                    !.torn = FALSE, !.full = FALSE, !.big = FALSE]
  BY <1>1 DEF UvcCleared
<1>4. /\ h \in UvcStates /\ h.seen = z /\ h.fill = <<>> /\ ~h.full /\ ~h.big
      /\ h.has_fid = f.has_fid /\ h.fid = f.fid
  BY <1>2, <1>3 DEF UvcStates
<1> QED BY <1>1, <1>4

\* Payload is counted, and staged unless the frame is dropped already, or now.
LEMMA UvcTakenIs ==
    ASSUME NEW f \in UvcStates, NEW packet \in UvcPackets, NEW h, h = UvcTaken(f, packet)
    PROVE  /\ h \in UvcStates /\ h.seen = f.seen + 1 /\ h.got = f.got
           /\ h.has_fid = f.has_fid /\ h.fid = f.fid /\ h.torn = f.torn
           /\ \/ h.fill = f.fill /\ (h.torn \/ h.full \/ h.big)
              \/ /\ h.fill = Append(f.fill, packet) /\ ~h.torn /\ ~h.full /\ ~h.big
                 /\ UvcUsed + UvcLen + Len(f.fill) + 1 <= UvcRing
<1>1. PICK b \in BOOLEAN : b = (f.big \/ (UvcMaxFrame # 0 /\ f.seen + 1 > UvcMaxFrame))
  OBVIOUS
<1>2. f.seen \in Nat
  BY DEF UvcStates
<1>3. PICK y \in Nat : y = f.seen + 1
  BY <1>2
<1>4. PICK k : k = [f EXCEPT !.seen = y, !.big = b]
  OBVIOUS
<1>5. k \in UvcStates /\ k.seen = y /\ k.got = f.got /\ k.fill = f.fill /\ k.big = b
      /\ k.has_fid = f.has_fid /\ k.fid = f.fid /\ k.torn = f.torn /\ k.full = f.full
  BY <1>4 DEF UvcStates
<1>6. k = [f EXCEPT !.seen = @ + 1, !.big = @ \/ (UvcMaxFrame # 0 /\ f.seen + 1 > UvcMaxFrame)]
  BY <1>1, <1>3, <1>4
<1>7. h = IF k.torn \/ k.full \/ k.big THEN k
          ELSE IF UvcStages(k) THEN [k EXCEPT !.fill = Append(@, packet)]
          ELSE [k EXCEPT !.full = TRUE]
  BY <1>6 DEF UvcTaken
<1>8. CASE k.torn \/ k.full \/ k.big
  BY <1>3, <1>5, <1>7, <1>8
<1>9. CASE ~(k.torn \/ k.full \/ k.big) /\ UvcStages(k)
  <2>1. h = [k EXCEPT !.fill = Append(@, packet)]
    BY <1>7, <1>9
  <2>2. Append(k.fill, packet) \in Seq(UvcPackets)
    BY <1>5, AppendProperties DEF UvcStates
  <2>3. h \in UvcStates /\ h.got = k.got /\ h.seen = k.seen /\ h.has_fid = k.has_fid
        /\ h.fid = k.fid /\ h.torn = k.torn /\ h.full = k.full /\ h.big = k.big
        /\ h.fill = Append(k.fill, packet)
    BY <1>5, <2>1, <2>2 DEF UvcStates
  <2> QED BY <1>3, <1>5, <1>9, <2>3 DEF UvcStages
<1>10. CASE ~(k.torn \/ k.full \/ k.big) /\ ~UvcStages(k)
  <2>1. h = [k EXCEPT !.full = TRUE]
    BY <1>7, <1>10
  <2>2. h \in UvcStates /\ h.got = k.got /\ h.seen = k.seen /\ h.has_fid = k.has_fid
        /\ h.fid = k.fid /\ h.torn = k.torn /\ h.full /\ h.fill = k.fill
    BY <1>5, <2>1 DEF UvcStates
  <2> QED BY <1>3, <1>5, <2>2
<1> QED BY <1>8, <1>9, <1>10

\* A packet later than all of a frame's keeps the order.
LEMMA UvcOfAppend ==
    ASSUME NEW s \in Seq(UvcPackets), NEW g \in Nat, NEW n \in Nat, UvcOf(s, g),
           \A i \in 1 .. Len(s) : s[i][2] < n
    PROVE  /\ UvcOf(Append(s, <<g, n>>), g)
           /\ \A i \in 1 .. Len(Append(s, <<g, n>>)) : Append(s, <<g, n>>)[i][2] < n + 1
<1>1. PICK p \in UvcPackets : p = <<g, n>>
  BY DEF UvcPackets
<1>2. PICK t : t = Append(s, p)
  OBVIOUS
<1>3. Len(t) = Len(s) + 1 /\ Len(s) \in Nat
      /\ (\A i \in 1 .. Len(s) : t[i] = s[i]) /\ t[Len(s) + 1] = p
  BY <1>2, AppendProperties, LenProperties
<1>4. \A i \in 1 .. Len(s) : s[i][2] \in Nat
  BY ElementOfSeq DEF UvcPackets
<1>5. p[1] = g /\ p[2] = n
  BY <1>1
<1>6. UvcOf(t, g)
  BY <1>3, <1>5 DEF UvcOf
<1>7. \A i \in 1 .. Len(t) : t[i][2] < n + 1
  <2> SUFFICES ASSUME NEW i \in 1 .. Len(t) PROVE t[i][2] < n + 1
    OBVIOUS
  <2>1. CASE i \in 1 .. Len(s)
    <3>1. PICK m \in Nat : m = s[i][2]
      BY <1>4, <2>1
    <3>2. m < n /\ t[i][2] = m
      BY <1>3, <2>1, <3>1
    <3> QED BY <3>2
  <2>2. CASE i = Len(s) + 1
    BY <1>3, <1>5, <2>2
  <2> QED BY <1>3, <2>1, <2>2
<1> QED BY <1>1, <1>2, <1>6, <1>7

\* A frame that payload comes of is one more, unless it is in already.
LEMMA UvcOneMore ==
    ASSUME UvcTypeOK, NEW g \in Nat
    PROVE  /\ IsFiniteSet(uvcSeen.any \cup {g}) /\ Cardinality(uvcSeen.any) \in Nat
           /\ Cardinality(uvcSeen.any \cup {g})
                  = Cardinality(uvcSeen.any) + (IF g \in uvcSeen.any THEN 0 ELSE 1)
<1>1. IsFiniteSet(uvcSeen.any)
  BY DEF UvcTypeOK
<1> QED BY <1>1, FS_CardinalityType, FS_AddElement

\* A frame that was lost its end is over, and counted, before the next is taken.
LEMMA UvcMakesReady ==
    ASSUME UvcInv, NEW before, NEW ends, NEW g, g = uvcCam.frame,
           before = IF UvcTorn(uvc, g % 2) THEN UvcCleared(uvc) ELSE uvc,
           ends = IF UvcTorn(uvc, g % 2) THEN UvcEnd([uvc EXCEPT !.torn = TRUE], uvcEnds) ELSE uvcEnds
    PROVE  UvcReady(before, ends, g, uvcSeen.any, uvcSeen.bad, uvcCam.idx)
<1>t. uvc \in UvcStates /\ uvcEnds \in UvcTallies /\ uvc.seen \in Nat /\ g \in Nat \ {0}
  BY UvcNumbers DEF UvcInv, UvcTypeOK, UvcStates
<1>s. UvcSum(uvcEnds) = Cardinality(uvcSeen.any) - (IF uvc.seen # 0 THEN 1 ELSE 0)
  BY DEF UvcInv, UvcCountedOnce, UvcSum
<1>n. Cardinality(uvcSeen.any) \in Nat /\ \A a \in uvcSeen.any \cup uvcSeen.bad : a \in 1 .. g
  BY FS_CardinalityType DEF UvcInv, UvcTypeOK
<1>m. g \in (uvcSeen.bad \cup {1}) \ uvcSeen.ended => uvc.torn /\ (uvc.has_fid => uvc.fid = g % 2)
  BY DEF UvcInv, UvcPlace, UvcMarked
<1>r. uvc.fill # <<>> => UvcUsed + UvcLen + Len(uvc.fill) <= UvcRing
  BY DEF UvcInv, UvcRoom
<1>k. PICK k : k = [uvc EXCEPT !.torn = TRUE]
  OBVIOUS
<1>l. k \in UvcStates /\ k.torn /\ k.seen = uvc.seen /\ k.big = uvc.big
  BY <1>t, <1>k DEF UvcStates
<1>1. CASE uvc.seen = 0
  <2>1. uvc.fill = <<>> /\ ~uvc.full /\ ~uvc.big /\ (g \in uvcSeen.any => g \in uvcSeen.ended)
    BY <1>1 DEF UvcInv, UvcPlace, UvcBetween
  <2>2. ends = uvcEnds
    BY <1>1, <1>k, <1>l, <2>1 DEF UvcEnd
  <2>3. before \in UvcStates /\ before.seen = 0 /\ before.fill = <<>> /\ ~before.full /\ ~before.big
    BY <1>1, <1>t, <2>1, UvcClearedIs
  <2>4. g \in (uvcSeen.bad \cup {1}) \ uvcSeen.ended => before.torn
    BY <1>m DEF UvcTorn
  <2>5. UvcOf(before.fill, g) /\ \A i \in 1 .. Len(before.fill) : before.fill[i][2] < uvcCam.idx
    BY <2>3 DEF UvcOf
  <2>6. UvcSum(ends) = Cardinality(uvcSeen.any) - (IF before.seen # 0 THEN 1 ELSE 0)
    BY <1>1, <1>s, <2>2, <2>3
  <2> QED BY <1>t, <2>1, <2>2, <2>3, <2>4, <2>5, <2>6 DEF UvcReady
<1>2. CASE uvc.seen # 0
  <2>h. PICK h : h = uvcSeen.open
    OBVIOUS
  <2>1. UvcInside(h)
    BY <1>2, <2>h DEF UvcInv, UvcPlace
  <2>2. h \in uvcSeen.any \ uvcSeen.ended /\ (\A a \in uvcSeen.any : a <= h) /\ h \in 1 .. g
        /\ uvc.has_fid /\ uvc.got /\ uvc.fid = h % 2 /\ UvcOf(uvc.fill, h)
        /\ (uvc.fill # <<>> \/ uvc.torn \/ uvc.full \/ uvc.big)
    BY <1>n, <2>1 DEF UvcInside
  <2>3. CASE g = h /\ \A i \in 1 .. Len(uvc.fill) : uvc.fill[i][2] < uvcCam.idx
    <3>1. before = uvc /\ ends = uvcEnds
      BY <2>2, <2>3 DEF UvcTorn
    <3> QED BY <1>2, <1>t, <1>s, <1>m, <1>r, <2>2, <2>3, <3>1 DEF UvcReady
  <2>4. CASE g = h + 1
    <3>1. (h + 1) % 2 # h % 2
      BY <2>2
    <3>2. before = UvcCleared(uvc) /\ ends = UvcEnd(k, uvcEnds) /\ uvc.fid # g % 2
      BY <1>k, <2>2, <2>4, <3>1 DEF UvcTorn
    <3>3. before \in UvcStates /\ before.seen = 0 /\ before.fill = <<>> /\ ~before.full /\ ~before.big
      BY <1>t, <3>2, UvcClearedIs
    <3>4. ends \in UvcTallies /\ UvcSum(ends) = UvcSum(uvcEnds) + 1
      BY <1>2, <1>t, <1>l, <3>2, UvcEndCounts
    <3>5. g \notin uvcSeen.any /\ g \notin (uvcSeen.bad \cup {1}) \ uvcSeen.ended
      BY <1>m, <2>2, <2>4, <3>2
    <3>6. UvcSum(ends) = Cardinality(uvcSeen.any)
      BY <1>2, <1>s, <1>n, <3>4
    <3>7. UvcSum(ends) = Cardinality(uvcSeen.any) - (IF before.seen # 0 THEN 1 ELSE 0)
      BY <1>n, <3>3, <3>6
    <3>8. UvcOf(before.fill, g) /\ \A i \in 1 .. Len(before.fill) : before.fill[i][2] < uvcCam.idx
      BY <3>3 DEF UvcOf
    <3> QED BY <3>3, <3>4, <3>5, <3>7, <3>8 DEF UvcReady
  <2> QED BY <2>1, <2>3, <2>4 DEF UvcInside
<1> QED BY <1>1, <1>2

\* Payload goes into the frame, which has not ended yet.
LEMMA UvcTaking ==
    ASSUME UvcTypeOK, NEW f, NEW ends, NEW g \in Nat, NEW idx \in Nat, NEW bad, NEW h,
           UvcReady(f, ends, g, uvcSeen.any, bad, idx), g \notin uvcSeen.ended,
           h = UvcTaken(f, <<g, idx>>)
    PROVE  /\ UvcReady(h, ends, g, uvcSeen.any \cup {g}, bad, idx + 1)
           /\ h.has_fid = f.has_fid /\ h.fid = f.fid /\ h.got = f.got
<1>p. PICK p \in UvcPackets : p = <<g, idx>>
  BY DEF UvcPackets
<1>f. /\ f \in UvcStates /\ ends \in UvcTallies /\ f.seen \in Nat /\ f.fill \in Seq(UvcPackets)
      /\ UvcOf(f.fill, g) /\ (\A i \in 1 .. Len(f.fill) : f.fill[i][2] < idx)
      /\ (f.fill # <<>> => UvcUsed + UvcLen + Len(f.fill) <= UvcRing)
      /\ (g \in (bad \cup {1}) \ uvcSeen.ended => f.torn)
      /\ (f.seen # 0 <=> g \in uvcSeen.any)
      /\ UvcSum(ends) = Cardinality(uvcSeen.any) - (IF f.seen # 0 THEN 1 ELSE 0)
  BY DEF UvcReady, UvcStates
<1>h. /\ h \in UvcStates /\ h.seen = f.seen + 1 /\ h.got = f.got
      /\ h.has_fid = f.has_fid /\ h.fid = f.fid /\ h.torn = f.torn
      /\ \/ h.fill = f.fill /\ (h.torn \/ h.full \/ h.big)
         \/ /\ h.fill = Append(f.fill, p) /\ ~h.torn /\ ~h.full /\ ~h.big
            /\ UvcUsed + UvcLen + Len(f.fill) + 1 <= UvcRing
  <2>1. h = UvcTaken(f, p)
    BY <1>p
  <2> QED BY <1>f, <2>1, UvcTakenIs
<1>n. Len(f.fill) \in Nat /\ Len(Append(f.fill, p)) = Len(f.fill) + 1
      /\ (\A i \in 1 .. Len(f.fill) : f.fill[i][2] \in Nat)
  BY <1>f, AppendProperties, LenProperties, ElementOfSeq DEF UvcPackets
<1>1. h.seen # 0
  BY <1>f, <1>h
<1>2. UvcOf(h.fill, g) /\ \A i \in 1 .. Len(h.fill) : h.fill[i][2] < idx + 1
  <2>1. CASE h.fill = f.fill
    <3>1. \A i \in 1 .. Len(f.fill) : f.fill[i][2] < idx + 1
      BY <1>f, <1>n
    <3> QED BY <1>f, <2>1, <3>1
  <2>2. CASE h.fill = Append(f.fill, p)
    BY <1>f, <1>p, <2>2, UvcOfAppend
  <2> QED BY <1>h, <2>1, <2>2
<1>3. h.fill # <<>> => UvcUsed + UvcLen + Len(h.fill) <= UvcRing
  <2>1. CASE h.fill = f.fill
    BY <1>f, <2>1
  <2>2. CASE h.fill = Append(f.fill, p) /\ UvcUsed + UvcLen + Len(f.fill) + 1 <= UvcRing
    <3>1. UvcUsed \in Int /\ UvcLen \in Int /\ UvcRing \in Int
      BY UvcNumbers
    <3>2. Len(f.fill) \in Int /\ Len(h.fill) \in Int /\ Len(h.fill) = Len(f.fill) + 1
      BY <1>n, <2>2
    <3> QED BY <2>2, <3>1, <3>2, UvcOneMoreRoom
  <2> QED BY <1>h, <2>1, <2>2
<1>4. h.fill # <<>> \/ h.torn \/ h.full \/ h.big
  BY <1>h, <1>p, <1>f, AppendProperties
<1>5. UvcSum(ends) = Cardinality(uvcSeen.any \cup {g}) - (IF h.seen # 0 THEN 1 ELSE 0)
  <2>1. PICK n \in Nat : n = Cardinality(uvcSeen.any)
    BY UvcOneMore
  <2>2. Cardinality(uvcSeen.any \cup {g}) = n + (IF g \in uvcSeen.any THEN 0 ELSE 1)
    BY <2>1, UvcOneMore
  <2>3. UvcSum(ends) = n - (IF g \in uvcSeen.any THEN 1 ELSE 0)
    BY <1>f, <2>1
  <2> QED BY <1>1, <2>2, <2>3
<1> QED BY <1>1, <1>2, <1>3, <1>4, <1>5, <1>f, <1>h DEF UvcReady

\* The camera goes on by a packet, or by a header.
LEMMA UvcSentIs ==
    ASSUME UvcTypeOK, NEW load \in BOOLEAN, NEW end \in BOOLEAN, UvcSent(load, end)
    PROVE  /\ uvcCam' \in UvcCams /\ uvcCam'.frame = uvcCam.frame /\ uvcCam'.size = uvcCam.size
           /\ uvcCam'.idx = (IF load THEN uvcCam.idx + 1 ELSE uvcCam.idx)
           /\ uvcCam'.idx <= uvcCam.size + 1 /\ uvcCam.idx <= uvcCam'.idx
           /\ uvcCam'.over => uvcCam'.idx = uvcCam.size + 1
           /\ uvcCam.over \/ end => uvcCam'.over
<1>1. uvcCam \in UvcCams /\ uvcCam.idx \in Nat \ {0} /\ uvcCam.size \in Nat
      /\ (uvcCam.over => uvcCam.idx = uvcCam.size + 1)
  BY UvcNumbers DEF UvcTypeOK
<1>2. PICK n \in Nat \ {0} : n = IF load THEN uvcCam.idx + 1 ELSE uvcCam.idx
  BY <1>1
<1>3. PICK o \in BOOLEAN : o = (uvcCam.over \/ end)
  OBVIOUS
<1>4. n <= uvcCam.size + 1 /\ (end => n = uvcCam.size + 1)
      /\ uvcCam' = [uvcCam EXCEPT !.idx = n, !.over = o]
  BY <1>2, <1>3 DEF UvcSent
<1>5. uvcCam' \in UvcCams /\ uvcCam'.frame = uvcCam.frame /\ uvcCam'.size = uvcCam.size
      /\ uvcCam'.idx = n /\ uvcCam'.over = o
  BY <1>1, <1>4 DEF UvcCams
<1>6. uvcCam.idx <= n
  BY <1>1, <1>2
<1>7. o => n = uvcCam.size + 1
  BY <1>1, <1>2, <1>3, <1>4
<1> QED BY <1>2, <1>3, <1>4, <1>5, <1>6, <1>7

\* The assembler is inside the frame the camera sends, or inside none of which
\* payload came and no end.
LEMMA UvcOpenIs ==
    ASSUME UvcInv
    PROVE  uvcSeen.open = uvcCam.frame <=> uvcCam.frame \in uvcSeen.any \ uvcSeen.ended
<1>1. uvcCam.frame \in Nat \ {0} /\ \A a \in uvcSeen.any : a \in 1 .. uvcCam.frame
  BY UvcNumbers DEF UvcInv, UvcTypeOK
<1>2. CASE uvc.seen = 0
  BY <1>1, <1>2 DEF UvcInv, UvcPlace, UvcBetween
<1>3. CASE uvc.seen # 0
  <2>1. PICK h : h = uvcSeen.open
    OBVIOUS
  <2>2. h \in uvcSeen.any \ uvcSeen.ended /\ (\A a \in uvcSeen.any : a <= h)
        /\ (uvcCam.frame = h \/ uvcCam.frame = h + 1)
    BY <1>3, <2>1 DEF UvcInv, UvcPlace, UvcInside
  <2>3. h \in Nat /\ ~(h + 1 <= h)
    BY <1>1, <2>2
  <2> QED BY <2>1, <2>2, <2>3
<1> QED BY <1>2, <1>3

\* A record that is whole stays so as the camera goes on.
LEMMA UvcRecordsStay ==
    ASSUME UvcRecords, NEW ended, NEW bad, uvcSeen.ended \subseteq ended,
           bad \cap uvcSeen.ended \subseteq uvcSeen.bad
    PROVE  \A r \in 1 .. Len(uvcRing) : UvcWhole(uvcRing[r], ended, bad)
BY DEF UvcRecords, UvcWhole

\* The room a record takes, with its length before it.
LEMMA UvcUsedAppend ==
    ASSUME NEW ring \in Seq(Seq(UvcPackets)), NEW s \in Seq(UvcPackets)
    PROVE  Len(FlattenSeq(Append(ring, s))) + UvcLen * Len(Append(ring, s))
               = Len(FlattenSeq(ring)) + UvcLen * Len(ring) + UvcLen + Len(s)
<1>1. Len(FlattenSeq(Append(ring, s))) = Len(FlattenSeq(ring)) + Len(s)
  BY TotalOfAppend
<1>2. Len(Append(ring, s)) = Len(ring) + 1 /\ Len(ring) \in Nat /\ Len(s) \in Nat
  BY AppendProperties, LenProperties
<1>3. Len(FlattenSeq(ring)) \in Nat /\ UvcLen \in Nat
  BY TotalOfNone, UvcAssumption
<1>4. \A a, b \in Nat : a * (b + 1) = a * b + a /\ a * b \in Nat
  OBVIOUS
<1>5. UvcLen * (Len(ring) + 1) = UvcLen * Len(ring) + UvcLen /\ UvcLen * Len(ring) \in Nat
  BY <1>2, <1>3, <1>4
<1> QED BY <1>1, <1>2, <1>3, <1>5

\* A record that is read leaves no less room than it found.
LEMMA UvcUsedTail ==
    ASSUME NEW ring \in Seq(Seq(UvcPackets)), ring # <<>>
    PROVE  Len(FlattenSeq(Tail(ring))) + UvcLen * Len(Tail(ring)) <= Len(FlattenSeq(ring)) + UvcLen * Len(ring)
<1>1. Len(FlattenSeq(ring)) = Len(Head(ring)) + Len(FlattenSeq(Tail(ring)))
  BY TotalOfTail
<1>2. Tail(ring) \in Seq(Seq(UvcPackets)) /\ Head(ring) \in Seq(UvcPackets)
      /\ Len(ring) = Len(Tail(ring)) + 1
  BY HeadTailProperties
<1>3. Len(Tail(ring)) \in Nat /\ Len(Head(ring)) \in Nat
  BY <1>2, LenProperties
<1>4. Len(FlattenSeq(Tail(ring))) \in Nat /\ UvcLen \in Nat
  BY <1>2, TotalOfNone, UvcAssumption
<1>5. \A a, b \in Nat : a * (b + 1) = a * b + a /\ a * b \in Nat
  OBVIOUS
<1>6. UvcLen * (Len(Tail(ring)) + 1) = UvcLen * Len(Tail(ring)) + UvcLen
      /\ UvcLen * Len(Tail(ring)) \in Nat
  BY <1>3, <1>4, <1>5
<1> QED BY <1>1, <1>2, <1>3, <1>4, <1>6

\* The packets of a frame that ends go out as a record, or not at all.
LEMMA UvcCommitting ==
    ASSUME UvcInv, NEW h, NEW ends, NEW g, NEW any, NEW bad, NEW idx, NEW ring, NEW ended,
           UvcReady(h, ends, g, any, bad, idx), h.seen = 0 \/ g \notin uvcSeen.ended,
           bad \cap uvcSeen.ended \subseteq uvcSeen.bad, ended = uvcSeen.ended \cup {g},
           ring = UvcCommit(h, uvcRing)
    PROVE  /\ ring \in Seq(Seq(UvcPackets)) /\ \A r \in 1 .. Len(ring) : UvcWhole(ring[r], ended, bad)
           /\ Len(FlattenSeq(ring)) + UvcLen * Len(ring) <= UvcRing
<1>1. uvcRing \in Seq(Seq(UvcPackets)) /\ Len(uvcRing) \in Nat /\ UvcUsed <= UvcRing
  BY LenProperties DEF UvcInv, UvcTypeOK, UvcRoom
<1>2. \A r \in 1 .. Len(uvcRing) : UvcWhole(uvcRing[r], ended, bad)
  BY UvcRecordsStay DEF UvcInv
<1>3. CASE ~UvcCommits(h)
  BY <1>1, <1>2, <1>3 DEF UvcCommit, UvcUsed
<1>4. CASE UvcCommits(h)
  <2>1. ring = Append(uvcRing, h.fill) /\ h.fill # <<>> /\ ~h.torn /\ g \notin uvcSeen.ended
        /\ UvcOf(h.fill, g) /\ UvcUsed + UvcLen + Len(h.fill) <= UvcRing
        /\ g \notin bad \cup {1} /\ h.fill \in Seq(UvcPackets)
    BY <1>4 DEF UvcCommit, UvcCommits, UvcReady, UvcStates
  <2>2. UvcWhole(h.fill, ended, bad)
    BY <2>1 DEF UvcWhole
  <2>3. Len(ring) = Len(uvcRing) + 1 /\ ring \in Seq(Seq(UvcPackets))
        /\ (\A r \in 1 .. Len(uvcRing) : ring[r] = uvcRing[r]) /\ ring[Len(uvcRing) + 1] = h.fill
    BY <1>1, <2>1, AppendProperties
  <2>4. \A r \in 1 .. Len(ring) : UvcWhole(ring[r], ended, bad)
    <3>1. PICK n \in Nat : n = Len(uvcRing)
      BY <1>1
    <3>2. \A r \in 1 .. n + 1 : r \in 1 .. n \/ r = n + 1
      OBVIOUS
    <3> QED BY <1>2, <2>2, <2>3, <3>1, <3>2
  <2>5. Len(FlattenSeq(ring)) + UvcLen * Len(ring) = UvcUsed + UvcLen + Len(h.fill)
    BY <1>1, <2>1, UvcUsedAppend DEF UvcUsed
  <2> QED BY <2>1, <2>3, <2>4, <2>5
<1> QED BY <1>3, <1>4

\* A packet with a good header: into its frame, and the frame out if that ends.
LEMMA UvcPacketing ==
    ASSUME UvcInv, NEW load \in BOOLEAN, NEW end \in BOOLEAN, NEW err \in BOOLEAN,
           UvcPacket(load, end, err)
    PROVE  UvcInv'
<1>g. PICK g \in Nat \ {0} : g = uvcCam.frame
  BY UvcNumbers DEF UvcInv
<1>b. PICK before : before = IF UvcTorn(uvc, g % 2) THEN UvcCleared(uvc) ELSE uvc
  OBVIOUS
<1>e. PICK ends : ends = IF UvcTorn(uvc, g % 2) THEN UvcEnd([uvc EXCEPT !.torn = TRUE], uvcEnds) ELSE uvcEnds
  OBVIOUS
<1>f. PICK f : f = [before EXCEPT !.has_fid = TRUE, !.fid = g % 2, !.got = TRUE, !.torn = @ \/ err]
  OBVIOUS
<1>h. PICK h : h = IF load THEN UvcTaken(f, <<g, uvcCam.idx>>) ELSE f
  OBVIOUS
<1>a. PICK any : any = uvcSeen.any \cup (IF load THEN {g} ELSE {})
  OBVIOUS
<1>d. PICK bad : bad = uvcSeen.bad \cup (IF err THEN {g} \ uvcSeen.ended ELSE {})
  OBVIOUS
<1>z. PICK ended : ended = uvcSeen.ended \cup (IF end THEN {g} ELSE {})
  OBVIOUS
<1>o. PICK open \in Nat : open = IF ~end /\ (load \/ uvcSeen.open = g) THEN g ELSE 0
  OBVIOUS
<1>1. /\ UvcSent(load, end)
      /\ uvc' = IF end THEN UvcCleared(h) ELSE h
      /\ uvcEnds' = IF end THEN UvcEnd(h, ends) ELSE ends
      /\ uvcRing' = IF end THEN UvcCommit(h, uvcRing) ELSE uvcRing
      /\ uvcSeen' = [any |-> any, bad |-> bad, ended |-> ended, open |-> open]
  BY <1>g, <1>b, <1>e, <1>f, <1>h, <1>a, <1>d, <1>z, <1>o DEF UvcPacket, UvcHears
<1>s. uvcSeen'.any = any /\ uvcSeen'.bad = bad /\ uvcSeen'.ended = ended /\ uvcSeen'.open = open
  BY <1>1
<1>c. /\ uvcCam' \in UvcCams /\ uvcCam'.frame = g /\ uvcCam'.size = uvcCam.size
      /\ uvcCam'.idx = (IF load THEN uvcCam.idx + 1 ELSE uvcCam.idx)
      /\ uvcCam'.idx <= uvcCam.size + 1 /\ uvcCam.idx <= uvcCam'.idx
      /\ uvcCam'.over => uvcCam'.idx = uvcCam.size + 1
      /\ uvcCam.over \/ end => uvcCam'.over
  BY <1>g, <1>1, UvcSentIs DEF UvcInv
<1>t. /\ uvcSeen \in UvcHistories /\ \A a \in uvcSeen.any \cup uvcSeen.bad \cup uvcSeen.ended : a \in 1 .. g
      /\ g \in uvcSeen.ended => uvcCam.over
  BY <1>g DEF UvcInv, UvcTypeOK
<1>l. load => g \notin uvcSeen.ended
  <2>1. uvcCam.idx \in Nat /\ uvcCam.size \in Nat /\ (uvcCam.over => uvcCam.idx = uvcCam.size + 1)
    BY UvcNumbers DEF UvcInv, UvcTypeOK
  <2> QED BY <1>c, <1>t, <2>1
<1>2. UvcReady(before, ends, g, uvcSeen.any, uvcSeen.bad, uvcCam.idx)
  BY <1>g, <1>b, <1>e, UvcMakesReady
<1>3. UvcReady(f, ends, g, uvcSeen.any, bad, uvcCam.idx) /\ f.has_fid /\ f.fid = g % 2 /\ f.got
  <2>1. PICK p \in 0 .. 1 : p = g % 2
    BY <1>g
  <2>2. PICK t \in BOOLEAN : t = (before.torn \/ err)
    OBVIOUS
  <2>3. before \in UvcStates /\ f = [before EXCEPT !.has_fid = TRUE, !.fid = p, !.got = TRUE, !.torn = t]
    BY <1>2, <1>f, <2>1, <2>2 DEF UvcReady
  <2>4. /\ f \in UvcStates /\ f.has_fid /\ f.fid = p /\ f.got /\ f.torn = t
        /\ f.seen = before.seen /\ f.fill = before.fill /\ f.full = before.full /\ f.big = before.big
    BY <2>3 DEF UvcStates
  <2>5. g \in (bad \cup {1}) \ uvcSeen.ended => f.torn
    BY <1>2, <1>d, <2>2, <2>4 DEF UvcReady
  <2>6. UvcReady(f, ends, g, uvcSeen.any, bad, uvcCam.idx)
    BY <1>2, <2>2, <2>4, <2>5 DEF UvcReady
  <2> QED BY <2>1, <2>4, <2>6
<1>4. UvcReady(h, ends, g, any, bad, uvcCam'.idx) /\ h.has_fid /\ h.fid = g % 2 /\ h.got
  <2>1. CASE load
    <3>1. h = UvcTaken(f, <<g, uvcCam.idx>>) /\ any = uvcSeen.any \cup {g} /\ uvcCam'.idx = uvcCam.idx + 1
      BY <1>h, <1>a, <1>c, <2>1
    <3>2. PICK n \in Nat : n = uvcCam.idx
      BY UvcNumbers DEF UvcInv
    <3>3. h = UvcTaken(f, <<g, n>>) /\ UvcReady(f, ends, g, uvcSeen.any, bad, n) /\ g \notin uvcSeen.ended
      BY <1>3, <1>l, <2>1, <3>1, <3>2
    <3>4. /\ UvcReady(h, ends, g, uvcSeen.any \cup {g}, bad, n + 1)
          /\ h.has_fid = f.has_fid /\ h.fid = f.fid /\ h.got = f.got
      BY <3>3, UvcTaking DEF UvcInv
    <3> QED BY <1>3, <3>1, <3>2, <3>4
  <2>2. CASE ~load
    <3>1. h = f /\ any = uvcSeen.any /\ uvcCam'.idx = uvcCam.idx
      BY <1>h, <1>a, <1>c, <2>2
    <3> QED BY <1>3, <3>1
  <2> QED BY <2>1, <2>2
<1>5. /\ h \in UvcStates /\ ends \in UvcTallies
      /\ UvcOf(h.fill, g) /\ (\A i \in 1 .. Len(h.fill) : h.fill[i][2] < uvcCam'.idx)
      /\ (h.fill # <<>> => UvcUsed + UvcLen + Len(h.fill) <= UvcRing)
      /\ (g \in (bad \cup {1}) \ uvcSeen.ended => h.torn)
      /\ (h.seen # 0 <=> g \in any \ uvcSeen.ended)
      /\ (h.seen = 0 => h.fill = <<>> /\ ~h.full /\ ~h.big)
      /\ (h.seen # 0 => h.fill # <<>> \/ h.torn \/ h.full \/ h.big)
      /\ UvcSum(ends) = Cardinality(any) - (IF h.seen # 0 THEN 1 ELSE 0)
  BY <1>4, Zenon DEF UvcReady
<1>6. /\ uvcSeen' \in UvcHistories /\ IsFiniteSet(uvcSeen'.any) /\ Cardinality(any) \in Nat
      /\ \A a \in any \cup bad \cup ended : a \in 1 .. g
      /\ g \in ended => uvcCam'.over
  <2>1. IsFiniteSet(uvcSeen.any) /\ IsFiniteSet(uvcSeen.any \cup {g})
    BY UvcOneMore DEF UvcInv, UvcTypeOK
  <2>2. any = uvcSeen.any \/ any = uvcSeen.any \cup {g}
    BY <1>a
  <2>3. any \in SUBSET Nat /\ bad \in SUBSET Nat /\ ended \in SUBSET Nat
    BY <1>a, <1>d, <1>z, <1>t DEF UvcHistories
  <2>4. \A a \in any \cup bad \cup ended : a \in 1 .. g
    BY <1>g, <1>a, <1>d, <1>z, <1>t
  <2>5. g \in ended => uvcCam'.over
    BY <1>z, <1>t, <1>c
  <2> QED BY <1>1, <1>s, <2>1, <2>2, <2>3, <2>4, <2>5, FS_CardinalityType DEF UvcHistories
<1>7. bad \cap uvcSeen.ended \subseteq uvcSeen.bad /\ uvcSeen.ended \subseteq ended
  BY <1>d, <1>z
<1>8. ASSUME ~end PROVE UvcInv'
  <2>1. uvc' = h /\ uvcEnds' = ends /\ uvcRing' = uvcRing /\ ended = uvcSeen.ended
        /\ open = IF load \/ uvcSeen.open = g THEN g ELSE 0
    BY <1>1, <1>o, <1>z, <1>8
  <2>2. UvcTypeOK'
    BY <1>5, <1>6, <1>c, <1>s, <2>1 DEF UvcInv, UvcTypeOK
  <2>3. UvcRecords'
    BY <1>7, <1>s, <2>1, UvcRecordsStay DEF UvcInv, UvcRecords
  <2>4. h.seen # 0 <=> open = g
    BY <1>5, <1>a, <1>g, <1>l, <2>1, UvcOpenIs
  <2>5. h.seen = 0 => UvcBetween'
    BY <1>5, <1>c, <1>s, <2>1, <2>4 DEF UvcBetween
  <2>6. h.seen # 0 => UvcInside(uvcSeen.open)'
    <3>1. \A a \in any : a <= g
      BY <1>6
    <3> QED BY <1>4, <1>5, <1>c, <1>s, <2>1, <2>4, <3>1 DEF UvcInside
  <2>7. UvcMarked'
    BY <1>4, <1>5, <1>c, <1>s, <2>1 DEF UvcMarked
  <2>8. UvcRoom'
    BY <1>5, <2>1 DEF UvcInv, UvcRoom, UvcUsed
  <2>9. UvcCountedOnce'
    BY <1>5, <1>s, <2>1 DEF UvcCountedOnce, UvcSum
  <2> QED BY <2>1, <2>2, <2>3, <2>5, <2>6, <2>7, <2>8, <2>9 DEF UvcInv, UvcPlace
<1>9. ASSUME end PROVE UvcInv'
  <2>1. uvc' = UvcCleared(h) /\ uvcEnds' = UvcEnd(h, ends) /\ uvcRing' = UvcCommit(h, uvcRing)
        /\ ended = uvcSeen.ended \cup {g} /\ open = 0
    BY <1>1, <1>o, <1>z, <1>9
  <2>2. uvc' \in UvcStates /\ uvc'.seen = 0 /\ uvc'.fill = <<>> /\ ~uvc'.full /\ ~uvc'.big
    BY <1>5, <2>1, UvcClearedIs
  <2>3. uvcEnds' \in UvcTallies /\ UvcSum(uvcEnds') = Cardinality(any)
    <3>1. CASE h.seen = 0
      <4>1. uvcEnds' = ends
        BY <1>5, <2>1, <3>1 DEF UvcEnd
      <4> QED BY <1>5, <1>6, <3>1, <4>1
    <3>2. CASE h.seen # 0
      <4>1. uvcEnds' \in UvcTallies /\ UvcSum(uvcEnds') = UvcSum(ends) + 1
        BY <1>5, <2>1, <3>2, UvcEndCounts
      <4> QED BY <1>5, <1>6, <3>2, <4>1
    <3> QED BY <3>1, <3>2
  <2>4. /\ uvcRing' \in Seq(Seq(UvcPackets)) /\ UvcUsed' <= UvcRing
        /\ \A r \in 1 .. Len(uvcRing') : UvcWhole(uvcRing'[r], ended, bad)
    BY <1>4, <1>5, <1>7, <2>1, UvcCommitting DEF UvcUsed
  <2>5. UvcTypeOK'
    BY <1>6, <1>c, <1>s, <2>2, <2>3, <2>4 DEF UvcTypeOK
  <2>6. UvcRecords'
    BY <1>s, <2>4 DEF UvcRecords
  <2>7. UvcBetween' /\ UvcMarked'
    BY <1>c, <1>s, <2>1, <2>2 DEF UvcBetween, UvcMarked
  <2>8. UvcRoom'
    BY <2>2, <2>4 DEF UvcRoom
  <2>9. UvcCountedOnce'
    BY <1>6, <1>s, <2>2, <2>3 DEF UvcCountedOnce, UvcSum
  <2> QED BY <2>2, <2>5, <2>6, <2>7, <2>8, <2>9 DEF UvcInv, UvcPlace
<1> QED BY <1>8, <1>9

\* A packet that does not arrive, or not whole: the camera goes on alone.
LEMMA UvcLosing ==
    ASSUME UvcInv, NEW load \in BOOLEAN, NEW end \in BOOLEAN, UvcSent(load, end),
           UNCHANGED <<uvcRing, uvcSeen, uvcEnds>>,
           uvc' = uvc \/ uvc' = [uvc EXCEPT !.torn = TRUE]
    PROVE  UvcInv'
<1>1. /\ uvcCam' \in UvcCams /\ uvcCam'.frame = uvcCam.frame /\ uvcCam'.size = uvcCam.size
      /\ uvcCam'.idx <= uvcCam.size + 1 /\ uvcCam.idx <= uvcCam'.idx
      /\ uvcCam'.over => uvcCam'.idx = uvcCam.size + 1
      /\ uvcCam.over => uvcCam'.over
  BY UvcSentIs DEF UvcInv
<1>2. /\ uvc' \in UvcStates /\ uvc'.seen = uvc.seen /\ uvc'.got = uvc.got /\ uvc'.fill = uvc.fill
      /\ uvc'.has_fid = uvc.has_fid /\ uvc'.fid = uvc.fid /\ (uvc.torn => uvc'.torn)
      /\ uvc'.full = uvc.full /\ uvc'.big = uvc.big
  <2>1. uvc \in UvcStates
    BY DEF UvcInv, UvcTypeOK
  <2>2. CASE uvc' = uvc
    BY <2>1, <2>2
  <2>3. CASE uvc' = [uvc EXCEPT !.torn = TRUE]
    <3>1. PICK k : k = [uvc EXCEPT !.torn = TRUE]
      OBVIOUS
    <3>2. /\ k \in UvcStates /\ k.seen = uvc.seen /\ k.got = uvc.got /\ k.fill = uvc.fill
          /\ k.has_fid = uvc.has_fid /\ k.fid = uvc.fid /\ k.torn
          /\ k.full = uvc.full /\ k.big = uvc.big
      BY <2>1, <3>1 DEF UvcStates
    <3> QED BY <3>1, <3>2, <2>3
  <2> QED BY <2>2, <2>3
<1>3. UvcTypeOK'
  BY <1>1, <1>2 DEF UvcInv, UvcTypeOK
<1>4. UvcRecords' /\ UvcRoom' /\ UvcCountedOnce'
  BY <1>2 DEF UvcInv, UvcRecords, UvcRoom, UvcUsed, UvcCountedOnce
<1>5. uvc.seen = 0 => UvcBetween'
  BY <1>1, <1>2 DEF UvcInv, UvcPlace, UvcBetween
<1>6. uvc.seen # 0 => UvcInside(uvcSeen.open)'
  <2> SUFFICES ASSUME uvc.seen # 0 PROVE UvcInside(uvcSeen.open)'
    OBVIOUS
  <2>1. PICK h : h = uvcSeen.open
    OBVIOUS
  <2>2. UvcInside(h)
    BY <2>1 DEF UvcInv, UvcPlace
  <2>3. \/ uvcCam.frame = h /\ \A i \in 1 .. Len(uvc.fill) : uvc.fill[i][2] < uvcCam'.idx
        \/ uvcCam.frame = h + 1
    <3>1. \A i \in 1 .. Len(uvc.fill) : uvc.fill[i][2] \in Nat
      BY ElementOfSeq DEF UvcInv, UvcTypeOK, UvcStates, UvcPackets
    <3>2. uvcCam.idx \in Nat /\ uvcCam'.idx \in Nat
      BY <1>1, UvcNumbers DEF UvcInv, UvcCams
    <3> QED BY <1>1, <2>2, <3>1, <3>2 DEF UvcInside
  <2> QED BY <1>1, <1>2, <2>1, <2>2, <2>3 DEF UvcInside
<1>7. UvcMarked'
  BY <1>1, <1>2 DEF UvcInv, UvcPlace, UvcMarked
<1> QED BY <1>2, <1>3, <1>4, <1>5, <1>6, <1>7 DEF UvcInv, UvcPlace

\* The next frame begins, with the assembler inside none or inside the last.
LEMMA UvcTurning ==
    ASSUME UvcInv, UvcTurns
    PROVE  UvcInv'
<1>1. PICK n \in UvcSizes :
          uvcCam' = [frame |-> uvcCam.frame + 1, size |-> n, idx |-> 1, over |-> FALSE]
  BY DEF UvcTurns
<1>2. uvcSeen.open \in {0, uvcCam.frame} /\ UNCHANGED <<uvc, uvcRing, uvcSeen, uvcEnds>>
  BY DEF UvcTurns
<1>n. uvcCam.frame \in Nat \ {0} /\ n \in Nat \ {0}
  BY UvcNumbers, UvcAssumption DEF UvcInv
<1>3. uvcCam' \in UvcCams /\ uvcCam'.frame = uvcCam.frame + 1 /\ uvcCam'.idx = 1
      /\ uvcCam'.size = n /\ ~uvcCam'.over
  <2>1. PICK f \in Nat \ {0} : f = uvcCam.frame + 1
    BY <1>n
  <2>2. uvcCam' = [frame |-> f, size |-> n, idx |-> 1, over |-> FALSE]
    BY <1>1, <2>1
  <2> QED BY <2>1, <2>2 DEF UvcCams
<1>4. \A a \in uvcSeen.any \cup uvcSeen.bad : a \in 1 .. uvcCam.frame
  BY DEF UvcInv, UvcTypeOK
<1>e. \A a \in uvcSeen.ended : a \in 1 .. uvcCam.frame
  BY DEF UvcInv, UvcTypeOK
<1>5. uvcCam'.frame \notin uvcSeen.any \cup uvcSeen.bad \cup uvcSeen.ended \cup {1}
  BY <1>n, <1>3, <1>4, <1>e
<1>6. UvcTypeOK'
  <2>1. \A a \in uvcSeen.any \cup uvcSeen.bad \cup uvcSeen.ended : a \in 1 .. uvcCam'.frame
    BY <1>n, <1>3, <1>4, <1>e
  <2>2. uvcCam'.idx <= uvcCam'.size + 1
    BY <1>n, <1>3
  <2> QED BY <1>2, <1>3, <1>5, <2>1, <2>2 DEF UvcInv, UvcTypeOK
<1>7. UvcRecords' /\ UvcRoom' /\ UvcCountedOnce'
  BY <1>2 DEF UvcInv, UvcRecords, UvcRoom, UvcUsed, UvcCountedOnce
<1>8. uvc.seen = 0 => UvcBetween'
  BY <1>2, <1>5 DEF UvcInv, UvcPlace, UvcBetween
<1>9. uvc.seen # 0 => UvcInside(uvcSeen.open)'
  <2> SUFFICES ASSUME uvc.seen # 0 PROVE UvcInside(uvcSeen.open)'
    OBVIOUS
  <2>1. PICK h : h = uvcSeen.open
    OBVIOUS
  <2>2. UvcInside(h)
    BY <2>1 DEF UvcInv, UvcPlace
  <2>3. h = uvcCam.frame
    BY <1>2, <1>4, <2>1, <2>2 DEF UvcInside
  <2> QED BY <1>2, <1>3, <2>1, <2>2, <2>3 DEF UvcInside
<1>10. UvcMarked'
  BY <1>2, <1>5 DEF UvcMarked
<1> QED BY <1>2, <1>6, <1>7, <1>8, <1>9, <1>10 DEF UvcInv, UvcPlace

\* A record is read.
LEMMA UvcReading ==
    ASSUME UvcInv, UvcRead
    PROVE  UvcInv'
<1>1. uvcRing # <<>> /\ uvcRing' = Tail(uvcRing) /\ UNCHANGED <<uvc, uvcCam, uvcSeen, uvcEnds>>
  BY DEF UvcRead
<1>2. uvcRing \in Seq(Seq(UvcPackets))
  BY DEF UvcInv, UvcTypeOK
<1>3. uvcRing' \in Seq(Seq(UvcPackets)) /\ Len(uvcRing') + 1 = Len(uvcRing)
      /\ \A i \in 1 .. Len(uvcRing') : uvcRing'[i] = uvcRing[i + 1]
  BY <1>1, <1>2, HeadTailProperties
<1>4. UvcTypeOK'
  BY <1>1, <1>3 DEF UvcInv, UvcTypeOK
<1>5. UvcRecords'
  <2>1. Len(uvcRing') \in Nat
    BY <1>3, LenProperties
  <2>2. \A r \in 1 .. Len(uvcRing') : r + 1 \in 1 .. Len(uvcRing)
    BY <1>3, <2>1
  <2> QED BY <1>1, <1>3, <2>2 DEF UvcInv, UvcRecords
<1>6. UvcPlace'
  BY <1>1 DEF UvcInv, UvcPlace, UvcBetween, UvcInside, UvcMarked
<1>7. UvcRoom'
  <2>1. PICK u \in Nat : u = UvcUsed
    BY UvcNumbers DEF UvcInv
  <2>2. PICK v \in Nat : v = UvcUsed'
    BY <1>3, UvcUsedIs DEF UvcUsed
  <2>3. v <= u
    BY <1>1, <1>2, <2>1, <2>2, UvcUsedTail DEF UvcUsed
  <2>4. u <= UvcRing /\ (uvc.fill # <<>> => u + UvcLen + Len(uvc.fill) <= UvcRing)
    BY <2>1 DEF UvcInv, UvcRoom
  <2>5. UvcLen \in Int /\ UvcRing \in Int /\ Len(uvc.fill) \in Int
    <3>1. Len(uvc.fill) \in Nat
      BY LenProperties DEF UvcInv, UvcTypeOK, UvcStates
    <3> QED BY <3>1, UvcNumbers DEF UvcInv
  <2>6. ASSUME uvc.fill # <<>> PROVE v + UvcLen + Len(uvc.fill) <= UvcRing
    <3>1. u + UvcLen + Len(uvc.fill) <= UvcRing /\ u \in Int /\ v \in Int
      BY <2>4, <2>6
    <3> QED BY <2>3, <2>5, <3>1, UvcLessRoom
  <2>7. v <= UvcRing
    BY <2>3, <2>4, <2>5
  <2> QED BY <1>1, <2>2, <2>6, <2>7 DEF UvcRoom
<1>8. UvcCountedOnce'
  BY <1>1 DEF UvcInv, UvcCountedOnce
<1> QED BY <1>4, <1>5, <1>6, <1>7, <1>8 DEF UvcInv

\* The assembler and its ring at their start,
LEMMA UvcInitInv == UvcInit => UvcInv
<1> SUFFICES ASSUME UvcInit PROVE UvcInv
  OBVIOUS
<1>0. <<>> \in Seq(UvcPackets) /\ <<>> \in Seq(Seq(UvcPackets)) /\ Len(<<>>) = 0
  OBVIOUS
<1>1. uvc = UvcStart /\ uvcRing = <<>> /\ uvcSeen = [any |-> {}, bad |-> {}, ended |-> {}, open |-> 0]
      /\ uvcEnds = [frames |-> 0, full |-> 0, torn |-> 0, big |-> 0]
  BY DEF UvcInit
<1>2. PICK n \in UvcSizes :
          uvcCam \in [frame : {1}, size : {n}, idx : 1 .. n + 1, over : {FALSE}]
  BY DEF UvcInit
<1>3. n \in Nat /\ UvcRing \in Nat /\ UvcLen \in Nat
  BY UvcAssumption
<1>4. uvc \in UvcStates /\ uvc.seen = 0 /\ uvc.fill = <<>> /\ uvc.torn /\ ~uvc.has_fid
      /\ ~uvc.full /\ ~uvc.big
  BY <1>0, <1>1 DEF UvcStart, UvcStates
<1>5. uvcCam \in UvcCams /\ uvcCam.idx <= uvcCam.size + 1 /\ ~uvcCam.over /\ uvcCam.frame = 1
  <2>1. PICK i \in 1 .. n + 1 : uvcCam = [frame |-> 1, size |-> n, idx |-> i, over |-> FALSE]
    BY <1>2
  <2>2. i \in Nat \ {0} /\ i <= n + 1 /\ 1 \in Nat \ {0}
    BY <1>3
  <2>3. uvcCam \in UvcCams
    BY <2>1, <2>2 DEF UvcCams
  <2> QED BY <2>1, <2>2, <2>3
<1>s. uvcSeen \in UvcHistories /\ uvcSeen.any = {} /\ uvcSeen.bad = {} /\ uvcSeen.ended = {}
      /\ uvcSeen.open = 0
  BY <1>1 DEF UvcHistories
<1>6. UvcTypeOK
  BY <1>0, <1>1, <1>4, <1>5, <1>s, FS_EmptySet DEF UvcTypeOK, UvcTallies
<1>7. UvcRecords /\ UvcPlace
  BY <1>0, <1>1, <1>4, <1>s DEF UvcRecords, UvcPlace, UvcBetween, UvcMarked
<1>8. UvcRoom
  <2>1. Len(FlattenSeq(uvcRing)) = 0 /\ Len(uvcRing) = 0
    BY <1>0, <1>1, TotalOfNone
  <2>2. UvcUsed = 0
    BY <2>1, <1>3 DEF UvcUsed
  <2> QED BY <2>2, <1>3, <1>4 DEF UvcRoom
<1>9. UvcCountedOnce
  BY <1>1, <1>4, FS_EmptySet DEF UvcCountedOnce
<1> QED BY <1>6, <1>7, <1>8, <1>9 DEF UvcInv

\* and after every step;
LEMMA UvcNextInv == ASSUME UvcInv, [UvcNext]_uvcVars PROVE UvcInv'
<1>1. ASSUME NEW load \in BOOLEAN, NEW end \in BOOLEAN, NEW err \in BOOLEAN,
             UvcPacket(load, end, err)
      PROVE  UvcInv'
  BY <1>1, UvcPacketing
<1>2. ASSUME NEW load \in BOOLEAN, NEW end \in BOOLEAN, UvcBadHeader(load, end) PROVE UvcInv'
  BY <1>2, UvcLosing DEF UvcBadHeader
<1>3. ASSUME NEW load \in BOOLEAN, NEW end \in BOOLEAN, UvcLost(load, end) PROVE UvcInv'
  BY <1>3, UvcLosing DEF UvcLost
<1>4. ASSUME UvcTurns PROVE UvcInv'
  BY <1>4, UvcTurning
<1>5. ASSUME UvcRead PROVE UvcInv'
  BY <1>5, UvcReading
<1>6. ASSUME UNCHANGED uvcVars PROVE UvcInv'
  BY <1>6 DEF uvcVars, UvcInv, UvcTypeOK, UvcRecords, UvcPlace, UvcBetween, UvcInside, UvcMarked,
              UvcRoom, UvcUsed, UvcCountedOnce
<1> QED BY <1>1, <1>2, <1>3, <1>4, <1>5, <1>6 DEF UvcNext

\* and what the invariant says of the records.
LEMMA UvcInvSafe == ASSUME UvcInv PROVE UvcSafe
<1>1. uvcRing \in Seq(Seq(UvcPackets))
  BY DEF UvcInv, UvcTypeOK
<1>2. DOMAIN uvcRing = 1 .. Len(uvcRing) /\ \A r \in 1 .. Len(uvcRing) :
          uvcRing[r] \in Seq(UvcPackets) /\ DOMAIN uvcRing[r] = 1 .. Len(uvcRing[r])
  BY <1>1, ElementOfSeq, LenProperties
<1>3. \A r \in 1 .. Len(uvcRing) : UvcWhole(uvcRing[r], uvcSeen.ended, uvcSeen.bad)
  BY DEF UvcInv, UvcRecords
<1>4. UvcOneFrame
  <2> SUFFICES ASSUME NEW r \in 1 .. Len(uvcRing), NEW i \in 1 .. Len(uvcRing[r]),
                      NEW j \in 1 .. Len(uvcRing[r])
               PROVE  /\ uvcRing[r][i][1] = uvcRing[r][j][1]
                      /\ i < j => uvcRing[r][i][2] < uvcRing[r][j][2]
    BY <1>2 DEF UvcOneFrame
  <2>1. PICK g : UvcOf(uvcRing[r], g)
    BY <1>3 DEF UvcWhole
  <2> QED BY <2>1 DEF UvcOf
<1>5. UvcNeverTorn
  <2> SUFFICES ASSUME NEW r \in 1 .. Len(uvcRing)
               PROVE  Head(uvcRing[r])[1] \in uvcSeen.ended \ (uvcSeen.bad \cup {1})
    BY <1>2 DEF UvcNeverTorn
  <2>1. PICK s \in Seq(UvcPackets) : s = uvcRing[r]
    BY <1>2
  <2>2. s # <<>>
    BY <1>3, <2>1 DEF UvcWhole
  <2>3. PICK g \in uvcSeen.ended : UvcOf(s, g) /\ g \notin uvcSeen.bad /\ g # 1
    BY <1>3, <2>1 DEF UvcWhole
  <2>4. Head(s) = s[1] /\ 1 \in 1 .. Len(s)
    BY <2>2, EmptySeq, LenProperties
  <2>5. s[1][1] = g
    BY <2>3, <2>4 DEF UvcOf
  <2> QED BY <2>1, <2>3, <2>4, <2>5
<1>6. UvcFits /\ UvcCountedOnce
  BY DEF UvcInv, UvcRoom, UvcFits
<1> QED BY <1>4, <1>5, <1>6 DEF UvcSafe

\* Whatever the camera sends, with payload and without, the bus loses, the ring
\* holds and the program reads, a record is of one frame whose end was heard and
\* no error in it, and fits, and every frame of which payload came is counted
\* once. (usbhost_uvc_frame.h)
THEOREM UvcFramesAreWhole == UvcSpec => []UvcSafe
<1>1. UvcInit => UvcInv
  BY UvcInitInv
<1>2. UvcInv /\ [UvcNext]_uvcVars => UvcInv'
  BY UvcNextInv
<1>3. UvcInv => UvcSafe
  BY UvcInvSafe
<1> QED BY <1>1, <1>2, <1>3, PTL DEF UvcSpec

-----------------------------------------------------------------------------
(***************************************************************************)
(* WASAPI, for any buffer, period, block and cushion. Inductive is the line*)
(* in which a speaker's queue stands behind its silence, and the line from *)
(* what was heard over the fifo to the packets at the device.              *)
(***************************************************************************)
WsTypeOK ==
    /\ wsKind \in {"speaker", "mic", "ring"} /\ wsObj \in {"none", "live", "joins", "freed"}
    /\ wsOpen \in {"untried", "open", "failed"} /\ wsRun \in BOOLEAN
    /\ wsBlock \in [len : Nat, done : Nat, first : BOOLEAN, padding : Nat]
    /\ wsHeard \in [last : Nat, count : Nat]
    /\ wsNext \in Nat /\ wsDropped \in Nat /\ wsLost \in Nat
    /\ wsFifo \in Seq(Nat)

\* Who uses the stream, and when there is nothing in hand or queued.
WsUsed ==
    /\ wsAt \in {"none", "idle"} => wsBlock = WsNoBlock
    /\ wsAt \notin {"none", "idle"} => wsOpen = "open"
    /\ wsOpen = "untried" => wsQueue = <<>>
    /\ wsObj = "none" => wsAt = "none" /\ wsFifo = <<>>
    /\ wsObj = "joins" /\ wsKind # "ring" => wsAt = "idle"
    /\ wsObj = "freed" => wsAt = "none"

\* Frames rise up to top, silence apart, and there is none behind frame n.
WsLine(s, top) ==
    /\ \A i \in 1 .. Len(s) : s[i] <= top
    /\ \A i, j \in 1 .. Len(s) :
         i < j /\ s[i] # WsSilence /\ s[j] # WsSilence => s[i] < s[j]
WsNoGap(s, n) ==
    \A i \in 1 .. Len(s) : s[i] = WsSilence => \E j \in i + 1 .. Len(s) : s[j] = n

\* A speaker's queue holds what is copied, of a block without a gap.
WsSpeaker ==
    /\ wsQueue \in Seq(Nat) /\ wsAt \in {"none", "idle", "looks", "copies", "waits"}
    /\ wsAt \in {"looks", "copies", "waits"} => wsBlock.done < wsBlock.len
    /\ wsAt = "copies" =>
         ~wsBlock.first /\ wsBlock.padding < WsBuffer /\ Len(wsQueue) <= wsBlock.padding
    /\ wsBlock.first => wsBlock.done = 0
    /\ Len(wsQueue) <= WsBuffer
    /\ WsLine(wsQueue, wsNext + wsBlock.done)
    /\ wsBlock.done > 0 => WsNoGap(wsQueue, wsNext + 1)

\* A sequence rises from above low to high at most; another follows it.
WsRises(s, low, high) ==
    /\ \A i \in 1 .. Len(s) : low < s[i] /\ s[i] <= high
    /\ \A i, j \in 1 .. Len(s) : i < j => s[i] < s[j]
WsFollows(s, t) == \A i \in 1 .. Len(s) : \A k \in 1 .. Len(t) : s[i] < t[k]

\* A microphone's packets rise, each and one after the other, and follow the
\* fifo, which follows what was heard;
WsInLine(queue, fifo, last, next) ==
    /\ last <= next /\ WsRises(fifo, last, next)
    /\ \A p \in 1 .. Len(queue) : WsRises(queue[p], last, next) /\ WsFollows(fifo, queue[p])
    /\ \A p \in 1 .. Len(queue) : \A q \in 1 .. p - 1 : WsFollows(queue[q], queue[p])

\* and nothing is lost count of.
WsMicrophone ==
    /\ wsQueue \in Seq(Seq(Nat)) /\ wsAt \in {"none", "idle", "drains", "trims", "waits"}
    /\ WsInLine(wsQueue, wsFifo, wsHeard.last, wsNext)
    /\ Len(wsFifo) <= WsFifoCap
    /\ wsAt = "idle" /\ WsKeep > 0 => Len(wsFifo) <= WsKeep
    /\ wsObj # "freed" =>
         wsNext = wsHeard.count + Len(wsFifo) + Len(FlattenSeq(wsQueue)) + wsDropped + wsLost

WsSpeakerInv == WsTypeOK /\ WsUsed /\ wsKind = "speaker" /\ WsSpeaker
WsMicrophoneInv == WsTypeOK /\ WsUsed /\ wsKind # "speaker" /\ WsMicrophone
WsInv == WsSpeakerInv \/ WsMicrophoneInv
---------------------------------------------------------------------------
\* The lesser of two, and what is left of a difference that may be none.
LEMMA WsMinOf ==
    ASSUME NEW a \in Nat, NEW b \in Nat
    PROVE  /\ Min({a, b}) \in Nat /\ Min({a, b}) <= a /\ Min({a, b}) <= b
           /\ Min({a, b}) = a \/ Min({a, b}) = b
<1>1. \E x \in {a, b} : \A y \in {a, b} : x <= y
  OBVIOUS
<1>2. Min({a, b}) \in {a, b} /\ \A y \in {a, b} : Min({a, b}) <= y
  BY <1>1 DEF Min
<1> QED BY <1>2

\* (the other way round)
LEMMA WsMaxOf ==
    ASSUME NEW a \in Int
    PROVE  Max({0, a}) = IF a <= 0 THEN 0 ELSE a
<1>1. \E x \in {0, a} : \A y \in {0, a} : x >= y
  OBVIOUS
<1>2. Max({0, a}) \in {0, a} /\ \A y \in {0, a} : Max({0, a}) >= y
  BY <1>1 DEF Max
<1> QED BY <1>2

\* Silence, and frames.
LEMMA WsOfIs ==
    ASSUME NEW n \in Nat
    PROVE  WsOf(n) \in Seq(Nat) /\ Len(WsOf(n)) = n /\ \A i \in 1 .. n : WsOf(n)[i] = 0
<1>1. [i \in 1 .. n |-> 0] \in Seq(Nat)
  BY IsASeq
<1>2. Len([i \in 1 .. n |-> 0]) = n
  BY <1>1, LenProperties
<1> QED BY <1>1, <1>2 DEF WsOf, WsSilence

\* Frames behind a number are the ones that come next.
LEMMA WsFramesIs ==
    ASSUME NEW from \in Nat, NEW n \in Nat
    PROVE  /\ WsFrames(from, n) \in Seq(Nat) /\ Len(WsFrames(from, n)) = n
           /\ \A i \in 1 .. n : WsFrames(from, n)[i] = from + i
<1>0. \A i \in 1 .. n : from + i \in Nat
  OBVIOUS
<1>1. [i \in 1 .. n |-> from + i] \in Seq(Nat)
  BY <1>0, IsASeq
<1>2. Len([i \in 1 .. n |-> from + i]) = n
  BY <1>1, LenProperties
<1> QED BY <1>1, <1>2 DEF WsFrames

\* A sequence without its first k.
LEMMA WsWithout ==
    ASSUME NEW S, NEW s \in Seq(S), NEW k \in 0 .. Len(s)
    PROVE  /\ SubSeq(s, 1 + k, Len(s)) \in Seq(S) /\ Len(SubSeq(s, 1 + k, Len(s))) = Len(s) - k
           /\ \A i \in 1 .. Len(s) - k : SubSeq(s, 1 + k, Len(s))[i] = s[k + i]
<1>0. Len(s) \in Nat /\ 1 + k \in Int /\ Len(s) \in Int
  BY LenProperties
<1>1. \A i \in 1 + k .. Len(s) : s[i] \in S
  BY <1>0, ElementOfSeq
<1>2. /\ SubSeq(s, 1 + k, Len(s)) \in Seq(S)
      /\ Len(SubSeq(s, 1 + k, Len(s))) = IF 1 + k <= Len(s) THEN Len(s) - (1 + k) + 1 ELSE 0
      /\ \A i \in 1 .. Len(s) - (1 + k) + 1 : SubSeq(s, 1 + k, Len(s))[i] = s[(1 + k) + i - 1]
  BY <1>0, <1>1, SubSeqProperties
<1>3. \A i \in Int : (1 + k) + i - 1 = k + i
  OBVIOUS
<1> QED BY <1>0, <1>2, <1>3
---------------------------------------------------------------------------
\* What the device plays leaves the rest in line,
LEMMA WsLinePlayed ==
    ASSUME NEW s \in Seq(Nat), NEW k \in 0 .. Len(s), NEW top \in Nat, WsLine(s, top)
    PROVE  WsLine(SubSeq(s, 1 + k, Len(s)), top)
<1> DEFINE t == SubSeq(s, 1 + k, Len(s))
<1>1. Len(s) \in Nat /\ Len(t) = Len(s) - k /\ \A i \in 1 .. Len(s) - k : t[i] = s[k + i]
  BY WsWithout, LenProperties
<1> HIDE DEF t
<1>2. \A i \in 1 .. Len(t) : t[i] = s[k + i] /\ k + i \in 1 .. Len(s)
  BY <1>1
<1>3. \A i \in 1 .. Len(t) : t[i] <= top
  BY <1>2 DEF WsLine
<1>4. ASSUME NEW i \in 1 .. Len(t), NEW j \in 1 .. Len(t), i < j,
             t[i] # WsSilence, t[j] # WsSilence
      PROVE  t[i] < t[j]
  <2>1. k + i < k + j
    BY <1>1, <1>4
  <2> QED BY <1>2, <1>4, <2>1 DEF WsLine
<1>5. WsLine(t, top)
  BY <1>3, <1>4 DEF WsLine
<1> QED BY <1>5 DEF t

\* and without a gap;
LEMMA WsNoGapPlayed ==
    ASSUME NEW s \in Seq(Nat), NEW k \in 0 .. Len(s), NEW n \in Nat, WsNoGap(s, n)
    PROVE  WsNoGap(SubSeq(s, 1 + k, Len(s)), n)
<1> DEFINE t == SubSeq(s, 1 + k, Len(s))
<1>1. Len(s) \in Nat /\ Len(t) = Len(s) - k /\ \A i \in 1 .. Len(s) - k : t[i] = s[k + i]
  BY WsWithout, LenProperties
<1> HIDE DEF t
<1>2. ASSUME NEW i \in 1 .. Len(t), t[i] = WsSilence
      PROVE  \E j \in i + 1 .. Len(t) : t[j] = n
  <2>0. i \in 1 .. Len(s) - k /\ k + i \in 1 .. Len(s)
    BY <1>1
  <2>1. s[k + i] = WsSilence
    BY <1>1, <1>2, <2>0
  <2>2. PICK j \in (k + i) + 1 .. Len(s) : s[j] = n
    BY <2>0, <2>1 DEF WsNoGap
  <2>3. j - k \in i + 1 .. Len(t) /\ j - k \in 1 .. Len(s) - k /\ k + (j - k) = j
    BY <1>1, <2>2
  <2>4. t[j - k] = n
    BY <1>1, <2>2, <2>3
  <2> QED BY <2>3, <2>4
<1>3. WsNoGap(t, n)
  BY <1>2 DEF WsNoGap
<1> QED BY <1>3 DEF t

\* so does silence behind it,
LEMMA WsLineSilent ==
    ASSUME NEW s \in Seq(Nat), NEW n \in Nat, NEW top \in Nat, WsLine(s, top)
    PROVE  WsLine(s \o WsOf(n), top)
<1> DEFINE t == s \o WsOf(n)
<1>1. Len(s) \in Nat /\ Len(t) = Len(s) + n
      /\ \A i \in 1 .. Len(t) : t[i] = IF i <= Len(s) THEN s[i] ELSE 0
  <2>1. WsOf(n) \in Seq(Nat) /\ Len(WsOf(n)) = n /\ \A i \in 1 .. n : WsOf(n)[i] = 0
    BY WsOfIs
  <2>2. /\ Len(s) \in Nat /\ Len(t) = Len(s) + Len(WsOf(n))
        /\ \A i \in 1 .. Len(s) + Len(WsOf(n)) : t[i] = IF i <= Len(s) THEN s[i] ELSE WsOf(n)[i - Len(s)]
    BY <2>1, ConcatProperties, LenProperties
  <2> HIDE DEF t
  <2> QED BY <2>1, <2>2
<1> HIDE DEF t
<1>2. WsLine(t, top)
  BY <1>1 DEF WsLine, WsSilence
<1> QED BY <1>2 DEF t

\* and frames that come next.
LEMMA WsLineCopied ==
    ASSUME NEW s \in Seq(Nat), NEW n \in Nat, NEW top \in Nat, WsLine(s, top)
    PROVE  WsLine(s \o WsFrames(top, n), top + n)
<1> DEFINE t == s \o WsFrames(top, n)
<1>1. Len(s) \in Nat /\ Len(t) = Len(s) + n
      /\ \A i \in 1 .. Len(t) : t[i] = IF i <= Len(s) THEN s[i] ELSE top + (i - Len(s))
  <2>1. WsFrames(top, n) \in Seq(Nat) /\ Len(WsFrames(top, n)) = n
        /\ \A i \in 1 .. n : WsFrames(top, n)[i] = top + i
    BY WsFramesIs
  <2>2. /\ Len(s) \in Nat /\ Len(t) = Len(s) + Len(WsFrames(top, n))
        /\ \A i \in 1 .. Len(s) + Len(WsFrames(top, n)) :
             t[i] = IF i <= Len(s) THEN s[i] ELSE WsFrames(top, n)[i - Len(s)]
    BY <2>1, ConcatProperties, LenProperties
  <2> HIDE DEF t
  <2> QED BY <2>1, <2>2
<1>s. \A i \in 1 .. Len(s) : s[i] \in Nat
  BY ElementOfSeq
<1> HIDE DEF t
<1>2. \A i \in 1 .. Len(t) : t[i] <= top + n
  BY <1>1, <1>s DEF WsLine
<1>3. ASSUME NEW i \in 1 .. Len(t), NEW j \in 1 .. Len(t), i < j,
             t[i] # WsSilence, t[j] # WsSilence
      PROVE  t[i] < t[j]
  <2>1. CASE j <= Len(s)
    BY <1>1, <1>3, <2>1 DEF WsLine
  <2>2. CASE i <= Len(s) /\ ~(j <= Len(s))
    BY <1>1, <1>s, <2>2 DEF WsLine
  <2>3. CASE ~(i <= Len(s))
    BY <1>1, <1>3, <2>3
  <2> QED BY <1>1, <1>3, <2>1, <2>2, <2>3
<1>4. WsLine(t, top + n)
  BY <1>2, <1>3 DEF WsLine
<1> QED BY <1>4 DEF t

\* Frames leave no gap behind themselves.
LEMMA WsNoGapCopied ==
    ASSUME NEW s \in Seq(Nat), NEW n \in Nat, NEW top \in Nat, NEW m \in Nat,
           WsNoGap(s, m) \/ (n > 0 /\ m = top + 1)
    PROVE  WsNoGap(s \o WsFrames(top, n), m)
<1> DEFINE t == s \o WsFrames(top, n)
<1>1. Len(s) \in Nat /\ Len(t) = Len(s) + n
      /\ \A i \in 1 .. Len(t) : t[i] = IF i <= Len(s) THEN s[i] ELSE top + (i - Len(s))
  <2>1. WsFrames(top, n) \in Seq(Nat) /\ Len(WsFrames(top, n)) = n
        /\ \A i \in 1 .. n : WsFrames(top, n)[i] = top + i
    BY WsFramesIs
  <2>2. /\ Len(s) \in Nat /\ Len(t) = Len(s) + Len(WsFrames(top, n))
        /\ \A i \in 1 .. Len(s) + Len(WsFrames(top, n)) :
             t[i] = IF i <= Len(s) THEN s[i] ELSE WsFrames(top, n)[i - Len(s)]
    BY <2>1, ConcatProperties, LenProperties
  <2> HIDE DEF t
  <2> QED BY <2>1, <2>2
<1> HIDE DEF t
<1>2. ASSUME NEW i \in 1 .. Len(t), t[i] = WsSilence
      PROVE  \E j \in i + 1 .. Len(t) : t[j] = m
  <2>1. i \in 1 .. Len(s) /\ s[i] = WsSilence
    BY <1>1, <1>2 DEF WsSilence
  <2>2. CASE WsNoGap(s, m)
    <3>1. PICK j \in i + 1 .. Len(s) : s[j] = m
      BY <2>1, <2>2 DEF WsNoGap
    <3>2. j \in i + 1 .. Len(t) /\ t[j] = m
      BY <1>1, <2>1, <3>1
    <3> QED BY <3>2
  <2>3. CASE n > 0 /\ m = top + 1
    <3>1. Len(s) + 1 \in i + 1 .. Len(t) /\ t[Len(s) + 1] = m
      BY <1>1, <2>1, <2>3
    <3> QED BY <3>1
  <2> QED BY <2>2, <2>3
<1>3. WsNoGap(t, m)
  BY <1>2 DEF WsNoGap
<1> QED BY <1>3 DEF t

---------------------------------------------------------------------------
\* Silence alone is in line.
LEMMA WsLineStart ==
    ASSUME NEW n \in Nat, NEW top \in Nat
    PROVE  WsLine(WsOf(n), top) /\ WsLine(<<>>, top)
<1>1. Len(WsOf(n)) = n /\ \A i \in 1 .. n : WsOf(n)[i] = 0
  BY WsOfIs
<1>2. WsLine(WsOf(n), top)
  BY <1>1 DEF WsLine, WsSilence
<1>3. WsLine(<<>>, top)
  BY DEF WsLine
<1> QED BY <1>2, <1>3

\* The constants, and a speaker's state.
LEMMA WsConstants ==
    WsBuffer \in Nat \ {0} /\ WsPrime \in Nat /\ WsKeep \in Nat /\ WsPeriod \in 1 .. WsBuffer
BY WsAssumption

\* A write is begun, the device opened first if it was not.
LEMMA WsSpeakerUse ==
    ASSUME WsSpeakerInv, NEW len \in WsBlocks, WsUse(len)
    PROVE  WsSpeakerInv'
<1>1. /\ wsObj = "live" /\ wsAt = "idle" /\ WsOpens /\ wsOpen' = "open"
      /\ wsBlock' = WsBegun(len) /\ wsAt' = "looks"
      /\ UNCHANGED <<wsKind, wsObj, wsRun, wsFifo, wsNext, wsHeard, wsDropped, wsLost>>
  BY DEF WsUse, WsStreamSame, WsSpeakerInv
<1>2. len \in Nat /\ len > 0
  BY WsAssumption
<1>3. wsBlock' = [len |-> len, done |-> 0, first |-> TRUE, padding |-> 0]
  BY <1>1 DEF WsBegun
<1>4. wsBlock = WsNoBlock /\ wsNext \in Nat
  BY <1>1 DEF WsSpeakerInv, WsUsed, WsTypeOK
<1>5. wsQueue \in Seq(Nat) /\ WsLine(wsQueue, wsNext) /\ Len(wsQueue) <= WsBuffer
  <2>1. WsLine(wsQueue, wsNext + wsBlock.done) /\ wsNext + wsBlock.done = wsNext
    BY <1>4 DEF WsSpeakerInv, WsSpeaker, WsNoBlock
  <2> QED BY <2>1 DEF WsSpeakerInv, WsSpeaker
<1>6. wsQueue' \in Seq(Nat) /\ WsLine(wsQueue', wsNext) /\ Len(wsQueue') <= WsBuffer
  <2>1. CASE wsQueue' = wsQueue
    BY <1>5, <2>1
  <2>2. CASE wsQueue' = WsOf(Min({WsPrime, WsBuffer}))
    <3>1. PICK n \in Nat : n = Min({WsPrime, WsBuffer}) /\ n <= WsBuffer
      BY WsConstants, WsMinOf
    <3> QED BY <1>4, <2>2, <3>1, WsOfIs, WsLineStart
  <2> QED BY <1>1, <2>1, <2>2 DEF WsOpens, WsSpeakerInv
<1>7. WsLine(wsQueue, wsNext + 0)' /\ wsBlock'.done = 0
  <2>1. wsNext' + 0 = wsNext /\ wsNext' = wsNext
    BY <1>1, <1>4
  <2> QED BY <1>3, <1>6, <2>1
<1>8. WsSpeaker'
  BY <1>1, <1>2, <1>3, <1>6, <1>7 DEF WsSpeaker
<1>9. WsTypeOK' /\ WsUsed'
  <2>1. wsBlock' \in [len : Nat, done : Nat, first : BOOLEAN, padding : Nat]
    BY <1>2, <1>3
  <2> QED BY <1>1, <2>1 DEF WsSpeakerInv, WsTypeOK, WsUsed
<1> QED BY <1>1, <1>8, <1>9 DEF WsSpeakerInv

\* The device plays.
LEMMA WsSpeakerPlays ==
    ASSUME WsSpeakerInv, WsPlays
    PROVE  WsSpeakerInv'
<1>1. /\ wsOpen = "open" /\ wsQueue' = SubSeq(wsQueue, 1 + Min({WsPeriod, Len(wsQueue)}), Len(wsQueue))
      /\ UNCHANGED <<wsKind, wsObj, wsOpen, wsRun, wsAt, wsBlock, wsFifo, wsNext, wsHeard,
                     wsDropped, wsLost>>
  BY DEF WsPlays, WsStreamSame
<1>2. wsQueue \in Seq(Nat) /\ Len(wsQueue) \in Nat /\ wsNext \in Nat /\ wsBlock.done \in Nat
      /\ wsBlock.padding \in Nat
  BY LenProperties DEF WsSpeakerInv, WsSpeaker, WsTypeOK
<1>3. PICK k \in Nat : k = Min({WsPeriod, Len(wsQueue)}) /\ k <= Len(wsQueue)
  BY <1>2, WsConstants, WsMinOf
<1>4. k \in 0 .. Len(wsQueue) /\ wsQueue' = SubSeq(wsQueue, 1 + k, Len(wsQueue))
  BY <1>1, <1>2, <1>3
<1>5. wsQueue' \in Seq(Nat) /\ Len(wsQueue') = Len(wsQueue) - k
  BY <1>2, <1>4, WsWithout
<1>6. WsLine(wsQueue', wsNext + wsBlock.done)
  <2>1. PICK top \in Nat : top = wsNext + wsBlock.done
    BY <1>2
  <2>2. WsLine(wsQueue, top)
    BY <2>1 DEF WsSpeakerInv, WsSpeaker
  <2>3. WsLine(wsQueue', top)
    BY <1>2, <1>4, <2>2, WsLinePlayed
  <2> QED BY <2>1, <2>3
<1>7. wsBlock.done > 0 => WsNoGap(wsQueue', wsNext + 1)
  <2>1. PICK n \in Nat : n = wsNext + 1
    BY <1>2
  <2>2. wsBlock.done > 0 => WsNoGap(wsQueue, n)
    BY <2>1 DEF WsSpeakerInv, WsSpeaker
  <2>3. wsBlock.done > 0 => WsNoGap(wsQueue', n)
    BY <1>2, <1>4, <2>2, WsNoGapPlayed
  <2> QED BY <2>1, <2>3
<1>8. Len(wsQueue') <= WsBuffer /\ (wsAt = "copies" => Len(wsQueue') <= wsBlock.padding)
  <2>1. Len(wsQueue) <= WsBuffer /\ (wsAt = "copies" => Len(wsQueue) <= wsBlock.padding)
    BY DEF WsSpeakerInv, WsSpeaker
  <2> QED BY <1>2, <1>3, <1>5, <2>1, WsConstants
<1>9. WsSpeaker'
  BY <1>1, <1>5, <1>6, <1>7, <1>8 DEF WsSpeakerInv, WsSpeaker
<1>10. WsTypeOK' /\ WsUsed'
  BY <1>1 DEF WsSpeakerInv, WsTypeOK, WsUsed
<1> QED BY <1>1, <1>9, <1>10 DEF WsSpeakerInv

\* The padding is looked at, and silence put before a block that found none.
LEMMA WsSpeakerLooks ==
    ASSUME WsSpeakerInv, WsLooks
    PROVE  WsSpeakerInv'
<1>0. PICK c \in Nat : c = WsCushion(wsBlock, Len(wsQueue))
                       /\ (c > 0 => wsBlock.first /\ Len(wsQueue) = 0 /\ c <= WsBuffer)
  <2>1. WsBuffer \div 2 \in Nat /\ WsBuffer \div 2 <= WsBuffer
    BY WsConstants
  <2>2. PICK h \in Nat : h = WsBuffer \div 2 /\ h <= WsBuffer
    BY <2>1
  <2>3. Min({WsPrime, h}) \in Nat /\ Min({WsPrime, h}) <= WsBuffer
    BY <2>2, WsConstants, WsMinOf
  <2> QED BY <2>2, <2>3 DEF WsCushion
<1>1. /\ wsAt = "looks" /\ wsQueue' = wsQueue \o WsOf(c)
      /\ wsBlock' = [wsBlock EXCEPT !.first = FALSE, !.padding = Len(wsQueue) + c]
      /\ wsAt' = IF Len(wsQueue) + c < WsBuffer THEN "copies" ELSE "waits"
      /\ UNCHANGED <<wsKind, wsObj, wsOpen, wsRun, wsFifo, wsNext, wsHeard, wsDropped, wsLost>>
  BY <1>0 DEF WsLooks, WsStreamSame
<1>2. wsQueue \in Seq(Nat) /\ Len(wsQueue) \in Nat /\ wsNext \in Nat /\ wsBlock.done \in Nat
      /\ wsBlock.len \in Nat
      /\ wsBlock \in [len : Nat, done : Nat, first : BOOLEAN, padding : Nat]
      /\ wsBlock.done < wsBlock.len /\ (wsBlock.first => wsBlock.done = 0)
      /\ Len(wsQueue) <= WsBuffer
  BY <1>1, LenProperties DEF WsSpeakerInv, WsSpeaker, WsTypeOK
<1>3. wsQueue' \in Seq(Nat) /\ Len(wsQueue') = Len(wsQueue) + c
  <2>1. PICK q \in Seq(Nat) : q = WsOf(c) /\ Len(q) = c
    BY WsOfIs
  <2>2. wsQueue' = wsQueue \o q
    BY <1>1, <2>1
  <2> QED BY <1>2, <2>1, <2>2, ConcatProperties
<1>4. PICK x \in Nat : x = Len(wsQueue) + c
  BY <1>2
<1>5. /\ wsBlock' \in [len : Nat, done : Nat, first : BOOLEAN, padding : Nat]
      /\ wsBlock'.len = wsBlock.len /\ wsBlock'.done = wsBlock.done /\ ~wsBlock'.first
      /\ wsBlock'.padding = x
  <2>1. PICK b : b = wsBlock
    OBVIOUS
  <2>2. PICK d : d = [b EXCEPT !.first = FALSE, !.padding = x]
    OBVIOUS
  <2>3. wsBlock' = d
    BY <1>1, <1>4, <2>1, <2>2
  <2>4. /\ d \in [len : Nat, done : Nat, first : BOOLEAN, padding : Nat]
        /\ d.len = b.len /\ d.done = b.done /\ ~d.first /\ d.padding = x
    BY <1>2, <2>1, <2>2
  <2> QED BY <2>1, <2>3, <2>4
<1>6. WsLine(wsQueue', wsNext + wsBlock.done)
  <2>1. PICK top \in Nat : top = wsNext + wsBlock.done
    BY <1>2
  <2>2. WsLine(wsQueue, top)
    BY <2>1 DEF WsSpeakerInv, WsSpeaker
  <2>3. WsLine(wsQueue', top)
    BY <1>1, <1>2, <2>2, WsLineSilent
  <2> QED BY <2>1, <2>3
<1>7. wsBlock.done > 0 => WsNoGap(wsQueue', wsNext + 1)
  <2>1. ASSUME wsBlock.done > 0 PROVE wsQueue' = wsQueue
    <3>1. c = 0
      BY <1>0, <1>2, <2>1
    <3>2. WsOf(c) \in Seq(Nat) /\ Len(WsOf(c)) = 0
      BY <3>1, WsOfIs
    <3>3. WsOf(c) = <<>>
      BY <3>2, EmptySeq
    <3> QED BY <1>1, <1>2, <3>3, ConcatEmptySeq
  <2>2. wsBlock.done > 0 => WsNoGap(wsQueue, wsNext + 1)
    BY DEF WsSpeakerInv, WsSpeaker
  <2> QED BY <2>1, <2>2
<1>8. x <= WsBuffer /\ Len(wsQueue') = x
  <2>1. c = 0 \/ (Len(wsQueue) = 0 /\ c <= WsBuffer)
    BY <1>0
  <2> QED BY <1>2, <1>3, <1>4, <2>1, WsConstants
<1>9. WsLine(wsQueue, wsNext + wsBlock.done)' /\ (wsBlock.done > 0 => WsNoGap(wsQueue, wsNext + 1))'
  BY <1>1, <1>5, <1>6, <1>7
<1>10. wsAt' \in {"copies", "waits"} /\ (wsAt' = "copies" => x < WsBuffer)
  BY <1>1, <1>4
<1>11. WsSpeaker'
  BY <1>2, <1>3, <1>5, <1>8, <1>9, <1>10 DEF WsSpeaker
<1>12. WsTypeOK' /\ WsUsed'
  <2>1. wsOpen = "open"
    BY <1>1 DEF WsSpeakerInv, WsUsed
  <2>2. wsObj # "none" /\ wsObj # "freed"
    BY <1>1 DEF WsSpeakerInv, WsUsed
  <2> QED BY <1>1, <1>5, <1>10, <2>1, <2>2 DEF WsSpeakerInv, WsTypeOK, WsUsed
<1> QED BY <1>1, <1>11, <1>12 DEF WsSpeakerInv

\* As much of the block as there was room for is copied.
LEMMA WsSpeakerCopies ==
    ASSUME WsSpeakerInv, WsCopies
    PROVE  WsSpeakerInv'
<1>1. wsAt = "copies" /\ wsOpen = "open" /\ wsObj # "none" /\ wsObj # "freed"
      /\ UNCHANGED <<wsKind, wsObj, wsOpen, wsRun, wsFifo, wsHeard, wsDropped, wsLost>>
  BY DEF WsCopies, WsSpeakerInv, WsUsed
<1>2. wsQueue \in Seq(Nat) /\ Len(wsQueue) \in Nat /\ wsNext \in Nat /\ wsBlock.done \in Nat
      /\ wsBlock.len \in Nat /\ wsBlock.padding \in Nat /\ WsBuffer \in Nat
      /\ wsBlock \in [len : Nat, done : Nat, first : BOOLEAN, padding : Nat]
      /\ wsBlock.done < wsBlock.len /\ ~wsBlock.first
      /\ wsBlock.padding < WsBuffer /\ Len(wsQueue) <= wsBlock.padding
  BY <1>1, LenProperties, WsConstants DEF WsSpeakerInv, WsSpeaker, WsTypeOK
<1>3. PICK a \in Nat : a = wsBlock.len - wsBlock.done /\ a > 0
  BY <1>2
<1>4. PICK r \in Nat : r = WsBuffer - wsBlock.padding /\ r > 0
  BY <1>2
<1>5. PICK n \in Nat : n = Min({wsBlock.len - wsBlock.done, WsBuffer - wsBlock.padding})
                       /\ n <= a /\ n <= r /\ n > 0
  BY <1>3, <1>4, WsMinOf
<1>6. PICK top \in Nat : top = wsNext + wsBlock.done
  BY <1>2
<1>7. wsQueue' = wsQueue \o WsFrames(top, n)
  BY <1>5, <1>6 DEF WsCopies
<1>8. /\ wsBlock.done + n = wsBlock.len => wsAt' = "idle" /\ wsBlock' = WsNoBlock
                                            /\ wsNext' = wsNext + wsBlock.len
      /\ wsBlock.done + n # wsBlock.len => wsAt' = "looks" /\ wsNext' = wsNext
                                            /\ wsBlock' = [wsBlock EXCEPT !.done = @ + n]
  BY <1>5 DEF WsCopies
<1>9. wsQueue' \in Seq(Nat) /\ Len(wsQueue') <= WsBuffer
  <2>1. PICK q \in Seq(Nat) : q = WsFrames(top, n) /\ Len(q) = n
    BY WsFramesIs
  <2>2. wsQueue' = wsQueue \o q
    BY <1>7, <2>1
  <2>3. wsQueue' \in Seq(Nat) /\ Len(wsQueue') = Len(wsQueue) + n
    BY <1>2, <2>1, <2>2, ConcatProperties, ZenonT(60)
  <2> QED BY <1>2, <1>4, <1>5, <2>3
<1>10. WsLine(wsQueue', top + n)
  <2>1. WsLine(wsQueue, top)
    BY <1>6 DEF WsSpeakerInv, WsSpeaker
  <2> QED BY <1>2, <1>7, <2>1, WsLineCopied
<1>11. WsNoGap(wsQueue', wsNext + 1)
  <2>1. PICK m \in Nat : m = wsNext + 1
    BY <1>2
  <2>2. WsNoGap(wsQueue, m) \/ (n > 0 /\ m = top + 1)
    <3>1. CASE wsBlock.done = 0
      BY <1>2, <1>5, <1>6, <2>1, <3>1
    <3>2. CASE wsBlock.done > 0
      BY <2>1, <3>2 DEF WsSpeakerInv, WsSpeaker
    <3> QED BY <1>2, <3>1, <3>2
  <2>3. WsNoGap(wsQueue \o WsFrames(top, n), m)
    BY <1>2, <2>2, WsNoGapCopied
  <2> QED BY <1>7, <2>1, <2>3
<1>12. CASE wsBlock.done + n = wsBlock.len
  <2>1. wsAt' = "idle" /\ wsBlock' = WsNoBlock /\ wsNext' = wsNext + wsBlock.len
    BY <1>8, <1>12
  <2>2. wsBlock' = [len |-> 0, done |-> 0, first |-> FALSE, padding |-> 0]
    BY <2>1 DEF WsNoBlock
  <2>3. wsBlock' \in [len : Nat, done : Nat, first : BOOLEAN, padding : Nat]
        /\ wsBlock'.done = 0 /\ ~wsBlock'.first
    BY <2>2
  <2>4. wsNext' \in Nat /\ wsNext' + 0 = top + n
    BY <1>2, <1>6, <1>12, <2>1
  <2>5. WsLine(wsQueue, wsNext + wsBlock.done)'
    BY <1>10, <2>3, <2>4
  <2>6. WsSpeaker'
    BY <1>9, <2>1, <2>3, <2>5 DEF WsSpeaker
  <2>7. WsTypeOK' /\ WsUsed'
    BY <1>1, <2>1, <2>3, <2>4 DEF WsSpeakerInv, WsTypeOK, WsUsed
  <2> QED BY <1>1, <2>6, <2>7 DEF WsSpeakerInv
<1>13. CASE wsBlock.done + n # wsBlock.len
  <2>1. wsAt' = "looks" /\ wsNext' = wsNext /\ wsBlock' = [wsBlock EXCEPT !.done = wsBlock.done + n]
    BY <1>8, <1>13
  <2>2. PICK x \in Nat : x = wsBlock.done + n
    BY <1>2
  <2>3. /\ wsBlock' \in [len : Nat, done : Nat, first : BOOLEAN, padding : Nat]
        /\ wsBlock'.len = wsBlock.len /\ wsBlock'.done = x /\ ~wsBlock'.first
    <3>1. PICK b : b = wsBlock
      OBVIOUS
    <3>2. PICK d : d = [b EXCEPT !.done = x]
      OBVIOUS
    <3>3. wsBlock' = d
      BY <2>1, <2>2, <3>1, <3>2
    <3>4. /\ d \in [len : Nat, done : Nat, first : BOOLEAN, padding : Nat]
          /\ d.len = b.len /\ d.done = x /\ ~d.first
      BY <1>2, <3>1, <3>2
    <3> QED BY <3>1, <3>3, <3>4
  <2>4. x < wsBlock.len
    BY <1>2, <1>3, <1>5, <1>13, <2>2
  <2>5. wsNext + x = top + n
    BY <1>2, <1>6, <2>2
  <2>6. WsLine(wsQueue, wsNext + wsBlock.done)' /\ WsNoGap(wsQueue, wsNext + 1)'
    BY <1>10, <1>11, <2>1, <2>3, <2>5
  <2>7. WsSpeaker'
    BY <1>9, <2>1, <2>3, <2>4, <2>6 DEF WsSpeaker
  <2>8. WsTypeOK' /\ WsUsed'
    BY <1>1, <1>2, <2>1, <2>3 DEF WsSpeakerInv, WsTypeOK, WsUsed
  <2> QED BY <1>1, <2>7, <2>8 DEF WsSpeakerInv
<1> QED BY <1>12, <1>13

\* A write gives up, and what is queued of its block is not behind the next.
LEMMA WsSpeakerGivesUp ==
    ASSUME WsSpeakerInv, WsGivesUp
    PROVE  WsSpeakerInv'
<1>1. /\ wsAt \in {"looks", "waits"} /\ wsAt' = "idle" /\ wsBlock' = WsNoBlock
      /\ wsNext' = wsNext + wsBlock.len
      /\ UNCHANGED <<wsKind, wsObj, wsOpen, wsQueue, wsRun, wsFifo, wsHeard, wsDropped, wsLost>>
  BY DEF WsGivesUp
<1>2. wsOpen = "open" /\ wsObj # "none" /\ wsObj # "freed"
  BY <1>1 DEF WsSpeakerInv, WsUsed
<1>3. wsQueue \in Seq(Nat) /\ wsNext \in Nat /\ wsBlock.done \in Nat /\ wsBlock.len \in Nat
      /\ wsBlock.done < wsBlock.len /\ Len(wsQueue) <= WsBuffer
      /\ WsLine(wsQueue, wsNext + wsBlock.done)
  BY <1>1 DEF WsSpeakerInv, WsSpeaker, WsTypeOK
<1>4. wsBlock' \in [len : Nat, done : Nat, first : BOOLEAN, padding : Nat]
      /\ wsBlock'.done = 0 /\ ~wsBlock'.first
  BY <1>1 DEF WsNoBlock
<1>5. wsNext' \in Nat /\ wsNext' + 0 = wsNext + wsBlock.len
  BY <1>1, <1>3
<1>6. WsLine(wsQueue, wsNext + wsBlock.len)
  <2>1. PICK low \in Nat : low = wsNext + wsBlock.done
    BY <1>3
  <2>2. PICK top \in Nat : top = wsNext + wsBlock.len /\ low < top
    BY <1>3, <2>1
  <2>3. WsLine(wsQueue, low)
    BY <1>3, <2>1
  <2>4. \A i \in 1 .. Len(wsQueue) : wsQueue[i] \in Nat
    BY <1>3, ElementOfSeq
  <2>5. WsLine(wsQueue, top)
    BY <2>2, <2>3, <2>4 DEF WsLine
  <2> QED BY <2>2, <2>5
<1>7. WsLine(wsQueue, wsNext + wsBlock.done)'
  BY <1>1, <1>4, <1>5, <1>6
<1>8. WsSpeaker'
  BY <1>1, <1>3, <1>4, <1>7 DEF WsSpeaker
<1>9. WsTypeOK' /\ WsUsed'
  BY <1>1, <1>2, <1>4, <1>5 DEF WsSpeakerInv, WsTypeOK, WsUsed
<1> QED BY <1>1, <1>8, <1>9 DEF WsSpeakerInv

\* A speaker's steps that leave its queue and its place in a block alone.
LEMMA WsSpeakerRests ==
    ASSUME WsSpeakerInv, WsSinkOpen \/ WsFails \/ WsSinkClose \/ WsFree \/ WsWaitEnds("looks")
    PROVE  WsSpeakerInv'
<1>1. UNCHANGED <<wsKind, wsBlock, wsNext, wsHeard, wsDropped, wsLost>>
      /\ wsRun' \in BOOLEAN /\ wsFifo' \in Seq(Nat)
  <2>1. wsRun \in BOOLEAN /\ wsFifo \in Seq(Nat) /\ <<>> \in Seq(Nat)
    BY EmptySeq DEF WsSpeakerInv, WsTypeOK
  <2> QED BY <2>1 DEF WsSinkOpen, WsFails, WsSinkClose, WsFree, WsWaitEnds, WsStreamSame
<1>2. wsQueue' = wsQueue \/ wsQueue' = <<>>
  BY DEF WsSinkOpen, WsFails, WsSinkClose, WsFree, WsWaitEnds, WsOpens
<1>3. /\ wsAt' \in {"none", "idle", "looks"}
      /\ wsAt' = "looks" => wsAt = "waits" /\ wsObj' = wsObj /\ wsOpen' = wsOpen
      /\ wsAt' # "looks" => wsAt \in {"none", "idle"}
      /\ wsObj' \in {"none", "live", "joins", "freed"} /\ wsOpen' \in {"untried", "open", "failed"}
      /\ wsOpen' = "untried" => wsOpen = "untried" /\ wsQueue' = wsQueue
      /\ wsObj' # "none" /\ (wsObj' = "freed" => wsAt' = "none")
      /\ (wsObj' = "joins" => wsAt' = "idle") /\ (wsAt' = "looks" => wsOpen' = "open")
  BY DEF WsSpeakerInv, WsSpeaker, WsUsed, WsTypeOK, WsSinkOpen, WsFails, WsSinkClose, WsFree, WsWaitEnds, WsOpens
<1>4. WsTypeOK'
  BY <1>1, <1>3 DEF WsSpeakerInv, WsTypeOK
<1>5. WsUsed'
  BY <1>1, <1>2, <1>3 DEF WsSpeakerInv, WsUsed
<1>6. WsSpeaker'
  <2>1. CASE wsQueue' = wsQueue
    BY <1>1, <1>3, <2>1 DEF WsSpeakerInv, WsSpeaker
  <2>2. CASE wsQueue' = <<>>
    <3>1. wsNext \in Nat /\ wsBlock.done \in Nat
      BY DEF WsSpeakerInv, WsTypeOK
    <3>2. PICK top \in Nat : top = wsNext + wsBlock.done
      BY <3>1
    <3>3. WsLine(<<>>, top)
      BY WsLineStart
    <3>4. WsNoGap(<<>>, wsNext + 1)
      BY DEF WsNoGap
    <3>5. WsLine(wsQueue, wsNext + wsBlock.done)' /\ WsNoGap(wsQueue, wsNext + 1)'
      BY <1>1, <2>2, <3>2, <3>3, <3>4
    <3>6. wsQueue' \in Seq(Nat) /\ Len(wsQueue') <= WsBuffer
      BY <2>2, EmptySeq, WsConstants
    <3> QED BY <1>1, <1>3, <3>5, <3>6 DEF WsSpeakerInv, WsSpeaker
  <2> QED BY <1>2, <2>1, <2>2
<1> QED BY <1>1, <1>4, <1>5, <1>6 DEF WsSpeakerInv

\* Whatever a speaker does.
LEMMA WsSpeakerStep ==
    ASSUME WsSpeakerInv, WsNext
    PROVE  WsSpeakerInv'
<1>1. wsKind = "speaker" /\ wsAt \in {"none", "idle", "looks", "copies", "waits"}
  BY DEF WsSpeakerInv, WsSpeaker
<1>2. ~WsDrains /\ ~WsTrims /\ ~WsReaderEnds /\ ~WsDeinit
  BY <1>1 DEF WsDrains, WsTrims, WsReaderEnds, WsDeinit
<1>3. (\A starts \in BOOLEAN : ~WsInput(starts)) /\ (\A n \in 1 .. WsPeriod : ~WsCaptures(n))
  BY <1>1 DEF WsInput, WsCaptures
<1>4. \/ WsSinkOpen \/ WsFails \/ WsSinkClose \/ WsFree \/ WsWaitEnds("looks")
      \/ (\E len \in WsBlocks : WsUse(len))
      \/ WsPlays \/ WsLooks \/ WsCopies \/ WsGivesUp
  BY <1>1, <1>2, <1>3 DEF WsNext
<1> QED BY <1>4, WsSpeakerRests, WsSpeakerUse, WsSpeakerPlays, WsSpeakerLooks, WsSpeakerCopies,
           WsSpeakerGivesUp

---------------------------------------------------------------------------
\* A packet that is captured is behind all there is.
LEMMA WsInLineCaptured ==
    ASSUME NEW queue \in Seq(Seq(Nat)), NEW fifo \in Seq(Nat), NEW last \in Nat, NEW next \in Nat,
           NEW n \in Nat, WsInLine(queue, fifo, last, next)
    PROVE  WsInLine(Append(queue, WsFrames(next, n)), fifo, last, next + n)
<1>1. PICK x \in Seq(Nat) : x = WsFrames(next, n) /\ Len(x) = n /\ \A i \in 1 .. n : x[i] = next + i
  BY WsFramesIs
<1>2. PICK m \in Nat : m = Len(queue)
  BY LenProperties
<1>3. PICK t : t = Append(queue, x)
  OBVIOUS
<1>4. Len(t) = m + 1 /\ (\A p \in 1 .. m : t[p] = queue[p]) /\ t[m + 1] = x
  BY <1>2, <1>3, AppendProperties
<1>5. \A p \in 1 .. m : queue[p] \in Seq(Nat) /\ WsRises(queue[p], last, next)
                        /\ WsFollows(fifo, queue[p]) /\ \A q \in 1 .. p - 1 : WsFollows(queue[q], queue[p])
  BY <1>2, ElementOfSeq DEF WsInLine
<1>6. last <= next /\ WsRises(fifo, last, next)
  BY DEF WsInLine
<1>7. ASSUME NEW s \in Seq(Nat), WsRises(s, last, next)
      PROVE  WsRises(s, last, next + n) /\ WsFollows(s, x)
  <2>1. \A i \in 1 .. Len(s) : s[i] \in Nat
    BY ElementOfSeq
  <2>2. \A i \in 1 .. Len(s) : last < s[i] /\ s[i] <= next /\ s[i] <= next + n
    BY <1>7, <2>1 DEF WsRises
  <2>3. WsRises(s, last, next + n)
    BY <1>7, <2>2 DEF WsRises
  <2>4. ASSUME NEW i \in 1 .. Len(s), NEW k \in 1 .. n PROVE s[i] < x[k]
    BY <1>1, <2>1, <2>2
  <2> QED BY <1>1, <2>3, <2>4 DEF WsFollows
<1>8. WsRises(x, last, next + n)
  BY <1>1, <1>6 DEF WsRises
<1>9. \A p \in 1 .. m : WsRises(queue[p], last, next + n) /\ WsFollows(queue[p], x)
  BY <1>5, <1>7
<1>10. WsRises(fifo, last, next + n) /\ WsFollows(fifo, x)
  BY <1>6, <1>7
<1>11. \A p \in 1 .. m + 1 : p \in 1 .. m \/ p = m + 1
  OBVIOUS
<1>12. \A p \in 1 .. m + 1 : WsRises(t[p], last, next + n) /\ WsFollows(fifo, t[p])
  BY <1>4, <1>5, <1>8, <1>9, <1>10, <1>11
<1>13. \A p \in 1 .. m + 1 : \A q \in 1 .. p - 1 : WsFollows(t[q], t[p])
  <2> SUFFICES ASSUME NEW p \in 1 .. m + 1, NEW q \in 1 .. p - 1 PROVE WsFollows(t[q], t[p])
    OBVIOUS
  <2>1. q \in 1 .. m /\ t[q] = queue[q]
    BY <1>4
  <2>2. CASE p \in 1 .. m
    BY <1>4, <1>5, <2>1, <2>2
  <2>3. CASE p = m + 1
    BY <1>4, <1>9, <2>1, <2>3
  <2> QED BY <1>11, <2>2, <2>3
<1>14. WsInLine(t, fifo, last, next + n)
  <2>1. last <= next + n
    BY <1>6
  <2> QED BY <1>4, <1>10, <1>12, <1>13, <2>1 DEF WsInLine
<1> QED BY <1>1, <1>3, <1>14

\* The rest is in line without the oldest packet,
LEMMA WsInLineTail ==
    ASSUME NEW queue \in Seq(Seq(Nat)), NEW fifo, NEW last, NEW next,
           queue # <<>>, WsInLine(queue, fifo, last, next)
    PROVE  WsInLine(Tail(queue), fifo, last, next)
<1>1. PICK t \in Seq(Seq(Nat)) : t = Tail(queue)
  BY HeadTailProperties
<1>2. Len(t) = Len(queue) - 1 /\ (\A p \in 1 .. Len(t) : t[p] = queue[p + 1])
      /\ Len(queue) \in Nat
  BY <1>1, HeadTailProperties, LenProperties
<1>3. \A p \in 1 .. Len(t) : p + 1 \in 1 .. Len(queue) /\ \A q \in 1 .. p - 1 :
          q + 1 \in 1 .. (p + 1) - 1 /\ q \in 1 .. Len(t)
  BY <1>2
<1>4. WsInLine(t, fifo, last, next)
  BY <1>2, <1>3 DEF WsInLine
<1> QED BY <1>1, <1>4

\* and with it in the fifo.
LEMMA WsInLineTaken ==
    ASSUME NEW queue \in Seq(Seq(Nat)), NEW fifo \in Seq(Nat), NEW last \in Nat, NEW next \in Nat,
           queue # <<>>, WsInLine(queue, fifo, last, next)
    PROVE  WsInLine(Tail(queue), fifo \o Head(queue), last, next)
<1>1. PICK t \in Seq(Seq(Nat)) : t = Tail(queue)
  BY HeadTailProperties
<1>2. PICK x \in Seq(Nat) : x = Head(queue)
  BY HeadTailProperties
<1>3. Len(t) = Len(queue) - 1 /\ (\A p \in 1 .. Len(t) : t[p] = queue[p + 1])
      /\ Len(queue) \in Nat /\ x = queue[1] /\ Len(queue) >= 1
  <2>1. Len(queue) \in Nat \ {0}
    BY EmptySeq
  <2> QED BY <1>1, <1>2, <2>1, HeadTailProperties
<1>4. WsInLine(t, fifo, last, next)
  BY <1>1, WsInLineTail
<1>5. WsRises(x, last, next) /\ WsFollows(fifo, x) /\ WsRises(fifo, last, next)
  <2>1. 1 \in 1 .. Len(queue)
    BY <1>3
  <2> QED BY <1>3, <2>1 DEF WsInLine
<1>6. \A p \in 1 .. Len(t) : WsFollows(x, t[p])
  <2>1. \A p \in 1 .. Len(t) : p + 1 \in 1 .. Len(queue) /\ 1 \in 1 .. (p + 1) - 1
    BY <1>3
  <2> QED BY <1>3, <2>1 DEF WsInLine
<1>7. PICK f : f = fifo \o x
  OBVIOUS
<1>8. /\ Len(f) = Len(fifo) + Len(x) /\ Len(fifo) \in Nat /\ Len(x) \in Nat
      /\ \A i \in 1 .. Len(f) : f[i] = IF i <= Len(fifo) THEN fifo[i] ELSE x[i - Len(fifo)]
  BY <1>7, ConcatProperties, LenProperties
<1>9. \A i \in 1 .. Len(f) : \/ i \in 1 .. Len(fifo) /\ f[i] = fifo[i]
                             \/ i - Len(fifo) \in 1 .. Len(x) /\ f[i] = x[i - Len(fifo)]
  BY <1>8
<1>10. WsRises(f, last, next)
  <2>1. \A i \in 1 .. Len(f) : last < f[i] /\ f[i] <= next
    BY <1>5, <1>9 DEF WsRises
  <2>2. ASSUME NEW i \in 1 .. Len(f), NEW j \in 1 .. Len(f), i < j PROVE f[i] < f[j]
    <3>1. CASE i <= Len(fifo) /\ j <= Len(fifo)
      <4>1. i \in 1 .. Len(fifo) /\ j \in 1 .. Len(fifo) /\ f[i] = fifo[i] /\ f[j] = fifo[j]
        BY <1>8, <3>1
      <4> QED BY <1>5, <2>2, <4>1 DEF WsRises
    <3>2. CASE i <= Len(fifo) /\ ~(j <= Len(fifo))
      <4>1. i \in 1 .. Len(fifo) /\ j - Len(fifo) \in 1 .. Len(x)
            /\ f[i] = fifo[i] /\ f[j] = x[j - Len(fifo)]
        BY <1>8, <3>2
      <4> QED BY <1>5, <4>1 DEF WsFollows
    <3>3. CASE ~(i <= Len(fifo))
      <4>1. i - Len(fifo) \in 1 .. Len(x) /\ j - Len(fifo) \in 1 .. Len(x)
            /\ i - Len(fifo) < j - Len(fifo)
            /\ f[i] = x[i - Len(fifo)] /\ f[j] = x[j - Len(fifo)]
        BY <1>8, <2>2, <3>3, SMTT(30)
      <4> QED BY <1>5, <4>1 DEF WsRises
    <3> QED BY <1>8, <2>2, <3>1, <3>2, <3>3
  <2> QED BY <2>1, <2>2 DEF WsRises
<1>11. \A p \in 1 .. Len(t) : WsFollows(f, t[p])
  BY <1>4, <1>6, <1>9 DEF WsInLine, WsFollows
<1>12. WsInLine(t, f, last, next)
  BY <1>4, <1>10, <1>11 DEF WsInLine
<1> QED BY <1>1, <1>2, <1>7, <1>12

\* Frames that are read, or cut, leave the rest in line behind them.
LEMMA WsInLineRead ==
    ASSUME NEW queue \in Seq(Seq(Nat)), NEW fifo \in Seq(Nat), NEW last \in Nat, NEW next \in Nat,
           NEW k \in 0 .. Len(fifo), WsInLine(queue, fifo, last, next)
    PROVE  /\ WsInLine(queue, SubSeq(fifo, 1 + k, Len(fifo)), last, next)
           /\ k # 0 => /\ fifo[k] \in Nat
                       /\ WsInLine(queue, SubSeq(fifo, 1 + k, Len(fifo)), fifo[k], next)
<1>1. PICK t : t = SubSeq(fifo, 1 + k, Len(fifo))
  OBVIOUS
<1>2. Len(t) = Len(fifo) - k /\ (\A i \in 1 .. Len(fifo) - k : t[i] = fifo[k + i]) /\ Len(fifo) \in Nat
  BY <1>1, WsWithout, LenProperties
<1>3. \A i \in 1 .. Len(t) : t[i] = fifo[k + i] /\ k + i \in 1 .. Len(fifo)
  BY <1>2
<1>4. last <= next /\ WsRises(fifo, last, next)
  BY DEF WsInLine
<1>5. \A i, j \in 1 .. Len(t) : i < j => t[i] < t[j]
  <2>1. \A i, j \in 1 .. Len(t) : i < j => k + i < k + j
    BY <1>2
  <2> QED BY <1>3, <1>4, <2>1 DEF WsRises
<1>6. WsRises(t, last, next)
  BY <1>3, <1>4, <1>5 DEF WsRises
<1>7. \A p \in 1 .. Len(queue) : WsFollows(fifo, queue[p]) /\ WsRises(queue[p], last, next)
  BY DEF WsInLine
<1>8. \A p \in 1 .. Len(queue) : WsFollows(t, queue[p])
  BY <1>3, <1>7 DEF WsFollows
<1>9. WsInLine(queue, t, last, next)
  BY <1>4, <1>6, <1>7, <1>8 DEF WsInLine
<1>10. ASSUME k # 0 PROVE fifo[k] \in Nat /\ WsInLine(queue, t, fifo[k], next)
  <2>1. k \in 1 .. Len(fifo) /\ fifo[k] \in Nat
    <3>1. k \in 1 .. Len(fifo)
      BY <1>10
    <3> QED BY <3>1, ElementOfSeq
  <2>2. fifo[k] <= next
    BY <1>4, <2>1 DEF WsRises
  <2>3. \A i \in 1 .. Len(t) : fifo[k] < t[i]
    <3>1. \A i \in 1 .. Len(t) : k < k + i
      BY <1>2
    <3> QED BY <1>3, <1>4, <2>1, <3>1 DEF WsRises
  <2>4. WsRises(t, fifo[k], next)
    BY <1>5, <1>6, <2>3 DEF WsRises
  <2>5. \A p \in 1 .. Len(queue) : WsRises(queue[p], fifo[k], next)
    BY <1>7, <2>1 DEF WsRises, WsFollows
  <2> QED BY <1>8, <1>9, <2>1, <2>2, <2>4, <2>5 DEF WsInLine
<1> QED BY <1>1, <1>9, <1>10

\* Sums that stay: of a packet captured and one lost for it,
LEMMA WsSumCaptured ==
    ASSUME NEW m \in Int, NEW c \in Int, NEW f \in Int, NEW t \in Int, NEW d \in Int, NEW l \in Int,
           NEW n \in Int, NEW lost \in Int, NEW kept \in Int,
           m = c + f + t + d + l, t = lost + kept
    PROVE  m + n = c + f + (kept + n) + d + (l + lost)
OBVIOUS

\* of what goes from the queue to the fifo or is dropped, and from the fifo to the reader,
LEMMA WsSumMoved ==
    ASSUME NEW m \in Int, NEW c \in Int, NEW f \in Int, NEW t \in Int, NEW d \in Int, NEW l \in Int,
           NEW p \in Int, NEW tt \in Int, NEW ff \in Int, NEW dd \in Int, NEW n \in Int,
           m = c + f + t + d + l, t = p + tt, ff + dd + n = f + p + d
    PROVE  m = (c + n) + ff + tt + dd + l
OBVIOUS

\* The same where nothing is delivered between the cut and the read.
LEMMA WsSumCut ==
    ASSUME NEW m \in Int, NEW c \in Int, NEW f \in Int, NEW t \in Int, NEW d \in Int, NEW l \in Int,
           NEW ff \in Int, NEW dd \in Int, NEW n \in Int,
           m = c + f + t + d + l, ff + dd + n = f + d
    PROVE  m = (c + n) + ff + t + dd + l
OBVIOUS

\* and what a cut and a read leave of a backlog.
LEMMA WsCutLeaves ==
    ASSUME NEW f \in Nat, NEW b \in Nat, NEW k \in Nat, NEW a \in Int, a = f - (b + k),
           NEW cut, cut = IF a <= 0 THEN 0 ELSE a
    PROVE  /\ cut \in 0 .. f /\ f - cut <= b + k
           /\ \A n \in Nat : (n = f - cut \/ n = b) /\ n <= f - cut => (f - cut) - n <= k
OBVIOUS

\* A microphone's steps that leave what is captured and read alone.
LEMMA WsMicrophoneRests ==
    ASSUME WsMicrophoneInv,
           \/ \E starts \in BOOLEAN : WsInput(starts)
           \/ \E len \in WsBlocks : WsUse(len)
           \/ WsFails \/ WsWaitEnds("drains") \/ WsReaderEnds \/ WsDeinit
    PROVE  WsMicrophoneInv'
<1>1. UNCHANGED <<wsKind, wsQueue, wsFifo, wsNext, wsHeard, wsDropped, wsLost>>
  BY DEF WsMicrophoneInv, WsUsed, WsInput, WsUse, WsFails, WsWaitEnds, WsReaderEnds, WsDeinit, WsOpens,
         WsStreamSame
<1>2. wsRun' \in BOOLEAN
  BY DEF WsMicrophoneInv, WsTypeOK, WsInput, WsUse, WsFails, WsWaitEnds, WsReaderEnds, WsDeinit
<1>3. wsBlock' \in [len : Nat, done : Nat, first : BOOLEAN, padding : Nat]
  <2>1. WsBlocks \subseteq Nat
    BY WsAssumption
  <2>2. \A len \in WsBlocks : WsBegun(len) \in [len : Nat, done : Nat, first : BOOLEAN, padding : Nat]
    BY <2>1 DEF WsBegun
  <2>3. wsBlock \in [len : Nat, done : Nat, first : BOOLEAN, padding : Nat]
    BY DEF WsMicrophoneInv, WsTypeOK
  <2>4. wsBlock' = wsBlock \/ \E len \in WsBlocks : wsBlock' = WsBegun(len)
    BY DEF WsInput, WsUse, WsFails, WsWaitEnds, WsReaderEnds, WsDeinit
  <2> QED BY <2>2, <2>3, <2>4
<1>4. /\ wsAt' \in {"none", "idle", "drains"} \/ wsAt' = wsAt
      /\ wsAt' \in {"none", "idle"} => wsAt \in {"none", "idle"} /\ wsBlock' = wsBlock
      /\ wsAt' = "idle" => wsAt = "idle" \/ wsFifo = <<>>
      /\ wsObj' \in {"none", "live", "joins", "freed"} /\ wsOpen' \in {"untried", "open", "failed"}
      /\ wsOpen' = "untried" => wsOpen = "untried"
      /\ wsAt' \notin {"none", "idle"} => wsOpen' = "open"
      /\ wsObj' = "none" => wsObj = "none" /\ wsAt' = "none"
      /\ wsObj' = "freed" => wsObj = "freed" /\ wsAt' = "none"
      /\ wsObj' = "joins" /\ wsKind # "ring" => wsAt' = "idle"
  BY DEF WsMicrophoneInv, WsMicrophone, WsUsed, WsTypeOK, WsInput, WsUse, WsFails, WsWaitEnds,
         WsReaderEnds, WsDeinit, WsOpens
<1>5. WsTypeOK'
  BY <1>1, <1>2, <1>3, <1>4 DEF WsMicrophoneInv, WsTypeOK
<1>6. WsUsed'
  BY <1>1, <1>4 DEF WsMicrophoneInv, WsUsed
<1>7. WsMicrophone'
  <2>1. wsAt' \in {"none", "idle", "drains", "trims", "waits"}
    BY <1>4 DEF WsMicrophoneInv, WsMicrophone
  <2>2. wsAt' = "idle" /\ WsKeep > 0 => Len(wsFifo) <= WsKeep
    <3>1. CASE wsAt = "idle"
      BY <3>1 DEF WsMicrophoneInv, WsMicrophone
    <3>2. CASE wsFifo = <<>>
      BY <3>2, WsConstants
    <3> QED BY <1>4, <3>1, <3>2
  <2>3. wsObj' # "freed" => wsObj # "freed"
    BY DEF WsInput, WsUse, WsFails, WsWaitEnds, WsReaderEnds, WsDeinit, WsMicrophoneInv, WsUsed
  <2> QED BY <1>1, <2>1, <2>2, <2>3 DEF WsMicrophoneInv, WsMicrophone
<1> QED BY <1>1, <1>5, <1>6, <1>7 DEF WsMicrophoneInv

\* The end of it.
LEMMA WsMicrophoneFree ==
    ASSUME WsMicrophoneInv, WsFree
    PROVE  WsMicrophoneInv'
<1>1. /\ wsObj = "joins" /\ (wsKind = "ring" => wsAt = "none") /\ wsObj' = "freed" /\ wsAt' = "none"
      /\ wsFifo' = <<>>
      /\ UNCHANGED <<wsKind, wsOpen, wsQueue, wsRun, wsBlock, wsNext, wsHeard, wsDropped, wsLost>>
  BY DEF WsFree
<1>2. wsAt \in {"none", "idle"}
  BY <1>1 DEF WsMicrophoneInv, WsUsed
<1>3. WsTypeOK'
  BY <1>1, EmptySeq DEF WsMicrophoneInv, WsTypeOK
<1>4. WsUsed'
  BY <1>1, <1>2 DEF WsMicrophoneInv, WsUsed
<1>5. WsInLine(wsQueue, <<>>, wsHeard.last, wsNext)
  <2>1. WsInLine(wsQueue, wsFifo, wsHeard.last, wsNext)
    BY DEF WsMicrophoneInv, WsMicrophone
  <2>2. WsRises(<<>>, wsHeard.last, wsNext) /\ \A p \in 1 .. Len(wsQueue) : WsFollows(<<>>, wsQueue[p])
    BY DEF WsRises, WsFollows
  <2> QED BY <2>1, <2>2 DEF WsInLine
<1>6. WsMicrophone'
  <2>1. Len(wsFifo') <= WsFifoCap
    BY <1>1, WsConstants DEF WsFifoCap
  <2> QED BY <1>1, <1>5, <2>1 DEF WsMicrophoneInv, WsMicrophone
<1> QED BY <1>1, <1>3, <1>4, <1>6 DEF WsMicrophoneInv

\* The numbers a microphone's state is made of.
LEMMA WsMicrophoneTypes ==
    ASSUME WsMicrophoneInv
    PROVE  /\ wsQueue \in Seq(Seq(Nat)) /\ wsFifo \in Seq(Nat) /\ Len(wsFifo) \in Nat
           /\ Len(FlattenSeq(wsQueue)) \in Nat /\ wsNext \in Nat /\ wsDropped \in Nat /\ wsLost \in Nat
           /\ wsHeard.last \in Nat /\ wsHeard.count \in Nat /\ wsBlock.len \in Nat
           /\ WsInLine(wsQueue, wsFifo, wsHeard.last, wsNext)
<1>1. wsQueue \in Seq(Seq(Nat)) /\ WsInLine(wsQueue, wsFifo, wsHeard.last, wsNext)
  BY DEF WsMicrophoneInv, WsMicrophone
<1>2. /\ wsFifo \in Seq(Nat) /\ wsNext \in Nat /\ wsDropped \in Nat /\ wsLost \in Nat
      /\ wsHeard.last \in Nat /\ wsHeard.count \in Nat /\ wsBlock.len \in Nat
  BY DEF WsMicrophoneInv, WsTypeOK
<1> QED BY <1>1, <1>2, TotalOfNone, LenProperties

\* A packet is captured, and the oldest lost where there is no room.
LEMMA WsMicrophoneCaptures ==
    ASSUME WsMicrophoneInv, NEW n \in 1 .. WsPeriod, WsCaptures(n)
    PROVE  WsMicrophoneInv'
<1> DEFINE full == Len(FlattenSeq(wsQueue)) + n > WsBuffer
<1>1. /\ wsOpen = "open" /\ wsNext' = wsNext + n /\ wsObj # "freed"
      /\ UNCHANGED <<wsKind, wsObj, wsOpen, wsFifo, wsRun, wsAt, wsBlock, wsHeard, wsDropped>>
  BY DEF WsCaptures
<1>2. /\ wsQueue \in Seq(Seq(Nat)) /\ wsFifo \in Seq(Nat) /\ Len(wsFifo) \in Nat
      /\ Len(FlattenSeq(wsQueue)) \in Nat /\ wsNext \in Nat /\ wsDropped \in Nat /\ wsLost \in Nat
      /\ wsHeard.last \in Nat /\ wsHeard.count \in Nat
      /\ WsInLine(wsQueue, wsFifo, wsHeard.last, wsNext)
  BY WsMicrophoneTypes
<1>3. n \in Nat /\ n <= WsBuffer /\ WsBuffer \in Nat
  BY WsConstants
<1>4. PICK kept : kept = IF full THEN Tail(wsQueue) ELSE wsQueue
  OBVIOUS
<1>5. PICK lost : lost = IF full THEN Len(Head(wsQueue)) ELSE 0
  OBVIOUS
<1>6. wsQueue' = Append(kept, WsFrames(wsNext, n)) /\ wsLost' = wsLost + lost
  BY <1>4, <1>5 DEF WsCaptures
<1>7. /\ kept \in Seq(Seq(Nat)) /\ lost \in Nat /\ Len(FlattenSeq(wsQueue)) = lost + Len(FlattenSeq(kept))
      /\ WsInLine(kept, wsFifo, wsHeard.last, wsNext)
  <2>1. CASE full
    <3>1. wsQueue # <<>>
      <4>1. ASSUME wsQueue = <<>> PROVE FALSE
        <5>1. Len(FlattenSeq(wsQueue)) = 0
          BY <1>2, <4>1, TotalOfNone
        <5> QED BY <1>3, <2>1, <5>1
      <4> QED BY <4>1
    <3>2. kept = Tail(wsQueue) /\ lost = Len(Head(wsQueue))
      BY <1>4, <1>5, <2>1
    <3>3. kept \in Seq(Seq(Nat)) /\ lost \in Nat
      BY <1>2, <3>1, <3>2, HeadTailProperties, LenProperties
    <3>4. Len(FlattenSeq(wsQueue)) = lost + Len(FlattenSeq(kept))
      BY <1>2, <3>1, <3>2, TotalOfTail
    <3>5. WsInLine(kept, wsFifo, wsHeard.last, wsNext)
      BY <1>2, <3>1, <3>2, WsInLineTail
    <3> QED BY <3>3, <3>4, <3>5
  <2>2. CASE ~full
    BY <1>2, <1>4, <1>5, <2>2
  <2> QED BY <2>1, <2>2
<1> HIDE DEF full
<1>8. PICK x \in Seq(Nat) : x = WsFrames(wsNext, n) /\ Len(x) = n
  BY <1>2, <1>3, WsFramesIs
<1>9. wsQueue' \in Seq(Seq(Nat)) /\ Len(FlattenSeq(wsQueue')) = Len(FlattenSeq(kept)) + n
  BY <1>6, <1>7, <1>8, AppendProperties, TotalOfAppend, SMTT(30)
<1>10. WsInLine(wsQueue', wsFifo, wsHeard.last, wsNext')
  BY <1>1, <1>2, <1>3, <1>6, <1>7, WsInLineCaptured
<1>11. wsNext' = wsHeard.count + Len(wsFifo) + Len(FlattenSeq(wsQueue')) + wsDropped + wsLost'
  <2>1. wsNext = wsHeard.count + Len(wsFifo) + Len(FlattenSeq(wsQueue)) + wsDropped + wsLost
    BY <1>1 DEF WsMicrophoneInv, WsMicrophone
  <2>2. Len(FlattenSeq(kept)) \in Nat
    BY <1>7, TotalOfNone
  <2>3. PICK t \in Int : t = Len(FlattenSeq(wsQueue))
    BY <1>2
  <2>4. PICK k \in Int : k = Len(FlattenSeq(kept))
    BY <2>2
  <2>5. wsNext = wsHeard.count + Len(wsFifo) + t + wsDropped + wsLost /\ t = lost + k
    BY <1>7, <2>1, <2>3, <2>4
  <2>6. wsNext \in Int /\ wsHeard.count \in Int /\ Len(wsFifo) \in Int /\ wsDropped \in Int
        /\ wsLost \in Int /\ n \in Int /\ lost \in Int
    BY <1>2, <1>3, <1>7
  <2>7. wsNext + n = wsHeard.count + Len(wsFifo) + (k + n) + wsDropped + (wsLost + lost)
    BY <2>5, <2>6, WsSumCaptured, SMTT(30)
  <2> QED BY <1>1, <1>6, <1>9, <2>4, <2>7
<1>12. wsNext' \in Nat /\ wsLost' \in Nat
  BY <1>1, <1>2, <1>3, <1>6, <1>7
<1>13. WsTypeOK' /\ WsUsed'
  BY <1>1, <1>12 DEF WsMicrophoneInv, WsTypeOK, WsUsed
<1>14. WsMicrophone'
  BY <1>1, <1>9, <1>10, <1>11 DEF WsMicrophoneInv, WsMicrophone
<1> QED BY <1>1, <1>13, <1>14 DEF WsMicrophoneInv

\* A packet goes into the fifo, or is counted, or there is none.
LEMMA WsMicrophoneDrains ==
    ASSUME WsMicrophoneInv, WsDrains
    PROVE  WsMicrophoneInv'
<1>1. /\ wsAt = "drains" /\ wsOpen = "open"
      /\ UNCHANGED <<wsKind, wsObj, wsOpen, wsRun, wsBlock, wsNext, wsHeard, wsLost>>
  BY DEF WsDrains, WsMicrophoneInv, WsUsed
<1>2. /\ wsQueue \in Seq(Seq(Nat)) /\ wsFifo \in Seq(Nat) /\ Len(wsFifo) \in Nat
      /\ Len(FlattenSeq(wsQueue)) \in Nat /\ wsNext \in Nat /\ wsDropped \in Nat /\ wsLost \in Nat
      /\ wsHeard.last \in Nat /\ wsHeard.count \in Nat
      /\ WsInLine(wsQueue, wsFifo, wsHeard.last, wsNext)
  BY WsMicrophoneTypes
<1>3. CASE wsQueue = <<>>
  <2>1. wsAt' = "trims" /\ UNCHANGED <<wsQueue, wsFifo, wsDropped>>
    BY <1>3 DEF WsDrains
  <2> QED BY <1>1, <2>1 DEF WsMicrophoneInv, WsTypeOK, WsUsed, WsMicrophone
<1>4. CASE wsQueue # <<>>
  <2>1. PICK packet \in Seq(Nat) : packet = Head(wsQueue)
    BY <1>2, <1>4, HeadTailProperties
  <2>2. /\ wsQueue' = Tail(wsQueue) /\ wsAt' = wsAt
        /\ \/ /\ Len(wsFifo) + Len(packet) <= WsFifoCap
              /\ wsFifo' = wsFifo \o packet /\ wsDropped' = wsDropped + 0
           \/ wsFifo' = wsFifo /\ wsDropped' = wsDropped + Len(packet)
    BY <1>4, <2>1 DEF WsDrains
  <2>3. wsQueue' \in Seq(Seq(Nat)) /\ Len(packet) \in Nat
    BY <1>2, <1>4, <2>1, <2>2, HeadTailProperties, LenProperties
  <2>4. Len(FlattenSeq(wsQueue)) = Len(packet) + Len(FlattenSeq(wsQueue')) /\ Len(FlattenSeq(wsQueue')) \in Nat
    BY <1>2, <1>4, <2>1, <2>2, <2>3, TotalOfTail, TotalOfNone
  <2>5. /\ wsFifo' \in Seq(Nat) /\ wsDropped' \in Nat /\ Len(wsFifo') <= WsFifoCap
        /\ Len(wsFifo') + wsDropped' = Len(wsFifo) + Len(packet) + wsDropped
        /\ Len(wsFifo') \in Nat
        /\ WsInLine(wsQueue', wsFifo', wsHeard.last, wsNext)
    <3>1. CASE wsFifo' = wsFifo /\ wsDropped' = wsDropped + Len(packet)
      <4>1. WsInLine(wsQueue', wsFifo', wsHeard.last, wsNext)
        BY <1>2, <1>4, <2>2, <3>1, WsInLineTail
      <4>2. Len(wsFifo) <= WsFifoCap
        BY DEF WsMicrophoneInv, WsMicrophone
      <4> QED BY <1>2, <2>3, <3>1, <4>1, <4>2
    <3>2. CASE /\ Len(wsFifo) + Len(packet) <= WsFifoCap
               /\ wsFifo' = wsFifo \o packet /\ wsDropped' = wsDropped + 0
      <4>1. wsFifo' \in Seq(Nat) /\ Len(wsFifo') = Len(wsFifo) + Len(packet)
        BY <1>2, <2>1, <3>2, ConcatProperties
      <4>2. WsInLine(wsQueue', wsFifo', wsHeard.last, wsNext)
        BY <1>2, <1>4, <2>1, <2>2, <3>2, WsInLineTaken
      <4> QED BY <1>2, <2>3, <3>2, <4>1, <4>2
    <3> QED BY <2>2, <3>1, <3>2
  <2>6. wsObj # "freed" =>
          wsNext = wsHeard.count + Len(wsFifo') + Len(FlattenSeq(wsQueue')) + wsDropped' + wsLost
    <3>1. wsObj # "freed" =>
            wsNext = wsHeard.count + Len(wsFifo) + Len(FlattenSeq(wsQueue)) + wsDropped + wsLost
      BY DEF WsMicrophoneInv, WsMicrophone
    <3>2. PICK t \in Int : t = Len(FlattenSeq(wsQueue))
      BY <1>2
    <3>3. PICK tt \in Int : tt = Len(FlattenSeq(wsQueue'))
      BY <2>4
    <3>4. PICK p \in Int : p = Len(packet)
      BY <2>3
    <3>5. PICK ff \in Int : ff = Len(wsFifo')
      BY <2>5
    <3>6. PICK dd \in Int : dd = wsDropped'
      BY <2>5
    <3>7. PICK f \in Int : f = Len(wsFifo)
      BY <1>2
    <3>8. t = p + tt /\ ff + dd = f + p + wsDropped
      BY <2>4, <2>5, <3>2, <3>3, <3>4, <3>5, <3>6, <3>7
    <3>9. ff + dd + 0 = f + p + wsDropped
      BY <3>8
    <3>10. wsNext \in Int /\ wsHeard.count \in Int /\ wsDropped \in Int /\ wsLost \in Int /\ 0 \in Int
           /\ wsHeard.count + 0 = wsHeard.count
      BY <1>2
    <3>11. ASSUME wsObj # "freed"
           PROVE  wsNext = wsHeard.count + ff + tt + dd + wsLost
      <4>1. wsNext = wsHeard.count + f + t + wsDropped + wsLost
        BY <3>1, <3>2, <3>7, <3>11
      <4>2. wsNext = (wsHeard.count + 0) + ff + tt + dd + wsLost
        BY <3>8, <3>9, <3>10, <4>1, WsSumMoved, SMTT(30)
      <4> QED BY <3>10, <4>2
    <3> QED BY <3>3, <3>5, <3>6, <3>11
  <2>7. WsTypeOK' /\ WsUsed'
    BY <1>1, <2>2, <2>5 DEF WsMicrophoneInv, WsTypeOK, WsUsed
  <2>8. WsMicrophone'
    BY <1>1, <2>2, <2>3, <2>5, <2>6 DEF WsMicrophoneInv, WsMicrophone
  <2> QED BY <1>1, <2>7, <2>8 DEF WsMicrophoneInv
<1> QED BY <1>3, <1>4

\* The backlog is cut, and the read ends with what there is or waits for more.
LEMMA WsMicrophoneTrims ==
    ASSUME WsMicrophoneInv, WsTrims
    PROVE  WsMicrophoneInv'
<1>1. /\ wsAt = "trims" /\ wsOpen = "open" /\ wsObj # "freed" /\ wsObj # "none"
      /\ wsObj = "joins" => wsKind = "ring"
      /\ UNCHANGED <<wsKind, wsObj, wsOpen, wsQueue, wsRun, wsNext, wsLost>>
  BY DEF WsTrims, WsMicrophoneInv, WsUsed
<1>2. /\ wsQueue \in Seq(Seq(Nat)) /\ wsFifo \in Seq(Nat) /\ Len(wsFifo) \in Nat
      /\ Len(FlattenSeq(wsQueue)) \in Nat /\ wsNext \in Nat /\ wsDropped \in Nat /\ wsLost \in Nat
      /\ wsHeard.last \in Nat /\ wsHeard.count \in Nat /\ wsBlock.len \in Nat
      /\ WsInLine(wsQueue, wsFifo, wsHeard.last, wsNext)
  BY WsMicrophoneTypes
<1>3. PICK cut : cut = WsCut
  OBVIOUS
<1>4. /\ cut \in 0 .. Len(wsFifo)
      /\ WsKeep > 0 => \A n \in Nat : (n = Len(wsFifo) - cut \/ n = wsBlock.len) /\ n <= Len(wsFifo) - cut
                                       => (Len(wsFifo) - cut) - n <= WsKeep
  <2>0. WsKeep \in Nat
    BY WsConstants
  <2>1. CASE WsKeep = 0
    BY <1>2, <1>3, <2>1 DEF WsCut
  <2>2. CASE WsKeep # 0
    <3>a. PICK f \in Nat : f = Len(wsFifo)
      BY <1>2
    <3>b. PICK b \in Nat : b = wsBlock.len
      BY <1>2
    <3>1. PICK a \in Int : a = f - (b + WsKeep)
      BY <2>0
    <3>2. cut = IF a <= 0 THEN 0 ELSE a
      BY <1>3, <2>2, <3>a, <3>b, <3>1, WsMaxOf DEF WsCut
    <3>3. /\ cut \in 0 .. f
          /\ \A n \in Nat : (n = f - cut \/ n = b) /\ n <= f - cut => (f - cut) - n <= WsKeep
      BY <2>0, <3>1, <3>2, WsCutLeaves
    <3> QED BY <3>a, <3>b, <3>3
  <2> QED BY <2>1, <2>2
<1>5. PICK rest : rest = SubSeq(wsFifo, 1 + cut, Len(wsFifo))
  OBVIOUS
<1>6. /\ rest \in Seq(Nat) /\ Len(rest) = Len(wsFifo) - cut /\ Len(rest) \in Nat
      /\ WsInLine(wsQueue, rest, wsHeard.last, wsNext)
  BY <1>2, <1>4, <1>5, WsWithout, LenProperties, WsInLineRead
<1>7. PICK n \in Nat : n = Min({Len(rest), wsBlock.len}) /\ n <= Len(rest) /\ n <= wsBlock.len
                       /\ (n = Len(rest) \/ n = wsBlock.len)
  <2>1. PICK a \in Nat, b \in Nat : a = Len(rest) /\ b = wsBlock.len
    BY <1>2, <1>6
  <2>2. PICK n \in Nat : n = Min({a, b}) /\ n <= a /\ n <= b /\ (n = a \/ n = b)
    BY <2>1, WsMinOf
  <2> QED BY <2>1, <2>2
<1>8. /\ wsDropped' = wsDropped + cut
      /\ \/ /\ wsAt' = "idle" /\ wsBlock' = WsNoBlock
            /\ wsFifo' = SubSeq(rest, 1 + n, Len(rest))
            /\ wsHeard' = [last |-> IF n = 0 THEN wsHeard.last ELSE rest[n],
                           count |-> wsHeard.count + n]
         \/ wsAt' = "waits" /\ wsFifo' = rest /\ UNCHANGED <<wsBlock, wsHeard>>
  BY <1>3, <1>5, <1>7 DEF WsTrims
<1>9. wsDropped' \in Nat /\ cut \in Nat
  BY <1>2, <1>4, <1>8
<1>10. wsNext = wsHeard.count + Len(wsFifo) + Len(FlattenSeq(wsQueue)) + wsDropped + wsLost
       /\ Len(wsFifo) <= WsFifoCap /\ WsFifoCap \in Nat
  <2>1. WsFifoCap \in Nat
    BY WsConstants DEF WsFifoCap
  <2> QED BY <1>1, <2>1 DEF WsMicrophoneInv, WsMicrophone
<1>11. CASE wsAt' = "waits" /\ wsFifo' = rest /\ UNCHANGED <<wsBlock, wsHeard>>
  <2>1. wsNext = wsHeard.count + Len(rest) + Len(FlattenSeq(wsQueue)) + wsDropped' + wsLost
        /\ Len(rest) <= WsFifoCap
    <3>1. PICK r \in Int : r = Len(rest)
      BY <1>6
    <3>2. PICK f \in Int : f = Len(wsFifo)
      BY <1>2
    <3>3. PICK dd \in Int : dd = wsDropped'
      BY <1>9
    <3>4. r = f - cut /\ dd = wsDropped + cut /\ f <= WsFifoCap /\ cut \in Nat /\ WsFifoCap \in Nat
      BY <1>6, <1>8, <1>9, <1>10, <3>1, <3>2, <3>3
    <3>5. PICK d \in Int : d = wsDropped
      BY <1>2
    <3>6. r + dd = f + d /\ r <= WsFifoCap
      BY <3>4, <3>5
    <3>7. PICK t \in Int : t = Len(FlattenSeq(wsQueue))
      BY <1>2
    <3>8. PICK m \in Int, c \in Int, l \in Int : m = wsNext /\ c = wsHeard.count /\ l = wsLost
      BY <1>2
    <3>9. m = c + f + t + d + l
      BY <1>10, <3>2, <3>5, <3>7, <3>8
    <3>10. m = c + r + t + dd + l
      <4>1. /\ m \in Int /\ c \in Int /\ l \in Int /\ r \in Int /\ f \in Int /\ t \in Int
            /\ d \in Int /\ dd \in Int
        BY <3>1, <3>2, <3>3, <3>5, <3>7, <3>8
      <4>2. r + dd = f + d /\ m = c + f + t + d + l
        BY <3>6, <3>9
      <4> QED BY <4>1, <4>2
    <3> QED BY <3>1, <3>3, <3>6, <3>7, <3>8, <3>10
  <2>2. WsTypeOK' /\ WsUsed'
    BY <1>1, <1>6, <1>9, <1>11 DEF WsMicrophoneInv, WsTypeOK, WsUsed
  <2>3. WsMicrophone'
    BY <1>1, <1>2, <1>6, <1>11, <2>1 DEF WsMicrophone
  <2> QED BY <1>1, <2>2, <2>3 DEF WsMicrophoneInv
<1>12. CASE /\ wsAt' = "idle" /\ wsBlock' = WsNoBlock
            /\ wsFifo' = SubSeq(rest, 1 + n, Len(rest))
            /\ wsHeard' = [last |-> IF n = 0 THEN wsHeard.last ELSE rest[n],
                           count |-> wsHeard.count + n]
  <2>1. n \in 0 .. Len(rest)
    BY <1>6, <1>7
  <2>2. wsFifo' \in Seq(Nat) /\ Len(wsFifo') = Len(rest) - n
    BY <1>6, <1>12, <2>1, WsWithout
  <2>3. PICK last : last = IF n = 0 THEN wsHeard.last ELSE rest[n]
    OBVIOUS
  <2>4. last \in Nat /\ WsInLine(wsQueue, wsFifo', last, wsNext)
    <3>1. CASE n = 0
      BY <1>2, <1>6, <1>12, <2>1, <2>3, <3>1, WsInLineRead
    <3>2. CASE n # 0
      BY <1>2, <1>6, <1>12, <2>1, <2>3, <3>2, WsInLineRead
    <3> QED BY <3>1, <3>2
  <2>5. PICK count \in Nat : count = wsHeard.count + n
    BY <1>2
  <2>6. wsHeard' = [last |-> last, count |-> count]
    BY <1>12, <2>3, <2>5
  <2>7. wsHeard' \in [last : Nat, count : Nat] /\ wsHeard'.last = last /\ wsHeard'.count = count
    BY <2>4, <2>6
  <2>8. wsNext = count + Len(wsFifo') + Len(FlattenSeq(wsQueue)) + wsDropped' + wsLost
        /\ Len(wsFifo') <= WsFifoCap
    <3>1. PICK r \in Int : r = Len(rest)
      BY <1>6
    <3>2. PICK f \in Int : f = Len(wsFifo)
      BY <1>2
    <3>3. PICK dd \in Int : dd = wsDropped'
      BY <1>9
    <3>4. r = f - cut /\ dd = wsDropped + cut /\ f <= WsFifoCap /\ cut \in Nat /\ WsFifoCap \in Nat
      BY <1>6, <1>8, <1>9, <1>10, <3>1, <3>2, <3>3
    <3>5. PICK d \in Int : d = wsDropped
      BY <1>2
    <3>a. PICK ff : ff = Len(wsFifo')
      OBVIOUS
    <3>b. ff = r - n /\ ff \in Int
      BY <2>2, <3>1, <3>a
    <3>6. ff + dd + n = f + d /\ ff <= WsFifoCap
      BY <3>4, <3>5, <3>b
    <3>7. PICK t \in Int : t = Len(FlattenSeq(wsQueue))
      BY <1>2
    <3>8. PICK m \in Int, c \in Int, l \in Int : m = wsNext /\ c = wsHeard.count /\ l = wsLost
      BY <1>2
    <3>9. m = c + f + t + d + l /\ n \in Int
      BY <1>10, <3>2, <3>5, <3>7, <3>8
    <3>10. m = (c + n) + ff + t + dd + l
      <4>1. /\ m \in Int /\ c \in Int /\ l \in Int /\ ff \in Int /\ f \in Int /\ t \in Int
            /\ d \in Int /\ dd \in Int /\ n \in Int
        BY <3>2, <3>3, <3>5, <3>b, <3>7, <3>8, <3>9
      <4>2. ff + dd + n = f + d /\ m = c + f + t + d + l
        BY <3>6, <3>9
      <4> QED BY <4>1, <4>2, WsSumCut
    <3> QED BY <2>5, <3>3, <3>a, <3>6, <3>7, <3>8, <3>10
  <2>9. WsKeep > 0 => Len(wsFifo') <= WsKeep
    <3>1. n \in Nat /\ (n = Len(wsFifo) - cut \/ n = wsBlock.len) /\ n <= Len(wsFifo) - cut
      BY <1>6, <1>7
    <3>2. Len(wsFifo') = (Len(wsFifo) - cut) - n
      BY <1>6, <2>2
    <3> QED BY <1>4, <3>1, <3>2
  <2>10. wsBlock' \in [len : Nat, done : Nat, first : BOOLEAN, padding : Nat]
    BY <1>12 DEF WsNoBlock
  <2>11. WsTypeOK' /\ WsUsed'
    BY <1>1, <1>9, <1>12, <2>2, <2>7, <2>10 DEF WsMicrophoneInv, WsTypeOK, WsUsed
  <2>12. WsMicrophone'
    BY <1>1, <1>2, <1>12, <2>4, <2>7, <2>8, <2>9 DEF WsMicrophone
  <2> QED BY <1>1, <2>11, <2>12 DEF WsMicrophoneInv
<1> QED BY <1>8, <1>11, <1>12

\* Whatever a microphone does.
LEMMA WsMicrophoneStep ==
    ASSUME WsMicrophoneInv, WsNext
    PROVE  WsMicrophoneInv'
<1>1. wsKind # "speaker" /\ wsAt \in {"none", "idle", "drains", "trims", "waits"}
  BY DEF WsMicrophoneInv, WsMicrophone
<1>2. ~WsSinkOpen /\ ~WsSinkClose /\ ~WsPlays /\ ~WsLooks /\ ~WsCopies /\ ~WsGivesUp
  BY <1>1 DEF WsSinkOpen, WsSinkClose, WsPlays, WsLooks, WsCopies, WsGivesUp
<1>3. \/ \E starts \in BOOLEAN : WsInput(starts)
      \/ \E len \in WsBlocks : WsUse(len)
      \/ WsFails \/ WsWaitEnds("drains") \/ WsReaderEnds \/ WsDeinit
      \/ WsFree \/ WsDrains \/ WsTrims \/ \E n \in 1 .. WsPeriod : WsCaptures(n)
  BY <1>1, <1>2 DEF WsNext
<1>4. CASE \/ \E starts \in BOOLEAN : WsInput(starts)
           \/ \E len \in WsBlocks : WsUse(len)
           \/ WsFails \/ WsWaitEnds("drains") \/ WsReaderEnds \/ WsDeinit
  BY <1>4, WsMicrophoneRests, Zenon
<1>5. CASE WsFree \/ WsDrains \/ WsTrims \/ \E n \in 1 .. WsPeriod : WsCaptures(n)
  BY <1>5, WsMicrophoneFree, WsMicrophoneDrains, WsMicrophoneTrims, WsMicrophoneCaptures
<1> QED BY <1>3, <1>4, <1>5

\* A stream at its start.
LEMMA WsInitInv == WsInit => WsInv
<1> SUFFICES ASSUME WsInit PROVE WsInv
  OBVIOUS
<1>0. <<>> \in Seq(Nat) /\ <<>> \in Seq(Seq(Nat)) /\ Len(<<>>) = 0
  BY EmptySeq
<1>1. /\ wsObj = "none" /\ wsOpen = "untried" /\ wsQueue = <<>> /\ wsFifo = <<>>
      /\ wsRun = FALSE /\ wsAt = "none" /\ wsBlock = WsNoBlock
      /\ wsNext = 0 /\ wsHeard = [last |-> 0, count |-> 0] /\ wsDropped = 0 /\ wsLost = 0
      /\ wsKind \in {"speaker", "mic", "ring"}
  BY DEF WsInit
<1>2. wsBlock \in [len : Nat, done : Nat, first : BOOLEAN, padding : Nat]
      /\ wsBlock.done = 0 /\ ~wsBlock.first
  BY <1>1 DEF WsNoBlock
<1>3. WsTypeOK /\ WsUsed
  BY <1>0, <1>1, <1>2 DEF WsTypeOK, WsUsed
<1>4. WsSpeaker
  BY <1>0, <1>1, <1>2, WsConstants DEF WsSpeaker, WsLine
<1>5. WsMicrophone
  <2>1. Len(FlattenSeq(wsQueue)) = 0
    BY <1>0, <1>1, TotalOfNone
  <2>2. WsInLine(<<>>, <<>>, 0, 0)
    BY DEF WsInLine, WsRises
  <2>3. WsFifoCap \in Nat
    BY WsConstants DEF WsFifoCap
  <2> QED BY <1>0, <1>1, <2>1, <2>2, <2>3 DEF WsMicrophone
<1> QED BY <1>3, <1>4, <1>5 DEF WsInv, WsSpeakerInv, WsMicrophoneInv

\* What a step of either does to the invariant.
LEMMA WsNextInv == WsInv /\ [WsNext]_wsVars => WsInv'
<1> SUFFICES ASSUME WsInv, [WsNext]_wsVars PROVE WsInv'
  OBVIOUS
<1>1. CASE WsNext
  BY <1>1, WsSpeakerStep, WsMicrophoneStep DEF WsInv
<1>2. CASE UNCHANGED wsVars
  BY <1>2 DEF wsVars, WsInv, WsSpeakerInv, WsMicrophoneInv, WsTypeOK, WsUsed, WsSpeaker, WsMicrophone
<1> QED BY <1>1, <1>2

\* The invariant says what is promised.
LEMMA WsInvSafe == WsInv => WsSafe
<1>1. ASSUME WsSpeakerInv PROVE WsSafe
  <2>1. wsQueue \in Seq(Nat) /\ Len(wsQueue) \in Nat /\ wsKind = "speaker"
    BY <1>1, LenProperties DEF WsSpeakerInv, WsSpeaker
  <2>2. WsLine(wsQueue, wsNext + wsBlock.done) /\ Len(wsQueue) <= WsBuffer
        /\ (wsBlock.done > 0 => WsNoGap(wsQueue, wsNext + 1))
    BY <1>1 DEF WsSpeakerInv, WsSpeaker
  <2>3. \A i \in 1 .. Len(wsQueue) - 1 :
          wsQueue[i] # WsSilence => wsQueue[i + 1] = WsSilence \/ wsQueue[i + 1] > wsQueue[i]
    <3>1. \A i \in 1 .. Len(wsQueue) - 1 : i \in 1 .. Len(wsQueue) /\ i + 1 \in 1 .. Len(wsQueue) /\ i < i + 1
      BY <2>1
    <3>2. \A i \in 1 .. Len(wsQueue) : wsQueue[i] \in Nat
      BY <2>1, ElementOfSeq
    <3> QED BY <2>2, <3>1, <3>2 DEF WsLine
  <2>4. WsPlaysInOrder
    BY <2>2, <2>3 DEF WsPlaysInOrder, WsNoGap
  <2>5. WsHeardOrCounted /\ WsBacklog
    BY <2>1 DEF WsHeardOrCounted, WsBacklog
  <2>6. WsFreedUnused
    BY <1>1 DEF WsFreedUnused, WsSpeakerInv, WsUsed
  <2> QED BY <2>4, <2>5, <2>6 DEF WsSafe
<1>2. ASSUME WsMicrophoneInv PROVE WsSafe
  <2>1. wsKind # "speaker" /\ Len(wsFifo) \in Nat /\ wsFifo \in Seq(Nat)
    BY <1>2, WsMicrophoneTypes DEF WsMicrophoneInv
  <2>2. WsRises(wsFifo, wsHeard.last, wsNext)
    BY <1>2 DEF WsMicrophoneInv, WsMicrophone, WsInLine
  <2>3. \A i \in 1 .. Len(wsFifo) : wsFifo[i] > (IF i = 1 THEN wsHeard.last ELSE wsFifo[i - 1])
    <3> SUFFICES ASSUME NEW i \in 1 .. Len(wsFifo)
                 PROVE  wsFifo[i] > (IF i = 1 THEN wsHeard.last ELSE wsFifo[i - 1])
      OBVIOUS
    <3>1. CASE i = 1
      BY <2>2, <3>1 DEF WsRises
    <3>2. CASE i # 1
      <4>1. i - 1 \in 1 .. Len(wsFifo) /\ i - 1 < i
        BY <2>1, <3>2
      <4>2. wsFifo[i - 1] < wsFifo[i]
        BY <2>2, <4>1 DEF WsRises
      <4>3. wsFifo[i - 1] \in Nat /\ wsFifo[i] \in Nat
        BY <2>1, <4>1, ElementOfSeq
      <4> QED BY <3>2, <4>2, <4>3
    <3> QED BY <3>1, <3>2
  <2>4. WsHeardOrCounted
    BY <1>2, <2>3 DEF WsHeardOrCounted, WsMicrophoneInv, WsMicrophone
  <2>5. WsBacklog
    BY <1>2 DEF WsBacklog, WsMicrophoneInv, WsMicrophone
  <2>6. WsPlaysInOrder
    BY <2>1 DEF WsPlaysInOrder
  <2>7. WsFreedUnused
    BY <1>2 DEF WsFreedUnused, WsMicrophoneInv, WsUsed
  <2> QED BY <2>4, <2>5, <2>6, <2>7 DEF WsSafe
<1> QED BY <1>1, <1>2 DEF WsInv

\* Whatever the device plays or captures beside it, and however its buffer,
\* its blocks and its periods fit: what is played is in order and without a
\* gap inside a block, what is heard is in order and everything else counted,
\* and no thread uses what is freed. (audioif_wasapi.c)
THEOREM WsKeepsItsPromises == WsSpec => []WsSafe
<1>1. WsInit => WsInv
  BY WsInitInv
<1>2. WsInv /\ [WsNext]_wsVars => WsInv'
  BY WsNextInv
<1>3. WsInv => WsSafe
  BY WsInvSafe
<1> QED BY <1>1, <1>2, <1>3, PTL DEF WsSpec

-----------------------------------------------------------------------------
(***************************************************************************)
(* A file fed to the pump (FileFeed). What is still to come of it is the   *)
(* ring's blocks, the block in hand and the source block, end to end: a line*)
(* of frames behind the one heard last, and then silence.                  *)
(***************************************************************************)
\* The frame behind frame f, of a file that loops or not.
FfNextOf(f, loop) == IF f = FfFrames /\ loop THEN 1 ELSE f + 1

\* The last frame of a line behind h, of length n.
FfLastOf(h, s, n) == IF n = 0 THEN h ELSE s[n]

\* The first m of s follow one another behind h,
FfRuns(h, s, loop, m) == \A i \in 1 .. m : s[i] = FfNextOf(FfLastOf(h, s, i - 1), loop)

\* and the rest is silence.
FfQuiet(s, m, n) == \A i \in m + 1 .. n : s[i] = 0

\* t is s, and then z.
FfJoins(t, s, ns, z, nz) ==
    (\A i \in 1 .. ns : t[i] = s[i]) /\ (\A i \in 1 .. nz : t[ns + i] = z[i])

\* The frames of a source block read at `at` are those behind.
FfBlockAt(at, n) == [i \in 1 .. n |-> at + i]

\* Two sequences end to end are joined.
LEMMA FfConcatJoins ==
    ASSUME NEW s \in Seq(Nat), NEW z \in Seq(Nat)
    PROVE  /\ s \o z \in Seq(Nat) /\ Len(s \o z) = Len(s) + Len(z)
           /\ Len(s) \in Nat /\ Len(z) \in Nat
           /\ FfJoins(s \o z, s, Len(s), z, Len(z))
<1>1. /\ s \o z \in Seq(Nat) /\ Len(s \o z) = Len(s) + Len(z) /\ Len(s) \in Nat /\ Len(z) \in Nat
  BY ConcatProperties, LenProperties
<1>2. \A i \in 1 .. Len(s) + Len(z) : (s \o z)[i] = IF i <= Len(s) THEN s[i] ELSE z[i - Len(s)]
  BY ConcatProperties
<1>3. PICK t, n, k : t = s \o z /\ n = Len(s) /\ k = Len(z)
  OBVIOUS
<1>4. n \in Nat /\ k \in Nat /\ \A i \in 1 .. n + k : t[i] = IF i <= n THEN s[i] ELSE z[i - n]
  BY <1>1, <1>2, <1>3
<1>5. ASSUME NEW i \in 1 .. n PROVE t[i] = s[i]
  BY <1>4
<1>6. ASSUME NEW i \in 1 .. k PROVE t[n + i] = z[i]
  <2>1. n + i \in 1 .. n + k /\ ~(n + i <= n) /\ n + i - n = i
    BY <1>4
  <2> QED BY <1>4, <2>1
<1>7. FfJoins(t, s, n, z, k)
  BY <1>5, <1>6 DEF FfJoins
<1> QED BY <1>1, <1>3, <1>7

\* Frames are numbered from one on.
LEMMA FfFrameIsNat ==
    ASSUME NEW f \in Nat, NEW loop
    PROVE  FfNextOf(f, loop) \in Nat \ {0}
BY DEF FfNextOf

\* The frames that sound are not silence.
LEMMA FfRunSounds ==
    ASSUME NEW h \in Nat, NEW s, NEW loop, NEW m \in Nat, FfRuns(h, s, loop, m),
           \A i \in 1 .. m : s[i] \in Nat, NEW i \in 1 .. m
    PROVE  s[i] \in Nat \ {0}
<1>1. FfLastOf(h, s, i - 1) \in Nat
  <2>1. i - 1 = 0 \/ i - 1 \in 1 .. m
    OBVIOUS
  <2> QED BY <2>1 DEF FfLastOf
<1>2. s[i] = FfNextOf(FfLastOf(h, s, i - 1), loop)
  BY DEF FfRuns
<1> QED BY <1>1, <1>2, FfFrameIsNat

\* What is joined runs on as far as its beginning does.
LEMMA FfRunStays ==
    ASSUME NEW h, NEW s, NEW loop, NEW m \in Nat, NEW n \in Nat, m <= n,
           NEW t, NEW z, NEW k \in Nat, FfJoins(t, s, n, z, k), NEW i \in 1 .. m,
           FfRuns(h, s, loop, m)
    PROVE  t[i] = FfNextOf(FfLastOf(h, t, i - 1), loop)
<1>1. t[i] = s[i] /\ (i - 1 # 0 => t[i - 1] = s[i - 1])
  <2>1. i \in 1 .. n /\ (i - 1 # 0 => i - 1 \in 1 .. n)
    OBVIOUS
  <2> QED BY <2>1 DEF FfJoins
<1>2. FfLastOf(h, t, i - 1) = FfLastOf(h, s, i - 1)
  BY <1>1 DEF FfLastOf
<1>3. s[i] = FfNextOf(FfLastOf(h, s, i - 1), loop)
  BY DEF FfRuns
<1> QED BY <1>1, <1>2, <1>3

\* A line that is all frames grows by those of the next source block,
LEMMA FfRunReads ==
    ASSUME NEW h, NEW s, NEW loop, NEW ns \in Nat, FfRuns(h, s, loop, ns),
           NEW at \in Nat, NEW n \in Nat, FfFrames \in Nat, n # 0 => at + n <= FfFrames,
           FfNextOf(FfLastOf(h, s, ns), loop) = at + 1,
           NEW t, FfJoins(t, s, ns, FfBlockAt(at, n), n)
    PROVE  /\ FfRuns(h, t, loop, ns + n)
           /\ FfLastOf(h, t, ns + n) = IF n = 0 THEN FfLastOf(h, s, ns) ELSE at + n
<1>1. ASSUME NEW i \in 1 .. n PROVE t[ns + i] = at + i
  <2>1. FfBlockAt(at, n)[i] = at + i
    BY DEF FfBlockAt
  <2> QED BY <2>1 DEF FfJoins
<1>2. ASSUME NEW i \in 1 .. ns + n PROVE t[i] = FfNextOf(FfLastOf(h, t, i - 1), loop)
  <2>1. CASE i <= ns
    <3>1. i \in 1 .. ns
      BY <2>1
    <3> QED BY <3>1, FfRunStays
  <2>2. CASE i = ns + 1
    <3>1. 1 \in 1 .. n
      BY <2>2
    <3>2. t[i] = at + 1
      BY <1>1, <2>2, <3>1
    <3>3. FfLastOf(h, s, ns) = FfLastOf(h, t, i - 1)
      <4>1. i - 1 = ns /\ (ns # 0 => ns \in 1 .. ns)
        BY <2>2
      <4>2. ns # 0 => t[ns] = s[ns]
        BY <4>1 DEF FfJoins
      <4> QED BY <4>1, <4>2 DEF FfLastOf
    <3> QED BY <3>2, <3>3
  <2>3. CASE i > ns + 1
    <3>1. PICK j \in 1 .. n : i = ns + j
      <4>1. i - ns \in 1 .. n /\ i = ns + (i - ns)
        BY <2>3
      <4> QED BY <4>1
    <3>2. j - 1 \in 1 .. n /\ i - 1 = ns + (j - 1) /\ i - 1 # 0
      BY <2>3, <3>1
    <3>3. t[i] = at + j /\ t[i - 1] = at + (j - 1)
      BY <1>1, <3>1, <3>2
    <3>4. at + (j - 1) # FfFrames /\ at + (j - 1) + 1 = at + j
      BY <3>1, <3>2
    <3>5. FfLastOf(h, t, i - 1) = at + (j - 1)
      BY <3>2, <3>3 DEF FfLastOf
    <3> QED BY <3>3, <3>4, <3>5 DEF FfNextOf
  <2> QED BY <2>1, <2>2, <2>3
<1>3. FfLastOf(h, t, ns + n) = IF n = 0 THEN FfLastOf(h, s, ns) ELSE at + n
  <2>1. CASE n = 0
    <3>1. ns # 0 => t[ns] = s[ns]
      <4>1. ns # 0 => ns \in 1 .. ns
        OBVIOUS
      <4> QED BY <4>1 DEF FfJoins
    <3>2. ns + n = ns
      BY <2>1
    <3> QED BY <2>1, <3>1, <3>2 DEF FfLastOf
  <2>2. CASE n # 0
    <3>1. ns + n # 0 /\ n \in 1 .. n
      BY <2>2
    <3>2. t[ns + n] = at + n
      BY <1>1, <3>1
    <3> QED BY <2>2, <3>1, <3>2 DEF FfLastOf
  <2> QED BY <2>1, <2>2
<1> QED BY <1>2, <1>3 DEF FfRuns

\* and any line by silence.
LEMMA FfRunPads ==
    ASSUME NEW h, NEW s, NEW loop, NEW ns \in Nat, NEW m \in 0 .. ns,
           FfRuns(h, s, loop, m), FfQuiet(s, m, ns),
           NEW z, NEW n \in Nat, FfQuiet(z, 0, n), NEW t, FfJoins(t, s, ns, z, n)
    PROVE  FfRuns(h, t, loop, m) /\ FfQuiet(t, m, ns + n)
<1>1. ASSUME NEW i \in 1 .. m PROVE t[i] = FfNextOf(FfLastOf(h, t, i - 1), loop)
  BY FfRunStays
<1>2. ASSUME NEW i \in m + 1 .. ns + n PROVE t[i] = 0
  <2>1. CASE i <= ns
    <3>1. i \in 1 .. ns /\ i \in m + 1 .. ns
      BY <2>1
    <3> QED BY <3>1 DEF FfQuiet, FfJoins
  <2>2. CASE i > ns
    <3>1. PICK j \in 1 .. n : i = ns + j
      <4>1. i - ns \in 1 .. n /\ i = ns + (i - ns)
        BY <2>2
      <4> QED BY <4>1
    <3>2. j \in 0 + 1 .. n
      BY <3>1
    <3> QED BY <3>1, <3>2 DEF FfQuiet, FfJoins
  <2> QED BY <2>1, <2>2
<1> QED BY <1>1, <1>2 DEF FfRuns, FfQuiet

\* What sounds of a block.
FfSoundsOf(b) == {i \in DOMAIN b : b[i] # 0}

\* What is heard last when a block is pulled.
FfHeardOf(h, b) == IF FfSoundsOf(b) = {} THEN h ELSE b[Max(FfSoundsOf(b))]

\* The largest of the first k numbers.
LEMMA FfMaxIs ==
    ASSUME NEW k \in Nat, k # 0
    PROVE  Max(1 .. k) = k
<1>2. k \in 1 .. k /\ \A y \in 1 .. k : k >= y
  OBVIOUS
<1>3. \A x \in 1 .. k : (\A y \in 1 .. k : x >= y) => x = k
  BY <1>2
<1> QED BY <1>2, <1>3 DEF Max

\* How many they are.
LEMMA FfCountIs ==
    ASSUME NEW k \in Nat
    PROVE  Cardinality(1 .. k) = k /\ (1 .. k = {} <=> k = 0)
<1>1. Cardinality(1 .. k) = IF 1 > k THEN 0 ELSE k - 1 + 1
  BY FS_Interval
<1> QED BY <1>1

\* Of a line, a block of frames first and then of silence sounds as far as its frames go,
LEMMA FfBlockSounds ==
    ASSUME NEW h \in Nat, NEW b, NEW nb \in Nat, DOMAIN b = 1 .. nb, \A i \in 1 .. nb : b[i] \in Nat,
           NEW loop, NEW k \in 0 .. nb, FfRuns(h, b, loop, k), FfQuiet(b, k, nb)
    PROVE  /\ FfSoundsOf(b) = 1 .. k /\ Cardinality(FfSoundsOf(b)) = k
           /\ FfHeardOf(h, b) = FfLastOf(h, b, k) /\ FfHeardOf(h, b) \in Nat
<1>1. ASSUME NEW i \in 1 .. nb PROVE b[i] # 0 <=> i \in 1 .. k
  <2>1. CASE i <= k
    <3>1. i \in 1 .. k /\ \A j \in 1 .. k : b[j] \in Nat
      BY <2>1
    <3>2. b[i] \in Nat \ {0}
      BY <3>1, FfRunSounds
    <3> QED BY <3>1, <3>2
  <2>2. CASE i > k
    <3>1. i \in k + 1 .. nb /\ i \notin 1 .. k
      BY <2>2
    <3> QED BY <3>1 DEF FfQuiet
  <2> QED BY <2>1, <2>2
<1>2. 1 .. k \subseteq 1 .. nb
  OBVIOUS
<1>3. FfSoundsOf(b) = 1 .. k
  BY <1>1, <1>2 DEF FfSoundsOf
<1>4. FfHeardOf(h, b) = FfLastOf(h, b, k)
  BY <1>3, FfMaxIs, FfCountIs DEF FfHeardOf, FfLastOf
<1>5. FfLastOf(h, b, k) \in Nat
  BY DEF FfLastOf
<1> QED BY <1>3, <1>4, <1>5, FfCountIs

\* and what is behind a block of nothing but frames is a line behind the last of them,
LEMMA FfRunPulls ==
    ASSUME NEW h, NEW b, NEW nb \in Nat, NEW r, NEW nr \in Nat, NEW t, FfJoins(t, b, nb, r, nr),
           NEW loop, NEW m \in nb .. nb + nr, FfRuns(h, t, loop, m)
    PROVE  FfRuns(FfLastOf(h, b, nb), r, loop, m - nb)
<1>1. SUFFICES ASSUME NEW i \in 1 .. m - nb
               PROVE  r[i] = FfNextOf(FfLastOf(FfLastOf(h, b, nb), r, i - 1), loop)
  BY DEF FfRuns
<1>2. nb + i \in 1 .. m /\ i \in 1 .. nr /\ nb + i - 1 = nb + (i - 1)
  OBVIOUS
<1>3. t[nb + i] = FfNextOf(FfLastOf(h, t, nb + (i - 1)), loop)
  BY <1>2 DEF FfRuns
<1>4. t[nb + i] = r[i]
  BY <1>2 DEF FfJoins
<1>5. FfLastOf(h, t, nb + (i - 1)) = FfLastOf(FfLastOf(h, b, nb), r, i - 1)
  <2>1. CASE i = 1
    <3>1. nb + (i - 1) = nb /\ i - 1 = 0 /\ (nb # 0 => nb \in 1 .. nb)
      BY <2>1
    <3>2. nb # 0 => t[nb] = b[nb]
      BY <3>1 DEF FfJoins
    <3> QED BY <3>1, <3>2 DEF FfLastOf
  <2>2. CASE i # 1
    <3>1. nb + (i - 1) # 0 /\ i - 1 # 0 /\ i - 1 \in 1 .. nr
      BY <1>2, <2>2
    <3>2. t[nb + (i - 1)] = r[i - 1]
      BY <3>1 DEF FfJoins
    <3> QED BY <3>1, <3>2 DEF FfLastOf
  <2> QED BY <2>1, <2>2
<1> QED BY <1>3, <1>4, <1>5

\* with the same end and the same silence.
LEMMA FfRestOfLine ==
    ASSUME NEW h, NEW b, NEW nb \in Nat, NEW r, NEW nr \in Nat, NEW t, FfJoins(t, b, nb, r, nr)
    PROVE  /\ FfLastOf(FfLastOf(h, b, nb), r, nr) = FfLastOf(h, t, nb + nr)
           /\ \A m \in nb .. nb + nr : FfQuiet(t, m, nb + nr) => FfQuiet(r, m - nb, nr)
           /\ \A m \in 0 .. nb : FfQuiet(t, m, nb + nr) => FfQuiet(r, 0, nr) /\ FfQuiet(b, m, nb)
           /\ \A m \in 0 .. nb : \A loop : FfRuns(h, t, loop, m) => FfRuns(h, b, loop, m)
<1>1. FfLastOf(FfLastOf(h, b, nb), r, nr) = FfLastOf(h, t, nb + nr)
  <2>1. CASE nr = 0
    <3>1. nb + nr = nb /\ (nb # 0 => nb \in 1 .. nb)
      BY <2>1
    <3>2. nb # 0 => t[nb] = b[nb]
      BY <3>1 DEF FfJoins
    <3> QED BY <2>1, <3>1, <3>2 DEF FfLastOf
  <2>2. CASE nr # 0
    <3>1. nb + nr # 0 /\ nr \in 1 .. nr
      BY <2>2
    <3>2. t[nb + nr] = r[nr]
      BY <3>1 DEF FfJoins
    <3> QED BY <2>2, <3>1, <3>2 DEF FfLastOf
  <2> QED BY <2>1, <2>2
<1>2. ASSUME NEW m \in nb .. nb + nr, FfQuiet(t, m, nb + nr), NEW i \in (m - nb) + 1 .. nr
      PROVE  r[i] = 0
  <2>1. nb + i \in m + 1 .. nb + nr /\ i \in 1 .. nr
    OBVIOUS
  <2> QED BY <1>2, <2>1 DEF FfQuiet, FfJoins
<1>3. ASSUME NEW m \in 0 .. nb, FfQuiet(t, m, nb + nr), NEW i \in 0 + 1 .. nr
      PROVE  r[i] = 0
  <2>1. nb + i \in m + 1 .. nb + nr /\ i \in 1 .. nr
    OBVIOUS
  <2> QED BY <1>3, <2>1 DEF FfQuiet, FfJoins
<1>4. ASSUME NEW m \in 0 .. nb, FfQuiet(t, m, nb + nr), NEW i \in m + 1 .. nb
      PROVE  b[i] = 0
  <2>1. i \in m + 1 .. nb + nr /\ i \in 1 .. nb
    OBVIOUS
  <2> QED BY <1>4, <2>1 DEF FfQuiet, FfJoins
<1>5. ASSUME NEW m \in 0 .. nb, NEW loop, FfRuns(h, t, loop, m), NEW i \in 1 .. m
      PROVE  b[i] = FfNextOf(FfLastOf(h, b, i - 1), loop)
  <2>1. t[i] = b[i] /\ (i - 1 # 0 => t[i - 1] = b[i - 1])
    <3>1. i \in 1 .. nb /\ (i - 1 # 0 => i - 1 \in 1 .. nb)
      OBVIOUS
    <3> QED BY <3>1 DEF FfJoins
  <2>2. FfLastOf(h, t, i - 1) = FfLastOf(h, b, i - 1)
    BY <2>1 DEF FfLastOf
  <2>3. t[i] = FfNextOf(FfLastOf(h, t, i - 1), loop)
    BY <1>5 DEF FfRuns
  <2> QED BY <2>1, <2>2, <2>3
<1>6. \A m \in nb .. nb + nr : FfQuiet(t, m, nb + nr) => FfQuiet(r, m - nb, nr)
  BY <1>2 DEF FfQuiet
<1>7. \A m \in 0 .. nb : FfQuiet(t, m, nb + nr) => FfQuiet(r, 0, nr)
  BY <1>3 DEF FfQuiet
<1>8. \A m \in 0 .. nb : FfQuiet(t, m, nb + nr) => FfQuiet(b, m, nb)
  BY <1>4 DEF FfQuiet
<1>9. \A m \in 0 .. nb : \A loop : FfRuns(h, t, loop, m) => FfRuns(h, b, loop, m)
  BY <1>5 DEF FfRuns
<1> QED BY <1>1, <1>6, <1>7, <1>8, <1>9

\* What is still to come of a file, s, behind the frame heard last: frames in
\* order, then silence that with the silence already heard is a block at the
\* most, and that is there only once the file has `ended`; a file that is not
\* done has its next frame behind the last of them.
FfPromise(h, s, loop, pads, at, done, ended) ==
    /\ \E m \in 0 .. Len(s) :
         /\ FfRuns(h, s, loop, m) /\ FfQuiet(s, m, Len(s))
         /\ pads + (Len(s) - m) <= FfBlock
         /\ (pads # 0 \/ m # Len(s)) => ended
    /\ ~done => /\ FfNextOf(FfLastOf(h, s, Len(s)), loop) = at + 1
                /\ at < FfFrames \/ (at = 0 /\ FfFrames = 0)

\* The file is over, and its tail has been padded or no feeder is at work.
FfEnded ==
    /\ ffFeed.done /\ ffFeed.src = <<>> /\ ffCall.at # "room"
    /\ ffCall.at = "fill" => Len(ffFeed.buf) = FfBlock

\* The promise of the state as it is.
FfKeeps == FfPromise(ffOut.heard, FfStream, ffObj.loop, ffOut.pads, ffAt, ffFeed.done, FfEnded)

FfTypes ==
    /\ ffAt \in Nat /\ ffFeed \in [src : Seq(Nat), buf : Seq(Nat), done : BOOLEAN]
    /\ ffRing \in Seq(Seq(Nat)) /\ ffObj \in [playing : BOOLEAN, ring : BOOLEAN, loop : BOOLEAN]
    /\ ffCall \in [who : {"none", "play", "node", "poll"}, at : {"off", "room", "fill", "after"}]
    /\ ffOut \in [heard : Nat, pads : Nat, lost : BOOLEAN]
    /\ Len(ffFeed.buf) <= FfBlock

\* The feeder works for a ring, and asks for room only before the end.
FfWorks ==
    /\ ffCall.at \in {"room", "fill"} => ffObj.ring
    /\ ffCall.at = "room" => ~ffFeed.done

\* Without a ring nothing is left of a file.
FfForgot == ffFeed = FfNothing /\ ffRing = <<>> /\ ffOut.pads <= FfBlock

FfInv ==
    /\ FfTypes /\ FfWorks
    /\ ffObj.ring => FfKeeps
    /\ ~ffObj.ring => FfForgot

\* A state is nearer the end than another.
FfNearer(done, ended, d, e) == (done => d) /\ (ended => e)

\* A promise of a state nearer the end.
LEMMA FfPromiseKeeps ==
    ASSUME NEW h, NEW s, NEW loop, NEW pads, NEW at, NEW done, NEW ended,
           FfPromise(h, s, loop, pads, at, done, ended),
           NEW d, NEW e, FfNearer(done, ended, d, e)
    PROVE  FfPromise(h, s, loop, pads, at, d, e)
BY DEF FfPromise, FfNearer

\* A file that has just begun.
LEMMA FfPromiseBegins ==
    ASSUME NEW loop, NEW ended, FfFrames \in Nat, FfBlock \in Nat
    PROVE  FfPromise(0, <<>>, loop, 0, 0, FALSE, ended)
<1>1. Len(<<>>) = 0
  OBVIOUS
<1>2. FfRuns(0, <<>>, loop, 0) /\ FfQuiet(<<>>, 0, 0)
  BY DEF FfRuns, FfQuiet
<1>3. FfNextOf(FfLastOf(0, <<>>, 0), loop) = 0 + 1
  BY DEF FfNextOf, FfLastOf
<1>4. 0 \in 0 .. 0 /\ 0 + (0 - 0) <= FfBlock /\ (0 < FfFrames \/ FfFrames = 0)
  OBVIOUS
<1> QED BY <1>1, <1>2, <1>3, <1>4 DEF FfPromise

\* Where the file is after a block of n frames, and whether that was the last.
FfAtNext(at, n, loop) == IF at + n = FfFrames /\ loop THEN 0 ELSE at + n

\* A file whose last frame is read is done, unless it loops.
FfEnds(at, n, loop, d) == ~d => ~(at + n = FfFrames /\ ~loop)

\* The frames read are promised behind the others.
LEMMA FfPromiseReads ==
    ASSUME NEW h \in Nat, NEW s \in Seq(Nat), NEW loop, NEW pads \in Nat, NEW at \in Nat, NEW e,
           FfPromise(h, s, loop, pads, at, FALSE, FALSE),
           NEW n \in Nat, FfFrames \in Nat, at + n <= FfFrames,
           NEW d, FfEnds(at, n, loop, d)
    PROVE  /\ FfBlockAt(at, n) \in Seq(Nat)
           /\ FfPromise(h, s \o FfBlockAt(at, n), loop, pads, FfAtNext(at, n, loop), d, e)
<1> DEFINE b == FfBlockAt(at, n)
<1>1. b \in Seq(Nat) /\ Len(b) = n
  <2>1. \A i \in 1 .. n : at + i \in Nat
    OBVIOUS
  <2> QED BY <2>1, IsASeq DEF FfBlockAt
<1> HIDE DEF b
<1>a. /\ Len(s \o b) = Len(s) + Len(b) /\ Len(s) \in Nat
      /\ FfJoins(s \o b, s, Len(s), b, Len(b))
  BY <1>1, FfConcatJoins
<1>b. PICK t : t = s \o b
  OBVIOUS
<1>c. PICK ns \in Nat : ns = Len(s)
  BY <1>a
<1>2. t = s \o b /\ Len(s) = ns /\ Len(t) = ns + n /\ FfJoins(t, s, ns, b, n)
  BY <1>1, <1>a, <1>b, <1>c
<1>3. /\ FfRuns(h, s, loop, ns) /\ pads <= FfBlock /\ pads = 0
      /\ FfNextOf(FfLastOf(h, s, ns), loop) = at + 1
      /\ at < FfFrames \/ (at = 0 /\ FfFrames = 0)
  <2>1. PICK m \in 0 .. ns : /\ FfRuns(h, s, loop, m) /\ pads + (ns - m) <= FfBlock
                             /\ ~(pads # 0 \/ m # ns)
    BY <1>2 DEF FfPromise
  <2>2. m = ns /\ pads = 0 /\ pads <= FfBlock
    BY <2>1
  <2> QED BY <1>2, <2>1, <2>2 DEF FfPromise
<1>4. /\ FfRuns(h, t, loop, ns + n)
      /\ FfLastOf(h, t, ns + n) = IF n = 0 THEN FfLastOf(h, s, ns) ELSE at + n
  BY <1>2, <1>3, FfRunReads DEF b
<1>5. FfQuiet(t, ns + n, ns + n)
  BY DEF FfQuiet
<1>6. ns + n \in 0 .. ns + n /\ pads + ((ns + n) - (ns + n)) <= FfBlock
  BY <1>3
<1>7. ~d => /\ FfNextOf(FfLastOf(h, t, ns + n), loop) = FfAtNext(at, n, loop) + 1
            /\ FfAtNext(at, n, loop) < FfFrames \/ (FfAtNext(at, n, loop) = 0 /\ FfFrames = 0)
  <2>1. SUFFICES ASSUME ~d
                 PROVE  /\ FfNextOf(FfLastOf(h, t, ns + n), loop) = FfAtNext(at, n, loop) + 1
                        /\ FfAtNext(at, n, loop) < FfFrames \/ (FfAtNext(at, n, loop) = 0 /\ FfFrames = 0)
    OBVIOUS
  <2>2. CASE n = 0
    <3>1. FfLastOf(h, t, ns + n) = FfLastOf(h, s, ns)
      BY <1>4, <2>2
    <3>2. FfAtNext(at, n, loop) = at
      BY <1>3, <2>2 DEF FfAtNext
    <3> QED BY <1>3, <3>1, <3>2
  <2>3. CASE n # 0 /\ at + n = FfFrames
    <3>1. loop
      BY <2>1, <2>3 DEF FfEnds
    <3>2. FfAtNext(at, n, loop) = 0 /\ FfFrames # 0
      BY <2>3, <3>1 DEF FfAtNext
    <3>3. FfNextOf(at + n, loop) = 1
      BY <2>3, <3>1 DEF FfNextOf
    <3> QED BY <1>4, <2>3, <3>2, <3>3
  <2>4. CASE n # 0 /\ at + n # FfFrames
    <3>1. FfAtNext(at, n, loop) = at + n /\ at + n < FfFrames
      BY <2>4 DEF FfAtNext
    <3>2. FfNextOf(at + n, loop) = at + n + 1
      BY <2>4 DEF FfNextOf
    <3> QED BY <1>4, <2>4, <3>1, <3>2
  <2> QED BY <2>2, <2>3, <2>4
<1>8. FfPromise(h, t, loop, pads, FfAtNext(at, n, loop), d, e)
  BY <1>2, <1>3, <1>4, <1>5, <1>6, <1>7 DEF FfPromise
<1> QED BY <1>1, <1>2, <1>8 DEF b

\* A tail is padded once.
LEMMA FfPromisePads ==
    ASSUME NEW h \in Nat, NEW s \in Seq(Nat), NEW loop, NEW pads \in Nat, NEW at,
           FfPromise(h, s, loop, pads, at, TRUE, FALSE),
           NEW z \in Seq(Nat), FfQuiet(z, 0, Len(z)), Len(z) <= FfBlock, FfBlock \in Nat
    PROVE  FfPromise(h, s \o z, loop, pads, at, TRUE, TRUE)
<1>a. /\ Len(s \o z) = Len(s) + Len(z) /\ Len(s) \in Nat /\ Len(z) \in Nat
      /\ FfJoins(s \o z, s, Len(s), z, Len(z))
  BY FfConcatJoins
<1>b. PICK t : t = s \o z
  OBVIOUS
<1>c. PICK ns \in Nat, n \in Nat : ns = Len(s) /\ n = Len(z)
  BY <1>a
<1>2. t = s \o z /\ Len(s) = ns /\ Len(z) = n /\ Len(t) = ns + n /\ FfJoins(t, s, ns, z, n)
  BY <1>a, <1>b, <1>c
<1>3. FfRuns(h, s, loop, ns) /\ FfQuiet(s, ns, ns) /\ pads = 0
  <2>1. PICK m \in 0 .. ns : FfRuns(h, s, loop, m) /\ ~(pads # 0 \/ m # ns)
    BY <1>2 DEF FfPromise
  <2> QED BY <2>1 DEF FfQuiet
<1>4. ns \in 0 .. ns /\ ns \in 0 .. ns + n
  OBVIOUS
<1>5. FfRuns(h, t, loop, ns) /\ FfQuiet(t, ns, ns + n)
  BY <1>2, <1>3, <1>4, FfRunPads
<1>6. pads + ((ns + n) - ns) <= FfBlock
  BY <1>2, <1>3
<1>7. FfPromise(h, t, loop, pads, at, TRUE, TRUE)
  BY <1>2, <1>4, <1>5, <1>6 DEF FfPromise
<1> QED BY <1>2, <1>7

\* What is pulled is heard, and the promise is that of the rest.
LEMMA FfPromisePulls ==
    ASSUME NEW h \in Nat, NEW b \in Seq(Nat), NEW r \in Seq(Nat), NEW loop, NEW pads \in Nat, NEW at,
           NEW done, NEW ended, FfNearer(ended, ended, done, ended),
           FfPromise(h, b \o r, loop, pads, at, done, ended), FfBlock \in Nat
    PROVE  /\ FfHeardOf(h, b) \in Nat
           /\ pads + Len(b) - Cardinality(FfSoundsOf(b)) \in Nat
           /\ FfPromise(FfHeardOf(h, b), r, loop, pads + Len(b) - Cardinality(FfSoundsOf(b)),
                        at, done, ended)
<1>a. /\ Len(b \o r) = Len(b) + Len(r) /\ Len(b) \in Nat /\ Len(r) \in Nat
      /\ FfJoins(b \o r, b, Len(b), r, Len(r))
  BY FfConcatJoins
<1>b. PICK t : t = b \o r
  OBVIOUS
<1>c. PICK nb \in Nat, nr \in Nat : nb = Len(b) /\ nr = Len(r)
  BY <1>a
<1>1. t = b \o r /\ Len(b) = nb /\ Len(r) = nr /\ Len(t) = nb + nr /\ FfJoins(t, b, nb, r, nr)
  BY <1>a, <1>b, <1>c
<1>2. DOMAIN b = 1 .. nb /\ \A i \in 1 .. nb : b[i] \in Nat
  BY <1>1, LenProperties, ElementOfSeq
<1>3. PICK m \in 0 .. nb + nr :
          /\ FfRuns(h, t, loop, m) /\ FfQuiet(t, m, nb + nr)
          /\ pads + (nb + nr - m) <= FfBlock /\ ((pads # 0 \/ m # nb + nr) => ended)
  BY <1>1 DEF FfPromise
<1>4. ~done => /\ FfNextOf(FfLastOf(h, t, nb + nr), loop) = at + 1
               /\ at < FfFrames \/ (at = 0 /\ FfFrames = 0)
  BY <1>1 DEF FfPromise
<1>5. CASE m >= nb
  <2>1. m \in nb .. nb + nr /\ nb \in 0 .. nb /\ nb <= m
    BY <1>5
  <2>2. FfRuns(h, t, loop, nb) /\ FfQuiet(b, nb, nb)
    <3>1. 1 .. nb \subseteq 1 .. m
      BY <2>1
    <3>2. FfRuns(h, t, loop, nb)
      BY <1>3, <3>1 DEF FfRuns
    <3>3. nb + 1 .. nb = {}
      OBVIOUS
    <3> QED BY <3>2, <3>3 DEF FfQuiet
  <2>3. FfRuns(h, b, loop, nb)
    BY <1>1, <2>1, <2>2, FfRestOfLine
  <2>4. /\ FfSoundsOf(b) = 1 .. nb /\ Cardinality(FfSoundsOf(b)) = nb
        /\ FfHeardOf(h, b) = FfLastOf(h, b, nb) /\ FfHeardOf(h, b) \in Nat
    BY <1>2, <2>1, <2>2, <2>3, FfBlockSounds
  <2>5. FfRuns(FfHeardOf(h, b), r, loop, m - nb)
    BY <1>1, <1>3, <2>1, <2>4, FfRunPulls
  <2>6. FfQuiet(r, m - nb, nr) /\ FfLastOf(FfHeardOf(h, b), r, nr) = FfLastOf(h, t, nb + nr)
    BY <1>1, <1>3, <2>1, <2>4, FfRestOfLine
  <2>7. /\ m - nb \in 0 .. nr /\ pads + nb - nb = pads /\ pads + (nr - (m - nb)) <= FfBlock
        /\ (m - nb # nr => m # nb + nr)
    BY <1>3, <2>1
  <2>8. pads + Len(b) - Cardinality(FfSoundsOf(b)) = pads
    BY <1>1, <2>4, <2>7
  <2>9. FfPromise(FfHeardOf(h, b), r, loop, pads, at, done, ended)
    BY <1>1, <1>3, <1>4, <2>5, <2>6, <2>7 DEF FfPromise
  <2> QED BY <2>4, <2>8, <2>9
<1>6. CASE m < nb
  <2>1. m \in 0 .. nb
    BY <1>6
  <2>2. FfRuns(h, b, loop, m) /\ FfQuiet(r, 0, nr) /\ FfQuiet(b, m, nb)
    BY <1>1, <1>3, <2>1, FfRestOfLine
  <2>4. /\ Cardinality(FfSoundsOf(b)) = m /\ FfHeardOf(h, b) \in Nat
    BY <1>2, <2>1, <2>2, FfBlockSounds
  <2>5. ended /\ done
    BY <1>3, <1>6 DEF FfNearer
  <2>6. FfRuns(FfHeardOf(h, b), r, loop, 0) /\ 0 \in 0 .. nr
    BY DEF FfRuns
  <2>7. pads + nb - m \in Nat /\ (pads + nb - m) + (nr - 0) <= FfBlock
    BY <1>3, <1>6
  <2>8. PICK p \in Nat : p = pads + Len(b) - Cardinality(FfSoundsOf(b)) /\ p + (nr - 0) <= FfBlock
    BY <1>1, <2>4, <2>7
  <2>9. FfPromise(FfHeardOf(h, b), r, loop, p, at, done, ended)
    BY <1>1, <2>2, <2>5, <2>6, <2>8 DEF FfPromise
  <2> QED BY <2>4, <2>8, <2>9
<1> QED BY <1>5, <1>6

\* Three sequences end to end, in named parts.
LEMMA FfAssoc ==
    \A f, b, x \in Seq(Nat) : (f \o b) \o x = f \o (b \o x)
BY ConcatAssociative

\* A sequence is its first n elements and the rest.
LEMMA FfSplits ==
    ASSUME NEW s \in Seq(Nat), NEW n \in 1 .. Len(s)
    PROVE  /\ SubSeq(s, 1, n) \in Seq(Nat) /\ SubSeq(s, n + 1, Len(s)) \in Seq(Nat)
           /\ Len(SubSeq(s, 1, n)) = n
           /\ SubSeq(s, 1, n) \o SubSeq(s, n + 1, Len(s)) = s
<1>1. PICK k \in Nat : k = Len(s)
  BY LenProperties
<1>2. n \in 1 .. k /\ n \in 1 .. k + 1 /\ 1 \in 1 .. n + 1 /\ n \in 0 .. k /\ n + 1 \in 1 .. k + 1
  BY <1>1
<1>3. SubSeq(s, 1, n) \o SubSeq(s, n + 1, k) = SubSeq(s, 1, k)
  <2>1. 1 \in 1 .. Len(s) + 1 /\ n \in 1 - 1 .. k /\ k \in n .. Len(s)
    BY <1>1, <1>2
  <2> QED BY <2>1, ConcatAdjacentSubSeq
<1>4. SubSeq(s, 1, Len(s)) = s
  BY SubSeqFull
<1>5. SubSeq(s, 1, n) \in Seq(Nat) /\ Len(SubSeq(s, 1, n)) = n
  <2>1. /\ SubSeq(s, 1, n) \in Seq(Nat)
        /\ Len(SubSeq(s, 1, n)) = IF 1 <= n THEN n - 1 + 1 ELSE 0
    <3>1. 1 \in 1 .. Len(s) + 1 /\ n \in 1 - 1 .. Len(s)
      BY <1>1, <1>2
    <3> QED BY <3>1, SubSeqProperties
  <2> QED BY <2>1
<1>6. SubSeq(s, n + 1, k) \in Seq(Nat)
  <2>1. n + 1 \in 1 .. Len(s) + 1 /\ k \in n + 1 - 1 .. Len(s)
    BY <1>1, <1>2
  <2> QED BY <2>1, SubSeqProperties
<1> QED BY <1>1, <1>3, <1>4, <1>5, <1>6

\* The silence that fills a block up.
FfSilence(n) == [i \in 1 .. n |-> 0]

\* A block padded to n is the block and silence.
LEMMA FfPadded ==
    ASSUME NEW b \in Seq(Nat), NEW n \in Nat, Len(b) <= n
    PROVE  /\ FfSilence(n - Len(b)) \in Seq(Nat) /\ Len(FfSilence(n - Len(b))) = n - Len(b)
           /\ FfQuiet(FfSilence(n - Len(b)), 0, n - Len(b))
           /\ [i \in 1 .. n |-> IF i <= Len(b) THEN b[i] ELSE 0] \in Seq(Nat)
           /\ Len([i \in 1 .. n |-> IF i <= Len(b) THEN b[i] ELSE 0]) = n
           /\ [i \in 1 .. n |-> IF i <= Len(b) THEN b[i] ELSE 0] = b \o FfSilence(n - Len(b))
<1>1. PICK k \in Nat : k = Len(b)
  BY LenProperties
<1>2. PICK d \in Nat : d = n - k /\ k + d = n
  BY <1>1
<1>3. PICK z : z = FfSilence(d)
  OBVIOUS
<1>4. z \in Seq(Nat) /\ Len(z) = d /\ \A i \in 1 .. d : z[i] = 0
  <2>1. \A i \in 1 .. d : 0 \in Nat
    OBVIOUS
  <2>2. z = [i \in 1 .. d |-> 0]
    BY <1>3 DEF FfSilence
  <2>3. z \in Seq(Nat)
    BY <2>1, <2>2, IsASeq
  <2> QED BY <2>2, <2>3
<1>5. FfQuiet(z, 0, d)
  BY <1>4 DEF FfQuiet
<1>6. PICK w : w = [i \in 1 .. n |-> IF i <= k THEN b[i] ELSE 0]
  OBVIOUS
<1>7. w \in Seq(Nat) /\ Len(w) = n /\ \A i \in 1 .. n : w[i] = IF i <= k THEN b[i] ELSE 0
  <2>1. ASSUME NEW i \in 1 .. n PROVE (IF i <= k THEN b[i] ELSE 0) \in Nat
    <3>1. i <= k => i \in 1 .. Len(b)
      BY <1>1
    <3> QED BY <3>1, ElementOfSeq
  <2>2. w \in Seq(Nat)
    BY <1>6, <2>1, IsASeq
  <2> QED BY <1>6, <2>2
<1>8. w = b \o z
  <2>1. /\ b \o z \in Seq(Nat) /\ Len(b \o z) = Len(b) + Len(z)
        /\ FfJoins(b \o z, b, Len(b), z, Len(z))
    BY <1>4, FfConcatJoins
  <2>2. PICK t : t = b \o z
    OBVIOUS
  <2>3. t \in Seq(Nat) /\ Len(t) = n /\ FfJoins(t, b, k, z, d)
    BY <1>1, <1>2, <1>4, <2>1, <2>2
  <2>4. ASSUME NEW i \in 1 .. n PROVE w[i] = t[i]
    <3>1. CASE i <= k
      <4>1. i \in 1 .. k
        BY <3>1
      <4> QED BY <1>7, <2>3, <3>1, <4>1 DEF FfJoins
    <3>2. CASE i > k
      <4>1. i - k \in 1 .. d /\ k + (i - k) = i /\ ~(i <= k)
        BY <1>2, <3>2
      <4>2. t[k + (i - k)] = z[i - k]
        BY <2>3, <4>1 DEF FfJoins
      <4> QED BY <1>4, <1>7, <4>1, <4>2
    <3> QED BY <3>1, <3>2
  <2>5. w = t
    BY <1>7, <2>3, <2>4, SeqEqual
  <2> QED BY <2>2, <2>5
<1> QED BY <1>1, <1>2, <1>3, <1>4, <1>5, <1>6, <1>7, <1>8

\* What is still to come is a sequence of frames.
LEMMA FfStreamTyped ==
    ASSUME FfTypes
    PROVE  FlattenSeq(ffRing) \in Seq(Nat) /\ FfStream \in Seq(Nat)
<1>1. FlattenSeq(ffRing) \in Seq(Nat)
  BY FlattenTyped DEF FfTypes
<1>2. ffFeed.buf \in Seq(Nat) /\ ffFeed.src \in Seq(Nat)
  BY DEF FfTypes
<1>3. FlattenSeq(ffRing) \o ffFeed.buf \in Seq(Nat)
  BY <1>1, <1>2, ConcatProperties
<1>4. (FlattenSeq(ffRing) \o ffFeed.buf) \o ffFeed.src \in Seq(Nat)
  BY <1>2, <1>3, ConcatProperties
<1> QED BY <1>1, <1>4 DEF FfStream

\* The promise of the next state, when it has the stream s.
LEMMA FfKeepsNext ==
    ASSUME FfPromise(ffOut'.heard, FfStream', ffObj'.loop, ffOut'.pads, ffAt', ffFeed'.done, FfEnded')
    PROVE  FfKeeps'
BY DEF FfKeeps

\* It begins so.
LEMMA FfInvInit ==
    ASSUME FfInit
    PROVE  FfInv
<1>1. <<>> \in Seq(Nat) /\ <<>> \in Seq(Seq(Nat)) /\ Len(<<>>) = 0
  BY EmptySeq
<1>2. FfBlock \in Nat
  BY FfAssumption
<1>3. FfTypes
  BY <1>1, <1>2 DEF FfInit, FfTypes, FfNothing, FfIdle, FfOff
<1> QED BY <1>2, <1>3 DEF FfInit, FfInv, FfWorks, FfForgot, FfNothing, FfIdle, FfOff

\* A step that only moves the feeder, or the pump, on.
LEMMA FfStays ==
    ASSUME FfInv, UNCHANGED <<ffAt, ffFeed, ffRing, ffOut>>,
           ffObj'.ring = ffObj.ring, ffObj'.loop = ffObj.loop,
           ffObj' \in [playing : BOOLEAN, ring : BOOLEAN, loop : BOOLEAN],
           ffCall' \in [who : {"none", "play", "node", "poll"}, at : {"off", "room", "fill", "after"}],
           ffCall'.at \in {"room", "fill"} => ffObj.ring, ffCall'.at = "room" => ~ffFeed.done,
           ffCall'.at = "fill" => ~ffFeed.done
    PROVE  FfInv'
<1>1. FfTypes' /\ FfWorks'
  BY DEF FfInv, FfTypes, FfWorks
<1>2. FfStream' = FfStream
  BY DEF FfStream
<1>3. FfEnded => FfEnded'
  BY DEF FfEnded
<1>4. ASSUME ffObj'.ring PROVE FfKeeps'
  <2>1. FfKeeps
    BY <1>4 DEF FfInv
  <2>2. PICK h, s, loop, pads, at, done, e :
            /\ h = ffOut.heard /\ s = FfStream /\ loop = ffObj.loop /\ pads = ffOut.pads
            /\ at = ffAt /\ done = ffFeed.done /\ e = FfEnded
    OBVIOUS
  <2>3. PICK e2 : e2 = FfEnded'
    OBVIOUS
  <2>4. FfPromise(h, s, loop, pads, at, done, e)
    BY <2>1, <2>2 DEF FfKeeps
  <2>5. FfPromise(h, s, loop, pads, at, done, e2)
    <3>1. FfNearer(done, e, done, e2)
      BY <1>3, <2>2, <2>3 DEF FfNearer
    <3> QED BY <2>4, <3>1, FfPromiseKeeps
  <2>6. FfPromise(ffOut'.heard, FfStream', ffObj'.loop, ffOut'.pads, ffAt', ffFeed'.done, FfEnded')
    BY <1>2, <2>2, <2>3, <2>5
  <2> QED BY <2>6, FfKeepsNext
<1>5. ASSUME ~ffObj'.ring PROVE FfForgot'
  BY <1>5 DEF FfInv, FfForgot
<1> QED BY <1>1, <1>4, <1>5 DEF FfInv

\* A feeder at work has a ring, and the promise of a state of which this much is known.
LEMMA FfAtWork ==
    ASSUME FfInv, ffObj.ring
    PROVE  /\ FfPromise(ffOut.heard, FfStream, ffObj.loop, ffOut.pads, ffAt, ffFeed.done, FfEnded)
           /\ FfEnded => ffFeed.done
           /\ ffOut.heard \in Nat /\ ffOut.pads \in Nat /\ ffAt \in Nat /\ FfStream \in Seq(Nat)
           /\ FlattenSeq(ffRing) \in Seq(Nat)
           /\ ffFeed.buf \in Seq(Nat) /\ ffFeed.src \in Seq(Nat)
<1>1. FlattenSeq(ffRing) \in Seq(Nat) /\ FfStream \in Seq(Nat)
  BY FfStreamTyped DEF FfInv
<1>2. FfKeeps
  BY DEF FfInv
<1> QED BY <1>1, <1>2 DEF FfInv, FfKeeps, FfTypes, FfEnded

\* A read of the source.
LEMMA FfReadKeeps ==
    ASSUME FfInv, FfRead
    PROVE  FfInv'
<1>1. /\ ffCall.at = "fill" /\ ffFeed.src = <<>> /\ ~ffFeed.done /\ ffObj.ring
      /\ ffRing' = ffRing /\ ffObj' = ffObj /\ ffCall' = ffCall /\ ffOut' = ffOut
  BY DEF FfRead, FfInv, FfWorks
<1>2. PICK h \in Nat, s \in Seq(Nat), pads \in Nat, at \in Nat :
          h = ffOut.heard /\ s = FfStream /\ pads = ffOut.pads /\ at = ffAt
  BY <1>1, FfAtWork
<1>3. PICK loop, ended : loop = ffObj.loop /\ ended = FfEnded
  OBVIOUS
<1>4. FfPromise(h, s, loop, pads, at, FALSE, FALSE) /\ ~ended
  <2>1. FfPromise(h, s, loop, pads, at, ffFeed.done, ended)
    BY <1>1, <1>2, <1>3, FfAtWork
  <2>2. ffFeed.done = FALSE
    BY <1>1 DEF FfInv, FfTypes
  <2>3. ended = FALSE
    BY <1>1, <1>3 DEF FfEnded
  <2> QED BY <2>1, <2>2, <2>3
<1>5. PICK f \in Seq(Nat), b \in Seq(Nat) : f = FlattenSeq(ffRing) /\ b = ffFeed.buf
  BY <1>1, FfAtWork
<1>6. PICK fb \in Seq(Nat) : fb = f \o b
  BY ConcatProperties
<1>7. s = fb
  <2>1. s = fb \o <<>>
    BY <1>1, <1>2, <1>5, <1>6 DEF FfStream
  <2> QED BY <2>1, ConcatEmptySeq
<1>8. FfWorks'
  BY <1>1 DEF FfWorks, FfInv
<1>9. CASE \E k \in FfLens :
             LET n == IF ffAt + k < FfFrames THEN k ELSE FfFrames - ffAt
                 last == ffAt + n = FfFrames
             IN /\ ffFeed' = [ffFeed EXCEPT !.src = [i \in 1..n |-> ffAt + i],
                                            !.done = last /\ ~ffObj.loop]
                /\ ffAt' = IF last /\ ffObj.loop THEN 0 ELSE ffAt + n
  <2>1. PICK k \in FfLens :
             LET n == IF ffAt + k < FfFrames THEN k ELSE FfFrames - ffAt
                 last == ffAt + n = FfFrames
             IN /\ ffFeed' = [ffFeed EXCEPT !.src = [i \in 1..n |-> ffAt + i],
                                            !.done = last /\ ~ffObj.loop]
                /\ ffAt' = IF last /\ ffObj.loop THEN 0 ELSE ffAt + n
    BY <1>9
  <2>2. PICK n : n = IF ffAt + k < FfFrames THEN k ELSE FfFrames - ffAt
    OBVIOUS
  <2>3. /\ ffFeed' = [ffFeed EXCEPT !.src = [i \in 1..n |-> ffAt + i],
                                    !.done = (ffAt + n = FfFrames) /\ ~ffObj.loop]
        /\ ffAt' = IF (ffAt + n = FfFrames) /\ ffObj.loop THEN 0 ELSE ffAt + n
    BY <2>1, <2>2
  <2>4. n \in Nat /\ at + n <= FfFrames /\ FfFrames \in Nat
    <3>1. FfFrames \in Nat /\ k \in Nat
      BY FfAssumption
    <3>2. at < FfFrames \/ (at = 0 /\ FfFrames = 0)
      BY <1>4 DEF FfPromise
    <3>3. n = IF at + k < FfFrames THEN k ELSE FfFrames - at
      BY <1>2, <2>2
    <3> QED BY <3>1, <3>2, <3>3
  <2>5. PICK d \in BOOLEAN : d = ((at + n = FfFrames) /\ ~loop)
    OBVIOUS
  <2>6. PICK e : e = FfEnded'
    OBVIOUS
  <2>7. FfBlockAt(at, n) \in Seq(Nat) /\ FfPromise(h, s \o FfBlockAt(at, n), loop, pads, FfAtNext(at, n, loop), d, e)
    <3>1. FfEnds(at, n, loop, d)
      BY <2>5 DEF FfEnds
    <3>2. FfPromise(h, s, loop, pads, at, FALSE, FALSE) /\ n \in Nat /\ FfFrames \in Nat /\ at + n <= FfFrames
      BY <1>4, <2>4
    <3>3. h \in Nat /\ s \in Seq(Nat) /\ pads \in Nat /\ at \in Nat
      OBVIOUS
    <3> QED BY ONLY <3>1, <3>2, <3>3, FfPromiseReads
  <2>8. /\ ffFeed'.src = FfBlockAt(at, n) /\ ffFeed'.buf = b /\ ffFeed'.done = d
        /\ ffFeed' \in [src : Seq(Nat), buf : Seq(Nat), done : BOOLEAN]
    <3>1. PICK x \in Seq(Nat) : x = FfBlockAt(at, n)
      BY <2>7
    <3>2. ffFeed' = [ffFeed EXCEPT !.src = x, !.done = d]
      BY <1>2, <1>3, <2>3, <2>5, <3>1 DEF FfBlockAt
    <3>3. ffFeed \in [src : Seq(Nat), buf : Seq(Nat), done : BOOLEAN]
      BY DEF FfInv, FfTypes
    <3> QED BY <1>5, <3>1, <3>2, <3>3
  <2>9. ffAt' = FfAtNext(at, n, loop) /\ ffAt' \in Nat
    <3>1. ffAt' = FfAtNext(at, n, loop)
      BY <1>2, <1>3, <2>3 DEF FfAtNext
    <3>2. FfAtNext(at, n, loop) \in Nat
      BY <2>4 DEF FfAtNext
    <3> QED BY <3>1, <3>2
  <2>10. FfStream' = s \o FfBlockAt(at, n)
    BY <1>1, <1>5, <1>6, <1>7, <2>8 DEF FfStream
  <2>11. FfTypes'
    <3>1. Len(ffFeed'.buf) <= FfBlock
      BY <1>5, <2>8 DEF FfInv, FfTypes
    <3> QED BY <1>1, <2>8, <2>9, <3>1 DEF FfInv, FfTypes
  <2>12. FfPromise(ffOut'.heard, FfStream', ffObj'.loop, ffOut'.pads, ffAt', ffFeed'.done, FfEnded')
    BY <1>1, <1>2, <1>3, <2>6, <2>7, <2>8, <2>9, <2>10
  <2> QED BY <1>1, <1>8, <2>11, <2>12, FfKeepsNext DEF FfInv
<1>10. CASE ffFeed' = [ffFeed EXCEPT !.done = TRUE] /\ UNCHANGED ffAt
  <2>1. /\ ffFeed'.src = ffFeed.src /\ ffFeed'.buf = ffFeed.buf /\ ffFeed'.done = TRUE
        /\ ffFeed' \in [src : Seq(Nat), buf : Seq(Nat), done : BOOLEAN]
    BY <1>10 DEF FfInv, FfTypes
  <2>2. FfTypes'
    BY <1>1, <1>10, <2>1 DEF FfInv, FfTypes
  <2>3. PICK e : e = FfEnded'
    OBVIOUS
  <2>4. FfPromise(h, s, loop, pads, at, TRUE, e)
    <3>1. PICK no, yes : no = FALSE /\ yes = TRUE
      OBVIOUS
    <3>2. FfPromise(h, s, loop, pads, at, no, no) /\ FfNearer(no, no, yes, e)
      BY <1>4, <3>1 DEF FfNearer
    <3>3. FfPromise(h, s, loop, pads, at, yes, e)
      BY <3>2, FfPromiseKeeps
    <3> QED BY <3>1, <3>3
  <2>5. FfStream' = s
    BY <1>1, <1>2, <2>1 DEF FfStream
  <2>6. FfPromise(ffOut'.heard, FfStream', ffObj'.loop, ffOut'.pads, ffAt', ffFeed'.done, FfEnded')
    BY <1>1, <1>2, <1>3, <1>10, <2>1, <2>3, <2>4, <2>5
  <2> QED BY <1>1, <1>8, <2>2, <2>6, FfKeepsNext DEF FfInv
<1> QED BY <1>9, <1>10 DEF FfRead

\* A conversion moves frames from the source block to the one in hand.
LEMMA FfConvertKeeps ==
    ASSUME FfInv, FfConvert
    PROVE  FfInv'
<1>1. /\ ffCall.at = "fill" /\ ffObj.ring /\ ffAt' = ffAt
      /\ ffRing' = ffRing /\ ffObj' = ffObj /\ ffCall' = ffCall /\ ffOut' = ffOut
  BY DEF FfConvert, FfInv, FfWorks
<1>2. PICK f \in Seq(Nat), b \in Seq(Nat), s \in Seq(Nat) : f = FlattenSeq(ffRing) /\ b = ffFeed.buf /\ s = ffFeed.src
  BY <1>1, FfAtWork
<1>3. PICK n : /\ n = (IF Len(s) < FfBlock - Len(b) THEN Len(s) ELSE FfBlock - Len(b)) /\ n > 0
               /\ ffFeed' = [ffFeed EXCEPT !.buf = @ \o SubSeq(ffFeed.src, 1, n),
                                           !.src = SubSeq(ffFeed.src, n + 1, Len(ffFeed.src))]
  BY <1>2 DEF FfConvert, FfRest
<1>4. n \in 1 .. Len(s) /\ Len(b) + n <= FfBlock /\ Len(s) # 0
  <2>1. PICK k \in Nat, j \in Nat : k = Len(s) /\ j = Len(b)
    BY LenProperties
  <2>2. FfBlock \in Nat /\ j <= FfBlock
    BY FfAssumption, <1>2, <2>1 DEF FfInv, FfTypes
  <2>3. n = IF k < FfBlock - j THEN k ELSE FfBlock - j
    BY <1>3, <2>1
  <2>4. n \in 1 .. k /\ j + n <= FfBlock /\ k # 0
    BY <1>3, <2>2, <2>3
  <2> QED BY <2>1, <2>4
<1>5. PICK x \in Seq(Nat), y \in Seq(Nat) :
          x = SubSeq(s, 1, n) /\ y = SubSeq(s, n + 1, Len(s)) /\ Len(x) = n /\ x \o y = s
  <2>1. PICK i \in 1 .. Len(s) : i = n
    BY <1>4
  <2>2. /\ SubSeq(s, 1, i) \in Seq(Nat) /\ SubSeq(s, i + 1, Len(s)) \in Seq(Nat)
        /\ Len(SubSeq(s, 1, i)) = i /\ SubSeq(s, 1, i) \o SubSeq(s, i + 1, Len(s)) = s
    BY FfSplits
  <2> QED BY <2>1, <2>2
<1>6. b \o x \in Seq(Nat) /\ Len(b \o x) = Len(b) + n
  BY <1>5, ConcatProperties
<1>7. /\ ffFeed'.buf = b \o x /\ ffFeed'.src = y /\ ffFeed'.done = ffFeed.done
      /\ ffFeed' \in [src : Seq(Nat), buf : Seq(Nat), done : BOOLEAN]
  <2>1. PICK bx \in Seq(Nat) : bx = b \o x
    BY <1>6
  <2>2. ffFeed' = [ffFeed EXCEPT !.buf = bx, !.src = y]
    BY <1>2, <1>3, <1>5, <2>1
  <2>3. ffFeed \in [src : Seq(Nat), buf : Seq(Nat), done : BOOLEAN]
    BY DEF FfInv, FfTypes
  <2> QED BY <2>1, <2>2, <2>3
<1>8. FfTypes'
  <2>1. Len(ffFeed'.buf) <= FfBlock
    BY <1>4, <1>6, <1>7
  <2> QED BY <1>1, <1>7, <2>1 DEF FfInv, FfTypes
<1>9. FfWorks'
  BY <1>1, <1>7 DEF FfWorks, FfInv
<1>10. FfStream' = FfStream
  <2>1. FfStream = f \o b \o (x \o y)
    BY <1>2, <1>5 DEF FfStream
  <2>2. FfStream' = f \o (b \o x) \o y
    BY <1>1, <1>2, <1>7 DEF FfStream
  <2>3. PICK fb \in Seq(Nat) : fb = f \o b
    BY ConcatProperties
  <2>4. (f \o b) \o x = f \o (b \o x)
    BY FfAssoc, ZenonT(60)
  <2>5. (fb \o x) \o y = fb \o (x \o y)
    BY FfAssoc, Zenon
  <2> QED BY <2>1, <2>2, <2>3, <2>4, <2>5
<1>11. ~FfEnded
  BY <1>2, <1>4 DEF FfEnded
<1>12. PICK e, e2 : e = FfEnded /\ e2 = FfEnded'
  OBVIOUS
<1>13. FfPromise(ffOut.heard, FfStream, ffObj.loop, ffOut.pads, ffAt, ffFeed.done, e)
  BY <1>1, <1>12, FfAtWork
<1>14. FfPromise(ffOut.heard, FfStream, ffObj.loop, ffOut.pads, ffAt, ffFeed.done, e2)
  <2>1. PICK h, t, loop, pads, at, done :
            /\ h = ffOut.heard /\ t = FfStream /\ loop = ffObj.loop /\ pads = ffOut.pads
            /\ at = ffAt /\ done = ffFeed.done
    OBVIOUS
  <2>2. FfPromise(h, t, loop, pads, at, done, e) /\ FfNearer(done, e, done, e2)
    BY <1>11, <1>12, <1>13, <2>1 DEF FfNearer
  <2>3. FfPromise(h, t, loop, pads, at, done, e2)
    BY <2>2, FfPromiseKeeps
  <2> QED BY <2>1, <2>3
<1>15. FfPromise(ffOut'.heard, FfStream', ffObj'.loop, ffOut'.pads, ffAt', ffFeed'.done, FfEnded')
  BY <1>1, <1>7, <1>10, <1>12, <1>14
<1> QED BY <1>1, <1>8, <1>9, <1>15, FfKeepsNext DEF FfInv

\* The tail is padded.
LEMMA FfPadKeeps ==
    ASSUME FfInv, FfPad
    PROVE  FfInv'
<1>1. /\ ffCall.at = "fill" /\ ffObj.ring /\ ffAt' = ffAt /\ ffFeed.src = <<>> /\ ffFeed.done
      /\ ffRing' = ffRing /\ ffObj' = ffObj /\ ffCall' = ffCall /\ ffOut' = ffOut
      /\ Len(ffFeed.buf) < FfBlock
  BY DEF FfPad, FfInv, FfWorks
<1>2. PICK f \in Seq(Nat), b \in Seq(Nat) : f = FlattenSeq(ffRing) /\ b = ffFeed.buf
  BY <1>1, FfAtWork
<1>3. PICK m \in Nat : m = FfBlock /\ Len(b) <= m /\ Len(b) # m
  <2>1. FfBlock \in Nat /\ Len(b) \in Nat
    BY FfAssumption, LenProperties
  <2> QED BY <1>1, <1>2, <2>1
<1>4. PICK w \in Seq(Nat) : w = [i \in 1 .. m |-> IF i <= Len(b) THEN b[i] ELSE 0] /\ Len(w) = m
  BY <1>3, FfPadded
<1>5. PICK z \in Seq(Nat) : FfQuiet(z, 0, Len(z)) /\ Len(z) <= m /\ w = b \o z
  <2>1. /\ FfSilence(m - Len(b)) \in Seq(Nat) /\ Len(FfSilence(m - Len(b))) = m - Len(b)
        /\ FfQuiet(FfSilence(m - Len(b)), 0, m - Len(b)) /\ w = b \o FfSilence(m - Len(b))
    BY <1>3, <1>4, FfPadded
  <2>2. m - Len(b) <= m
    BY <1>3, LenProperties
  <2> QED BY <2>1, <2>2
<1>6. /\ ffFeed'.buf = w /\ ffFeed'.src = <<>> /\ ffFeed'.done = ffFeed.done
      /\ ffFeed' \in [src : Seq(Nat), buf : Seq(Nat), done : BOOLEAN]
  <2>1. ffFeed' = [ffFeed EXCEPT !.buf = w]
    BY <1>2, <1>3, <1>4 DEF FfPad
  <2>2. ffFeed \in [src : Seq(Nat), buf : Seq(Nat), done : BOOLEAN]
    BY DEF FfInv, FfTypes
  <2> QED BY <1>1, <2>1, <2>2
<1>7. FfTypes'
  <2>1. Len(ffFeed'.buf) <= FfBlock
    BY <1>3, <1>4, <1>6
  <2> QED BY <1>1, <1>6, <2>1 DEF FfInv, FfTypes
<1>8. FfWorks'
  BY <1>1, <1>6 DEF FfWorks, FfInv
<1>9. PICK s \in Seq(Nat) : s = f \o b
  BY ConcatProperties
<1>10. FfStream = s /\ FfStream' = s \o z
  <2>1. FfStream = s \o <<>>
    BY <1>1, <1>2, <1>9 DEF FfStream
  <2>2. s \o <<>> = s
    BY ConcatEmptySeq
  <2>3. (f \o b) \o z = f \o (b \o z)
    BY FfAssoc, Zenon
  <2>4. PICK fw \in Seq(Nat) : fw = f \o w
    BY ConcatProperties
  <2>5. FfStream' = fw \o <<>>
    BY <1>1, <1>2, <1>6, <2>4 DEF FfStream
  <2>6. fw \o <<>> = fw
    BY ConcatEmptySeq
  <2> QED BY <1>5, <1>9, <2>1, <2>2, <2>3, <2>4, <2>5, <2>6
<1>11. FfEnded = FALSE /\ FfEnded' = TRUE
  <2>1. ~FfEnded
    BY <1>1, <1>2, <1>3 DEF FfEnded
  <2>2. FfEnded'
    BY <1>1, <1>3, <1>4, <1>6 DEF FfEnded
  <2> QED BY <2>1, <2>2 DEF FfEnded
<1>12. ffFeed.done = TRUE /\ ffOut.heard \in Nat /\ ffOut.pads \in Nat
  BY <1>1 DEF FfInv, FfTypes
<1>a. PICK h \in Nat, pads \in Nat : h = ffOut.heard /\ pads = ffOut.pads
  BY <1>12
<1>b. PICK loop, at : loop = ffObj.loop /\ at = ffAt
  OBVIOUS
<1>13. h = ffOut.heard /\ pads = ffOut.pads /\ loop = ffObj.loop /\ at = ffAt
  BY <1>a, <1>b
<1>14. FfPromise(h, s, loop, pads, at, TRUE, FALSE)
  BY <1>1, <1>10, <1>11, <1>12, <1>13, FfAtWork
<1>15. FfPromise(h, s \o z, loop, pads, at, TRUE, TRUE)
  BY <1>3, <1>5, <1>14, FfPromisePads
<1>16. FfPromise(ffOut'.heard, FfStream', ffObj'.loop, ffOut'.pads, ffAt', ffFeed'.done, FfEnded')
  BY <1>1, <1>6, <1>10, <1>11, <1>12, <1>13, <1>15
<1> QED BY <1>1, <1>7, <1>8, <1>16, FfKeepsNext DEF FfInv

\* A full block goes to the ring.
LEMMA FfWriteKeeps ==
    ASSUME FfInv, FfWrite
    PROVE  FfInv'
<1>1. /\ ffCall.at = "fill" /\ ffObj.ring /\ ffAt' = ffAt
      /\ ffObj' = ffObj /\ ffOut' = ffOut
      /\ ffRing' = Append(ffRing, ffFeed.buf) /\ ffFeed' = [ffFeed EXCEPT !.buf = <<>>]
      /\ ffCall' = [ffCall EXCEPT !.at = IF ffFeed.done THEN "after" ELSE "room"]
  BY DEF FfWrite, FfInv, FfWorks
<1>2. PICK f \in Seq(Nat), b \in Seq(Nat), s \in Seq(Nat) : f = FlattenSeq(ffRing) /\ b = ffFeed.buf /\ s = ffFeed.src
  BY <1>1, FfAtWork
<1>3. PICK r \in Seq(Seq(Nat)) : r = ffRing
  BY DEF FfInv, FfTypes
<1>4. <<>> \in Seq(Nat) /\ Len(<<>>) = 0
  BY EmptySeq
<1>5. /\ ffFeed'.buf = <<>> /\ ffFeed'.src = s /\ ffFeed'.done = ffFeed.done
      /\ ffFeed' \in [src : Seq(Nat), buf : Seq(Nat), done : BOOLEAN]
  <2>1. ffFeed \in [src : Seq(Nat), buf : Seq(Nat), done : BOOLEAN]
    BY DEF FfInv, FfTypes
  <2> QED BY <1>1, <1>2, <1>4, <2>1
<1>6. ffRing' \in Seq(Seq(Nat)) /\ FlattenSeq(ffRing') = f \o b
  <2>1. Append(r, b) \in Seq(Seq(Nat))
    BY AppendProperties
  <2>2. FlattenSeq(Append(r, b)) = FlattenSeq(r) \o b
    BY FlattenAppend
  <2> QED BY <1>1, <1>2, <1>3, <2>1, <2>2
<1>7. /\ ffCall' \in [who : {"none", "play", "node", "poll"}, at : {"off", "room", "fill", "after"}]
      /\ ffCall'.at = IF ffFeed.done THEN "after" ELSE "room"
  BY <1>1 DEF FfInv, FfTypes
<1>8. FfTypes'
  <2>1. Len(ffFeed'.buf) <= FfBlock
    BY <1>4, <1>5, FfAssumption
  <2> QED BY <1>1, <1>5, <1>6, <1>7, <2>1 DEF FfInv, FfTypes
<1>9. FfWorks'
  BY <1>1, <1>5, <1>7 DEF FfWorks, FfInv
<1>10. FfStream' = FfStream
  <2>1. PICK fb \in Seq(Nat) : fb = f \o b
    BY ConcatProperties
  <2>2. FfStream = fb \o s
    BY <1>2, <2>1 DEF FfStream
  <2>3. FfStream' = fb \o <<>> \o s
    BY <1>5, <1>6, <2>1 DEF FfStream
  <2>4. fb \o <<>> = fb
    BY ConcatEmptySeq
  <2> QED BY <2>2, <2>3, <2>4
<1>11. FfEnded => FfEnded'
  BY <1>2, <1>5, <1>7 DEF FfEnded
<1>12. PICK e, e2 : e = FfEnded /\ e2 = FfEnded'
  OBVIOUS
<1>13. FfPromise(ffOut.heard, FfStream, ffObj.loop, ffOut.pads, ffAt, ffFeed.done, e)
  BY <1>1, <1>12, FfAtWork
<1>14. FfPromise(ffOut.heard, FfStream, ffObj.loop, ffOut.pads, ffAt, ffFeed.done, e2)
  <2>1. PICK h, t, loop, pads, at, done :
            /\ h = ffOut.heard /\ t = FfStream /\ loop = ffObj.loop /\ pads = ffOut.pads
            /\ at = ffAt /\ done = ffFeed.done
    OBVIOUS
  <2>2. FfPromise(h, t, loop, pads, at, done, e) /\ FfNearer(done, e, done, e2)
    BY <1>11, <1>12, <1>13, <2>1 DEF FfNearer
  <2>3. FfPromise(h, t, loop, pads, at, done, e2)
    BY <2>2, FfPromiseKeeps
  <2> QED BY <2>1, <2>3
<1>15. FfPromise(ffOut'.heard, FfStream', ffObj'.loop, ffOut'.pads, ffAt', ffFeed'.done, FfEnded')
  BY <1>1, <1>5, <1>10, <1>12, <1>14
<1> QED BY <1>1, <1>8, <1>9, <1>15, FfKeepsNext DEF FfInv

\* The pump takes the first block.
LEMMA FfPullKeeps ==
    ASSUME FfInv, FfPull
    PROVE  FfInv'
<1>1. /\ ffRing # <<>> /\ ffRing' = Tail(ffRing) /\ ffAt' = ffAt /\ ffFeed' = ffFeed
      /\ ffObj' = ffObj /\ ffCall' = ffCall
      /\ ffOut' = [ffOut EXCEPT !.heard = FfHeardOf(ffOut.heard, ffRing[1]),
                                !.pads = ffOut.pads + Len(ffRing[1]) - Cardinality(FfSoundsOf(ffRing[1]))]
  BY DEF FfPull, FfHeardOf, FfSoundsOf
<1>2. ffObj.ring
  BY <1>1 DEF FfInv, FfForgot, FfTypes
<1>3. PICK f \in Seq(Nat), b \in Seq(Nat), s \in Seq(Nat) : f = FlattenSeq(ffRing) /\ b = ffFeed.buf /\ s = ffFeed.src
  BY <1>2, FfAtWork
<1>4. PICK r \in Seq(Seq(Nat)) : r = ffRing
  BY DEF FfInv, FfTypes
<1>5. PICK p \in Seq(Nat), q \in Seq(Nat) : p = r[1] /\ q = FlattenSeq(Tail(r)) /\ f = p \o q /\ Tail(r) \in Seq(Seq(Nat))
  <2>1. r # <<>>
    BY <1>1, <1>4
  <2>2. Tail(r) \in Seq(Seq(Nat)) /\ Len(r) \in Nat \ {0}
    BY <2>1, HeadTailProperties, EmptySeq
  <2>3. r[1] \in Seq(Nat)
    <3>1. 1 \in 1 .. Len(r)
      BY <2>2
    <3> QED BY <3>1, ElementOfSeq
  <2>4. FlattenSeq(Tail(r)) \in Seq(Nat)
    BY <2>2, FlattenTyped
  <2>5. FlattenSeq(r) = r[1] \o FlattenSeq(Tail(r))
    BY <2>1, FlattenHead
  <2> QED BY <1>3, <1>4, <2>2, <2>3, <2>4, <2>5
<1>6. PICK t \in Seq(Nat) : t = q \o b \o s /\ (p \o q) \o b \o s = p \o t
  <2>1. PICK qb \in Seq(Nat) : qb = q \o b
    BY ConcatProperties
  <2>2. (p \o q) \o b = p \o (q \o b)
    BY FfAssoc, Zenon
  <2>3. (p \o qb) \o s = p \o (qb \o s)
    BY FfAssoc, Zenon
  <2>4. qb \o s \in Seq(Nat)
    BY ConcatProperties
  <2> QED BY <2>1, <2>2, <2>3, <2>4
<1>7. FfStream = p \o t /\ FfStream' = t
  <2>1. FfStream = (p \o q) \o b \o s
    BY <1>3, <1>5 DEF FfStream
  <2>2. FfStream' = q \o b \o s
    BY <1>1, <1>3, <1>4, <1>5 DEF FfStream
  <2> QED BY <1>6, <2>1, <2>2
<1>a. PICK h \in Nat, pads \in Nat : h = ffOut.heard /\ pads = ffOut.pads
  BY DEF FfInv, FfTypes
<1>b. PICK loop, at : loop = ffObj.loop /\ at = ffAt
  OBVIOUS
<1>8. h = ffOut.heard /\ pads = ffOut.pads /\ loop = ffObj.loop /\ at = ffAt
  BY <1>a, <1>b
<1>9. PICK done, e : done = ffFeed.done /\ e = FfEnded /\ FfNearer(e, e, done, e)
  BY DEF FfEnded, FfNearer
<1>10. FfPromise(h, p \o t, loop, pads, at, done, e)
  BY <1>2, <1>7, <1>8, <1>9, FfAtWork
<1>11. /\ FfHeardOf(h, p) \in Nat
       /\ pads + Len(p) - Cardinality(FfSoundsOf(p)) \in Nat
       /\ FfPromise(FfHeardOf(h, p), t, loop, pads + Len(p) - Cardinality(FfSoundsOf(p)), at, done, e)
  <2>1. FfBlock \in Nat
    BY FfAssumption
  <2> QED BY <1>9, <1>10, <2>1, FfPromisePulls
<1>12. PICK h2 \in Nat, p2 \in Nat : h2 = FfHeardOf(h, p) /\ p2 = pads + Len(p) - Cardinality(FfSoundsOf(p))
  BY <1>11
<1>13. ffOut' = [ffOut EXCEPT !.heard = h2, !.pads = p2]
  BY <1>1, <1>4, <1>5, <1>8, <1>12
<1>14. /\ ffOut'.heard = h2 /\ ffOut'.pads = p2
       /\ ffOut' \in [heard : Nat, pads : Nat, lost : BOOLEAN]
  <2>1. ffOut \in [heard : Nat, pads : Nat, lost : BOOLEAN]
    BY DEF FfInv, FfTypes
  <2> QED BY <1>13, <2>1
<1>15. FfTypes' /\ FfWorks'
  <2>1. ffRing' \in Seq(Seq(Nat))
    BY <1>1, <1>4, <1>5
  <2> QED BY <1>1, <1>14, <2>1 DEF FfInv, FfTypes, FfWorks
<1>16. FfEnded' = FfEnded
  BY <1>1 DEF FfEnded
<1>17. FfPromise(ffOut'.heard, FfStream', ffObj'.loop, ffOut'.pads, ffAt', ffFeed'.done, FfEnded')
  BY <1>1, <1>7, <1>8, <1>9, <1>11, <1>12, <1>14, <1>16
<1> QED BY <1>1, <1>2, <1>15, <1>17, FfKeepsNext DEF FfInv

\* The silence heard of a file is a block at the most.
LEMMA FfPadsBounded ==
    ASSUME FfInv
    PROVE  ffOut.pads <= FfBlock /\ ffOut.pads \in Nat
<1>1. FfBlock \in Nat /\ ffOut.pads \in Nat
  BY FfAssumption DEF FfInv, FfTypes
<1>2. CASE ffObj.ring
  <2>1. FfStream \in Seq(Nat)
    BY <1>2, FfAtWork
  <2>2. PICK n \in Nat : n = Len(FfStream)
    BY <2>1, LenProperties
  <2>3. PICK m \in 0 .. n : ffOut.pads + (n - m) <= FfBlock
    BY <1>2, <2>2 DEF FfInv, FfKeeps, FfPromise
  <2> QED BY <1>1, <2>3
<1>3. CASE ~ffObj.ring
  BY <1>1, <1>3 DEF FfInv, FfForgot
<1> QED BY <1>2, <1>3

\* A ring that is let go of is forgotten with its feeder.
LEMMA FfForgets ==
    ASSUME FfInv, ffFeed' = FfNothing, ffRing' = <<>>, ffAt' = ffAt,
           ffObj' \in [playing : BOOLEAN, ring : BOOLEAN, loop : BOOLEAN], ~ffObj'.ring,
           ffOut' \in [heard : Nat, pads : Nat, lost : BOOLEAN], ffOut'.pads = ffOut.pads,
           ffCall' \in [who : {"none", "play", "node", "poll"}, at : {"off", "room", "fill", "after"}],
           ffCall'.at \notin {"room", "fill"}
    PROVE  FfInv'
<1>1. <<>> \in Seq(Nat) /\ <<>> \in Seq(Seq(Nat)) /\ Len(<<>>) = 0
  BY EmptySeq
<1>2. FfBlock \in Nat
  BY FfAssumption
<1>3. FfTypes'
  BY <1>1, <1>2 DEF FfInv, FfTypes, FfNothing
<1>4. FfForgot'
  BY FfPadsBounded DEF FfForgot
<1> QED BY <1>3, <1>4 DEF FfInv, FfWorks

\* play() begins anew.
LEMMA FfPlayKeeps ==
    ASSUME FfInv, NEW loop \in BOOLEAN, FfPlay(loop)
    PROVE  FfInv'
<1>1. <<>> \in Seq(Nat) /\ <<>> \in Seq(Seq(Nat)) /\ Len(<<>>) = 0
  BY EmptySeq
<1>2. FfBlock \in Nat /\ FfFrames \in Nat
  BY FfAssumption
<1>3. /\ ffAt' = 0 /\ ffFeed' = [src |-> <<>>, buf |-> <<>>, done |-> FALSE] /\ ffRing' = <<>>
      /\ ffObj' = [playing |-> TRUE, ring |-> TRUE, loop |-> loop]
      /\ ffOut' = [heard |-> 0, pads |-> 0, lost |-> FALSE]
      /\ ffCall' = [who |-> "play", at |-> "room"]
  BY DEF FfPlay, FfNothing
<1>4. FfTypes' /\ FfWorks'
  BY <1>1, <1>2, <1>3 DEF FfTypes, FfWorks
<1>5. FfStream' = <<>>
  <2>1. FfStream' = FlattenSeq(<<>>) \o <<>> \o <<>>
    BY <1>3 DEF FfStream
  <2>2. <<>> \o <<>> = <<>>
    BY <1>1, ConcatEmptySeq
  <2> QED BY <2>1, <2>2, FlattenEmpty
<1>6. PICK e : e = FfEnded'
  OBVIOUS
<1>7. FfPromise(0, <<>>, loop, 0, 0, FALSE, e)
  BY <1>2, FfPromiseBegins
<1>8. FfPromise(ffOut'.heard, FfStream', ffObj'.loop, ffOut'.pads, ffAt', ffFeed'.done, FfEnded')
  BY <1>3, <1>5, <1>6, <1>7
<1> QED BY <1>3, <1>4, <1>8, FfKeepsNext DEF FfInv

\* The feeder and its callers, and what lets go of the ring.
LEMMA FfCallKeeps ==
    ASSUME FfInv,
           FfRoom \/ FfSpawn \/ FfNode \/ FfNodeEnds \/ FfPoll \/ FfPollEnds
             \/ FfStop \/ FfRetarget \/ FfReap
    PROVE  FfInv'
<1>0. /\ ffObj \in [playing : BOOLEAN, ring : BOOLEAN, loop : BOOLEAN]
      /\ ffCall \in [who : {"none", "play", "node", "poll"}, at : {"off", "room", "fill", "after"}]
      /\ ffOut \in [heard : Nat, pads : Nat, lost : BOOLEAN]
  BY DEF FfInv, FfTypes
<1>e. FfEntry \in {"room", "after"} /\ (FfEntry = "room" => ffObj.ring /\ ~ffFeed.done)
  BY DEF FfEntry, FfMayFeed
<1>1. CASE FfRoom
  <2>1. PICK at2 \in {"fill", "after"} : ffCall' = [ffCall EXCEPT !.at = at2]
    BY <1>1 DEF FfRoom
  <2>2. /\ ffCall' \in [who : {"none", "play", "node", "poll"}, at : {"off", "room", "fill", "after"}]
        /\ ffCall'.at = at2
    BY <1>0, <2>1
  <2>3. ffCall.at = "room" /\ ffObj.ring /\ ~ffFeed.done
    BY <1>1 DEF FfRoom, FfInv, FfWorks
  <2>4. UNCHANGED <<ffAt, ffFeed, ffRing, ffOut>> /\ ffObj' = ffObj
    BY <1>1 DEF FfRoom
  <2> QED BY <1>0, <2>1, <2>2, <2>3, <2>4, FfStays
<1>2. CASE FfSpawn
  <2>1. UNCHANGED <<ffAt, ffFeed, ffRing, ffOut>> /\ ffCall' = [who |-> "none", at |-> "off"]
    BY <1>2 DEF FfSpawn, FfOff
  <2>2. ffObj' = ffObj \/ ffObj' = [ffObj EXCEPT !.playing = FALSE]
    BY <1>2 DEF FfSpawn
  <2>3. /\ ffObj'.ring = ffObj.ring /\ ffObj'.loop = ffObj.loop
        /\ ffObj' \in [playing : BOOLEAN, ring : BOOLEAN, loop : BOOLEAN]
    BY <1>0, <2>2
  <2>4. /\ ffCall' \in [who : {"none", "play", "node", "poll"}, at : {"off", "room", "fill", "after"}]
        /\ ffCall'.at = "off"
    BY <2>1
  <2> QED BY <2>1, <2>3, <2>4, FfStays
<1>3. CASE FfNode \/ FfPoll
  <2>1. /\ UNCHANGED <<ffAt, ffFeed, ffRing, ffOut>> /\ ffObj' = ffObj
        /\ ffCall' = [who |-> "node", at |-> FfEntry] \/ ffCall' = [who |-> "poll", at |-> FfEntry]
    BY <1>3 DEF FfNode, FfPoll
  <2>2. /\ ffCall' \in [who : {"none", "play", "node", "poll"}, at : {"off", "room", "fill", "after"}]
        /\ ffCall'.at = FfEntry
    BY <1>e, <2>1
  <2> QED BY <1>0, <1>e, <2>1, <2>2, FfStays
<1>4. CASE FfNodeEnds
  <2>1. UNCHANGED <<ffAt, ffFeed, ffRing, ffOut>> /\ ffObj' = ffObj /\ ffCall' = [who |-> "none", at |-> "off"]
    BY <1>4 DEF FfNodeEnds, FfOff
  <2>2. /\ ffCall' \in [who : {"none", "play", "node", "poll"}, at : {"off", "room", "fill", "after"}]
        /\ ffCall'.at = "off"
    BY <2>1
  <2> QED BY <1>0, <2>1, <2>2, FfStays
<1>h. ASSUME FfHalt
      PROVE  /\ ffFeed' = FfNothing /\ ffRing' = <<>> /\ ~ffObj'.ring
             /\ ffObj' \in [playing : BOOLEAN, ring : BOOLEAN, loop : BOOLEAN]
  BY <1>h DEF FfHalt, FfIdle
<1>5. CASE FfPollEnds
  <2>1. ffAt' = ffAt /\ ffCall' = [who |-> "none", at |-> "off"]
    BY <1>5 DEF FfPollEnds, FfOff
  <2>2. /\ ffCall' \in [who : {"none", "play", "node", "poll"}, at : {"off", "room", "fill", "after"}]
        /\ ffCall'.at = "off"
    BY <2>1
  <2>3. CASE FfHalt /\ ffOut' = [ffOut EXCEPT !.lost = ffFeed.src # <<>>]
    <3>1. PICK b \in BOOLEAN : b = (ffFeed.src # <<>>)
      OBVIOUS
    <3>2. ffOut' = [ffOut EXCEPT !.lost = b]
      BY <2>3, <3>1
    <3>3. ffOut' \in [heard : Nat, pads : Nat, lost : BOOLEAN] /\ ffOut'.pads = ffOut.pads
      BY <1>0, <3>2
    <3> QED BY <1>h, <2>1, <2>2, <2>3, <3>3, FfForgets
  <2>4. CASE UNCHANGED <<ffFeed, ffRing, ffObj, ffPump, ffOut>>
    BY <1>0, <2>1, <2>2, <2>4, FfStays
  <2> QED BY <1>5, <2>3, <2>4 DEF FfPollEnds
<1>6. CASE FfStop \/ FfReap
  <2>1. FfHalt /\ ffAt' = ffAt /\ ffCall' = ffCall /\ ffOut' = ffOut /\ ffCall.at = "off"
    BY <1>6 DEF FfStop, FfReap, FfOff
  <2> QED BY <1>0, <1>h, <2>1, FfForgets
<1>7. CASE FfRetarget
  <2>1. /\ ffAt' = ffAt /\ ffCall' = ffCall /\ ffOut' = ffOut /\ ffCall.at = "off"
        /\ ffFeed' = FfNothing /\ ffRing' = <<>> /\ ffObj' = [ffObj EXCEPT !.ring = FALSE]
    BY <1>7 DEF FfRetarget, FfOff
  <2>2. ffObj' \in [playing : BOOLEAN, ring : BOOLEAN, loop : BOOLEAN] /\ ~ffObj'.ring
    BY <1>0, <2>1
  <2> QED BY <1>0, <2>1, <2>2, FfForgets
<1> QED BY <1>1, <1>2, <1>3, <1>4, <1>5, <1>6, <1>7

\* Every step keeps the invariant.
LEMMA FfInvNext ==
    ASSUME FfInv, [FfNext]_ffVars
    PROVE  FfInv'
<1>1. CASE FfRead
  BY <1>1, FfReadKeeps
<1>2. CASE FfConvert
  BY <1>2, FfConvertKeeps
<1>3. CASE FfPad
  BY <1>3, FfPadKeeps
<1>4. CASE FfWrite
  BY <1>4, FfWriteKeeps
<1>5. CASE FfPull
  BY <1>5, FfPullKeeps
<1>6. CASE \E loop \in BOOLEAN : FfPlay(loop)
  BY <1>6, FfPlayKeeps
<1>7. CASE FfRoom \/ FfSpawn \/ FfNode \/ FfNodeEnds \/ FfPoll \/ FfPollEnds
             \/ FfStop \/ FfRetarget \/ FfReap
  BY <1>7, FfCallKeeps
<1>8. CASE UNCHANGED ffVars
  BY <1>8 DEF FfInv, FfTypes, FfWorks, FfKeeps, FfForgot, FfStream, FfEnded, ffVars
<1> QED BY <1>1, <1>2, <1>3, <1>4, <1>5, <1>6, <1>7, <1>8 DEF FfNext, FfFeeds

\* What is heard of a file is in order, and what is behind it a block of
\* silence at the most.
LEMMA FfInvSafe ==
    ASSUME FfInv
    PROVE  FfSafe
<1>1. CASE ~ffObj.ring
  <2>1. ffRing = <<>> /\ ffFeed.buf = <<>> /\ ffFeed.src = <<>>
    BY <1>1 DEF FfInv, FfForgot, FfNothing
  <2>2. <<>> \in Seq(Nat) /\ Len(<<>>) = 0
    BY EmptySeq
  <2>3. FfStream = <<>>
    <3>1. FfStream = FlattenSeq(<<>>) \o <<>> \o <<>>
      BY <2>1 DEF FfStream
    <3>2. <<>> \o <<>> = <<>>
      BY <2>2, ConcatEmptySeq
    <3> QED BY <3>1, <3>2, FlattenEmpty
  <2>4. {i \in DOMAIN FfStream : FfStream[i] = 0} = 1 .. 0
    <3>1. DOMAIN FfStream = 1 .. 0
      BY <2>2, <2>3, LenProperties
    <3> QED BY <3>1
  <2>5. Cardinality({i \in DOMAIN FfStream : FfStream[i] = 0}) = 0
    BY <2>4, FfCountIs
  <2> QED BY <1>1, <2>5, FfPadsBounded DEF FfSafe, FfInOrder, FfPadsOnce
<1>2. CASE ffObj.ring
  <2>1. PICK h \in Nat, s \in Seq(Nat), pads \in Nat : h = ffOut.heard /\ s = FfStream /\ pads = ffOut.pads
    BY <1>2, FfAtWork
  <2>2. PICK n \in Nat : n = Len(s)
    BY LenProperties
  <2>3. PICK loop : loop = ffObj.loop
    OBVIOUS
  <2>4. PICK m \in 0 .. n :
            /\ FfRuns(h, s, loop, m) /\ FfQuiet(s, m, n) /\ pads + (n - m) <= FfBlock
            /\ (m # n => FfEnded)
    BY <1>2, <2>1, <2>2, <2>3 DEF FfInv, FfKeeps, FfPromise
  <2>5. DOMAIN s = 1 .. n /\ \A i \in 1 .. n : s[i] \in Nat
    BY <2>2, LenProperties, ElementOfSeq
  <2>6. ASSUME NEW i \in 1 .. n PROVE s[i] = 0 <=> i \in m + 1 .. n
    <3>1. CASE i <= m
      <4>1. i \in 1 .. m /\ i \notin m + 1 .. n /\ \A j \in 1 .. m : s[j] \in Nat
        BY <2>5, <3>1
      <4>2. s[i] \in Nat \ {0}
        BY <2>4, <4>1, FfRunSounds
      <4> QED BY <4>1, <4>2
    <3>2. CASE i > m
      <4>1. i \in m + 1 .. n
        BY <3>2
      <4> QED BY <2>4, <4>1 DEF FfQuiet
    <3> QED BY <3>1, <3>2
  <2>7. FfPadsOnce
    <3>1. {i \in DOMAIN s : s[i] = 0} = m + 1 .. n
      <4>1. m + 1 .. n \subseteq 1 .. n
        OBVIOUS
      <4> QED BY <2>5, <2>6, <4>1
    <3>2. Cardinality(m + 1 .. n) = n - m
      <4>1. Cardinality(m + 1 .. n) = IF m + 1 > n THEN 0 ELSE n - (m + 1) + 1
        BY FS_Interval
      <4> QED BY <4>1
    <3> QED BY <2>1, <2>4, <3>1, <3>2 DEF FfPadsOnce
  <2>8. FfInOrder
    <3>1. PICK one \in Seq(Nat) : one = <<h>> /\ Len(one) = 1 /\ one[1] = h
      <4>1. <<h>> \in Seq(Nat) /\ Len(<<h>>) = 1 /\ <<h>>[1] = h
        OBVIOUS
      <4> QED BY <4>1, Zenon
    <3>a. /\ Len(one \o s) = Len(one) + Len(s) /\ FfJoins(one \o s, one, Len(one), s, Len(s))
      BY FfConcatJoins
    <3>2. PICK t : t = one \o s
      OBVIOUS
    <3>3. Len(t) = 1 + n /\ FfJoins(t, one, 1, s, n)
      BY <2>2, <3>a, <3>1, <3>2
    <3>4. t[1] = h /\ \A j \in 1 .. n : t[1 + j] = s[j]
      <4>1. 1 \in 1 .. 1
        OBVIOUS
      <4> QED BY <3>1, <3>3, <4>1 DEF FfJoins
    <3>5. ASSUME NEW i \in 2 .. 1 + n
          PROVE  IF t[i] = 0 THEN ffFeed.done /\ \A j \in i .. 1 + n : t[j] = 0
                 ELSE t[i] = FfSucc(t[i - 1])
      <4>1. i - 1 \in 1 .. n /\ 1 + (i - 1) = i
        OBVIOUS
      <4>2. t[i] = s[i - 1]
        BY <3>4, <4>1
      <4>3. CASE t[i] = 0
        <5>1. i - 1 \in m + 1 .. n
          BY <2>6, <4>1, <4>2, <4>3
        <5>2. ffFeed.done
          BY <2>4, <5>1 DEF FfEnded
        <5>3. ASSUME NEW j \in i .. 1 + n PROVE t[j] = 0
          <6>1. j - 1 \in 1 .. n /\ 1 + (j - 1) = j /\ j - 1 \in m + 1 .. n
            BY <5>1
          <6>2. t[j] = s[j - 1]
            BY <3>4, <6>1
          <6> QED BY <2>6, <6>1, <6>2
        <5> QED BY <4>3, <5>2, <5>3
      <4>4. CASE t[i] # 0
        <5>1. i - 1 \in 1 .. m
          <6>1. i - 1 \notin m + 1 .. n
            BY <2>6, <4>1, <4>2, <4>4
          <6> QED BY <4>1, <6>1
        <5>2. s[i - 1] = FfNextOf(FfLastOf(h, s, i - 1 - 1), loop)
          BY <2>4, <5>1 DEF FfRuns
        <5>3. FfLastOf(h, s, i - 1 - 1) = t[i - 1]
          <6>1. CASE i = 2
            BY <3>4, <6>1 DEF FfLastOf
          <6>2. CASE i # 2
            <7>1. i - 1 - 1 \in 1 .. n /\ 1 + (i - 1 - 1) = i - 1 /\ i - 1 - 1 # 0
              BY <4>1, <6>2
            <7>2. t[i - 1] = s[i - 1 - 1]
              BY <3>4, <7>1
            <7> QED BY <7>1, <7>2 DEF FfLastOf
          <6> QED BY <6>1, <6>2
        <5>4. FfNextOf(t[i - 1], loop) = FfSucc(t[i - 1])
          BY <2>3 DEF FfNextOf, FfSucc
        <5> QED BY <4>2, <4>4, <5>2, <5>3, <5>4
      <4> QED BY <4>3, <4>4
    <3>6. t = <<ffOut.heard>> \o FfStream
      BY <2>1, <3>1, <3>2
    <3> QED BY <3>3, <3>5, <3>6 DEF FfInOrder
  <2> QED BY <2>7, <2>8 DEF FfSafe
<1> QED BY <1>1, <1>2

\* What a file feeds the pump is in order, and ends in a block of silence at the
\* most. (FfSafe)
THEOREM FfFeedsInOrder == FfSpec => []FfSafe
<1>1. FfInit => FfInv
  BY FfInvInit
<1>2. FfInv /\ [FfNext]_ffVars => FfInv'
  BY FfInvNext
<1>3. FfInv => FfSafe
  BY FfInvSafe
<1> QED BY <1>1, <1>2, <1>3, PTL DEF FfSpec
=============================================================================
