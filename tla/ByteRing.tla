------------------------------ MODULE ByteRing ------------------------------
(***************************************************************************)
(* The stream's byte ring, shared/usbhost_byte_ring.c: one producer, one   *)
(* consumer, on different cores.  A push and a pop each read the other     *)
(* side's index, copy, and publish their own index; between the read and   *)
(* the publication the other side runs.  The bytes of the stream are       *)
(* numbered from 0, and the ring holds their numbers.  The indices are     *)
(* words that wrap at BrWord.                                              *)
(***************************************************************************)
EXTENDS Integers

CONSTANTS
    BrSize,     \* bytes of storage
    BrWord,     \* 2^32 in the code
    BrMax       \* bytes pushed, a bound for TLC

\* The indices and the sum that carries them over the second lap fit a word.
ASSUME BrAssumption ==
    /\ BrSize \in Nat \ {0} /\ BrWord \in Nat
    /\ 3 * BrSize <= BrWord
    /\ BrMax \in Nat

VARIABLES
    brBuf,        \* the storage: the number of the byte in each place
    brHead, brTail, \* the words
    brPush, brPop,  \* what each side is doing: at rest, or copying n bytes
    brIn, brOut     \* bytes published and bytes consumed, as plain numbers

brVars == <<brBuf, brHead, brTail, brPush, brPop, brIn, brOut>>

BrIdle == [busy |-> FALSE, n |-> 0]

BrInit ==
    /\ brBuf = [i \in 0 .. BrSize - 1 |-> -1]
    /\ brHead = 0 /\ brTail = 0
    /\ brPush = BrIdle /\ brPop = BrIdle
    /\ brIn = 0 /\ brOut = 0

\* A sum of two words, as the machine leaves it.
BrWrap(x) == IF x >= BrWord THEN x - BrWord ELSE x

\* usbhost_byte_ring_span
BrSpan(h, t) == IF h >= t THEN h - t ELSE h + 2 * BrSize - t

\* usbhost_byte_ring_advance
BrAdvance(idx, n) ==
    LET next == BrWrap(idx + n) IN
    IF next >= 2 * BrSize THEN next - 2 * BrSize ELSE next

BrRoom == BrSize - BrSpan(brHead, brTail)

\* The place of an index, on either lap.
BrPlace(idx) == IF idx < BrSize THEN idx ELSE idx - BrSize

\* The place of the k-th byte from an index, in one of the two spans.
BrPlaceOf(idx, k) ==
    LET at == BrPlace(idx) IN IF k < BrSize - at THEN at + k ELSE k - (BrSize - at)

\* How far a place is from an index.
BrOffset(idx, i) == LET at == BrPlace(idx) IN IF i >= at THEN i - at ELSE i + BrSize - at

BrPushLoad(len) ==
    /\ ~brPush.busy
    /\ LET n == IF len < BrRoom THEN len ELSE BrRoom IN
       /\ n # 0 /\ brIn + n <= BrMax
       /\ brPush' = [busy |-> TRUE, n |-> n]
    /\ UNCHANGED <<brBuf, brHead, brTail, brPop, brIn, brOut>>

\* Mutant: the second span, from the start of the storage, is forgotten.
BrPushOneSpan ==
    /\ brPush.busy
    /\ brBuf' = [i \in 0 .. BrSize - 1 |->
                 IF i >= BrPlace(brHead) /\ BrOffset(brHead, i) < brPush.n
                 THEN brIn + BrOffset(brHead, i) ELSE brBuf[i]]
    /\ brHead' = BrAdvance(brHead, brPush.n)
    /\ brIn' = brIn + brPush.n
    /\ brPush' = BrIdle
    /\ UNCHANGED <<brTail, brPop, brOut>>

\* The two memcpy's and the store that publishes them.
BrCopyIn ==
    /\ brPush.busy
    /\ brBuf' = [i \in 0 .. BrSize - 1 |->
                 IF BrOffset(brHead, i) < brPush.n THEN brIn + BrOffset(brHead, i) ELSE brBuf[i]]
    /\ brHead' = BrAdvance(brHead, brPush.n)
    /\ brIn' = brIn + brPush.n
    /\ brPush' = BrIdle
    /\ UNCHANGED <<brTail, brPop, brOut>>

BrPopLoad(max) ==
    /\ ~brPop.busy
    /\ LET have == BrSpan(brHead, brTail) n == IF max < have THEN max ELSE have IN
       /\ n # 0
       /\ brPop' = [busy |-> TRUE, n |-> n]
    /\ UNCHANGED <<brBuf, brHead, brTail, brPush, brIn, brOut>>

BrCopyOut ==
    /\ brPop.busy
    /\ brTail' = BrAdvance(brTail, brPop.n)
    /\ brOut' = brOut + brPop.n
    /\ brPop' = BrIdle
    /\ UNCHANGED <<brBuf, brHead, brPush, brIn>>

BrNext ==
    \/ \E len \in 1 .. BrSize : BrPushLoad(len) \/ BrPopLoad(len)
    \/ BrCopyIn \/ BrCopyOut

BrSpec == BrInit /\ [][BrNext]_brVars

-----------------------------------------------------------------------------
BrTypeOK ==
    /\ brBuf \in [0 .. BrSize - 1 -> Int]
    /\ brHead \in 0 .. 2 * BrSize - 1 /\ brTail \in 0 .. 2 * BrSize - 1
    /\ brPush \in [busy : BOOLEAN, n : 0 .. BrSize]
    /\ brPop \in [busy : BOOLEAN, n : 0 .. BrSize]
    /\ brIn \in Nat /\ brOut \in Nat

\* The two words tell how much is queued, full and empty apart, for as long
\* as the stream runs; and what a side is about to do is still there or still
\* free whatever the other has done since it looked.
BrCounts ==
    /\ brOut <= brIn /\ brIn - brOut = BrSpan(brHead, brTail) /\ brIn - brOut <= BrSize
    /\ brPush.n <= BrRoom /\ brPop.n <= BrSpan(brHead, brTail)

\* The bytes queued lie in order from the tail: what a pop copies out is the
\* stream, with nothing lost, repeated or from an earlier lap.
BrInOrder ==
    \A k \in 0 .. BrSpan(brHead, brTail) - 1 : brBuf[BrPlaceOf(brTail, k)] = brOut + k

\* While both sides copy, no byte is written that is being read.
BrApart ==
    brPush.busy /\ brPop.busy =>
        \A k \in 0 .. brPush.n - 1, l \in 0 .. brPop.n - 1 : BrPlaceOf(brHead, k) # BrPlaceOf(brTail, l)
=============================================================================
