------------------------------- MODULE RxRing -------------------------------
(***************************************************************************)
(* The Giga's capture ring (audioif_stm32.c): a circular DMA writes it     *)
(* whether anybody reads or not, a soft timer and every reader bring the   *)
(* count up to the DMA, and a finaliser ends a recording at a soft reset.  *)
(* Samples are counted from the beginning of a recording.                  *)
(***************************************************************************)
EXTENDS Naturals

CONSTANTS RxLen,     \* samples of the ring
          RxMargin,  \* how near the DMA a reader may not come (256)
          RxSkips,   \* the samples a recording begins by throwing away
          RxWant,    \* most samples of one pull
          RxMax,     \* bound: samples of a recording
          RxTakes    \* bound: recordings

ASSUME RxAssumption ==
    /\ RxLen \in Nat /\ RxMargin \in Nat /\ RxMargin < RxLen
    /\ RxSkips \subseteq Nat /\ RxWant \in Nat

VARIABLES
    rxOn,    \* whether a source is recording
    rxDma,   \* samples the DMA has written
    rxHead, rxTail, rxSkip, rxDropped,
    rxPull,  \* the pull in hand: [on, from, n, done, since]
    rxRead,  \* [next, missed]: the sample after the last delivered one, and
             \* how many were never delivered
    rxGen,   \* the generation
    rxGuards,\* generations whose guard is not collected yet; the last is rooted
    rxBy     \* what the last step was, and whose guard it was

rxVars == <<rxOn, rxDma, rxHead, rxTail, rxSkip, rxDropped, rxPull, rxRead,
            rxGen, rxGuards, rxBy>>

RxNoPull == [on |-> FALSE, from |-> 0, n |-> 0, done |-> 0, since |-> 0]
RxDid(what, gen) == [what |-> what, gen |-> gen]

RxInit ==
    /\ rxOn = FALSE /\ rxDma = 0 /\ rxHead = 0 /\ rxTail = 0 /\ rxSkip = 0
    /\ rxDropped = 0 /\ rxPull = RxNoPull /\ rxRead = [next |-> 0, missed |-> 0]
    /\ rxGen = 0 /\ rxGuards = {} /\ rxBy = RxDid("none", 0)

RxLeast(a, b) == IF a < b THEN a ELSE b

---------------------------------------------------------------------------
(* The DMA, and the count of it *)

\* The timer polls many times a lap, and a pull is done long before the DMA
\* has crossed the margin: both are what the sizes are chosen for.
RxDmaWrites ==
    /\ rxOn /\ rxDma < RxMax
    /\ rxDma - rxHead < RxLen - 1
    /\ rxPull.on => rxDma - rxPull.since < RxMargin
    /\ rxDma' = rxDma + 1 /\ rxBy' = RxDid("dma", 0)
    /\ UNCHANGED <<rxOn, rxHead, rxTail, rxSkip, rxDropped, rxPull, rxRead, rxGen,
                   rxGuards>>

\* The distance is taken from two positions in the ring.
RxMoved == ((rxDma % RxLen) + RxLen - (rxHead % RxLen)) % RxLen

\* Mutant: the limit forgets the margin.
RxLimitLap == RxLen

RxLimit == RxLen - RxMargin

RxCounted(lost) == rxDropped + lost

\* audioif_rx_poll: what is to be skipped, then what fell out of the ring.
RxPolled ==
    LET head == rxHead + RxMoved
        skip == RxLeast(rxSkip, head - rxTail)
        tail == rxTail + skip
        lost == IF head - tail > RxLimit THEN head - tail - RxLimit ELSE 0
    IN [head |-> head, tail |-> tail + lost, skip |-> rxSkip - skip,
        dropped |-> RxCounted(lost)]

RxPoll ==
    /\ rxOn
    /\ rxHead' = RxPolled.head /\ rxTail' = RxPolled.tail
    /\ rxSkip' = RxPolled.skip /\ rxDropped' = RxPolled.dropped
    /\ rxBy' = RxDid("poll", 0)
    /\ UNCHANGED <<rxOn, rxDma, rxPull, rxRead, rxGen, rxGuards>>

---------------------------------------------------------------------------
(* The reader *)

RxPullStart(want) ==
    LET p == RxPolled
        n == RxLeast(want, p.head - p.tail)
    IN /\ rxOn /\ ~rxPull.on /\ n > 0
       /\ rxHead' = p.head /\ rxTail' = p.tail
       /\ rxSkip' = p.skip /\ rxDropped' = p.dropped
       /\ rxPull' = [on |-> TRUE, from |-> p.tail, n |-> n, done |-> 0, since |-> rxDma]
       /\ rxRead' = [rxRead EXCEPT !.missed = @ + p.tail - rxRead.next]
       /\ rxBy' = RxDid("pull", 0)
       /\ UNCHANGED <<rxOn, rxDma, rxGen, rxGuards>>

RxCopy ==
    /\ rxPull.on /\ rxPull.done < rxPull.n
    /\ rxPull' = [rxPull EXCEPT !.done = @ + 1]
    /\ rxBy' = RxDid("copy", 0)
    /\ UNCHANGED <<rxOn, rxDma, rxHead, rxTail, rxSkip, rxDropped, rxRead, rxGen,
                   rxGuards>>

\* A poll may have pushed the tail on: it goes to whichever is further.
RxTailTo(to) == IF rxTail < to THEN to ELSE rxTail

RxPullEnds ==
    LET to == rxPull.from + rxPull.n
    IN /\ rxPull.on /\ rxPull.done = rxPull.n
       /\ rxTail' = RxTailTo(to)
       /\ rxRead' = [rxRead EXCEPT !.next = to]
       /\ rxPull' = RxNoPull /\ rxBy' = RxDid("pulled", 0)
       /\ UNCHANGED <<rxOn, rxDma, rxHead, rxSkip, rxDropped, rxGen, rxGuards>>

\* What a discard throws away is not a loss.
RxDiscard ==
    /\ rxOn /\ ~rxPull.on
    /\ rxHead' = RxPolled.head /\ rxTail' = RxPolled.head
    /\ rxSkip' = RxPolled.skip /\ rxDropped' = RxPolled.dropped
    /\ rxRead' = [next |-> RxPolled.head + RxPolled.skip, missed |-> 0]
    /\ rxBy' = RxDid("discard", 0)
    /\ UNCHANGED <<rxOn, rxDma, rxPull, rxGen, rxGuards>>

---------------------------------------------------------------------------
(* A recording's life *)

\* The guard is made before any hardware starts: a begin that is refused after
\* it leaves a guard of no recording.
RxBegin(ok, skip) ==
    /\ ~rxOn /\ rxGen < RxTakes
    /\ rxGen' = rxGen + 1
    /\ rxGuards' = rxGuards \cup {rxGen + 1}
    /\ rxBy' = RxDid("begin", 0)
    /\ IF ok
       THEN /\ rxOn' = TRUE /\ rxDma' = 0 /\ rxHead' = 0 /\ rxTail' = 0
            /\ rxDropped' = 0 /\ rxSkip' = skip
            /\ rxRead' = [next |-> skip, missed |-> 0]
            /\ UNCHANGED rxPull
       ELSE UNCHANGED <<rxOn, rxDma, rxHead, rxTail, rxSkip, rxDropped, rxPull, rxRead>>

\* audiopump_i2s_rx_end
RxEnded ==
    IF rxOn THEN rxOn' = FALSE /\ rxGen' = rxGen + 1 ELSE UNCHANGED <<rxOn, rxGen>>

RxEnd ==
    /\ rxOn /\ ~rxPull.on /\ RxEnded
    /\ rxBy' = RxDid("end", 0)
    /\ UNCHANGED <<rxDma, rxHead, rxTail, rxSkip, rxDropped, rxPull, rxRead, rxGuards>>

\* audioif_rx_guard_del: a guard ends the recording it was made for.
RxOwn(g) == g = rxGen

\* The collector finds a guard nothing roots.
RxRooted == IF rxOn THEN {rxGen} ELSE {}
RxCollects(g) ==
    /\ ~rxPull.on /\ g \notin RxRooted
    /\ rxGuards' = rxGuards \ {g}
    /\ IF RxOwn(g) THEN RxEnded ELSE UNCHANGED <<rxOn, rxGen>>
    /\ rxBy' = RxDid("collect", g)
    /\ UNCHANGED <<rxDma, rxHead, rxTail, rxSkip, rxDropped, rxPull, rxRead>>

\* A soft reset finalises them all, rooted or not.
RxSoftReset ==
    /\ ~rxPull.on
    /\ IF \E g \in rxGuards : RxOwn(g) THEN RxEnded ELSE UNCHANGED <<rxOn, rxGen>>
    /\ rxGuards' = {} /\ rxBy' = RxDid("reset", 0)
    /\ UNCHANGED <<rxDma, rxHead, rxTail, rxSkip, rxDropped, rxPull, rxRead>>

RxNext ==
    \/ RxDmaWrites \/ RxPoll \/ RxCopy \/ RxPullEnds \/ RxDiscard
    \/ \E want \in 1..RxWant : RxPullStart(want)
    \/ \E ok \in BOOLEAN, skip \in RxSkips : RxBegin(ok, skip)
    \/ RxEnd \/ RxSoftReset
    \/ \E g \in rxGuards : RxCollects(g)

RxSpec == RxInit /\ [][RxNext]_rxVars

---------------------------------------------------------------------------
(* Properties *)

\* A sample is copied before the DMA comes round to it: a reader is kept the
\* margin away from the DMA, and a copy that a poll pushes aside is still good.
\* (audioif_stm32.c's rx_poll and rx_pull)
RxCopyGood == rxPull.on => rxDma <= rxPull.from + RxLen

\* Every sample a reader did not get was counted as dropped, the ones a poll
\* pushed it past in the middle of a copy included. (audioif_rx_poll)
RxLossTold == rxOn => rxRead.missed <= rxDropped

\* The DMA, the poll and the reader's copy, between any two of their steps.
RxSafe == RxCopyGood /\ RxLossTold

\* What a recording gets is whole and counted; and it ends by its own end, or at
\* a soft reset, which leaves none: no guard of an earlier one, or of one that
\* was refused, ends it. (audioif_stm32.c:451-560, rx_guard_del)
RxKept ==
    [][ /\ RxSafe'
        /\ rxOn /\ ~rxOn' => rxBy'.what \in {"end", "reset"}
        /\ rxBy'.what = "reset" => ~rxOn' ]_rxVars
=============================================================================
