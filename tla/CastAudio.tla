------------------------------ MODULE CastAudio -----------------------------
(***************************************************************************)
(* castif.Cast's sound: 10 ms blocks from the interpreter to the cast      *)
(* task through a ring of stamped slots with two free-running indices, and *)
(* the timestamps the pacer sends them under. Time is counted in blocks,   *)
(* from an origin as far ahead of zero as a session's first stamp is.      *)
(***************************************************************************)
EXTENDS Integers

CONSTANTS CaBlocks,  \* A_BLOCKS: the ring's slots
          CaOrigin,  \* the first stamp of a session (90000, in blocks)
          CaHold,    \* the pacer's start: 60 ms behind the feed
          CaChase,   \* 300 ms: a gap the pacer does not catch up
          CaRejoin,  \* REJOIN: a lag the track jumps over
          CaSettle,  \* blocks until the drift's reference is set
          CaMax,     \* bound: blocks fed
          CaTime     \* bound: time

\* A session's first stamp is later than a ring of blocks is long.
ASSUME CaAssumption ==
    /\ CaBlocks \in Nat \ {0} /\ CaOrigin \in Nat /\ CaBlocks <= CaOrigin
    /\ CaHold \in Nat /\ CaChase \in Nat /\ CaRejoin \in Nat /\ CaSettle \in Nat

VARIABLES
    caRing,          \* the slots: [num, stamp]
    caHead, caTail,  \* block write and read indices
    caFeed,          \* feed_audio: "idle", "copied", "stamped"
    caTrack,         \* apts: the next block's timestamp, 0 before the first
    caNext,          \* next_audio_us, 0 before the first
    caSince,         \* blocks sent since the track was anchored
    caRef,           \* [set, at]: drift_ref, once the drift has settled
    caNow,
    caFed,           \* blocks the feeder was told were taken
    caOut            \* what last went out: [num, pts, stamp, ref]

caVars == <<caRing, caHead, caTail, caFeed, caTrack, caNext, caSince, caRef, caNow, caFed,
            caOut>>

CaNothing == [num |-> 0, pts |-> 0, stamp |-> 0, ref |-> 0]

CaInit ==
    /\ caRing = [i \in 0 .. CaBlocks - 1 |-> [num |-> 0, stamp |-> 0]]
    /\ caHead = 0 /\ caTail = 0 /\ caFeed = "idle"
    /\ caTrack = 0 /\ caNext = 0 /\ caSince = 0
    /\ caRef = [set |-> FALSE, at |-> 0]
    /\ caNow = CaOrigin /\ caFed = 0 /\ caOut = CaNothing

CaClock ==
    /\ caNow < CaOrigin + CaTime
    /\ caNow' = caNow + 1
    /\ UNCHANGED <<caRing, caHead, caTail, caFeed, caTrack, caNext, caSince, caRef, caFed, caOut>>

---------------------------------------------------------------------------
(* feed_audio (push_block does the same from the task) *)

CaFull(head, tail) == head - tail >= CaBlocks

CaSlot(i) == i % CaBlocks

\* Block, stamp and index are three stores, in this order.
CaCopies ==
    /\ caFeed = "idle" /\ caFed < CaMax /\ ~CaFull(caHead, caTail)
    /\ caRing' = [caRing EXCEPT ![CaSlot(caHead)].num = caFed + 1]
    /\ caFeed' = "copied"
    /\ UNCHANGED <<caHead, caTail, caTrack, caNext, caSince, caRef, caNow, caFed, caOut>>

CaStamps ==
    /\ caFeed = "copied"
    /\ caRing' = [caRing EXCEPT ![CaSlot(caHead)].stamp = caNow]
    /\ caFeed' = "stamped"
    /\ UNCHANGED <<caHead, caTail, caTrack, caNext, caSince, caRef, caNow, caFed, caOut>>

CaPublishes ==
    /\ caFeed = "stamped"
    /\ caHead' = caHead + 1 /\ caFed' = caFed + 1 /\ caFeed' = "idle"
    /\ UNCHANGED <<caRing, caTail, caTrack, caNext, caSince, caRef, caNow, caOut>>

---------------------------------------------------------------------------
(* The task: pace_audio, and drain_one for each block that is due *)

\* The first block due sets the pace; a long gap is not caught up.
CaDueAt == IF caNext = 0 THEN caNow + CaHold
           ELSE IF caNow - caNext > CaChase THEN caNow ELSE caNext

\* The track's timestamp for the oldest block: from the newest one waiting when
\* there is none, from the block's own stamp past a gap, else where it is.
CaAnchor(newest, waiting) == newest - (waiting - 1)

\* Mutant: it is late at twice the lag.
CaLateTwice(own, at) == own - at - (IF caRef.set THEN caRef.at ELSE 0) > 2 * CaRejoin

CaLate(own, at) == own - at - (IF caRef.set THEN caRef.at ELSE 0) > CaRejoin

CaJump(own, at) == IF CaLate(own, at) THEN own ELSE at

\* One block out, or held until it is due. The drift is a mean of what the
\* blocks showed, so its reference is none of them or this one. With it set, a
\* silent block may go first, or this one be dropped, as the drift has it.
CaPace ==
    /\ caHead # caTail
    /\ LET own == caRing[CaSlot(caTail)].stamp
           newest == caRing[CaSlot(caHead - 1)].stamp
           at == IF caTrack = 0 THEN CaAnchor(newest, caHead - caTail) ELSE caTrack
           pts == CaJump(own, at)
           fresh == caTrack = 0 \/ CaLate(own, at)
           since == IF fresh THEN 0 ELSE caSince
           ref == IF fresh THEN [set |-> FALSE, at |-> 0] ELSE caRef
       IN  \/ /\ caNow < CaDueAt
              /\ caNext' = CaDueAt
              /\ UNCHANGED <<caTail, caTrack, caSince, caRef, caOut>>
           \/ /\ caNow >= CaDueAt
              /\ caTail' = caTail + 1 /\ caTrack' = pts + 1 /\ caNext' = CaDueAt + 1
              /\ caSince' = IF since < CaSettle THEN since + 1 ELSE since
              /\ caRef' \in IF ref.set \/ since < CaSettle THEN {ref}
                            ELSE {[set |-> TRUE, at |-> d] : d \in {0, own - pts}}
              /\ caOut' = [num |-> caRing[CaSlot(caTail)].num, pts |-> pts, stamp |-> own,
                           ref |-> ref.at]
           \/ /\ caNow >= CaDueAt /\ ref.set
              /\ \/ /\ caTrack' = pts + 1 /\ caOut' = [caOut EXCEPT !.pts = pts]
                    /\ caNext' = CaDueAt + 1 /\ UNCHANGED caTail
                 \/ /\ caTail' = caTail + 1 /\ caOut' = [caOut EXCEPT !.num = @ + 1]
                    /\ caTrack' = pts /\ caNext' = CaDueAt
              /\ caSince' = since /\ caRef' = ref
    /\ UNCHANGED <<caRing, caHead, caFeed, caNow, caFed>>

CaNextStep == CaClock \/ CaCopies \/ CaStamps \/ CaPublishes \/ CaPace

CaSpec == CaInit /\ [][CaNextStep]_caVars
---------------------------------------------------------------------------
\* The track has settled further ahead of the feed than a rejoin may bring it back.
CaLed == caRef.set /\ caRef.at < 0 - CaRejoin

\* Blocks go out in the order they were fed, one after the other, each the
\* whole block its index was published for, dropped ones counted; and the track
\* goes forward, across gaps, padding and drops, unless the feeder led it.
CaInOrder ==
    [][/\ caOut'.num # caOut.num => caOut'.num = caOut.num + 1
       /\ caOut'.pts # caOut.pts => caOut'.pts > caOut.pts \/ CaLed]_caVars

\* A block is never dated more than REJOIN before the time it was fed, what the
\* track has settled at apart, whatever gap came before it; and no block of a
\* track that has begun is dated at zero, which is how a track says it has not.
CaBeside ==
    caOut.num > 0 => /\ caOut.pts > 0
                     /\ caOut.stamp - caOut.pts - caOut.ref <= CaRejoin

\* "So the sink hears one unbroken LPCM track on the video's clock", and past a
\* rejoin "a gap, then audio beside its picture again": a packet's timestamp is
\* later than the one before it, or there is no gap but the same time twice.
CaForward == [][caOut'.pts # caOut.pts => caOut'.pts > caOut.pts]_caVars
=============================================================================
