---------------------------- MODULE CaptureRing -----------------------------
(***************************************************************************)
(* The ring between the RX DMA's interrupt, on one core, and a recorder on *)
(* the interpreter (audioi2sin.I2SIn): filled without a lock, emptied      *)
(* without a lock, and taken away under a spinlock. Frames are numbered as *)
(* they arrive, so a hole, a repeat or a stale frame shows.                *)
(***************************************************************************)
EXTENDS Naturals, Sequences

CONSTANTS CrLen,    \* the ring's length in frames
          CrWord,   \* the modulus of the two 32-bit counts
          CrBurst,  \* most frames of one DMA descriptor
          CrAsk,    \* most frames one pull asks for
          CrMax     \* bound: frames that arrive

ASSUME CrAssumption ==
    /\ CrLen \in Nat \ {0} /\ CrWord \in Nat /\ CrLen < CrWord
    /\ CrBurst \in Nat /\ CrAsk \in Nat

VARIABLES
    crRing,   \* the ring: a frame's number in every slot
    crPos,    \* [w, r]: where the interrupt writes and the recorder reads
    crCount,  \* [written, taken]: the two free-running counts
    crTold,   \* [dropped, seen, overflow]: frames the ring had no room for
    crCap,    \* [buf, armed]: whether there is a ring, and the interrupt is to push
    crIsr,    \* the interrupt: "off", "seen" armed, "push"; frames in, of came
    crRec,    \* record(): "idle", "ask", "pull"; how many, and the copy
    crGot,    \* the last frame record() delivered, 0 for none
    crClock,  \* frames that have arrived
    crOwed    \* whether frames were dropped that nobody was told of

crVars == <<crRing, crPos, crCount, crTold, crCap, crIsr, crRec, crGot,
            crClock, crOwed>>

CrAt(where) == [at |-> where, in |-> 0, of |-> 0]
CrDoes(what) == [does |-> what, n |-> 0, copy |-> <<>>]

CrInit ==
    /\ crRing = [s \in 0..CrLen - 1 |-> 0] /\ crPos = [w |-> 0, r |-> 0]
    /\ crCount = [written |-> 0, taken |-> 0]
    /\ crTold = [dropped |-> 0, seen |-> 0, overflow |-> FALSE]
    /\ crCap = [buf |-> FALSE, armed |-> FALSE] /\ crIsr = CrAt("off") /\ crRec = CrDoes("idle")
    /\ crGot = 0 /\ crClock = 0
    /\ crOwed = FALSE

CrHave == (crCount.written + CrWord - crCount.taken) % CrWord
CrLeast(a, b) == IF a < b THEN a ELSE b

---------------------------------------------------------------------------
(* The interrupt: audiopump_on_recv, audiopump_cap_push *)

CrIsrSees ==
    /\ crIsr.at = "off" /\ crCap.armed /\ crClock < CrMax
    /\ crIsr' = CrAt("seen")
    /\ UNCHANGED <<crRing, crPos, crCount, crTold, crCap, crRec, crGot,
                   crClock, crOwed>>

\* Mutant: the interrupt trusts its first look.
CrTrusted == TRUE

\* Having taken the spinlock it looks again: the ring may be gone.
CrStillArmed == crCap.armed /\ crCap.buf

\* It writes n of the k frames that came, and has not yet said so. `in` keeps
\* the spinlock: CrRelease waits while a push is in hand.
CrIsrCopies(k) ==
    LET n == CrLeast(k, CrLen - CrHave)
        At(slot) == (slot + CrLen - crPos.w) % CrLen
    IN /\ crIsr.at = "seen" /\ CrStillArmed
       /\ crRing' = [s \in 0..CrLen - 1 |->
                        IF At(s) < n THEN crClock + 1 + At(s) ELSE crRing[s]]
       /\ crIsr' = [at |-> "push", in |-> n, of |-> k]
       /\ crClock' = crClock + k
       /\ UNCHANGED <<crPos, crCount, crTold, crCap, crRec, crGot, crOwed>>

CrIsrGivesUp ==
    /\ crIsr.at = "seen" /\ ~CrStillArmed
    /\ crIsr' = CrAt("off")
    /\ UNCHANGED <<crRing, crPos, crCount, crTold, crCap, crRec, crGot,
                   crClock, crOwed>>

CrPushing == crIsr.at = "push"

CrIsrPublishes ==
    LET lost == crIsr.of - crIsr.in
    IN /\ CrPushing
       /\ crPos' = [crPos EXCEPT !.w = (@ + crIsr.in) % CrLen]
       /\ crCount' = [crCount EXCEPT !.written = (@ + crIsr.in) % CrWord]
       /\ crTold' = [crTold EXCEPT !.dropped = @ + lost]
       /\ crOwed' = (crOwed \/ lost > 0)
       /\ crIsr' = CrAt("off")
       /\ UNCHANGED <<crRing, crCap, crRec, crGot, crClock>>

---------------------------------------------------------------------------
(* The ring's life: audiopump_i2s_rx_begin, audiopump_cap_release *)

\* A recorder joining an open channel is armed at once; another once its own
\* channel is open, which CrArm is.
CrBegin(join) ==
    /\ ~crCap.buf /\ crRec.does = "idle" /\ ~CrPushing
    /\ crRing' = [s \in 0..CrLen - 1 |-> 0]
    /\ crPos' = [w |-> 0, r |-> 0]
    /\ crCount' = [written |-> 0, taken |-> 0]
    /\ crTold' = [dropped |-> 0, seen |-> 0, overflow |-> FALSE]
    /\ crOwed' = FALSE
    /\ crCap' = [buf |-> TRUE, armed |-> join]
    /\ UNCHANGED <<crIsr, crRec, crGot, crClock>>

CrArm ==
    /\ crCap.buf /\ ~crCap.armed
    /\ crCap' = [crCap EXCEPT !.armed = TRUE]
    /\ UNCHANGED <<crRing, crPos, crCount, crTold, crIsr, crRec, crGot, crClock,
                   crOwed>>

\* deinit, also from a callback that runs while record() waits.
CrRelease ==
    /\ crCap.buf /\ ~CrPushing /\ crRec.does \in {"idle", "ask"}
    /\ crCap' = [buf |-> FALSE, armed |-> FALSE]
    /\ UNCHANGED <<crRing, crPos, crCount, crTold, crIsr, crRec, crGot, crClock, crOwed>>

---------------------------------------------------------------------------
(* record() and overflow: audioi2sin.c *)

CrNoted == [crTold EXCEPT !.overflow = @ \/ crTold.dropped # crTold.seen,
                          !.seen = crTold.dropped]

\* audiopump_i2s_rx_discard
CrDiscarded == [crCount EXCEPT !.taken = crCount.written]

\* A ring that dropped something nobody has noted is emptied first.
CrRecord ==
    LET dropped == crTold.dropped # crTold.seen
    IN /\ crRec.does = "idle" /\ crCap.buf
       /\ crTold' = CrNoted
       /\ IF dropped
          THEN /\ crCount' = CrDiscarded
               /\ crPos' = [crPos EXCEPT !.r = (@ + CrHave) % CrLen]
          ELSE UNCHANGED <<crCount, crPos>>
       /\ crRec' = CrDoes("ask")
       /\ UNCHANGED <<crRing, crCap, crIsr, crGot, crClock, crOwed>>

\* A pull loads `written` and copies; what it returns is stored after.
CrPull(want) ==
    LET n == CrLeast(want, CrHave)
    IN /\ crRec.does = "ask" /\ crCap.buf /\ n > 0
       /\ crRec' = [does |-> "pull", n |-> n,
                    copy |-> [i \in 1..n |-> crRing[(crPos.r + i - 1) % CrLen]]]
       /\ UNCHANGED <<crRing, crPos, crCount, crTold, crCap, crIsr, crGot,
                      crClock, crOwed>>

CrPulling == crRec.does = "pull"

CrTaken(n) == (crCount.taken + n) % CrWord

CrPullDone ==
    /\ CrPulling
    /\ crPos' = [crPos EXCEPT !.r = (@ + crRec.n) % CrLen]
    /\ crCount' = [crCount EXCEPT !.taken = CrTaken(crRec.n)]
    /\ crGot' = crRec.copy[crRec.n]
    /\ crRec' = CrDoes("ask")
    /\ UNCHANGED <<crRing, crTold, crCap, crIsr, crClock, crOwed>>

\* It has what was asked for, the bus has stalled, or a KeyboardInterrupt
\* leaves what was dropped for later.
CrRecordEnds ==
    /\ crRec.does = "ask"
    /\ crRec' = CrDoes("idle")
    /\ crTold' \in {CrNoted, crTold}
    /\ UNCHANGED <<crRing, crPos, crCount, crCap, crIsr, crGot, crClock, crOwed>>

\* A read of `overflow` tells of every drop so far, and clears it.
CrOverflow ==
    /\ crRec.does = "idle" /\ crCap.buf
    /\ crTold' = [CrNoted EXCEPT !.overflow = FALSE]
    /\ crOwed' = (crOwed /\ ~CrNoted.overflow)
    /\ UNCHANGED <<crRing, crPos, crCount, crCap, crIsr, crRec, crGot, crClock>>

CrNext ==
    \/ CrIsrSees \/ CrIsrGivesUp \/ CrIsrPublishes
    \/ \E k \in 1..CrBurst : CrIsrCopies(k)
    \/ \E join \in BOOLEAN : CrBegin(join)
    \/ CrArm \/ CrRelease \/ CrRecord
    \/ \E want \in 1..CrAsk : CrPull(want)
    \/ CrPullDone \/ CrRecordEnds \/ CrOverflow

CrSpec == CrInit /\ [][CrNext]_crVars

---------------------------------------------------------------------------
(* Properties *)

\* What a recorder gets is what came, once each and in order: the copy holds
\* neither a frame delivered before nor one the interrupt has since written
\* over, and within a pull no frame is missing unless the ring said it dropped
\* some. (_audioif.c:1069-1114)
CrInOrder ==
    CrPulling =>
      /\ \A i \in 1..crRec.n : crRec.copy[i] > crGot
      /\ \A i \in 1..crRec.n - 1 :
            /\ crRec.copy[i] < crRec.copy[i + 1]
            /\ crTold.dropped = 0 => crRec.copy[i + 1] = crRec.copy[i] + 1

\* The interrupt never writes into a ring that was freed. (_audioif.c:1116-1127,
\* 1162-1176)
CrNeverFreed == CrPushing => crCap.buf

\* No drop goes untold: one not yet read from `overflow` is in the flag, or
\* still in the difference that sets it. (audioi2sin.c:300-312, 448-461)
CrDropsAreTold ==
    crOwed /\ crCap.buf
      => crTold.overflow \/ crTold.dropped # crTold.seen

\* The interrupt and the recorder, between any two of their steps.
CrSafe == CrInOrder /\ CrNeverFreed /\ CrDropsAreTold
=============================================================================
