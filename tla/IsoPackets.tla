----------------------------- MODULE IsoPackets -----------------------------
(***************************************************************************)
(* The two helpers of an isochronous endpoint.                             *)
(*                                                                         *)
(* How much schedule a stream keeps queued (shared/usbhost_iso_queue.h),   *)
(* against the bus that uses it up and the host task, which hands finished *)
(* transfers back to be queued again once a tick, and may miss a tick.     *)
(*                                                                         *)
(* And how many bytes a playback packet carries (usbhost_iso_pace.h), and  *)
(* what usbhost_stream_fill takes for it from a ring that a source on      *)
(* another task fills with any number of bytes.                            *)
(***************************************************************************)
EXTENDS Integers

CONSTANTS
    IsoIntervals,   \* the endpoint's periods, in bus slots
    IsoTicks        \* tick periods of the ports, in ms

ASSUME IsoQueueAssumption ==
    IsoIntervals \subseteq Nat \ {0} /\ IsoTicks \subseteq Nat \ {0}

VARIABLES
    iqEp,       \* the endpoint: the bus's speed, its period, and the port's tick
    iqAt,       \* packets gone of the transfer on the bus when the task pumped
    iqDry       \* history: the bus found nothing queued

iqVars == <<iqEp, iqAt, iqDry>>

IqMin(a, b) == IF a < b THEN a ELSE b
IqMax(a, b) == IF a > b THEN a ELSE b
IqCeil(a, b) == (a + b - 1) \div b

SlotUs(high) == IF high THEN 125 ELSE 1000

\* usbhost_iso_queue_size: three ticks of bus time in transfers of at most 61
\* slots, at least 3 of them and at most 12.
QueueSize(high, interval, tick) ==
    LET most == IF high THEN 32 ELSE 8
        pkts == IF most * interval <= 61 THEN most ELSE IqMax(1, 61 \div interval)
        xfer_us == pkts * interval * SlotUs(high)
    IN  [pkts |-> pkts, num |-> IqMin(12, IqMax(3, IqCeil(3 * tick * 1000, xfer_us)))]

Queue == QueueSize(iqEp.high, iqEp.interval, iqEp.tick)

\* Packets the bus takes in two ticks.
InTwoTicks == (2 * iqEp.tick * 1000) \div (iqEp.interval * SlotUs(iqEp.high))

IqInit ==
    /\ iqEp \in [high : BOOLEAN, interval : IsoIntervals, tick : IsoTicks]
    /\ iqAt = 0 /\ iqDry = FALSE

\* The task pumps after `gone` packets: what finished is queued again behind
\* the rest, so the queue is whole but for a part of its first transfer.
IqPump(gone) ==
    /\ iqDry' = (iqDry \/ iqAt + gone > Queue.pkts * Queue.num)
    /\ iqAt' = (iqAt + gone) % Queue.pkts
    /\ UNCHANGED iqEp

IqNext == \E gone \in 1 .. IqMax(1, InTwoTicks) : IqPump(gone)

IqSpec == IqInit /\ [][IqNext]_iqVars

-----------------------------------------------------------------------------
\* The endpoint is polled at every one of its slots, even when the task that
\* hands finished transfers back misses a whole tick: what three ticks in at
\* least three transfers are for, under every rounding and cap.
NeverDry == ~iqDry

-----------------------------------------------------------------------------
(* The packets *)

CONSTANTS
    PaceRates,      \* frames a second
    PacePeriods,    \* the endpoint's period, in microseconds
    PaceFrame,      \* bytes a frame
    PacePush,       \* bytes the source pushes at a time
    PaceRing,       \* bytes of the ring
    PacePackets     \* packets sent, a bound for TLC

ASSUME PaceAssumption ==
    /\ PaceRates \subseteq Nat /\ PacePeriods \subseteq Nat \ {0} /\ PaceFrame \in Nat \ {0}
    /\ {PacePush, PaceRing, PacePackets} \subseteq Nat

VARIABLES
    pcRate, pcUs,   \* rate and slot_us
    pcAcc,          \* acc, frame-microseconds owed
    pcMax,          \* the endpoint's packet
    pcRing,         \* bytes queued
    pcSent          \* packets and bytes sent, and those of them taken from the ring

pcVars == <<pcRate, pcUs, pcAcc, pcMax, pcRing, pcSent>>

Second == 1000000       \* in microseconds
PcMin(a, b) == IF a < b THEN a ELSE b
Owed == pcRate * pcUs

\* An interval's frames and one, and perhaps a part of another.
PacketMax(rate, us, odd) == (((rate * us) \div Second) + 1) * PaceFrame + odd

PcInit ==
    /\ pcRate \in PaceRates /\ pcUs \in PacePeriods
    /\ pcAcc = 0
    /\ \E odd \in {0, 1} : pcMax = PacketMax(pcRate, pcUs, odd)
    /\ pcRing = 0
    /\ pcSent = [packets |-> 0, bytes |-> 0, taken |-> 0]

\* Mutant: what is left of a frame is not carried to the next packet.
PaceNextDrops ==
    LET frames == (pcAcc + Owed) \div Second
        cap == pcMax - (pcMax % PaceFrame)
    IN  [acc |-> 0, want |-> PcMin(frames * PaceFrame, cap)]

\* usbhost_iso_pace_next: whole frames, never more than the packet holds.
PaceNext ==
    LET frames == (pcAcc + Owed) \div Second
        cap == pcMax - (pcMax % PaceFrame)
    IN  [acc |-> pcAcc + Owed - frames * Second, want |-> PcMin(frames * PaceFrame, cap)]

\* What a packet takes of the ring: whole frames.
Take(want) == LET take == PcMin(pcRing, want) IN take - (take % PaceFrame)

\* A packet of usbhost_stream_fill; what the ring lacks is silence.
PcFill ==
    /\ pcSent.packets < PacePackets
    /\ LET next == PaceNext IN
       /\ pcAcc' = next.acc
       /\ pcRing' = pcRing - Take(next.want)
       /\ pcSent' = [packets |-> pcSent.packets + 1,
                     bytes |-> pcSent.bytes + next.want,
                     taken |-> pcSent.taken + Take(next.want)]
    /\ UNCHANGED <<pcRate, pcUs, pcMax>>

\* The source pushes what the ring takes.
PcPush ==
    /\ LET n == PcMin(PacePush, PaceRing - pcRing) IN
       pcRing' = pcRing + n
    /\ UNCHANGED <<pcRate, pcUs, pcAcc, pcMax, pcSent>>

PcNext == PcFill \/ PcPush

PcSpec == PcInit /\ [][PcNext]_pcVars

-----------------------------------------------------------------------------
\* The stream runs neither fast nor slow, however long: the bytes sent are the
\* rate's to less than a frame, whatever part of one an interval leaves.
OnRate == pcSent.bytes = ((pcSent.packets * Owed) \div Second) * PaceFrame

\* Samples stay aligned: a packet is whole frames of sound, then whole frames
\* of silence, though the ring may hold part of a frame.
Aligned == pcSent.taken % PaceFrame = 0 /\ pcSent.bytes % PaceFrame = 0

\* The stream in the long run, and each packet of it.
PaceSafe == OnRate /\ Aligned

-----------------------------------------------------------------------------
\* What an isochronous OUT endpoint needs of its two helpers: its queue covers a
\* missed tick, and its packets keep the rate and whole frames. (usbhost_iso_queue.h,
\* usbhost_iso_pace.h)
IsoSafe == NeverDry /\ PaceSafe
=============================================================================
