-------------------------------- MODULE Wasapi --------------------------------
(***************************************************************************)
(* WASAPI for the audio pump on Windows (audioif_wasapi.c, _audioif.c's    *)
(* Input and sink): a speaker the pump writes to, a microphone it reads or *)
(* one that a thread of its own reads into a Ring. One thread uses a       *)
(* stream; the device plays or captures beside it.                         *)
(* External: the device, the pump, and the Ring's room.                    *)
(***************************************************************************)
EXTENDS Integers, Sequences, SequencesExt

CONSTANTS
    WsBuffer,   \* buffer_frames, what Windows granted
    WsPeriod,   \* frames the device takes or gives at a time
    WsPrime,    \* prime_ms
    WsKeep,     \* keep_ms in frames
    WsBlocks,   \* lengths of the blocks written or read
    WsMax       \* bound: frames written or captured

ASSUME WsAssumption ==
    /\ WsBuffer \in Nat \ {0} /\ WsPeriod \in 1..WsBuffer
    /\ WsPrime \in Nat /\ WsKeep \in Nat /\ WsMax \in Nat
    /\ WsBlocks \subseteq Nat \ {0}

VARIABLES
    wsKind,     \* "speaker"; "mic", read by the pump; "ring", read by its thread
    wsObj,      \* the audioif_wasapi_t: "none", "live", "joins" (deinit) or "freed"
    wsOpen,     \* the device: "untried", "open", "failed"
    wsQueue,    \* speaker: frames queued; microphone: packets captured
    wsFifo,     \* what arrived beyond the last read
    wsRun,      \* ring: `running`
    wsAt,       \* the thread that uses it: "none", "idle", "looks", "copies",
                \* "drains", "trims", "waits"
    wsBlock,    \* its write or read: length, frames done, first look, padding
    wsNext,     \* frames written or captured so far; frame n is number n
    wsHeard,    \* number of the last frame a read gave, and how many it gave
    wsDropped,  \* stats.dropped
    wsLost      \* frames the device itself threw away

wsVars == <<wsKind, wsObj, wsOpen, wsQueue, wsFifo, wsRun, wsAt, wsBlock,
            wsNext, wsHeard, wsDropped, wsLost>>

WsSilence == 0
WsOf(n) == [i \in 1..n |-> WsSilence]
WsFrames(from, n) == [i \in 1..n |-> from + i]
WsNoBlock == [len |-> 0, done |-> 0, first |-> FALSE, padding |-> 0]
WsBegun(len) == [len |-> len, done |-> 0, first |-> TRUE, padding |-> 0]

\* The fifo: everything the device can hold plus one more buffer.
WsFifoCap == 2 * WsBuffer

WsInit ==
    /\ wsKind \in {"speaker", "mic", "ring"}
    /\ wsObj = "none" /\ wsOpen = "untried"
    /\ wsQueue = <<>> /\ wsFifo = <<>>
    /\ wsRun = FALSE /\ wsAt = "none" /\ wsBlock = WsNoBlock
    /\ wsNext = 0 /\ wsHeard = [last |-> 0, count |-> 0]
    /\ wsDropped = 0 /\ wsLost = 0

WsStreamSame == UNCHANGED <<wsFifo, wsNext, wsHeard, wsDropped, wsLost>>

\* A sink that names a speaker that is there.
WsSinkOpen ==
    /\ wsKind = "speaker" /\ wsObj = "none"
    /\ wsObj' = "live" /\ wsAt' = "idle"
    /\ UNCHANGED <<wsKind, wsOpen, wsQueue, wsRun, wsBlock>> /\ WsStreamSame

\* An Input is made; the Ring's reader may not start, and then the exception
\* leaves the rest to the finaliser.
WsInput(starts) ==
    /\ wsKind # "speaker" /\ wsObj = "none" /\ wsObj' = "live"
    /\ wsRun' = (wsKind = "ring" /\ starts)
    /\ wsAt' = IF wsKind = "ring" /\ ~starts THEN "none" ELSE "idle"
    /\ UNCHANGED <<wsKind, wsOpen, wsQueue, wsBlock>> /\ WsStreamSame

\* audioif_wasapi_open, once, on the thread that uses it: a speaker has its
\* silence queued; one that fails stays failed.
WsOpens ==
    \/ /\ wsOpen = "untried" /\ wsOpen' \in {"open", "failed"}
       /\ wsQueue' = IF wsKind = "speaker" /\ wsOpen' = "open"
                     THEN WsOf(Min({WsPrime, WsBuffer})) ELSE <<>>
    \/ wsOpen # "untried" /\ UNCHANGED <<wsOpen, wsQueue>>

\* It begins a write or a read, which gives nothing when the device failed. The
\* Ring's reader looks at `running` before each.
WsUse(len) ==
    /\ wsObj = "live" /\ wsAt = "idle"
    /\ WsOpens /\ wsOpen' = "open"
    /\ wsBlock' = WsBegun(len)
    /\ wsAt' = IF wsKind = "speaker" THEN "looks" ELSE "drains"
    /\ UNCHANGED <<wsKind, wsObj, wsRun>> /\ WsStreamSame

WsFails ==
    /\ wsObj = "live" /\ wsAt = "idle"
    /\ WsOpens /\ wsOpen' = "failed"
    /\ UNCHANGED <<wsKind, wsObj, wsRun, wsAt, wsBlock>> /\ WsStreamSame

\* The event has been set, or the time is up.
WsWaitEnds(to) ==
    /\ wsAt = "waits" /\ wsAt' = to
    /\ UNCHANGED <<wsKind, wsObj, wsOpen, wsQueue, wsRun, wsBlock>> /\ WsStreamSame
-----------------------------------------------------------------------------
\* audioif_wasapi_write

\* The engine plays a period of what is queued, or silence, and sets the event.
WsPlays ==
    /\ wsKind = "speaker" /\ wsOpen = "open" /\ wsObj # "freed"
    /\ wsQueue' = SubSeq(wsQueue, 1 + Min({WsPeriod, Len(wsQueue)}), Len(wsQueue))
    /\ UNCHANGED <<wsKind, wsObj, wsOpen, wsRun, wsAt, wsBlock>> /\ WsStreamSame

\* Mutant: the cushion goes back whenever the queue is found empty.
WsCushionAlways(block, padding) ==
    IF padding = 0 THEN Min({WsPrime, WsBuffer \div 2}) ELSE 0

\* The silence to put in front of a block that came to an empty queue.
WsCushion(block, padding) ==
    IF block.first /\ padding = 0 THEN Min({WsPrime, WsBuffer \div 2}) ELSE 0

\* The padding is read, and what it says is used after the engine played on.
WsLooks ==
    /\ wsAt = "looks"
    /\ LET cushion == WsCushion(wsBlock, Len(wsQueue))
           padding == Len(wsQueue) + cushion
       IN  /\ wsQueue' = wsQueue \o WsOf(cushion)
           /\ wsBlock' = [wsBlock EXCEPT !.first = FALSE, !.padding = padding]
           /\ wsAt' = IF padding < WsBuffer THEN "copies" ELSE "waits"
    /\ UNCHANGED <<wsKind, wsObj, wsOpen, wsRun>> /\ WsStreamSame

\* As much of the block as there was room for.
WsCopies ==
    /\ wsAt = "copies"
    /\ LET n == Min({wsBlock.len - wsBlock.done, WsBuffer - wsBlock.padding})
       IN  /\ wsQueue' = wsQueue \o WsFrames(wsNext + wsBlock.done, n)
           /\ IF wsBlock.done + n = wsBlock.len
              THEN /\ wsAt' = "idle" /\ wsBlock' = WsNoBlock
                   /\ wsNext' = wsNext + wsBlock.len
              ELSE /\ wsAt' = "looks" /\ UNCHANGED wsNext
                   /\ wsBlock' = [wsBlock EXCEPT !.done = @ + n]
    /\ UNCHANGED <<wsKind, wsObj, wsOpen, wsRun, wsFifo, wsHeard, wsDropped,
                   wsLost>>

\* The write's time is up, or the device has failed: the rest of the block is lost.
WsGivesUp ==
    /\ wsKind = "speaker" /\ wsAt \in {"looks", "waits"}
    /\ wsAt' = "idle" /\ wsBlock' = WsNoBlock
    /\ wsNext' = wsNext + wsBlock.len
    /\ UNCHANGED <<wsKind, wsObj, wsOpen, wsQueue, wsRun, wsFifo, wsHeard,
                   wsDropped, wsLost>>
-----------------------------------------------------------------------------
\* audioif_wasapi_read

\* A packet arrives, and the oldest goes when the device can hold no more.
WsCaptures(n) ==
    /\ wsKind # "speaker" /\ wsOpen = "open" /\ wsObj # "freed"
    /\ wsNext + n <= WsMax /\ wsNext' = wsNext + n
    /\ LET full == Len(FlattenSeq(wsQueue)) + n > WsBuffer
           kept == IF full THEN Tail(wsQueue) ELSE wsQueue
       IN  /\ wsQueue' = Append(kept, WsFrames(wsNext, n))
           /\ wsLost' = wsLost + (IF full THEN Len(Head(wsQueue)) ELSE 0)
    /\ UNCHANGED <<wsKind, wsObj, wsOpen, wsFifo, wsRun, wsAt, wsBlock, wsHeard, wsDropped>>

\* audioif_wasapi_drain, a packet at a time, until there is none.
WsDrains ==
    /\ wsAt = "drains"
    /\ IF wsQueue = <<>>
       THEN /\ wsAt' = "trims" /\ UNCHANGED <<wsQueue, wsFifo, wsDropped>>
       ELSE LET packet == Head(wsQueue)
                fits == Len(wsFifo) + Len(packet) <= WsFifoCap
            IN  /\ wsQueue' = Tail(wsQueue) /\ UNCHANGED wsAt
                /\ wsFifo' = IF fits THEN wsFifo \o packet ELSE wsFifo
                /\ wsDropped' = wsDropped + (IF fits THEN 0 ELSE Len(packet))
    /\ UNCHANGED <<wsKind, wsObj, wsOpen, wsRun, wsBlock, wsNext, wsHeard, wsLost>>

\* What of the fifo is beyond the read and `keep_ms`, the oldest of it.
WsCut == IF WsKeep = 0 THEN 0
         ELSE Max({0, Len(wsFifo) - (wsBlock.len + WsKeep)})

\* The backlog is cut; the read ends with what there is once that is enough or
\* its time is up, and else waits.
WsTrims ==
    /\ wsAt = "trims"
    /\ wsDropped' = wsDropped + WsCut
    /\ LET rest == SubSeq(wsFifo, 1 + WsCut, Len(wsFifo))
           n == Min({Len(rest), wsBlock.len})
       IN  \/ /\ wsAt' = "idle" /\ wsBlock' = WsNoBlock
              /\ wsFifo' = SubSeq(rest, 1 + n, Len(rest))
              /\ wsHeard' = [last |-> IF n = 0 THEN wsHeard.last ELSE rest[n],
                             count |-> wsHeard.count + n]
           \/ /\ n < wsBlock.len
              /\ wsAt' = "waits" /\ wsFifo' = rest
              /\ UNCHANGED <<wsBlock, wsHeard>>
    /\ UNCHANGED <<wsKind, wsObj, wsOpen, wsQueue, wsRun, wsNext, wsLost>>
-----------------------------------------------------------------------------
\* The reader thread sees that it is to end.
WsReaderEnds ==
    /\ wsKind = "ring" /\ wsAt = "idle" /\ ~wsRun /\ wsAt' = "none"
    /\ UNCHANGED <<wsKind, wsObj, wsOpen, wsQueue, wsRun, wsBlock>> /\ WsStreamSame

\* Input's deinit() or finaliser. Without a Ring, only when no pump reads it.
WsDeinit ==
    /\ wsKind # "speaker" /\ wsObj = "live" /\ (wsKind = "mic" => wsAt = "idle")
    /\ wsRun' = FALSE /\ wsObj' = "joins"
    /\ UNCHANGED <<wsKind, wsOpen, wsQueue, wsAt, wsBlock>> /\ WsStreamSame

\* The engine closes the sink when its thread has been released.
WsSinkClose ==
    /\ wsKind = "speaker" /\ wsObj = "live" /\ wsAt = "idle"
    /\ wsObj' = "joins"
    /\ UNCHANGED <<wsKind, wsOpen, wsQueue, wsRun, wsAt, wsBlock>> /\ WsStreamSame

\* The reader has ended, and the stream is stopped and freed.
WsFree ==
    /\ wsObj = "joins" /\ (wsKind = "ring" => wsAt = "none")
    /\ wsObj' = "freed" /\ wsAt' = "none"
    /\ wsFifo' = <<>>
    /\ UNCHANGED <<wsKind, wsOpen, wsQueue, wsRun, wsBlock, wsNext, wsHeard,
                   wsDropped, wsLost>>

WsNext ==
    \/ WsSinkOpen \/ WsFails \/ WsSinkClose
    \/ \E starts \in BOOLEAN : WsInput(starts)
    \/ \E len \in WsBlocks : WsUse(len) /\ (wsKind = "speaker" => wsNext + len <= WsMax)
    \/ WsPlays \/ WsLooks \/ WsCopies \/ WsGivesUp
    \/ \E n \in 1..WsPeriod : WsCaptures(n)
    \/ WsDrains \/ WsTrims \/ WsReaderEnds \/ WsDeinit \/ WsFree
    \/ WsWaitEnds(IF wsKind = "speaker" THEN "looks" ELSE "drains")

WsSpec == WsInit /\ [][WsNext]_wsVars
-----------------------------------------------------------------------------
\* The speaker's queue never holds more than Windows granted, and plays every
\* frame once and in order; silence comes before a block and never inside one.
\* (audioif_wasapi_write)
WsPlaysInOrder ==
    wsKind = "speaker" =>
      /\ Len(wsQueue) <= WsBuffer
      /\ \A i \in 1..Len(wsQueue) - 1 :
           LET a == wsQueue[i]  b == wsQueue[i + 1]
           IN  a # WsSilence => b = WsSilence \/ b > a
      /\ wsBlock.done > 0 => \A i \in 1..Len(wsQueue) :
           wsQueue[i] = WsSilence => \E j \in i + 1..Len(wsQueue) : wsQueue[j] = wsNext + 1

\* The microphone's frames are read once and in order, and each that is not is
\* counted: given, waiting, dropped here, or lost before it came.
\* (audioif_wasapi_drain, audioif_wasapi_read)
WsHeardOrCounted ==
    wsKind # "speaker" /\ wsObj # "freed" =>
      /\ wsNext = wsHeard.count + Len(wsFifo) + Len(FlattenSeq(wsQueue)) + wsDropped + wsLost
      /\ Len(wsFifo) <= WsFifoCap
      /\ \A i \in 1..Len(wsFifo) :
           wsFifo[i] > (IF i = 1 THEN wsHeard.last ELSE wsFifo[i - 1])

\* "Hold the backlog to one read plus keep_ms": between reads there is no more
\* than keep_ms of it.
WsBacklog ==
    wsKind # "speaker" /\ wsAt = "idle" /\ WsKeep > 0 => Len(wsFifo) <= WsKeep

\* A stream that is freed is used by no thread. (deinit waits for the reader.)
WsFreedUnused == wsObj = "freed" => wsAt = "none"

\* What a listener and a recorder may rely on, and what lets the memory go.
WsSafe == WsPlaysInOrder /\ WsHeardOrCounted /\ WsBacklog /\ WsFreedUnused
=============================================================================
