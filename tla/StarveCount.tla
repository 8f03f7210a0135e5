----------------------------- MODULE StarveCount ----------------------------
(***************************************************************************)
(* The count of starved audio that audiobusio.I2SOut.starved() reads. The  *)
(* DMA's interrupt is its two witnesses: descriptors that go out with      *)
(* nothing written, and gaps in which the DMA stood still. The pump's      *)
(* thread says when counting begins, and the interpreter when it does not, *)
(* by two plain words: a step of either is one access to one of these. The *)
(* interrupt is on the interpreter's core and is one step to it, but two   *)
(* to the pump, which is on the other. Time is in descriptors.             *)
(***************************************************************************)
EXTENDS Naturals

CONSTANTS ScDepth,  \* descriptors that can be written ahead of the one going out
          ScStill,  \* bound: time the DMA stands still at once
          ScMax,    \* bound: time since a performance's first write
          ScPlays   \* bound: calls of play()

VARIABLES
    scLive, scPending,  \* counting now; count from the next write
    scDry, scHalted,    \* descriptors that went out dry, and time the DMA stood still
    scGap, scLast,      \* time since the last descriptor finished; whether one has
    scLevel,            \* descriptors written ahead of the one going out
    scDma,    \* "runs", "dry": between the interrupt's two callbacks
    scPump,   \* "off", "run", "wrote", "mark" (has seen `pending`), "marking", "parked"
    scObj,    \* the I2SOut: "idle", "playing", "paused", and in play() "descs", "halted",
              \* "pending" and "start", in pause() "hold" and "pausing", in resume() "resume"
    scPlayed, \* calls of play()
    scSeen    \* history: [since, before], the time since the performance's first write,
              \* with what goes out at the write, and the gap that it landed in

scVars == <<scLive, scPending, scDry, scHalted, scGap, scLast, scLevel, scDma, scPump, scObj,
            scPlayed, scSeen>>

\* The channel opens with a reset of its own.
ScInit ==
    /\ scLive = FALSE /\ scPending = TRUE /\ scDry = 0 /\ scHalted = 0
    /\ scGap = 0 /\ scLast = FALSE /\ scLevel = 0 /\ scDma = "runs"
    /\ scPump = "off" /\ scObj = "idle"
    /\ scPlayed = 0 /\ scSeen = [since |-> 0, before |-> 0]

---------------------------------------------------------------------------
(* The DMA and its interrupt *)

ScPasses ==
    /\ scDma = "runs" /\ scGap < ScStill /\ scSeen.since < ScMax
    /\ scSeen' = [scSeen EXCEPT !.since = IF @ = 0 THEN 0 ELSE @ + 1]

\* Mutant: the descriptor the gap should have been is charged too.
ScChargeWhole(gap) == IF gap > 2 THEN gap ELSE 0

ScCharge(gap) == IF gap > 2 THEN gap - 1 ELSE 0

\* A descriptor has gone out (audiopump_on_sent); with none written, the next is dry.
ScSent ==
    /\ ScPasses
    /\ scHalted' = IF scLive /\ scLast THEN scHalted + ScCharge(scGap + 1) ELSE scHalted
    /\ scLast' = TRUE /\ scGap' = 0
    /\ scLevel' = IF scLevel > 0 THEN scLevel - 1 ELSE 0
    /\ scDma' = IF scLevel > 0 THEN "runs" ELSE "dry"
    /\ UNCHANGED <<scLive, scPending, scDry, scPump, scObj, scPlayed>>

\* audiopump_on_send_q_ovf
ScDry ==
    /\ scDma = "dry"
    /\ scDry' = IF scLive THEN scDry + 1 ELSE scDry
    /\ scDma' = "runs"
    /\ UNCHANGED <<scLive, scPending, scHalted, scGap, scLast, scLevel, scPump, scObj,
                   scPlayed, scSeen>>

\* The flash is written, say, and nothing goes out.
ScStands ==
    /\ ScPasses
    /\ scGap' = scGap + 1
    /\ UNCHANGED <<scLive, scPending, scDry, scHalted, scLast, scLevel, scDma, scPump, scObj,
                   scPlayed>>

---------------------------------------------------------------------------
(* The pump's thread: audiopump_sink_write *)

ScWrite ==
    /\ scPump = "run" /\ scLevel < ScDepth
    /\ scLevel' = scLevel + 1 /\ scPump' = "wrote"
    /\ scSeen' = IF scSeen.since # 0 THEN scSeen
                 ELSE [since |-> 1, before |-> IF scLast THEN scGap ELSE 0]
    /\ UNCHANGED <<scLive, scPending, scDry, scHalted, scGap, scLast, scDma, scObj, scPlayed>>

ScLooks ==
    /\ scPump = "wrote" /\ scPump' = IF scPending THEN "mark" ELSE "run"
    /\ UNCHANGED <<scLive, scPending, scDry, scHalted, scGap, scLast, scLevel, scDma, scObj,
                   scPlayed, scSeen>>

ScMark ==
    /\ scPump = "mark" /\ scPump' = "marking" /\ scPending' = FALSE
    /\ UNCHANGED <<scLive, scDry, scHalted, scGap, scLast, scLevel, scDma, scObj, scPlayed, scSeen>>

ScCounts ==
    /\ scPump = "marking" /\ scPump' = "run" /\ scLive' = TRUE
    /\ UNCHANGED <<scPending, scDry, scHalted, scGap, scLast, scLevel, scDma, scObj, scPlayed, scSeen>>

\* The sample has run out, or a park was asked for.
ScEnds ==
    /\ scPump = "run"
    /\ scPump' \in {"off"} \cup (IF scObj \in {"pausing", "paused", "resume"} THEN {"parked"} ELSE {})
    /\ UNCHANGED <<scLive, scPending, scDry, scHalted, scGap, scLast, scLevel, scDma, scObj,
                   scPlayed, scSeen>>

---------------------------------------------------------------------------
(* The interpreter: audiobusio.I2SOut and the three calls it makes *)

\* In play(): audiopump_i2s_starved_reset, and the pump.
ScPlay ==
    /\ scDma = "runs" /\ scObj = "idle" /\ scPump = "off" /\ scPlayed < ScPlays
    /\ scLive' = FALSE
    /\ scObj' = "descs" /\ scPlayed' = scPlayed + 1
    /\ scSeen' = [since |-> 0, before |-> 0]
    /\ UNCHANGED <<scPending, scDry, scHalted, scGap, scLast, scLevel, scDma, scPump>>

ScForgetsDry ==
    /\ scDma = "runs" /\ scObj = "descs" /\ scObj' = "halted" /\ scDry' = 0
    /\ UNCHANGED <<scLive, scPending, scHalted, scGap, scLast, scLevel, scDma, scPump, scPlayed, scSeen>>

ScForgetsHalted ==
    /\ scDma = "runs" /\ scObj = "halted" /\ scObj' = "pending" /\ scHalted' = 0
    /\ UNCHANGED <<scLive, scPending, scDry, scGap, scLast, scLevel, scDma, scPump, scPlayed, scSeen>>

ScPends ==
    /\ scDma = "runs" /\ scObj = "pending" /\ scObj' = "start" /\ scPending' = TRUE
    /\ UNCHANGED <<scLive, scDry, scHalted, scGap, scLast, scLevel, scDma, scPump, scPlayed, scSeen>>

ScStarts ==
    /\ scDma = "runs" /\ scObj = "start" /\ scObj' = "playing" /\ scPump' = "run"
    /\ UNCHANGED <<scLive, scPending, scDry, scHalted, scGap, scLast, scLevel, scDma, scPlayed, scSeen>>

\* In play(), for another rate: the channel opens anew, before its interrupt is on.
ScReopen ==
    /\ scDma = "runs" /\ scObj = "idle" /\ scPump = "off"
    /\ scLive' = FALSE /\ scPending' = TRUE /\ scDry' = 0 /\ scHalted' = 0
    /\ scGap' = 0 /\ scLast' = FALSE /\ scLevel' = 0
    /\ scSeen' = [since |-> 0, before |-> 0]
    /\ UNCHANGED <<scDma, scPump, scObj, scPlayed>>

\* stop(), or a read of `playing` after the end: the pump is joined.
ScStop ==
    /\ scDma = "runs" /\ scObj \in {"playing", "paused"} /\ scPump \in {"off", "run", "parked"}
    /\ scObj' = "idle" /\ scPump' = "off"
    /\ UNCHANGED <<scLive, scPending, scDry, scHalted, scGap, scLast, scLevel, scDma, scPlayed, scSeen>>

\* pause(): audiopump_i2s_starved_hold, then a park that is waited for, but not for ever.
ScHold ==
    /\ scDma = "runs" /\ scObj \in {"playing", "paused"} /\ scObj' = "hold" /\ scPending' = FALSE
    /\ UNCHANGED <<scLive, scDry, scHalted, scGap, scLast, scLevel, scDma, scPump, scPlayed, scSeen>>

ScHeld ==
    /\ scDma = "runs" /\ scObj = "hold" /\ scObj' = "pausing" /\ scLive' = FALSE
    /\ UNCHANGED <<scPending, scDry, scHalted, scGap, scLast, scLevel, scDma, scPump, scPlayed, scSeen>>

ScPaused ==
    /\ scDma = "runs" /\ scObj = "pausing" /\ scObj' = "paused"
    /\ UNCHANGED <<scLive, scPending, scDry, scHalted, scGap, scLast, scLevel, scDma, scPump,
                   scPlayed, scSeen>>

\* resume(): audiopump_i2s_starved_resume, and the park is over.
ScResume ==
    /\ scDma = "runs" /\ scObj = "paused" /\ scObj' = "resume" /\ scLive' = FALSE
    /\ UNCHANGED <<scPending, scDry, scHalted, scGap, scLast, scLevel, scDma, scPump, scPlayed, scSeen>>

ScResumed ==
    /\ scDma = "runs" /\ scObj = "resume" /\ scObj' = "playing" /\ scPending' = TRUE
    /\ scPump' = IF scPump = "parked" THEN "run" ELSE scPump
    /\ UNCHANGED <<scLive, scDry, scHalted, scGap, scLast, scLevel, scDma, scPlayed, scSeen>>

ScNext == ScSent \/ ScDry \/ ScStands \/ ScWrite \/ ScLooks \/ ScMark \/ ScCounts \/ ScEnds
          \/ ScPlay \/ ScForgetsDry \/ ScForgetsHalted \/ ScPends \/ ScStarts \/ ScReopen
          \/ ScStop \/ ScHold \/ ScHeld \/ ScPaused \/ ScResume \/ ScResumed

ScSpec == ScInit /\ [][ScNext]_scVars

---------------------------------------------------------------------------
(* Properties *)

ScResetting == scObj \in {"descs", "halted", "pending"}

\* Whenever the program can read it, starved() is no more than the time since the
\* performance's first write and the gap that landed in: the two witnesses never
\* charge the same time twice, nothing is counted before that write, and of what
\* went before it only a gap the DMA was standing in. (_audioif.c:943-971)
ScNoStartup == ~ScResetting => scDry + scHalted <= scSeen.since + scSeen.before

\* "Counting is off until the pump's first write" (_audioif.c:969), without that gap.
ScFromTheWrite == ~ScResetting => scDry + scHalted <= scSeen.since

\* "Silence that was asked for is not starvation. A stopped output and a paused one
\* both leave the channel clocking zeros on purpose." (_audioif.c:3029-3030)
ScAskedFor ==
    [][scDry' + scHalted' > scDry + scHalted => scObj \notin {"idle", "paused"}]_scVars
=============================================================================
