----------------------------- MODULE HlsSegments ----------------------------
(***************************************************************************)
(* castif.Hls: the segments its task cuts, the playlist it serves and the  *)
(* clients it sends them to, over start() and stop(). One task does all of *)
(* it: an iteration encodes a frame, or not, and steps its clients. What a *)
(* client asks for and how slowly it reads is its own.                     *)
(***************************************************************************)
EXTENDS Naturals, FiniteSets

CONSTANTS HsKeep,    \* HLS_KEEP: segment slots
          HsListed,  \* segments in a playlist
          HsClients, \* the HLS_CLIENTS rows
          HsTarget,  \* `target`, in frame times
          HsWord,    \* timestamps are kept modulo this
          HsTicks,   \* bound: frame times, all sessions together
          HsStarts   \* bound: calls of start()

VARIABLES
    hsSeg,    \* the slots: sequence number, first timestamp, duration,
              \* state ("empty", "open", "done"), clients sending it, and
              \* (not in the code) when it began on a clock that never stops
    hsCur,    \* the open slot, or 0
    hsNext,   \* next_seq
    hsTop,    \* target_s, the playlist's target duration
    hsCl,     \* each row: [st, seg, seq]: "free", "asks", "sends"
    hsTask,   \* the task runs
    hsRun,    \* `running`
    hsPts, hsKey, hsForced, \* frame times since start, at the last forced
                            \* keyframe, and whether the encoder owes one
    hsTime, hsStarted

hsCut == <<hsSeg, hsCur, hsNext, hsTop>>
hsLife == <<hsTask, hsRun, hsStarted>>
hsClock == <<hsPts, hsKey, hsForced, hsTime>>
hsVars == <<hsCut, hsCl, hsLife, hsClock>>

ASSUME HsAssumption ==
    /\ IsFiniteSet(HsClients) /\ HsKeep \in Nat
    /\ HsTarget \in Nat /\ HsWord \in Nat \ {0}

HsSlots == 1 .. HsKeep
HsFreeRow == [st |-> "free", seg |-> 0, seq |-> 0]

HsInit ==
    /\ hsSeg = [k \in HsSlots |-> [seq |-> 0, start |-> 0, dur |-> 0, st |-> "empty",
                                 busy |-> 0, born |-> 0]]
    /\ hsCur = 0 /\ hsNext = 0 /\ hsTop = HsTarget
    /\ hsCl = [c \in HsClients |-> HsFreeRow]
    /\ hsTask = FALSE /\ hsRun = FALSE /\ hsStarted = 0
    /\ hsPts = 0 /\ hsKey = 0 /\ hsForced = FALSE /\ hsTime = 0

---------------------------------------------------------------------------
(* Cutting: hls_slot and hls_frame *)

HsOldest(seg, S) == {k \in S : \A j \in S : seg[k].seq <= seg[j].seq}

\* An empty slot, or the oldest nobody is being sent.
HsSpare(seg) == {k \in HsSlots : seg[k].st # "open" /\ seg[k].busy = 0}
HsEmpty(seg) == {k \in HsSlots : seg[k].st = "empty"}

\* Mutant: the oldest, whoever is being sent it.
HsSlotBusyToo(seg) ==
    IF HsEmpty(seg) # {} THEN HsEmpty(seg)
    ELSE HsOldest(seg, {k \in HsSlots : seg[k].st # "open"})

\* The slot of the segment to come.
HsSlot(seg) ==
    IF HsEmpty(seg) # {} THEN HsEmpty(seg) ELSE HsOldest(seg, HsSpare(seg))

\* A keyframe ends the open segment when it is `target` old, and starts one.
HsAge(pts) == (pts + HsWord - hsSeg[hsCur].start) % HsWord
HsEnds(pts, idr) == idr /\ hsCur # 0 /\ HsAge(pts) >= HsTarget

HsBegin(seg, pts) ==
    IF HsSlot(seg) = {} THEN hsSeg' = seg /\ hsCur' = 0 /\ UNCHANGED hsNext
    ELSE \E k \in HsSlot(seg) :
            /\ hsSeg' = [seg EXCEPT ![k] = [@ EXCEPT !.seq = hsNext, !.start = pts,
                                                     !.st = "open", !.born = hsTime]]
            /\ hsCur' = k /\ hsNext' = hsNext + 1

HsFrame(pts, idr) ==
    /\ hsTop' = IF HsEnds(pts, idr) /\ HsAge(pts) > hsTop THEN HsAge(pts) ELSE hsTop
    /\ IF HsEnds(pts, idr)
       THEN HsBegin([hsSeg EXCEPT ![hsCur].dur = HsAge(pts), ![hsCur].st = "done"], pts)
       ELSE IF idr /\ hsCur = 0 THEN HsBegin(hsSeg, pts)
       ELSE UNCHANGED <<hsSeg, hsCur, hsNext>>

\* One frame time of the task: a keyframe is forced when `target` has passed
\* since the last. The frame may be skipped (nothing new) unless it is one; the
\* encoder may fail, and the keyframe it owes comes with the next that works.
HsTick ==
    LET pts == (hsPts + 1) % HsWord
        key == hsPts + 1 - hsKey >= HsTarget
        idr == hsForced \/ key
    IN  /\ hsTask /\ hsRun /\ hsTime < HsTicks
        /\ hsPts' = hsPts + 1 /\ hsTime' = hsTime + 1
        /\ hsKey' = IF key THEN hsPts + 1 ELSE hsKey
        /\ \/ HsFrame(pts, idr) /\ hsForced' = FALSE
           \/ hsForced' = idr /\ UNCHANGED hsCut
        /\ UNCHANGED <<hsCl, hsLife>>

---------------------------------------------------------------------------
(* Serving *)

\* The newest `listed` finished segments.
HsFinished == {k \in HsSlots : hsSeg[k].st = "done"}
HsPlaylist ==
    {hsSeg[k].seq : k \in {k \in HsFinished :
        Cardinality({j \in HsFinished : hsSeg[j].seq > hsSeg[k].seq}) < HsListed}}

HsAccept(c) ==
    /\ hsTask /\ hsCl[c].st = "free"
    /\ hsCl' = [hsCl EXCEPT ![c].st = "asks"]
    /\ UNCHANGED <<hsCut, hsLife, hsClock>>

\* GET seg<N>.ts of a segment that is there: the client is sent its buffer.
HsRespond(c) ==
    /\ hsTask /\ hsCl[c].st = "asks"
    /\ \E k \in HsFinished :
          /\ hsSeg' = [hsSeg EXCEPT ![k].busy = @ + 1]
          /\ hsCl' = [hsCl EXCEPT ![c] = [st |-> "sends", seg |-> k, seq |-> hsSeg[k].seq]]
    /\ UNCHANGED <<hsCur, hsNext, hsTop, hsLife, hsClock>>

HsLeave(seg, c) ==
    IF hsCl[c].seg = 0 THEN seg ELSE [seg EXCEPT ![hsCl[c].seg].busy = @ - 1]

\* All sent, answered with a text, or gone.
HsClientClose(c) ==
    /\ hsTask /\ hsCl[c].st # "free"
    /\ hsSeg' = HsLeave(hsSeg, c)
    /\ hsCl' = [hsCl EXCEPT ![c] = HsFreeRow]
    /\ UNCHANGED <<hsCur, hsNext, hsTop, hsLife, hsClock>>

---------------------------------------------------------------------------
(* start() and stop() *)

\* The task's clock starts again; the segments, the open one among them, are
\* as the last session left them.
HsStart ==
    /\ ~hsTask /\ hsStarted < HsStarts
    /\ hsTask' = TRUE /\ hsRun' = TRUE /\ hsStarted' = hsStarted + 1
    /\ hsPts' = HsTarget /\ hsKey' = 0    \* the first frame is a keyframe
    /\ UNCHANGED <<hsCut, hsCl, hsForced, hsTime>>

HsStop ==
    /\ hsRun /\ hsRun' = FALSE
    /\ UNCHANGED <<hsCut, hsCl, hsTask, hsStarted, hsClock>>

\* The task sees it and closes its clients.
HsBusyAfter(k) == hsSeg[k].busy - Cardinality({c \in HsClients : hsCl[c].seg = k})
HsEnd ==
    /\ hsTask /\ ~hsRun
    /\ hsTask' = FALSE
    /\ hsSeg' = [k \in HsSlots |-> [hsSeg[k] EXCEPT !.busy = HsBusyAfter(k)]]
    /\ hsCl' = [c \in HsClients |-> HsFreeRow]
    /\ UNCHANGED <<hsCur, hsNext, hsTop, hsRun, hsStarted, hsClock>>

HsNext ==
    \/ HsTick \/ HsStart \/ HsStop \/ HsEnd
    \/ \E c \in HsClients : HsAccept(c) \/ HsRespond(c) \/ HsClientClose(c)

HsSpec == HsInit /\ [][HsNext]_hsVars
---------------------------------------------------------------------------
\* The segment a client is being sent is the one it asked for, whole, until
\* the client is done, however many segments are cut meanwhile; and the count
\* that keeps it is the clients on it.
HsSentIsKept ==
    /\ \A c \in HsClients : hsCl[c].st = "sends" =>
          /\ hsSeg[hsCl[c].seg].st = "done"
          /\ hsSeg[hsCl[c].seg].seq = hsCl[c].seq
    /\ \A k \in HsSlots : hsSeg[k].busy = Cardinality({c \in HsClients : hsCl[c].seg = k})

\* With a slot for the open segment, one for each that is listed and one for
\* each client, the playlist is the newest finished segments, none missing
\* between them, however slow the clients are. (Of the code's eight slots and
\* six clients, that holds for one listed segment only.)
HsNewestListed ==
    LET top == IF hsCur = 0 THEN hsNext ELSE hsNext - 1
    IN  HsPlaylist = {n \in 0 .. hsNext : n < top /\ n + HsListed >= top}

\* A segment's duration in the playlist, and so its target duration, is never
\* more than the time the segment really took.
HsDurationTrue == \A k \in HsFinished : hsSeg[k].dur <= hsTime - hsSeg[k].born
=============================================================================
