------------------------------ MODULE UvcFrame ------------------------------
(***************************************************************************)
(* A camera's packets into whole frames: shared/usbhost_uvc_frame.h, fed   *)
(* by usbhost_stream_cb, over a ring of records that a program reads.      *)
(*                                                                         *)
(* External: the camera, which sends frames of UvcSizes packets with       *)
(* payload, the ID toggling from frame to frame and the end marked in the  *)
(* last of them or after it, with headers alone anywhere, and is joined    *)
(* inside a frame; and the bus, which loses packets (usbhost_stream_cb     *)
(* counts those and the assembler never hears of them), but not all of the *)
(* frame that follows one whose end it lost: only the ID's one bit tells   *)
(* the two apart. A packet of payload is its frame's number and its own.   *)
(***************************************************************************)
EXTENDS Integers, Sequences, FiniteSets, SequencesExt

CONSTANTS
    UvcSizes,       \* packets of a frame's payload
    UvcRing,        \* the ring's size, in packets
    UvcLen,         \* USBHOST_UVC_LEN_BYTES, in packets
    UvcMaxFrame,    \* max_frame, in packets; 0 for any
    UvcFrames       \* frames the camera sends, a bound for TLC

ASSUME UvcAssumption ==
    UvcSizes \subseteq Nat \ {0} /\ {UvcRing, UvcLen, UvcMaxFrame, UvcFrames} \subseteq Nat

VARIABLES
    uvc,        \* usbhost_uvc_frame_t: `fill` as the packets staged, in order, `seen` in
                \* packets of payload, and `got` as whether there are any
    uvcRing,    \* the records committed
    uvcCam,     \* the camera: its frame, the next packet of payload, and whether the
                \* end has been sent
    uvcSeen,    \* history: the frames payload arrived of, those an error was marked in,
                \* those whose end arrived, and the one cut off before its end, or 0
    uvcEnds     \* frames, dropped_full, dropped_torn and dropped_big

uvcVars == <<uvc, uvcRing, uvcCam, uvcSeen, uvcEnds>>

UvcStart == [fill |-> <<>>, seen |-> 0, got |-> FALSE, has_fid |-> FALSE, fid |-> 0,
             torn |-> TRUE, full |-> FALSE, big |-> FALSE]

UvcInit ==
    /\ uvc = UvcStart /\ uvcRing = <<>>
    /\ \E n \in UvcSizes : uvcCam \in [frame : {1}, size : {n}, idx : 1 .. n + 1, over : {FALSE}]
    /\ uvcSeen = [any |-> {}, bad |-> {}, ended |-> {}, open |-> 0]
    /\ uvcEnds = [frames |-> 0, full |-> 0, torn |-> 0, big |-> 0]

\* The ring's room; `stage` takes what fits at an offset past its head.
UvcUsed == Len(FlattenSeq(uvcRing)) + UvcLen * Len(uvcRing)

UvcStages(f) == UvcUsed + UvcLen + Len(f.fill) + 1 <= UvcRing

UvcCleared(f) == [f EXCEPT !.fill = <<>>, !.seen = 0, !.got = FALSE,
                           !.torn = FALSE, !.full = FALSE, !.big = FALSE]

UvcCount(ends, what) == [ends EXCEPT ![what] = @ + 1]

\* Mutant: a frame is told by its packets, those without payload too.
UvcEndOfAny(f, ends) ==
    IF f.big THEN UvcCount(ends, "big")
    ELSE IF f.torn THEN (IF f.got THEN UvcCount(ends, "torn") ELSE ends)
    ELSE IF f.full THEN UvcCount(ends, "full")
    ELSE IF f.fill # <<>> THEN UvcCount(ends, "frames") ELSE ends

\* usbhost_uvc_frame_end: the counts, and the ring with the record if it is whole.
UvcEnd(f, ends) ==
    IF f.big THEN UvcCount(ends, "big")
    ELSE IF f.torn THEN (IF f.seen # 0 THEN UvcCount(ends, "torn") ELSE ends)
    ELSE IF f.full THEN UvcCount(ends, "full")
    ELSE IF f.fill # <<>> THEN UvcCount(ends, "frames") ELSE ends
UvcCommits(f) == ~f.big /\ ~f.torn /\ ~f.full /\ f.fill # <<>>
UvcCommit(f, ring) == IF UvcCommits(f) THEN Append(ring, f.fill) ELSE ring

\* The frame ID moved on with no end of frame before it.
UvcTorn(f, fid) == f.has_fid /\ fid # f.fid /\ f.got

\* The payload of a packet goes into the frame it finds, unless that is given up.
UvcTaken(f, packet) ==
    LET h == [f EXCEPT !.seen = @ + 1,
                       !.big = @ \/ (UvcMaxFrame # 0 /\ f.seen + 1 > UvcMaxFrame)]
    IN  IF h.torn \/ h.full \/ h.big THEN h
        ELSE IF UvcStages(h) THEN [h EXCEPT !.fill = Append(@, packet)]
        ELSE [h EXCEPT !.full = TRUE]

\* A packet, with payload or without, the end marked in it or not.
UvcSent(load, end) ==
    LET next == IF load THEN uvcCam.idx + 1 ELSE uvcCam.idx
    IN  /\ next <= uvcCam.size + 1
        /\ end => next = uvcCam.size + 1
        /\ uvcCam' = [uvcCam EXCEPT !.idx = next, !.over = @ \/ end]

\* The frame that follows, once the end of this one was sent.
UvcTurns ==
    /\ uvcCam.over /\ uvcCam.frame < UvcFrames
    /\ uvcSeen.open \in {0, uvcCam.frame}
    /\ \E n \in UvcSizes :
           uvcCam' = [frame |-> uvcCam.frame + 1, size |-> n, idx |-> 1, over |-> FALSE]
    /\ UNCHANGED <<uvc, uvcRing, uvcSeen, uvcEnds>>

UvcHears(load, end, err) ==
    LET frame == uvcCam.frame
    IN  [any |-> uvcSeen.any \cup (IF load THEN {frame} ELSE {}),
         bad |-> uvcSeen.bad \cup (IF err THEN {frame} \ uvcSeen.ended ELSE {}),
         ended |-> uvcSeen.ended \cup (IF end THEN {frame} ELSE {}),
         open |-> IF ~end /\ (load \/ uvcSeen.open = frame) THEN frame ELSE 0]

UvcPacket(load, end, err) ==
    LET fid == uvcCam.frame % 2
        before == IF UvcTorn(uvc, fid) THEN UvcCleared(uvc) ELSE uvc
        ends == IF UvcTorn(uvc, fid) THEN UvcEnd([uvc EXCEPT !.torn = TRUE], uvcEnds) ELSE uvcEnds
        head == [before EXCEPT !.has_fid = TRUE, !.fid = fid, !.got = TRUE, !.torn = @ \/ err]
        after == IF load THEN UvcTaken(head, <<uvcCam.frame, uvcCam.idx>>) ELSE head
    IN  /\ UvcSent(load, end)
        /\ uvc' = IF end THEN UvcCleared(after) ELSE after
        /\ uvcEnds' = IF end THEN UvcEnd(after, ends) ELSE ends
        /\ uvcRing' = IF end THEN UvcCommit(after, uvcRing) ELSE uvcRing
        /\ uvcSeen' = UvcHears(load, end, err)

\* Longer than the packet, or shorter than a header: it only marks the frame.
UvcBadHeader(load, end) ==
    /\ UvcSent(load, end)
    /\ uvc' = [uvc EXCEPT !.torn = TRUE]
    /\ UNCHANGED <<uvcRing, uvcSeen, uvcEnds>>

UvcLost(load, end) ==
    /\ UvcSent(load, end)
    /\ UNCHANGED <<uvc, uvcRing, uvcSeen, uvcEnds>>

UvcRead ==
    /\ uvcRing # <<>> /\ uvcRing' = Tail(uvcRing)
    /\ UNCHANGED <<uvc, uvcCam, uvcSeen, uvcEnds>>

UvcNext ==
    \/ \E load, end, err \in BOOLEAN : UvcPacket(load, end, err)
    \/ \E load, end \in BOOLEAN : UvcBadHeader(load, end) \/ UvcLost(load, end)
    \/ UvcTurns \/ UvcRead

UvcSpec == UvcInit /\ [][UvcNext]_uvcVars

-----------------------------------------------------------------------------
\* A record is of one frame, whatever was lost, and has its packets in order:
\* the end that is missing is told by the next frame's ID.
UvcOneFrame ==
    \A r \in DOMAIN uvcRing : \A i, j \in DOMAIN uvcRing[r] :
        /\ uvcRing[r][i][1] = uvcRing[r][j][1]
        /\ i < j => uvcRing[r][i][2] < uvcRing[r][j][2]

\* A frame is published only if its end was heard, nothing before that was
\* marked an error, and it is not the one the stream began inside.
UvcNeverTorn ==
    \A r \in DOMAIN uvcRing : Head(uvcRing[r])[1] \in uvcSeen.ended \ (uvcSeen.bad \cup {1})

\* The record and its length fit the ring when it is committed.
UvcFits == UvcUsed <= UvcRing

\* Every frame of which payload came is counted once, as published or as one of
\* the three kinds of dropped, when it ends; one of which only headers came, with
\* its end or without, is none of these.
UvcCountedOnce ==
    uvcEnds.frames + uvcEnds.full + uvcEnds.torn + uvcEnds.big
        = Cardinality(uvcSeen.any) - (IF uvc.seen # 0 THEN 1 ELSE 0)

\* What a frame's packets, its record and the counters say of one another.
UvcSafe == UvcOneFrame /\ UvcNeverTorn /\ UvcFits /\ UvcCountedOnce
=============================================================================
