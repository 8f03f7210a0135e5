------------------------------- MODULE RgbPanel -------------------------------
(***************************************************************************)
(* The dot-clock frame buffer of the ESP32 (mod_dotclockframebuffer.c): a  *)
(* panel that ESP-IDF scans out of one of its two buffers for ever, and a  *)
(* Python object that paints the other and flips them. A call is taken in  *)
(* the steps the scanout can come between; Python runs one call at a time. *)
(***************************************************************************)
EXTENDS Integers, Sequences

CONSTANTS RpWidth, RpHeight,  \* the panel's cells
          RpColors,
          RpRowsMin, RpRowsMax, \* rows of a bounce buffer
          RpRoom,       \* rows the internal heap may have two buffers for
          RpKeepsOld,   \* whether a program uses an object it has replaced
          RpMakes       \* bound: constructions

ASSUME RpAssumption == RpWidth \in Nat /\ RpHeight \in Nat

VARIABLES
    rpIdf,    \* ESP-IDF's panel: 0, or the number of the construction it is of
    rpHost,   \* s_host: the panel that will be deleted, 0 when there is none
    rpScan,   \* [shown, next]: the buffer on screen, and the one it wraps to
    rpMoved,  \* whether a frame has been counted since present_frames was read
    rpMem,    \* the two buffers
    rpObjs,   \* the object of each construction; a failed one has none to use
    rpCall,   \* the call in hand
    rpDropped,\* whether the last flip was given up
    rpGui     \* the buffer a direct painter paints next; -1 without one, and
              \* when a flip it relies on was given up

rpVars == <<rpIdf, rpHost, rpScan, rpMoved, rpMem, rpObjs, rpCall, rpDropped, rpGui>>

RpCells == (0 .. RpWidth - 1) \X (0 .. RpHeight - 1)
RpRects == {r \in [x0 : 0 .. RpWidth - 1, y0 : 0 .. RpHeight - 1,
                   x1 : 1 .. RpWidth, y1 : 1 .. RpHeight] : r.x0 < r.x1 /\ r.y0 < r.y1}
RpNoRect == [x0 |-> 0, y0 |-> 0, x1 |-> 0, y1 |-> 0]
RpIn(c, r) == r.x0 <= c[1] /\ c[1] < r.x1 /\ r.y0 <= c[2] /\ c[2] < r.y1

RpBlank == [b \in {0, 1} |-> [c \in RpCells |-> 0]]
RpNoObj == [panel |-> 0, deinited |-> TRUE, draw |-> 0, pending |-> FALSE,
            presented |-> 0, dirty |-> RpNoRect]
RpIdle == [op |-> "none", step |-> "idle", obj |-> 0, rect |-> RpNoRect, color |-> 0]

RpInit ==
    /\ rpIdf = 0 /\ rpHost = 0 /\ rpScan = [shown |-> 0, next |-> 0]
    /\ rpMoved = FALSE /\ rpMem = RpBlank
    /\ rpObjs = <<>> /\ rpCall = RpIdle
    /\ rpDropped = FALSE /\ rpGui = -1

---------------------------------------------------------------------------
(* ESP-IDF's scanout *)

\* A frame ends: the bounce buffers go on with the buffer that was promoted,
\* and the frame is counted.
RpWrap ==
    /\ rpIdf # 0
    /\ rpScan' = [rpScan EXCEPT !.shown = rpScan.next] /\ rpMoved' = TRUE
    /\ rpScan' # rpScan \/ ~rpMoved
    /\ UNCHANGED <<rpIdf, rpHost, rpMem, rpObjs, rpCall, rpDropped, rpGui>>

---------------------------------------------------------------------------
(* Construction and its end *)

\* dcfb_host_teardown.
RpTorn == [idf |-> IF rpHost # 0 THEN 0 ELSE rpIdf, host |-> 0]

\* No buffers, or the cleared ones of a new panel, whose first is on screen.
RpFreed ==
    /\ rpMem' = RpBlank /\ rpScan' = [shown |-> 0, next |-> 0] /\ rpMoved' = FALSE
    /\ rpDropped' = FALSE /\ rpGui' = -1

\* The most rows that divide the height and that the heap has room for twice.
RpProbe(room) ==
    LET fit == {r \in RpRowsMin .. RpRowsMax : RpHeight % r = 0 /\ r <= room}
    IN IF fit = {} THEN 0 ELSE CHOOSE r \in fit : \A q \in fit : q <= r

RpNew(n) == [RpNoObj EXCEPT !.panel = n, !.deinited = FALSE, !.draw = 1]

\* The objects that may be used after another is made.
RpKept == IF RpKeepsOld THEN rpObjs ELSE [n \in DOMAIN rpObjs |-> RpNoObj]

RpMakeAs(torn, room, idfFails) ==
    /\ rpCall.step = "idle" /\ Len(rpObjs) < RpMakes
    /\ LET n == Len(rpObjs) + 1
           none == RpProbe(room) = 0 \/ torn.idf # 0   \* its one panel is taken
           made == ~none /\ ~idfFails
       IN /\ rpIdf' = IF none THEN torn.idf ELSE n
          /\ rpHost' = IF made THEN n ELSE torn.host
          /\ rpObjs' = Append(RpKept, IF made THEN RpNew(n) ELSE RpNoObj)
    /\ RpFreed /\ UNCHANGED rpCall

\* dotclockframebuffer_make: what the last object had is torn down, the heap
\* is probed, and ESP-IDF makes its panel; a call of its that fails after that
\* leaves the panel where no teardown finds it.
RpMake(room, idfFails) == RpMakeAs(RpTorn, room, idfFails)

\* The object a call is made on: not deinited, and with a buffer.
RpUses(n) == rpObjs[n].panel # 0 /\ ~rpObjs[n].deinited

\* deinit() and __del__: the panel there is, whoever made it.
RpDeinit(n) ==
    /\ rpCall.step = "idle" /\ ~rpObjs[n].deinited
    /\ rpIdf' = RpTorn.idf /\ rpHost' = 0 /\ RpFreed
    /\ rpObjs' = [rpObjs EXCEPT ![n].deinited = TRUE,
                                ![n].panel = IF rpHost # 0 THEN 0 ELSE @]
    /\ UNCHANGED rpCall

\* A soft reset: the hook deletes the panel, and the heap's objects are gone.
RpSoftReset ==
    /\ rpCall.step = "idle"
    /\ rpIdf' = RpTorn.idf /\ rpHost' = 0 /\ RpFreed
    /\ rpObjs' = [n \in DOMAIN rpObjs |-> RpNoObj]
    /\ UNCHANGED rpCall

---------------------------------------------------------------------------
(* The calls *)

RpThe == rpObjs[rpCall.obj]
RpAt(step) == rpCall' = [rpCall EXCEPT !.step = step]
RpReturns == rpCall' = RpIdle

\* refresh(), present(), wait(), framebuffers(), and blit() or fill_rect() of a
\* rectangle. A direct painter paints its buffers itself and refreshes.
RpBegin(n, op, rect, color) ==
    /\ rpCall.step = "idle" /\ RpUses(n)
    /\ op = "paint" \/ (rect = RpNoRect /\ color = 0)
    /\ op \in {"paint", "present", "wait"} => rpGui = -1
    /\ rpCall' = [op |-> op, step |-> "settle", obj |-> n, rect |-> rect, color |-> color]
    /\ UNCHANGED <<rpIdf, rpHost, rpScan, rpMoved, rpMem, rpObjs, rpDropped, rpGui>>

\* What comes after the flip that was pending is finished, or given up.
RpSettled ==
    CASE rpCall.op \in {"refresh", "present"} -> RpAt("promote")
      [] rpCall.op = "paint" -> RpAt("paint")
      [] OTHER -> RpReturns

RpNothingPending ==
    /\ rpCall.step = "settle" /\ ~RpThe.pending
    /\ RpSettled
    /\ rpGui' = IF rpCall.op = "framebuffers" THEN RpThe.draw ELSE rpGui
    /\ UNCHANGED <<rpIdf, rpHost, rpScan, rpMoved, rpMem, rpObjs, rpDropped>>

\* The new back buffer is brought up to date where the calls painted.
RpSynced(mem, o) ==
    [mem EXCEPT ![1 - o.presented] =
        [c \in RpCells |-> IF RpIn(c, o.dirty) THEN mem[o.presented][c] ELSE @[c]]]

\* Mutant: the wait ends whether or not a frame was counted.
RpFlipEndsEarly == TRUE

RpFlipEnds == rpMoved

RpFinish ==
    /\ rpCall.step \in {"settle", "wait"} /\ RpThe.pending /\ RpFlipEnds
    /\ rpMem' = RpSynced(rpMem, RpThe)
    /\ rpObjs' = [rpObjs EXCEPT ![rpCall.obj].pending = FALSE,
                                ![rpCall.obj].draw = 1 - RpThe.presented,
                                ![rpCall.obj].dirty = RpNoRect]
    /\ rpDropped' = FALSE
    /\ IF rpCall.step = "settle" THEN RpSettled ELSE RpReturns
    /\ rpGui' = IF rpGui # -1 /\ rpCall.op = "refresh" THEN 1 - rpGui
                ELSE IF rpCall.op = "framebuffers" THEN 1 - RpThe.presented ELSE rpGui
    /\ UNCHANGED <<rpIdf, rpHost, rpScan, rpMoved>>

\* No frame in a tenth of a second: painting stays on the buffer promoted.
RpTimesOut ==
    /\ rpCall.step \in {"settle", "wait"} /\ RpThe.pending /\ ~rpMoved
    /\ rpObjs' = [rpObjs EXCEPT ![rpCall.obj].pending = FALSE]
    /\ rpDropped' = TRUE /\ rpGui' = -1
    /\ IF rpCall.step = "settle" THEN RpSettled ELSE RpReturns
    /\ UNCHANGED <<rpIdf, rpHost, rpScan, rpMoved, rpMem>>

RpPromote ==
    /\ rpCall.step = "promote"
    /\ rpScan' = [rpScan EXCEPT !.next = RpThe.draw]
    /\ RpAt("count")
    /\ UNCHANGED <<rpIdf, rpHost, rpMoved, rpMem, rpObjs, rpDropped, rpGui>>

\* The count is read after the promotion: a frame that ended in between is not
\* taken for the one that shows the buffer.
RpCount ==
    /\ rpCall.step = "count"
    /\ rpMoved' = FALSE
    /\ rpObjs' = [rpObjs EXCEPT ![rpCall.obj].pending = TRUE,
                                ![rpCall.obj].presented = RpThe.draw]
    /\ IF rpCall.op = "refresh" THEN RpAt("wait") ELSE RpReturns
    /\ UNCHANGED <<rpIdf, rpHost, rpScan, rpMem, rpDropped, rpGui>>

RpUnion(r, s) ==
    IF r = RpNoRect THEN s
    ELSE [x0 |-> IF s.x0 < r.x0 THEN s.x0 ELSE r.x0, y0 |-> IF s.y0 < r.y0 THEN s.y0 ELSE r.y0,
          x1 |-> IF s.x1 > r.x1 THEN s.x1 ELSE r.x1, y1 |-> IF s.y1 > r.y1 THEN s.y1 ELSE r.y1]

RpPaint ==
    /\ rpCall.step = "paint"
    /\ rpMem' = [rpMem EXCEPT ![RpThe.draw] =
                    [c \in RpCells |-> IF RpIn(c, rpCall.rect) THEN rpCall.color ELSE @[c]]]
    /\ rpObjs' = [rpObjs EXCEPT ![rpCall.obj].dirty = RpUnion(@, rpCall.rect)]
    /\ RpReturns
    /\ UNCHANGED <<rpIdf, rpHost, rpScan, rpMoved, rpDropped, rpGui>>

RpNext ==
    \/ RpWrap
    \/ \E room \in RpRoom, fails \in BOOLEAN : RpMake(room, fails)
    \/ \E n \in DOMAIN rpObjs : RpDeinit(n)
    \/ RpSoftReset
    \/ \E n \in DOMAIN rpObjs, r \in RpRects, c \in RpColors : RpBegin(n, "paint", r, c)
    \/ \E n \in DOMAIN rpObjs, op \in {"refresh", "present", "wait", "framebuffers"} :
           RpBegin(n, op, RpNoRect, 0)
    \/ RpNothingPending \/ RpFinish \/ RpTimesOut \/ RpPromote \/ RpCount \/ RpPaint

RpSpec == RpInit /\ [][RpNext]_rpVars

---------------------------------------------------------------------------

\* A call touches the buffers of a panel that exists. (check_live knows the
\* object, not whether its panel is gone)
RpPanelIsThere == rpCall.step # "idle" => rpIdf = RpThe.panel

\* Unless the last flip was given up, a call paints neither the buffer on
\* screen nor the one the screen is about to take, and a direct painter's next
\* buffer is neither too: it and the flips stay in step.
RpOffScreen ==
    /\ rpCall.step = "paint" /\ ~rpDropped => RpThe.draw \notin {rpScan.shown, rpScan.next}
    /\ rpCall.step = "idle" /\ rpGui # -1 /\ ~rpDropped => rpGui \notin {rpScan.shown, rpScan.next}

\* The buffers differ only where the object remembers having painted: what is
\* painted once is in both after the flip. (displayif#45)
RpAgree ==
    \A n \in DOMAIN rpObjs : rpObjs[n].panel # 0 /\ rpObjs[n].panel = rpIdf =>
        \A c \in RpCells : rpMem[0][c] # rpMem[1][c] => RpIn(c, rpObjs[n].dirty)

\* A flip that ended shows what was painted: the screen has the newest picture.
RpShowsNewest ==
    rpCall.step = "idle" /\ rpHost # 0 /\ ~rpDropped =>
        \A n \in DOMAIN rpObjs : rpObjs[n].panel = rpHost /\ ~rpObjs[n].pending =>
            rpScan.shown = 1 - rpObjs[n].draw

\* The host's panel is one that exists.
RpHostIsThere == rpHost # 0 => rpHost = rpIdf

RpSafe == RpPanelIsThere /\ RpOffScreen /\ RpAgree /\ RpShowsNewest /\ RpHostIsThere

\* Not true of the code: a flip given up is adopted all the same, and calls
\* then paint the buffer on screen. (settle(): "they never paint the buffer on
\* screen")
RpNeverOnScreen == rpCall.step = "paint" => RpThe.draw # rpScan.shown

\* Not true of the code: a construction that fails after the panel was made
\* leaves it, and every later one finds ESP-IDF's one panel taken.
RpNoLeak == rpIdf # 0 => rpHost = rpIdf
=============================================================================
