------------------------------ MODULE RgbMatrix ------------------------------
(***************************************************************************)
(* The HUB75 matrix (mod_rgbmatrix.c over protomatter/core.c): one static  *)
(* core, a timer interrupt that loads a bit plane of a row while the one   *)
(* before is lit, and Python objects that convert their pixels into the    *)
(* buffer not on show and wait for the interrupt to swap. Where there is   *)
(* no Protomatter, refresh() scans the panel itself.                       *)
(***************************************************************************)
EXTENDS Integers, Sequences, FiniteSets

CONSTANTS RmObjs,    \* the matrices a program makes
          RmTall,    \* those of two tiles
          RmLines,   \* address lines
          RmPlanes,  \* bit planes
          RmGcHeap,  \* _PM_allocate is m_malloc (all but the ESP32)
          RmGcNow,   \* whether an allocation may run the collector
          RmKeeps,   \* whether a program keeps the matrix on show
          RmOld,     \* whether it refreshes an older one
          RmViews,   \* whether it draws through a memoryview it kept
          RmNone,    \* no block, no object, nothing loaded
          RmDraws    \* bound: frames drawn

ASSUME RmAssumption ==
    /\ RmTall \subseteq RmObjs /\ {RmLines, RmPlanes} \subseteq Nat \ {0}
    /\ RmNone \notin RmObjs \cup (RmObjs \X {"pins", "screen"})

VARIABLES
    rmAvail,  \* displayif_rgbmatrix_pm_available()
    rmObj,    \* the objects
    rmCore,   \* s_pm_host.pm
    rmHost,   \* s_pm_host.pm_started
    rmActive, \* whether the interrupt has a core
    rmTimer,  \* "none", "held" or "running"
    rmHeap,   \* blocks _PM_allocate gave out and nothing freed
    rmPanel,  \* [addr, shift, lit, weight]
    rmPc      \* where the program is: [op, at, o]

rmVars == <<rmAvail, rmObj, rmCore, rmHost, rmActive, rmTimer, rmHeap, rmPanel, rmPc>>

RmSize(o) == IF o \in RmTall THEN 2 ELSE 1
RmRowPairs == 2 ^ RmLines
RmBits(row) == {l \in 0 .. RmLines - 1 : (row \div 2 ^ l) % 2 = 1}
RmXor(a, b) == (a \ b) \cup (b \ a)

RmZero == [pins |-> RmNone, screen |-> RmNone, owner |-> RmNone, double |-> FALSE,
           swap |-> FALSE, buf |-> 0, plane |-> 0, row |-> 0, prev |-> 0,
           bufs |-> <<0, 0>>]
RmDark == [addr |-> {}, shift |-> RmNone, lit |-> RmNone, weight |-> 0]
RmIdle == [op |-> "idle", at |-> "done", o |-> RmNone]
RmUnmade == [made |-> FALSE, held |-> FALSE, gone |-> FALSE, started |-> FALSE,
             double |-> FALSE, copy |-> {}, pix |-> <<0, 0>>, draw |-> 1, scan |-> 1,
             view |-> 0, drawn |-> 0, shown |-> 0]

RmInit ==
    /\ rmAvail \in BOOLEAN
    /\ rmObj = [o \in RmObjs |-> RmUnmade]
    /\ rmCore = RmZero /\ rmHost = FALSE /\ rmActive = FALSE /\ rmTimer = "none"
    /\ rmHeap = {} /\ rmPanel = RmDark /\ rmPc = RmIdle

---------------------------------------------------------------------------
(* The timer's interrupt *)

\* What is in the shift registers is latched, and lit for its plane's weight;
\* the address lines move when a row's first plane is latched.
RmLatch ==
    LET moved == RmXor(RmBits(rmCore.row), RmBits(rmCore.prev))
    IN  [rmPanel EXCEPT !.lit = rmPanel.shift, !.weight = rmCore.plane,
                        !.addr = IF rmCore.plane = 0 THEN RmXor(@, moved) ELSE @]

\* The next plane, the next row, and at a frame's end the swap asked for.
RmAdvance ==
    LET p == rmCore.plane + 1
        row == IF p < RmPlanes THEN rmCore.row ELSE (rmCore.row + 1) % RmRowPairs
        ends == p = RmPlanes /\ row = 0
    IN  [rmCore EXCEPT !.plane = p % RmPlanes, !.row = row,
                       !.prev = IF rmCore.plane = 0 THEN rmCore.row ELSE @,
                       !.buf = IF ends /\ rmCore.swap THEN 1 - @ ELSE @,
                       !.swap = @ /\ ~ends]

RmRowHandler ==
    /\ rmTimer = "running" /\ rmActive
    /\ LET c == RmAdvance
       IN  /\ rmCore' = c
           /\ rmPanel' = [RmLatch EXCEPT !.shift =
                  [row |-> c.row, plane |-> c.plane, frame |-> c.bufs[c.buf + 1]]]
    /\ UNCHANGED <<rmAvail, rmObj, rmHost, rmActive, rmTimer, rmHeap, rmPc>>

---------------------------------------------------------------------------
(* Stopping *)

RmGoes(op, at, o) == rmPc' = [op |-> op, at |-> at, o |-> o]

\* _PM_stop: the timer is off before anything of the core is freed.
RmStopTimer ==
    /\ rmPc.at = "stop"
    /\ rmTimer' = "held" /\ rmActive' = TRUE
    /\ RmGoes(rmPc.op, "free", rmPc.o)
    /\ UNCHANGED <<rmAvail, rmObj, rmCore, rmHost, rmHeap, rmPanel>>

\* What the timer and the core held is given back, and the core cleared.
RmReleased ==
    /\ rmHeap' = rmHeap \ {rmCore.pins, rmCore.screen}
    /\ rmCore' = RmZero /\ rmHost' = FALSE /\ rmActive' = FALSE /\ rmTimer' = "none"
    /\ rmPanel' = RmDark

\* A constructor goes on to its own timer.
RmFreesOld ==
    /\ rmPc.at = "free" /\ rmPc.op = "make" /\ ~rmCore.swap
    /\ RmReleased /\ RmGoes("make", "init", rmPc.o)
    /\ UNCHANGED <<rmAvail, rmObj>>

\* deinit() frees the pixels too.
RmFreesOwn ==
    /\ rmPc.at = "free" /\ rmPc.op = "deinit" /\ ~rmCore.swap
    /\ RmReleased /\ rmPc' = RmIdle
    /\ rmObj' = [rmObj EXCEPT ![rmPc.o].started = FALSE, ![rmPc.o].gone = TRUE]
    /\ UNCHANGED rmAvail

\* A soft reset takes the heap and every object.
RmSwept(heap) ==
    /\ rmHeap' = IF RmGcHeap THEN {} ELSE heap
    /\ rmObj' = [o \in RmObjs |-> [rmObj[o] EXCEPT !.held = FALSE, !.copy = {}, !.view = 0]]

RmFreesAll ==
    /\ rmPc.at = "free" /\ rmPc.op = "reset" /\ ~rmCore.swap
    /\ rmCore' = RmZero /\ rmHost' = FALSE /\ rmActive' = FALSE /\ rmTimer' = "none"
    /\ rmPanel' = RmDark
    /\ RmSwept(rmHeap \ {rmCore.pins, rmCore.screen}) /\ rmPc' = RmIdle
    /\ UNCHANGED rmAvail

---------------------------------------------------------------------------
(* Making one *)

\* rgbmatrix_make, up to the matrix that runs already.
RmMake(o, double) ==
    /\ rmPc.op = "idle" /\ ~rmObj[o].made
    /\ rmObj' = [rmObj EXCEPT ![o] =
           [RmUnmade EXCEPT !.made = TRUE, !.held = ~rmAvail, !.double = double,
                            !.scan = IF double THEN 2 ELSE 1]]
    /\ IF ~rmAvail THEN rmPc' = RmIdle
       ELSE RmGoes("make", IF rmHost THEN "stop" ELSE "init", o)
    /\ UNCHANGED <<rmAvail, rmCore, rmHost, rmActive, rmTimer, rmHeap, rmPanel>>

\* What _PM_init writes before it allocates.
RmInited == [RmZero EXCEPT !.owner = rmPc.o, !.double = rmObj[rmPc.o].double]

\* No timer, or no room for _PM_init's tables: the core keeps what was written.
RmInitFails ==
    /\ rmPc.at = "init" /\ rmPc' = RmIdle
    /\ rmCore' \in {rmCore, RmInited}
    /\ UNCHANGED <<rmAvail, rmObj, rmHost, rmActive, rmTimer, rmHeap, rmPanel>>

\* The tables of pins, in the static core alone.
RmInitOk ==
    /\ rmPc.at = "init" /\ RmGoes("make", "begin", rmPc.o)
    /\ rmCore' = [RmInited EXCEPT !.pins = <<rmPc.o, "pins">>]
    /\ rmHeap' = rmHeap \cup {<<rmPc.o, "pins">>}
    /\ rmTimer' = "held" /\ rmActive' = TRUE
    /\ UNCHANGED <<rmAvail, rmObj, rmHost, rmPanel>>

\* Pins on two ports, or no room for the screen: freed, and not forgotten.
RmBeginFails ==
    /\ rmPc.at = "begin" /\ rmPc' = RmIdle
    /\ rmHeap' = rmHeap \ {rmCore.pins}
    /\ rmTimer' = "none" /\ rmActive' = FALSE
    /\ UNCHANGED <<rmAvail, rmObj, rmCore, rmHost, rmPanel>>

\* _PM_resume sets the counters so the first interrupt wraps them, and puts
\* on the address lines the row they are told they were at.
RmBeginOk ==
    /\ rmPc.at = "begin" /\ RmGoes("make", "convert", rmPc.o)
    /\ rmCore' = [rmCore EXCEPT !.screen = <<rmPc.o, "screen">>,
                                !.plane = RmPlanes - 1, !.row = RmRowPairs - 1,
                                !.prev = RmRowPairs - 2]
    /\ rmHeap' = rmHeap \cup {<<rmPc.o, "screen">>}
    /\ rmTimer' = "running"
    /\ rmPanel' = [RmDark EXCEPT !.addr = RmBits(RmRowPairs - 2)]
    /\ UNCHANGED <<rmAvail, rmObj, rmHost, rmActive>>

RmPublish ==
    /\ rmPc.op = "make" /\ rmPc.at = "done" /\ rmPc' = RmIdle
    /\ rmObj' = [rmObj EXCEPT ![rmPc.o].started = TRUE, ![rmPc.o].held = TRUE,
                              ![rmPc.o].copy = {rmCore.pins, rmCore.screen}]
    /\ rmHost' = TRUE
    /\ UNCHANGED <<rmAvail, rmCore, rmActive, rmTimer, rmHeap, rmPanel>>

---------------------------------------------------------------------------
(* Showing what is drawn *)

RmUsable(o) == rmPc.op = "idle" /\ rmObj[o].held /\ ~rmObj[o].gone

RmRefresh(o) ==
    /\ RmUsable(o) /\ rmObj[o].started
    /\ RmOld \/ rmCore.owner \in {o, RmNone}
    /\ RmGoes("refresh", "convert", o)
    /\ UNCHANGED <<rmAvail, rmObj, rmCore, rmHost, rmActive, rmTimer, rmHeap, rmPanel>>

\* _PM_convert_565 (three copies, for bytes, words and longs) writes the buffer
\* that is not on show, or the only one.
RmTarget == IF rmCore.double THEN 2 - rmCore.buf ELSE 1

RmConvertBegins ==
    /\ rmPc.at = "convert" /\ RmGoes(rmPc.op, "torn", rmPc.o)
    /\ rmCore' = IF rmCore.screen = RmNone THEN rmCore
                 ELSE [rmCore EXCEPT !.bufs[RmTarget] = -1]
    /\ UNCHANGED <<rmAvail, rmObj, rmHost, rmActive, rmTimer, rmHeap, rmPanel>>

RmDrawn(o) == rmObj[o].pix[rmObj[o].draw]

\* The bit of a colour's value that a plane carries: green has six bits and the
\* others five, whose top one stands in for a sixth below.
RmColors == {"red", "green", "blue"}
RmWidth(color) == IF color = "green" THEN 6 ELSE 5

\* Mutant: green is taken to be of five bits too.
RmBitOfFive(color, planes, plane) ==
    IF planes < 6 THEN 5 - planes + plane ELSE IF plane = 0 THEN 4 ELSE plane - 1

\* The bit, by the planes there are.
RmBitOf(color, planes, plane) ==
    IF planes < 6 THEN RmWidth(color) - planes + plane
    ELSE IF color = "green" THEN plane
    ELSE IF plane = 0 THEN 4 ELSE plane - 1

\* What the planes of a value add up to, lit for a time that doubles.
RmBit(v, b) == (v \div 2 ^ b) % 2
RmBright(color, planes, v) ==
    LET lit[p \in 0 .. planes] == IF p = 0 THEN 0
            ELSE lit[p - 1] + 2 ^ (p - 1) * RmBit(v, RmBitOf(color, planes, p - 1))
    IN  lit[planes]

\* The pixel a tile's column is sent for, of the upper half of the tile or of
\* its lower one: odd tiles of a serpentine chain hang upside down.
RmSource(turned, width, pairs, tile, row, x, lower) ==
    IF turned /\ tile % 2 = 1
    THEN (tile * 2 * pairs + (pairs - 1 - row) + (IF lower THEN 0 ELSE pairs)) * width
         + (width - 1 - x)
    ELSE (tile * 2 * pairs + row + (IF lower THEN pairs ELSE 0)) * width + x

\* The same of the scan without Protomatter, which turns every other line.
RmExpand(color, depth, v) ==
    IF depth >= RmWidth(color) THEN v * 2 ^ (depth - RmWidth(color))
    ELSE v \div 2 ^ (RmWidth(color) - depth)
RmPixel(turned, width, x, y) ==
    y * width + (IF turned /\ y % 2 = 1 THEN width - 1 - x ELSE x)

\* The last pixel; then _PM_swapbuffer_maybe asks for the swap.
RmConvertEnds ==
    /\ rmPc.at = "torn" /\ RmGoes(rmPc.op, "swap", rmPc.o)
    /\ rmCore' = [rmCore EXCEPT !.bufs[RmTarget] = IF rmCore.screen = RmNone THEN @
                                                   ELSE RmDrawn(rmPc.o),
                                !.swap = rmCore.double]
    /\ UNCHANGED <<rmAvail, rmObj, rmHost, rmActive, rmTimer, rmHeap, rmPanel>>

\* It returns when the interrupt has swapped.
RmSwapped ==
    /\ rmPc.at = "swap" /\ ~rmCore.swap /\ RmGoes(rmPc.op, "done", rmPc.o)
    /\ UNCHANGED <<rmAvail, rmObj, rmCore, rmHost, rmActive, rmTimer, rmHeap, rmPanel>>

RmRefreshed ==
    /\ rmPc.op = "refresh" /\ rmPc.at = "done" /\ rmPc' = RmIdle
    /\ UNCHANGED <<rmAvail, rmObj, rmCore, rmHost, rmActive, rmTimer, rmHeap, rmPanel>>

\* Without Protomatter: copied, scanned out row by row, and the two buffers
\* change places.
RmScan(o) ==
    /\ RmUsable(o) /\ ~rmObj[o].started
    /\ rmObj' = [rmObj EXCEPT ![o].pix[rmObj[o].scan] = RmDrawn(o), ![o].shown = RmDrawn(o),
                              ![o].draw = rmObj[o].scan, ![o].scan = rmObj[o].draw]
    /\ UNCHANGED <<rmAvail, rmCore, rmHost, rmActive, rmTimer, rmHeap, rmPanel, rmPc>>

---------------------------------------------------------------------------
(* The program *)

RmDrawsTo(o, b) ==
    /\ RmUsable(o) /\ rmObj[o].drawn < RmDraws
    /\ rmObj' = [rmObj EXCEPT ![o].drawn = @ + 1, ![o].pix[b] = rmObj[o].drawn + 1]
    /\ UNCHANGED <<rmAvail, rmCore, rmHost, rmActive, rmTimer, rmHeap, rmPanel, rmPc>>

RmFillRect(o) == RmDrawsTo(o, rmObj[o].draw)
RmThroughView(o) == RmViews /\ rmObj[o].view # 0 /\ RmDrawsTo(o, rmObj[o].view)

\* memoryview(matrix): the buffer drawn in now.
RmGetBuffer(o) ==
    /\ RmViews /\ RmUsable(o) /\ rmObj[o].view = 0
    /\ rmObj' = [rmObj EXCEPT ![o].view = rmObj[o].draw]
    /\ UNCHANGED <<rmAvail, rmCore, rmHost, rmActive, rmTimer, rmHeap, rmPanel, rmPc>>

\* rgbmatrix_pm_stop acts on the static core, whoever's it is.
RmDeinit(o) ==
    /\ RmUsable(o)
    /\ RmOld \/ rmCore.owner \in {o, RmNone} \/ rmCore.screen # RmNone
    /\ IF rmObj[o].started /\ rmCore.pins # RmNone
       THEN RmGoes("deinit", "stop", o) /\ UNCHANGED rmObj
       ELSE /\ rmObj' = [rmObj EXCEPT ![o].started = FALSE, ![o].gone = TRUE]
            /\ UNCHANGED rmPc
    /\ UNCHANGED <<rmAvail, rmCore, rmHost, rmActive, rmTimer, rmHeap, rmPanel>>

\* rgbmatrix_host_teardown, then the sweep.
RmSoftReset ==
    /\ rmPc.op = "idle"
    /\ IF rmHost THEN RmGoes("reset", "stop", RmNone) /\ UNCHANGED <<rmHeap, rmObj>>
       ELSE RmSwept(rmHeap) /\ UNCHANGED rmPc
    /\ UNCHANGED <<rmAvail, rmCore, rmHost, rmActive, rmTimer, rmPanel>>

RmDrop(o) ==
    /\ rmPc.op = "idle" /\ rmObj[o].held
    /\ RmKeeps => ~(rmHost /\ rmCore.owner = o)
    /\ rmObj' = [rmObj EXCEPT ![o].held = FALSE]
    /\ UNCHANGED <<rmAvail, rmCore, rmHost, rmActive, rmTimer, rmHeap, rmPanel, rmPc>>

\* The collector frees what only the static core or a dropped object holds.
RmCollect ==
    /\ RmGcHeap /\ (rmPc.op = "idle" \/ (RmGcNow /\ rmPc.at \in {"init", "begin"}))
    /\ rmHeap' = rmHeap \cap UNION {rmObj[o].copy : o \in {x \in RmObjs : rmObj[x].held}}
    /\ UNCHANGED <<rmAvail, rmObj, rmCore, rmHost, rmActive, rmTimer, rmPanel, rmPc>>

RmNext ==
    \/ RmRowHandler \/ RmStopTimer \/ RmFreesOld \/ RmFreesOwn \/ RmFreesAll
    \/ RmInitFails \/ RmInitOk \/ RmBeginFails \/ RmBeginOk \/ RmPublish
    \/ RmConvertBegins \/ RmConvertEnds \/ RmSwapped \/ RmRefreshed
    \/ RmSoftReset \/ RmCollect
    \/ \E o \in RmObjs : \/ \E d \in BOOLEAN : RmMake(o, d)
                         \/ RmRefresh(o) \/ RmScan(o) \/ RmFillRect(o) \/ RmThroughView(o)
                         \/ RmGetBuffer(o) \/ RmDeinit(o) \/ RmDrop(o)

RmSpec == RmInit /\ [][RmNext]_rmVars

---------------------------------------------------------------------------
(* Properties *)

\* While the interrupt can run, what it reads is allocated (core.c:502, and
\* static handles the collector does not see, mod_rgbmatrix.c:71).
RmReadsHeld ==
    rmTimer = "running" /\ rmActive => {rmCore.pins, rmCore.screen} \subseteq rmHeap

\* Nothing is freed twice: a failed _PM_begin leaves the core its pointers
\* (core.c:478).
RmFreesOnce == rmPc.at = "free" => {rmCore.pins, rmCore.screen} \ {RmNone} \subseteq rmHeap

\* What is lit is on its own row and for its own plane's time, though the
\* address is changed by toggling the lines that differ from a remembered row.
RmOwnRow ==
    rmPanel.lit # RmNone => /\ rmPanel.addr = RmBits(rmPanel.lit.row)
                            /\ rmPanel.weight = rmPanel.lit.plane

\* With two buffers no half-converted frame is lit.
RmNeverTorn ==
    rmCore.double /\ rmPanel.lit # RmNone => rmPanel.lit.frame # -1

\* A wait for a swap has an interrupt to end it, and stopping finds none asked
\* for: both spin without letting a signal in (core.c:431, 876).
RmServed ==
    /\ rmCore.swap => rmTimer = "running" /\ rmActive
    /\ rmPc.at \in {"stop", "free"} => ~rmCore.swap

\* refresh() returns with what was drawn on show (the buffer the interrupt
\* loads from).
RmShowsDrawn ==
    rmPc.at = "done" /\ rmPc.op # "idle" /\ rmCore.screen # RmNone =>
        rmCore.bufs[rmCore.buf + 1] = RmDrawn(rmPc.o)

\* A conversion reads no more pixels than the object has: it goes by the
\* static core's rows, the newest matrix's (core.c:1380).
RmReadsOwn ==
    rmPc.at \in {"torn", "swap"} /\ rmCore.screen # RmNone =>
        RmSize(rmCore.owner) <= RmSize(rmPc.o)

\* Without Protomatter, what was drawn before a scan is what it shows.
RmScansLatest ==
    \A o \in RmObjs : rmObj[o].made /\ ~rmAvail => rmObj[o].pix[rmObj[o].draw] = rmObj[o].drawn

\* A pixel of a frame is sent in one place of one tile, whichever way it hangs.
RmEveryPixel ==
    \A turned \in BOOLEAN, width \in 1 .. 3, pairs \in {1, 2}, tiles \in 1 .. 3 :
        {RmSource(turned, width, pairs, t, r, x, l) :
             t \in 0 .. tiles - 1, r \in 0 .. pairs - 1, x \in 0 .. width - 1, l \in BOOLEAN}
        = 0 .. width * pairs * 2 * tiles - 1

\* The planes of a colour add up to its top bits, and the two ways to scan are
\* at most the lowest bit apart (core.c:989, mod_rgbmatrix.c:105).
RmTrueColor ==
    \A color \in RmColors, planes \in 1 .. 6 : \A v \in 0 .. 2 ^ RmWidth(color) - 1 :
        LET here == RmBright(color, planes, v)
            there == RmExpand(color, planes, v)
        IN  IF planes = 6 /\ color # "green" THEN here \in {there, there + 1} ELSE here = there

\* The two ways show the same picture: not where tiles are said to turn, which
\* is the default (mod_rgbmatrix.c:124).
RmSamePicture ==
    \A turned \in BOOLEAN : \A x \in 0 .. 2, y \in 0 .. 3 :
        RmPixel(turned, 3, x, y) = RmSource(turned, 3, 2, 0, y % 2, x, y >= 2)

\* What the core, its interrupt and the program's objects keep together.
RmSafe == /\ RmReadsHeld /\ RmFreesOnce /\ RmOwnRow /\ RmNeverTorn
          /\ RmServed /\ RmShowsDrawn /\ RmReadsOwn /\ RmScansLatest
=============================================================================
