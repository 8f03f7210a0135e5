----------------------------- MODULE CameraTune -----------------------------
(***************************************************************************)
(* How a camera's picture is set up and kept right: the sensor's flips and *)
(* the colour order the ISP reads them in, the loop that steers exposure   *)
(* and gain toward a brightness, and white balance with the colour matrix  *)
(* and the curve that takes the black off (mod_cameraif.c). A sensor is    *)
(* one Espressif drives or one described by a table (sensor_table.c).      *)
(* ctAspect is the one of the three a behaviour is about. Numbers of white *)
(* balance are in quarters, products of two in sixteenths. External: the   *)
(* ISP, which refuses a matrix outside its limit, and Espressif's drivers. *)
(***************************************************************************)
EXTENDS Integers, Sequences, FiniteSets

CONSTANTS CtKinds,    \* kinds of sensor: "driver", "blind" (an OV5647, which cannot
                      \* be read back), "table", "bare" (a table without flips)
          CtFails,    \* what may fail on the sensor's bus: "flip", "read", "make", "expose"
          CtBlindHand, \* whether a blind sensor's exposure may be set by hand
          CtDelay,    \* frames a sensor takes to apply an exposure
          CtTop,      \* the exposure's maximum; its minimum is 1, gain is 0 .. CtGainTop
          CtGainTop,
          CtRaws,     \* values a program gives exposure(raw=True) or gain(raw=True)
          CtLumas,    \* brightnesses the ISP may measure
          CtTargets,  \* brightnesses asked for
          CtBlacks, CtMatrices, CtGains, \* black levels, colour matrices, gains by hand
          CtRatios,   \* ratios white balance may measure
          CtMakes     \* bound: cameras opened

ASSUME CtAssumption ==
    /\ CtTop \in Nat \ {0, 1} /\ CtGainTop \in Nat \ {0} /\ {CtDelay, CtMakes} \subseteq Nat
    /\ CtKinds \subseteq {"driver", "blind", "table", "bare"}
    /\ CtLumas \subseteq Nat /\ CtRaws \cup CtTargets \cup CtBlacks \cup CtGains \cup CtRatios \subseteq Int
    /\ CtMatrices \subseteq [1 .. 9 -> Int]

VARIABLES
    ctAspect, \* "orient", "expose" or "balance"
    ctOpen,   \* "no", "isp", "raw" (without the ISP) or "half" (an opening raised)
    ctKind,   \* the sensor's kind
    ctBlocks, \* what sensor_table.c has on the C heap
    ctMade,   \* cameras opened
    ctFlip,   \* the sensor's v and h, its register's other bits, and the copies kept of v and h
    ctOrder,  \* the Bayer order declared, the ISP's, and whether bayer= fixed it
    ctSensor, \* what of exposure ("e") and gain ("g") the sensor has, and their values
    ctAe,     \* the loop: on, its statistic's `new` and luma, skip, target, ae_e and ae_g
    ctSince,  \* statistics since the loop last wrote
    ctDoes,   \* what the loop is about to write
    ctMoved,  \* what its last write moved
    ctW       \* white balance: black, gamma, gains, matrix and what the ISP has of them

ctVars == <<ctAspect, ctOpen, ctKind, ctBlocks, ctMade, ctFlip, ctOrder, ctSensor,
            ctAe, ctSince, ctDoes, ctMoved, ctW>>
ctOfFlip == <<ctFlip, ctOrder>>
ctOfLoop == <<ctSensor, ctAe, ctSince, ctDoes, ctMoved>>
ctOfLife == <<ctAspect, ctOpen, ctKind, ctBlocks, ctMade>>

CtNone == "none"
CtAbs(n) == IF n < 0 THEN -n ELSE n
CtWithin(lo, v, hi) == IF v < lo THEN lo ELSE IF v > hi THEN hi ELSE v

---------------------------------------------------------------------------
(* Flips and the colour order *)

\* A 2x2 cell, row by row.
CtCells == [RGGB |-> <<"R", "G", "G", "B">>, GRBG |-> <<"G", "R", "B", "G">>,
            GBRG |-> <<"G", "B", "R", "G">>, BGGR |-> <<"B", "G", "G", "R">>]

\* Every mode of an OV5647 opens mirrored, and its declared order is as read then.
CtTableMirror(kind) == kind = "blind"

CtBayerFor(order, flip, mirror, kind) ==
    LET p == CtCells[order]
        q == IF mirror # CtTableMirror(kind) THEN <<p[2], p[1], p[4], p[3]>> ELSE p
        s == IF flip THEN <<q[3], q[4], q[1], q[2]>> ELSE q
    IN  CHOOSE o \in DOMAIN CtCells : CtCells[o] = s

\* After set_format: a table's lists, then its copies, which begin upright.
CtOpened(kind) ==
    [reg |-> [v |-> FALSE, h |-> CtTableMirror(kind), rest |-> TRUE],
     copy |-> [v |-> FALSE, h |-> FALSE], known |-> {}]

\* set_ctl of a flip. A table keeps its copy before it reads, changes and
\* writes the register; the others' copy is ctl_last, kept once it is set.
CtHow == {"ok"} \cup (CtFails \cap {"flip", "read"})
CtTook(kind, how) == how # "flip" \/ kind = "bare"
CtTableFlip(f, which, on, how) ==
    LET copy == [f.copy EXCEPT ![which] = on]
    IN  [f EXCEPT !.copy = copy,
                  !.reg = IF how = "flip" THEN @
                          ELSE [v |-> copy.v, h |-> copy.h, rest |-> @.rest /\ how # "read"]]
CtSetFlip(f, kind, which, on, how) ==
    CASE kind = "bare" -> [f EXCEPT !.copy[which] = on]
      [] kind = "table" -> CtTableFlip(f, which, on, how)
      [] OTHER -> IF how = "flip" THEN f
                  ELSE [f EXCEPT !.copy[which] = on, !.reg[which] = on, !.known = @ \cup {which}]

\* get_ctl: the sensor's answer, else what was last set, else upright.
CtGetFlip(f, kind, which) ==
    CASE kind = "driver" -> f.reg[which]
      [] kind = "blind" -> which \in f.known /\ f.copy[which]
      [] OTHER -> f.copy[which]

CtFollows(f) ==
    IF ctOpen # "isp" \/ ctOrder.fixed THEN ctOrder
    ELSE [ctOrder EXCEPT !.isp = CtBayerFor(ctOrder.declared, CtGetFlip(f, ctKind, "v"),
                                            CtGetFlip(f, ctKind, "h"), ctKind)]

\* flip(), mirror(), and the properties vflip and hmirror.
CtTurns(which, on, how) ==
    /\ ctAspect = "orient" /\ ctOpen \in {"isp", "raw"}
    /\ ctFlip' = CtSetFlip(ctFlip, ctKind, which, on, how)
    /\ ctOrder' = IF CtTook(ctKind, how) THEN CtFollows(ctFlip') ELSE ctOrder
    /\ UNCHANGED <<ctOfLife, ctOfLoop, ctW>>

---------------------------------------------------------------------------
(* Exposure *)

CtRest == [what |-> CtNone]
CtStill == [luma |-> 0, was |-> <<0, 0>>, now |-> <<0, 0>>, fresh |-> TRUE]
CtHas(what) == what \in ctSensor.has

\* The ISP's interrupt: the mean of a frame.
CtStat(luma) ==
    /\ ctAspect = "expose" /\ ctOpen = "isp"
    /\ ctAe' = [ctAe EXCEPT !.new = TRUE, !.luma = luma]
    /\ ctSince' = IF ctSince > CtDelay THEN ctSince ELSE ctSince + 1
    /\ ctMoved' = CtStill
    /\ UNCHANGED <<ctOfLife, ctOfFlip, ctSensor, ctDoes, ctW>>

\* A statistic is of a frame that was exposed as the loop last said.
CtIsFresh == ctSince > CtDelay

\* What a driver that cannot be read back has comes from the loop itself.
CtNow(what) ==
    IF ctKind = "blind" THEN IF ctAe.last[what] >= 0 THEN ctAe.last[what] ELSE 1
    ELSE ctSensor.at[what]

CtInRange(e) == IF e \in 1 .. CtTop THEN e ELSE (1 + CtTop) \div 2

\* Half of what is wanted, with a straight curve for gamma; at most four times.
CtRatio(v, luma) == CtWithin(v \div 4, (v * (luma + ctAe.target)) \div (2 * luma), 4 * v)
CtGainStep == CtGainTop \div 24 + 1
CtInBand(luma) == luma * 100 > ctAe.target * 92 /\ luma * 100 < ctAe.target * 108

CtStep(luma) ==
    LET e == CtInRange(CtNow("e"))  g == CtNow("g")
        to(what, v) == [what |-> what, v |-> v, luma |-> luma, fresh |-> CtIsFresh]
    IN  IF ctAe.target > luma
        THEN IF CtHas("e") /\ e < CtTop
             THEN to("e", CtWithin(1, CtRatio(e, luma) + 1, CtTop))
             ELSE IF CtHas("g") /\ g < CtGainTop
             THEN to("g", CtWithin(0, g + CtGainStep, CtGainTop))
             ELSE CtRest
        ELSE IF CtHas("g") /\ g > 0
             THEN to("g", CtWithin(0, g - CtGainStep, CtGainTop))
             ELSE IF CtHas("e") /\ e > 1 THEN to("e", CtWithin(1, CtRatio(e, luma), CtTop))
             ELSE CtRest

\* ae_step in a wait for a frame, up to the write.
CtLoop ==
    /\ ctAspect = "expose" /\ ctOpen = "isp" /\ ctDoes = CtRest
    /\ ctAe.on /\ ctAe.new
    /\ ctAe' = [ctAe EXCEPT !.new = FALSE, !.skip = IF @ > 0 THEN @ - 1 ELSE 0]
    /\ LET luma == IF ctAe.luma < 1 THEN 1 ELSE ctAe.luma
       IN  ctDoes' = IF ctAe.skip > 0 \/ CtInBand(luma) THEN CtRest ELSE CtStep(luma)
    /\ ctMoved' = CtStill
    /\ UNCHANGED <<ctOfLife, ctOfFlip, ctSensor, ctSince, ctW>>

\* The write takes milliseconds, and the interrupt may come before it is done.
\* A table has kept the value before it writes.
CtSkip == 2
CtWrites(ok) ==
    LET what == ctDoes.what
        was == <<ctSensor.at.e, ctSensor.at.g>>
    IN  /\ ctDoes # CtRest
        /\ ctSensor' = IF ok THEN [ctSensor EXCEPT !.at[what] = ctDoes.v] ELSE ctSensor
        /\ ctAe' = [ctAe EXCEPT !.last[what] = ctDoes.v, !.skip = CtSkip]
        /\ ctSince' = 0
        /\ ctMoved' = [luma |-> ctDoes.luma, was |-> was, fresh |-> ctDoes.fresh,
                       now |-> <<ctSensor'.at.e, ctSensor'.at.g>>]
        /\ ctDoes' = CtRest
        /\ UNCHANGED <<ctOfLife, ctOfFlip, ctW>>

\* exposure(), gain(), aec_value and agc_gain: by hand, and the loop is off.
CtTakes(what, v) == CtWithin(IF what = "e" THEN 1 ELSE 0, v, IF what = "e" THEN CtTop ELSE CtGainTop)
CtByHand(what, v) ==
    /\ ctAspect = "expose" /\ ctOpen \in {"isp", "raw"} /\ ctDoes = CtRest /\ CtHas(what)
    /\ ctKind = "table" \/ v = CtTakes(what, v)
    /\ ctKind = "blind" => CtBlindHand
    /\ ctSensor' = [ctSensor EXCEPT !.at[what] = CtTakes(what, v)]
    /\ ctAe' = [ctAe EXCEPT !.on = FALSE]
    /\ ctMoved' = CtStill
    /\ UNCHANGED <<ctOfLife, ctOfFlip, ctSince, ctDoes, ctW>>

\* auto_exposure(on, target=).
CtAuto(on, target) ==
    /\ ctAspect = "expose" /\ ctOpen = "isp" /\ ctDoes = CtRest
    /\ ctAe' = [ctAe EXCEPT !.on = on, !.target = CtWithin(8, target, 247)]
    /\ ctMoved' = CtStill
    /\ UNCHANGED <<ctOfLife, ctOfFlip, ctSensor, ctSince, ctDoes, ctW>>

---------------------------------------------------------------------------
(* White balance, the colour matrix, black and gamma *)

CtOne == 4
CtIdentity == <<4, 0, 0, 0, 4, 0, 0, 0, 4>>

\* Where black lands in an output channel: after the gains, through the matrix.
CtBlackAt(w, r) ==
    LET k == 3 * (r - 1)
    IN  w.black * (w.m[k + 1] * w.red + w.m[k + 2] * CtOne + w.m[k + 3] * w.blue)
CtOff(w, r) == CtWithin(0, CtBlackAt(w, r), 128 * CtOne * CtOne)

CtGammaStart(w) ==
    [w EXCEPT !.curve = [r \in 1 .. 3 |-> [off |-> CtOff(w, r), gamma |-> w.gamma]],
              !.gammaOn = TRUE]

\* The gains are folded into the matrix's red and blue columns, or with
\* revision 3's gain block are its own.
CtLimit(w) == IF w.block THEN 255 ELSE 63
CtMatrix(w) ==
    LET by(k) == IF w.block THEN CtOne ELSE CASE k % 3 = 1 -> w.red [] k % 3 = 0 -> w.blue [] OTHER -> CtOne
    IN  [k \in 1 .. 9 |-> CtWithin(-CtLimit(w), w.m[k] * by(k), CtLimit(w))]

\* External: the ISP takes a matrix whole or not at all.
CtIspTakes(m, w) == \A k \in 1 .. 9 : CtAbs(m[k]) < IF w.block THEN 256 ELSE 64

\* Black has moved three quarters of a step in some channel.
CtBlackMoved(w) == \E r \in 1 .. 3 : CtAbs(CtBlackAt(w, r) - w.curve[r].off) >= 12

CtCcmApply(w) ==
    LET m == CtMatrix(w)
        s == [w EXCEPT !.ccm = IF CtIspTakes(m, w) THEN m ELSE @,
                       !.gains = IF w.block THEN <<w.red, w.blue>> ELSE @]
    IN  IF w.black # 0 /\ w.gammaOn /\ CtBlackMoved(w) THEN CtGammaStart(s) ELSE s

\* make_new sets black and gamma, starts the curve while the gains are still
\* zero, and starts white balance, which sets them to one. It takes a byte for
\* black, where black_level() clamps.
CtBegun(black, m, block, on) ==
    LET w == CtGammaStart([black |-> black, gamma |-> "own", red |-> 0, blue |-> 0, m |-> m,
                           block |-> FALSE, on |-> on, gammaOn |-> FALSE, ccm |-> CtIdentity,
                           gains |-> <<CtOne, CtOne>>, curve |-> <<>>])
    IN  CtCcmApply([w EXCEPT !.red = CtOne, !.blue = CtOne, !.block = block])

CtBalancing == ctAspect = "balance" /\ ctOpen = "isp"
CtStays == UNCHANGED <<ctOfLife, ctOfFlip, ctOfLoop>>

\* awb_step in a wait for a frame: a quarter of the way to what was measured.
CtWhite(r, b) ==
    /\ CtBalancing /\ ctW.on
    /\ ctW' = CtCcmApply([ctW EXCEPT !.red = @ + (CtWithin(1, r, 15) - @) \div 4,
                                     !.blue = @ + (CtWithin(1, b, 15) - @) \div 4])
    /\ CtStays

\* awb(on), and the property whitebal.
CtAwb(on) == CtBalancing /\ ctW' = [ctW EXCEPT !.on = on] /\ CtStays

CtWbGains(r, b) ==
    /\ CtBalancing
    /\ ctW' = CtCcmApply([ctW EXCEPT !.on = FALSE, !.red = r, !.blue = b])
    /\ CtStays

CtCcm(m) == CtBalancing /\ ctW' = CtCcmApply([ctW EXCEPT !.m = m]) /\ CtStays
CtGamma(g) == CtBalancing /\ ctW' = CtGammaStart([ctW EXCEPT !.gamma = g]) /\ CtStays
CtBlackLevel(b) ==
    CtBalancing /\ ctW' = CtGammaStart([ctW EXCEPT !.black = CtWithin(0, b, 128)]) /\ CtStays

---------------------------------------------------------------------------
(* Opening and closing *)

\* What table_parse() allocates, in order; a mode's name and registers are the last.
CtAllocs == <<"table", "init", "on", "off", "formats", "isp", "modes", "name", "regs">>
CtReached(n) == {CtAllocs[k] : k \in 1 .. n}

\* table_free() finds a mode's own through the count of modes, which is set
\* before the mode is parsed.
CtModes(n) == IF n >= 7 THEN 1 ELSE 0
CtFreed(n) == CtReached(n) \ IF CtModes(n) = 0 THEN {"name", "regs"} ELSE {}

CtIsTable(kind) == kind \in {"table", "bare"}
CtBlocksOf(kind) == IF CtIsTable(kind) THEN CtReached(9) \cup {"device"} ELSE {}

\* What is on the heap after a teardown, which every opening begins with.
CtTorn == IF ctOpen = "no" THEN ctBlocks ELSE ctBlocks \ CtBlocksOf(ctKind)
CtCloses ==
    /\ ctOpen' = "no" /\ ctDoes = CtRest
    /\ UNCHANGED <<ctAspect, ctKind, ctOfFlip, ctOfLoop, ctW>>

\* parse() raises after n of its allocations.
CtParseFails(n) ==
    /\ ctBlocks' = CtTorn \cup (CtReached(n) \ CtFreed(n))
    /\ UNCHANGED ctMade /\ CtCloses

\* No bus, no answer with the ID (detect() frees), or anything after (the teardown).
CtMakeFails == ctBlocks' = CtTorn /\ UNCHANGED ctMade /\ CtCloses

\* An argument of the wrong type raises past the teardown: the sensor stays
\* open, and nobody has the camera. One aspect stands for all three.
CtMakeRaises(kind) ==
    /\ ctAspect = "orient" /\ ctDoes = CtRest
    /\ ctOpen' = "half" /\ ctKind' = kind /\ ctBlocks' = CtTorn \cup CtBlocksOf(kind)
    /\ UNCHANGED <<ctAspect, ctMade, ctOfFlip, ctOfLoop, ctW>>

\* deinit(), or a soft reset.
CtDeinit == ctOpen # "no" /\ ctBlocks' = CtTorn /\ UNCHANGED ctMade /\ CtCloses

\* A camera with flip= and mirror=, and bayer= or the sensor's own order. The
\* flips are written last, and whether they are taken is not looked at.
CtOrients(kind, order, given, v, h, hv, hh) ==
    /\ ctOrder' = [declared |-> order, fixed |-> given # CtNone,
                   isp |-> IF given = CtNone THEN CtBayerFor(order, v, h, kind) ELSE given]
    /\ ctFlip' = CtSetFlip(CtSetFlip(CtOpened(kind), kind, "v", v, hv), kind, "h", h, hh)

CtExposes(has, e, g) ==
    /\ ctSensor' = [has |-> has, at |-> [e |-> e, g |-> g]]
    /\ ctAe' = [on |-> TRUE, new |-> FALSE, luma |-> 0, skip |-> 0, target |-> 110,
                last |-> [e |-> -1, g |-> -1]]
    /\ ctSince' = CtDelay + 1 /\ ctMoved' = CtStill

CtHowMade == {"ok"} \cup IF "make" \in CtFails THEN {"flip"} ELSE {}
CtMake(kind) ==
    /\ ctMade < CtMakes /\ ctDoes = CtRest
    /\ ctMade' = ctMade + 1 /\ ctKind' = kind /\ ctBlocks' = CtTorn \cup CtBlocksOf(kind)
    /\ ctOpen' \in {"isp", "raw"}
    /\ IF ctAspect # "orient" THEN UNCHANGED ctOfFlip
       ELSE \E order \in DOMAIN CtCells, given \in {CtNone, "BGGR"}, v, h \in BOOLEAN,
               hv, hh \in CtHowMade : CtOrients(kind, order, given, v, h, hv, hh)
    /\ IF ctAspect # "expose" THEN UNCHANGED <<ctSensor, ctAe, ctSince, ctMoved>>
       ELSE \E has \in SUBSET {"e", "g"}, e \in {1, CtTop \div 2, CtTop}, g \in {0, CtGainTop} :
               /\ kind = "blind" => has = {"e"} /\ e = 1
               /\ CtExposes(has, e, g)
    /\ IF ctAspect # "balance" \/ ctOpen' = "raw" THEN UNCHANGED ctW
       ELSE \E black \in CtBlacks, m \in CtMatrices, block, on \in BOOLEAN :
               ctW' = CtBegun(black % 256, m, block, on)
    /\ UNCHANGED <<ctAspect, ctDoes>>

CtInit ==
    /\ ctAspect \in {"orient", "expose", "balance"}
    /\ ctOpen = "no" /\ ctKind = "driver" /\ ctBlocks = {} /\ ctMade = 0
    /\ ctFlip = CtOpened("driver")
    /\ ctOrder = [declared |-> "BGGR", fixed |-> FALSE, isp |-> "BGGR"]
    /\ ctSensor = [has |-> {}, at |-> [e |-> 1, g |-> 0]]
    /\ ctAe = [on |-> FALSE, new |-> FALSE, luma |-> 0, skip |-> 0, target |-> 110,
               last |-> [e |-> -1, g |-> -1]]
    /\ ctSince = CtDelay + 1 /\ ctDoes = CtRest /\ ctMoved = CtStill
    /\ ctW = CtBegun(0, CtIdentity, FALSE, TRUE)

CtNext ==
    \/ \E kind \in CtKinds : CtMake(kind)
    \/ \E kind \in CtKinds : CtMakeRaises(kind)
    \/ \E n \in 1 .. 9 : CtParseFails(n)
    \/ CtMakeFails \/ CtDeinit
    \/ \E which \in {"v", "h"}, on \in BOOLEAN, how \in CtHow : CtTurns(which, on, how)
    \/ \E luma \in CtLumas : CtStat(luma)
    \/ CtLoop
    \/ \E ok \in {TRUE} \cup {"expose" \notin CtFails} : CtWrites(ok)
    \/ \E what \in {"e", "g"}, v \in CtRaws : CtByHand(what, v)
    \/ \E on \in BOOLEAN, target \in CtTargets : CtAuto(on, target)
    \/ \E r, b \in CtRatios : CtWhite(r, b)
    \/ \E on \in BOOLEAN : CtAwb(on)
    \/ \E r, b \in CtGains : CtWbGains(r, b)
    \/ \E m \in CtMatrices : CtCcm(m)
    \/ \E g \in {"own", "another"} : CtGamma(g)
    \/ \E b \in CtBlacks : CtBlackLevel(b)

CtSpec == CtInit /\ [][CtNext]_ctVars

---------------------------------------------------------------------------
(* Properties *)

\* The colour of the photosite the sensor reads at a row and a column of the
\* cell: it goes from the other end of what its mode table leaves.
CtSeen(row, col) ==
    LET y == (row + IF ctFlip.reg.v THEN 1 ELSE 0) % 2
        x == (col + IF ctFlip.reg.h # CtTableMirror(ctKind) THEN 1 ELSE 0) % 2
    IN  CtCells[ctOrder.declared][2 * y + x + 1]

\* The ISP takes each pixel for the colour it is, however the picture is
\* turned, unless bayer= fixed the order. (mod_cameraif.c follow_bayer)
CtColours ==
    ctAspect = "orient" /\ ctOpen = "isp" /\ ~ctOrder.fixed =>
        \A row, col \in {0, 1} : CtCells[ctOrder.isp][2 * row + col + 1] = CtSeen(row, col)

\* What flip() and mirror() read is what the sensor does. Not so of a table once
\* a write has failed, nor of a bare one. (sensor_table.c table_set_para_value)
CtFlipsTold == ctAspect = "orient" /\ ctOpen # "no" => \A which \in {"v", "h"} :
    CtGetFlip(ctFlip, ctKind, which) = ctFlip.reg[which]

\* Turning the picture leaves the other bits of the flips' register. Not so
\* when the read fails, which is not looked at. (table_apply_orientation)
CtRestKept == ctFlip.reg.rest

\* A step of the loop never takes the picture further from the target: in
\* the dark neither exposure nor gain falls, in the light neither rises.
CtTowards ==
    /\ ctMoved.luma # 0 /\ ctMoved.luma < ctAe.target =>
           \A k \in {1, 2} : ctMoved.now[k] >= ctMoved.was[k]
    /\ ctMoved.luma > ctAe.target => \A k \in {1, 2} : ctMoved.now[k] <= ctMoved.was[k]

\* A step goes by a frame the sensor exposed as the step before it said, so
\* that the loop does not chase what it did itself. (comment at ae_step)
CtFresh == ctMoved.fresh

\* Each channel's curve takes off what black is there, to three quarters of a
\* step, after any of the calls that move it, and has the exponent last given.
CtBlackGone ==
    ctW.gammaOn => \A r \in 1 .. 3 :
        CtAbs(CtOff(ctW, r) - ctW.curve[r].off) < 12 /\ ctW.curve[r].gamma = ctW.gamma

\* The ISP's matrix, and its gain block, are of the matrix and gains in force:
\* none was refused.
CtBalanced == ctW.ccm = CtMatrix(ctW) /\ (ctW.block => ctW.gains = <<ctW.red, ctW.blue>>)

\* A described sensor's tables are on the heap while its sensor is open, only
\* then, whatever raised: none outlives the teardown. (sensor_table.c)
CtHeld == ctBlocks = IF ctOpen = "no" THEN {} ELSE CtBlocksOf(ctKind)

CtSafe == CtColours /\ CtTowards /\ CtFresh /\ CtBlackGone /\ CtBalanced /\ CtHeld
=============================================================================
