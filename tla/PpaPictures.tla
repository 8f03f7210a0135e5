---------------------------- MODULE PpaPictures -----------------------------
(***************************************************************************)
(* What a camera's frame becomes on its way to the program: the calls of   *)
(* mod_cameraif.c that scale, convert or encode it, the ppa module that    *)
(* does it on the ESP32-P4's Pixel Processing Accelerator or in software,  *)
(* and jpegio's engine. paAspect is what a behaviour is about: "shot", the *)
(* camera's calls with memory and the data cache apart, since the sensor,  *)
(* the PPA and the engine work on memory; "call", threads in ppa without   *)
(* the interpreter's lock; "fit", which pixels go where. Cache lines of a  *)
(* buffer are one line. External: the camera's DMA, and the SDK's drivers  *)
(* of the PPA and the engine.                                              *)
(***************************************************************************)
EXTENDS CameraBuffers, CameraTune, Integers, Sequences, FiniteSets

CONSTANTS PaSyncs,    \* what the PPA's driver does to the cache: writes back its
                      \* source ("in"), drops its destination ("out")
          PaFails,    \* "memory" for a buffer, "ppa" an operation that fits it, "engine"
          PaEdits,    \* whether a program writes into frame()'s view
          PaThreads,  \* threads in ppa
          PaShares,   \* whether two may have ppa's scratch at once
          PaOpens,    \* bound: calls of ppa
          PaCameras,  \* frame sizes of cameras, <<w, h>>
          PaAsked     \* sizes asked of take()

\* No frame is less than a pixel across in the shape of a size asked.
ASSUME PaAssumption ==
    /\ PaOpens \in Nat /\ PaSyncs \subseteq {"in", "out"}
    /\ PaCameras \cup PaAsked \subseteq (Nat \ {0}) \X (Nat \ {0})
    /\ \A c \in PaCameras, s \in PaAsked : s[2] <= c[2] * s[1] /\ s[1] <= c[1] * s[2]

VARIABLES
    paAspect, \* "shot", "call" or "fit"
    paBuf,    \* each buffer's memory, its line in the cache, and whether that is dirty
    paCam,    \* the last frame's buffer, the semaphore, the buffer held, and whether
              \* the chip is before revision 3
    paWith,   \* beside frame(), what the program calls: "take", "yuy2" or "dst"
    paLen,    \* lengths of the buffers kept between calls, 0 for none
    paDo,     \* what the call has still to do
    paView,   \* where the last call's picture is, and what it should be
    paUse,    \* ppa's threads
    paClient, \* ppa's client for each way of asking for the hardware
    paCalls,  \* calls of ppa begun
    paAsk     \* the operation whose pixels are looked at

paVars == <<paAspect, paBuf, paCam, paWith, paLen, paDo, paView, paUse, paClient, paCalls, paAsk>>
paOfShot == <<paBuf, paCam, paWith, paLen, paDo, paView>>
paOfCall == <<paUse, paClient, paCalls>>

PaNone == "none"

---------------------------------------------------------------------------
(* Memory and the cache *)

PaBufs == {"f0", "f1", "take", "yuy2", "tmp", "enc", "dst", "bytes"}
PaNoView == [b |-> PaNone, is |-> <<0, "blank">>]
\* A picture is of the frame the call has claimed (1), of a later one (2), or
\* of an older one or none (0); and it has a form.
PaBlank == <<0, "blank">>
PaAged(m) ==
    LET a(c) == IF c # <<>> /\ c[1] = 1 THEN PaBlank ELSE c
    IN  [b \in PaBufs |-> [m[b] EXCEPT !.mem = a(@), !.line = a(@)]]

PaSees(b) == IF paBuf[b].line # <<>> THEN paBuf[b].line ELSE paBuf[b].mem
PaReadBy(m, b) == [m EXCEPT ![b].line = IF @ # <<>> THEN @ ELSE m[b].mem]
PaWrittenBy(m, b, v) == [m EXCEPT ![b].line = v, ![b].dirty = TRUE]
PaCleaned(m, b) == [m EXCEPT ![b].mem = IF m[b].dirty THEN m[b].line ELSE @, ![b].dirty = FALSE]
PaDropped(m, b) == [m EXCEPT ![b].line = <<>>, ![b].dirty = FALSE]

\* External: the PPA reads and writes memory, after what its driver syncs.
PaByPpa(m, from, to, form) ==
    LET a == IF "in" \in PaSyncs THEN PaCleaned(m, from) ELSE m
        b == IF "out" \in PaSyncs THEN PaDropped(a, to) ELSE a
    IN  [b EXCEPT ![to].mem = <<b[from].mem[1], form>>]

\* A line leaves the cache whenever it likes.
PaEvict(b) ==
    /\ paAspect = "shot" /\ paBuf[b].line # <<>>
    /\ paBuf' = PaDropped(PaCleaned(paBuf, b), b)
    /\ UNCHANGED <<paAspect, paWith, paCam, paLen, paDo, paView, paOfCall, paAsk>>

---------------------------------------------------------------------------
(* The camera's calls, as what each has to do in order *)

PaDraw(b) == [do |-> "draw", b |-> b]
PaClaim(sync) == [do |-> "claim", sync |-> sync]
PaAlloc(b, len) == [do |-> "alloc", b |-> b, len |-> len]
PaClean(b) == [do |-> "clean", b |-> b]
PaDrop(b) == [do |-> "drop", b |-> b]
PaPpa(from, to, form) == [do |-> "ppa", from |-> from, to |-> to, form |-> form]
PaCpu(from, to, form) == [do |-> "cpu", from |-> from, to |-> to, form |-> form]
PaCopy(from, to) == PaCpu(from, to, PaNone)
PaEncode(from, form) == [do |-> "encode", from |-> from, form |-> form]
PaGive(b, form) == [do |-> "give", b |-> b, form |-> form]

\* A buffer kept between calls is allocated again when it is too short.
PaKeeps(b, len, more) == IF paLen[b] >= len THEN <<>> ELSE <<PaAlloc(b, len)>> \o more

\* ppa_mod_srm of the frame. Grey, and YUV422 before revision 3, are the PPA's
\* RGB565 in the client's scratch and a pass of the CPU; YUY2 else is UYVY
\* with its bytes swapped. A ratio the PPA has not is software's.
PaHybrid(form) == form = "grey" \/ (form = "yuy2" /\ paCam.old)
PaInHardware(to, form, len) ==
    IF PaHybrid(form)
    THEN PaKeeps("tmp", len, <<>>) \o <<PaPpa("fb", "tmp", "rgb"), PaDrop("tmp"), PaCpu("tmp", to, form)>>
    ELSE IF form = "yuy2" THEN <<PaPpa("fb", to, "uyvy"), PaCpu(to, to, "yuy2")>>
    ELSE <<PaPpa("fb", to, form)>>
PaSrm(to, form, len, hw) == IF hw THEN PaInHardware(to, form, len) ELSE <<PaCpu("fb", to, form)>>

\* Whether the PPA does it: a ratio that is not exact may be one it has.
PaHow(exact) == {TRUE} \cup IF exact /\ "ppa" \notin PaFails THEN {} ELSE {FALSE}

\* What reconfigure() leaves take() to make; it may be called before any take().
PaReconfigured == [fmt : {"rgb", "grey", "jpeg"}, size : {"own", "even", "uneven"}]

\* At the sensor's size block() always has an exact answer.
PaExact(take) == take.size # "uneven"
PaLenOf(size) == IF size = "own" THEN 2 ELSE 1

PaTakes(take, hw) ==
    LET grey == take.fmt = "grey"
        form == IF grey THEN "grey" ELSE "rgb"
        len == PaLenOf(take.size)
    IN  IF take.size = "own" /\ take.fmt = "rgb" THEN <<PaClaim(TRUE), PaGive("fb", "rgb")>>
        ELSE IF take.size = "own" /\ take.fmt = "jpeg" THEN <<PaClaim(FALSE), PaEncode("fb", "rgb")>>
        ELSE PaKeeps("take", len, <<PaClean("take")>>)
             \o <<PaClaim(~PaExact(take))>>
             \o PaSrm("take", form, len, hw)
             \o <<IF hw /\ ~grey THEN PaDrop("take") ELSE PaClean("take")>>
             \o <<IF take.fmt = "jpeg" THEN PaEncode("take", "rgb") ELSE PaGive("take", form)>>

PaYuy2(len, hw) ==
    PaKeeps("yuy2", len, <<>>)
    \o <<PaClaim(TRUE)>> \o PaSrm("yuy2", "yuy2", len, hw)
    \o <<PaCopy("yuy2", "bytes"), PaGive("bytes", "yuy2")>>

PaScaled(hw) == <<PaClaim(FALSE)>> \o PaSrm("dst", "rgb", 1, hw) \o <<PaGive("dst", "rgb")>>

\* jpegio.JpegEncoder of a picture the program drew, which is copied unless it is
\* tight and native (len = 0), or widened to three bytes a pixel (len = 3). The
\* copy's buffer is kept if it is long enough and at most twice what is asked.
PaReserves(len) == IF paLen["enc"] >= len /\ paLen["enc"] \div 2 <= len THEN <<>> ELSE <<PaAlloc("enc", len)>>
PaEncoder(len) ==
    LET form == IF len = 3 THEN "bgr" ELSE "rgb"
    IN  <<PaDraw("dst")>> \o IF len = 0 THEN <<PaEncode("dst", form)>>
        ELSE PaReserves(len) \o <<PaCpu("dst", "enc", form), PaEncode("enc", form)>>

PaFrame == <<PaClaim(TRUE), PaGive("fb", "rgb")>>
PaCapture == <<PaClaim(TRUE), PaCopy("fb", "bytes"), PaGive("bytes", "rgb")>>
PaJpeg == <<PaClaim(FALSE), PaEncode("fb", "rgb")>>

\* What ppa refuses raises once the call has its frame.
PaRefused == <<PaClaim(FALSE)>>

\* capture_scaled asks for approx, so that every ratio is the PPA's.
PaPlans ==
    {PaFrame, PaRefused} \cup
    CASE paWith = "take" -> UNION {{PaTakes(t, hw) : hw \in PaHow(PaExact(t))} : t \in PaReconfigured}
      [] paWith = "yuy2" -> UNION {{PaYuy2(len, hw) : hw \in PaHow(FALSE)} : len \in {1, 2}}
      [] OTHER -> {PaCapture, PaJpeg} \cup {PaScaled(hw) : hw \in PaHow(TRUE)}
                  \cup {PaEncoder(len) : len \in {0, 1, 3}}

PaBegins(plan) ==
    /\ paAspect = "shot" /\ paDo = <<>>
    /\ paDo' = plan /\ paView' = PaNoView
    /\ paBuf' = [paBuf EXCEPT !["bytes"] = [mem |-> PaBlank, line |-> <<>>, dirty |-> FALSE]]
    /\ UNCHANGED <<paAspect, paWith, paCam, paLen, paOfCall, paAsk>>

PaAt(b) == IF b = "fb" THEN paCam.held ELSE b
PaStep == Head(paDo)
PaDoes(what) == paAspect = "shot" /\ paDo # <<>> /\ PaStep.do = what
PaGoesOn == paDo' = Tail(paDo) /\ UNCHANGED <<paAspect, paWith, paOfCall, paAsk>>

\* External: the sensor's frame ends in a buffer nobody holds, which is either
\* once a call waits for one.
PaArrives(b) ==
    /\ paAspect = "shot" /\ b \in {"f0", "f1"} /\ (b # paCam.held \/ PaDoes("claim"))
    /\ paCam # [paCam EXCEPT !.done = b, !.ready = TRUE] \/ paBuf[b].mem # <<2, "rgb">>
    /\ paCam' = [paCam EXCEPT !.done = b, !.ready = TRUE]
    /\ paBuf' = [c \in PaBufs |-> IF c = b THEN [paBuf[b] EXCEPT !.mem = <<2, "rgb">>]
                                 ELSE [paBuf[c] EXCEPT !.mem = IF @[1] = 2 THEN PaBlank ELSE @]]
    /\ UNCHANGED <<paAspect, paWith, paLen, paDo, paView, paOfCall, paAsk>>

\* wait_frame: the frame before is given back, and the last one to end is
\* claimed, its lines dropped if the CPU is to read it.
PaClaims ==
    /\ PaDoes("claim") /\ paCam.ready
    /\ paCam' = [paCam EXCEPT !.ready = FALSE, !.held = paCam.done]
    /\ paBuf' = LET m == [PaAged(paBuf) EXCEPT ![paCam.done].mem = <<1, "rgb">>]
                IN  IF PaStep.sync THEN PaDropped(m, paCam.done) ELSE m
    /\ UNCHANGED <<paLen, paView>> /\ PaGoesOn

PaDraws ==
    /\ PaDoes("draw")
    /\ paBuf' = PaWrittenBy(PaAged(paBuf), PaStep.b, <<1, "rgb">>)
    /\ UNCHANGED <<paCam, paLen, paView>> /\ PaGoesOn

\* Nothing in time, or a frame that carried nothing.
PaTimesOut ==
    /\ PaDoes("claim")
    /\ paCam' = [paCam EXCEPT !.ready = FALSE, !.held = PaNone] /\ paDo' = <<>>
    /\ UNCHANGED <<paAspect, paWith, paBuf, paLen, paView, paOfCall, paAsk>>

\* Zeroed by the CPU.
PaAllocates ==
    /\ PaDoes("alloc")
    /\ paLen' = [paLen EXCEPT ![PaStep.b] = PaStep.len]
    /\ paBuf' = [paBuf EXCEPT ![PaStep.b] = [mem |-> PaBlank, line |-> PaBlank, dirty |-> TRUE]]
    /\ UNCHANGED <<paCam, paView>> /\ PaGoesOn

\* No memory: the call raises. Without the scratch it is done in software,
\* and without the engine's copy too.
PaAllocFails ==
    /\ PaDoes("alloc") /\ IF PaStep.b = "tmp" THEN "ppa" \in PaFails ELSE "memory" \in PaFails
    /\ paLen' = [paLen EXCEPT ![PaStep.b] = 0]
    /\ paDo' = CASE PaStep.b = "tmp" -> <<PaCpu("fb", paDo[4].to, paDo[4].form)>> \o SubSeq(paDo, 5, Len(paDo))
                 [] PaStep.b = "enc" -> <<PaCpu("dst", "bytes", "jpeg"), PaGive("bytes", "jpeg")>>
                 [] OTHER -> <<>>
    /\ UNCHANGED <<paAspect, paWith, paBuf, paCam, paView, paOfCall, paAsk>>

PaPpaWorks ==
    /\ PaDoes("ppa")
    /\ paBuf' = PaByPpa(paBuf, PaAt(PaStep.from), PaStep.to, PaStep.form)
    /\ UNCHANGED <<paCam, paLen, paView>> /\ PaGoesOn

PaCpuWorks ==
    /\ PaDoes("cpu")
    /\ LET from == PaAt(PaStep.from)
           form == IF PaStep.form = PaNone THEN PaSees(from)[2] ELSE PaStep.form
       IN  paBuf' = PaWrittenBy(PaReadBy(paBuf, from), PaStep.to, <<PaSees(from)[1], form>>)
    /\ UNCHANGED <<paCam, paLen, paView>> /\ PaGoesOn

PaMsync ==
    /\ (PaDoes("clean") \/ PaDoes("drop"))
    /\ paBuf' = IF PaStep.do = "clean" THEN PaCleaned(paBuf, PaStep.b) ELSE PaDropped(paBuf, PaStep.b)
    /\ UNCHANGED <<paCam, paLen, paView>> /\ PaGoesOn

\* The engine reads memory in the form it is told, after its driver wrote the
\* lines back; where it can't, the CPU encodes, what it was given.
PaEncodes(hw) ==
    /\ PaDoes("encode") /\ (hw \/ "engine" \in PaFails)
    /\ LET b == IF hw \/ PaStep.from # "enc" THEN PaAt(PaStep.from) ELSE "dst"
           m == IF hw THEN PaCleaned(paBuf, b) ELSE PaReadBy(paBuf, b)
           c == IF hw THEN m[b].mem ELSE m[b].line
           form == IF hw THEN PaStep.form ELSE "rgb"
       IN  paBuf' = PaWrittenBy(m, "bytes", <<c[1], IF c[2] = form THEN "jpeg" ELSE "noise">>)
    /\ paView' = [b |-> "bytes", is |-> <<1, "jpeg">>]
    /\ UNCHANGED <<paCam, paLen>> /\ PaGoesOn

PaGives ==
    /\ PaDoes("give")
    /\ paView' = [b |-> PaAt(PaStep.b), is |-> <<1, PaStep.form>>]
    /\ UNCHANGED <<paBuf, paCam, paLen>> /\ PaGoesOn

\* The program reads what it was given, or writes into frame()'s view.
PaUses(edits) ==
    /\ paAspect = "shot" /\ paView # PaNoView /\ paDo = <<>> /\ (IF edits THEN PaEdits ELSE paBuf[paView.b].line = <<>>)
    /\ paBuf' = IF edits THEN PaWrittenBy(paBuf, paView.b, <<paView.is[1], "edited">>) ELSE PaReadBy(paBuf, paView.b)
    /\ paView' = IF edits THEN [paView EXCEPT !.is = <<@[1], "edited">>] ELSE paView
    /\ UNCHANGED <<paAspect, paWith, paCam, paLen, paDo, paOfCall, paAsk>>

---------------------------------------------------------------------------
(* Threads in ppa *)

PaModes == {"auto", "never", "insist"}
PaIdle == [at |-> "idle", mode |-> "auto", op |-> "plain", dst |-> PaNone, alone |-> TRUE,
           on |-> FALSE, hw |-> FALSE, told |-> FALSE]
PaFresh == [used |-> FALSE, srm |-> 0, paint |-> 0, made |-> 0, busy |-> [t \in PaThreads |-> 0],
            tmp |-> PaNone]

PaSlot(op) == IF op = "fill" THEN "paint" ELSE "srm"
PaMine(t) == paClient[paUse[t].mode]
PaIn(mode) == {t \in PaThreads : paUse[t].at # "idle" /\ paUse[t].mode = mode}
PaCan(t, at) == paAspect = "call" /\ paUse[t].at = at
PaTo(t, at) == paUse' = [paUse EXCEPT ![t].at = at]
PaElse(mode) == IF mode = "insist" THEN "raise" ELSE "software"
PaOtherwise == UNCHANGED <<paAspect, paOfShot, paAsk>>

\* srm(), convert(), fill() and blend(), up to where the lock is let go. fill
\* and blend are the PPA's alone; "grey" needs the scratch, "odd" the PPA has not.
PaCalls(t, mode, op) ==
    /\ PaCan(t, "idle") /\ paCalls < PaOpens
    /\ op = "fill" => mode = "insist"
    /\ op = "grey" /\ ~PaShares => \A u \in PaIn(mode) : paUse[u].op # "grey"
    /\ paCalls' = paCalls + 1
    /\ paUse' = [u \in PaThreads |->
                    IF u = t THEN [PaIdle EXCEPT !.at = "begin", !.mode = mode, !.op = op, !.alone = PaIn(mode) = {}]
                    ELSE [paUse[u] EXCEPT !.alone = @ /\ u \notin PaIn(mode)]]
    /\ UNCHANGED paClient /\ PaOtherwise

\* The scratch is freed and made again for each picture that is longer.
PaEnters(t, longer) ==
    /\ PaCan(t, "begin")
    /\ LET c == PaMine(t)  mode == paUse[t].mode  hybrid == paUse[t].op = "grey"
       IN  /\ longer => hybrid /\ mode # "never"
           /\ paClient' = [paClient EXCEPT
                 ![mode].used = paUse[t].op = "fill" /\ @,
                 ![mode].tmp = IF longer THEN "zeros" ELSE @]
           /\ PaTo(t, IF mode = "never" \/ paUse[t].op = "odd" THEN PaElse(mode)
                      ELSE IF c[PaSlot(paUse[t].op)] = 0 THEN "register" ELSE "submit")
    /\ UNCHANGED paCalls /\ PaOtherwise

\* hw_client: a client of the PPA for each kind of operation, made on first use.
PaRegisters(t) ==
    /\ PaCan(t, "register")
    /\ paClient' = [paClient EXCEPT ![paUse[t].mode].made = @ + 1,
                                    ![paUse[t].mode][PaSlot(paUse[t].op)] = PaMine(t).made + 1]
    /\ PaTo(t, "submit") /\ UNCHANGED paCalls /\ PaOtherwise

\* External: a client of the PPA takes one operation at a time.
PaSubmits(t) ==
    /\ PaCan(t, "submit")
    /\ LET c == PaMine(t)  mine == c[PaSlot(paUse[t].op)]
           taken == \A u \in PaThreads : c.busy[u] # mine
       IN  /\ PaTo(t, IF taken THEN "wait" ELSE PaElse(paUse[t].mode))
           /\ paClient' = [paClient EXCEPT ![paUse[t].mode].busy[t] = IF taken THEN mine ELSE 0,
                                           ![paUse[t].mode].used = @ \/ paUse[t].op = "fill"]
    /\ UNCHANGED paCalls /\ PaOtherwise

PaWorked(t) ==
    /\ PaCan(t, "wait")
    /\ LET grey == paUse[t].op = "grey"
       IN  /\ paClient' = [paClient EXCEPT ![paUse[t].mode].busy[t] = 0,
                                           ![paUse[t].mode].tmp = IF grey THEN t ELSE @]
           /\ paUse' = [paUse EXCEPT ![t].at = "finish", ![t].dst = IF grey THEN @ ELSE t]
    /\ UNCHANGED paCalls /\ PaOtherwise

PaFinishes(t) ==
    /\ PaCan(t, "finish")
    /\ paUse' = [paUse EXCEPT ![t].at = "return", ![t].hw = TRUE,
                              ![t].dst = IF paUse[t].op = "grey" THEN PaMine(t).tmp ELSE @]
    /\ paClient' = [paClient EXCEPT ![paUse[t].mode].used = TRUE]
    /\ UNCHANGED paCalls /\ PaOtherwise

PaSoftware(t) ==
    /\ PaCan(t, "software")
    /\ \/ paUse' = [paUse EXCEPT ![t].at = "return", ![t].dst = t]
       \/ "memory" \in PaFails /\ PaTo(t, "raise")
    /\ UNCHANGED <<paClient, paCalls>> /\ PaOtherwise

\* The lock again, and what srm() tells the program of how it was done.
PaReturns(t) ==
    /\ PaCan(t, "return")
    /\ paUse' = [paUse EXCEPT ![t].at = "idle", ![t].on = TRUE, ![t].told = PaMine(t).used]
    /\ UNCHANGED <<paClient, paCalls>> /\ PaOtherwise

PaRaises(t) ==
    /\ PaCan(t, "raise")
    /\ paUse' = [paUse EXCEPT ![t] = PaIdle]
    /\ UNCHANGED <<paClient, paCalls>> /\ PaOtherwise

---------------------------------------------------------------------------
(* Which pixels go where *)

\* FrameSize, in espcamera's order.
PaSizes == <<<<96, 96>>, <<160, 120>>, <<176, 144>>, <<240, 176>>, <<240, 240>>, <<320, 240>>,
    <<400, 296>>, <<480, 320>>, <<640, 480>>, <<800, 600>>, <<1024, 768>>, <<1280, 720>>,
    <<1280, 1024>>, <<1600, 1200>>, <<1920, 1080>>, <<720, 1280>>, <<864, 1536>>, <<2048, 1536>>,
    <<2560, 1440>>, <<2560, 1600>>, <<1080, 1920>>, <<2560, 1920>>>>

\* The part of a W x H frame that becomes w x h: of its shape, in the middle,
\* and 16w/k by 16h/k for the smallest k there is, unless that is under half.
PaBlock(W, H, w, h) ==
    LET wide == W * h >= H * w
        mw == IF wide THEN (H * w) \div h ELSE W
        mh == IF wide THEN H ELSE (W * h) \div w
        ks == {k \in 1 .. 256 : /\ (16 * w) % k = 0 /\ (16 * w) \div k <= mw
                                /\ (16 * h) % k = 0 /\ (16 * h) \div k <= mh}
        k == CHOOSE i \in ks : \A j \in ks : i <= j
        exact == ks # {} /\ 2 * ((16 * w) \div k) >= mw /\ 2 * ((16 * h) \div k) >= mh
        bw == IF exact THEN (16 * w) \div k ELSE mw
        bh == IF exact THEN (16 * h) \div k ELSE mh
    IN  [x |-> (W - bw) \div 2, y |-> (H - bh) \div 2, w |-> bw, h |-> bh, exact |-> exact]

\* The PPA scales by a whole part and sixteenths, even ones into YUV.
PaScalesExactly(n, want, even) ==
    LET f == ((16 * want) \div n) % 16
        g == IF even THEN f - (f % 2) ELSE f
    IN  n * (want \div n) + (n * g) \div 16 = want

PaRounded(len) == ((len + 63) \div 64) * 64
PaDmaLen(len, pic) == LET n == len - (len % 64) IN IF n >= pic THEN n ELSE 0

\* A source of PaSide by PaSide pixels; formats in RGB, pairs or quads.
PaSide == 4
PaPairs(fmt) == fmt # "rgb"
PaQuads(fmt) == fmt = "y420"
PaOdd(n) == n % 2 = 1

\* ppa_sw_check.
PaCheck(a) ==
    /\ a.sx + a.sw <= PaSide /\ a.sy + a.sh <= PaSide /\ a.x + a.w <= PaSide /\ a.y + a.h <= PaSide
    /\ PaPairs(a.sf) => ~PaOdd(a.sx) /\ ~PaOdd(a.sw)
    /\ PaPairs(a.df) => ~PaOdd(a.x) /\ ~PaOdd(a.w)
    /\ PaQuads(a.sf) => ~PaOdd(a.sy) /\ ~PaOdd(a.sh)
    /\ PaQuads(a.df) => ~PaOdd(a.y) /\ ~PaOdd(a.h)

\* ppa_sw_srm: the source pixel a pixel of the block is made of.
PaTurn(a) == a.rot \in {90, 270}
PaPixel(a, ox, oy) ==
    LET uw == IF PaTurn(a) THEN a.h ELSE a.w
        uh == IF PaTurn(a) THEN a.w ELSE a.h
        mx == IF a.mx THEN a.w - 1 - ox ELSE ox
        my == IF a.my THEN a.h - 1 - oy ELSE oy
        u == CASE a.rot = 90 -> <<uw - 1 - my, mx>>
               [] a.rot = 180 -> <<uw - 1 - mx, uh - 1 - my>>
               [] a.rot = 270 -> <<my, uh - 1 - mx>>
               [] OTHER -> <<mx, my>>
    IN  <<a.sx + (u[1] * a.sw) \div uw, a.sy + (u[2] * a.sh) \div uh>>

\* read_px: what is read for a pixel, its pair's or its quad's colour with it.
PaReads(fmt, p) ==
    LET left == p[1] - (p[1] % 2)  top == p[2] - (p[2] % 2)
    IN  {p} \cup (IF fmt = "y422" THEN {<<left, p[2]>>, <<left + 1, p[2]>>} ELSE {})
            \cup (IF fmt = "y420" THEN {<<left, top>>, <<left, top + 1>>} ELSE {})

\* write_rgb, write_422 and write_420: where the block's pixels are put.
PaWrites(a) ==
    LET w == IF PaPairs(a.df) THEN a.w - (a.w % 2) ELSE a.w
        h == IF PaQuads(a.df) THEN a.h - (a.h % 2) ELSE a.h
    IN  (a.x .. a.x + w - 1) \X (a.y .. a.y + h - 1)

PaNoAsk == [what |-> PaNone]
PaOp(f, x, s, rot, mx, my) ==
    [what |-> "srm", sf |-> f[1], df |-> f[2], sx |-> x[1], sy |-> x[2], sw |-> s[1], sh |-> s[2],
     x |-> x[2], y |-> x[1], w |-> s[3], h |-> s[2], rot |-> rot, mx |-> mx, my |-> my]
PaFormats == {<<"rgb", "rgb">>, <<"rgb", "y422">>, <<"y422", "rgb">>, <<"y420", "y420">>}

PaAsks ==
    /\ paAspect = "fit" /\ paAsk = PaNoAsk
    /\ \/ \E f \in PaFormats, x \in {0, 1} \X {0, 1}, s \in {2, 3} \X {2, 3} \X {2, 3},
             rot \in {0, 90, 180, 270}, mx \in BOOLEAN, my \in BOOLEAN :
              PaCheck(PaOp(f, x, s, rot, mx, my)) /\ paAsk' = PaOp(f, x, s, rot, mx, my)
       \/ \E c \in PaCameras, size \in PaAsked :
              paAsk' = [what |-> "take", frame |-> c, size |-> size,
                        block |-> PaBlock(c[1], c[2], size[1], size[2])]
    /\ UNCHANGED <<paAspect, paOfShot, paOfCall>>

---------------------------------------------------------------------------

PaInit ==
    /\ paAspect \in {"shot", "call", "fit"}
    /\ paBuf = [b \in PaBufs |-> [mem |-> PaBlank, line |-> <<>>, dirty |-> FALSE]]
    /\ paWith \in IF paAspect = "shot" THEN {"take", "yuy2", "dst"} ELSE {"take"}
    /\ \E old \in IF paWith = "yuy2" THEN BOOLEAN ELSE {FALSE} :
         paCam = [done |-> "f0", ready |-> FALSE, held |-> PaNone, old |-> old]
    /\ paLen = [b \in {"take", "yuy2", "tmp", "enc"} |-> 0]
    /\ paDo = <<>> /\ paView = PaNoView
    /\ paUse = [t \in PaThreads |-> PaIdle] /\ paClient = [m \in PaModes |-> PaFresh] /\ paCalls = 0
    /\ paAsk = PaNoAsk

PaNext ==
    \/ \E plan \in PaPlans : PaBegins(plan)
    \/ \E b \in PaBufs : PaArrives(b)
    \/ \E b \in PaBufs \ {"bytes"} : PaEvict(b)
    \/ PaClaims \/ PaTimesOut \/ PaDraws \/ PaAllocates \/ PaAllocFails
    \/ PaPpaWorks \/ PaCpuWorks \/ PaMsync \/ PaGives
    \/ \E hw \in BOOLEAN : PaEncodes(hw)
    \/ \E edits \in BOOLEAN : PaUses(edits)
    \/ \E t \in PaThreads, mode \in PaModes, op \in {"plain", "grey", "odd", "fill"} : PaCalls(t, mode, op)
    \/ \E t \in PaThreads, longer \in BOOLEAN : PaEnters(t, longer)
    \/ \E t \in PaThreads : \/ PaRegisters(t) \/ PaSubmits(t) \/ PaWorked(t) \/ PaFinishes(t)
                            \/ PaSoftware(t) \/ PaReturns(t) \/ PaRaises(t)
    \/ PaAsks

PaSpec == PaInit /\ [][PaNext]_paVars

---------------------------------------------------------------------------
(* Properties *)

\* What a call gave is the newest frame there was when it claimed one, in the
\* form asked, and stays so until the next call, whatever the cache does; a
\* picture for the screen is so in memory. (wait_frame, take)
PaCurrent ==
    paView # PaNoView /\ paDo = <<>> =>
        /\ PaSees(paView.b) = paView.is
        /\ paView.b = "dst" => paBuf["dst"].mem = paView.is

\* A call of ppa that did not raise has made its own picture. Two threads in
\* one client's scratch (PaShares) get one another's. (ppa_py_run, hw_srm)
PaOwn == \A t \in PaThreads : paUse[t].at = "idle" /\ paUse[t].on => paUse[t].dst = t

\* What srm() tells of the hardware is so, if its client had no other caller.
PaTold == \A t \in PaThreads :
    paUse[t].at = "idle" /\ paUse[t].on /\ paUse[t].alone => paUse[t].told = paUse[t].hw

\* hw_client registers one client for each kind of operation. Not so when two
\* threads are in ppa.
PaOneClient == \A m \in PaModes : paClient[m].made <= IF m = "insist" THEN 2 ELSE 1

\* When block() says the PPA scales exactly, it does, so that take() need not
\* drop the CPU's lines; the block is in the frame, in its middle and of the
\* shape asked. (cameraif_block, hw_scales_exactly)
PaFits ==
    paAsk.what = "take" =>
        LET b == paAsk.block  size == paAsk.size
        IN  /\ b.w > 0 /\ b.x + b.w <= paAsk.frame[1] /\ paAsk.frame[1] - b.w - 2 * b.x \in {0, 1}
            /\ b.h > 0 /\ b.y + b.h <= paAsk.frame[2] /\ paAsk.frame[2] - b.h - 2 * b.y \in {0, 1}
            /\ b.exact => /\ b.w * size[2] = b.h * size[1]
                          /\ PaScalesExactly(b.w, size[1], FALSE) /\ PaScalesExactly(b.h, size[2], FALSE)

\* take()'s buffer is one the PPA takes; capture_yuy2's length is not rounded
\* (PaYuy2Taken), so that some sizes are software's.
PaTaken == paAsk.what = "take" =>
    LET need == 2 * paAsk.size[1] * paAsk.size[2] IN PaDmaLen(PaRounded(need), need) # 0
PaYuy2Taken == paAsk.what = "take" =>
    LET need == 2 * paAsk.size[1] * paAsk.size[2] IN PaDmaLen(need, need) # 0

\* The picture by itself: scaled, turned a quarter counter-clockwise as often as
\* asked, then mirrored.
PaScaledPicture(a) ==
    LET w == IF PaTurn(a) THEN a.h ELSE a.w
        h == IF PaTurn(a) THEN a.w ELSE a.h
    IN  [w |-> w, h |-> h, at |-> [p \in (0 .. w - 1) \X (0 .. h - 1) |->
            <<a.sx + (p[1] * a.sw) \div w, a.sy + (p[2] * a.sh) \div h>>]]
PaQuarter(q) ==
    [w |-> q.h, h |-> q.w,
     at |-> [p \in (0 .. q.h - 1) \X (0 .. q.w - 1) |-> q.at[<<q.w - 1 - p[2], p[1]>>]]]
PaTurned(a) ==
    LET q == PaScaledPicture(a)
    IN  CASE a.rot = 0 -> q [] a.rot = 90 -> PaQuarter(q)
          [] a.rot = 180 -> PaQuarter(PaQuarter(q)) [] OTHER -> PaQuarter(PaQuarter(PaQuarter(q)))

\* Software writes each pixel of the block and no other, from the pixel of the
\* picture scaled, turned and mirrored, and reads nothing outside the source's
\* block, a neighbour's colour neither. (ppa_sw_srm)
PaMapped ==
    paAsk.what = "srm" =>
        LET a == paAsk  q == PaTurned(a)
        IN  /\ PaWrites(a) = (a.x .. a.x + a.w - 1) \X (a.y .. a.y + a.h - 1)
            /\ \A ox \in 0 .. a.w - 1, oy \in 0 .. a.h - 1 :
                  LET p == PaPixel(a, ox, oy)
                  IN  /\ p = q.at[<<IF a.mx THEN a.w - 1 - ox ELSE ox, IF a.my THEN a.h - 1 - oy ELSE oy>>]
                      /\ PaReads(a.sf, p) \subseteq (a.sx .. a.sx + a.sw - 1) \X (a.sy .. a.sy + a.sh - 1)

PaSafe == PaCurrent /\ PaOwn /\ PaTold /\ PaFits /\ PaTaken /\ PaMapped

\* A camera: its frames' buffers, what its picture is set up as, and what a frame
\* becomes on its way to the program, with ppa and jpegio. (mod_cameraif.c,
\* sensor_table.c, ppa_hw.c, ppa_sw.c, jpegio_enc.c)
CameraSafe == CbSafe /\ CtSafe /\ PaSafe
=============================================================================
