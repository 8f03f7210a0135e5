------------------------------- MODULE PicoDvi -------------------------------
(***************************************************************************)
(* The DVI frame buffer of the RP2350 (picodvi_rp2350.c): one DMA channel  *)
(* walks a list of commands that tell another what each line of a frame is *)
(* read from, and an interrupt at the list's end starts it again. List and *)
(* frame buffer are the Python heap's; the hardware's state is static. The *)
(* interrupt preempts the core that stops the hardware.                    *)
(***************************************************************************)
EXTENDS Integers, Sequences, FiniteSets

CONSTANTS PvSync, PvBack, PvLines, PvFront,  \* lines of a frame: MODE_*_V_*
          PvScales,   \* how many lines a row may fill
          PvChannels, \* DMA channels
          PvKeeps,    \* whether a program keeps the object that is showing
          PvMakes     \* bound: constructions

ASSUME PvAssumption ==
    /\ {PvSync, PvBack, PvLines, PvFront} \subseteq Nat \ {0} /\ PvChannels \subseteq Nat
    /\ \A s \in PvScales : s \in Nat \ {0} /\ PvLines % s = 0

\* A mode: when lines are doubled, a command has the channel's control too.
PvModes == {[sync |-> PvSync, back |-> PvBack, active |-> PvLines, front |-> PvFront,
             scale |-> s, words |-> IF s > 1 THEN 4 ELSE 2] : s \in PvScales}

VARIABLES
    pvObjs,   \* the objects: [mode, mem]; mem until freed or collected
    pvHw,     \* s_hw and active_picodvi: [live, pixel, command, active]
    pvClaimed,\* channels claimed
    pvDma,    \* [on, busy, obj, word]: the pixel channel, and the place in the
              \* list of the object it was begun with
    pvIrq,    \* whether the end of the list waits to be noticed
    pvStop,   \* the step picodvi_hw_stop is at, and what goes on after it
    pvOthers  \* channels other drivers have

pvVars == <<pvObjs, pvHw, pvClaimed, pvDma, pvIrq, pvStop, pvOthers>>

PvNoDma == [on |-> FALSE, busy |-> FALSE, obj |-> 0, word |-> 0]
PvOff == [live |-> FALSE, pixel |-> -1, command |-> -1, active |-> 0]
PvRest == [step |-> "none", then |-> "none", obj |-> 0]

PvInit ==
    /\ pvObjs = <<>> /\ pvHw = PvOff /\ pvClaimed = {} /\ pvDma = PvNoDma
    /\ pvIrq = FALSE /\ pvStop = PvRest /\ pvOthers \in SUBSET PvChannels

---------------------------------------------------------------------------
(* The list of commands *)

PvTotal(m) == m.sync + m.back + m.active + m.front
PvActive(m, line) == m.sync + m.back <= line /\ line < m.sync + m.back + m.active

\* What is allocated: a command a blank line, two an active one, and the last.
PvListWords(m) == (m.front + m.sync + m.back + 2 * m.active + 1) * m.words

\* Where a line's commands begin.
PvLineAt(m, line) ==
    (line + Cardinality({l \in 0 .. line - 1 : PvActive(m, l)})) * m.words

\* The line the command at a word is for, and whether it is the line's second
\* one: the pixels after the control words.
PvLineOf(m, word) == CHOOSE l \in 0 .. PvTotal(m) :
                         /\ PvLineAt(m, l) <= word
                         /\ l = PvTotal(m) \/ word < PvLineAt(m, l + 1)
PvPixels(m, word) ==
    LET l == PvLineOf(m, word) IN PvActive(m, l) /\ word = PvLineAt(m, l) + m.words

\* Mutant: a row forgets that lines are doubled.
PvRowOnce(m, line) == line - (m.sync + m.back)

\* The row of the frame buffer an active line is read from.
PvRow(m, line) == (line - (m.sync + m.back)) \div m.scale

\* The last command: its address of nothing raises the interrupt.
PvEnd(m, word) == word = PvLineAt(m, PvTotal(m))

---------------------------------------------------------------------------
(* The hardware *)

\* A transfer ends, and the command channel gives the pixel channel its next,
\* in less time than the core takes between two registers.
PvNextCommand ==
    /\ pvDma.busy /\ pvDma.on
    /\ LET m == pvObjs[pvDma.obj].mode
           next == pvDma.word + m.words
       IN /\ pvDma' = [pvDma EXCEPT !.word = next, !.busy = ~PvEnd(m, next)]
          /\ pvIrq' = PvEnd(m, next)
    /\ UNCHANGED <<pvObjs, pvHw, pvClaimed, pvStop, pvOthers>>

\* dma_irq_handler: the list again, of the object that is active. It comes
\* before the core's next step, whatever the core is at.
PvFrameEnds ==
    /\ pvIrq /\ pvIrq' = FALSE
    /\ pvDma' = IF pvHw.active = 0 THEN pvDma
                ELSE [pvDma EXCEPT !.busy = TRUE, !.obj = pvHw.active, !.word = 0]
    /\ UNCHANGED <<pvObjs, pvHw, pvClaimed, pvStop, pvOthers>>

---------------------------------------------------------------------------
(* picodvi_hw_stop: the pixel channel, the command channel, the interrupt *)

PvStopBegins(then, obj) ==
    pvStop' = [step |-> IF pvHw.live THEN "pixel" ELSE "stopped", then |-> then, obj |-> obj]

PvStopPixel ==
    /\ ~pvIrq /\ pvStop.step = "pixel"
    /\ pvDma' = PvNoDma /\ pvClaimed' = pvClaimed \ {pvHw.pixel}
    /\ pvStop' = [pvStop EXCEPT !.step = "command"]
    /\ UNCHANGED <<pvObjs, pvHw, pvIrq, pvOthers>>

PvStopRest ==
    /\ ~pvIrq /\ pvStop.step = "command"
    /\ pvClaimed' = pvClaimed \ {pvHw.command} /\ pvHw' = PvOff
    /\ pvStop' = [pvStop EXCEPT !.step = "stopped"]
    /\ UNCHANGED <<pvObjs, pvDma, pvIrq, pvOthers>>

---------------------------------------------------------------------------
(* The object *)

PvIdle == ~pvIrq /\ pvStop = PvRest

\* Framebuffer(): the hardware is stopped first, whoever's it was.
PvMake(m) ==
    /\ PvIdle /\ Len(pvObjs) < PvMakes
    /\ pvObjs' = Append(pvObjs, [mode |-> m, mem |-> FALSE])
    /\ PvStopBegins("make", Len(pvObjs) + 1)
    /\ UNCHANGED <<pvHw, pvClaimed, pvDma, pvIrq, pvOthers>>

PvFree == PvChannels \ (pvClaimed \cup pvOthers)

\* Wrong arguments, or no memory: nothing has been taken yet.
PvMakeFails ==
    /\ pvStop.step = "stopped" /\ pvStop.then = "make" /\ pvStop' = PvRest
    /\ UNCHANGED <<pvObjs, pvHw, pvClaimed, pvDma, pvIrq, pvOthers>>

\* Fewer than two channels: the end of the object stops what is live, which
\* nothing is, and forgets the channel it had claimed.
PvNoChannels ==
    /\ pvStop.step = "stopped" /\ pvStop.then = "make" /\ Cardinality(PvFree) < 2
    /\ pvClaimed' = pvClaimed \cup PvFree
    /\ pvStop' = PvRest
    /\ UNCHANGED <<pvObjs, pvHw, pvDma, pvIrq, pvOthers>>

\* The two channels, the list, and the first start by the handler itself.
PvStarts ==
    /\ pvStop.step = "stopped" /\ pvStop.then = "make"
    /\ \E p, c \in PvFree :
           /\ p < c /\ \A f \in PvFree : f = p \/ f >= c
           /\ pvClaimed' = pvClaimed \cup {p, c}
           /\ pvHw' = [live |-> TRUE, pixel |-> p, command |-> c, active |-> pvStop.obj]
    /\ pvObjs' = [pvObjs EXCEPT ![pvStop.obj].mem = TRUE]
    /\ pvDma' = [on |-> TRUE, busy |-> TRUE, obj |-> pvStop.obj, word |-> 0]
    /\ pvStop' = PvRest
    /\ UNCHANGED <<pvIrq, pvOthers>>

\* deinit(): nothing for an object without a frame buffer.
PvDeinit(o) ==
    /\ PvIdle /\ pvObjs[o].mem
    /\ PvStopBegins("deinit", o)
    /\ UNCHANGED <<pvObjs, pvHw, pvClaimed, pvDma, pvIrq, pvOthers>>

PvDeinitFrees ==
    /\ pvStop.step = "stopped" /\ pvStop.then = "deinit"
    /\ pvObjs' = [pvObjs EXCEPT ![pvStop.obj].mem = FALSE]
    /\ pvStop' = PvRest
    /\ UNCHANGED <<pvHw, pvClaimed, pvDma, pvIrq, pvOthers>>

\* A soft reset: the hook before the sweep, then every object is gone.
PvSoftReset ==
    /\ PvIdle /\ PvStopBegins("reset", 0)
    /\ UNCHANGED <<pvObjs, pvHw, pvClaimed, pvDma, pvIrq, pvOthers>>

PvSwept ==
    /\ pvStop.step = "stopped" /\ pvStop.then = "reset"
    /\ pvObjs' = [o \in DOMAIN pvObjs |-> [pvObjs[o] EXCEPT !.mem = FALSE]]
    /\ pvStop' = PvRest
    /\ UNCHANGED <<pvHw, pvClaimed, pvDma, pvIrq, pvOthers>>

\* The collector takes what the program let go: active_picodvi is no root.
PvCollect(o) ==
    /\ PvIdle /\ pvObjs[o].mem /\ (PvKeeps => o # pvHw.active)
    /\ pvObjs' = [pvObjs EXCEPT ![o].mem = FALSE]
    /\ UNCHANGED <<pvHw, pvClaimed, pvDma, pvIrq, pvStop, pvOthers>>

PvNext ==
    \/ PvNextCommand \/ PvFrameEnds \/ PvStopPixel \/ PvStopRest
    \/ \E m \in PvModes : PvMake(m)
    \/ PvMakeFails \/ PvNoChannels \/ PvStarts \/ PvDeinitFrees \/ PvSoftReset \/ PvSwept
    \/ \E o \in DOMAIN pvObjs : PvDeinit(o) \/ PvCollect(o)

PvSpec == PvInit /\ [][PvNext]_pvVars

---------------------------------------------------------------------------

\* The channel walks a list, and reads a row, that are there: of the object
\* that is active, inside what was allocated. (a program that keeps its object)
PvReadsOwn ==
    pvDma.busy =>
        LET o == pvObjs[pvDma.obj] IN
        /\ o.mem /\ pvDma.word + o.mode.words <= PvListWords(o.mode)
        /\ PvPixels(o.mode, pvDma.word) =>
               PvRow(o.mode, PvLineOf(o.mode, pvDma.word)) \in
                   0 .. (o.mode.active \div o.mode.scale) - 1

\* Once stopped, nothing runs and no interrupt is left to start it: what is
\* freed after a stop is not read.
PvStopped == pvStop.step \in {"command", "stopped"} => ~pvDma.busy /\ ~pvIrq

\* Both channels are claimed while they are in use, and no other driver has
\* them.
PvOwns == pvHw.live /\ pvStop.step = "none" =>
              /\ {pvHw.pixel, pvHw.command} \subseteq pvClaimed \ pvOthers
              /\ pvHw.pixel # pvHw.command

PvSafe == PvReadsOwn /\ PvStopped /\ PvOwns

\* Not true of the code: with one channel free, a construction claims it, fails
\* and forgets it; each one that fails costs the board a channel.
PvNoLeak == pvStop = PvRest /\ ~pvHw.live => pvClaimed = {}
=============================================================================
