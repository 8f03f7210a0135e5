----------------------------- MODULE I2sChannel -----------------------------
(***************************************************************************)
(* The ESP32's I2S channel, which an output (audiobusio.I2SOut) and a      *)
(* recorder (audioi2sin.I2SIn, _audioif.rx_open) may share: two halves of  *)
(* one channel pair on one clock, or two channels on pins of their own.    *)
(* A handler of the interpreter is one step, but for play(), which closes  *)
(* the channel and reopens it at the sample's rate; the pump, a thread of  *)
(* its own, takes the TX handle and uses it in two.                        *)
(***************************************************************************)
EXTENDS Naturals

CONSTANTS IcRates,     \* the sample rates asked for
          IcBits,      \* the slot widths a recorder asks for; 16 is an output's
          IcNull,      \* no handle, no object
          IcLateJoins  \* whether a pump may outlast the five seconds of a join

VARIABLES
    icCh,    \* the channel: what _audioif.c keeps about it
    icOut,   \* the I2SOut object, or IcNull
    icPump,  \* the pump: "off", "run", or "write" with a TX handle in hand
    icDo,    \* the interpreter: idle, or between play()'s close and its open
    icBy     \* whose call the last step was

icVars == <<icCh, icOut, icPump, icDo, icBy>>

IcWire == [pins : {"a", "b"}, dout : BOOLEAN, din : BOOLEAN, rate : IcRates,
         bits : IcBits, ch : {1, 2}]
IcOutput == [wire : IcWire, rate : IcRates, playing : BOOLEAN]

ASSUME IcAssumption == IcNull \notin IcWire \cup IcOutput

\* tx, rx: the handles, each with the wire it was opened on. cap: the ring.
IcInit ==
    /\ icCh = [tx |-> IcNull, rx |-> IcNull, holds |-> {}, alone |-> FALSE,
               live |-> IcNull, rxLive |-> IcNull, cap |-> FALSE]
    /\ icOut = IcNull /\ icPump = "off" /\ icDo = "idle" /\ icBy = "none"

---------------------------------------------------------------------------
(* What _audioif.c does to the channel, as operators on its record. *)

IcClose(c) == [c EXCEPT !.cap = FALSE, !.holds = {}, !.rx = IcNull, !.tx = IcNull,
                        !.alone = FALSE]
IcCloseTx(c) == [c EXCEPT !.tx = IcNull]
IcCloseRxAlone(c) == [c EXCEPT !.rx = IF c.alone THEN IcNull ELSE @, !.alone = FALSE]

\* audiopump_i2s_check_join: the same pins, rate, width and slots.
IcJoins(c, want, wantRx) ==
    /\ want.pins = c.live.pins
    /\ (want.dout => c.live.dout) /\ (want.din => c.live.din)
    /\ wantRx => c.live.din
    /\ want.rate = c.live.rate /\ want.bits = c.live.bits /\ want.ch = c.live.ch

\* Mutant: a failure closes the recorder's channel too.
IcOpenFailedAll(c) == IcClose(c)

IcOpenFailed(c) == IF c.alone THEN IcCloseTx(c) ELSE IcClose(c)

\* ok is FALSE where any of the driver's calls refuses, at whatever point.
IcOpenRaw(c, cfg, ok) ==
    IF ok THEN [c EXCEPT !.tx = cfg, !.rx = IF cfg.din THEN cfg ELSE @, !.live = cfg]
          ELSE IcOpenFailed([c EXCEPT !.tx = cfg, !.rx = IF cfg.din THEN cfg ELSE @])

\* What audiopump_i2s_open may come to: the channel, and whether it returned.
IcOpens(c, cfg) ==
    IF c.tx # IcNull
    THEN IF "out" \in c.holds \/ ~IcJoins(c, cfg, FALSE)
         THEN {[ch |-> c, ok |-> FALSE]}
         ELSE {[ch |-> [c EXCEPT !.holds = @ \cup {"out"}], ok |-> TRUE]}
    ELSE IF c.alone /\ (cfg.pins = c.rxLive.pins \/ cfg.din)
    THEN {[ch |-> c, ok |-> FALSE]}
    ELSE {[ch |-> IcOpenRaw(c, cfg, FALSE), ok |-> FALSE],
          [ch |-> [IcOpenRaw(c, cfg, TRUE) EXCEPT
                      !.holds = (IF c.alone THEN @ ELSE {}) \cup {"out"}],
           ok |-> TRUE]}

IcShutdown(c) ==
    LET left == [c EXCEPT !.holds = @ \ {"out"}]
    IN IF left.holds = {} THEN IcClose(left)
       ELSE IF left.alone THEN IcCloseTx(left) ELSE left

IcOpenRxOnly(c, cfg, ok) ==
    IF ok THEN [c EXCEPT !.rx = cfg, !.alone = TRUE, !.rxLive = cfg]
          ELSE [c EXCEPT !.rx = IcNull]

\* audiopump_i2s_rx_begin: the channels it may leave, failures included.
IcRxBegins(c, cfg) ==
    LET join == c.tx # IcNull /\ c.rx # IcNull /\ ~c.alone
        pair == ~join /\ c.tx = IcNull /\ cfg.dout
        refused == \/ "in" \in c.holds
                   \/ c.tx # IcNull /\ ~join /\ (cfg.dout \/ cfg.pins = c.live.pins)
                   \/ join /\ ~IcJoins(c, cfg, TRUE)
        ringed == [c EXCEPT !.cap = TRUE]
        Opened(ok) == IF pair THEN IcOpenRaw(ringed, cfg, ok)
                              ELSE IcOpenRxOnly(ringed, cfg, ok)
    IN IF refused THEN {c}
       ELSE IF join THEN {c, [ringed EXCEPT !.holds = @ \cup {"in"}]}
       ELSE {c, [Opened(FALSE) EXCEPT !.cap = FALSE],
             [Opened(TRUE) EXCEPT !.holds = @ \cup {"in"}]}

IcRxEnd(c) ==
    LET ended == [c EXCEPT !.cap = FALSE, !.holds = @ \ {"in"}]
        left == IF c.alone THEN IcCloseRxAlone(ended) ELSE ended
    IN IF "in" \notin c.holds THEN c
       ELSE IF left.holds = {} THEN IcClose(left) ELSE left

IcInputHeld(c) == "in" \in c.holds /\ ~c.alone

---------------------------------------------------------------------------
(* audiobusio.I2SOut *)

\* The constructor: one output object, and the channel opened at once.
IcMakeOut(cfg) ==
    /\ icDo = "idle" /\ icOut = IcNull
    /\ \E res \in IcOpens(icCh, cfg) :
          /\ icCh' = res.ch
          /\ icOut' = IF res.ok THEN [wire |-> cfg, rate |-> cfg.rate, playing |-> FALSE]
                                ELSE IcNull
    /\ icBy' = "out"
    /\ UNCHANGED <<icPump, icDo>>

\* audiobusio_halt: stop, and a join whose answer is not looked at.
IcHalts == IF icOut.playing
           THEN {"off"} \cup IF IcLateJoins THEN {icPump} ELSE {}
           ELSE {icPump}

IcDeinit ==
    /\ icDo = "idle" /\ icOut # IcNull
    /\ icPump' \in IcHalts
    /\ icCh' = IcShutdown(icCh)
    /\ icOut' = IcNull
    /\ icBy' = "out"
    /\ UNCHANGED icDo

IcStopPlaying ==
    /\ icDo = "idle" /\ icOut # IcNull
    /\ icPump' \in IcHalts
    /\ icOut' = [icOut EXCEPT !.playing = FALSE]
    /\ icBy' = "out"
    /\ UNCHANGED <<icCh, icDo>>

\* A mono channel for a mono sample, unless a microphone shares the wire.
IcStereoLocked == icOut.wire.din \/ IcInputHeld(icCh)
IcWantChannels(direct, ch) == IF direct /\ ~(IcStereoLocked /\ ch # 2) THEN ch ELSE 2

\* play(): refused while a recorder is on this clock at another rate; else
\* what played stops, and a sample of another rate or slot count closes it.
IcPlay(rate, direct, ch) ==
    LET want == IcWantChannels(direct, ch)
        retune == rate # icOut.rate \/ want # icOut.wire.ch
    IN /\ icDo = "idle" /\ icOut # IcNull
       /\ ~(IcInputHeld(icCh) /\ rate # icOut.rate)
       /\ icPump' \in IcHalts
       /\ IF retune
          THEN /\ icCh' = IcShutdown(icCh)
               /\ icOut' = [icOut EXCEPT !.playing = FALSE, !.wire.rate = rate,
                                         !.wire.ch = want]
               /\ icDo' = "retune"
          ELSE /\ icOut' = [icOut EXCEPT !.playing = FALSE]
               /\ icDo' = "spawn"
               /\ UNCHANGED icCh
       /\ icBy' = "out"

\* ... and opens it again. An open that raises leaves play(), half done.
IcRetune ==
    /\ icDo = "retune"
    /\ \E res \in IcOpens(icCh, icOut.wire) :
          /\ icCh' = res.ch
          /\ icDo' = IF res.ok THEN "spawn" ELSE "idle"
          /\ icOut' = IF res.ok THEN [icOut EXCEPT !.rate = icOut.wire.rate] ELSE icOut
    /\ icBy' = "out"
    /\ UNCHANGED icPump

\* The engine refuses a second pump, and a sink that is not ready.
IcSpawn ==
    LET starts == icPump = "off" /\ icCh.tx # IcNull
    IN /\ icDo = "spawn"
       /\ icDo' = "idle"
       /\ icPump' = IF starts THEN "run" ELSE icPump
       /\ icOut' = [icOut EXCEPT !.playing = starts]
       /\ icBy' = "out"
       /\ UNCHANGED icCh

\* A read of `playing`, once the sample has run out: the thread is given back.
IcReap ==
    /\ icDo = "idle" /\ icOut # IcNull /\ icOut.playing /\ icPump = "off"
    /\ icOut' = [icOut EXCEPT !.playing = FALSE]
    /\ icBy' = "out"
    /\ UNCHANGED <<icCh, icPump, icDo>>

(* The recorder *)

IcRecord(cfg) ==
    /\ icDo = "idle"
    /\ icCh' \in IcRxBegins(icCh, cfg)
    /\ icBy' = "rec"
    /\ UNCHANGED <<icOut, icPump, icDo>>

IcRecordEnds ==
    /\ icDo = "idle" /\ "in" \in icCh.holds
    /\ icCh' = IcRxEnd(icCh)
    /\ icBy' = "rec"
    /\ UNCHANGED <<icOut, icPump, icDo>>

\* _audioif.i2s_stop(): everything goes, whoever held it. A program that has
\* an I2SOut object has deinit() instead.
IcStop ==
    /\ icDo = "idle" /\ icOut = IcNull
    /\ icCh' = IcClose(icCh)
    /\ icBy' = "stop"
    /\ UNCHANGED <<icOut, icPump, icDo>>

(* The pump's thread: audiopump_sink_write *)

IcPumpTakes ==
    /\ icPump = "run" /\ icCh.tx # IcNull
    /\ icPump' = "write" /\ icBy' = "pump"
    /\ UNCHANGED <<icCh, icOut, icDo>>

\* The write is done: another block follows, or the sample has ended.
IcPumpWrote ==
    /\ icPump = "write"
    /\ icPump' \in {"run", "off"} /\ icBy' = "pump"
    /\ UNCHANGED <<icCh, icOut, icDo>>

IcNext ==
    \/ \E cfg \in IcWire : cfg.dout /\ cfg.bits = 16 /\ cfg.ch = 2 /\ IcMakeOut(cfg)
    \/ IcDeinit \/ IcStopPlaying \/ IcRetune \/ IcSpawn \/ IcReap
    \/ \E rate \in IcRates, direct \in BOOLEAN, ch \in {1, 2} : IcPlay(rate, direct, ch)
    \/ \E cfg \in IcWire : cfg.din /\ cfg.ch = 2 /\ (cfg.dout => cfg.bits = 16)
                       /\ IcRecord(cfg)
    \/ IcRecordEnds \/ IcStop \/ IcPumpTakes \/ IcPumpWrote

IcSpec == IcInit /\ [][IcNext]_icVars

---------------------------------------------------------------------------
(* Properties *)

\* A hold is always on something open, and what nobody holds is closed: a
\* failed open, a close half way and a rejoin leak no handle and no ring.
\* (_audioif.c:980-992, every path that sets or clears a hold)
IcHoldsAreOpen ==
    /\ "out" \in icCh.holds => icCh.tx # IcNull
    /\ "in" \in icCh.holds => icCh.rx # IcNull /\ icCh.cap
    /\ icCh.holds = {} => icCh.tx = IcNull /\ icCh.rx = IcNull /\ ~icCh.cap

\* Both on one clock run at one rate and slot count, and the rate is what the
\* output believes: no retune moved a microphone's rate. (audiobusio.c:198-215)
IcOneClock ==
    IcInputHeld(icCh) /\ icCh.tx # IcNull
      => /\ icCh.rx = icCh.tx /\ icCh.tx.ch = 2
         /\ "out" \in icCh.holds => icOut.rate = icCh.rx.rate

\* The port's two halves: what is held, open and clocked agree.
IcSafe == IcHoldsAreOpen /\ IcOneClock

\* The port is shared. Its halves agree; and neither takes it from the other:
\* nothing the output's object does, retuning and failing to open included,
\* touches a recording, and a recorder arriving, failing or leaving touches
\* nothing of an output. (_audioif.c:1576-1584, 2004-2016, 2971-2983;
\* audiobusio.c's play)
IcShared ==
    [][ /\ IcSafe'
        /\ "in" \in icCh.holds /\ icBy' = "out"
           => "in" \in icCh'.holds /\ icCh'.rx = icCh.rx /\ icCh'.cap
        /\ "out" \in icCh.holds /\ icBy' = "rec"
           => "out" \in icCh'.holds /\ icCh'.tx = icCh.tx ]_icVars
=============================================================================
