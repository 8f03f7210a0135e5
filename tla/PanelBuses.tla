----------------------------- MODULE PanelBuses -----------------------------
(***************************************************************************)
(* The buses displayif drives a panel by: first those that send as they    *)
(* are asked (SPI and 8080), then the quad SPI bus of the ESP32-S3, which  *)
(* queues. A program has one or the other.                                 *)
(***************************************************************************)
EXTENDS Naturals, Sequences, SequencesExt

(***************************************************************************)
(* The buses to a panel that has its own memory: SPI with or without a D/C *)
(* pin (mod_spibus.c), and the 8080 bus by the ESP32's LCD peripheral, the *)
(* RP2's PIO, the i.MX RT's FlexIO and the SAMD's pins (each mod_i80bus.c, *)
(* gpio_bitbang.c). send(command, data) goes over one to a panel that      *)
(* takes what it is clocked while it is selected.                          *)
(* External: SPI objects, esp_lcd, FlexIO's driver, PIO.                   *)
(***************************************************************************)

CONSTANTS PbBits,    \* bits of a byte
          PbBytes,   \* bytes that are sent
          PbLens,    \* lengths of the data
          PbDepth,   \* bytes the PIO's FIFO holds
          PbPinOf,   \* SAMD: the port's pin of each bit
          PbFirstOnes, \* whether what is sent may begin with 0xFF (SAMD)
          PbSlow,    \* whether the PIO's clock may be slower than the program
          PbLate,    \* whether a transfer ends after its second (ESP32)
          PbLeaky,   \* whether a construction may fail past what it claimed
          PbOld,     \* whether a program uses an object it has replaced
          PbMakes    \* bound: constructions

ASSUME PbAssumption ==
    /\ PbBits > 1 /\ PbBytes \subseteq 0 .. 2 ^ PbBits - 1 /\ DOMAIN PbPinOf = 0 .. PbBits - 1
    /\ PbLens \subseteq Nat

VARIABLES
    pbPort,   \* "spi", "spi9" (no D/C pin), "esp32", "rp2", "mimxrt" or "samd"
    pbObjs,   \* the object of each construction: "live", "deinited", "none"
    pbHw,     \* the constructions whose peripheral is claimed
    pbHost,   \* the one the statics name, 0 for none
    pbCall,   \* the send in hand: where it is, its object, command, data, and
              \* what is left to put into the FIFO
    pbPins,   \* [cs, dc, high]: the panel is selected, D/C, data pins that are high
    pbTuned,  \* the SPI peripheral has this bus's parameters
    pbFifo, pbOsr, \* PIO: bytes put and not pulled; the one pulled and not clocked
    pbDma,    \* esp_lcd: the bytes of the transfer it has queued
    pbDone,   \* s_color_done
    pbSeen    \* what the panel took since the send began: [dc, byte] each

pbVars == <<pbPort, pbObjs, pbHw, pbHost, pbCall, pbPins, pbTuned, pbFifo,
            pbOsr, pbDma, pbDone, pbSeen>>

PbNoCommand == 2 ^ PbBits
PbOnes == 2 ^ PbBits - 1
PbSpi == {"spi", "spi9"}
PbIdle == [at |-> "idle", obj |-> 0, cmd |-> PbNoCommand, data |-> <<>>, left |-> <<>>]

PbInit ==
    /\ pbPort \in PbSpi \cup {"esp32", "rp2", "mimxrt", "samd"}
    /\ pbObjs = <<>> /\ pbHw = {} /\ pbHost = 0 /\ pbCall = PbIdle
    /\ pbPins = [cs |-> FALSE, dc |-> 0, high |-> {}] /\ pbTuned = TRUE
    /\ pbFifo = <<>> /\ pbOsr = <<>> /\ pbDma = <<>> /\ pbDone = FALSE /\ pbSeen = <<>>

PbWire == <<pbPins, pbTuned, pbFifo, pbOsr, pbDma, pbDone, pbSeen>>
PbOwned == <<pbPort, pbObjs, pbHw, pbHost>>

---------------------------------------------------------------------------
(* Construction and its end *)

\* What stays claimed when the statics' own is given up.
PbTorn == pbHw \ {pbHost}

\* The objects are not told, but for SPI's, which is what the static points to.
PbToldOf(o) ==
    [p \in DOMAIN pbObjs |->
        IF p = o \/ (pbPort \in PbSpi /\ p = pbHost) THEN "deinited" ELSE pbObjs[p]]

\* esp_lcd's deletion waits for what it has queued.
PbGivesUp == pbCall = PbIdle /\ pbDma = <<>>

\* Where a constructor may raise once it has torn down what there was. The
\* statics are set at its end: these stages leave a claim nothing names.
PbForgets == {"sem", "io", "alloc", "pin"}
PbFailures ==
    CASE pbPort = "esp32" -> {"bus", "sem", "io", "buf"}
      [] pbPort = "rp2" -> {"alloc"}
      [] pbPort = "mimxrt" -> {"pins", "init"}
      [] pbPort = "samd" -> {"layout"}
      [] OTHER -> {"spi", "pin"}

\* The ESP32 has one LCD peripheral: a claim that was forgotten keeps it.
PbCanClaim == pbPort = "esp32" => PbTorn = {}

PbMakeFails(stage) ==
    LET n == Len(pbObjs) + 1
    IN  /\ PbGivesUp /\ n <= PbMakes /\ stage \in PbFailures
        /\ stage # "bus" => PbCanClaim
        /\ stage \in PbForgets => PbLeaky
        /\ pbObjs' = Append(PbToldOf(0), "none")
        /\ pbHw' = PbTorn \cup IF stage \in PbForgets \cup {"buf"} THEN {n} ELSE {}
        /\ pbHost' = IF stage = "buf" THEN n ELSE 0
        /\ pbDone' = (pbDone /\ stage \notin {"io", "buf"})
        /\ UNCHANGED <<pbPort, pbCall, pbPins, pbTuned, pbFifo, pbOsr, pbDma, pbSeen>>

PbMake ==
    LET n == Len(pbObjs) + 1
    IN  /\ PbGivesUp /\ n <= PbMakes /\ PbCanClaim
        /\ pbObjs' = Append(PbToldOf(0), "live")
        /\ IF pbPort = "samd" THEN UNCHANGED <<pbHw, pbHost>>
           ELSE pbHw' = PbTorn \cup {n} /\ pbHost' = n
        /\ pbPins' = [cs |-> FALSE, high |-> {}, dc |-> IF pbPort \in PbSpi THEN 1 ELSE 0]
        /\ pbTuned' = TRUE /\ pbDone' = FALSE
        /\ UNCHANGED <<pbPort, pbCall, pbFifo, pbOsr, pbDma, pbSeen>>

\* An object a program uses: the newest, or with PbOld one it has replaced.
\* SAMD's share nothing but the pins.
PbHas(o) == pbObjs[o] = "live" /\ (o = pbHost \/ pbPort = "samd" \/ PbOld)

\* Any object's deinit gives up what the statics name.
PbDeinit(o) ==
    /\ PbGivesUp /\ PbHas(o)
    /\ pbHw' = PbTorn /\ pbHost' = 0 /\ pbObjs' = PbToldOf(o)
    /\ UNCHANGED <<pbPort, pbCall, PbWire>>

PbSoftReset ==
    /\ PbGivesUp
    /\ pbHw' = PbTorn /\ pbHost' = 0 /\ pbObjs' = [o \in DOMAIN pbObjs |-> "none"]
    /\ UNCHANGED <<pbPort, pbCall, PbWire>>

\* Another device's driver sets the SPI peripheral for itself.
PbOthers ==
    /\ pbCall = PbIdle /\ pbPort \in PbSpi /\ pbTuned
    /\ pbTuned' = FALSE
    /\ UNCHANGED <<PbOwned, pbCall, pbPins, pbFifo, pbOsr, pbDma, pbDone, pbSeen>>

---------------------------------------------------------------------------
(* What the panel takes *)

\* The ESP32's peripheral selects it for each transfer.
PbTakes(dc, bytes) ==
    pbSeen' = IF pbPins.cs \/ pbPort = "esp32"
              THEN pbSeen \o [k \in DOMAIN bytes |-> [dc |-> dc, byte |-> bytes[k]]]
              ELSE pbSeen

\* The pins a byte is to raise, and the byte that pins are.
PbHigh(byte) == {PbPinOf[b] : b \in {c \in DOMAIN PbPinOf : (byte \div 2 ^ c) % 2 = 1}}
PbByteOf(high) == CHOOSE byte \in 0 .. PbOnes : PbHigh(byte) = high

\* The pins as each byte is clocked: they are written when a byte is not the
\* one before, and the first is compared with 0xFF, whatever is on the pins.
PbLines(bytes, pins) ==
    LET written(byte, now) == (now \cup PbHigh(byte)) \ (PbHigh(PbOnes) \ PbHigh(byte))
        line[k \in 0 .. Len(bytes)] ==
            IF k = 0 THEN pins
            ELSE IF bytes[k] = (IF k = 1 THEN PbOnes ELSE bytes[k - 1]) THEN line[k - 1]
            ELSE written(bytes[k], line[k - 1])
    IN  [k \in DOMAIN bytes |-> line[k]]

\* Without a D/C pin each byte goes out after its D/C bit, in words of PbBits:
\* what was left of a byte, the bit, and as much of the next as fits. The last
\* word is filled with zeroes.
PbWords(dc, bytes) ==
    LET before(k) == IF k = 1 THEN 0 ELSE bytes[k - 1]
        word(k, b) == (before(k) * 2 ^ (PbBits + 1 - b) + dc * 2 ^ (PbBits - b)
                       + bytes[k] \div 2 ^ b) % 2 ^ PbBits
        words == [k \in DOMAIN bytes |->
            IF k % PbBits = 0 THEN <<(before(k) * 2 + dc) % 2 ^ PbBits, bytes[k]>>
            ELSE <<word(k, k % PbBits)>>]
        left == Len(bytes) % PbBits
    IN  FlattenSeq(words)
        \o IF left = 0 THEN <<>> ELSE <<(Last(bytes) * 2 ^ (PbBits - left)) % 2 ^ PbBits>>

\* The panel reads frames of one bit more than a byte; what is left it drops
\* when it is deselected, as it is after a word with zeroes.
PbFrames(words) ==
    LET bits == FlattenSeq([w \in DOMAIN words |->
                    [k \in 1 .. PbBits |-> (words[w] \div 2 ^ (PbBits - k)) % 2]])
        value(s) == FoldLeft(LAMBDA sum, bit : 2 * sum + bit, 0, s)
    IN  [f \in 1 .. Len(bits) \div (PbBits + 1) |->
            LET frame == SubSeq(bits, (f - 1) * (PbBits + 1) + 1, f * (PbBits + 1))
            IN  [dc |-> frame[1], byte |-> value(Tail(frame))]]

---------------------------------------------------------------------------
(* send() *)

\* The SPI parameters are set again and the panel is selected.
PbSend(o, cmd, data) ==
    /\ pbCall = PbIdle /\ PbHas(o)
    /\ pbPort = "samd" /\ ~PbFirstOnes =>
           PbOnes \notin {cmd} \cup {data[k] : k \in DOMAIN data \cap {1}}
    /\ pbCall' = [PbIdle EXCEPT
           !.at = IF cmd # PbNoCommand THEN "cmd" ELSE IF data # <<>> THEN "data" ELSE "end",
           !.obj = o, !.cmd = cmd, !.data = data]
    /\ pbTuned' = TRUE /\ pbPins' = [pbPins EXCEPT !.cs = (pbPort # "esp32")]
    /\ UNCHANGED <<PbOwned, pbFifo, pbOsr, pbDma, pbDone, pbSeen>>

\* What is sent here, under which D/C, and where the send goes on.
PbDc == IF pbCall.at = "cmd" THEN 0 ELSE 1
PbNow == IF pbCall.at = "cmd" THEN <<pbCall.cmd>> ELSE pbCall.data
PbOn(at) == pbCall' = [pbCall EXCEPT !.at = at]
PbGoesOn ==
    PbOn(IF pbCall.at \in {"cmd", "cmdPuts"} /\ pbCall.data # <<>> THEN "data" ELSE "end")

\* A write that returns when it is out.
PbWrites ==
    /\ pbCall.at \in {"cmd", "data"}
    /\ \/ /\ pbPort \in {"spi", "mimxrt"}
          /\ PbTakes(PbDc, IF pbTuned THEN PbNow ELSE <<>>)
          /\ pbPins' = [pbPins EXCEPT !.dc = PbDc]
       \/ /\ pbPort = "spi9"
          /\ pbSeen' = pbSeen \o IF pbTuned THEN PbFrames(PbWords(PbDc, PbNow)) ELSE <<>>
          /\ UNCHANGED pbPins
       \/ /\ pbPort = "samd"
          /\ LET lines == PbLines(PbNow, pbPins.high)
             IN  /\ PbTakes(PbDc, [k \in DOMAIN lines |-> PbByteOf(lines[k])])
                 /\ pbPins' = [pbPins EXCEPT !.dc = PbDc, !.high = Last(lines)]
       \/ /\ pbPort = "esp32" /\ pbCall.at = "cmd" /\ pbDma = <<>>
          /\ PbTakes(0, PbNow) /\ UNCHANGED pbPins
    /\ PbGoesOn
    /\ UNCHANGED <<PbOwned, pbTuned, pbFifo, pbOsr, pbDma, pbDone>>

\* A command or data of the wrong type, or a transfer esp_lcd refuses: the
\* panel stays selected.
PbRaises ==
    /\ pbCall.at = "cmd" \/ (pbCall.at = "data" /\ pbPort \notin PbSpi)
    /\ pbCall' = PbIdle /\ pbSeen' = <<>>
    /\ UNCHANGED <<PbOwned, pbPins, pbTuned, pbFifo, pbOsr, pbDma, pbDone>>

\* esp_lcd queues the caller's buffer; the interrupt gives the semaphore.
PbQueues ==
    /\ pbPort = "esp32" /\ pbCall.at = "data" /\ pbDma = <<>>
    /\ pbDma' = pbCall.data /\ PbOn("waits")
    /\ UNCHANGED <<PbOwned, pbPins, pbTuned, pbFifo, pbOsr, pbDone, pbSeen>>

PbDmaEnds ==
    /\ pbDma # <<>> /\ (PbLate \/ pbCall.at = "waits")
    /\ pbDma' = <<>> /\ pbDone' = TRUE
    /\ PbTakes(1, pbDma)
    /\ UNCHANGED <<PbOwned, pbCall, pbPins, pbTuned, pbFifo, pbOsr>>

PbWaited ==
    /\ pbCall.at = "waits" /\ pbDone
    /\ pbDone' = FALSE /\ PbOn("end")
    /\ UNCHANGED <<PbOwned, pbPins, pbTuned, pbFifo, pbOsr, pbDma, pbSeen>>

\* A second without it. Behind a transfer that does not end, the next one's
\* second passes too. With PbLate the transfer ends all the same.
PbTimesOut ==
    /\ ~pbDone
    /\ pbCall.at = "waits" \/ (pbCall.at = "data" /\ pbDma # <<>>)
    /\ pbCall' = PbIdle /\ pbSeen' = <<>>
    /\ UNCHANGED <<PbOwned, pbPins, pbTuned, pbFifo, pbOsr, pbDma, pbDone>>

\* PIO: D/C is set and the FIFO cleared, the program or the DMA fills it, and
\* the send goes on when the state machine has pulled the last byte.
PbTransfers ==
    /\ pbPort = "rp2" /\ pbCall.at \in {"cmd", "data"}
    /\ pbFifo' = <<>> /\ pbPins' = [pbPins EXCEPT !.dc = PbDc]
    /\ pbCall' = [pbCall EXCEPT !.at = IF @ = "cmd" THEN "cmdPuts" ELSE "dataPuts", !.left = PbNow]
    /\ UNCHANGED <<PbOwned, pbTuned, pbOsr, pbDma, pbDone, pbSeen>>

PbPut ==
    /\ pbCall.left # <<>> /\ Len(pbFifo) < PbDepth
    /\ pbFifo' = Append(pbFifo, Head(pbCall.left))
    /\ pbCall' = [pbCall EXCEPT !.left = Tail(@)]
    /\ UNCHANGED <<PbOwned, pbPins, pbTuned, pbOsr, pbDma, pbDone, pbSeen>>

PbPull ==
    /\ pbFifo # <<>> /\ pbOsr = <<>>
    /\ pbOsr' = <<Head(pbFifo)>> /\ pbFifo' = Tail(pbFifo)
    /\ UNCHANGED <<PbOwned, pbCall, pbPins, pbTuned, pbDma, pbDone, pbSeen>>

PbOut ==
    /\ pbOsr # <<>> /\ pbOsr' = <<>>
    /\ PbTakes(pbPins.dc, pbOsr)
    /\ UNCHANGED <<PbOwned, pbCall, pbPins, pbTuned, pbFifo, pbDma, pbDone>>

PbDrained ==
    /\ pbCall.at \in {"cmdPuts", "dataPuts"} /\ pbCall.left = <<>>
    /\ pbFifo = <<>> /\ (PbSlow \/ pbOsr = <<>>)
    /\ PbGoesOn
    /\ UNCHANGED <<PbOwned, PbWire>>

PbEnds ==
    /\ pbCall.at = "end" /\ PbOn("said")
    /\ pbPins' = [pbPins EXCEPT !.cs = FALSE]
    /\ UNCHANGED <<PbOwned, pbTuned, pbFifo, pbOsr, pbDma, pbDone, pbSeen>>

PbReturns ==
    /\ pbCall.at = "said" /\ pbCall' = PbIdle /\ pbSeen' = <<>>
    /\ UNCHANGED <<PbOwned, pbPins, pbTuned, pbFifo, pbOsr, pbDma, pbDone>>

PbNext ==
    \/ PbMake \/ PbSoftReset \/ PbOthers
    \/ \E stage \in PbFailures : PbMakeFails(stage)
    \/ \E o \in DOMAIN pbObjs : PbDeinit(o)
    \/ \E o \in DOMAIN pbObjs, cmd \in PbBytes \cup {PbNoCommand}, len \in PbLens :
           \E data \in [1 .. len -> PbBytes] : PbSend(o, cmd, data)
    \/ PbWrites \/ PbRaises \/ PbQueues \/ PbDmaEnds \/ PbWaited \/ PbTimesOut
    \/ PbTransfers \/ PbPut \/ PbPull \/ PbOut \/ PbDrained \/ PbEnds \/ PbReturns

PbSpec == PbInit /\ [][PbNext]_pbVars

---------------------------------------------------------------------------
(* Properties *)

\* When send() returns, the panel has taken the command with D/C low and then
\* the data with D/C high, each byte once, whatever carries them.
PbSaid ==
    pbCall.at = "said" =>
        pbSeen = (IF pbCall.cmd = PbNoCommand THEN <<>> ELSE <<[dc |-> 0, byte |-> pbCall.cmd]>>)
                 \o [k \in DOMAIN pbCall.data |-> [dc |-> 1, byte |-> pbCall.data[k]]]

\* The transfer that is queued reads the buffer of the send that waits for it,
\* none of a send's data is on its way when it returns, and none of its bytes wait
\* to be clocked when it raises.
PbOurs ==
    /\ pbCall.at = "waits" /\ pbDma # <<>> => pbDma = pbCall.data
    /\ pbCall.at = "said" /\ pbCall.data # <<>> => pbDma = <<>>
    /\ pbCall.at \in {"idle", "said"} => pbFifo = <<>> /\ pbOsr = <<>>

\* Between calls the only peripheral that is claimed is the one the statics
\* name, so that the next constructor, deinit() or soft reset gives it up.
PbHeld == pbCall = PbIdle => pbHw \subseteq {pbHost}

\* An object that is live and in use has its peripheral.
PbBacked == pbCall.at # "idle" /\ pbPort # "samd" => pbCall.obj \in pbHw

\* Between calls the panel is not selected. Not so once a send has raised.
PbDeselected == pbCall = PbIdle => ~pbPins.cs

\* Ports that send a byte whole. The others code it: a bit for D/C before it, or
\* its bits as pins set and cleared.
PbPlain == pbPort \notin {"spi9", "samd"}

\* What a program that uses its newest bus relies on.
PbSafe == (PbPlain => PbSaid) /\ PbOurs /\ PbHeld /\ PbBacked

\* The two codings carry it too.
PbCodes == ~PbPlain => PbSaid

(***************************************************************************)
(* The ESP32-S3's quad SPI bus to a panel (mod_qspibus.c): a command is    *)
(* held back until its data, or the lack of it, is known; pixels are       *)
(* copied into two DMA buffers in turn and queued, the first under RAMWR   *)
(* and the rest under RAMWRC; a counting semaphore the interrupt gives     *)
(* tells how many are out. Each call is the list of what it does in order. *)
(* External: esp_lcd, which lets what is queued go out before a command,   *)
(* and every transfer of pixels begins with one.                           *)
(***************************************************************************)

CONSTANTS QbCommands, \* commands other than the two for pixels
          QbChunks,   \* bound: buffers' worth of pixels in a call
          QbErrs,     \* whether a transfer of send() may fail
          QbLate      \* whether what took its second ends after it

ASSUME QbAssumption == QbCommands \cap {"RAMWR", "RAMWRC", "DISPOFF", "SLPIN"} = {}

VARIABLES
    qbObj,      \* "none", "live" or "deinited"; s_active is the live one
    qbPending,  \* pending_command, or QbNone
    qbIn,       \* in_transaction
    qbActive,   \* active_buffer
    qbInflight, \* inflight_transfers; transfer_in_progress is whether there are any
    qbSem,      \* transfer_done_sem, of at most two
    qbBuf,      \* the two buffers
    qbQueue,    \* esp_lcd's: [cmd, buf]
    qbDo,       \* what the call in hand has still to do
    qbThen,     \* what is made once a bus is gone
    qbTurn,     \* tells one call's pixels from the last one's
    qbDead,     \* a transfer took more than its second and will not end
    qbDue,      \* what the panel is still to be told
    qbGood      \* all it was told was due, in that order

qbVars == <<qbObj, qbPending, qbIn, qbActive, qbInflight, qbSem, qbBuf, qbQueue,
            qbDo, qbThen, qbTurn, qbDead, qbDue, qbGood>>

QbNone == "none"
QbPixels == {"RAMWR", "RAMWRC"}
QbAll == QbCommands \cup QbPixels
QbNoData == <<0, 0>>

QbInit ==
    /\ qbObj = "none" /\ qbPending = QbNone /\ qbIn = FALSE /\ qbActive = 0
    /\ qbInflight = 0 /\ qbSem = 0 /\ qbBuf = [b \in {0, 1} |-> QbNoData] /\ qbQueue = <<>>
    /\ qbDo = <<>> /\ qbThen = "stay" /\ qbTurn = 0
    /\ qbDead = FALSE /\ qbDue = <<>> /\ qbGood = TRUE

QbIdle == qbDo = <<>>
QbTransfers == <<qbActive, qbInflight, qbSem, qbBuf, qbQueue>>
QbPanel == <<qbDead, qbDue, qbGood>>

---------------------------------------------------------------------------
(* What each call does *)

QbDoes(what) == [do |-> what, cmd |-> QbNone, data |-> QbNoData]
QbParam(cmd, data) == [do |-> "param", cmd |-> cmd, data |-> data]

\* A command that was held goes alone, if one was.
QbFlush == IF qbPending = QbNone THEN <<>> ELSE <<QbParam(qbPending, QbNoData)>>
QbFlushed == IF qbPending = QbNone THEN <<>> ELSE QbFlush \o <<QbDoes("clear")>>

\* Pixels in chunks: the first under the command given, the rest continue.
QbColor(cmd, chunks) ==
    <<QbDoes("drain")>>
    \o [k \in 1 .. chunks |-> [do |-> "copy", data |-> <<qbTurn, k>>,
                               cmd |-> IF k = 1 THEN cmd ELSE "RAMWRC"]]
QbData(cmd, chunks) ==
    IF cmd \in QbPixels /\ chunks > 0 THEN QbColor(cmd, chunks)
    ELSE <<QbParam(cmd, <<qbTurn, chunks>>)>>

\* What the program means the panel to be told.
QbAlone(cmd) == [cmd |-> cmd, data |-> QbNoData]
QbHeldOne == IF qbPending = QbNone THEN <<>> ELSE <<QbAlone(qbPending)>>
QbMeant(cmd, chunks) ==
    IF cmd \in QbPixels /\ chunks > 0
    THEN [k \in 1 .. chunks |-> [cmd |-> IF k = 1 THEN cmd ELSE "RAMWRC", data |-> <<qbTurn, k>>]]
    ELSE <<[cmd |-> cmd, data |-> <<qbTurn, chunks>>]>>

QbStarts(script, then, meant) ==
    /\ QbIdle /\ qbObj = "live" /\ script # <<>>
    /\ qbDo' = script /\ qbDue' = qbDue \o meant
    /\ qbThen' = then /\ qbTurn' = 1 - qbTurn
    /\ UNCHANGED <<qbObj, qbPending, qbIn, QbTransfers, qbDead, qbGood>>

QbSend(cmd, chunks) ==
    QbStarts(QbFlushed \o <<QbDoes("begin"), [QbDoes("hold") EXCEPT !.cmd = cmd]>>
             \o QbData(cmd, chunks) \o <<QbDoes("clear"), QbDoes("end")>>,
             "stay", QbHeldOne \o QbMeant(cmd, chunks))

QbWriteCommand(cmd) ==
    /\ ~qbIn
    /\ QbStarts(QbFlush \o <<[QbDoes("hold") EXCEPT !.cmd = cmd]>>, "stay", QbHeldOne)

QbWriteData(chunks) ==
    /\ ~qbIn /\ qbPending # QbNone
    /\ QbStarts(QbData(qbPending, chunks)
                \o (IF qbPending \in QbPixels /\ chunks > 0 THEN <<QbDoes("all")>> ELSE <<>>)
                \o <<QbDoes("clear")>>, "stay", QbMeant(qbPending, chunks))

\* The panel is put to sleep, then the bus and the buffers are given up:
\* deinit(), a new bus or a soft reset.
QbDeinit(then) ==
    QbStarts(<<QbDoes("rest")>> \o QbFlushed
             \o <<QbParam("DISPOFF", QbNoData), QbParam("SLPIN", QbNoData), QbDoes("gone")>>,
             then, QbHeldOne \o <<QbAlone("DISPOFF"), QbAlone("SLPIN")>>)

\* The semaphore, the buffers, the bus and the panel IO, or none of them.
QbFresh(obj) ==
    /\ qbObj' = obj /\ qbPending' = QbNone /\ qbIn' = FALSE
    /\ qbActive' = 0 /\ qbInflight' = 0 /\ qbSem' = 0
    /\ qbBuf' = [b \in {0, 1} |-> QbNoData]

QbMake ==
    /\ QbIdle /\ qbObj # "live"
    /\ \E obj \in {"live", "none"} : QbFresh(obj)
    /\ UNCHANGED <<qbQueue, qbDo, qbThen, qbTurn, QbPanel>>

QbGone ==
    /\ qbDo # <<>> /\ Head(qbDo).do = "gone"
    /\ QbFresh(IF qbThen = "make" THEN "live" ELSE IF qbThen = "reset" THEN "none" ELSE "deinited")
    /\ qbDo' = <<>> /\ qbThen' = "stay"
    /\ UNCHANGED <<qbQueue, qbTurn, QbPanel>>

---------------------------------------------------------------------------
(* The steps *)

QbAt(what) == qbDo # <<>> /\ Head(qbDo).do \in what
QbPops == qbDo' = Tail(qbDo) /\ UNCHANGED <<qbObj, qbThen, qbTurn>>
QbStays == UNCHANGED <<qbObj, qbThen, qbTurn, qbDo>>
QbTells(item) ==
    /\ qbGood' = (qbGood /\ qbDue # <<>> /\ item = Head(qbDue))
    /\ qbDue' = IF qbDue = <<>> THEN <<>> ELSE Tail(qbDue)

\* Whether the step waits for the semaphore: both buffers are out, or all of
\* them are to be back.
QbWaits ==
    \/ QbAt({"param", "copy"}) /\ qbInflight >= 2
    \/ QbAt({"all", "rest", "begin"}) /\ qbInflight > 0

QbWaitOne ==
    /\ QbWaits /\ qbSem > 0
    /\ qbSem' = qbSem - 1 /\ qbInflight' = qbInflight - 1
    /\ QbStays /\ UNCHANGED <<qbPending, qbIn, qbActive, qbBuf, qbQueue, QbPanel>>

\* A second passes. begin_transaction() is called again, deinit() goes on, and
\* the others raise and leave in_transaction and the command as they are.
QbTimesOut ==
    /\ QbWaits /\ qbSem = 0
    /\ qbInflight' = 0 /\ qbSem' = 0 /\ qbDead' = ~QbLate
    /\ IF QbAt({"rest", "begin"}) THEN UNCHANGED <<qbDo, qbDue>> ELSE qbDo' = <<>> /\ qbDue' = <<>>
    /\ UNCHANGED <<qbObj, qbThen, qbTurn, qbPending, qbIn, qbActive, qbBuf, qbQueue, qbGood>>

QbParamGoes ==
    /\ QbAt({"param"}) /\ ~QbWaits /\ qbQueue = <<>>
    /\ QbTells([cmd |-> Head(qbDo).cmd, data |-> Head(qbDo).data])
    /\ QbPops /\ UNCHANGED <<qbPending, qbIn, QbTransfers, qbDead>>

QbCopies ==
    /\ QbAt({"copy"}) /\ ~QbWaits
    /\ qbBuf' = [qbBuf EXCEPT ![qbActive] = Head(qbDo).data]
    /\ qbDo' = <<[Head(qbDo) EXCEPT !.do = "tx"]>> \o Tail(qbDo)
    /\ UNCHANGED <<qbObj, qbThen, qbTurn, qbPending, qbIn, qbActive, qbInflight, qbSem,
                   qbQueue, QbPanel>>

QbQueues ==
    /\ QbAt({"tx"}) /\ qbQueue = <<>>
    /\ qbQueue' = <<[cmd |-> Head(qbDo).cmd, buf |-> qbActive]>>
    /\ qbInflight' = qbInflight + 1 /\ qbActive' = 1 - qbActive
    /\ QbPops /\ UNCHANGED <<qbPending, qbIn, qbSem, qbBuf, QbPanel>>

\* esp_lcd refuses a transfer, once what was queued is out. deinit() goes on.
QbFails ==
    /\ QbAt({"param", "tx"}) /\ ~QbWaits /\ qbQueue = <<>>
    /\ (\E k \in DOMAIN qbDo : qbDo[k].do = "end") => QbErrs
    /\ \A k \in DOMAIN qbDo : qbDo[k].do # "gone"
    /\ qbInflight' = 0 /\ qbSem' = 0 /\ qbDo' = <<>> /\ qbDue' = <<>>
    /\ UNCHANGED <<qbObj, qbThen, qbTurn, qbPending, qbIn, qbActive, qbBuf, qbQueue, qbDead, qbGood>>

\* The rest of a call: the transaction, the command held, the counts.
QbDrain ==
    /\ QbAt({"drain"}) /\ qbSem' = IF qbInflight = 0 THEN 0 ELSE qbSem
    /\ QbPops /\ UNCHANGED <<qbPending, qbIn, qbActive, qbInflight, qbBuf, qbQueue, QbPanel>>

QbRest ==
    /\ QbAt({"all", "rest"}) /\ ~QbWaits
    /\ QbPops /\ UNCHANGED <<qbPending, qbIn, QbTransfers, QbPanel>>

QbBegin ==
    /\ QbAt({"begin"}) /\ ~QbWaits /\ ~qbIn /\ qbPending = QbNone
    /\ qbIn' = TRUE
    /\ QbPops /\ UNCHANGED <<qbPending, QbTransfers, QbPanel>>

QbHold ==
    /\ QbAt({"hold", "clear"}) /\ qbPending' = Head(qbDo).cmd
    /\ QbPops /\ UNCHANGED <<qbIn, QbTransfers, QbPanel>>

QbEnd ==
    /\ QbAt({"end"}) /\ qbIn' = FALSE
    /\ QbPops /\ UNCHANGED <<qbPending, QbTransfers, QbPanel>>

\* A transfer is out: the panel has what the buffer held, the semaphore is given.
QbDone ==
    /\ qbQueue # <<>> /\ ~qbDead
    /\ QbTells([cmd |-> Head(qbQueue).cmd, data |-> qbBuf[Head(qbQueue).buf]])
    /\ qbQueue' = Tail(qbQueue)
    /\ qbSem' = IF qbSem = 2 THEN 2 ELSE qbSem + 1
    /\ QbStays /\ UNCHANGED <<qbPending, qbIn, qbActive, qbInflight, qbBuf, qbDead>>

QbNext ==
    \/ \E cmd \in QbAll, chunks \in 0 .. QbChunks : QbSend(cmd, chunks)
    \/ \E cmd \in QbAll : QbWriteCommand(cmd)
    \/ \E chunks \in 0 .. QbChunks : QbWriteData(chunks)
    \/ \E then \in {"stay", "make", "reset"} : QbDeinit(then)
    \/ QbMake \/ QbGone
    \/ QbWaitOne \/ QbTimesOut \/ QbParamGoes \/ QbCopies \/ QbQueues \/ QbFails
    \/ QbDrain \/ QbRest \/ QbBegin \/ QbHold \/ QbEnd \/ QbDone

QbSpec == QbInit /\ [][QbNext]_qbVars

---------------------------------------------------------------------------
(* Properties *)

\* The panel is told what the calls say, once and in that order, whatever the
\* copies, the queue and the interrupt make of it: each chunk goes out as it
\* was copied, the first under RAMWR, and a held command before what follows.
QbSaid == qbGood /\ (QbIdle /\ qbQueue = <<>> => qbDue = <<>>)

\* What is counted as out is what esp_lcd has or has given back, so that the
\* wait for the last one ends when it is out.
QbCounts == ~qbDead /\ qbObj = "live" /\ ~QbAt({"gone"}) => qbInflight = Len(qbQueue) + qbSem

\* Nothing is queued from buffers that were given up, or with an interrupt that
\* would not find its object.
QbHeld == qbQueue # <<>> => qbObj = "live" \/ qbDead

\* A bus that no call is using is not in a transaction, in which the next
\* send() would wait for ever.
QbFree == QbIdle => ~qbIn \/ qbDead

QbSafe == QbSaid /\ QbCounts /\ QbHeld /\ QbFree
=============================================================================
