------------------------------ MODULE BtAudio -------------------------------
(***************************************************************************)
(* btaudio, a Bluetooth speaker: first the ring its sound comes through,   *)
(* then the link, that is what the two ends know of each other's volume,   *)
(* song and state. One thread starts, reads and stops both; the two share  *)
(* no lock and no word, and each counts its own starts.                    *)
(***************************************************************************)
EXTENDS Integers, Sequences

(***************************************************************************)
(* btaudio's ring of decoded frames: Bluedroid's task writes it in the     *)
(* A2DP data callback, btaudio_read() reads it, and the stream's callbacks *)
(* ask for it to start over from empty. One thread starts, reads and       *)
(* stops. The positions are words; a frame is its number, counted from the *)
(* first.                                                                  *)
(***************************************************************************)

CONSTANTS
    BtCapacity,     \* frames the ring holds
    BtWord,         \* 2^32
    BtPackets,      \* lengths of the packets that arrive
    BtReads,        \* lengths of the reads
    BtSlow,         \* whether a callback may outlast stop()'s 50 ms
    BtMax, BtEvents, BtStarts   \* bounds: frames, stream events, starts

ASSUME BtAssumption ==
    /\ BtCapacity \in Nat \ {0} /\ BtWord \in Nat \ {0} /\ BtWord > BtCapacity
    /\ BtPackets \subseteq Nat \ {0} /\ BtReads \subseteq Nat \ {0}
    /\ {BtMax, BtEvents, BtStarts} \subseteq Nat

VARIABLES
    btRing,         \* s.ring: the frame in each place; <<>> while there is none
    btWrite, btRead,    \* write_pos, read_pos
    btReset, btRunning, \* reset, running
    btLife,         \* "off", "on", "stopping"; s_started is "on"
    btTask,         \* the data callback: "idle", "writes" or "publishes"; wp, n
    btPy,           \* the reader: its place, frames asked, rp, take, adjust,
                    \* and the newest frame there was when a stream last changed
    btPut,          \* history: frames accepted
    btOld,          \* history: those accepted before the last stream event
    btGave,         \* history: the frames the last read gave, and its length
    btCount         \* [events, starts], for the bounds

btVars == <<btRing, btWrite, btRead, btReset, btRunning, btLife, btTask, btPy,
            btPut, btOld, btGave, btCount>>

BtRest == [at |-> "idle", len |-> 0, rp |-> 0, take |-> 0, adjust |-> 0, old |-> 0]
BtIdle == [at |-> "idle", wp |-> 0, n |-> 0]
BtNothing == [frames |-> <<>>, old |-> 0]

BtInit ==
    /\ btRing = <<>> /\ btWrite = 0 /\ btRead = 0
    /\ btReset = FALSE /\ btRunning = FALSE /\ btLife = "off"
    /\ btTask = BtIdle /\ btPy = BtRest
    /\ btPut = 0 /\ btOld = 0 /\ btGave = BtNothing
    /\ btCount = [events |-> 0, starts |-> 0]

BtMin(a, b) == IF a < b THEN a ELSE b
BtAdd(pos, n) == (pos + n) % BtWord
BtBetween(from, to) == (to - from) % BtWord
BtPlace(pos, i) == BtAdd(pos, i) % BtCapacity
-----------------------------------------------------------------------------
\* start and stop

\* btaudio_start, with the ring to be had: everything is zeroed.
BtStart ==
    /\ btLife = "off" /\ btCount.starts < BtStarts
    /\ btLife' = "on" /\ btCount' = [btCount EXCEPT !.starts = @ + 1]
    /\ btRing' = [i \in 0..BtCapacity - 1 |-> 0]
    /\ btWrite' = 0 /\ btRead' = 0 /\ btReset' = FALSE /\ btRunning' = FALSE
    /\ btPut' = 0 /\ btOld' = 0 /\ btGave' = BtNothing
    /\ UNCHANGED <<btTask, btPy>>

\* btaudio_stop shuts Bluetooth down: no callback begins any more.
BtStop ==
    /\ btLife = "on" /\ btPy.at = "idle" /\ btLife' = "stopping"
    /\ UNCHANGED <<btRing, btWrite, btRead, btReset, btRunning, btTask, btPy,
                   btPut, btOld, btGave, btCount>>

\* "Bluedroid's task may still be finishing a callback that writes the ring":
\* after 50 ms it is freed.
BtFree ==
    /\ btLife = "stopping" /\ (BtSlow \/ btTask.at = "idle")
    /\ btLife' = "off" /\ btRing' = <<>>
    /\ UNCHANGED <<btWrite, btRead, btReset, btRunning, btTask, btPy, btPut,
                   btOld, btGave, btCount>>
-----------------------------------------------------------------------------
\* Bluedroid's task

\* a2d_cb: the link or the stream goes, or the stream's format changes.
BtStreamEvent ==
    /\ btLife = "on" /\ btTask.at = "idle"
    /\ btCount.events < BtEvents /\ btCount' = [btCount EXCEPT !.events = @ + 1]
    /\ btReset' = TRUE /\ btOld' = btPut
    /\ UNCHANGED <<btRing, btWrite, btRead, btRunning, btLife, btTask, btPy, btPut, btGave>>

\* a2d_data_cb: the room is read once, and what does not fit is dropped.
BtPacket(frames) ==
    /\ btLife = "on" /\ btTask.at = "idle"
    /\ btPut + frames <= BtMax
    /\ btTask' = [at |-> "writes", wp |-> btWrite,
                  n |-> BtMin(frames, BtCapacity - BtBetween(btRead, btWrite))]
    /\ UNCHANGED <<btRing, btWrite, btRead, btReset, btRunning, btLife, btPy,
                   btPut, btOld, btGave, btCount>>

BtSlots(wp, n) == {BtPlace(wp, i) : i \in 0..n - 1}

BtWrites ==
    /\ btTask.at = "writes"
    /\ btTask' = [btTask EXCEPT !.at = "publishes"]
    /\ btRing' = [place \in DOMAIN btRing |->
         IF place \in BtSlots(btTask.wp, btTask.n)
         THEN btPut + 1 + (CHOOSE i \in 0..btTask.n - 1 : BtPlace(btTask.wp, i) = place)
         ELSE btRing[place]]
    /\ UNCHANGED <<btWrite, btRead, btReset, btRunning, btLife, btPy, btPut,
                   btOld, btGave, btCount>>

BtPublishes ==
    /\ btTask.at = "publishes" /\ btTask' = BtIdle
    /\ btWrite' = BtAdd(btTask.wp, btTask.n)
    /\ btPut' = btPut + btTask.n
    /\ UNCHANGED <<btRing, btRead, btReset, btRunning, btLife, btPy, btOld,
                   btGave, btCount>>
-----------------------------------------------------------------------------
\* btaudio_read

BtTarget == BtCapacity \div 2
BtSlack == BtCapacity \div 8

BtReadBegins(frames) ==
    /\ btLife = "on" /\ btPy.at = "idle"
    /\ btPy' = [BtRest EXCEPT !.at = IF btReset THEN "resets" ELSE "looks",
                              !.len = frames, !.old = btOld]
    /\ UNCHANGED <<btRing, btWrite, btRead, btReset, btRunning, btLife, btTask,
                   btPut, btOld, btGave, btCount>>

\* Mutant: the flag is cleared once the ring is empty.
BtClearsLate(at) == at = "empties"

\* The flag is cleared first, and then the ring emptied.
BtClears(at) == at = "resets"

BtResets ==
    /\ btPy.at = "resets" /\ btPy' = [btPy EXCEPT !.at = "moves"]
    /\ btReset' = (btReset /\ ~BtClears("resets"))
    /\ UNCHANGED <<btRing, btWrite, btRead, btRunning, btLife, btTask, btPut,
                   btOld, btGave, btCount>>

BtMoves ==
    /\ btPy.at = "moves" /\ btPy' = [btPy EXCEPT !.at = "empties"]
    /\ btRead' = btWrite
    /\ UNCHANGED <<btRing, btWrite, btReset, btRunning, btLife, btTask, btPut,
                   btOld, btGave, btCount>>

BtEmpties ==
    /\ btPy.at = "empties" /\ btPy' = [btPy EXCEPT !.at = "looks"]
    /\ btReset' = (btReset /\ ~BtClears("empties"))
    /\ btRunning' = FALSE
    /\ UNCHANGED <<btRing, btWrite, btRead, btLife, btTask, btPut, btOld, btGave, btCount>>

\* One frame more or less than asked for, by how far from half full it is.
BtAdjust(avail, frames) ==
    CASE avail > BtTarget + BtSlack /\ avail > frames + 1 -> 1
      [] avail < BtTarget - BtSlack /\ frames > 1 -> -1
      [] OTHER -> 0

\* Silence until it is half full; then what there is, of what is taken.
BtLooks ==
    /\ btPy.at = "looks"
    /\ LET avail == BtBetween(btRead, btWrite)
           adjust == BtAdjust(avail, btPy.len)
           waits == ~btRunning /\ avail < BtTarget
       IN  /\ btRunning' = ~waits
           /\ btPy' = IF waits THEN BtRest
                      ELSE [btPy EXCEPT !.at = "copies", !.rp = btRead, !.adjust = adjust,
                                        !.take = BtMin(btPy.len + adjust, avail)]
           /\ btGave' = IF waits THEN BtNothing ELSE btGave
    /\ UNCHANGED <<btRing, btWrite, btRead, btReset, btLife, btTask, btPut,
                   btOld, btCount>>

\* The frames that are played: one is left out of the middle when too many came.
BtPlayed(rp, take, adjust, len) ==
    LET drop == IF adjust = 1 THEN take \div 2 ELSE take
        all == [i \in 1..take |-> btRing[BtPlace(rp, i - 1)]]
        kept == SubSeq(all, 1, drop) \o SubSeq(all, drop + 2, take)
    IN  SubSeq(kept, 1, BtMin(Len(kept), len))

BtCopies ==
    /\ btPy.at = "copies" /\ btPy' = [btPy EXCEPT !.at = "advances"]
    /\ btGave' = [frames |-> BtPlayed(btPy.rp, btPy.take, btPy.adjust, btPy.len),
                  old |-> btPy.old]
    /\ UNCHANGED <<btRing, btWrite, btRead, btReset, btRunning, btLife, btTask,
                   btPut, btOld, btCount>>

\* What fills the block: a frame that is repeated counts, and silence does not.
BtFilled == Len(btGave.frames) + (IF btPy.adjust = -1 /\ Len(btGave.frames) > 0 THEN 1 ELSE 0)

\* The writer gets the room back; one that ran dry waits for half of it again.
BtMovesOn ==
    /\ btPy.at = "advances" /\ btPy' = BtRest
    /\ btRead' = BtAdd(btPy.rp, btPy.take)
    /\ btRunning' = (BtFilled >= btPy.len)
    /\ UNCHANGED <<btRing, btWrite, btReset, btLife, btTask, btPut, btOld,
                   btGave, btCount>>

BtNext ==
    \/ BtStart \/ BtStop \/ BtFree \/ BtStreamEvent
    \/ \E frames \in BtPackets : BtPacket(frames)
    \/ BtWrites \/ BtPublishes
    \/ \E frames \in BtReads : BtReadBegins(frames)
    \/ BtResets \/ BtMoves \/ BtEmpties \/ BtLooks \/ BtCopies \/ BtMovesOn

BtSpec == BtInit /\ [][BtNext]_btVars
-----------------------------------------------------------------------------
\* What is between the positions is the stream, also while a packet is written
\* beyond it. (a2d_data_cb against btaudio_read; not past the word's end, where
\* a position's place jumps.)
BtHoldsStream ==
    btLife # "off" =>
      LET held == BtBetween(btRead, btWrite)
      IN  /\ held <= BtCapacity
          /\ \A i \in 0..held - 1 : btRing[BtPlace(btRead, i)] = btPut - held + 1 + i

\* A read gives frames of the stream in order, one left out at most, and none from
\* before the stream was last changed. ("start over from empty")
BtGivesStream ==
    LET gave == btGave.frames
    IN  /\ \A i \in 1..Len(gave) : gave[i] > btGave.old
        /\ \A i \in 1..Len(gave) - 1 : gave[i + 1] \in {gave[i] + 1, gave[i] + 2}
        /\ Len(gave) > 0 => gave[Len(gave)] - gave[1] <= Len(gave)

\* The ring is freed with no callback in it, which its memory and capacity are
\* gone for. (btaudio_stop's 50 ms)
BtFreedUnused == btTask.at # "idle" => btRing # <<>>

\* Two tasks, two words and a flag, and no lock.
BtSafe == BtHoldsStream /\ BtGivesStream /\ BtFreedUnused

(***************************************************************************)
(* btaudio but for its ring: starting and stopping Bluetooth, what its     *)
(* callbacks learn of the sender, the bits by which a program hears of it, *)
(* and the volume it shares with the sender's slider. A callback takes the *)
(* lock for each of its stores, not for all of them.                       *)
(* External: Bluedroid's task and start-up, and a sender that registers    *)
(* for volume changes again after each it is told of.                      *)
(***************************************************************************)

CONSTANTS
    BlPeers, BlVolumes, BlRates, BlTracks,
    BlNone,     \* no text, no rate, no volume shown
    BlEvents, BlCalls, BlStarts     \* bounds: callbacks, volumes set, starts

ASSUME BlAssumption ==
    /\ BlNone \notin BlPeers \cup BlVolumes \cup BlRates \cup BlTracks
    /\ {BlEvents, BlCalls, BlStarts} \subseteq Nat /\ BlVolumes # {}

VARIABLES
    blStack,    \* the controller and Bluedroid: "idle", "inited" or "enabled"
    blOn,       \* s_started
    blS,        \* what s says of the sender and its stream
    blChanges,  \* s.changes
    blTask,     \* what is left of the callback Bluedroid's task runs
    blPy,       \* what is left of the program's set_volume
    blGot,      \* bits changes() returned that the program has yet to act on
    blView,     \* what the program read of each property, last
    blVisible,  \* the scan mode
    blLast,     \* NVS: the last sender
    blSlider,   \* the volume the sender shows
    blOwes,     \* the sender has yet to register for volume changes
    blCount     \* [events, calls, starts], for the bounds

blHost == <<blStack, blOn>>
blProgram == <<blGot, blView>>
blSender == <<blSlider, blOwes>>
blVars == <<blHost, blS, blChanges, blTask, blPy, blProgram, blVisible, blLast,
            blSender, blCount>>

BlBit == [connected |-> "CONNECTION", peer |-> "CONNECTION", streaming |-> "STREAM",
          rate |-> "FORMAT", track |-> "TRACK", playing |-> "PLAYING", volume |-> "VOLUME"]
BlProperties == DOMAIN BlBit

BlZeroed(v) ==
    [connected |-> FALSE, peer |-> BlNone, streaming |-> FALSE, rate |-> BlNone,
     track |-> BlNone, playing |-> FALSE, volume |-> v, notify |-> FALSE]
BlDefault == CHOOSE v \in BlVolumes : TRUE
BlSeen(s) == [p \in BlProperties |-> s[p]]

BlInit ==
    /\ blStack = [controller |-> "idle", host |-> "idle"] /\ blOn = FALSE
    /\ blS = BlZeroed(BlDefault) /\ blChanges = {}
    /\ blTask = <<>> /\ blPy = <<>>
    /\ blGot = {} /\ blView = BlSeen(BlZeroed(BlDefault))
    /\ blVisible = FALSE /\ blLast = BlNone
    /\ blSlider = BlNone /\ blOwes = FALSE
    /\ blCount = [events |-> 0, calls |-> 0, starts |-> 0]
-----------------------------------------------------------------------------
\* btaudio_start and btaudio_stop

\* Everything is zeroed; the controller goes on from where it is, and Bluedroid
\* is brought up from nothing. A stage that fails leaves what came before it.
BlStart ==
    /\ ~blOn /\ blTask = <<>> /\ blCount.starts < BlStarts
    /\ blCount' = [blCount EXCEPT !.starts = @ + 1]
    /\ blS' = BlZeroed(BlDefault) /\ blChanges' = {}
    /\ \/ blStack' = blStack            \* no memory for the ring; the first fails
       \/ /\ blStack.controller = "idle" /\ blStack' = [blStack EXCEPT !.controller = "inited"]
       \/ /\ blStack' = [blStack EXCEPT !.controller = "enabled"]
       \/ /\ blStack.host = "idle"
          /\ blStack' = [controller |-> "enabled", host |-> "inited"]
       \/ /\ blStack.host = "idle"
          /\ blStack' = [controller |-> "enabled", host |-> "enabled"]
    /\ blOn' = (blStack'.host = "enabled")
    /\ blVisible' = blOn'
    /\ blGot' = {} /\ blView' = BlSeen(blS')
    /\ UNCHANGED <<blTask, blPy, blLast, blSender>>

\* A callback under way is left the time to end.
BlStop ==
    /\ blOn /\ blPy = <<>> /\ blOn' = FALSE
    /\ blStack' = [controller |-> "idle", host |-> "idle"]
    /\ blVisible' = FALSE /\ blSlider' = BlNone /\ blOwes' = FALSE
    /\ UNCHANGED <<blS, blChanges, blTask, blPy, blProgram, blLast, blCount>>
-----------------------------------------------------------------------------
\* The callbacks, each the steps it takes

BlSet(fields) == <<"set", fields>>
BlMark(bits) == <<"mark", bits>>
BlScan(visible) == <<"scan", visible>>
BlSave(peer) == <<"save", peer>>
BlSend(kind, volume) == <<kind, volume>>

BlEvent(steps) ==
    /\ blOn /\ blTask = <<>>
    /\ blCount.events < BlEvents /\ blCount' = [blCount EXCEPT !.events = @ + 1]
    /\ blTask' = steps
    /\ UNCHANGED <<blHost, blS, blChanges, blPy, blProgram, blVisible, blLast>>

\* a2d_cb: connected, and hidden from others until it leaves
BlConnect(peer) ==
    /\ ~blS.connected
    /\ BlEvent(<<BlSet([peer |-> peer]), BlSet([connected |-> TRUE]), BlSave(peer),
                 BlScan(FALSE), BlMark({"CONNECTION"})>>)
    /\ blSlider' = BlNone /\ blOwes' = TRUE

BlDisconnect ==
    /\ blS.connected
    /\ BlEvent(<<BlSet([connected |-> FALSE, streaming |-> FALSE, notify |-> FALSE]),
                 BlSet([peer |-> BlNone]), BlScan(TRUE), BlMark({"CONNECTION", "STREAM"})>>)
    /\ blSlider' = BlNone /\ blOwes' = FALSE

BlAudio(streaming) ==
    /\ blS.connected /\ UNCHANGED blSender
    /\ BlEvent(<<BlSet([streaming |-> streaming]), BlMark({"STREAM"})>>)

BlFormat(rate) ==
    /\ blS.connected /\ UNCHANGED blSender
    /\ BlEvent(<<BlSet([rate |-> rate]), BlMark({"FORMAT"})>>)

\* avrc_ct_cb: the controller's link is gone, a title, and whether it plays
BlControlGone ==
    /\ UNCHANGED blSender
    /\ BlEvent(<<BlSet([playing |-> FALSE]), BlSet([track |-> BlNone]),
                 BlMark({"TRACK", "PLAYING"})>>)

BlMetadata(track) ==
    /\ blS.connected /\ UNCHANGED blSender
    /\ BlEvent(<<BlSet([track |-> track]), BlMark({"TRACK"})>>)

BlPlayStatus(playing) ==
    /\ blS.connected /\ UNCHANGED blSender
    /\ BlEvent(<<BlSet([playing |-> playing])>> \o
               IF blS.playing # playing THEN <<BlMark({"PLAYING"})>> ELSE <<>>)

\* avrc_tg_cb: the slider moves; the sender registers, and is told what it is now
BlSlides(volume) ==
    /\ blS.connected
    /\ BlEvent(<<BlSet([volume |-> volume]), BlMark({"VOLUME"})>>)
    /\ blSlider' = volume /\ UNCHANGED blOwes

BlRegister ==
    /\ blS.connected /\ blOwes
    /\ BlEvent(<<<<"register", TRUE>>>>)
    /\ blOwes' = FALSE /\ UNCHANGED blSlider
-----------------------------------------------------------------------------
\* The steps

\* Under one lock, noted and the volume read; then answered.
BlRegisters(s) == <<[s EXCEPT !.notify = TRUE], <<BlSend("interim", s.volume)>>>>

BlLinked == blOn /\ blS.connected

\* s, but for these fields of it.
BlStored(fields) == [f \in DOMAIN blS |-> IF f \in DOMAIN fields THEN fields[f] ELSE blS[f]]

\* What one step does to s and to the steps left; the sender hears in order.
BlStep(what, arg) ==
    /\ blS' = CASE what = "set" -> BlStored(arg)
                [] what = "register" -> BlRegisters(blS)[1]
                [] OTHER -> blS
    /\ blChanges' = IF what = "mark" THEN blChanges \cup arg ELSE blChanges
    /\ blVisible' = IF what = "scan" /\ blOn THEN arg ELSE blVisible
    /\ blLast' = IF what = "save" THEN arg ELSE blLast
    /\ blSlider' = IF what \in {"interim", "changed"} /\ BlLinked THEN arg ELSE blSlider
    /\ blOwes' = (blOwes \/ (what = "changed" /\ BlLinked))

BlTaskStep ==
    /\ blTask # <<>>
    /\ LET step == Head(blTask)
       IN  /\ BlStep(step[1], step[2])
           /\ blTask' = (IF step[1] = "register" THEN BlRegisters(blS)[2] ELSE <<>>) \o Tail(blTask)
    /\ UNCHANGED <<blHost, blPy, blProgram, blCount>>

\* btaudio_set_volume: the registration is used up by one change.
BlSetVolume(volume) ==
    /\ blOn /\ blPy = <<>>
    /\ blCount.calls < BlCalls /\ blCount' = [blCount EXCEPT !.calls = @ + 1]
    /\ blS' = [blS EXCEPT !.volume = volume, !.notify = FALSE]
    /\ blPy' = (IF blS.notify THEN <<BlSend("changed", volume)>> ELSE <<>>)
               \o <<BlMark({"VOLUME"})>>
    /\ UNCHANGED <<blHost, blChanges, blTask, blProgram, blVisible, blLast, blSender>>

BlPyStep ==
    /\ blPy # <<>> /\ blPy' = Tail(blPy)
    /\ BlStep(Head(blPy)[1], Head(blPy)[2])
    /\ UNCHANGED <<blHost, blTask, blProgram, blCount>>

\* changes() returns the bits and clears them; the program reads what they name.
BlAsks ==
    /\ blPy = <<>> /\ blGot = {} /\ blChanges # {}
    /\ blGot' = blChanges /\ blChanges' = {}
    /\ UNCHANGED <<blHost, blS, blTask, blPy, blView, blVisible, blLast, blSender, blCount>>

BlReads ==
    /\ blPy = <<>> /\ blGot # {} /\ blGot' = {}
    /\ blView' = [p \in BlProperties |-> IF BlBit[p] \in blGot THEN blS[p] ELSE blView[p]]
    /\ UNCHANGED <<blHost, blS, blChanges, blTask, blPy, blVisible, blLast, blSender, blCount>>

BlNext ==
    \/ BlStart \/ BlStop \/ BlTaskStep \/ BlPyStep \/ BlAsks \/ BlReads
    \/ \E peer \in BlPeers : BlConnect(peer)
    \/ BlDisconnect \/ BlControlGone \/ BlRegister
    \/ \E b \in BOOLEAN : BlAudio(b) \/ BlPlayStatus(b)
    \/ \E rate \in BlRates : BlFormat(rate)
    \/ \E track \in BlTracks : BlMetadata(track)
    \/ \E volume \in BlVolumes : BlSlides(volume) \/ BlSetVolume(volume)

BlSpec == BlInit /\ [][BlNext]_blVars
-----------------------------------------------------------------------------
BlMarks(steps) == UNION {steps[i][2] : i \in {j \in 1..Len(steps) : steps[j][1] = "mark"}}

\* "what changed since the last call": a property that is not what the program
\* read has its bit set, or will have when the callback in progress is over.
\* (mark, btaudio_changes)
BlTold ==
    \A p \in BlProperties : blView[p] # blS[p] =>
        ~blOn \/ BlBit[p] \in blChanges \cup blGot \cup BlMarks(blTask) \cup BlMarks(blPy)

\* "One sender at a time: hide until it leaves."
BlHidden == blOn /\ blTask = <<>> => blVisible = ~blS.connected

\* "Set the volume here and tell the sender, which moves its slider": when both
\* have come to rest it shows the volume there is, or will ask for it.
\* (btaudio_set_volume against avrc_tg_cb)
BlSliderFollows ==
    blOn /\ blS.connected /\ blTask = <<>> /\ blPy = <<>> =>
        blOwes \/ blSlider = blS.volume

\* What the program and the sender may believe of each other.
BlSafe == BlTold /\ BlHidden /\ BlSliderFollows

\* A start that failed may be tried again. (Not when Bluedroid was set up and did
\* not come up: it stays set up, and is set up again.)
BlStartAgain == ~blOn => blStack.host = "idle"

-----------------------------------------------------------------------------
\* The two sides of a phone that plays to the board: its sound's ring, and what
\* the two ends know of volume, song and state. (btaudio.c)
BluetoothSafe == BtSafe /\ BlSafe
=============================================================================
