------------------------------ MODULE FileFeed ------------------------------
(***************************************************************************)
(* audiobusio.I2SOut playing a file: the interpreter feeds a ring of whole *)
(* blocks from a source whose own blocks are of another size, from a       *)
(* scheduler node and from every read of `playing`, while the pump's       *)
(* thread pulls the ring. Frames are numbered, and silence is 0. The pump  *)
(* and audiopump.Ring are the engine's, modelled from how they are called. *)
(***************************************************************************)
EXTENDS Naturals, Sequences, SequencesExt

CONSTANTS FfFrames,   \* the frames of the file
          FfLens,     \* the lengths of the blocks it is read in
          FfBlock,    \* frames of a ring block (512)
          FfCapacity, \* blocks of the ring (6)
          FfPlays     \* bound: calls of play()

ASSUME FfAssumption ==
    {FfFrames, FfCapacity, FfPlays} \subseteq Nat /\ FfLens \subseteq Nat /\ FfBlock \in Nat \ {0}

VARIABLES
    ffAt,     \* frames of the file read so far
    ffFeed,   \* [src, buf, done]: the source block's rest, the block in hand
    ffRing,   \* the ring's blocks
    ffObj,    \* the I2SOut: [playing, ring, loop]
    ffPump,   \* what the pump pulls: "off", "ring", or "other" after a retarget
    ffCall,   \* the feeder: [who, at], at "off", "room", "fill" or "after"
    ffArmed,  \* whether the scheduler node is queued
    ffPlayed, \* calls of play() so far
    ffOut     \* since then: [heard, pads, lost], the last frame pulled, the
              \* silence pulled, and whether the end left some of the file

ffVars == <<ffAt, ffFeed, ffRing, ffObj, ffPump, ffCall, ffArmed, ffPlayed, ffOut>>

FfNothing == [src |-> <<>>, buf |-> <<>>, done |-> FALSE]
FfIdle == [playing |-> FALSE, ring |-> FALSE, loop |-> FALSE]
FfOff == [who |-> "none", at |-> "off"]

FfInit ==
    /\ ffAt = 0 /\ ffFeed = FfNothing /\ ffRing = <<>>
    /\ ffObj = FfIdle /\ ffPump = "off" /\ ffCall = FfOff /\ ffArmed = FALSE
    /\ ffPlayed = 0 /\ ffOut = [heard |-> 0, pads |-> 0, lost |-> FALSE]

---------------------------------------------------------------------------
(* audiobusio_feed *)

\* Whether it has ended comes first: every call would add a block of silence.
FfMayFeed == ffObj.ring /\ ffObj.playing /\ ~ffFeed.done

FfEntry == IF FfMayFeed THEN "room" ELSE "after"

\* The loop goes on while the ring has room for a block.
FfRoom ==
    /\ ffCall.at = "room"
    /\ LET room == Len(ffRing) < FfCapacity
       IN /\ ffCall' = [ffCall EXCEPT !.at = IF room THEN "fill" ELSE "after"]
          /\ ffArmed' = (ffArmed \/ (~room /\ FfMayFeed))
    /\ UNCHANGED <<ffAt, ffFeed, ffRing, ffObj, ffPump, ffPlayed, ffOut>>

\* get_buffer: a read that fails ends the file, the last block ends it too, or
\* starts a loop over.
FfRead ==
    /\ ffCall.at = "fill" /\ Len(ffFeed.buf) < FfBlock
    /\ ffFeed.src = <<>> /\ ~ffFeed.done
    /\ \/ \E k \in FfLens :
            LET n == IF ffAt + k < FfFrames THEN k ELSE FfFrames - ffAt
                last == ffAt + n = FfFrames
            IN /\ ffFeed' = [ffFeed EXCEPT !.src = [i \in 1..n |-> ffAt + i],
                                           !.done = last /\ ~ffObj.loop]
               /\ ffAt' = IF last /\ ffObj.loop THEN 0 ELSE ffAt + n
       \/ /\ ffFeed' = [ffFeed EXCEPT !.done = TRUE]
          /\ UNCHANGED ffAt
    /\ UNCHANGED <<ffRing, ffObj, ffPump, ffCall, ffArmed, ffPlayed, ffOut>>

\* Mutant: a conversion keeps nothing of the source block.
FfRestNone(n) == <<>>

\* What a conversion of n frames leaves of the source block, for the next.
FfRest(n) == SubSeq(ffFeed.src, n + 1, Len(ffFeed.src))

FfConvert ==
    LET room == FfBlock - Len(ffFeed.buf)
        n == IF Len(ffFeed.src) < room THEN Len(ffFeed.src) ELSE room
    IN /\ ffCall.at = "fill" /\ n > 0
       /\ ffFeed' = [ffFeed EXCEPT !.buf = @ \o SubSeq(ffFeed.src, 1, n),
                                   !.src = FfRest(n)]
       /\ UNCHANGED <<ffAt, ffRing, ffObj, ffPump, ffCall, ffArmed, ffPlayed, ffOut>>

\* The tail is padded to a whole block.
FfPad ==
    /\ ffCall.at = "fill" /\ ffFeed.done /\ ffFeed.src = <<>>
    /\ Len(ffFeed.buf) < FfBlock
    /\ ffFeed' = [ffFeed EXCEPT !.buf = [i \in 1..FfBlock |->
                    IF i <= Len(ffFeed.buf) THEN ffFeed.buf[i] ELSE 0]]
    /\ UNCHANGED <<ffAt, ffRing, ffObj, ffPump, ffCall, ffArmed, ffPlayed, ffOut>>

\* A full block is written; the file's end leaves the loop.
FfWrite ==
    /\ ffCall.at = "fill" /\ Len(ffFeed.buf) = FfBlock
    /\ ffRing' = Append(ffRing, ffFeed.buf)
    /\ ffFeed' = [ffFeed EXCEPT !.buf = <<>>]
    /\ ffCall' = [ffCall EXCEPT !.at = IF ffFeed.done THEN "after" ELSE "room"]
    /\ UNCHANGED <<ffAt, ffObj, ffPump, ffArmed, ffPlayed, ffOut>>

---------------------------------------------------------------------------
(* Who calls it *)

\* audiobusio_halt: the pump is stopped and joined, the feeder forgotten.
FfHalt ==
    /\ ffObj' = FfIdle /\ ffPump' = "off"
    /\ ffFeed' = FfNothing /\ ffRing' = <<>>

\* play(): what played stops, the file goes to its start, and the new ring is
\* primed before the pump is given it.
FfPlay(loop) ==
    /\ ffCall = FfOff /\ ffPlayed < FfPlays
    /\ ffPlayed' = ffPlayed + 1
    /\ ffAt' = 0 /\ ffFeed' = FfNothing /\ ffRing' = <<>> /\ ffPump' = "off"
    /\ ffObj' = [playing |-> TRUE, ring |-> TRUE, loop |-> loop]
    /\ ffOut' = [heard |-> 0, pads |-> 0, lost |-> FALSE]
    /\ ffCall' = [who |-> "play", at |-> "room"]
    /\ UNCHANGED ffArmed

\* ... and spawns it, which may be refused.
FfSpawn ==
    /\ ffCall = [who |-> "play", at |-> "after"]
    /\ ffCall' = FfOff
    /\ \/ /\ ffPump' = "ring" /\ ffArmed' = (ffArmed \/ FfMayFeed)
          /\ UNCHANGED ffObj
       \/ /\ ffObj' = [ffObj EXCEPT !.playing = FALSE]
          /\ UNCHANGED <<ffPump, ffArmed>>
    /\ UNCHANGED <<ffAt, ffFeed, ffRing, ffPlayed, ffOut>>

\* The scheduler runs the node: it comes again while there is more.
FfNode ==
    /\ ffCall = FfOff /\ ffArmed
    /\ ffArmed' = FALSE
    /\ ffCall' = [who |-> "node", at |-> FfEntry]
    /\ UNCHANGED <<ffAt, ffFeed, ffRing, ffObj, ffPump, ffPlayed, ffOut>>

FfNodeEnds ==
    /\ ffCall = [who |-> "node", at |-> "after"]
    /\ ffCall' = FfOff
    /\ UNCHANGED <<ffAt, ffFeed, ffRing, ffObj, ffPump, ffArmed, ffPlayed, ffOut>>

\* A read of `playing`: a feed,
FfPoll ==
    /\ ffCall = FfOff /\ ffObj.ring
    /\ ffCall' = [who |-> "poll", at |-> FfEntry]
    /\ UNCHANGED <<ffAt, ffFeed, ffRing, ffObj, ffPump, ffArmed, ffPlayed, ffOut>>

\* Mutant: the end waits for a source block nobody will feed.
FfDrainedWaits == ffFeed.done /\ ffRing = <<>> /\ ffFeed.src = <<>>

FfDrained == ffFeed.done /\ ffRing = <<>>

\* ... and an end, once the ring is empty.
FfPollEnds ==
    /\ ffCall = [who |-> "poll", at |-> "after"]
    /\ ffCall' = FfOff
    /\ IF ffObj.playing /\ FfDrained
       THEN /\ FfHalt
            /\ ffOut' = [ffOut EXCEPT !.lost = ffFeed.src # <<>>]
       ELSE UNCHANGED <<ffFeed, ffRing, ffObj, ffPump, ffOut>>
    /\ UNCHANGED <<ffAt, ffArmed, ffPlayed>>

\* stop() and deinit()
FfStop ==
    /\ ffCall = FfOff /\ ffObj.playing
    /\ FfHalt
    /\ UNCHANGED <<ffAt, ffCall, ffArmed, ffPlayed, ffOut>>

\* retarget(): the pump goes to another tail, which nobody feeds.
FfRetarget ==
    /\ ffCall = FfOff /\ ffObj.playing
    /\ ffPump' = "other" /\ ffFeed' = FfNothing /\ ffRing' = <<>>
    /\ ffObj' = [ffObj EXCEPT !.ring = FALSE]
    /\ UNCHANGED <<ffAt, ffCall, ffArmed, ffPlayed, ffOut>>

\* The other tail runs out, and a read of `playing` reaps the pump.
FfReap ==
    /\ ffCall = FfOff /\ ffPump = "other"
    /\ FfHalt
    /\ UNCHANGED <<ffAt, ffCall, ffArmed, ffPlayed, ffOut>>

\* The pump's thread takes a block; with none there it plays silence.
FfPull ==
    LET block == ffRing[1]
        sounds == {i \in DOMAIN block : block[i] # 0}
    IN /\ ffPump = "ring" /\ ffRing # <<>>
       /\ ffRing' = Tail(ffRing)
       /\ ffOut' = [ffOut EXCEPT
                       !.heard = IF sounds = {} THEN @ ELSE block[Max(sounds)],
                       !.pads = @ + Len(block) - Cardinality(sounds)]
       /\ UNCHANGED <<ffAt, ffFeed, ffObj, ffPump, ffCall, ffArmed, ffPlayed>>

FfFeeds == FfRoom \/ FfRead \/ FfConvert \/ FfPad \/ FfWrite
FfNext ==
    \/ FfFeeds \/ \E loop \in BOOLEAN : FfPlay(loop)
    \/ FfSpawn \/ FfNode \/ FfNodeEnds \/ FfPoll \/ FfPollEnds
    \/ FfStop \/ FfRetarget \/ FfReap \/ FfPull

\* A program that polls `playing`, a handler that runs to its end, and a pump
\* that is not paused.
FfFairness ==
    /\ WF_ffVars(FfFeeds) /\ WF_ffVars(FfSpawn) /\ WF_ffVars(FfNodeEnds)
    /\ SF_ffVars(FfPoll) /\ WF_ffVars(FfPollEnds) /\ WF_ffVars(FfPull)

FfSpec == FfInit /\ [][FfNext]_ffVars /\ FfFairness

---------------------------------------------------------------------------
(* Properties *)

FfStream == FlattenSeq(ffRing) \o ffFeed.buf \o ffFeed.src
FfSucc(f) == IF f = FfFrames /\ ffObj.loop THEN 1 ELSE f + 1

\* Whatever the two block sizes, and whoever fed what when, the pump hears the
\* file's frames in order, none twice and none left out, and silence only
\* after the last. (audiobusio.c:304-365)
FfInOrder ==
    LET line == <<ffOut.heard>> \o FfStream
    IN ffObj.ring => \A i \in 2..Len(line) :
          IF line[i] = 0 THEN ffFeed.done /\ \A j \in i..Len(line) : line[j] = 0
          ELSE line[i] = FfSucc(line[i - 1])

\* A file is followed by a block of silence at the most, however long it is
\* asked whether it still plays. (audiobusio.c:305-310)
FfPadsOnce ==
    ffOut.pads + Cardinality({i \in DOMAIN FfStream : FfStream[i] = 0}) <= FfBlock

\* What is heard of a file, and of the silence behind it.
FfSafe == FfInOrder /\ FfPadsOnce

\* A file that does not loop ends for a program that polls `playing`.
\* (audiobusio.c's get_playing)
FfPlayingEnds == ffPump = "ring" /\ ~ffObj.loop ~> ffPump # "ring"

\* "The file has ended and the ring has handed the last of it to the DMA"
\* (audiobusio.c's get_playing): nothing of it is left.
FfWhole == ~ffOut.lost
=============================================================================
