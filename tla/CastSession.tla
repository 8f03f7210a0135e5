----------------------------- MODULE CastSession ----------------------------
(***************************************************************************)
(* castif.Cast: one cast as the interpreter starts, steers, stops and      *)
(* closes it, and the task on the other core that encodes the picture it   *)
(* was given. The two share plain volatile words. stop() waits a second;   *)
(* the encoder may take ten over a frame too big for it, and the socket as *)
(* long as it stalls.                                                      *)
(***************************************************************************)
EXTENDS Naturals

CONSTANTS CsDraws,   \* bound: changes the app draws
          CsAsks,    \* bound: calls of set_bitrate()
          CsStarts   \* bound: calls of start()

VARIABLES
    csTask,    \* "none", "top", "rated", "unrated", "hashed", "keeps",
               \* "reads", "encodes", "sends"
    csOthers,  \* tasks running besides it (the code means there to be none)
    csPy,      \* "idle", "waits" (stop(), up to a second), "closes"
    csRun, csFb, csEnc,   \* `running`; `fb` pinned; the encoder's session
    csDirty, csIdr, csRate, \* dirty, want_idr, new_bitrate (0 when none)
    csTook,    \* the rate the encoder has
    csAsked,   \* the rate set_bitrate() last asked for
    csDrawn, csMarked,    \* the picture now; the last one marked
    csHash, csSees, csSends, \* the pictures last hashed, hashed now, encoded
    csSent,    \* the last one the encoder finished
    csFailed,  \* the encoder has failed since the last mark
    csBegan    \* calls of start()

csWords == <<csDirty, csIdr, csRate, csTook, csAsked>>
csPics == <<csDrawn, csMarked, csHash, csSees, csSends, csSent, csFailed>>
csLife == <<csTask, csOthers, csPy, csRun, csFb, csEnc, csBegan>>
csVars == <<csLife, csWords, csPics>>

CsInit ==
    /\ csTask = "none" /\ csOthers = 0 /\ csPy = "idle"
    /\ csRun = FALSE /\ csFb = FALSE /\ csEnc = TRUE /\ csBegan = 0
    /\ csDirty = FALSE /\ csIdr = FALSE /\ csRate = 0 /\ csTook = 0 /\ csAsked = 0
    /\ csDrawn = 0 /\ csMarked = 0 /\ csHash = 0 /\ csSees = 0 /\ csSends = 0
    /\ csSent = 0 /\ csFailed = FALSE

---------------------------------------------------------------------------
(* The interpreter *)

CsMayStart == csTask = "none"

CsStart ==
    /\ csPy = "idle" /\ csEnc /\ csBegan < CsStarts /\ CsMayStart
    /\ csBegan' = csBegan + 1
    /\ csOthers' = IF csTask = "none" THEN csOthers ELSE csOthers + 1
    /\ csTask' = "top" /\ csRun' = TRUE /\ csFb' = TRUE
    /\ csIdr' = TRUE /\ csHash' = 0
    /\ UNCHANGED <<csPy, csEnc, csDirty, csRate, csTook, csAsked, csDrawn, csMarked,
                   csSees, csSends, csSent, csFailed>>

\* The app draws and says so.
CsDraw ==
    /\ csPy = "idle" /\ csDrawn < CsDraws
    /\ csDrawn' = csDrawn + 1
    /\ UNCHANGED <<csLife, csWords, csMarked, csHash, csSees, csSends, csSent, csFailed>>

CsMarkDirty ==
    /\ csPy = "idle" /\ csMarked < csDrawn
    /\ csMarked' = csDrawn /\ csDirty' = TRUE /\ csFailed' = FALSE
    /\ UNCHANGED <<csLife, csIdr, csRate, csTook, csAsked, csDrawn, csHash, csSees,
                   csSends, csSent>>

CsSetBitrate ==
    /\ csPy = "idle" /\ csAsked < CsAsks
    /\ csAsked' = csAsked + 1 /\ csRate' = csAsked + 1
    /\ UNCHANGED <<csLife, csDirty, csIdr, csTook, csPics>>

\* stop() takes `running` down and waits, at most a second, for the task;
\* then it lets go of the framebuffer, and close() frees the encoder.
CsStop(then) ==
    /\ csPy = "idle" /\ csRun
    /\ csPy' = then /\ csRun' = FALSE
    /\ UNCHANGED <<csTask, csOthers, csFb, csEnc, csBegan, csWords, csPics>>

CsLetGo(closes) == csFb' = FALSE /\ csEnc' = (csEnc /\ ~closes)

CsWaited ==
    /\ csPy \in {"waits", "closes"}
    /\ csTask = "none" \/ csTask \in {"encodes", "sends"}   \* it ran out
    /\ csPy' = "idle" /\ CsLetGo(csPy = "closes")
    /\ UNCHANGED <<csTask, csOthers, csRun, csBegan, csWords, csPics>>

\* With `running` down already neither waits.
CsStopAgain ==
    /\ csPy = "idle" /\ ~csRun
    /\ \E closes \in BOOLEAN : CsLetGo(closes)
    /\ UNCHANGED <<csTask, csOthers, csPy, csRun, csBegan, csWords, csPics>>

---------------------------------------------------------------------------
(* The task *)

\* It asks `running` at the top of a frame time, the rest of which follows.
CsAgain == csRun

CsEnd ==
    /\ csTask = "top" /\ ~CsAgain
    /\ csTask' = "none"
    /\ UNCHANGED <<csOthers, csPy, csRun, csFb, csEnc, csBegan, csWords, csPics>>

\* set_bitrate's word is read, and then cleared.
CsRates ==
    /\ csTask = "top" /\ CsAgain
    /\ csTask' = IF csRate > 0 THEN "rated" ELSE "unrated"
    /\ csTook' = IF csRate > 0 THEN csRate ELSE csTook
    /\ UNCHANGED <<csOthers, csPy, csRun, csFb, csEnc, csBegan, csDirty, csIdr, csRate,
                   csAsked, csPics>>

\* The sampled hash of the picture; one that misses the change is as good as
\* the hash it had.
CsHashes ==
    /\ csTask \in {"rated", "unrated"}
    /\ csTask' = "hashed" /\ csRate' = IF csTask = "rated" THEN 0 ELSE csRate
    /\ csSees' \in {csHash, csDrawn}
    /\ UNCHANGED <<csOthers, csPy, csRun, csFb, csEnc, csBegan, csDirty, csIdr, csTook,
                   csAsked, csDrawn, csMarked, csHash, csSends, csSent, csFailed>>

\* Nothing new since the last real frame, which is recent.
CsSkips(mayskip) == mayskip /\ csSees = csHash /\ ~csIdr /\ ~csDirty

CsDecides ==
    /\ csTask = "hashed"
    /\ \E mayskip \in BOOLEAN : csTask' = IF CsSkips(mayskip) THEN "sends" ELSE "keeps"
    /\ csIdr' = FALSE
    /\ UNCHANGED <<csOthers, csPy, csRun, csFb, csEnc, csBegan, csDirty, csRate, csTook,
                   csAsked, csPics>>

\* Mutant: `dirty` is cleared once the encoder has read.
CsClearsLate(at) == at = "encodes"

\* Otherwise the hash is kept and `dirty` cleared, before the encoder reads.
CsClears(at) == at = "keeps"

CsKeeps ==
    /\ csTask = "keeps" /\ csTask' = "reads"
    /\ csHash' = csSees
    /\ csDirty' = (csDirty /\ ~CsClears("keeps"))
    /\ UNCHANGED <<csOthers, csPy, csRun, csFb, csEnc, csBegan, csIdr, csRate, csTook,
                   csAsked, csDrawn, csMarked, csSees, csSends, csSent, csFailed>>

\* What is there when the encoder begins is in what it sends.
CsReads ==
    /\ csTask = "reads" /\ csTask' = "encodes"
    /\ csSends' = csDrawn
    /\ UNCHANGED <<csOthers, csPy, csRun, csFb, csEnc, csBegan, csWords, csDrawn,
                   csMarked, csHash, csSees, csSent, csFailed>>

CsEncodes ==
    /\ csTask = "encodes" /\ csTask' = "sends"
    /\ csDirty' = (csDirty /\ ~CsClears("encodes"))
    /\ \/ csSent' = csSends /\ UNCHANGED csFailed
       \/ csFailed' = TRUE /\ UNCHANGED csSent
    /\ UNCHANGED <<csOthers, csPy, csRun, csFb, csEnc, csBegan, csIdr, csRate, csTook,
                   csAsked, csDrawn, csMarked, csHash, csSees, csSends>>

\* The packets go out, and the frame time is over.
CsTurns ==
    /\ csTask = "sends" /\ csTask' = "top"
    /\ UNCHANGED <<csOthers, csPy, csRun, csFb, csEnc, csBegan, csWords, csPics>>

CsTaskStep == CsEnd \/ CsRates \/ CsHashes \/ CsDecides \/ CsKeeps \/ CsReads
              \/ CsEncodes \/ CsTurns

CsNext ==
    \/ CsStart \/ CsDraw \/ CsMarkDirty \/ CsSetBitrate
    \/ CsStop("waits") \/ CsStop("closes") \/ CsStopAgain \/ CsWaited \/ CsTaskStep

CsSpec == CsInit /\ [][CsNext]_csVars
---------------------------------------------------------------------------
\* mark_dirty() beats the hash: a picture marked while the cast runs is sent,
\* or `dirty` is still up, or the encoder has it now, or has failed since.
CsMarkIsSent ==
    (csTask # "none" /\ csMarked > csSent) =>
        \/ csDirty \/ csFailed \/ csTask \in {"keeps", "reads"}
        \/ csTask = "encodes" /\ csSends >= csMarked

\* There is one task for a cast, though stop() may return before it ends.
CsOneTask == csOthers = 0

\* What the task has been told reaches the picture, and there is one task.
CsSafe == CsMarkIsSent /\ CsOneTask

\* start() pins the framebuffer while the task reads it, and close() frees
\* the encoder after it.
CsPinned == csTask = "encodes" => csFb /\ csEnc

\* A bitrate asked for is the one the encoder comes to have.
CsRateLands == csRate = 0 => csTook = csAsked
=============================================================================
