----------------------------- MODULE MCSafeParts ----------------------------
(***************************************************************************)
(* For TLC, components that promise safety only, side by side: a           *)
(* behaviour is of one of them, chosen at its start, and the others keep   *)
(* their initial state. They share none, so a run of all is a run of each. *)
(***************************************************************************)
EXTENDS EventRing, ByteRing, UvcFrame, IsoPackets, CaptureRing, StarveCount,
        CameraBuffers, HlsHandover, CastSession, CastAudio, Wasapi, BtAudio,
        MdnsWindows, Panels, CameraTune, PpaPictures

VARIABLE part   \* the component this behaviour is of

partVars == <<part, vars, brVars, uvcVars, iqVars, pcVars, crVars, scVars,
              cbVars, hoVars, csVars, caVars, wsVars, btVars, blVars,
              mwVars, rpVars, dpVars, pvVars, rmVars, pbVars, qbVars,
              ctVars, paVars>>

PartsInit ==
    /\ part \in {"er", "br", "uvc", "iq", "pc", "cr", "sc", "cb", "ho",
                  "cs", "ca", "ws", "br2", "bl", "mw", "rp", "dp", "pv",
                  "rm", "pb", "qb", "ct", "pa"}
    /\ Init /\ BrInit /\ UvcInit
    /\ part # "uvc" => uvcCam = [frame |-> 1, size |-> 1, idx |-> 1, over |-> FALSE]
    /\ IqInit
    /\ part # "iq" => iqEp = [high |-> TRUE, interval |-> 1, tick |-> 1]
    /\ PcInit
    /\ part # "pc" => pcRate = 48000 /\ pcUs = 125 /\ pcMax = PacketMax(48000, 125, 0)
    /\ CrInit /\ ScInit /\ CbInit /\ HoInit /\ CsInit /\ CaInit
    /\ WsInit
    /\ part # "ws" => wsKind = "mic"
    /\ BtInit /\ BlInit /\ MwInit
    /\ part # "mw" => mwHalf = "find"
    /\ RpInit /\ DpInit /\ PvInit
    /\ part # "pv" => pvOthers = {0}
    /\ RmInit
    /\ part # "rm" => rmAvail = TRUE
    /\ PbInit
    /\ part # "pb" => pbPort = "spi"
    /\ QbInit /\ CtInit
    /\ part # "ct" => ctAspect = "orient"
    /\ PaInit
    /\ part # "pa" => paAspect = "fit"

\* A component that is not this behaviour's stays where it began.
Rest ==
    /\ UNCHANGED part
    /\ IF part = "er" THEN TRUE ELSE UNCHANGED vars
    /\ IF part = "br" THEN TRUE ELSE UNCHANGED brVars
    /\ IF part = "uvc" THEN TRUE ELSE UNCHANGED uvcVars
    /\ IF part = "iq" THEN TRUE ELSE UNCHANGED iqVars
    /\ IF part = "pc" THEN TRUE ELSE UNCHANGED pcVars
    /\ IF part = "cr" THEN TRUE ELSE UNCHANGED crVars
    /\ IF part = "sc" THEN TRUE ELSE UNCHANGED scVars
    /\ IF part = "cb" THEN TRUE ELSE UNCHANGED cbVars
    /\ IF part = "ho" THEN TRUE ELSE UNCHANGED hoVars
    /\ IF part = "cs" THEN TRUE ELSE UNCHANGED csVars
    /\ IF part = "ca" THEN TRUE ELSE UNCHANGED caVars
    /\ IF part = "ws" THEN TRUE ELSE UNCHANGED wsVars
    /\ IF part = "br2" THEN TRUE ELSE UNCHANGED btVars
    /\ IF part = "bl" THEN TRUE ELSE UNCHANGED blVars
    /\ IF part = "mw" THEN TRUE ELSE UNCHANGED mwVars
    /\ IF part = "rp" THEN TRUE ELSE UNCHANGED rpVars
    /\ IF part = "dp" THEN TRUE ELSE UNCHANGED dpVars
    /\ IF part = "pv" THEN TRUE ELSE UNCHANGED pvVars
    /\ IF part = "rm" THEN TRUE ELSE UNCHANGED rmVars
    /\ IF part = "pb" THEN TRUE ELSE UNCHANGED pbVars
    /\ IF part = "qb" THEN TRUE ELSE UNCHANGED qbVars
    /\ IF part = "ct" THEN TRUE ELSE UNCHANGED ctVars
    /\ IF part = "pa" THEN TRUE ELSE UNCHANGED paVars

PartsNext ==
    \/ part = "er" /\ Next /\ Rest
    \/ part = "br" /\ BrNext /\ Rest
    \/ part = "uvc" /\ UvcNext /\ Rest
    \/ part = "iq" /\ IqNext /\ Rest
    \/ part = "pc" /\ PcNext /\ Rest
    \/ part = "cr" /\ CrNext /\ Rest
    \/ part = "sc" /\ ScNext /\ Rest
    \/ part = "cb" /\ CbNext /\ Rest
    \/ part = "ho" /\ HoNext /\ Rest
    \/ part = "cs" /\ CsNext /\ Rest
    \/ part = "ca" /\ CaNextStep /\ Rest
    \/ part = "ws" /\ WsNext /\ Rest
    \/ part = "br2" /\ BtNext /\ Rest
    \/ part = "bl" /\ BlNext /\ Rest
    \/ part = "mw" /\ MwNext /\ Rest
    \/ part = "rp" /\ RpNext /\ Rest
    \/ part = "dp" /\ DpNext /\ Rest
    \/ part = "pv" /\ PvNext /\ Rest
    \/ part = "rm" /\ RmNext /\ Rest
    \/ part = "pb" /\ PbNext /\ Rest
    \/ part = "qb" /\ QbNext /\ Rest
    \/ part = "ct" /\ CtNext /\ Rest
    \/ part = "pa" /\ PaNext /\ Rest

PartsSpec == PartsInit /\ [][PartsNext]_partVars

\* Cameras' frames, and the sizes asked of take(): each FrameSize, and one whose
\* length in bytes is no whole number of cache lines.
PaCams == {<<800, 800>>, <<800, 640>>, <<1920, 1080>>, <<1280, 960>>}
PaAskedSizes == {PaSizes[k] : k \in 1 .. 22} \cup {<<90, 90>>}

\* A sensor's tuning, in quarters, near the OV5647's.
CtTunings == {CtIdentity, <<8, -2, -2, -2, 7, -1, -1, -3, 8>>}

\* SAMD: the pin of each bit. (mod_i80bus.c)
PbPins == [b \in 0 .. 2 |-> b]
=============================================================================
