----------------------------- MODULE MCLiveParts ----------------------------
(***************************************************************************)
(* For TLC, the components that have to end what they begin, side by side  *)
(* as in MCSafeParts: a behaviour is of one of them. Four that promise     *)
(* safety only are here too, so that neither run is much the longer.       *)
(***************************************************************************)
EXTENDS FileFeed, Mdns, PumpPort, PcmSink, HostNet, I2sChannel, RxRing,
        HlsSegments

VARIABLE part   \* the component this behaviour is of

partVars == <<part, ffVars, mdVars, ppVars, vars, netVars, icVars, rxVars,
              hsVars>>

PartsInit ==
    /\ part \in {"ff", "md", "pp", "ps", "net", "ic", "rx", "hs"}
    /\ FfInit /\ MdInit /\ PpInit
    /\ part # "pp" => ppDriver = "esp32"
    /\ Init /\ NetInit /\ IcInit /\ RxInit /\ HsInit

\* A component that is not this behaviour's stays where it began.
Rest ==
    /\ UNCHANGED part
    /\ IF part = "ff" THEN TRUE ELSE UNCHANGED ffVars
    /\ IF part = "md" THEN TRUE ELSE UNCHANGED mdVars
    /\ IF part = "pp" THEN TRUE ELSE UNCHANGED ppVars
    /\ IF part = "ps" THEN TRUE ELSE UNCHANGED vars
    /\ IF part = "net" THEN TRUE ELSE UNCHANGED netVars
    /\ IF part = "ic" THEN TRUE ELSE UNCHANGED icVars
    /\ IF part = "rx" THEN TRUE ELSE UNCHANGED rxVars
    /\ IF part = "hs" THEN TRUE ELSE UNCHANGED hsVars

PartsNext ==
    \/ part = "ff" /\ FfNext /\ Rest
    \/ part = "md" /\ MdNext /\ Rest
    \/ part = "pp" /\ PpNext /\ Rest
    \/ part = "ps" /\ Next /\ Rest
    \/ part = "net" /\ NetNext /\ Rest
    \/ part = "ic" /\ IcNext /\ Rest
    \/ part = "rx" /\ RxNext /\ Rest
    \/ part = "hs" /\ HsNext /\ Rest

\* Their fairness: nothing of a part that is fair is enabled before it begins.
PartsSpec ==
    /\ PartsInit /\ [][PartsNext]_partVars
    /\ FfFairness /\ MdFairness /\ PpFairness /\ Fairness
=============================================================================
