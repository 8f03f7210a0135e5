----------------------------- MODULE HlsHandover ----------------------------
(***************************************************************************)
(* castif.Hls.offer(): a frame's way from the interpreter's core to the    *)
(* task's, through two buffers, two flags and no lock. The interpreter     *)
(* fills `back`, the task encodes `front` and swaps the two pointers; each *)
(* step below is one a store or a copy makes on its own.                   *)
(***************************************************************************)
EXTENDS Naturals

CONSTANT HoOffers  \* bound: frames taken
ASSUME HoOffersAssumption == HoOffers \in Nat

VARIABLES
    hoWant, hoFresh,   \* the task wants a frame; `back` holds one
    hoFront, hoBack,   \* the two pointers
    hoPic,             \* which frame each buffer holds, 0 none
    hoPy,              \* offer(): "idle", "takes", "copies", "copied"
    hoTask,            \* "top", "swaps", "swapped", "opens", "encodes"
    hoTemp,            \* the task's local copy of `front`
    hoInto,            \* where the copy under way goes
    hoTaken, hoShown   \* frames offer() took; the last one encoded

hoVars == <<hoWant, hoFresh, hoFront, hoBack, hoPic, hoPy, hoTask, hoTemp,
            hoInto, hoTaken, hoShown>>

HoInit ==
    /\ hoWant = TRUE /\ hoFresh = FALSE
    /\ hoFront = 1 /\ hoBack = 2 /\ hoTemp = 1 /\ hoInto = 2
    /\ hoPic = [b \in {1, 2} |-> 0]
    /\ hoPy = "idle" /\ hoTask = "top"
    /\ hoTaken = 0 /\ hoShown = 0

---------------------------------------------------------------------------
(* offer(), with the interpreter's lock held throughout *)

\* Mutant: a picture is taken whether or not one is wanted.
HoMayTakeAlways == TRUE

\* offer() takes a picture only when the task wants one.
HoMayTake == hoWant

HoOffer ==
    /\ hoPy = "idle" /\ hoTaken < HoOffers /\ HoMayTake
    /\ hoPy' = "takes"
    /\ UNCHANGED <<hoWant, hoFresh, hoFront, hoBack, hoPic, hoTask, hoTemp, hoInto, hoTaken, hoShown>>

HoClaims ==
    /\ hoPy = "takes"
    /\ hoPy' = "copies" /\ hoWant' = FALSE /\ hoInto' = hoBack
    /\ UNCHANGED <<hoFresh, hoFront, hoBack, hoPic, hoTask, hoTemp, hoTaken, hoShown>>

HoCopies ==
    /\ hoPy = "copies"
    /\ hoPic' = [hoPic EXCEPT ![hoInto] = hoTaken + 1]
    /\ hoPy' = "copied"
    /\ UNCHANGED <<hoWant, hoFresh, hoFront, hoBack, hoTask, hoTemp, hoInto, hoTaken, hoShown>>

HoPublishes ==
    /\ hoPy = "copied"
    /\ hoPy' = "idle" /\ hoFresh' = TRUE /\ hoTaken' = hoTaken + 1
    /\ UNCHANGED <<hoWant, hoFront, hoBack, hoPic, hoTask, hoTemp, hoInto, hoShown>>

---------------------------------------------------------------------------
(* The task, once per frame time *)

HoTop ==
    /\ hoTask = "top"
    /\ IF hoFresh THEN hoTask' = "swaps" /\ hoTemp' = hoFront
       ELSE hoTask' = "encodes" /\ UNCHANGED hoTemp
    /\ UNCHANGED <<hoWant, hoFresh, hoFront, hoBack, hoPic, hoPy, hoInto, hoTaken, hoShown>>

HoSwaps ==
    /\ hoTask = "swaps"
    /\ hoFront' = hoBack /\ hoTask' = "swapped"
    /\ UNCHANGED <<hoWant, hoFresh, hoBack, hoPic, hoPy, hoTemp, hoInto, hoTaken, hoShown>>

\* Its last two stores: `back` free to fill, once it is no longer fresh.
HoWanted == hoWant' = TRUE /\ UNCHANGED hoFresh
HoStale == hoFresh' = FALSE /\ UNCHANGED hoWant
HoStores(n) == IF n = 1 THEN HoStale ELSE HoWanted

HoSwappedBack ==
    /\ hoTask = "swapped"
    /\ hoBack' = hoTemp /\ HoStores(1) /\ hoTask' = "opens"
    /\ UNCHANGED <<hoFront, hoPic, hoPy, hoTemp, hoInto, hoTaken, hoShown>>

HoOpens ==
    /\ hoTask = "opens"
    /\ HoStores(2) /\ hoTask' = "encodes"
    /\ UNCHANGED <<hoFront, hoBack, hoPic, hoPy, hoTemp, hoInto, hoTaken, hoShown>>

HoEncodes ==
    /\ hoTask = "encodes"
    /\ hoShown' = hoPic[hoFront] /\ hoTask' = "top"
    /\ UNCHANGED <<hoWant, hoFresh, hoFront, hoBack, hoPic, hoPy, hoTemp, hoInto, hoTaken>>

HoPyStep == HoOffer \/ HoClaims \/ HoCopies \/ HoPublishes
HoTaskStep == HoTop \/ HoSwaps \/ HoSwappedBack \/ HoOpens \/ HoEncodes
HoNext == HoPyStep \/ HoTaskStep

HoSpec == HoInit /\ [][HoNext]_hoVars
---------------------------------------------------------------------------
\* Who owns what, between any two stores: at most one of the two flags is up
\* and each side moves only under its own; the two pointers differ except
\* inside the swap; and the buffers hold the last two frames taken.
HoFlags ==
    /\ ~(hoWant /\ hoFresh)
    /\ hoPy = "takes" => hoWant
    /\ hoPy \in {"copies", "copied"} =>
          ~hoWant /\ ~hoFresh /\ hoInto = hoBack /\ hoTask \in {"top", "encodes"}
    /\ hoTask \in {"swaps", "swapped"} => hoFresh
    /\ hoTask = "opens" => ~hoWant /\ ~hoFresh
    /\ hoFresh => hoPy = "idle"
    /\ hoTask = "opens" => hoPy = "idle"
HoPointers ==
    /\ hoTask = "swapped" => hoFront = hoBack /\ hoTemp # hoFront
    /\ hoTask # "swapped" => hoFront # hoBack
    /\ hoTask = "swaps" => hoTemp = hoFront
HoPictures ==
    /\ hoFresh => hoPic[hoBack] = hoTaken
    /\ hoPy = "copied" => hoPic[hoBack] = hoTaken + 1
    /\ hoFresh /\ hoTask # "swapped" => hoPic[hoFront] + 1 = hoTaken
    /\ ~hoFresh => hoPic[hoFront] = hoTaken
    /\ hoTask = "swapped" => hoShown + 1 = hoTaken
    /\ hoTask \in {"top", "swaps"} => hoShown = hoPic[hoFront]
    /\ hoTask \in {"opens", "encodes"} =>
          hoShown = hoPic[hoFront] \/ hoShown + 1 = hoPic[hoFront]
HoTypeOK ==
    /\ hoWant \in BOOLEAN /\ hoFresh \in BOOLEAN
    /\ hoFront \in {1, 2} /\ hoBack \in {1, 2} /\ hoTemp \in {1, 2} /\ hoInto \in {1, 2}
    /\ hoPic \in [{1, 2} -> Nat]
    /\ hoPy \in {"idle", "takes", "copies", "copied"}
    /\ hoTask \in {"top", "swaps", "swapped", "opens", "encodes"}
    /\ hoTaken \in Nat /\ hoShown \in Nat
HoOwned == HoTypeOK /\ HoFlags /\ HoPointers /\ HoPictures

\* The task never reads a frame that is still being copied: what it encodes
\* and what offer() copies into are two buffers, whenever they were chosen.
HoNeverTorn == (hoTask = "encodes" /\ hoPy = "copies") => hoFront # hoInto

\* A frame offer() took is encoded before the next one it takes, and none is
\* skipped or shown twice out of order.
HoEachShown == [][hoShown' # hoShown => hoShown' = hoShown + 1]_hoVars
=============================================================================
