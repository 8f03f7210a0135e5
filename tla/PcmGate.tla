------------------------------ MODULE PcmGate ------------------------------
(***************************************************************************)
(* What usbhost_pcm_sink.h promises of the gate in front of a playback     *)
(* ring, with none of the counters that implement it.                      *)
(*                                                                         *)
(* A call is either inside the ring or it is not.  Calls enter only while  *)
(* a stream is open; a close that has begun lets nobody else in, and it    *)
(* returns only when the last call has left.  The owner releases the       *)
(* ring's storage, or builds the next stream over it, only after a close   *)
(* has returned.  Bytes are put by a call that is inside, whole, and never *)
(* more of them than the ring has room for.                                *)
(***************************************************************************)
EXTENDS Integers

CONSTANTS Callers,      \* everything that may call write() or space()
          Capacity      \* bytes the ring holds

VARIABLES phase,        \* "closed", "open" or "closing"
          storage,      \* TRUE while the ring's storage exists
          inside,       \* the callers inside the ring
          stored        \* bytes waiting in the ring

gateVars == <<phase, storage, inside, stored>>

Init ==
    /\ phase = "closed"
    /\ storage = FALSE
    /\ inside = {}
    /\ stored = 0

\* A fresh ring is handed over while the gate is closed.
NewRing ==
    /\ phase = "closed"
    /\ storage' = TRUE
    /\ stored' = 0
    /\ UNCHANGED <<phase, inside>>

OpenGate ==
    /\ phase = "closed"
    /\ storage
    /\ phase' = "open"
    /\ UNCHANGED <<storage, inside, stored>>

BeginClose ==
    /\ phase' = "closing"
    /\ UNCHANGED <<storage, inside, stored>>

EndClose ==
    /\ phase = "closing"
    /\ inside = {}
    /\ phase' = "closed"
    /\ UNCHANGED <<storage, inside, stored>>

FreeRing ==
    /\ phase = "closed"
    /\ storage' = FALSE
    /\ UNCHANGED <<phase, inside, stored>>

Enter(c) ==
    /\ phase = "open"
    /\ c \notin inside
    /\ inside' = inside \cup {c}
    /\ UNCHANGED <<phase, storage, stored>>

Put(c) ==
    /\ c \in inside
    /\ storage
    /\ \E n \in 1 .. (Capacity - stored) : stored' = stored + n
    /\ UNCHANGED <<phase, storage, inside>>

Take ==
    /\ phase = "open"
    /\ storage
    /\ \E n \in 1 .. stored : stored' = stored - n
    /\ UNCHANGED <<phase, storage, inside>>

Exit(c) ==
    /\ c \in inside
    /\ inside' = inside \ {c}
    /\ UNCHANGED <<phase, storage, stored>>

Next ==
    \/ NewRing \/ OpenGate \/ BeginClose \/ EndClose \/ FreeRing \/ Take
    \/ \E c \in Callers : Enter(c) \/ Put(c) \/ Exit(c)

Spec == Init /\ [][Next]_gateVars
=============================================================================
