----------------------------- MODULE StreamSlots -----------------------------
(***************************************************************************)
(* What usbhost_host_stream.c promises of its slots: transfers go to the   *)
(* library only for a stream that runs, a stop only ever takes them back,  *)
(* and a slot is free again, its transfers with it, once none is left out. *)
(***************************************************************************)
EXTENDS Integers

CONSTANTS Slots, MaxXfer

VARIABLES state,    \* of each slot: free, running, draining
          held      \* its transfers that the library has

slotVars == <<state, held>>

Init == state = [s \in Slots |-> "free"] /\ held = [s \in Slots |-> 0]

Start(s) ==
    /\ state[s] = "free" /\ held[s] = 0
    /\ state' = [state EXCEPT ![s] = "running"]
    /\ \E n \in 1 .. MaxXfer : held' = [held EXCEPT ![s] = n]

Stop(s) ==
    /\ state[s] = "running"
    /\ state' = [state EXCEPT ![s] = "draining"]
    /\ UNCHANGED held

\* One comes back and is not sent out again.
Return(s) ==
    /\ held[s] > 0
    /\ held' = [held EXCEPT ![s] = @ - 1]
    /\ UNCHANGED state

Free(s) ==
    /\ state[s] = "draining" /\ held[s] = 0
    /\ state' = [state EXCEPT ![s] = "free"]
    /\ UNCHANGED held

Next == \E s \in Slots : Start(s) \/ Stop(s) \/ Return(s) \/ Free(s)

Spec == Init /\ [][Next]_slotVars
=============================================================================
