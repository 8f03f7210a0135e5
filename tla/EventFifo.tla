------------------------------ MODULE EventFifo ------------------------------
(***************************************************************************)
(* What usbhost_ringbuf.h promises of the attach/detach queue: a bounded   *)
(* first-in first-out queue in which every event that was taken in is      *)
(* handed out once, whole and in order, and an event is turned away only   *)
(* while the queue is full.  Starting a stopped host empties it.           *)
(***************************************************************************)
EXTENDS Integers, Sequences

CONSTANTS Event,        \* the records a host may emit
          None,         \* no record yet
          Depth         \* records the queue holds

VARIABLES queue,        \* accepted and not yet handed out
          last,         \* the record handed out last
          lost,         \* records turned away
          running       \* the host runs

fifoVars == <<queue, last, lost, running>>

Init == queue = <<>> /\ last = None /\ lost = 0 /\ running = FALSE

Restart ==
    /\ ~running
    /\ queue' = <<>>
    /\ running' \in BOOLEAN
    /\ UNCHANGED <<last, lost>>

Halt == running' = FALSE /\ UNCHANGED <<queue, last, lost>>

Accept ==
    /\ running
    /\ Len(queue) < Depth
    /\ \E e \in Event : queue' = Append(queue, e)
    /\ UNCHANGED <<last, lost, running>>

TurnAway ==
    /\ running
    /\ Len(queue) = Depth
    /\ lost' = lost + 1
    /\ UNCHANGED <<queue, last, running>>

HandOut ==
    /\ queue # <<>>
    /\ last' = Head(queue)
    /\ queue' = Tail(queue)
    /\ UNCHANGED <<lost, running>>

Next == Restart \/ Halt \/ Accept \/ TurnAway \/ HandOut

Spec == Init /\ [][Next]_fifoVars
=============================================================================
