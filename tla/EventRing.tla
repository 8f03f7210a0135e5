------------------------------ MODULE EventRing ------------------------------
(***************************************************************************)
(* The event queue of shared/usbhost_ringbuf.c between its one producer,   *)
(* whoever holds the host lock and emits an attach or detach, and its one  *)
(* consumer, the interpreter in host_drain().  Every access to a word that *)
(* the other side may touch is a step of its own; the increment of         *)
(* `dropped` is a load and a store, since the word is volatile, not atomic.*)
(*                                                                         *)
(* Stores are seen by the other side in program order.                     *)
(***************************************************************************)
EXTENDS Integers, Sequences

CONSTANTS
    Event,      \* the records a host may emit
    None,       \* what a slot holds before its first record
    Capacity,   \* slots
    Word,       \* `dropped` is a word of this many values
    Limits,     \* limits host_drain() may be called with
    MaxEmits    \* bound on the records emitted

ASSUME EventRingAssumption ==
    /\ None \notin Event
    /\ Capacity \in Nat /\ Capacity > 0
    /\ Word \in Nat /\ Word > 1
    /\ Limits \subseteq Nat
    /\ MaxEmits \in Nat

VARIABLES
    slots, head, tail, dropped,     \* the ring
    running,    \* usbhost_host_running, and with it that a producer exists
    ppc,        \* where push() is
    event,      \* the record it was given
    seen,       \* the value of `dropped` it is about to increment
    cpc,        \* where host_drain() is
    left,       \* what is left of its limit
    out,        \* the record pop() copied
    count,      \* the value take_dropped() read
    last,       \* history: the record handed out last
    lost,       \* history: records turned away
    untold,     \* history: one was, and no drain has said so since
    reports,    \* history: drains that told of an overflow
    emits       \* history: records emitted

ringVars == <<slots, head, tail, dropped>>
producerVars == <<ppc, event, seen>>
consumerVars == <<cpc, left, out, count>>
history == <<last, lost, untold, reports, emits>>
vars == <<ringVars, running, producerVars, consumerVars, history>>

Index == 0 .. Capacity - 1

next_index(i) == IF i + 1 = Capacity THEN 0 ELSE i + 1

\* The k-th slot from tail, and usbhost_rb_count at one instant
At(k) == IF tail + k < Capacity THEN tail + k ELSE tail + k - Capacity
Count == IF head >= tail THEN head - tail ELSE Capacity - tail + head

Init ==
    /\ slots = [i \in Index |-> None]
    /\ head = 0 /\ tail = 0 /\ dropped = 0
    /\ running = FALSE
    /\ ppc = "idle" /\ event = None /\ seen = 0
    /\ cpc = "idle" /\ left = 0 /\ out = None /\ count = 0
    /\ last = None /\ lost = 0 /\ untold = FALSE /\ reports = 0 /\ emits = 0

-----------------------------------------------------------------------------
\* The interpreter between drains.

\* Mutant: every start initialises the ring.
StartWipes ==
    /\ cpc = "idle"
    /\ head' = 0 /\ tail' = 0 /\ dropped' = 0
    /\ running' \in IF running THEN {TRUE} ELSE BOOLEAN
    /\ untold' = FALSE
    /\ UNCHANGED <<slots, producerVars, consumerVars, last, lost, reports, emits>>

\* Only a genuine start initialises the ring; the host may then fail to start.
Start ==
    /\ cpc = "idle"
    /\ ~running
    /\ head' = 0 /\ tail' = 0 /\ dropped' = 0
    /\ running' \in BOOLEAN
    /\ untold' = FALSE
    /\ UNCHANGED <<slots, producerVars, consumerVars, last, lost, reports, emits>>

\* host_stop() returns once the host task is gone, or is stuck in a call of the
\* library's from which it emits nothing.
Stop ==
    /\ cpc = "idle"
    /\ ppc = "idle"
    /\ running' = FALSE
    /\ UNCHANGED <<ringVars, producerVars, consumerVars, history>>

-----------------------------------------------------------------------------
\* The producer: usbhost_rb_push.

\* Room is judged by one read of tail.
Look ==
    /\ running
    /\ ppc = "idle"
    /\ emits < MaxEmits
    /\ emits' = emits + 1
    /\ event' \in Event
    /\ IF next_index(head) = tail
       THEN ppc' = "drop" /\ lost' = lost + 1 /\ untold' = TRUE
       ELSE ppc' = "write" /\ UNCHANGED <<lost, untold>>
    /\ UNCHANGED <<ringVars, running, seen, consumerVars, last, reports>>

LoadDropped ==
    /\ ppc = "drop"
    /\ seen' = dropped
    /\ ppc' = "bump"
    /\ UNCHANGED <<ringVars, running, event, consumerVars, history>>

StoreDropped ==
    /\ ppc = "bump"
    /\ dropped' = (seen + 1) % Word
    /\ ppc' = "idle"
    /\ UNCHANGED <<slots, head, tail, running, event, seen, consumerVars, history>>

\* A record is several words: while ppc = "write" the slot is half written.
Write ==
    /\ ppc = "write"
    /\ slots' = [slots EXCEPT ![head] = event]
    /\ ppc' = "publish"
    /\ UNCHANGED <<head, tail, dropped, running, event, seen, consumerVars, history>>

Publish ==
    /\ ppc = "publish"
    /\ head' = next_index(head)
    /\ ppc' = "idle"
    /\ UNCHANGED <<slots, tail, dropped, running, event, seen, consumerVars, history>>

-----------------------------------------------------------------------------
\* The consumer: usbhost_host_drain.

Drain ==
    /\ cpc = "idle"
    /\ left' \in Limits
    /\ cpc' = "pop"
    /\ UNCHANGED <<ringVars, running, producerVars, out, count, history>>

Pop ==
    /\ cpc = "pop"
    /\ IF left > 0 THEN left' = left - 1 ELSE UNCHANGED left
    /\ cpc' = IF left > 0 /\ tail # head THEN "copy" ELSE "drops"
    /\ UNCHANGED <<ringVars, running, producerVars, out, count, history>>

Copy ==
    /\ cpc = "copy"
    /\ out' = slots[tail]
    /\ cpc' = "advance"
    /\ UNCHANGED <<ringVars, running, producerVars, left, count, history>>

Advance ==
    /\ cpc = "advance"
    /\ tail' = next_index(tail)
    /\ last' = out
    /\ cpc' = "pop"
    /\ UNCHANGED <<slots, head, dropped, running, producerVars, left, out, count,
                   lost, untold, reports, emits>>

TakeDropped ==
    /\ cpc = "drops"
    /\ count' = dropped
    /\ cpc' = "clear"
    /\ UNCHANGED <<ringVars, running, producerVars, left, out, history>>

\* Mutant: read and not cleared.
ClearForgotten ==
    /\ cpc = "clear"
    /\ IF count # 0 THEN reports' = reports + 1 /\ untold' = FALSE
                    ELSE UNCHANGED <<reports, untold>>
    /\ cpc' = "idle"
    /\ UNCHANGED <<ringVars, running, producerVars, left, out, count, last, lost, emits>>

\* The call then returns, telling of an overflow if the count was not 0.
ClearDropped ==
    /\ cpc = "clear"
    /\ dropped' = 0
    /\ IF count # 0 THEN reports' = reports + 1 /\ untold' = FALSE
                    ELSE UNCHANGED <<reports, untold>>
    /\ cpc' = "idle"
    /\ UNCHANGED <<slots, head, tail, running, producerVars, left, out, count, last, lost, emits>>

Producer == Look \/ LoadDropped \/ StoreDropped \/ Write \/ Publish

Consumer == Drain \/ Pop \/ Copy \/ Advance \/ TakeDropped \/ ClearDropped

Next == Start \/ Stop \/ Producer \/ Consumer

Spec == Init /\ [][Next]_vars

-----------------------------------------------------------------------------
\* The ring's words stay in range, and each side's locals with them.
TypeOK ==
    /\ slots \in [Index -> Event \cup {None}]
    /\ head \in Index /\ tail \in Index
    /\ dropped \in 0 .. Word - 1 /\ seen \in 0 .. Word - 1 /\ count \in 0 .. Word - 1
    /\ running \in BOOLEAN /\ untold \in BOOLEAN
    /\ ppc \in {"idle", "write", "publish", "drop", "bump"}
    /\ cpc \in {"idle", "pop", "copy", "advance", "drops", "clear"}
    /\ event \in Event \cup {None} /\ out \in Event \cup {None} /\ last \in Event \cup {None}
    /\ left \in Nat /\ lost \in Nat /\ reports \in Nat /\ emits \in Nat

\* "A consumer that observes the new head always sees a complete record": the
\* slot being written is never one of those the consumer may be copying, nor
\* one still queued for it.
NoTornRecord ==
    /\ cpc \in {"copy", "advance"} => tail # head
    /\ ppc \in {"write", "publish"} => next_index(head) # tail
    /\ \A k \in 0 .. Count - 1 : slots[At(k)] \in Event

\* A drain never cries wolf: the overflows told are at most the records lost,
\* whatever the producer does between the read of the count and its clearing.
NoFalseAlarm == reports <= lost

\* "Overflow is recorded, never silent": while neither side is busy, an event
\* that was turned away and not yet told of is still counted.
OverflowNeverSilent ==
    ppc = "idle" /\ cpc = "idle" /\ untold => dropped > 0

\* The records waiting, oldest first
Waiting == [k \in 1 .. Count |-> slots[At(k - 1)]]

\* The ring implements a bounded queue of Capacity - 1 records.
Fifo == INSTANCE EventFifo WITH queue <- Waiting, Depth <- Capacity - 1

FifoSpec == Fifo!Spec
=============================================================================
