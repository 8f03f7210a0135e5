------------------------------ MODULE PcmSink ------------------------------
(***************************************************************************)
(* The lifetime gate of shared/usbhost_pcm_sink.c, with the owner that     *)
(* usbhost_host_stream.c is: producers on any task write to a playback     *)
(* ring that its owner may close and free while one of them is mid-write.  *)
(*                                                                         *)
(* Each atomic operation of the C code is one step, so every interleaving  *)
(* of the callers, the owner and the isochronous callback that drains the  *)
(* ring is explored.  The operations on `live` and `users` are             *)
(* sequentially consistent in the code, as steps are here.                 *)
(*                                                                         *)
(* A caller is an interpreter thread, which looks the stream up and asks   *)
(* for the current generation at every call, or a task that was handed a   *)
(* pcm_c_sink_t and keeps its generation until it is answered -1.          *)
(***************************************************************************)
EXTENDS Integers, FiniteSets

CONSTANTS
    Interp,     \* interpreter threads: usbhost_stream_write, _space
    Tasks,      \* native tasks holding a C sink: usbhost_stream_c_write, _c_space
    Capacity,   \* bytes the ring holds
    Frames,     \* frame sizes a stream may be opened with; 0 means any length
    Requests,   \* lengths a write may offer
    GenMod,     \* a generation is a word of this many values
    CtxGens,    \* the largest generation a C sink's ctx can carry
    MaxOpens    \* bound on the streams opened

Callers == Interp \cup Tasks

ASSUME PcmSinkAssumption ==
    /\ IsFiniteSet(Interp) /\ IsFiniteSet(Tasks)
    /\ Interp \cap Tasks = {}
    /\ Capacity \in Nat
    /\ Frames \subseteq Nat
    /\ Requests \subseteq Nat
    /\ GenMod \in Nat /\ GenMod > 1
    /\ CtxGens \in Nat
    /\ MaxOpens \in Nat

VARIABLES
    live,       \* s->live: the open generation, 0 while closed
    users,      \* s->users: calls in progress
    busy,       \* s->busy: the producers' try-lock
    last_gen,   \* s->last_gen
    frame,      \* s->frame
    owner,      \* where the owner is: closed, opening, open, closing
    storage,    \* whether the ring's storage exists
    fill,       \* bytes in the ring
    pc,         \* where each caller is
    gen,        \* the generation each caller passes
    op,         \* the call each caller makes
    n,          \* the bytes each caller is about to push
    opens,      \* history: streams opened so far
    stream      \* history: the stream a caller's generation was read from

gateVars == <<live, users, busy, last_gen, frame>>
ownerVars == <<owner, storage, fill, opens>>
callerVars == <<pc, gen, op, n, stream>>
vars == <<gateVars, ownerVars, callerVars>>

\* Where a caller is: out of the gate, counted but not yet let in, or inside.
Out == {"none", "found", "held"}
AtDoor == {"entered", "refused"}
InRing == {"lock", "room", "push", "unlock", "leave"}

Counted(c) == pc[c] \in AtDoor \cup InRing
Inside(c) == pc[c] \in InRing

\* The try-lock is held from the exchange that won it to the store of 0.
Holds(c) == op[c] = "write" /\ pc[c] \in {"room", "push", "unlock"}

Goto(c, to) == pc' = [pc EXCEPT ![c] = to]

\* Generations run over 1 .. GenMod - 1: 0 means closed and is skipped.
NextGen(g) == IF (g + 1) % GenMod = 0 THEN 1 ELSE (g + 1) % GenMod

\* Whole frames only.
Cut(k) == IF frame = 0 THEN k ELSE k - (k % frame)

Init ==
    /\ live = 0 /\ users = 0 /\ busy = 0 /\ last_gen = 0 /\ frame = 0
    /\ owner = "closed" /\ storage = FALSE /\ fill = 0 /\ opens = 0
    /\ pc = [c \in Callers |-> "none"]
    /\ gen = [c \in Callers |-> 0]
    /\ op = [c \in Callers |-> "space"]
    /\ n = [c \in Callers |-> 0]
    /\ stream = [c \in Callers |-> 0]

-----------------------------------------------------------------------------
\* The owner.  One at a time: every caller of open and close holds the host lock.

\* The slot is cleared and pointed at a new, empty ring.
SetRing ==
    /\ owner = "closed"
    /\ storage' = TRUE
    /\ fill' = 0
    /\ UNCHANGED <<gateVars, owner, opens, callerVars>>

OpenPrepare ==
    /\ owner = "closed"
    /\ storage
    /\ opens < MaxOpens
    /\ last_gen' = NextGen(last_gen)
    /\ frame' \in Frames
    /\ opens' = opens + 1
    /\ owner' = "opening"
    /\ UNCHANGED <<live, users, busy, storage, fill, callerVars>>

OpenPublish ==
    /\ owner = "opening"
    /\ live' = last_gen
    /\ owner' = "open"
    /\ UNCHANGED <<users, busy, last_gen, frame, storage, fill, opens, callerVars>>

\* Idempotent: a closed gate may be closed again.
CloseStore ==
    /\ owner \in {"open", "closed"}
    /\ live' = 0
    /\ owner' = "closing"
    /\ UNCHANGED <<users, busy, last_gen, frame, storage, fill, opens, callerVars>>

CloseDone ==
    /\ owner = "closing"
    /\ users = 0
    /\ owner' = "closed"
    /\ UNCHANGED <<gateVars, storage, fill, opens, callerVars>>

\* mod_usbhost.c lets go of the ring once the slot is free.
Release ==
    /\ owner = "closed"
    /\ storage' = FALSE
    /\ UNCHANGED <<gateVars, owner, fill, opens, callerVars>>

\* The isochronous callback takes whole frames while the stream is open.
Drain ==
    /\ owner = "open"
    /\ \E want \in 1 .. fill :
        /\ Cut(want) > 0
        /\ fill' = fill - Cut(want)
    /\ UNCHANGED <<gateVars, owner, storage, opens, callerVars>>

-----------------------------------------------------------------------------
\* A caller.

\* usbhost_stream_out: the stream is there and its `open` flag is set, ...
Find(c) ==
    /\ pc[c] = "none"
    /\ owner = "open"
    /\ Goto(c, "found")
    /\ UNCHANGED <<gateVars, ownerVars, gen, op, n, stream>>

\* ... and then the current generation is read, by then perhaps 0 or newer.
\* A sink is issued only for an open generation that its ctx can carry.
Current(c) ==
    /\ pc[c] = "found"
    /\ IF c \in Interp \/ live \in 1 .. CtxGens
       THEN /\ Goto(c, "held")
            /\ gen' = [gen EXCEPT ![c] = live]
            /\ stream' = [stream EXCEPT ![c] = opens]
       ELSE /\ Goto(c, "none")
            /\ UNCHANGED <<gen, stream>>
    /\ UNCHANGED <<gateVars, ownerVars, op, n>>

\* enter(), first half: counted before `live` is read.
EnterCount(c) ==
    /\ pc[c] = "held"
    /\ users' = users + 1
    /\ \E o \in {"write", "space"} : op' = [op EXCEPT ![c] = o]
    /\ Goto(c, "entered")
    /\ UNCHANGED <<live, busy, last_gen, frame, ownerVars, gen, n, stream>>

\* Mutant: any open stream will do.
EnterCheckAnyGen(c) ==
    /\ pc[c] = "entered"
    /\ Goto(c, IF gen[c] = 0 \/ live = 0 THEN "refused"
               ELSE IF op[c] = "write" THEN "lock" ELSE "room")
    /\ UNCHANGED <<gateVars, ownerVars, gen, op, n, stream>>

\* enter(), second half: let in only under the open generation.
EnterCheck(c) ==
    /\ pc[c] = "entered"
    /\ Goto(c, IF gen[c] = 0 \/ live # gen[c] THEN "refused"
               ELSE IF op[c] = "write" THEN "lock" ELSE "room")
    /\ UNCHANGED <<gateVars, ownerVars, gen, op, n, stream>>

\* The caller's locals end with its call, its generation with its sink.
EndCall(c, forget) ==
    /\ op' = [op EXCEPT ![c] = "space"]
    /\ n' = [n EXCEPT ![c] = 0]
    /\ IF forget
       THEN /\ Goto(c, "none")
            /\ gen' = [gen EXCEPT ![c] = 0]
            /\ stream' = [stream EXCEPT ![c] = 0]
       ELSE Goto(c, "held") /\ UNCHANGED <<gen, stream>>

\* Mutant: the early return leaves its count behind.
RefuseLeak(c) ==
    /\ pc[c] = "refused"
    /\ EndCall(c, TRUE)
    /\ UNCHANGED <<gateVars, ownerVars>>

\* -1: uncounted again; "stop and forget this sink".
Refuse(c) ==
    /\ pc[c] = "refused"
    /\ users' = users - 1
    /\ EndCall(c, TRUE)
    /\ UNCHANGED <<live, busy, last_gen, frame, ownerVars>>

\* The loser of the exchange takes nothing.
TryLock(c) ==
    /\ pc[c] = "lock"
    /\ busy' = 1
    /\ Goto(c, IF busy = 0 THEN "room" ELSE "leave")
    /\ UNCHANGED <<live, users, last_gen, frame, ownerVars, gen, op, n, stream>>

\* Mutant: the request is pushed whole, whatever the room.
RoomIgnored(c) ==
    /\ pc[c] = "room"
    /\ \/ /\ op[c] = "space"
          /\ Goto(c, "leave")
          /\ UNCHANGED n
       \/ /\ op[c] = "write"
          /\ \E len \in Requests :
                /\ n' = [n EXCEPT ![c] = Cut(len)]
                /\ Goto(c, IF Cut(len) > 0 THEN "push" ELSE "unlock")
    /\ UNCHANGED <<gateVars, ownerVars, gen, op, stream>>

\* ops->room, and for a write the whole frames of the request that fit.
Room(c) ==
    /\ pc[c] = "room"
    /\ \/ /\ op[c] = "space"
          /\ Goto(c, "leave")
          /\ UNCHANGED n
       \/ /\ op[c] = "write"
          /\ \E len \in Requests :
                LET fits == IF len < Capacity - fill THEN len ELSE Capacity - fill
                IN  /\ n' = [n EXCEPT ![c] = Cut(fits)]
                    /\ Goto(c, IF Cut(fits) > 0 THEN "push" ELSE "unlock")
    /\ UNCHANGED <<gateVars, ownerVars, gen, op, stream>>

Push(c) ==
    /\ pc[c] = "push"
    /\ fill' = fill + n[c]
    /\ Goto(c, "unlock")
    /\ UNCHANGED <<gateVars, owner, storage, opens, gen, op, n, stream>>

Unlock(c) ==
    /\ pc[c] = "unlock"
    /\ busy' = 0
    /\ Goto(c, "leave")
    /\ UNCHANGED <<live, users, last_gen, frame, ownerVars, gen, op, n, stream>>

\* An interpreter's call is over; a task keeps its sink for the next one.
Leave(c) ==
    /\ pc[c] = "leave"
    /\ users' = users - 1
    /\ EndCall(c, c \in Interp)
    /\ UNCHANGED <<live, busy, last_gen, frame, ownerVars>>

\* The steps of a call once it has begun.
InCall(c) ==
    \/ EnterCheck(c) \/ Refuse(c) \/ TryLock(c)
    \/ Room(c) \/ Push(c) \/ Unlock(c) \/ Leave(c)

Owner ==
    SetRing \/ OpenPrepare \/ OpenPublish \/ CloseStore \/ CloseDone \/ Release \/ Drain

Next ==
    \/ Owner
    \/ \E c \in Callers : Find(c) \/ Current(c) \/ EnterCount(c) \/ InCall(c)

Spec == Init /\ [][Next]_vars

\* A call that has begun runs on: no step of one blocks.  close() keeps looking
\* at `users`.  Nobody is obliged to call, to open or to close.
Fairness ==
    /\ WF_vars(CloseDone)
    /\ \A c \in Callers : WF_vars(InCall(c))

FairSpec == Spec /\ Fairness

-----------------------------------------------------------------------------
\* The types of the gate's words and of the callers' locals.
TypeOK ==
    /\ live \in 0 .. GenMod - 1 /\ last_gen \in 0 .. GenMod - 1
    /\ users \in Nat /\ busy \in {0, 1} /\ frame \in Frames \cup {0}
    /\ owner \in {"closed", "opening", "open", "closing"}
    /\ storage \in BOOLEAN /\ fill \in Int /\ opens \in Nat
    /\ pc \in [Callers -> Out \cup AtDoor \cup InRing]
    /\ gen \in [Callers -> 0 .. GenMod - 1]
    /\ op \in [Callers -> {"write", "space"}]
    /\ n \in [Callers -> Nat]
    /\ stream \in [Callers -> Nat]

\* "After usbhost_pcm_sink_close() returns, no call is inside the ring": a call
\* inside finds the ring's storage there and the stream it entered still the
\* latest, never one that was closed, released or opened anew under it.
RingOutlivesCalls ==
    \A c \in Callers :
        Inside(c) => owner \in {"open", "closing"} /\ storage /\ gen[c] = last_gen

\* "The loser of a race takes 0 bytes rather than corrupting the ring's head":
\* at most one writer at the ring, `busy` set exactly while there is one, and
\* what it is about to push still fits, in whole frames.
OneProducer ==
    /\ \A c, d \in Callers : Holds(c) /\ Holds(d) => c = d
    /\ busy = 1 <=> \E c \in Callers : Holds(c)
    /\ fill \in 0 .. Capacity
    /\ \A c \in Callers :
        pc[c] = "push" => n[c] \in 1 .. (Capacity - fill) /\ (frame # 0 => n[c] % frame = 0)

\* "A sink handed out for one stream stays dead after that stream closes, even
\* once another stream opens": short of a full turn of the generations, a call
\* is let in only for the stream its generation was read from.
SinkStaysClosed ==
    \A c \in Callers :
        Inside(c) => stream[c] = opens \/ opens - stream[c] >= GenMod - 1

\* close() waits without a bound; every call it waits for comes out.
CloseReturns == (owner = "closing") ~> (owner = "closed")

\* The counters implement the abstract gate.
Gate == INSTANCE PcmGate WITH
    phase <- IF owner = "opening" THEN "closed" ELSE owner,
    inside <- {c \in Callers : Inside(c)},
    stored <- fill

GateSpec == Gate!Spec
=============================================================================
