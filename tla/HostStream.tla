----------------------------- MODULE HostStream -----------------------------
(***************************************************************************)
(* The isochronous streams of usbhost_host_stream.c: the slots, their      *)
(* transfers in flight, the roots of their rings in mod_usbhost.c, and the *)
(* stops, which pump the client's events under the host lock.  A pump runs *)
(* callbacks and may report the device gone, which stops streams in turn,  *)
(* inside the wait of the stop that pumps.                                 *)
(*                                                                         *)
(* Two stops can be under way: the interpreter's ("call") and, alone or    *)
(* inside one of the former's waits, that of a device that goes ("gone").  *)
(* A region with the lock held and no pump is one step.                    *)
(*                                                                         *)
(* The library is external.  It has a submitted transfer until the pump    *)
(* hands it back, and it may keep one for ever.                            *)
(***************************************************************************)
EXTENDS Integers

CONSTANTS
    Streams,    \* USBHOST_HOST_STREAMS, slots in the table
    MaxXfer,    \* USBHOST_ISO_MAX_XFER, transfers a stream may have
    Eps,        \* isochronous endpoints, each of an interface of its own
    Addrs       \* the addresses a device may have: its dev_id

ASSUME HostStreamAssumption == Streams \in Nat \ {0} /\ MaxXfer \in Nat \ {0}

Slots == 0 .. Streams - 1
Stops == {"call", "gone"}

VARIABLES
    dev,        \* the device: here, leaving (the library knows), gone (so do we)
    addr,       \* its dev_id
    used,       \* s->used
    open,       \* s->open
    gone,       \* s->gone
    key,        \* s->dev_id and s->ep
    inflight,   \* s->inflight
    queued,     \* the slot's transfers the library has queued, ...
    back,       \* ... and those it has completed and not handed back
    rooted,     \* usbhost_stream_owner[s] is the ring of the slot's stream
    stage,      \* where each stop is
    cur,        \* the slot it is at
    todo,       \* the slots its loop has not come to
    api,        \* the interpreter's call
    slot        \* the slot an open has returned

slotVars == <<used, open, gone, key, inflight>>
libVars == <<queued, back>>
stopVars == <<stage, cur, todo>>
vars == <<dev, addr, slotVars, libVars, rooted, stopVars, api, slot>>

Keys == Addrs \X Eps

Init ==
    /\ dev = "here" /\ addr \in Addrs
    /\ used = [s \in Slots |-> FALSE] /\ open = [s \in Slots |-> FALSE]
    /\ gone = [s \in Slots |-> FALSE] /\ rooted = [s \in Slots |-> FALSE]
    /\ \E k \in Keys : key = [s \in Slots |-> k]
    /\ inflight = [s \in Slots |-> 0] /\ queued = [s \in Slots |-> 0] /\ back = [s \in Slots |-> 0]
    /\ stage = [a \in Stops |-> "off"] /\ cur = [a \in Stops |-> 0] /\ todo = [a \in Stops |-> {}]
    /\ api = "idle" /\ slot = 0

\* The lock is recursive: a stop in the pump of another is what runs.
LockFree == \A a \in Stops : stage[a] = "off"
Running(a) == stage[a] # "off" /\ (a = "call" => stage["gone"] = "off")
Waits == {"retire", "halted", "lingering"}
Pumped == LockFree \/ \E a \in Stops : Running(a) /\ stage[a] \in Waits

Find(k) == {s \in Slots : used[s] /\ key[s] = k}
First(S) == {s \in S : \A t \in S : s <= t}

-----------------------------------------------------------------------------
\* Opening: usbhost_stream_open_locked and the rest of host_stream().

\* A free slot with n of its transfers submitted.  An open that gets too few
\* transfers, or none submitted, frees the slot again before it lets the lock go.
Open(e, n) ==
    /\ api = "idle" /\ LockFree /\ dev = "here"
    /\ Find(<<addr, e>>) = {}
    /\ \E s \in First({t \in Slots : ~used[t]}) :
        /\ used' = [used EXCEPT ![s] = TRUE]
        /\ open' = [open EXCEPT ![s] = TRUE]
        /\ gone' = [gone EXCEPT ![s] = FALSE]
        /\ key' = [key EXCEPT ![s] = <<addr, e>>]
        /\ inflight' = [inflight EXCEPT ![s] = n]
        /\ queued' = [queued EXCEPT ![s] = @ + n]
        /\ rooted' = [rooted EXCEPT ![s] = FALSE]
        /\ slot' = s
    /\ api' = "opened"
    /\ UNCHANGED <<dev, addr, back, stopVars>>

\* Without the lock: the roots of free slots go, then the new ring's is set.
Root ==
    /\ api = "opened"
    /\ rooted' = [s \in Slots |-> s = slot \/ (rooted[s] /\ used[s])]
    /\ api' = "idle"
    /\ UNCHANGED <<dev, addr, slotVars, libVars, stopVars, slot>>

-----------------------------------------------------------------------------
\* Stopping.

Begin(a, S) ==
    /\ stage' = [stage EXCEPT ![a] = "next"]
    /\ todo' = [todo EXCEPT ![a] = S]
    /\ UNCHANGED cur

\* host_stream(dev_id, ep, None)
Close(k) ==
    /\ api = "idle" /\ LockFree
    /\ Begin("call", First(Find(k)))
    /\ api' = "closing"
    /\ UNCHANGED <<dev, addr, slotVars, libVars, rooted, slot>>

\* host_stop()
CloseAll ==
    /\ api = "idle" /\ LockFree
    /\ Begin("call", Slots)
    /\ api' = "closing"
    /\ UNCHANGED <<dev, addr, slotVars, libVars, rooted, slot>>

\* An interface is released, or claimed at another alternate setting.  The
\* slots of a device that has gone are not this device's.
StopItf(e) ==
    /\ api = "idle" /\ LockFree /\ dev # "gone"
    /\ Begin("call", {s \in Slots : used[s] /\ ~gone[s] /\ key[s] = <<addr, e>>})
    /\ api' = "releasing"
    /\ UNCHANGED <<dev, addr, slotVars, libVars, rooted, slot>>

\* usbhost_host_on_dev_gone, from the host task's pump or a stop's
DevGone ==
    /\ dev = "leaving" /\ Pumped /\ stage["gone"] = "off"
    /\ Begin("gone", {s \in Slots : used[s] /\ ~gone[s]})
    /\ UNCHANGED <<dev, addr, slotVars, libVars, rooted, api, slot>>

\* The loop's next slot: it resubmits no more.
StopSlot(a) ==
    /\ Running(a) /\ stage[a] = "next"
    /\ \E s \in First(todo[a]) :
        /\ todo' = [todo EXCEPT ![a] = @ \ {s}]
        /\ IF used[s]
           THEN /\ open' = [open EXCEPT ![s] = FALSE]
                /\ gone' = [gone EXCEPT ![s] = @ \/ a = "gone"]
                /\ cur' = [cur EXCEPT ![a] = s]
                /\ stage' = [stage EXCEPT ![a] = "retire"]
           ELSE UNCHANGED <<open, gone, cur, stage>>
    /\ UNCHANGED <<dev, addr, used, key, inflight, libVars, rooted, api, slot>>

\* Mutant: only an empty endpoint ends the wait.
RetireAll(a) ==
    /\ Running(a) /\ stage[a] = "retire"
    /\ inflight[cur[a]] = 0
    /\ used' = [used EXCEPT ![cur[a]] = FALSE]
    /\ stage' = [stage EXCEPT ![a] = "next"]
    /\ UNCHANGED <<dev, addr, open, gone, key, inflight, libVars, rooted, cur, todo, api, slot>>

Retired(a) ==
    /\ inflight[cur[a]] = 0
    /\ used' = [used EXCEPT ![cur[a]] = FALSE]
    /\ stage' = [stage EXCEPT ![a] = "next"]
    /\ UNCHANGED libVars

\* Halt and flush: what is queued completes, sooner or later.
Halt(a) ==
    /\ inflight[cur[a]] > 0 /\ ~gone[cur[a]]
    /\ stage' = [stage EXCEPT ![a] = "halted"]
    /\ \/ /\ queued' = [queued EXCEPT ![cur[a]] = 0]
          /\ back' = [back EXCEPT ![cur[a]] = @ + queued[cur[a]]]
       \/ UNCHANGED libVars
    /\ UNCHANGED used

Linger(a) ==
    /\ inflight[cur[a]] > 0 /\ gone[cur[a]]
    /\ stage' = [stage EXCEPT ![a] = "lingering"]
    /\ UNCHANGED <<used, libVars>>

\* All are back, or the first wait's time is up.
RetireEnds(a) ==
    /\ Running(a) /\ stage[a] = "retire"
    /\ Retired(a) \/ Halt(a) \/ Linger(a)
    /\ UNCHANGED <<dev, addr, open, gone, key, inflight, rooted, cur, todo, api, slot>>

\* Mutant: the slot is freed whatever is still out.
FreeAnyway(a) ==
    /\ Running(a) /\ stage[a] \in {"halted", "lingering"}
    /\ used' = [used EXCEPT ![cur[a]] = FALSE]
    /\ stage' = [stage EXCEPT ![a] = "next"]
    /\ UNCHANGED <<dev, addr, open, gone, key, inflight, libVars, rooted, cur, todo, api, slot>>

\* The second wait's: the slot is left as it is while a transfer is out.
HaltEnds(a) ==
    /\ Running(a) /\ stage[a] \in {"halted", "lingering"}
    /\ used' = [used EXCEPT ![cur[a]] = @ /\ inflight[cur[a]] > 0]
    /\ stage' = [stage EXCEPT ![a] = "next"]
    /\ UNCHANGED <<dev, addr, open, gone, key, inflight, libVars, rooted, cur, todo, api, slot>>

\* The loop is through.  A device that has gone is closed.
StopEnds(a) ==
    /\ Running(a) /\ stage[a] = "next" /\ todo[a] = {}
    /\ stage' = [stage EXCEPT ![a] = "off"]
    /\ dev' = IF a = "gone" THEN "gone" ELSE dev
    /\ api' = IF a = "gone" THEN api ELSE IF api = "closing" THEN "closed" ELSE "idle"
    /\ UNCHANGED <<addr, slotVars, libVars, rooted, cur, todo, slot>>

\* Mutant: the ring's root goes whether or not its slot is free.
ReleaseAll ==
    /\ api = "closed"
    /\ rooted' = [s \in Slots |-> FALSE]
    /\ api' = "idle"
    /\ UNCHANGED <<dev, addr, slotVars, libVars, stopVars, slot>>

\* usbhost_stream_release_owners, without the lock
ReleaseOwners ==
    /\ api = "closed"
    /\ rooted' = [s \in Slots |-> rooted[s] /\ used[s]]
    /\ api' = "idle"
    /\ UNCHANGED <<dev, addr, slotVars, libVars, stopVars, slot>>

-----------------------------------------------------------------------------
\* usbhost_stream_cb, from the pump.

\* Filled or emptied and submitted again, while the stream is open; the library
\* may refuse it, and does once the device has left.
Callback(s) ==
    /\ Pumped /\ back[s] > 0
    /\ back' = [back EXCEPT ![s] = @ - 1]
    /\ \/ /\ open[s] /\ dev = "here"
          /\ queued' = [queued EXCEPT ![s] = @ + 1]
          /\ UNCHANGED inflight
       \/ /\ inflight' = [inflight EXCEPT ![s] = @ - 1]
          /\ UNCHANGED queued
    /\ UNCHANGED <<dev, addr, used, open, gone, key, rooted, stopVars, api, slot>>

-----------------------------------------------------------------------------
\* The library and the bus.

Complete(s) ==
    /\ queued[s] > 0
    /\ queued' = [queued EXCEPT ![s] = @ - 1]
    /\ back' = [back EXCEPT ![s] = @ + 1]
    /\ UNCHANGED <<dev, addr, slotVars, rooted, stopVars, api, slot>>

\* What is queued completes with NO_DEVICE.
Unplug ==
    /\ dev = "here"
    /\ dev' = "leaving"
    /\ queued' = [s \in Slots |-> 0]
    /\ back' = [s \in Slots |-> back[s] + queued[s]]
    /\ UNCHANGED <<addr, slotVars, rooted, stopVars, api, slot>>

\* Another device, at the same address or at another
Plug ==
    /\ dev = "gone" /\ Pumped
    /\ dev' = "here"
    /\ addr' \in Addrs
    /\ UNCHANGED <<slotVars, libVars, rooted, stopVars, api, slot>>

-----------------------------------------------------------------------------
Call ==
    \/ \E e \in Eps : StopItf(e) \/ \E n \in 1 .. MaxXfer : Open(e, n)
    \/ \E k \in Keys : Close(k)
    \/ CloseAll

InStop(a) == StopSlot(a) \/ RetireEnds(a) \/ HaltEnds(a) \/ StopEnds(a)

InCall == Root \/ ReleaseOwners

Pump == DevGone \/ Unplug \/ Plug \/ \E s \in Slots : Callback(s) \/ Complete(s)

Next == Call \/ (\E a \in Stops : InStop(a)) \/ InCall \/ Pump

Spec == Init /\ [][Next]_vars

\* Each wait has its limit, however often the pump takes the stop elsewhere.
FairSpec == Spec /\ WF_vars(InCall) /\ \A a \in Stops : SF_vars(InStop(a))

-----------------------------------------------------------------------------
\* The slots, the library's count of each and the two stops.
TypeOK ==
    /\ dev \in {"here", "leaving", "gone"} /\ addr \in Addrs
    /\ used \in [Slots -> BOOLEAN] /\ open \in [Slots -> BOOLEAN]
    /\ gone \in [Slots -> BOOLEAN] /\ rooted \in [Slots -> BOOLEAN]
    /\ key \in [Slots -> Keys]
    /\ inflight \in [Slots -> 0 .. MaxXfer]
    /\ queued \in [Slots -> 0 .. MaxXfer] /\ back \in [Slots -> 0 .. MaxXfer]
    /\ stage \in [Stops -> {"off", "next"} \cup Waits]
    /\ cur \in [Stops -> Slots] /\ todo \in [Stops -> SUBSET Slots]
    /\ api \in {"idle", "opened", "closing", "releasing", "closed"} /\ slot \in Slots

\* s->inflight is what the library has: neither a resubmission that was refused,
\* nor a stop inside a stop, nor a slot that is used again makes it anything else.
InflightIsHeld == \A s \in Slots : inflight[s] = queued[s] + back[s]

\* "The ring is the caller's again once this returns": a transfer may move bytes
\* only while its ring is held by a root, or still by the call that opened it.
RingIsHeld == \A s \in Slots : open[s] => rooted[s] \/ (api = "opened" /\ slot = s)

\* An endpoint has one stream, running or retiring.
OnePerEndpoint ==
    \A s, t \in Slots : used[s] /\ used[t] /\ key[s] = key[t] => s = t

\* A call that stops a stream returns, whatever the transfers and the device do.
CallsReturn == (api # "idle") ~> (api = "idle")

\* "A gone device has nothing to halt": when the wait after a halt ends, the
\* endpoint that is cleared is that of a device still open.
ClearHasDevice ==
    \A a \in Stops : Running(a) /\ stage[a] = "halted" => ~gone[cur[a]]

\* A slot is free, runs, or drains; the library has some of its transfers.
State == [s \in Slots |-> IF ~used[s] THEN "free" ELSE IF open[s] THEN "running" ELSE "draining"]
Held == [s \in Slots |-> queued[s] + back[s]]

\* "Transfers never freed while the library still holds them": a stop only takes
\* transfers back and frees the slot, and its transfers, once none is out.
Abstract == INSTANCE StreamSlots WITH state <- State, held <- Held

StreamSlotsSpec == Abstract!Spec
=============================================================================
