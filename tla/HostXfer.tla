------------------------------ MODULE HostXfer ------------------------------
(***************************************************************************)
(* The bulk and interrupt pipes of usbhost_host_xfer.c: one interface of   *)
(* one device, the interpreter's blocking reads, writes and polls on it,   *)
(* and the pump that completes them and reports the device gone.           *)
(*                                                                         *)
(* A region under the host lock is one step.  A call lets the lock go      *)
(* while it waits, and there the pump moves; a bounded wait may end at any *)
(* time.  A poll that does not wait is a kept read that times out at once. *)
(*                                                                         *)
(* The library is external: it has a submitted transfer until it completes *)
(* it, completes everything when the device goes or an endpoint is flushed,*)
(* and hands a device's completions over before it reports the device gone.*)
(***************************************************************************)
EXTENDS Integers, FiniteSets

CONSTANTS
    In,         \* the interface's IN endpoints
    Out         \* and its OUT endpoints

Eps == In \cup Out

ASSUME HostXferAssumption == In \cap Out = {}

VARIABLES
    dev,        \* the device: here, leaving (the library knows), gone (so do we)
    claimed,    \* the interface is claimed
    in_use,     \* pipe->in_use, and with it that its semaphore exists
    xfer,       \* pipe->xfer: none yet, cached, or lost (NULL, its size still known)
    busy,       \* pipe->busy
    kept,       \* pipe->kept
    done,       \* pipe->done, the semaphore
    where,      \* the pipe's transfer: ours, queued or completed
    full,       \* its buffer holds bytes that no call has been given
    api,        \* where the interpreter's call is
    ep,         \* the endpoint it is at
    keep,       \* its keep argument
    todo        \* the endpoints whose pipes a release has yet to drop

pipeVars == <<in_use, xfer, busy, kept, done, where, full>>
callVars == <<api, ep, keep, todo>>
vars == <<dev, claimed, pipeVars, callVars>>

NoPipes == [e \in Eps |-> FALSE]

Init ==
    /\ dev = "here" /\ claimed = FALSE
    /\ in_use = NoPipes /\ busy = NoPipes /\ kept = NoPipes /\ done = NoPipes /\ full = NoPipes
    /\ where = [e \in Eps |-> "ours"] /\ xfer = [e \in Eps |-> "none"]
    /\ api = "idle" /\ ep \in Eps /\ keep = FALSE /\ todo = {}

Listed == dev # "gone"      \* usbhost_host_dev_lookup finds it
Idle == api = "idle" /\ Listed

\* The host lock is the call's own while it goes through the pipes.
LockFree == api # "releasing"

-----------------------------------------------------------------------------
\* Interfaces: usbhost_xfer_claim and usbhost_xfer_release.

Claim ==
    /\ Idle /\ dev = "here" /\ ~claimed
    /\ claimed' = TRUE
    /\ UNCHANGED <<dev, pipeVars, callVars>>

\* A release, or a claim at another alternate setting: the pipes go first.
Release ==
    /\ Idle /\ claimed
    /\ todo' = Eps
    /\ api' = "releasing"
    /\ UNCHANGED <<dev, claimed, pipeVars, ep, keep>>

\* Mutant: a pipe still in flight is freed with the others.
DropInFlight(e) ==
    /\ api = "releasing" /\ e \in todo
    /\ in_use' = [in_use EXCEPT ![e] = FALSE]
    /\ todo' = todo \ {e}
    /\ UNCHANGED <<dev, claimed, xfer, busy, kept, done, where, full, api, ep, keep>>

DropIdle(e) ==
    /\ api = "releasing" /\ e \in todo
    /\ in_use[e] => ~busy[e]
    /\ in_use' = [in_use EXCEPT ![e] = FALSE]
    /\ todo' = todo \ {e}
    /\ UNCHANGED <<dev, claimed, xfer, busy, kept, done, where, full, api, ep, keep>>

\* Halt and flush: the library gives a queued transfer back, sooner or later.
Flush(e) == where' = IF where[e] = "queued" THEN [where EXCEPT ![e] = "completed"] ELSE where

DropBusy(e) ==
    /\ api = "releasing" /\ e \in todo
    /\ in_use[e] /\ busy[e]
    /\ Flush(e) \/ UNCHANGED where
    /\ ep' = e
    /\ api' = "dropping"
    /\ UNCHANGED <<dev, claimed, xfer, in_use, busy, kept, done, full, keep, todo>>

\* The semaphore or 100 ms, ...
DropWaitEnds ==
    /\ api = "dropping"
    /\ done' = [done EXCEPT ![ep] = FALSE]
    /\ api' = "dropped"
    /\ UNCHANGED <<dev, claimed, xfer, in_use, busy, kept, where, full, ep, keep, todo>>

\* ... and, with the lock back, freed unless it "never retired".
DropEnds ==
    /\ api = "dropped"
    /\ in_use' = [in_use EXCEPT ![ep] = @ /\ busy[ep]]
    /\ todo' = todo \ {ep}
    /\ api' = "releasing"
    /\ UNCHANGED <<dev, claimed, xfer, busy, kept, done, where, full, ep, keep>>

\* The library's release is tried with the lock let go between tries.
Dropped ==
    /\ api = "releasing" /\ todo = {}
    /\ api' = "leaving"
    /\ UNCHANGED <<dev, claimed, pipeVars, ep, keep, todo>>

\* Claimed again at once for another alternate setting.
Released ==
    /\ api = "leaving"
    /\ claimed' \in {FALSE, claimed /\ dev = "here"}
    /\ api' = "idle"
    /\ UNCHANGED <<dev, pipeVars, ep, keep, todo>>

-----------------------------------------------------------------------------
\* Transfers: usbhost_xfer_ep_.

\* EBUSY while the pipe is in flight; a lost transfer is a NULL dereference.
Ready(e) == in_use[e] => ~busy[e] /\ ~kept[e] /\ xfer[e] # "lost"

\* Mutant: a kept transfer is submitted again.
SubmitOverKept(e, k) ==
    /\ Idle /\ claimed
    /\ in_use[e] => (busy[e] => kept[e]) /\ xfer[e] # "lost"
    /\ in_use' = [in_use EXCEPT ![e] = TRUE]
    /\ xfer' = [xfer EXCEPT ![e] = "cached"]
    /\ done' = [done EXCEPT ![e] = FALSE]
    /\ kept' = [kept EXCEPT ![e] = FALSE]
    /\ full' = [full EXCEPT ![e] = FALSE]
    /\ busy' = [busy EXCEPT ![e] = TRUE]
    /\ where' = [where EXCEPT ![e] = "queued"]
    /\ api' = "waiting" /\ ep' = e /\ keep' = k
    /\ UNCHANGED <<dev, claimed, todo>>

\* Mutant: the semaphore keeps what an earlier transfer left in it.
SubmitStale(e, k) ==
    /\ Idle /\ claimed
    /\ Ready(e)
    /\ in_use' = [in_use EXCEPT ![e] = TRUE]
    /\ xfer' = [xfer EXCEPT ![e] = "cached"]
    /\ kept' = [kept EXCEPT ![e] = FALSE]
    /\ full' = [full EXCEPT ![e] = FALSE]
    /\ IF dev = "here"
       THEN /\ busy' = [busy EXCEPT ![e] = TRUE]
            /\ where' = [where EXCEPT ![e] = "queued"]
            /\ api' = "waiting" /\ ep' = e /\ keep' = k
       ELSE /\ busy' = [busy EXCEPT ![e] = FALSE]
            /\ UNCHANGED <<where, api, ep, keep>>
    /\ UNCHANGED <<dev, claimed, done, todo>>

\* A transfer that is ours, made or grown if need be.
Submit(e, k) ==
    /\ Idle /\ claimed
    /\ Ready(e)
    /\ in_use' = [in_use EXCEPT ![e] = TRUE]
    /\ xfer' = [xfer EXCEPT ![e] = "cached"]
    /\ done' = [done EXCEPT ![e] = FALSE]
    /\ kept' = [kept EXCEPT ![e] = FALSE]
    /\ full' = [full EXCEPT ![e] = FALSE]
    /\ IF dev = "here"
       THEN /\ busy' = [busy EXCEPT ![e] = TRUE]
            /\ where' = [where EXCEPT ![e] = "queued"]
            /\ api' = "waiting" /\ ep' = e /\ keep' = k
       ELSE /\ busy' = [busy EXCEPT ![e] = FALSE]
            /\ UNCHANGED <<where, api, ep, keep>>
    /\ UNCHANGED <<dev, claimed, todo>>

\* No memory for a transfer, or for one that is larger than the one just freed.
NoMemory(e) ==
    /\ Idle /\ claimed
    /\ Ready(e)
    /\ in_use' = [in_use EXCEPT ![e] = TRUE]
    /\ xfer' = [xfer EXCEPT ![e] = IF in_use[e] /\ @ = "cached" THEN "lost" ELSE "none"]
    /\ busy' = [busy EXCEPT ![e] = FALSE]
    /\ kept' = [kept EXCEPT ![e] = FALSE]
    /\ full' = [full EXCEPT ![e] = FALSE]
    /\ done' = [done EXCEPT ![e] = @ /\ in_use[e]]
    /\ UNCHANGED <<dev, claimed, where, callVars>>

\* A kept transfer is collected instead, armed or finished.
Collect(e, k) ==
    /\ Idle
    /\ in_use[e] /\ kept[e]
    /\ kept' = [kept EXCEPT ![e] = FALSE]
    /\ api' = "waiting" /\ ep' = e /\ keep' = k
    /\ UNCHANGED <<dev, claimed, xfer, in_use, busy, done, where, full, todo>>

\* Mutant: only the semaphore ends the wait.
WaitForGood ==
    /\ api = "waiting"
    /\ ~in_use[ep] \/ done[ep]
    /\ api' \in IF in_use[ep] THEN {"woken"} ELSE {"woken", "late"}
    /\ done' = [done EXCEPT ![ep] = FALSE]
    /\ UNCHANGED <<dev, claimed, xfer, in_use, busy, kept, where, full, ep, keep, todo>>

\* What a semaphore that was deleted under its waiter says is anybody's guess.
WaitEnds ==
    /\ api = "waiting"
    /\ api' \in IF ~in_use[ep] THEN {"woken", "late"} ELSE IF done[ep] THEN {"woken"} ELSE {"late"}
    /\ done' = [done EXCEPT ![ep] = FALSE]
    /\ UNCHANGED <<dev, claimed, xfer, in_use, busy, kept, where, full, ep, keep, todo>>

\* Bytes and status are read from the transfer under the lock.
Woken ==
    /\ api = "woken"
    /\ full' = [full EXCEPT ![ep] = FALSE]
    /\ api' = "idle"
    /\ UNCHANGED <<dev, claimed, xfer, in_use, busy, kept, done, where, ep, keep, todo>>

\* A poll's transfer stays armed.
LateKept ==
    /\ api = "late"
    /\ keep /\ ep \in In
    /\ kept' = [kept EXCEPT ![ep] = TRUE]
    /\ api' = "idle"
    /\ UNCHANGED <<dev, claimed, xfer, in_use, busy, done, where, full, ep, keep, todo>>

\* usbhost_xfer_retire
Late ==
    /\ api = "late"
    /\ ~(keep /\ ep \in In)
    /\ Flush(ep) \/ UNCHANGED where
    /\ api' = "retiring"
    /\ UNCHANGED <<dev, claimed, xfer, in_use, busy, kept, done, full, ep, keep, todo>>

RetireWaitEnds ==
    /\ api = "retiring"
    /\ done' = [done EXCEPT ![ep] = FALSE]
    /\ api' = "retired"
    /\ UNCHANGED <<dev, claimed, xfer, in_use, busy, kept, where, full, ep, keep, todo>>

\* What landed before the halt is handed over; ETIMEDOUT otherwise.
Retired ==
    /\ api = "retired"
    /\ full' = [full EXCEPT ![ep] = @ /\ busy[ep]]
    /\ api' = "idle"
    /\ UNCHANGED <<dev, claimed, xfer, in_use, busy, kept, done, where, ep, keep, todo>>

InCall ==
    \/ \E e \in Eps : DropIdle(e) \/ DropBusy(e)
    \/ DropWaitEnds \/ DropEnds \/ Dropped \/ Released
    \/ WaitEnds \/ Woken \/ LateKept \/ Late \/ RetireWaitEnds \/ Retired

Call ==
    \/ Claim \/ Release
    \/ \E e \in Eps : NoMemory(e)
    \/ \E e \in Eps, k \in BOOLEAN : Submit(e, k) \/ Collect(e, k)

-----------------------------------------------------------------------------
\* The pump, the library and the bus.

\* The device sends or takes bytes, or the library gives up on it.
Complete(e) ==
    /\ where[e] = "queued"
    /\ where' = [where EXCEPT ![e] = "completed"]
    /\ full' \in {[full EXCEPT ![e] = b] : b \in IF e \in In THEN BOOLEAN ELSE {FALSE}}
    /\ UNCHANGED <<dev, claimed, xfer, in_use, busy, kept, done, callVars>>

\* usbhost_xfer_cb, from the host task or a call's own pump
Callback(e) ==
    /\ LockFree
    /\ where[e] = "completed"
    /\ where' = [where EXCEPT ![e] = "ours"]
    /\ busy' = [busy EXCEPT ![e] = FALSE]
    /\ done' = [done EXCEPT ![e] = TRUE]
    /\ UNCHANGED <<dev, claimed, xfer, in_use, kept, full, callVars>>

Unplug ==
    /\ dev = "here"
    /\ dev' = "leaving"
    /\ where' = [e \in Eps |-> IF where[e] = "queued" THEN "completed" ELSE where[e]]
    /\ UNCHANGED <<claimed, xfer, in_use, busy, kept, done, full, callVars>>

\* usbhost_xfer_on_dev_gone: every pipe is dropped, every claim released.
DevGone ==
    /\ LockFree
    /\ dev = "leaving"
    /\ \A e \in Eps : where[e] = "ours"
    /\ dev' = "gone"
    /\ in_use' = [e \in Eps |-> in_use[e] /\ busy[e]]
    /\ claimed' = FALSE
    /\ UNCHANGED <<xfer, busy, kept, done, where, full, callVars>>

Plug ==
    /\ dev = "gone"
    /\ dev' = "here"
    /\ UNCHANGED <<claimed, pipeVars, callVars>>

Pump == (\E e \in Eps : Complete(e) \/ Callback(e)) \/ Unplug \/ DevGone \/ Plug

Next == Call \/ InCall \/ Pump

Spec == Init /\ [][Next]_vars

\* Each wait is bounded (a timeout was given), and nothing else blocks.
FairSpec == Spec /\ WF_vars(InCall)

-----------------------------------------------------------------------------
\* The pipes' flags, their transfers and the call; only a read is ever kept.
TypeOK ==
    /\ dev \in {"here", "leaving", "gone"} /\ claimed \in BOOLEAN
    /\ in_use \in [Eps -> BOOLEAN] /\ busy \in [Eps -> BOOLEAN] /\ kept \in [Eps -> BOOLEAN]
    /\ done \in [Eps -> BOOLEAN] /\ full \in [Eps -> BOOLEAN]
    /\ where \in [Eps -> {"ours", "queued", "completed"}]
    /\ xfer \in [Eps -> {"none", "cached", "lost"}]
    /\ \A e \in Out : ~kept[e]
    /\ api \in {"idle", "waiting", "woken", "late", "retiring", "retired",
                "releasing", "dropping", "dropped", "leaving"}
    /\ ep \in Eps /\ keep \in BOOLEAN /\ todo \subseteq Eps

\* "A pipe with a transfer still in flight is never reused or freed until its
\* callback has run": the library has a transfer exactly while its pipe is busy.
InFlightIsBusy ==
    \A e \in Eps : where[e] # "ours" <=> in_use[e] /\ busy[e]

\* A call is woken by the completion it waits for, and a semaphore that says
\* done is the word of a transfer that is back, whichever call it was for.
WokenByOwn ==
    /\ api = "woken" => where[ep] = "ours"
    /\ \A e \in Eps : done[e] => where[e] = "ours"

\* Bytes that a kept poll received stay until a read has them: only the device's
\* departure or the interface's release may drop them.
KeptBytesStay ==
    [][\A e \in Eps : kept[e] /\ in_use[e] /\ full[e] => full'[e] \/ ~in_use'[e]]_vars

\* Every call returns, whatever the device does.
CallsReturn == (api # "idle") ~> (api = "idle")

\* A call reports an errno, "ENODEV once the device is gone", from its transfer's
\* status, read after a wait with the lock let go: the transfer is still there.
StatusIsThere == api \in {"woken", "retired"} => in_use[ep]

\* "One cached transfer per (device, endpoint), reused call to call": a pipe that
\* has had its transfer still has one, whatever there was no memory for since.
TransferIsCached == \A e \in Eps : in_use[e] => xfer[e] # "lost"
=============================================================================
