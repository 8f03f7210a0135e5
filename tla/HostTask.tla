------------------------------ MODULE HostTask ------------------------------
(***************************************************************************)
(* A session of the ESP-IDF host: usbhost_host.c's task from install to    *)
(* uninstall, the devices it opens, and the control transfers of           *)
(* usbhost_host_xfer.c that its pump completes, against one interpreter    *)
(* thread that starts the host, talks to a device and stops the host.      *)
(*                                                                         *)
(* A region under the host lock is one step, since every entry point takes *)
(* that lock; what a caller does with the lock let go (waiting for its     *)
(* completion, waiting for the task) is where the other side moves.  A     *)
(* bounded wait may end at any poll.                                       *)
(*                                                                         *)
(* The library below is external: it moves only while it is pumped, hands  *)
(* a device's completions over before it reports the device gone, and is   *)
(* uninstalled for good only once it holds no device and no transfer.      *)
(***************************************************************************)
EXTENDS Integers, FiniteSets

CONSTANTS
    Devs,       \* device addresses
    Xfers,      \* transfers there is memory for
    None,       \* no device, no transfer
    MaxDevs     \* USBHOST_HOST_MAX_DEVS, rows of the device table

ASSUME HostTaskAssumption ==
    /\ IsFiniteSet(Devs) /\ IsFiniteSet(Xfers)
    /\ None \notin Devs \cup Xfers
    /\ MaxDevs \in Nat

VARIABLES
    handle,         \* usbhost_host_task_handle is set
    running,        \* usbhost_host_task_running
    tearing_down,   \* usbhost_host_tearing_down
    wedged,         \* usbhost_host_task_wedged
    install_result, \* usbhost_host_install_result: pending, ok, failed
    host_running,   \* mod_usbhost.c's usbhost_host_running
    task,           \* where the host task is
    victim,         \* the device its teardown is at
    api,            \* where the interpreter's call is
    slots,          \* usbhost_host_devs: the devices open and listed
    ctrl_busy,      \* usbhost_xfer_ctrl_busy
    ctrl_done,      \* the semaphore usbhost_xfer_ctrl_done
    cur,            \* the transfer the call waits for
    alloc,          \* transfers allocated
    tagged,         \* transfers whose context is the abandoned tag
    abandoned,      \* usbhost_host_ctrl_abandoned
    installed,      \* the library is installed ...
    client,         \* ... and our client registered with it
    powered,        \* the root port has power
    plugged,        \* the devices on the bus
    lib,            \* the library's device objects
    events,         \* client events not delivered
    where,          \* where the library has a transfer: none, ep0, done
    target          \* the device a transfer is for

sessionVars == <<handle, running, tearing_down, wedged, install_result, host_running>>
ctrlVars == <<ctrl_busy, ctrl_done, cur, alloc, tagged, abandoned>>
libVars == <<installed, client, powered, lib, events, where, target>>
vars == <<sessionVars, task, victim, api, slots, ctrlVars, libVars, plugged>>

Init ==
    /\ handle = FALSE /\ running = FALSE /\ tearing_down = FALSE /\ wedged = FALSE
    /\ install_result = "pending" /\ host_running = FALSE
    /\ task = "none" /\ victim = None /\ api = "idle" /\ slots = {}
    /\ ctrl_busy = FALSE /\ ctrl_done = FALSE /\ cur = None
    /\ alloc = {} /\ tagged = {} /\ abandoned = 0
    /\ installed = FALSE /\ client = FALSE /\ powered = FALSE
    /\ plugged \in SUBSET Devs
    /\ lib = [d \in Devs |-> "absent"]
    /\ events = {}
    /\ where = [x \in Xfers |-> "none"]
    /\ target = [x \in Xfers |-> None]

Held == {d \in Devs : lib[d] # "absent"}
WithLibrary(x) == where[x] # "none"

-----------------------------------------------------------------------------
\* The interpreter: host_start().

\* Refused when wedged; taken for running when there is a task.
StartAtOnce ==
    /\ api = "idle"
    /\ wedged \/ handle
    /\ host_running' = (host_running \/ ~wedged)
    /\ UNCHANGED <<handle, running, tearing_down, wedged, install_result>>
    /\ UNCHANGED <<task, victim, api, slots, ctrlVars, libVars, plugged>>

Start ==
    /\ api = "idle"
    /\ ~wedged /\ ~handle
    /\ install_result' = "pending"
    /\ tearing_down' = FALSE
    /\ running' = TRUE
    /\ handle' = TRUE
    /\ task' = "install"
    /\ api' = "starting"
    /\ UNCHANGED <<wedged, host_running, victim, slots, ctrlVars, libVars, plugged>>

\* The verdict, or none within two seconds.
StartEnds ==
    /\ api = "starting"
    /\ IF install_result = "ok" THEN host_running' = TRUE /\ UNCHANGED running
                                ELSE running' = FALSE /\ UNCHANGED host_running
    /\ api' = "idle"
    /\ UNCHANGED <<handle, tearing_down, wedged, install_result>>
    /\ UNCHANGED <<task, victim, slots, ctrlVars, libVars, plugged>>

-----------------------------------------------------------------------------
\* The interpreter: usbhost_xfer_ctrl().

\* Under the lock: a fresh transfer, queued on the device's endpoint 0.
Ctrl(d, x) ==
    /\ api = "idle"
    /\ d \in slots /\ lib[d] = "ready"
    /\ ~ctrl_busy
    /\ x \notin alloc
    /\ alloc' = alloc \cup {x}
    /\ where' = [where EXCEPT ![x] = "ep0"]
    /\ target' = [target EXCEPT ![x] = d]
    /\ ctrl_busy' = TRUE
    /\ ctrl_done' = FALSE
    /\ cur' = x
    /\ api' = "waiting"
    /\ UNCHANGED <<sessionVars, task, victim, slots, tagged, abandoned,
                   installed, client, powered, lib, events, plugged>>

\* The lock is let go while the call waits for the semaphore, ...
WaitEnds ==
    /\ api = "waiting"
    /\ api' = IF ctrl_done THEN "woken" ELSE "late"
    /\ ctrl_done' = FALSE
    /\ UNCHANGED <<sessionVars, task, victim, slots, ctrl_busy, cur, alloc, tagged, abandoned,
                   libVars, plugged>>

\* ... and taken again to copy the answer out and free the transfer, ...
Answered ==
    /\ api = "woken"
    /\ alloc' = alloc \ {cur}
    /\ cur' = None
    /\ api' = "idle"
    /\ UNCHANGED <<sessionVars, task, victim, slots, ctrl_busy, ctrl_done, tagged, abandoned,
                   libVars, plugged>>

\* ... or to hand it to usbhost_host_ctrl_abandon().
Abandon ==
    /\ api = "late"
    /\ tagged' = tagged \cup {cur}
    /\ abandoned' = abandoned + 1
    /\ ctrl_busy' = FALSE
    /\ cur' = None
    /\ api' = "idle"
    /\ UNCHANGED <<sessionVars, task, victim, slots, ctrl_done, alloc, libVars, plugged>>

-----------------------------------------------------------------------------
\* The interpreter: host_stop().

Stop ==
    /\ api = "idle"
    /\ IF handle
       THEN running' = FALSE /\ api' = "stopping" /\ UNCHANGED host_running
       ELSE host_running' = FALSE /\ UNCHANGED <<running, api>>
    /\ UNCHANGED <<handle, tearing_down, wedged, install_result>>
    /\ UNCHANGED <<task, victim, slots, ctrlVars, libVars, plugged>>

\* The task is gone, or it is stuck in the library and the wait runs out.
StopEnds ==
    /\ api = "stopping"
    /\ ~handle \/ task = "hung"
    /\ wedged' = (wedged \/ handle)
    /\ host_running' = FALSE
    /\ api' = "idle"
    /\ UNCHANGED <<handle, running, tearing_down, install_result>>
    /\ UNCHANGED <<task, victim, slots, ctrlVars, libVars, plugged>>

Api ==
    \/ StartAtOnce \/ Start \/ StartEnds
    \/ \E d \in Devs, x \in Xfers : Ctrl(d, x)
    \/ WaitEnds \/ Answered \/ Abandon
    \/ Stop \/ StopEnds

-----------------------------------------------------------------------------
\* The host task: install and run.

GoTo(place) == task' = place /\ UNCHANGED victim

Install ==
    /\ task = "install"
    /\ \/ ~installed /\ installed' = TRUE /\ client' = TRUE /\ powered' = TRUE /\ GoTo("up")
       \/ GoTo("refused") /\ UNCHANGED <<installed, client, powered>>
    /\ UNCHANGED <<sessionVars, api, slots, ctrlVars, lib, events, where, target, plugged>>

\* The verdict is published before the handle is cleared.
Verdict ==
    /\ task \in {"up", "refused"}
    /\ install_result' = IF task = "up" THEN "ok" ELSE "failed"
    /\ GoTo(IF task = "up" THEN "loop" ELSE "exit")
    /\ UNCHANGED <<handle, running, tearing_down, wedged, host_running>>
    /\ UNCHANGED <<api, slots, ctrlVars, libVars, plugged>>

LoopEnds ==
    /\ task = "loop"
    /\ ~running
    /\ tearing_down' = TRUE
    /\ GoTo("tear")
    /\ UNCHANGED <<handle, running, wedged, install_result, host_running>>
    /\ UNCHANGED <<api, slots, ctrlVars, libVars, plugged>>

-----------------------------------------------------------------------------
\* The host task: teardown, one listed device after the other.

\* A device closed after the library reported it gone is freed at once.
Close(d) ==
    /\ slots' = slots \ {d}
    /\ lib' = [lib EXCEPT ![d] = IF @ = "gone" THEN "absent" ELSE @]

TearClose(d) ==
    /\ task = "tear"
    /\ d \in slots
    /\ abandoned = 0
    /\ Close(d)
    /\ UNCHANGED <<sessionVars, task, victim, api, ctrlVars,
                   installed, client, powered, events, where, target, plugged>>

\* Transfers given up on: the port goes off while the device is still open.
TearRetire(d) ==
    /\ task = "tear"
    /\ d \in slots
    /\ abandoned > 0
    /\ powered' = FALSE
    /\ task' = "retire"
    /\ victim' = d
    /\ UNCHANGED <<sessionVars, api, slots, ctrlVars, installed, client, lib, events, where, target, plugged>>

\* All of them back and every device closed, or a second is over.
RetireEnds ==
    /\ task = "retire"
    /\ IF victim \in slots THEN Close(victim) ELSE UNCHANGED <<slots, lib>>
    /\ task' = "tear"
    /\ victim' = None
    /\ UNCHANGED <<sessionVars, api, ctrlVars, installed, client, powered, events, where, target, plugged>>

TearEnds ==
    /\ task = "tear"
    /\ slots = {}
    /\ GoTo("drain")
    /\ UNCHANGED <<sessionVars, api, slots, ctrlVars, libVars, plugged>>

DrainEnds ==
    /\ task = "drain"
    /\ GoTo("deregister")
    /\ UNCHANGED <<sessionVars, api, slots, ctrlVars, libVars, plugged>>

\* Refused while a device is open; then the library frees what nobody has open.
Deregister ==
    /\ task = "deregister"
    /\ client' = (slots # {})
    /\ events' = IF slots = {} THEN {} ELSE events
    /\ lib' = [d \in Devs |-> IF lib[d] = "ready" /\ d \notin slots THEN "absent" ELSE lib[d]]
    /\ GoTo("await")
    /\ UNCHANGED <<sessionVars, api, slots, ctrlVars, installed, powered, where, target, plugged>>

\* Mutant: waits for ALL_FREE however long it takes.
AwaitForGood ==
    /\ task = "await"
    /\ Held = {}
    /\ GoTo("last")
    /\ UNCHANGED <<sessionVars, api, slots, ctrlVars, libVars, plugged>>

\* ALL_FREE, seen or not, and a look at what is held: the port goes off, if the
\* library lets it.
AwaitEnds ==
    /\ task = "await"
    /\ \/ Held = {} /\ GoTo("last") /\ UNCHANGED powered
       \/ powered' \in {powered, FALSE} /\ GoTo("release")
    /\ UNCHANGED <<sessionVars, api, slots, ctrlVars, installed, client, lib, events, where, target, plugged>>

\* A library call that never returns, seen in this wait with a device held.
Hang ==
    /\ task = "await"
    /\ Held # {}
    /\ GoTo("hung")
    /\ UNCHANGED <<sessionVars, api, slots, ctrlVars, libVars, plugged>>

ReleaseEnds ==
    /\ task = "release"
    /\ LET stuck == powered \/ Held # {}
       IN  /\ wedged' = (wedged \/ stuck)
           /\ GoTo(IF stuck THEN "exit" ELSE "last")
    /\ UNCHANGED <<handle, running, tearing_down, install_result, host_running>>
    /\ UNCHANGED <<api, slots, ctrlVars, libVars, plugged>>

\* The library says it is uninstalled, and what it still holds stays installed;
\* or it refuses.
Uninstall ==
    \/ installed' = (Held # {} \/ \E x \in Xfers : where[x] = "ep0") /\ UNCHANGED wedged
    \/ wedged' = TRUE /\ UNCHANGED installed

\* Mutant: uninstalled whatever was abandoned (usbif#73).
LastUnchecked ==
    /\ task = "last"
    /\ Uninstall
    /\ GoTo("exit")
    /\ UNCHANGED <<handle, running, tearing_down, install_result, host_running>>
    /\ UNCHANGED <<api, slots, ctrlVars, client, powered, lib, events, where, target, plugged>>

\* A transfer never retired: wedged, and not uninstalled.
Last ==
    /\ task = "last"
    /\ IF abandoned > 0 THEN wedged' = TRUE /\ UNCHANGED installed ELSE Uninstall
    /\ GoTo("exit")
    /\ UNCHANGED <<handle, running, tearing_down, install_result, host_running>>
    /\ UNCHANGED <<api, slots, ctrlVars, client, powered, lib, events, where, target, plugged>>

Exit ==
    /\ task = "exit"
    /\ handle' = FALSE
    /\ GoTo("none")
    /\ UNCHANGED <<running, tearing_down, wedged, install_result, host_running>>
    /\ UNCHANGED <<api, slots, ctrlVars, libVars, plugged>>

Task ==
    \/ Install \/ Verdict \/ LoopEnds
    \/ \E d \in Devs : TearClose(d) \/ TearRetire(d)
    \/ RetireEnds \/ TearEnds \/ DrainEnds \/ Deregister
    \/ AwaitEnds \/ ReleaseEnds \/ Last \/ Exit

-----------------------------------------------------------------------------
\* The client's events, delivered by whoever pumps it under the lock: the task,
\* or a waiting call in its first 20 ms, while the task loops.

ClientPumped == client /\ ((task = "loop" /\ running) \/ task \in {"retire", "drain"})

\* usbhost_xfer_ctrl_cb: an abandoned transfer frees itself, another wakes its call.
Callback(x) ==
    /\ ClientPumped
    /\ where[x] = "done"
    /\ where' = [where EXCEPT ![x] = "none"]
    /\ IF x \in tagged
       THEN /\ tagged' = tagged \ {x}
            /\ abandoned' = abandoned - 1
            /\ alloc' = alloc \ {x}
            /\ UNCHANGED <<ctrl_busy, ctrl_done>>
       ELSE /\ ctrl_busy' = FALSE
            /\ ctrl_done' = TRUE
            /\ UNCHANGED <<alloc, tagged, abandoned>>
    /\ UNCHANGED <<sessionVars, task, victim, api, slots, cur,
                   installed, client, powered, lib, events, target, plugged>>

\* Not opened in a teardown, with the table full, when the open fails, or when
\* no class of the device was asked for.
NewDev(d) ==
    /\ ClientPumped
    /\ <<"new", d>> \in events
    /\ events' = events \ {<<"new", d>>}
    /\ \/ UNCHANGED slots
       \/ /\ ~tearing_down
          /\ Cardinality(slots) < MaxDevs
          /\ lib[d] = "ready"
          /\ slots' = slots \cup {d}
    /\ UNCHANGED <<sessionVars, task, victim, api, ctrlVars,
                   installed, client, powered, lib, where, target, plugged>>

\* Its completions came first.
DevGone(d) ==
    /\ ClientPumped
    /\ <<"gone", d>> \in events
    /\ \A x \in Xfers : ~(where[x] = "done" /\ target[x] = d)
    /\ events' = events \ {<<"gone", d>>}
    /\ IF d \in slots THEN Close(d) ELSE UNCHANGED <<slots, lib>>
    /\ UNCHANGED <<sessionVars, task, victim, api, ctrlVars,
                   installed, client, powered, where, target, plugged>>

Client == \E x \in Xfers : Callback(x)
Devices == \E d \in Devs : NewDev(d) \/ DevGone(d)

-----------------------------------------------------------------------------
\* The library and the bus.

LibPumped == installed /\ ((task = "loop" /\ running) \/ task \in {"retire", "drain", "await", "release"})

libOnly == <<sessionVars, task, victim, api, slots, ctrlVars, installed, client, powered, target, plugged>>

\* A device that stops answering stays in enumeration.
Enumerate(d) ==
    /\ LibPumped
    /\ powered /\ d \in plugged
    /\ \/ /\ lib[d] = "absent"
          /\ lib' = [lib EXCEPT ![d] = "enumerating"]
          /\ UNCHANGED events
       \/ /\ lib[d] = "enumerating"
          /\ lib' = [lib EXCEPT ![d] = "ready"]
          /\ events' = IF client THEN events \cup {<<"new", d>>} ELSE events
    /\ UNCHANGED <<libOnly, where>>

\* Unplugged, or the port went off: endpoint 0 is flushed.
Disconnect(d) ==
    /\ LibPumped
    /\ lib[d] \in {"enumerating", "ready"}
    /\ ~powered \/ d \notin plugged
    /\ where' = [x \in Xfers |-> IF where[x] = "ep0" /\ target[x] = d THEN "done" ELSE where[x]]
    /\ IF d \in slots
       THEN lib' = [lib EXCEPT ![d] = "gone"] /\ events' = events \cup {<<"gone", d>>}
       ELSE lib' = [lib EXCEPT ![d] = "absent"] /\ UNCHANGED events
    /\ UNCHANGED libOnly

\* The device answers, or stalls, sooner or later or never.
Answer(x) ==
    /\ where[x] = "ep0"
    /\ lib[target[x]] = "ready"
    /\ powered /\ target[x] \in plugged
    /\ where' = [where EXCEPT ![x] = "done"]
    /\ UNCHANGED <<libOnly, lib, events>>

Plug(d) ==
    /\ plugged' = IF d \in plugged THEN plugged \ {d} ELSE plugged \cup {d}
    /\ UNCHANGED <<sessionVars, task, victim, api, slots, ctrlVars, libVars>>

Library ==
    \/ \E d \in Devs : Enumerate(d) \/ Disconnect(d) \/ Plug(d)
    \/ \E x \in Xfers : Answer(x)

Next == Api \/ Task \/ Hang \/ Client \/ Devices \/ Library

Spec == Init /\ [][Next]_vars

\* The task never stops between two waits, and a call never between two.  A
\* caller gives a timeout.  Nobody is obliged to call, a device to answer.
Fairness ==
    /\ WF_vars(Task)
    /\ WF_vars(StartEnds \/ WaitEnds \/ Answered \/ Abandon \/ StopEnds)

FairSpec == Spec /\ Fairness

-----------------------------------------------------------------------------
\* The words of the session, of the transfers and of the library.
TypeOK ==
    /\ handle \in BOOLEAN /\ running \in BOOLEAN /\ tearing_down \in BOOLEAN
    /\ wedged \in BOOLEAN /\ host_running \in BOOLEAN
    /\ install_result \in {"pending", "ok", "failed"}
    /\ task \in {"none", "install", "up", "refused", "loop", "tear", "retire", "drain",
                 "deregister", "await", "release", "last", "hung", "exit"}
    /\ victim \in Devs \cup {None}
    /\ api \in {"idle", "starting", "waiting", "woken", "late", "stopping"}
    /\ slots \subseteq Devs /\ Cardinality(slots) <= MaxDevs
    /\ ctrl_busy \in BOOLEAN /\ ctrl_done \in BOOLEAN
    /\ cur \in Xfers \cup {None}
    /\ alloc \subseteq Xfers /\ tagged \subseteq alloc /\ abandoned \in Nat
    /\ installed \in BOOLEAN /\ client \in BOOLEAN /\ powered \in BOOLEAN
    /\ plugged \subseteq Devs
    /\ lib \in [Devs -> {"absent", "enumerating", "ready", "gone"}]
    /\ events \subseteq {"new", "gone"} \X Devs
    /\ where \in [Xfers -> {"none", "ep0", "done"}]
    /\ target \in [Xfers -> Devs \cup {None}]

\* A transfer given up on "is still queued in IDF's host library": none that the
\* library has is ever freed, and each of them is either abandoned or the one
\* the call in progress waits for.
LibraryOwnsLiveTransfers ==
    \A x \in Xfers :
        WithLibrary(x) => x \in alloc /\ (x \in tagged \/ (x = cur /\ api \in {"waiting", "late"}))

\* A call that was woken was woken by its own transfer, never by the late
\* completion of one that an earlier call gave up on; and a call that gave up
\* leaves the endpoint free for the next one, which is not told EBUSY.
AnswerIsOurs ==
    /\ api = "woken" => cur \in alloc \ tagged /\ ~WithLibrary(cur)
    /\ api = "idle" => ~ctrl_busy

\* "usb_host_client_deregister() requires the client to have closed every device
\* it opened": no device is opened after the close loop passed over it.
DeregisterIsClean == task = "deregister" => slots = {} /\ Held \subseteq {d \in Devs : lib[d] # "gone"}

\* What usbif#65 and usbif#73 broke: a host that is started finds the library
\* uninstalled, or host_start() refuses because the host is wedged.
FreshInstall == task = "install" => ~installed /\ ~client /\ slots = {} /\ tagged = {}

\* What the library demands of a client: before it is deregistered, before it is
\* installed again, and of the memory of what it still has to complete.
\* And no call is told the answer to another's transfer.
TaskSafe ==
    /\ TypeOK /\ DeregisterIsClean /\ FreshInstall
    /\ LibraryOwnsLiveTransfers /\ AnswerIsOurs

\* host_start(), a control transfer and host_stop() return, even from a device
\* that stopped answering or a library call that never comes back.
CallsReturn == (api # "idle") ~> (api = "idle")

\* host_start() does not take "the non-NULL handle at face value": once it has
\* returned with success, there is a host until host_stop().
StartedHostRuns == host_running /\ api # "stopping" => running

\* "It is handed to usbhost_host_ctrl_abandon(), which frees it whenever it does
\* complete": a transfer that is abandoned is one that has yet to complete.
AbandonedAreQueued == \A x \in tagged : WithLibrary(x)
=============================================================================
