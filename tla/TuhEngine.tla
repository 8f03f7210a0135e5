----------------------------- MODULE TuhEngine -----------------------------
(***************************************************************************)
(* The TinyUSB host engine, usbhost_tuh.c, on its one core.  Three levels  *)
(* of execution: the controller's interrupt, which queues a completion at  *)
(* any instant; TinyUSB's task, at PendSV level; and the interpreter,      *)
(* which holds PendSV off (the lock) around what it does to the stack.     *)
(* PendSV goes before the interpreter: unlocked, the interpreter moves     *)
(* only when no event is queued.                                           *)
(*                                                                         *)
(* TinyUSB is external: it has a submitted transfer until the interrupt    *)
(* completes it or an abort takes it away, configures one device at a      *)
(* time, and forgets the transfers of a device or an endpoint it closes.   *)
(* An abort of a control transfer may find it queued behind another and    *)
(* fail.                                                                   *)
(***************************************************************************)
EXTENDS Integers, FiniteSets

CONSTANTS
    Devices,    \* addresses of devices that pass the class filter
    Hubs,       \* addresses of those that do not
    Rows,       \* usbhost_tuh_devs
    Pipes,      \* usbhost_tuh_pipes
    In, Out,    \* the endpoints of a device's one interface
    Alts,       \* its alternate settings
    MaxClaims,  \* USBHOST_TUH_CLAIMS
    MaxSize,    \* largest buffer, in packets
    GenMod,     \* the generations' modulus, 65536 in the code
    None        \* no row, no device, no setting, no pipe

Addr == Devices \cup Hubs
Eps == In \cup Out
Gens == 0 .. GenMod - 1

ASSUME TuhAssumption ==
    /\ In \cap Out = {} /\ Devices \cap Hubs = {}
    /\ IsFiniteSet(Devices)
    /\ None \notin Addr \cup Alts \cup Pipes \cup Rows
    /\ MaxClaims \in Nat /\ MaxSize \in Nat \ {0} /\ GenMod \in Nat \ {0, 1}

VARIABLES
    running,    \* usbhost_tuh_running
    bus,        \* TinyUSB's view of an address: off, configured or mounted
    row,        \* a row's daddr and in_use
    claim,      \* the alternate setting a device's interface is claimed at
    pipe,       \* usbhost_tuh_pipes
    ctrl,       \* usbhost_tuh_ctrl
    live,       \* the transfers the controller has: pipe or None, generation, length
    events,     \* those completed and queued for the task
    call        \* the interpreter's call

vars == <<running, bus, row, claim, pipe, ctrl, live, events, call>>

FreeRow == [daddr |-> None, in_use |-> FALSE]
FreePipe == [in_use |-> FALSE, daddr |-> None, ep |-> None, gen |-> 0, size |-> 0,
             state |-> "IDLE", kept |-> FALSE, waiter |-> FALSE, dead |-> FALSE]
NoCall == [pc |-> "idle", pipe |-> None, keep |-> FALSE, len |-> 0, gen |-> 0]
Transfer == [pipe : Pipes \cup {None}, gen : Gens, len : 0 .. MaxSize]

Init ==
    /\ running = FALSE
    /\ bus = [a \in Addr |-> "off"]
    /\ row = [r \in Rows |-> FreeRow]
    /\ claim = [a \in Addr |-> None]
    /\ pipe = [p \in Pipes |-> FreePipe]
    /\ ctrl = [gen |-> 0, state |-> "IDLE", stale |-> FALSE]
    /\ live = {} /\ events = {}
    /\ call = NoCall

-----------------------------------------------------------------------------
\* Levels.  The task runs unless PendSV is held off; a call that drains it
\* inside its own locked region ("drain", "cdrain") runs it there.

Locked == call.pc \in {"drain", "cdrain"}
Before(pc) == call.pc = pc /\ events = {}
Return == call' = NoCall

Bump(g) == (g + 1) % GenMod

NewPipe(p, q) == pipe' = [pipe EXCEPT ![p] = q]

\* usbhost_tuh_pipe_free: the daddr and the endpoint stay, and so does waiter.
Freed(q) == [q EXCEPT !.in_use = FALSE, !.gen = Bump(@), !.state = "IDLE",
                      !.kept = FALSE, !.dead = FALSE, !.size = 0]
Dropped(ps) == pipe' = [p \in Pipes |-> IF p \in ps THEN Freed(pipe[p]) ELSE pipe[p]]

PipesOf(a) == {p \in Pipes : pipe[p].in_use /\ pipe[p].daddr = a}
Of(a) == {x \in live \cup events : x.pipe \in PipesOf(a)}
Forget(xs) == live' = live \ xs /\ events' = events \ xs

-----------------------------------------------------------------------------
\* Devices, in the task.

RowsOf(a) == {r \in Rows : row[r].daddr = a}
Mounted(a) == \E r \in RowsOf(a) : row[r].in_use

\* usbhost_tuh_dev with reserve: its own row, a free one, or one never mounted.
Reserved(a) ==
    IF RowsOf(a) # {} THEN RowsOf(a)
    ELSE IF RowsOf(None) # {} THEN RowsOf(None)
    ELSE {r \in Rows : ~row[r].in_use}

Configure(a) ==
    /\ running /\ \A b \in Addr : bus[b] # "configured"
    /\ bus[a] = "off"
    /\ bus' = [bus EXCEPT ![a] = "configured"]
    /\ \/ Reserved(a) = {} /\ UNCHANGED row
       \/ \E r \in Reserved(a) :
              row' = [row EXCEPT ![r] = [daddr |-> a, in_use |-> row[r].daddr = a /\ row[r].in_use]]
    /\ UNCHANGED <<running, claim, pipe, ctrl, live, events, call>>

\* The device browns out before it is mounted: nobody is told.
EnumerationFails(a) ==
    /\ bus[a] = "configured"
    /\ bus' = [bus EXCEPT ![a] = "off"]
    /\ UNCHANGED <<running, row, claim, pipe, ctrl, live, events, call>>

\* tuh_mount_cb: what the filter leaves out stays invisible.
Mount(a) ==
    /\ bus[a] = "configured"
    /\ bus' = [bus EXCEPT ![a] = "mounted"]
    /\ row' = [r \in Rows |-> IF row[r].daddr # a THEN row[r]
                              ELSE IF a \in Hubs THEN FreeRow
                              ELSE [row[r] EXCEPT !.in_use = TRUE]]
    /\ UNCHANGED <<running, claim, pipe, ctrl, live, events, call>>

\* Mutant: it is marked, and the call is not woken.
OrphanAsleep(q) == IF q.waiter THEN [q EXCEPT !.dead = TRUE, !.state = "IDLE"] ELSE Freed(q)

\* tuh_umount_cb: a pipe a call waits on is left for that call to free.
Orphan(q) == IF q.waiter THEN [q EXCEPT !.dead = TRUE, !.state = "DONE"] ELSE Freed(q)

Unmount(a) ==
    /\ bus[a] = "mounted"
    /\ bus' = [bus EXCEPT ![a] = "off"]
    /\ pipe' = [p \in Pipes |-> IF p \in PipesOf(a) THEN Orphan(pipe[p]) ELSE pipe[p]]
    /\ claim' = [claim EXCEPT ![a] = None]
    /\ row' = [r \in Rows |-> IF row[r].daddr = a THEN FreeRow ELSE row[r]]
    /\ Forget(Of(a))
    /\ UNCHANGED <<running, ctrl, call>>

-----------------------------------------------------------------------------
\* Completions: the interrupt queues one, the task hands it to its callback.

Complete(x) ==
    /\ x \in live
    /\ live' = live \ {x}
    /\ events' = events \cup {x}
    /\ UNCHANGED <<running, bus, row, claim, pipe, ctrl, call>>

\* usbhost_tuh_xfer_cb drops what is not the pipe's present transfer.
Accepted(x) ==
    LET q == pipe[x.pipe] IN q.in_use /\ q.gen = x.gen /\ q.state = "BUSY"

XferCb(x) ==
    /\ x.pipe \in Pipes
    /\ IF Accepted(x) THEN NewPipe(x.pipe, [pipe[x.pipe] EXCEPT !.state = "DONE"])
                      ELSE UNCHANGED pipe
    /\ UNCHANGED ctrl

\* usbhost_tuh_ctrl_cb: an older generation's is "an abandoned one, done at last".
CtrlCb(x) ==
    /\ x.pipe = None
    /\ ctrl' = IF x.gen # ctrl.gen THEN [ctrl EXCEPT !.stale = FALSE]
                                   ELSE [ctrl EXCEPT !.state = "DONE"]
    /\ UNCHANGED pipe

Deliver(x) ==
    /\ x \in events
    /\ events' = events \ {x}
    /\ XferCb(x) \/ CtrlCb(x)
    /\ UNCHANGED <<running, bus, row, claim, live, call>>

-----------------------------------------------------------------------------
\* The host: usbhost_host_start_c and usbhost_host_stop_c.

Start ==
    /\ call.pc = "idle" /\ ~running
    /\ running' = TRUE
    /\ row' = [r \in Rows |-> FreeRow]
    /\ claim' = [a \in Addr |-> None]
    /\ Dropped(Pipes)
    /\ ctrl' = [ctrl EXCEPT !.state = "IDLE", !.stale = FALSE]
    /\ UNCHANGED <<bus, live, events, call>>

\* tuh_deinit unmounts every device and drops whatever it has.
Stop ==
    /\ Before("idle") /\ running
    /\ running' = FALSE
    /\ bus' = [a \in Addr |-> "off"]
    /\ row' = [r \in Rows |-> FreeRow]
    /\ claim' = [a \in Addr |-> None]
    /\ Dropped(Pipes)
    /\ ctrl' = [gen |-> Bump(ctrl.gen), state |-> "IDLE", stale |-> FALSE]
    /\ live' = {} /\ events' = {}
    /\ UNCHANGED call

-----------------------------------------------------------------------------
\* Interfaces.  Closing the endpoints takes their transfers away.

Claims == {a \in Addr : claim[a] # None}
CloseInterface(a) == Dropped(PipesOf(a)) /\ Forget(Of(a))

\* At a new setting, or with `opens` false when an endpoint will not open.
Claim(a, alt, opens) ==
    /\ Before("idle") /\ Mounted(a) /\ claim[a] # alt
    /\ IF claim[a] # None THEN CloseInterface(a) ELSE UNCHANGED <<pipe, live, events>>
    /\ claim' = [claim EXCEPT ![a] = IF opens /\ (@ # None \/ Cardinality(Claims) < MaxClaims)
                                     THEN alt ELSE None]
    /\ UNCHANGED <<running, bus, row, ctrl, call>>

\* Mutant: the pipes stay, their endpoints closed.
ReleaseKeepsPipes(a) ==
    /\ Before("idle") /\ Mounted(a) /\ claim[a] # None
    /\ Forget(Of(a))
    /\ claim' = [claim EXCEPT ![a] = None]
    /\ UNCHANGED <<running, bus, row, pipe, ctrl, call>>

Release(a) ==
    /\ Before("idle") /\ Mounted(a) /\ claim[a] # None
    /\ CloseInterface(a)
    /\ claim' = [claim EXCEPT ![a] = None]
    /\ UNCHANGED <<running, bus, row, ctrl, call>>

-----------------------------------------------------------------------------
\* Bulk and interrupt: usbhost_tuh_xfer.

\* The endpoint's pipe, or a row to make one in: usbhost_tuh_pipe.
PipeFor(a, e) ==
    LET its == {p \in PipesOf(a) : pipe[p].ep = e}
    IN  IF its # {} THEN its
        ELSE {p \in Pipes : ~pipe[p].in_use /\ claim[a] # None}
Made(p, a, e) == IF pipe[p].in_use THEN pipe[p]
                 ELSE [Freed(pipe[p]) EXCEPT !.in_use = TRUE, !.daddr = a, !.ep = e]

\* Submitted, or refused by TinyUSB.
SubmitOn(p, q, len, keep) ==
    LET g == Bump(q.gen) IN
    \/ /\ NewPipe(p, [q EXCEPT !.gen = g, !.state = "BUSY", !.kept = FALSE, !.waiter = TRUE])
       /\ live' = live \cup {[pipe |-> p, gen |-> g, len |-> len]}
       /\ call' = [NoCall EXCEPT !.pc = "wait", !.pipe = p, !.keep = keep]
    \/ /\ NewPipe(p, [q EXCEPT !.gen = g, !.state = "IDLE"])
       /\ UNCHANGED live
       /\ Return

\* A kept read is taken over by the call that finds it.
TakeOver(p, q, keep) ==
    /\ NewPipe(p, [q EXCEPT !.kept = FALSE, !.waiter = TRUE])
    /\ call' = [NoCall EXCEPT !.pc = "wait", !.pipe = p, !.keep = keep]
    /\ UNCHANGED live

\* A longer buffer is allocated with the lock let go.
Allocate(p, q, len, keep) ==
    /\ NewPipe(p, q)
    /\ call' = [pc |-> "alloc", pipe |-> p, keep |-> keep, len |-> len, gen |-> q.gen]
    /\ UNCHANGED live

Xfer(a, e, len, keep) ==
    /\ Before("idle") /\ Mounted(a)
    /\ keep => e \in In
    /\ \E p \in PipeFor(a, e) :
           LET q == Made(p, a, e) IN
           /\ q.state = "BUSY" => q.kept
           /\ IF q.kept THEN TakeOver(p, q, keep)
              ELSE IF len > q.size THEN Allocate(p, q, len, keep)
              ELSE SubmitOn(p, q, len, keep)
    /\ UNCHANGED <<running, bus, row, claim, ctrl, events>>

\* No memory; gone meanwhile; or submitted.
Allocated ==
    /\ Before("alloc")
    /\ LET p == call.pipe q == pipe[p] IN
       \/ Return /\ UNCHANGED <<pipe, live>>
       \/ q.in_use /\ q.gen = call.gen /\ SubmitOn(p, [q EXCEPT !.size = call.len], call.len, call.keep)
    /\ UNCHANGED <<running, bus, row, claim, ctrl, events>>

\* The wait ends on the state, or on its timeout when it has one.
WaitEnds ==
    /\ Before("wait")
    /\ call' = [call EXCEPT !.pc = "woken"]
    /\ UNCHANGED <<running, bus, row, claim, pipe, ctrl, live, events>>

Woken == Before("wait") /\ pipe[call.pipe].state = "DONE" /\ WaitEnds

\* With the lock back: dead, done, or one more look for a late completion.
Relock ==
    /\ Before("woken")
    /\ LET p == call.pipe q == pipe[p] IN
       \/ q.dead /\ NewPipe(p, [Freed(q) EXCEPT !.waiter = FALSE]) /\ Return
       \/ ~q.dead /\ q.state = "DONE"
              /\ NewPipe(p, [q EXCEPT !.waiter = FALSE, !.state = "IDLE"]) /\ Return
       \/ ~q.dead /\ NewPipe(p, [q EXCEPT !.waiter = FALSE])
              /\ call' = [call EXCEPT !.pc = "drain"]
    /\ UNCHANGED <<running, bus, row, claim, ctrl, live, events>>

\* After tuh_task_ext: done after all, an IN stays armed, an OUT is aborted.
\* The interrupt may complete the OUT just before the abort.
Resolve ==
    /\ Before("drain")
    /\ LET p == call.pipe q == pipe[p]
           mine == {x \in live : x.pipe = p}
       IN
       \/ /\ q.state = "DONE"
          /\ NewPipe(p, [q EXCEPT !.state = "IDLE"])
          /\ UNCHANGED <<live, events>>
       \/ /\ q.state # "DONE" /\ q.ep \in In
          /\ NewPipe(p, [q EXCEPT !.kept = TRUE])
          /\ UNCHANGED <<live, events>>
       \/ /\ q.state # "DONE" /\ q.ep \in Out
          /\ NewPipe(p, [q EXCEPT !.gen = Bump(@), !.state = "IDLE"])
          /\ live' = live \ mine
          /\ events' \in {events, events \cup mine}
    /\ Return
    /\ UNCHANGED <<running, bus, row, claim, ctrl>>

-----------------------------------------------------------------------------
\* Control: usbhost_xfer_ctrl.

Ctrl(a) ==
    /\ Before("idle") /\ Mounted(a)
    /\ ctrl.state # "BUSY" /\ ~ctrl.stale
    /\ LET g == Bump(ctrl.gen) IN
       \/ /\ ctrl' = [ctrl EXCEPT !.gen = g, !.state = "BUSY"]
          /\ live' = live \cup {[pipe |-> None, gen |-> g, len |-> 0]}
          /\ call' = [NoCall EXCEPT !.pc = "cwait"]
       \/ /\ ctrl' = [ctrl EXCEPT !.gen = g, !.state = "IDLE"]
          /\ UNCHANGED <<live, call>>
    /\ UNCHANGED <<running, bus, row, claim, pipe, events>>

CtrlWaitEnds ==
    /\ Before("cwait")
    /\ \/ ctrl.state = "DONE" /\ ctrl' = [ctrl EXCEPT !.state = "IDLE"] /\ Return
       \/ ctrl.state # "DONE" /\ UNCHANGED ctrl /\ call' = [call EXCEPT !.pc = "cdrain"]
    /\ UNCHANGED <<running, bus, row, claim, pipe, live, events>>

\* Mutant: abandoned, and never stale.
CtrlResolveFresh ==
    /\ Before("cdrain")
    /\ ctrl' = [gen |-> Bump(ctrl.gen), state |-> "IDLE", stale |-> FALSE]
    /\ UNCHANGED live
    /\ Return
    /\ UNCHANGED <<running, bus, row, claim, pipe, events>>

\* Abandoned: aborted, or stale until its completion comes.
CtrlResolve ==
    /\ Before("cdrain")
    /\ LET mine == {x \in live : x.pipe = None} IN
       \/ /\ ctrl.state = "DONE"
          /\ ctrl' = [ctrl EXCEPT !.state = "IDLE"]
          /\ UNCHANGED live
       \/ /\ ctrl.state # "DONE"
          /\ ctrl' = [gen |-> Bump(ctrl.gen), state |-> "IDLE", stale |-> FALSE]
          /\ live' = live \ mine
       \/ /\ ctrl.state # "DONE"
          /\ ctrl' = [gen |-> Bump(ctrl.gen), state |-> "IDLE", stale |-> TRUE]
          /\ UNCHANGED live
    /\ Return
    /\ UNCHANGED <<running, bus, row, claim, pipe, events>>

-----------------------------------------------------------------------------
TaskSteps ==
    \/ \E a \in Addr : Configure(a) \/ EnumerationFails(a) \/ Mount(a) \/ Unmount(a)
    \/ \E x \in events : Deliver(x)

CallSteps == Allocated \/ WaitEnds \/ Relock \/ Resolve \/ CtrlWaitEnds \/ CtrlResolve

Next ==
    \/ TaskSteps
    \/ \E x \in live : Complete(x)
    \/ Start \/ Stop
    \/ \E a \in Addr, alt \in Alts, opens \in BOOLEAN : Claim(a, alt, opens)
    \/ \E a \in Addr : Release(a) \/ Ctrl(a)
    \/ \E a \in Addr, e \in Eps, len \in 1 .. MaxSize, keep \in BOOLEAN : Xfer(a, e, len, keep)
    \/ CallSteps

Spec == Init /\ [][Next]_vars

\* The task runs and a call goes on; a wait without a timeout ends on the
\* pipe's state alone.
FairSpec ==
    /\ Spec
    /\ WF_vars(\E x \in events : Deliver(x))
    /\ WF_vars(Woken) /\ WF_vars(Relock) /\ WF_vars(Resolve)
    /\ WF_vars(Allocated) /\ WF_vars(CtrlResolve)

-----------------------------------------------------------------------------
PipeType ==
    [in_use : BOOLEAN, daddr : Addr \cup {None}, ep : Eps \cup {None}, gen : Gens,
     size : 0 .. MaxSize, state : {"IDLE", "BUSY", "DONE"}, kept : BOOLEAN,
     waiter : BOOLEAN, dead : BOOLEAN]

TypeOK ==
    /\ running \in BOOLEAN
    /\ bus \in [Addr -> {"off", "configured", "mounted"}]
    /\ row \in [Rows -> [daddr : Addr \cup {None}, in_use : BOOLEAN]]
    /\ claim \in [Addr -> Alts \cup {None}]
    /\ pipe \in [Pipes -> PipeType]
    /\ ctrl \in [gen : Gens, state : {"IDLE", "BUSY", "DONE"}, stale : BOOLEAN]
    /\ live \in SUBSET Transfer /\ events \in SUBSET Transfer
    /\ call \in [pc : {"idle", "alloc", "wait", "woken", "drain", "cwait", "cdrain"},
                 pipe : Pipes \cup {None}, keep : BOOLEAN, len : 0 .. MaxSize, gen : Gens]

\* The controller writes only into a buffer its pipe still has, long enough,
\* and meant for that transfer: "the controller never writes into a buffer the
\* caller passed and then dropped".
BufferIsHeld ==
    \A x \in live : x.pipe \in Pipes =>
        LET q == pipe[x.pipe] IN
        q.in_use /\ q.gen = x.gen /\ q.state = "BUSY" /\ x.len <= q.size

\* A busy pipe has a transfer somewhere, so that it does not stay busy for
\* good; between calls it is one kept armed, never one nobody will collect.
BusyHasTransfer ==
    \A p \in Pipes : pipe[p].in_use /\ pipe[p].state = "BUSY" =>
        /\ \E x \in live \cup events : x.pipe = p /\ x.gen = pipe[p].gen
        /\ call.pipe # p => pipe[p].kept

\* A call's pipe is not freed, nor given to another, while it waits on it.
WaiterHasPipe ==
    call.pc \in {"wait", "woken"} =>
        pipe[call.pipe].in_use /\ pipe[call.pipe].waiter /\ pipe[call.pipe].state # "IDLE"

\* The control buffer has one user: a transfer the controller still has is the
\* present call's, or keeps the next call out.
CtrlBufferIsHeld ==
    LET theirs == {x \in live : x.pipe = None} IN
    Cardinality(theirs) <= 1 /\ (theirs # {} => ctrl.state = "BUSY" \/ ctrl.stale)

\* A pipe is of an interface that is claimed on a device that is listed,
\* unless a call has yet to see that it is dead.
PipesAreClaimed ==
    /\ \A a \in Addr : claim[a] # None => Mounted(a)
    /\ \A p \in Pipes : pipe[p].in_use /\ ~pipe[p].dead => claim[pipe[p].daddr] # None

\* What a pipe, its transfer and the call that waits on it owe each other, between
\* any two steps of the host task and the program.
EngineSafe ==
    /\ TypeOK /\ BusyHasTransfer /\ WaiterHasPipe /\ PipesAreClaimed
    /\ BufferIsHeld /\ CtrlBufferIsHeld

\* A call that waits on a device that goes comes back, even without a timeout.
WaitsOnGone == \E p \in Pipes : call.pipe = p /\ pipe[p].dead
GoneEndsWait == WaitsOnGone ~> ~WaitsOnGone
=============================================================================
