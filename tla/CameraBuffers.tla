---------------------------- MODULE CameraBuffers ---------------------------
(***************************************************************************)
(* The camera's two frame buffers and what opens and closes around them.   *)
(* The CSI driver's interrupt picks a buffer and reports a finished one;   *)
(* the interpreter waits for a frame, claims the buffer that finished and  *)
(* reads it; a constructor, deinit() and the soft reset open and tear down *)
(* the one camera there is. The interrupt may run between any two of the   *)
(* interpreter's steps, and on the other core.                             *)
(***************************************************************************)
EXTENDS Integers

CONSTANTS CbOrders, \* the order the driver's interrupt calls back in: a
                    \* subset of {"ask", "finish"}, the one it calls first
          CbMaxNum, \* bound: frames the sensor sends
          CbOpens   \* bound: constructors run

VARIABLES
    cbLevel,   \* how far the constructor came: 0 nothing, 1 sensor and bus,
               \* 2 buffers and semaphore, 3 controller, 4 streaming
    cbOpen, cbHook,    \* `open`; teardown registered with the soft reset
    cbTask,    \* "idle", "open" (in make_new), "fails" (make_new tearing
               \* down), "closes", and in wait_frame: "waits", "taken",
               \* "checked", "read"
    cbFilling, cbHeld, cbDone, cbReady, cbLast, cbFrame, \* the object's own
    cbPicked,  \* the task's copy of `fb_done`
    cbWriting, \* the buffer the DMA writes
    cbSent,    \* frames the sensor has sent
    cbAsked,   \* the driver has asked for a buffer since the last claim
    cbOpened   \* constructors run

cbLife == <<cbLevel, cbOpen, cbHook, cbOpened>>
cbSensor == <<cbSent, cbWriting>>
cbBufs == <<cbFilling, cbDone, cbLast>>
cbVars == <<cbLife, cbTask, cbBufs, cbHeld, cbReady, cbFrame, cbPicked,
            cbSensor, cbAsked>>

CbNone == -1

CbInit ==
    /\ cbLevel = 0 /\ cbOpen = FALSE /\ cbHook = FALSE /\ cbOpened = 0
    /\ cbTask = "idle"
    /\ cbFilling = 0 /\ cbHeld = 0 /\ cbDone = 0 /\ cbLast = 0
    /\ cbReady = FALSE /\ cbFrame = CbNone /\ cbPicked = 0
    /\ cbWriting = CbNone /\ cbSent = 0 /\ cbAsked = FALSE

---------------------------------------------------------------------------
(* The driver's interrupt: one frame has ended *)

\* Mutant: the buffer Python is holding.
CbOtherSwapped(held) == IF held = 1 THEN 1 ELSE 0

\* on_get_new_trans: whatever Python is not holding.
CbOther(held) == IF held = 0 THEN 1 ELSE 0

\* Both callbacks, in the order the driver makes them: `done` takes the value
\* `filling` has when on_trans_finished runs. The buffer asked for is written
\* from here on. A transfer may carry nothing.
CbIsr ==
    /\ cbLevel = 4 /\ cbSent < CbMaxNum
    /\ \E first \in CbOrders, whole \in BOOLEAN :
          /\ cbFilling' = CbOther(cbHeld)
          /\ cbDone' = IF first = "ask" THEN CbOther(cbHeld) ELSE cbFilling
          /\ cbLast' = IF whole THEN 1 ELSE 0
          /\ cbSent' = cbSent + 1
    /\ cbWriting' = CbOther(cbHeld)
    /\ cbReady' = TRUE
    /\ cbAsked' = TRUE
    /\ UNCHANGED <<cbLife, cbTask, cbHeld, cbFrame, cbPicked>>

---------------------------------------------------------------------------
(* wait_frame *)

CbWait ==
    /\ cbTask = "idle" /\ cbOpen
    /\ cbTask' = "waits"
    /\ cbHeld' = CbNone /\ cbFrame' = CbNone
    /\ UNCHANGED <<cbLife, cbBufs, cbReady, cbPicked, cbSensor, cbAsked>>

\* The semaphore is binary: what it says is that a frame ended since the last
\* take, not that one ended since the call.
CbTake ==
    /\ cbTask = "waits" /\ cbReady
    /\ cbReady' = FALSE /\ cbTask' = "taken"
    /\ UNCHANGED <<cbLife, cbBufs, cbHeld, cbFrame, cbPicked, cbSensor, cbAsked>>

CbTimesOut ==
    /\ cbTask = "waits" /\ ~cbReady
    /\ cbTask' = "idle"
    /\ UNCHANGED <<cbLife, cbBufs, cbHeld, cbReady, cbFrame, cbPicked, cbSensor, cbAsked>>

CbCheck ==
    /\ cbTask = "taken"
    /\ cbTask' = IF cbLast = 0 THEN "idle" ELSE "checked"
    /\ UNCHANGED <<cbLife, cbBufs, cbHeld, cbReady, cbFrame, cbPicked, cbSensor, cbAsked>>

\* `fb_held = fb_done` is a load and a store.
CbPick ==
    /\ cbTask = "checked"
    /\ cbPicked' = cbDone /\ cbTask' = "read"
    /\ UNCHANGED <<cbLife, cbBufs, cbHeld, cbReady, cbFrame, cbSensor, cbAsked>>

CbClaim ==
    /\ cbTask = "read"
    /\ cbHeld' = cbPicked /\ cbFrame' = cbPicked
    /\ cbAsked' = FALSE
    /\ cbTask' = "idle"
    /\ UNCHANGED <<cbLife, cbBufs, cbReady, cbPicked, cbSensor>>

---------------------------------------------------------------------------
(* Opening and closing *)

\* Teardown takes the driver down first, whatever else is held, and what the
\* interrupt uses after it.
CbStops(level) == IF level >= 3 THEN 2 ELSE level

\* make_new tears down whatever camera there was, and zeroes the object.
CbMake ==
    /\ cbTask = "idle" /\ cbOpened < CbOpens
    /\ cbOpened' = cbOpened + 1
    /\ cbTask' = "open"
    /\ cbLevel' = 0 /\ cbOpen' = FALSE
    /\ cbFilling' = 0 /\ cbDone' = 0 /\ cbLast' = 0 /\ cbHeld' = 0
    /\ cbReady' = FALSE /\ cbFrame' = CbNone
    /\ cbWriting' = CbNone /\ cbAsked' = FALSE
    /\ UNCHANGED <<cbHook, cbPicked, cbSent>>

\* The next of its stages: the sensor, the buffers, the controller, and the
\* start, which asks for the first buffer itself.
CbStage ==
    /\ cbTask = "open" /\ cbLevel < 4
    /\ cbLevel' = cbLevel + 1
    /\ IF cbLevel = 1 THEN cbFilling' = 0 /\ cbHeld' = CbNone
       ELSE IF cbLevel = 3 THEN cbFilling' = CbOther(cbHeld) /\ UNCHANGED cbHeld
       ELSE UNCHANGED <<cbFilling, cbHeld>>
    /\ cbOpen' = (cbLevel = 3)
    /\ cbWriting' = IF cbLevel = 3 THEN CbOther(cbHeld) ELSE cbWriting
    /\ UNCHANGED <<cbHook, cbOpened, cbTask, cbDone, cbLast, cbReady, cbFrame,
                   cbPicked, cbSent, cbAsked>>

CbMade ==
    /\ cbTask = "open" /\ cbLevel = 4
    /\ cbHook' = TRUE /\ cbTask' = "idle"
    /\ UNCHANGED <<cbLevel, cbOpen, cbOpened, cbBufs, cbHeld, cbReady, cbFrame,
                   cbPicked, cbSensor, cbAsked>>

\* A stage that fails tears down; an argument of the wrong type raises where
\* it is read and leaves what the constructor had.
CbFails ==
    /\ cbTask = "open"
    /\ cbTask' \in {"fails", "idle"}
    /\ UNCHANGED <<cbLife, cbBufs, cbHeld, cbReady, cbFrame, cbPicked, cbSensor, cbAsked>>

\* deinit() and the finaliser: the hook goes first.
CbDeinit ==
    /\ cbTask = "idle"
    /\ cbHook' = FALSE /\ cbTask' = "closes"
    /\ UNCHANGED <<cbLevel, cbOpen, cbOpened, cbBufs, cbHeld, cbReady, cbFrame,
                   cbPicked, cbSensor, cbAsked>>

\* The soft reset runs the hook it has; the objects are gone with the heap.
CbSoftReset ==
    /\ cbTask = "idle" /\ cbHook
    /\ cbTask' = "closes"
    /\ UNCHANGED <<cbLife, cbBufs, cbHeld, cbReady, cbFrame, cbPicked, cbSensor, cbAsked>>

\* Teardown: `open` and the driver, then the buffers and the semaphore.
CbTearStops ==
    /\ cbTask \in {"fails", "closes"} /\ (cbOpen \/ cbLevel > CbStops(cbLevel))
    /\ cbOpen' = FALSE /\ cbLevel' = CbStops(cbLevel)
    /\ cbWriting' = IF cbLevel' < 3 THEN CbNone ELSE cbWriting
    /\ UNCHANGED <<cbHook, cbOpened, cbTask, cbBufs, cbHeld, cbReady, cbFrame,
                   cbPicked, cbSent, cbAsked>>

CbTearFrees ==
    /\ cbTask \in {"fails", "closes"} /\ ~cbOpen /\ cbLevel = CbStops(cbLevel)
    /\ cbTask' = "idle"
    /\ cbLevel' = 0 /\ cbFrame' = CbNone /\ cbReady' = FALSE
    /\ UNCHANGED <<cbOpen, cbHook, cbOpened, cbBufs, cbHeld, cbPicked, cbSensor, cbAsked>>

CbNext ==
    \/ CbIsr \/ CbWait \/ CbTake \/ CbTimesOut \/ CbCheck \/ CbPick \/ CbClaim
    \/ CbMake \/ CbStage \/ CbMade \/ CbFails \/ CbDeinit \/ CbSoftReset
    \/ CbTearStops \/ CbTearFrees

CbSpec == CbInit /\ [][CbNext]_cbVars
---------------------------------------------------------------------------
\* The struct's rule: the DMA and the Python reader never hold the same
\* buffer. (cameraif_wait_frame claims after the interrupt that reported the
\* frame has handed out the next buffer, with nothing held.)
CbNeverShared == cbFrame # CbNone => cbWriting # cbFrame

\* What is left of it: from the first time the driver asks after a claim, the
\* reader's buffer is its own until the next wait, however long it reads and
\* however many frames pass.
CbSparedOnceAsked == (cbFrame # CbNone /\ cbAsked) => cbWriting # cbFrame

\* The DMA never writes a buffer teardown has freed: whatever stage a
\* constructor failed at, and a camera torn down half open included.
CbWritesWhatIsThere == cbWriting # CbNone => cbLevel >= 2

\* Where the DMA writes, at any step of the program and of the driver.
CbSafe == CbSparedOnceAsked /\ CbWritesWhatIsThere
=============================================================================
