------------------------------ MODULE HostNet ------------------------------
(***************************************************************************)
(* The network adapter, usbhost_host_net.c: the interpreter's start and    *)
(* stop, the host task's completions and unplugs (with the host lock), and *)
(* lwIP's thread, which transmits without it.  Every session allocates its *)
(* own transfers; one is named by its slot and its session.                *)
(*                                                                         *)
(* External: the USB library, which gives back what it holds in any order, *)
(* flushed or not; and esp_netif, whose actions run on lwIP's thread and   *)
(* so not within a transmit.                                               *)
(***************************************************************************)
EXTENDS Integers

CONSTANTS
    NetRx, NetTx,   \* the slots, NET_RX_XFERS and NET_TX_XFERS of them
    NetSessions     \* starts, a bound for TLC

NetSlots == NetRx \cup NetTx

ASSUME NetAssumption == NetRx \cap NetTx = {} /\ NetTx \subseteq Nat /\ NetSessions \in Nat

VARIABLES
    nOpen, nNetif,  \* usbhost_net.open, and netif # NULL
    nPtr,           \* rx and tx: the session of the transfer in a slot, 0 for NULL
    nMark,          \* rx_live and tx_busy
    nHeld,          \* the transfers the library has
    nLink,          \* lwIP's side of the netif: up, closing (an unplug asks), down
    nDev,           \* the device is there
    nTx,            \* lwIP's transmit: its place and its slot
    nPy,            \* the interpreter's start or stop
    nSes,           \* sessions so far
    nLost           \* history: a session was forgotten while the library had of it

netVars == <<nOpen, nNetif, nPtr, nMark, nHeld, nLink, nDev, nTx, nPy, nSes, nLost>>

NetIdle == [pc |-> "idle", slot |-> 0]

NetInit ==
    /\ nOpen = FALSE /\ nNetif = FALSE
    /\ nPtr = [s \in NetSlots |-> 0] /\ nMark = [s \in NetSlots |-> FALSE]
    /\ nHeld = {} /\ nLink = "down" /\ nDev = FALSE
    /\ nTx = NetIdle /\ nPy = "idle" /\ nSes = 0 /\ nLost = FALSE

Unlocked == nLink # "closing"   \* an unplug holds the host lock till lwIP is idle

-----------------------------------------------------------------------------
\* usbhost_net_start: only `open` is looked at, and the memset forgets the
\* rest.  It succeeds as far as the open netif, or frees what it allocated.
NetStart ==
    /\ nPy = "idle" /\ Unlocked
    /\ ~nOpen /\ nDev /\ nSes < NetSessions
    /\ nSes' = nSes + 1
    /\ nLost' = (nLost \/ nHeld # {})
    /\ nMark' = [s \in NetSlots |-> FALSE]
    /\ \/ /\ nPtr' = [s \in NetSlots |-> nSes'] /\ nNetif' = TRUE /\ nOpen' = TRUE
          /\ nPy' = "arm"
       \/ /\ nPtr' = [s \in NetSlots |-> 0] /\ nNetif' = FALSE /\ nOpen' = FALSE
          /\ UNCHANGED nPy
    /\ UNCHANGED <<nHeld, nLink, nDev, nTx>>

\* The reads are submitted, each taken or refused, and the link comes up.
NetArm ==
    /\ nPy = "arm" /\ Unlocked
    /\ \E taken \in SUBSET NetRx :
           /\ nMark' = [s \in NetSlots |-> IF s \in NetRx THEN s \in taken ELSE nMark[s]]
           /\ nHeld' = nHeld \cup {<<s, nPtr[s]>> : s \in taken}
    /\ nLink' = "up" /\ nPy' = "idle"
    /\ UNCHANGED <<nOpen, nNetif, nPtr, nDev, nTx, nSes, nLost>>

\* usbhost_net_stop: lwIP lets go; was_open decides the rest.
NetStop ==
    /\ nPy = "idle" /\ nNetif /\ nTx.pc = "idle"
    /\ nLink' = IF Unlocked THEN "down" ELSE nLink
    /\ nPy' = IF nOpen THEN "quiesce" ELSE "free"
    /\ UNCHANGED <<nOpen, nNetif, nPtr, nMark, nHeld, nDev, nTx, nSes, nLost>>

NetQuiesce ==
    /\ nPy = "quiesce" /\ Unlocked
    /\ nOpen' = FALSE /\ nPy' = "wait"
    /\ UNCHANGED <<nNetif, nPtr, nMark, nHeld, nLink, nDev, nTx, nSes, nLost>>

\* All back, or half a second gone.
NetWaited ==
    /\ nPy = "wait"
    /\ nPy' = "free"
    /\ UNCHANGED <<nOpen, nNetif, nPtr, nMark, nHeld, nLink, nDev, nTx, nSes, nLost>>

\* usbhost_net_free_xfers, and the netif is destroyed.
NetFree ==
    /\ nPy = "free"
    /\ nPtr' = [s \in NetSlots |-> IF nMark[s] THEN nPtr[s] ELSE 0]
    /\ nLost' = (nLost \/ nHeld # {})
    /\ nNetif' = FALSE /\ nPy' = "idle"
    /\ UNCHANGED <<nOpen, nMark, nHeld, nLink, nDev, nTx, nSes>>

-----------------------------------------------------------------------------
\* The host task.

NetPlug ==
    /\ ~nDev /\ nDev' = TRUE
    /\ UNCHANGED <<nOpen, nNetif, nPtr, nMark, nHeld, nLink, nTx, nPy, nSes, nLost>>

\* usbhost_net_on_dev_gone; closing the netif's link waits for lwIP.
NetGone ==
    /\ nDev /\ Unlocked /\ nDev' = FALSE
    /\ IF nNetif /\ nOpen THEN nOpen' = FALSE /\ nLink' = "closing"
                          ELSE UNCHANGED <<nOpen, nLink>>
    /\ UNCHANGED <<nNetif, nPtr, nMark, nHeld, nTx, nPy, nSes, nLost>>

NetGoneEnds ==
    /\ nLink = "closing" /\ nTx.pc = "idle"
    /\ nLink' = "down"
    /\ UNCHANGED <<nOpen, nNetif, nPtr, nMark, nHeld, nDev, nTx, nPy, nSes, nLost>>

\* usbhost_net_rx_cb: resubmitted, or off: closed, cancelled or refused.
NetRxCb(x) ==
    /\ x \in nHeld /\ x[1] \in NetRx /\ Unlocked
    /\ \/ nOpen /\ UNCHANGED <<nHeld, nMark>>
       \/ nHeld' = nHeld \ {x} /\ nMark' = [nMark EXCEPT ![x[1]] = FALSE]
    /\ UNCHANGED <<nOpen, nNetif, nPtr, nLink, nDev, nTx, nPy, nSes, nLost>>

NetTxCb(x) ==
    /\ x \in nHeld /\ x[1] \in NetTx /\ Unlocked
    /\ nHeld' = nHeld \ {x} /\ nMark' = [nMark EXCEPT ![x[1]] = FALSE]
    /\ UNCHANGED <<nOpen, nNetif, nPtr, nLink, nDev, nTx, nPy, nSes, nLost>>

-----------------------------------------------------------------------------
\* usbhost_net_transmit, on lwIP's thread: the check, the slot, the submission.

NetTxCheck ==
    /\ nTx.pc = "idle" /\ nLink # "down" /\ nOpen
    /\ nTx' = [pc |-> "slot", slot |-> 0]
    /\ UNCHANGED <<nOpen, nNetif, nPtr, nMark, nHeld, nLink, nDev, nPy, nSes, nLost>>

NetTxSlot ==
    /\ nTx.pc = "slot"
    /\ LET idle == {s \in NetTx : ~nMark[s]}
           slot == CHOOSE s \in idle : \A t \in idle : s <= t
       IN  IF idle = {} THEN nTx' = NetIdle /\ UNCHANGED nMark
           ELSE nTx' = [pc |-> "submit", slot |-> slot] /\ nMark' = [nMark EXCEPT ![slot] = TRUE]
    /\ UNCHANGED <<nOpen, nNetif, nPtr, nHeld, nLink, nDev, nPy, nSes, nLost>>

\* Mutant: the slot of a refused frame stays taken.
NetTxSubmitKeepsSlot ==
    /\ nTx.pc = "submit"
    /\ nTx' = NetIdle
    /\ LET x == <<nTx.slot, nPtr[nTx.slot]>> IN
       \/ x \notin nHeld /\ nHeld' = nHeld \cup {x}
       \/ UNCHANGED nHeld
    /\ UNCHANGED <<nOpen, nNetif, nPtr, nMark, nLink, nDev, nPy, nSes, nLost>>

NetTxSubmit ==
    /\ nTx.pc = "submit"
    /\ nTx' = NetIdle
    /\ LET x == <<nTx.slot, nPtr[nTx.slot]>> IN
       \/ x \notin nHeld /\ nHeld' = nHeld \cup {x} /\ UNCHANGED nMark
       \/ UNCHANGED nHeld /\ nMark' = [nMark EXCEPT ![nTx.slot] = FALSE]
    /\ UNCHANGED <<nOpen, nNetif, nPtr, nLink, nDev, nPy, nSes, nLost>>

NetNext ==
    \/ NetStart \/ NetArm \/ NetStop \/ NetQuiesce \/ NetWaited \/ NetFree
    \/ NetPlug \/ NetGone \/ NetGoneEnds
    \/ \E x \in nHeld : NetRxCb(x) \/ NetTxCb(x)
    \/ NetTxCheck \/ NetTxSlot \/ NetTxSubmit

NetSpec == NetInit /\ [][NetNext]_netVars

-----------------------------------------------------------------------------
\* What the library has is in its slot, marked, and so is not freed under it,
\* as long as no session was forgotten with transfers out: usbhost_net_stop
\* after half a second, a start in the place of the stop an unplug needs.
NetHeldIsKept ==
    ~nLost => \A x \in nHeld : nPtr[x[1]] = x[2] /\ nMark[x[1]]

\* A mark is a transfer that is out, or a transmit's about to be, so that a
\* stop that finds none out waits for none and leaves nothing allocated.
NetMarksAreOut ==
    ~nLost => \A s \in NetSlots : nMark[s] => <<s, nPtr[s]>> \in nHeld \/ nTx.slot = s

\* lwIP has a transfer to fill whatever the other two do between its steps,
\* and none of its own when the netif is gone.
NetTxHasTransfer ==
    /\ nTx.pc = "submit" => nPtr[nTx.slot] # 0 /\ (~nLost => nMark[nTx.slot])
    /\ ~nNetif /\ nPy = "idle" => nTx.pc = "idle"

\* A stop that waited for all there was leaves nothing behind.
NetStopLeavesNone ==
    ~nNetif /\ ~nLost => \A s \in NetSlots : nPtr[s] = 0

\* What lwIP, the client's task and the program owe the transfers and each other.
NetSafe == NetHeldIsKept /\ NetMarksAreOut /\ NetTxHasTransfer /\ NetStopLeavesNone
=============================================================================
