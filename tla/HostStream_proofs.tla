------------------------- MODULE HostStream_proofs -------------------------
(***************************************************************************)
(* The streams for every number of slots and transfers: what a slot counts *)
(* in flight is what the library has, a running stream's ring is held, an  *)
(* endpoint has one stream, and the slots implement StreamSlots.           *)
(*                                                                         *)
(* The inductive invariant adds that only a used slot is open or counts    *)
(* anything, and that the slot a stop waits for stays closed: nothing can  *)
(* open it again before the lock is let go.                                *)
(***************************************************************************)
EXTENDS HostStream, TLAPS

\* What a slot that holds no stream looks like.
FreeIsEmpty == \A s \in Slots : ~used[s] => ~open[s] /\ inflight[s] = 0

\* The slot a stop waits for resubmits nothing.
StoppedIsClosed == \A a \in Stops : stage[a] \in Waits => ~open[cur[a]]

\* The interpreter's stop is that of a call that closes or releases.
CallIsStopping == stage["call"] # "off" => api \in {"closing", "releasing"}

\* The inductive invariant.
IInv ==
    /\ TypeOK /\ InflightIsHeld /\ RingIsHeld /\ OnePerEndpoint
    /\ FreeIsEmpty /\ StoppedIsClosed /\ CallIsStopping

\* The table's slots are numbers.
LEMMA SlotsFact == 0 \in Slots /\ MaxXfer \in Nat /\ Slots \subseteq Int
BY HostStreamAssumption DEF Slots

\* The invariant holds of an empty table.
LEMMA InitInv == Init => IInv
<1>. SUFFICES ASSUME Init PROVE IInv
  OBVIOUS
<1>1. TypeOK
  <2>1. PICK k \in Keys : key = [s \in Slots |-> k]
    BY DEF Init
  <2> QED BY <2>1, SlotsFact DEF Init, TypeOK, Waits
<1>2. InflightIsHeld /\ RingIsHeld /\ OnePerEndpoint
  BY DEF Init, InflightIsHeld, RingIsHeld, OnePerEndpoint
<1>3. FreeIsEmpty /\ StoppedIsClosed /\ CallIsStopping
  BY DEF Init, FreeIsEmpty, StoppedIsClosed, CallIsStopping, Waits, Stops
<1> QED BY <1>1, <1>2, <1>3 DEF IInv

-----------------------------------------------------------------------------
\* Opening takes a free slot, which the library has nothing of.
LEMMA OpenTakes ==
    ASSUME IInv, NEW e \in Eps, NEW n \in 1 .. MaxXfer, Open(e, n)
    PROVE  \E s \in Slots :
             /\ ~used[s] /\ queued[s] = 0 /\ back[s] = 0 /\ inflight[s] = 0
             /\ \A t \in Slots : used[t] => key[t] # <<addr, e>>
             /\ used' = [used EXCEPT ![s] = TRUE]
             /\ open' = [open EXCEPT ![s] = TRUE]
             /\ gone' = [gone EXCEPT ![s] = FALSE]
             /\ key' = [key EXCEPT ![s] = <<addr, e>>]
             /\ inflight' = [inflight EXCEPT ![s] = n]
             /\ queued' = [queued EXCEPT ![s] = n]
             /\ rooted' = [rooted EXCEPT ![s] = FALSE]
             /\ slot' = s
<1>1. PICK s \in First({t \in Slots : ~used[t]}) :
         /\ used' = [used EXCEPT ![s] = TRUE]
         /\ open' = [open EXCEPT ![s] = TRUE]
         /\ gone' = [gone EXCEPT ![s] = FALSE]
         /\ key' = [key EXCEPT ![s] = <<addr, e>>]
         /\ inflight' = [inflight EXCEPT ![s] = n]
         /\ queued' = [queued EXCEPT ![s] = @ + n]
         /\ rooted' = [rooted EXCEPT ![s] = FALSE]
         /\ slot' = s
  BY DEF Open
<1>2. s \in Slots /\ ~used[s]
  BY <1>1 DEF First
<1>3. inflight[s] = 0 /\ inflight[s] = queued[s] + back[s]
  BY <1>2 DEF IInv, FreeIsEmpty, InflightIsHeld
<1>4. queued[s] \in 0 .. MaxXfer /\ back[s] \in 0 .. MaxXfer /\ MaxXfer \in Nat
  BY <1>2, SlotsFact DEF IInv, TypeOK
<1>5. queued[s] = 0 /\ back[s] = 0
  BY <1>3, <1>4
<1>6. queued' = [queued EXCEPT ![s] = n]
  <2>1. queued[s] + n = n
    BY <1>4, <1>5
  <2> QED BY <1>1, <2>1
<1>7. \A t \in Slots : used[t] => key[t] # <<addr, e>>
  BY DEF Open, Find
<1> QED BY <1>1, <1>2, <1>3, <1>5, <1>6, <1>7

\* Opening a stream keeps it.
LEMMA OpenStep ==
    ASSUME IInv, NEW e \in Eps, NEW n \in 1 .. MaxXfer, Open(e, n)
    PROVE  IInv'
<1>1. PICK s \in Slots :
             /\ ~used[s] /\ queued[s] = 0 /\ back[s] = 0 /\ inflight[s] = 0
             /\ \A t \in Slots : used[t] => key[t] # <<addr, e>>
             /\ used' = [used EXCEPT ![s] = TRUE]
             /\ open' = [open EXCEPT ![s] = TRUE]
             /\ gone' = [gone EXCEPT ![s] = FALSE]
             /\ key' = [key EXCEPT ![s] = <<addr, e>>]
             /\ inflight' = [inflight EXCEPT ![s] = n]
             /\ queued' = [queued EXCEPT ![s] = n]
             /\ rooted' = [rooted EXCEPT ![s] = FALSE]
             /\ slot' = s
  BY OpenTakes
<1>2. /\ UNCHANGED <<dev, addr, back, stage, cur, todo>>
      /\ api' = "opened" /\ LockFree /\ api = "idle"
  BY DEF Open, stopVars
<1>3. TypeOK /\ MaxXfer \in Nat
  BY SlotsFact DEF IInv
<1>4. TypeOK'
  <2>1. <<addr, e>> \in Keys
    BY <1>3 DEF TypeOK, Keys
  <2>2. n \in 0 .. MaxXfer
    BY <1>3
  <2>3. /\ used' \in [Slots -> BOOLEAN] /\ open' \in [Slots -> BOOLEAN]
        /\ gone' \in [Slots -> BOOLEAN] /\ rooted' \in [Slots -> BOOLEAN]
    BY <1>1, <1>3 DEF TypeOK
  <2>4. key' \in [Slots -> Keys]
    BY <1>1, <1>3, <2>1 DEF TypeOK
  <2>5. inflight' \in [Slots -> 0 .. MaxXfer] /\ queued' \in [Slots -> 0 .. MaxXfer]
    BY <1>1, <1>3, <2>2 DEF TypeOK
  <2> QED BY <1>1, <1>2, <1>3, <2>3, <2>4, <2>5 DEF TypeOK
<1>5. InflightIsHeld'
  BY <1>1, <1>2, <1>3 DEF IInv, TypeOK, InflightIsHeld
<1>6. RingIsHeld'
  BY <1>1, <1>2, <1>3 DEF IInv, TypeOK, RingIsHeld
<1>7. OnePerEndpoint'
  BY <1>1, <1>3 DEF IInv, TypeOK, OnePerEndpoint
<1>8. FreeIsEmpty'
  BY <1>1, <1>3 DEF IInv, TypeOK, FreeIsEmpty
<1>9. StoppedIsClosed' /\ CallIsStopping'
  BY <1>2 DEF StoppedIsClosed, CallIsStopping, LockFree, Waits, Stops
<1> QED BY <1>4, <1>5, <1>6, <1>7, <1>8, <1>9 DEF IInv

\* So do the calls that only look or that begin a stop.
LEMMA CallStep ==
    ASSUME IInv,
           (\E e \in Eps : StopItf(e)) \/ (\E k \in Keys : Close(k)) \/ CloseAll
             \/ DevGone \/ Root \/ ReleaseOwners
    PROVE  IInv'
<1>. USE DEF IInv, slotVars, libVars, stopVars
<1>1. ASSUME NEW a \in Stops, NEW S, S \subseteq Slots, Begin(a, S), stage[a] = "off",
             a = "call" => api = "idle" /\ api' \in {"closing", "releasing"},
             a = "gone" => api' = api,
             UNCHANGED <<dev, addr, slotVars, libVars, rooted, slot>>
      PROVE  IInv'
  <2>1. stage' = [stage EXCEPT ![a] = "next"] /\ todo' = [todo EXCEPT ![a] = S] /\ cur' = cur
    BY <1>1 DEF Begin
  <2>2. TypeOK'
    <3>1. api' \in {"idle", "opened", "closing", "releasing", "closed"}
      BY <1>1 DEF TypeOK, Stops
    <3> QED BY <1>1, <2>1, <3>1 DEF TypeOK
  <2>3. InflightIsHeld' /\ RingIsHeld' /\ OnePerEndpoint' /\ FreeIsEmpty'
    BY <1>1 DEF Stops, InflightIsHeld, RingIsHeld, OnePerEndpoint, FreeIsEmpty
  <2>4. StoppedIsClosed'
    BY <1>1, <2>1 DEF StoppedIsClosed, TypeOK, Waits
  <2>5. CallIsStopping'
    BY <1>1, <2>1 DEF CallIsStopping, TypeOK, Stops
  <2> QED BY <2>2, <2>3, <2>4, <2>5
<1>2. ASSUME NEW e \in Eps, StopItf(e) PROVE IInv'
  BY <1>1, <1>2 DEF StopItf, LockFree, Stops
<1>3. ASSUME NEW k \in Keys, Close(k) PROVE IInv'
  BY <1>1, <1>3 DEF Close, LockFree, Stops, First, Find
<1>4. CASE CloseAll
  BY <1>1, <1>4 DEF CloseAll, LockFree, Stops
<1>5. CASE DevGone
  BY <1>1, <1>5 DEF DevGone, Stops
<1>6. CASE Root
  BY <1>6 DEF Root, TypeOK, InflightIsHeld, RingIsHeld, OnePerEndpoint, FreeIsEmpty, StoppedIsClosed,
              CallIsStopping
<1>7. CASE ReleaseOwners
  BY <1>7 DEF ReleaseOwners, TypeOK, InflightIsHeld, RingIsHeld, OnePerEndpoint, FreeIsEmpty,
              StoppedIsClosed, CallIsStopping
<1> QED BY <1>2, <1>3, <1>4, <1>5, <1>6, <1>7

\* And each step of a stop, whoever runs it.
LEMMA StopStep ==
    ASSUME IInv, NEW a \in Stops, InStop(a)
    PROVE  IInv'
<1>. USE DEF IInv, slotVars, libVars, stopVars
<1>1. CASE StopSlot(a)
  <2>1. PICK s \in First(todo[a]) :
        /\ todo' = [todo EXCEPT ![a] = @ \ {s}]
        /\ IF used[s]
           THEN /\ open' = [open EXCEPT ![s] = FALSE]
                /\ gone' = [gone EXCEPT ![s] = @ \/ a = "gone"]
                /\ cur' = [cur EXCEPT ![a] = s]
                /\ stage' = [stage EXCEPT ![a] = "retire"]
           ELSE UNCHANGED <<open, gone, cur, stage>>
    BY <1>1 DEF StopSlot
  <2>2. s \in Slots
    BY <2>1 DEF First, TypeOK
  <2>3. UNCHANGED <<dev, addr, used, key, inflight, queued, back, rooted, api, slot>>
    BY <1>1 DEF StopSlot
  <2>4. CASE ~used[s]
    BY <2>1, <2>2, <2>3, <2>4
       DEF TypeOK, InflightIsHeld, RingIsHeld, OnePerEndpoint, FreeIsEmpty, StoppedIsClosed,
           CallIsStopping
  <2>5. CASE used[s]
    <3>1. TypeOK'
      BY <2>1, <2>2, <2>3, <2>5 DEF TypeOK, Waits
    <3>2. InflightIsHeld' /\ RingIsHeld' /\ OnePerEndpoint' /\ FreeIsEmpty'
      BY <2>1, <2>2, <2>3, <2>5 DEF TypeOK, InflightIsHeld, RingIsHeld, OnePerEndpoint, FreeIsEmpty
    <3>3. StoppedIsClosed'
      BY <2>1, <2>2, <2>3, <2>5 DEF TypeOK, StoppedIsClosed
    <3>4. stage[a] = "next"
      BY <1>1 DEF StopSlot
    <3>5. CallIsStopping'
      BY <2>1, <2>3, <2>5, <3>4 DEF TypeOK, CallIsStopping, Stops
    <3> QED BY <3>1, <3>2, <3>3, <3>5
  <2> QED BY <2>4, <2>5
<1>2. ASSUME NEW t \in {"next", "halted", "lingering"},
             stage' = [stage EXCEPT ![a] = t], stage[a] \in Waits,
             (used' = used) \/ (inflight[cur[a]] = 0 /\ used' = [used EXCEPT ![cur[a]] = FALSE]),
             queued' \in [Slots -> 0 .. MaxXfer], back' \in [Slots -> 0 .. MaxXfer],
             \A s \in Slots : queued'[s] + back'[s] = queued[s] + back[s],
             UNCHANGED <<dev, addr, open, gone, key, inflight, rooted, cur, todo, api, slot>>
      PROVE  IInv'
  <2>1. cur[a] \in Slots /\ ~open[cur[a]]
    BY <1>2 DEF TypeOK, StoppedIsClosed
  <2>2. used' \in [Slots -> BOOLEAN] /\ \A s \in Slots : used'[s] => used[s]
    BY <1>2, <2>1 DEF TypeOK
  <2>3. TypeOK'
    BY <1>2, <2>2 DEF TypeOK, Waits
  <2>4. InflightIsHeld' /\ RingIsHeld'
    BY <1>2 DEF InflightIsHeld, RingIsHeld
  <2>5. OnePerEndpoint'
    BY <1>2, <2>2 DEF OnePerEndpoint
  <2>6. FreeIsEmpty'
    BY <1>2, <2>1 DEF FreeIsEmpty, TypeOK
  <2>7. StoppedIsClosed' /\ CallIsStopping'
    BY <1>2 DEF StoppedIsClosed, CallIsStopping, TypeOK, Waits
  <2> QED BY <2>3, <2>4, <2>5, <2>6, <2>7
<1>3. CASE RetireEnds(a)
  <2>1. /\ stage[a] \in Waits
        /\ UNCHANGED <<dev, addr, open, gone, key, inflight, rooted, cur, todo, api, slot>>
    BY <1>3 DEF RetireEnds, Waits
  <2>2. CASE Retired(a)
    BY <1>2, <2>1, <2>2 DEF Retired, TypeOK
  <2>3. CASE Halt(a)
    <3>1. cur[a] \in Slots /\ used' = used /\ stage' = [stage EXCEPT ![a] = "halted"]
      BY <2>3 DEF Halt, TypeOK
    <3>2. CASE UNCHANGED <<queued, back>>
      BY <1>2, <2>1, <3>1, <3>2 DEF TypeOK
    <3>3. CASE /\ queued' = [queued EXCEPT ![cur[a]] = 0]
               /\ back' = [back EXCEPT ![cur[a]] = @ + queued[cur[a]]]
      <4>1. inflight[cur[a]] = queued[cur[a]] + back[cur[a]] /\ inflight[cur[a]] \in 0 .. MaxXfer
        BY <3>1 DEF InflightIsHeld, TypeOK
      <4>2. queued' \in [Slots -> 0 .. MaxXfer] /\ back' \in [Slots -> 0 .. MaxXfer]
        <5>1. queued[cur[a]] \in Int /\ back[cur[a]] \in Int
          BY <3>1 DEF TypeOK
        <5>2. back[cur[a]] + queued[cur[a]] \in 0 .. MaxXfer /\ 0 \in 0 .. MaxXfer
          BY <4>1, <5>1, SlotsFact
        <5> QED BY <3>1, <3>3, <5>2 DEF TypeOK
      <4>3. \A s \in Slots : queued'[s] + back'[s] = queued[s] + back[s]
        BY <3>1, <3>3, SlotsFact DEF TypeOK
      <4> QED BY <1>2, <2>1, <3>1, <4>2, <4>3
    <3> QED BY <2>3, <3>2, <3>3 DEF Halt
  <2>4. CASE Linger(a)
    BY <1>2, <2>1, <2>4 DEF Linger, TypeOK
  <2> QED BY <1>3, <2>2, <2>3, <2>4 DEF RetireEnds
<1>4. CASE HaltEnds(a)
  <2>1. cur[a] \in Slots /\ inflight[cur[a]] \in 0 .. MaxXfer /\ stage[a] \in Waits
    BY <1>4 DEF HaltEnds, TypeOK, Waits
  <2>2. CASE inflight[cur[a]] > 0
    <3>1. used' = used
      BY <1>4, <2>1, <2>2 DEF HaltEnds, TypeOK
    <3> QED BY <1>2, <1>4, <2>1, <3>1 DEF HaltEnds, TypeOK
  <2>3. CASE ~(inflight[cur[a]] > 0)
    <3>1. inflight[cur[a]] = 0
      BY <2>1, <2>3, SlotsFact
    <3>2. used' = [used EXCEPT ![cur[a]] = FALSE]
      BY <1>4, <2>1, <2>3 DEF HaltEnds, TypeOK
    <3> QED BY <1>2, <1>4, <2>1, <3>1, <3>2 DEF HaltEnds, TypeOK
  <2> QED BY <2>2, <2>3
<1>5. CASE StopEnds(a)
  <2>1. api' = api \/ (a = "call" /\ api # "opened" /\ api' \in {"closed", "idle"})
    BY <1>5 DEF StopEnds, CallIsStopping, Running, Stops
  <2>2. TypeOK'
    BY <1>5, <2>1 DEF StopEnds, TypeOK
  <2>3. InflightIsHeld' /\ RingIsHeld' /\ OnePerEndpoint' /\ FreeIsEmpty'
    BY <1>5, <2>1 DEF StopEnds, InflightIsHeld, RingIsHeld, OnePerEndpoint, FreeIsEmpty
  <2>4. StoppedIsClosed' /\ CallIsStopping'
    BY <1>5, <2>1 DEF StopEnds, TypeOK, StoppedIsClosed, CallIsStopping, Waits, Stops
  <2> QED BY <2>2, <2>3, <2>4
<1> QED BY <1>1, <1>3, <1>4, <1>5 DEF InStop

\* And the library's and the task's steps.
LEMMA PumpStep ==
    ASSUME IInv, Unplug \/ Plug \/ (\E s \in Slots : Callback(s) \/ Complete(s))
    PROVE  IInv'
<1>. USE DEF IInv, slotVars, libVars, stopVars
<1>1. ASSUME NEW s \in Slots, Callback(s) PROVE IInv'
  <2>1. /\ queued[s] \in 0 .. MaxXfer /\ back[s] \in 1 .. MaxXfer /\ inflight[s] \in 0 .. MaxXfer
        /\ inflight[s] = queued[s] + back[s] /\ used[s] /\ MaxXfer \in Nat
    BY <1>1, SlotsFact DEF Callback, TypeOK, InflightIsHeld, FreeIsEmpty
  <2>2. /\ back' = [back EXCEPT ![s] = @ - 1]
        /\ UNCHANGED <<dev, addr, used, open, gone, key, rooted, stage, cur, todo, api, slot>>
    BY <1>1 DEF Callback
  <2>3. CASE queued' = [queued EXCEPT ![s] = @ + 1] /\ inflight' = inflight
    <3>1. TypeOK' /\ InflightIsHeld'
      BY <2>1, <2>2, <2>3 DEF TypeOK, InflightIsHeld
    <3>2. RingIsHeld' /\ OnePerEndpoint' /\ FreeIsEmpty' /\ StoppedIsClosed' /\ CallIsStopping'
      BY <2>2, <2>3 DEF RingIsHeld, OnePerEndpoint, FreeIsEmpty, StoppedIsClosed, CallIsStopping
    <3> QED BY <3>1, <3>2
  <2>4. CASE inflight' = [inflight EXCEPT ![s] = @ - 1] /\ queued' = queued
    <3>1. TypeOK' /\ InflightIsHeld'
      BY <2>1, <2>2, <2>4 DEF TypeOK, InflightIsHeld
    <3>2. FreeIsEmpty'
      BY <2>1, <2>2, <2>4 DEF TypeOK, FreeIsEmpty
    <3>3. RingIsHeld' /\ OnePerEndpoint' /\ StoppedIsClosed' /\ CallIsStopping'
      BY <2>2, <2>4 DEF RingIsHeld, OnePerEndpoint, StoppedIsClosed, CallIsStopping
    <3> QED BY <3>1, <3>2, <3>3
  <2> QED BY <1>1, <2>3, <2>4 DEF Callback
<1>2. ASSUME NEW s \in Slots, Complete(s) PROVE IInv'
  <2>1. /\ queued[s] \in 1 .. MaxXfer /\ back[s] \in 0 .. MaxXfer /\ inflight[s] \in 0 .. MaxXfer
        /\ inflight[s] = queued[s] + back[s] /\ MaxXfer \in Nat
    BY <1>2, SlotsFact DEF Complete, TypeOK, InflightIsHeld
  <2>2. TypeOK' /\ InflightIsHeld'
    BY <1>2, <2>1 DEF Complete, TypeOK, InflightIsHeld
  <2>3. RingIsHeld' /\ OnePerEndpoint' /\ FreeIsEmpty' /\ StoppedIsClosed' /\ CallIsStopping'
    BY <1>2 DEF Complete, RingIsHeld, OnePerEndpoint, FreeIsEmpty, StoppedIsClosed, CallIsStopping
  <2> QED BY <2>2, <2>3
<1>3. CASE Unplug
  <2>1. \A s \in Slots : back[s] + queued[s] \in 0 .. MaxXfer
    BY SlotsFact DEF TypeOK, InflightIsHeld
  <2>2. \A s \in Slots : 0 + (back[s] + queued[s]) = queued[s] + back[s]
    BY SlotsFact DEF TypeOK
  <2>3. TypeOK' /\ InflightIsHeld'
    BY <1>3, <2>1, <2>2, SlotsFact DEF Unplug, TypeOK, InflightIsHeld
  <2>4. RingIsHeld' /\ OnePerEndpoint' /\ FreeIsEmpty' /\ StoppedIsClosed' /\ CallIsStopping'
    BY <1>3 DEF Unplug, RingIsHeld, OnePerEndpoint, FreeIsEmpty, StoppedIsClosed, CallIsStopping
  <2> QED BY <2>3, <2>4
<1>4. CASE Plug
  BY <1>4 DEF Plug, TypeOK, InflightIsHeld, RingIsHeld, OnePerEndpoint, FreeIsEmpty,
              StoppedIsClosed, CallIsStopping
<1> QED BY <1>1, <1>2, <1>3, <1>4

\* Every step keeps the invariant.
LEMMA NextInv == IInv /\ [Next]_vars => IInv'
<1>. SUFFICES ASSUME IInv, [Next]_vars PROVE IInv'
  OBVIOUS
<1>1. CASE UNCHANGED vars
  BY <1>1 DEF IInv, TypeOK, InflightIsHeld, RingIsHeld, OnePerEndpoint, FreeIsEmpty, StoppedIsClosed,
              CallIsStopping, vars, slotVars, libVars, stopVars
<1>2. CASE Call
  BY <1>2, OpenStep, CallStep DEF Call
<1>3. CASE \E a \in Stops : InStop(a)
  BY <1>3, StopStep
<1>4. CASE InCall
  BY <1>4, CallStep DEF InCall
<1>5. CASE Pump
  BY <1>5, CallStep, PumpStep DEF Pump
<1> QED BY <1>1, <1>2, <1>3, <1>4, <1>5 DEF Next

\* The invariant of every behaviour.
LEMMA Invariance == Spec => []IInv
<1>1. Init => IInv
  BY InitInv
<1>2. IInv /\ [Next]_vars => IInv'
  BY NextInv
<1> QED BY <1>1, <1>2, PTL DEF Spec

-----------------------------------------------------------------------------
\* The slots, the counts and the stops keep their types; no count passes
\* MaxXfer or goes below zero, where the code's uint8_t would wrap.
THEOREM TypeCorrect == Spec => []TypeOK
<1>1. IInv => TypeOK
  BY DEF IInv
<1> QED BY <1>1, Invariance, PTL

\* usbhost_stream_cb, _open_locked and _stop_locked keep `inflight` at what the
\* library has.
THEOREM InflightIsTrue == Spec => []InflightIsHeld
<1>1. IInv => InflightIsHeld
  BY DEF IInv
<1> QED BY <1>1, Invariance, PTL

\* usbhost_stream_release_owners never lets a running stream's ring go, though
\* it takes no lock and the host task may stop streams meanwhile.
THEOREM RingsStayRooted == Spec => []RingIsHeld
<1>1. IInv => RingIsHeld
  BY DEF IInv
<1> QED BY <1>1, Invariance, PTL

\* usbhost_stream_find in an open: no endpoint is streamed twice.
THEOREM EndpointsAreSingle == Spec => []OnePerEndpoint
<1>1. IInv => OnePerEndpoint
  BY DEF IInv
<1> QED BY <1>1, Invariance, PTL

-----------------------------------------------------------------------------
\* The refinement.

\* The abstract state reads two variables only.
LEMMA StateSame == UNCHANGED <<used, open>> => State' = State
BY DEF State

\* A transfer that goes from the bus to the task is held by the slot still.
LEMMA HeldSame ==
    ASSUME \A s \in Slots : queued'[s] + back'[s] = queued[s] + back[s]
    PROVE  Held' = Held
BY DEF Held

\* An open is the start of a slot.
LEMMA AbstractOpen ==
    ASSUME IInv, NEW e \in Eps, NEW n \in 1 .. MaxXfer, Open(e, n)
    PROVE  Abstract!Next
<1>1. PICK s \in Slots :
             /\ ~used[s] /\ queued[s] = 0 /\ back[s] = 0 /\ inflight[s] = 0
             /\ \A t \in Slots : used[t] => key[t] # <<addr, e>>
             /\ used' = [used EXCEPT ![s] = TRUE]
             /\ open' = [open EXCEPT ![s] = TRUE]
             /\ gone' = [gone EXCEPT ![s] = FALSE]
             /\ key' = [key EXCEPT ![s] = <<addr, e>>]
             /\ inflight' = [inflight EXCEPT ![s] = n]
             /\ queued' = [queued EXCEPT ![s] = n]
             /\ rooted' = [rooted EXCEPT ![s] = FALSE]
             /\ slot' = s
  BY OpenTakes
<1>2. back' = back /\ TypeOK
  BY DEF Open, IInv
<1>3. State[s] = "free" /\ Held[s] = 0
  BY <1>1 DEF State, Held
<1>4. State' = [State EXCEPT ![s] = "running"]
  BY <1>1, <1>2 DEF State, TypeOK
<1>5. Held' = [Held EXCEPT ![s] = n]
  <2>1. n + back[s] = n
    BY <1>1
  <2> QED BY <1>1, <1>2, <2>1 DEF Held, TypeOK
<1>6. Abstract!Start(s)
  BY <1>3, <1>4, <1>5 DEF Abstract!Start
<1> QED BY <1>6 DEF Abstract!Next

\* A step of a stop is one of the abstract slots', or none.
LEMMA AbstractStop ==
    ASSUME IInv, NEW a \in Stops, InStop(a)
    PROVE  Abstract!Next \/ UNCHANGED <<State, Held>>
<1>. USE DEF IInv, slotVars, libVars
<1>1. CASE StopSlot(a)
  <2>1. PICK s \in First(todo[a]) :
          IF used[s] THEN open' = [open EXCEPT ![s] = FALSE] ELSE open' = open
    BY <1>1 DEF StopSlot
  <2>2. s \in Slots /\ UNCHANGED <<used, queued, back>>
    BY <1>1, <2>1 DEF First, TypeOK, StopSlot
  <2>3. Held' = Held
    BY <2>2 DEF Held
  <2>4. CASE used[s] /\ open[s]
    <3>1. State[s] = "running" /\ State' = [State EXCEPT ![s] = "draining"]
      BY <2>1, <2>2, <2>4 DEF State, TypeOK
    <3>2. Abstract!Stop(s)
      BY <2>3, <3>1 DEF Abstract!Stop
    <3> QED BY <2>2, <3>2 DEF Abstract!Next
  <2>5. CASE ~(used[s] /\ open[s])
    <3>1. open' = open
      <4>1. CASE ~used[s]
        BY <2>1, <4>1
      <4>2. CASE used[s]
        <5>1. open \in [Slots -> BOOLEAN] /\ s \in Slots
          BY <2>2 DEF TypeOK
        <5>2. open[s] = FALSE
          BY <2>5, <4>2, <5>1
        <5>3. open' = [open EXCEPT ![s] = FALSE]
          BY <2>1, <4>2
        <5> QED BY ONLY <5>1, <5>2, <5>3
      <4> QED BY <4>1, <4>2
    <3> QED BY <2>2, <2>3, <3>1, StateSame
  <2> QED BY <2>4, <2>5
<1>2. ASSUME inflight[cur[a]] = 0, used' = [used EXCEPT ![cur[a]] = FALSE], stage[a] \in Waits,
             UNCHANGED <<open, queued, back>>
      PROVE  Abstract!Next \/ UNCHANGED <<State, Held>>
  <2>1. cur[a] \in Slots /\ ~open[cur[a]]
    BY <1>2 DEF TypeOK, StoppedIsClosed
  <2>2. Held' = Held /\ Held[cur[a]] = 0
    BY <1>2, <2>1 DEF Held, InflightIsHeld
  <2>3. CASE used[cur[a]]
    <3>1. State[cur[a]] = "draining" /\ State' = [State EXCEPT ![cur[a]] = "free"]
      BY <1>2, <2>1, <2>3 DEF State, TypeOK
    <3>2. Abstract!Free(cur[a])
      BY <2>2, <3>1 DEF Abstract!Free
    <3> QED BY <2>1, <3>2 DEF Abstract!Next
  <2>4. CASE ~used[cur[a]]
    <3>1. used' = used
      BY <1>2, <2>1, <2>4 DEF TypeOK
    <3> QED BY <1>2, <2>2, <3>1, StateSame
  <2> QED BY <2>3, <2>4
<1>3. CASE RetireEnds(a)
  <2>1. stage[a] \in Waits /\ open' = open
    BY <1>3 DEF RetireEnds, Waits
  <2>2. CASE Retired(a)
    BY <1>2, <2>1, <2>2 DEF Retired
  <2>3. CASE Halt(a)
    <3>1. cur[a] \in Slots /\ used' = used
      BY <2>3 DEF Halt, TypeOK
    <3>2. \A s \in Slots : queued'[s] + back'[s] = queued[s] + back[s]
      <4>1. CASE UNCHANGED <<queued, back>>
        BY <4>1
      <4>2. CASE /\ queued' = [queued EXCEPT ![cur[a]] = 0]
                 /\ back' = [back EXCEPT ![cur[a]] = @ + queued[cur[a]]]
        BY <3>1, <4>2, SlotsFact DEF TypeOK
      <4> QED BY <2>3, <4>1, <4>2 DEF Halt
    <3> QED BY <2>1, <3>1, <3>2, StateSame, HeldSame
  <2>4. CASE Linger(a)
    BY <2>1, <2>4, StateSame, HeldSame DEF Linger
  <2> QED BY <1>3, <2>2, <2>3, <2>4 DEF RetireEnds
<1>4. CASE HaltEnds(a)
  <2>1. cur[a] \in Slots /\ inflight[cur[a]] \in 0 .. MaxXfer /\ stage[a] \in Waits
    BY <1>4 DEF HaltEnds, TypeOK, Waits
  <2>2. UNCHANGED <<open, queued, back>>
    BY <1>4 DEF HaltEnds
  <2>3. CASE inflight[cur[a]] > 0
    <3>1. used' = used
      BY <1>4, <2>1, <2>3 DEF HaltEnds, TypeOK
    <3> QED BY <2>2, <3>1, StateSame, HeldSame
  <2>4. CASE ~(inflight[cur[a]] > 0)
    <3>1. inflight[cur[a]] = 0
      BY <2>1, <2>4, SlotsFact
    <3>2. used' = [used EXCEPT ![cur[a]] = FALSE]
      BY <1>4, <2>1, <2>4 DEF HaltEnds, TypeOK
    <3> QED BY <1>2, <2>1, <2>2, <3>1, <3>2
  <2> QED BY <2>3, <2>4
<1>5. CASE StopEnds(a)
  BY <1>5, StateSame, HeldSame DEF StopEnds
<1> QED BY <1>1, <1>3, <1>4, <1>5 DEF InStop

\* So is each step of the library and the task.
LEMMA AbstractPump ==
    ASSUME IInv, Unplug \/ Plug \/ DevGone \/ (\E s \in Slots : Callback(s) \/ Complete(s))
    PROVE  Abstract!Next \/ UNCHANGED <<State, Held>>
<1>. USE DEF IInv, slotVars, libVars
<1>1. ASSUME NEW s \in Slots, Callback(s) PROVE Abstract!Next \/ UNCHANGED <<State, Held>>
  <2>1. /\ queued[s] \in 0 .. MaxXfer /\ back[s] \in 1 .. MaxXfer
        /\ back' = [back EXCEPT ![s] = @ - 1]
    BY <1>1, SlotsFact DEF Callback, TypeOK
  <2>2. State' = State
    BY <1>1, StateSame DEF Callback
  <2>3. CASE queued' = [queued EXCEPT ![s] = @ + 1]
    <3>1. \A t \in Slots : queued'[t] + back'[t] = queued[t] + back[t]
      BY <2>1, <2>3, SlotsFact DEF TypeOK
    <3> QED BY <2>2, <3>1, HeldSame
  <2>4. CASE queued' = queued
    <3>1. Held[s] > 0 /\ Held[s] - 1 = queued[s] + (back[s] - 1)
      BY <2>1, SlotsFact DEF Held
    <3>2. Held' = [Held EXCEPT ![s] = @ - 1]
      BY <2>1, <2>4, <3>1 DEF Held, TypeOK
    <3>3. Abstract!Return(s)
      BY <2>2, <3>1, <3>2 DEF Abstract!Return
    <3> QED BY <3>3 DEF Abstract!Next
  <2> QED BY <1>1, <2>3, <2>4 DEF Callback
<1>2. ASSUME NEW s \in Slots, Complete(s) PROVE UNCHANGED <<State, Held>>
  <2>1. queued[s] \in 1 .. MaxXfer /\ back[s] \in 0 .. MaxXfer
    BY <1>2, SlotsFact DEF Complete, TypeOK
  <2>2. \A t \in Slots : queued'[t] + back'[t] = queued[t] + back[t]
    BY <1>2, <2>1, SlotsFact DEF Complete, TypeOK
  <2> QED BY <1>2, <2>2, StateSame, HeldSame DEF Complete
<1>3. CASE Unplug
  <2>1. \A t \in Slots : 0 + (back[t] + queued[t]) = queued[t] + back[t]
    BY SlotsFact DEF TypeOK
  <2>2. \A t \in Slots : queued'[t] + back'[t] = queued[t] + back[t]
    BY <1>3, <2>1 DEF Unplug
  <2> QED BY <1>3, <2>2, StateSame, HeldSame DEF Unplug
<1>4. CASE Plug
  BY <1>4, StateSame, HeldSame DEF Plug
<1>5. CASE DevGone
  BY <1>5, StateSame, HeldSame DEF DevGone
<1> QED BY <1>1, <1>2, <1>3, <1>4, <1>5

\* "Transfers never freed while the library still holds them": the streams, their
\* nested stops included, implement StreamSlots.
THEOREM ImplementsSlots == Spec => StreamSlotsSpec
<1>1. Init => Abstract!Init
  BY DEF Init, Abstract!Init, State, Held
<1>2. IInv /\ [Next]_vars => [Abstract!Next]_(Abstract!slotVars)
  <2>. SUFFICES ASSUME IInv, [Next]_vars
                PROVE  Abstract!Next \/ UNCHANGED <<State, Held>>
    BY DEF Abstract!slotVars
  <2>1. CASE UNCHANGED vars
    BY <2>1, StateSame, HeldSame DEF vars, slotVars, libVars
  <2>2. CASE (\E e \in Eps : StopItf(e)) \/ (\E k \in Keys : Close(k)) \/ CloseAll \/ InCall
    BY <2>2, StateSame, HeldSame
       DEF StopItf, Close, CloseAll, InCall, Root, ReleaseOwners, slotVars, libVars
  <2>3. CASE \E e \in Eps, n \in 1 .. MaxXfer : Open(e, n)
    BY <2>3, AbstractOpen
  <2>4. CASE \E a \in Stops : InStop(a)
    BY <2>4, AbstractStop
  <2>5. CASE Pump
    BY <2>5, AbstractPump DEF Pump
  <2> QED BY <2>1, <2>2, <2>3, <2>4, <2>5 DEF Next, Call
<1> QED BY <1>1, <1>2, Invariance, PTL DEF Spec, StreamSlotsSpec, Abstract!Spec
=============================================================================
