--------------------------- MODULE PcmSink_proofs ---------------------------
(***************************************************************************)
(* The gate of PcmSink for every number of callers, every ring capacity,   *)
(* every frame size and every width of the generation word: calls inside   *)
(* the ring find it alive, one writer at a time works on it, and the       *)
(* counters implement the abstract gate.                                   *)
(*                                                                         *)
(* None of it is inductive alone.  What makes it so is that `users` counts *)
(* exactly the callers past their increment, so that a close that reads 0  *)
(* leaves nobody inside, and that `live` names the latest generation only  *)
(* while the owner has the stream open.                                    *)
(***************************************************************************)
EXTENDS PcmSink, FiniteSetTheorems, TLAPS

\* `users` counts the callers that have passed their increment.
UsersCount == users = Cardinality({c \in Callers : Counted(c)})

\* `live` is the latest generation while the stream is open, and 0 otherwise;
\* a stream that is open, or about to be, has its ring.
OwnerInv ==
    /\ live = IF owner = "open" THEN last_gen ELSE 0
    /\ owner \in {"opening", "open"} => last_gen # 0 /\ storage

\* Only a write goes near the try-lock.
LockIsForWriters == \A c \in Callers : pc[c] \in {"lock", "push", "unlock"} => op[c] = "write"

\* The inductive invariant.
IInv ==
    /\ TypeOK /\ UsersCount /\ OwnerInv /\ LockIsForWriters
    /\ RingOutlivesCalls /\ OneProducer

-----------------------------------------------------------------------------
\* Arithmetic of frames and generations.

\* What is rounded down to whole frames.
LEMMA DivisionFacts ==
    ASSUME NEW k \in Nat, NEW f \in Nat \ {0}
    PROVE  /\ k % f \in 0 .. f - 1
           /\ k % f <= k
           /\ (k - (k % f)) % f = 0
<1>1. k % f \in 0 .. f - 1
  BY SMT
<1>2. k % f <= k
  BY SMTT(20)
<1>3. k - (k % f) = f * (k \div f) /\ k \div f \in Nat
  BY SMTT(20)
<1>4. \A q \in Nat : (f * q) % f = 0
  BY SMTT(20)
<1> QED BY <1>1, <1>2, <1>3, <1>4

\* Cutting a length to whole frames never lengthens it.
LEMMA CutFacts ==
    ASSUME NEW k \in Nat, frame \in Nat
    PROVE  /\ Cut(k) \in 0 .. k
           /\ frame # 0 => Cut(k) % frame = 0
<1>1. CASE frame = 0
  BY <1>1 DEF Cut
<1>2. CASE frame # 0
  <2>1. /\ k % frame \in 0 .. frame - 1
        /\ k % frame <= k
        /\ (k - (k % frame)) % frame = 0
    BY <1>2, DivisionFacts
  <2> QED BY <1>2, <2>1 DEF Cut
<1> QED BY <1>1, <1>2

\* A new generation is a word and never the 0 that means closed.
LEMMA NextGenFacts ==
    ASSUME NEW g \in 0 .. GenMod - 1
    PROVE  NextGen(g) \in 1 .. GenMod - 1
<1>1. GenMod \in Nat \ {0} /\ GenMod > 1
  BY PcmSinkAssumption
<1>2. (g + 1) % GenMod \in 0 .. GenMod - 1
  BY <1>1, DivisionFacts
<1> QED BY <1>1, <1>2 DEF NextGen

-----------------------------------------------------------------------------
\* Counting callers.

\* There are finitely many callers.
LEMMA CallersFinite == IsFiniteSet(Callers)
  BY PcmSinkAssumption, FS_Union DEF Callers

\* So are any of them.
LEMMA CountedFinite ==
    ASSUME NEW P \in SUBSET Callers
    PROVE  IsFiniteSet(P) /\ Cardinality(P) \in Nat
  BY CallersFinite, FS_Subset, FS_CardinalityType

\* One caller's pc decides whether that caller is counted, and no other's.
LEMMA CountedMove ==
    ASSUME TypeOK, NEW c \in Callers, NEW to, pc' = [pc EXCEPT ![c] = to]
    PROVE  {d \in Callers : Counted(d)}' =
              IF to \in AtDoor \cup InRing
              THEN {d \in Callers : Counted(d)} \cup {c}
              ELSE {d \in Callers : Counted(d)} \ {c}
  BY DEF TypeOK, Counted

\* A caller that is counted on both sides of a step, or on neither, leaves the
\* count as it is.
LEMMA CountStays ==
    ASSUME TypeOK, NEW c \in Callers, NEW to, pc' = [pc EXCEPT ![c] = to],
           Counted(c) <=> to \in AtDoor \cup InRing
    PROVE  {d \in Callers : Counted(d)}' = {d \in Callers : Counted(d)}
  BY CountedMove DEF Counted

\* A caller that goes in counts itself.
LEMMA CountUp ==
    ASSUME TypeOK, UsersCount, NEW c \in Callers, ~Counted(c),
           NEW to \in AtDoor \cup InRing, pc' = [pc EXCEPT ![c] = to], users' = users + 1
    PROVE  UsersCount'
<1>. DEFINE S == {d \in Callers : Counted(d)}
<1>1. S' = S \cup {c} /\ c \notin S
  BY CountedMove
<1>2. Cardinality(S \cup {c}) = Cardinality(S) + 1
  BY <1>1, CountedFinite, FS_AddElement
<1> QED BY <1>1, <1>2 DEF UsersCount

\* And one that leaves takes itself away.
LEMMA CountDown ==
    ASSUME TypeOK, UsersCount, NEW c \in Callers, Counted(c),
           NEW to, to \notin AtDoor \cup InRing,
           pc' = [pc EXCEPT ![c] = to], users' = users - 1
    PROVE  UsersCount' /\ users' \in Nat
<1>. DEFINE S == {d \in Callers : Counted(d)}
<1>1. S' = S \ {c} /\ c \in S
  BY CountedMove
<1>2. Cardinality(S \ {c}) = Cardinality(S) - 1
  BY <1>1, CountedFinite, FS_RemoveElement
<1>3. Cardinality(S \ {c}) \in Nat
  BY CountedFinite
<1> QED BY <1>1, <1>2, <1>3 DEF UsersCount

\* When close() reads 0, nobody is inside.
LEMMA NobodyInside ==
    ASSUME TypeOK, UsersCount, users = 0
    PROVE  \A c \in Callers : ~Counted(c)
<1>. DEFINE S == {d \in Callers : Counted(d)}
<1>1. S = {}
  BY CountedFinite, FS_EmptySet DEF UsersCount
<1> QED BY <1>1

-----------------------------------------------------------------------------
\* The invariant holds of a sink never opened.
LEMMA InitInv == Init => IInv
<1>. SUFFICES ASSUME Init PROVE IInv
  OBVIOUS
<1>1. TypeOK
  <2>1. 0 \in 0 .. GenMod - 1
    BY PcmSinkAssumption
  <2>2. storage \in BOOLEAN
    BY DEF Init
  <2>3. "none" \in Out \cup AtDoor \cup InRing
    BY DEF Out
  <2> QED BY <2>1, <2>2, <2>3 DEF Init, TypeOK
<1>2. UsersCount
  <2>1. {c \in Callers : Counted(c)} = {}
    BY DEF Init, Counted, AtDoor, InRing
  <2> QED BY <2>1, FS_EmptySet DEF Init, UsersCount
<1>3. OwnerInv
  BY DEF Init, OwnerInv
<1>4. LockIsForWriters /\ RingOutlivesCalls /\ OneProducer
  BY PcmSinkAssumption DEF Init, LockIsForWriters, RingOutlivesCalls, OneProducer, Inside, Holds, InRing
<1> QED BY <1>1, <1>2, <1>3, <1>4 DEF IInv

\* The owner's steps move no caller.
LEMMA OwnerStep == IInv /\ Owner => IInv'
<1>. SUFFICES ASSUME IInv, Owner PROVE IInv'
  OBVIOUS
<1>. USE PcmSinkAssumption DEF IInv
<1>1. UNCHANGED <<users, busy, callerVars>>
  BY DEF Owner, SetRing, OpenPrepare, OpenPublish, CloseStore, CloseDone, Release, Drain, gateVars
<1>2. UsersCount' /\ LockIsForWriters'
  BY <1>1 DEF UsersCount, Counted, LockIsForWriters, callerVars
<1>3. \A c \in Callers : /\ Counted(c)' = Counted(c)
                         /\ Inside(c)' = Inside(c)
                         /\ Holds(c)' = Holds(c)
  BY <1>1 DEF Counted, Inside, Holds, callerVars
<1>4. owner = "closed" \/ owner = "opening" =>
        \A c \in Callers : ~Inside(c) /\ pc[c] # "push" /\ ~Holds(c)
  BY DEF RingOutlivesCalls, Inside, Holds, InRing
<1>5. CASE SetRing
  BY <1>1, <1>2, <1>3, <1>4, <1>5
     DEF SetRing, TypeOK, OwnerInv, RingOutlivesCalls, OneProducer, gateVars, callerVars
<1>6. CASE OpenPrepare
  <2>1. last_gen' \in 1 .. GenMod - 1
    BY <1>6, NextGenFacts DEF OpenPrepare, TypeOK
  <2>2. \A c \in Callers : ~Inside(c) /\ pc[c] # "push" /\ ~Holds(c)
    BY <1>6, <1>4 DEF OpenPrepare
  <2> QED BY <1>1, <1>2, <1>3, <1>6, <2>1, <2>2
       DEF OpenPrepare, TypeOK, OwnerInv, RingOutlivesCalls, OneProducer, callerVars
<1>7. CASE OpenPublish
  BY <1>1, <1>2, <1>3, <1>4, <1>7
     DEF OpenPublish, TypeOK, OwnerInv, RingOutlivesCalls, OneProducer, callerVars
<1>8. CASE CloseStore
  BY <1>1, <1>2, <1>3, <1>8
     DEF CloseStore, TypeOK, OwnerInv, RingOutlivesCalls, OneProducer, callerVars
<1>9. CASE CloseDone
  <2>1. \A c \in Callers : ~Counted(c)
    BY <1>9, NobodyInside DEF CloseDone
  <2>2. \A c \in Callers : ~Inside(c)
    BY <2>1 DEF Counted, Inside
  <2> QED BY <1>1, <1>2, <1>3, <1>9, <2>2
       DEF CloseDone, TypeOK, OwnerInv, RingOutlivesCalls, OneProducer, gateVars, callerVars
<1>10. CASE Release
  BY <1>1, <1>2, <1>3, <1>4, <1>10
     DEF Release, TypeOK, OwnerInv, RingOutlivesCalls, OneProducer, gateVars, callerVars
<1>11. CASE Drain
  <2>. PICK want \in 1 .. fill : Cut(want) > 0 /\ fill' = fill - Cut(want)
    BY <1>11 DEF Drain
  <2>0. frame \in Nat
    BY DEF TypeOK
  <2>1. fill \in 0 .. Capacity /\ Cut(want) \in 0 .. want
    BY <2>0, CutFacts DEF OneProducer
  <2>2. fill' \in 0 .. fill
    BY <2>1
  <2>3. \A c \in Callers : pc[c] = "push" =>
            n[c] \in 1 .. (Capacity - fill') /\ (frame # 0 => n[c] % frame = 0)
    BY <2>1, <2>2 DEF OneProducer
  <2>4. OneProducer'
    BY <1>1, <1>3, <1>11, <2>1, <2>2, <2>3 DEF Drain, OneProducer, gateVars, callerVars
  <2> QED BY <1>1, <1>2, <1>3, <1>11, <2>2, <2>4
       DEF Drain, TypeOK, OwnerInv, RingOutlivesCalls, gateVars, callerVars
<1> QED BY <1>5, <1>6, <1>7, <1>8, <1>9, <1>10, <1>11 DEF Owner

\* Steps of a caller outside the ring, and of one that enters or leaves it.
LEMMA DoorStep ==
    ASSUME IInv, NEW c \in Callers,
           Find(c) \/ Current(c) \/ EnterCount(c) \/ EnterCheck(c) \/ Refuse(c) \/ Leave(c)
    PROVE  IInv'
<1>. USE PcmSinkAssumption DEF IInv
<1>1. UNCHANGED <<live, busy, last_gen, frame, ownerVars>>
  BY DEF Find, Current, EnterCount, EnterCheck, Refuse, Leave, gateVars
<1>2. PICK to \in {"none", "found", "held", "entered", "refused", "lock", "room"} :
        /\ pc' = [pc EXCEPT ![c] = to]
        /\ to \in InRing => pc[c] = "entered" /\ gen[c] = live /\ live # 0
        /\ to \in {"room"} => op[c] # "write"
  BY DEF Find, Current, EnterCount, EnterCheck, Refuse, Leave, EndCall, Goto, InRing, TypeOK
<1>3. TypeOK' /\ UsersCount'
  <2>1. CASE Find(c) \/ Current(c) \/ EnterCheck(c)
    <3>1. users' = users
      BY <2>1 DEF Find, Current, EnterCheck, gateVars
    <3>2. Counted(c) <=> to \in AtDoor \cup InRing
      BY <2>1, <1>2 DEF Find, Current, EnterCheck, Goto, Counted, AtDoor, InRing, TypeOK
    <3>3. UsersCount'
      BY <3>1, <3>2, <1>2, CountStays DEF UsersCount
    <3>4. pc' \in [Callers -> Out \cup AtDoor \cup InRing]
      BY <1>2 DEF TypeOK, Out, AtDoor, InRing
    <3>5. /\ gen' \in [Callers -> 0 .. GenMod - 1] /\ op' = op /\ n' = n
          /\ stream' \in [Callers -> Nat]
      BY <2>1 DEF Find, Current, EnterCheck, TypeOK
    <3> QED BY <1>1, <3>1, <3>3, <3>4, <3>5 DEF TypeOK, ownerVars
  <2>2. CASE EnterCount(c)
    <3>1. ~Counted(c) /\ to \in AtDoor \cup InRing /\ users' = users + 1
      BY <2>2, <1>2 DEF EnterCount, Goto, Counted, AtDoor, InRing, TypeOK
    <3>2. UsersCount'
      BY <3>1, <1>2, CountUp
    <3>3. pc' \in [Callers -> Out \cup AtDoor \cup InRing]
      BY <1>2 DEF TypeOK, Out, AtDoor, InRing
    <3>4. users' \in Nat
      BY <3>1 DEF TypeOK
    <3>5. gen' = gen /\ n' = n /\ stream' = stream /\ op' \in [Callers -> {"write", "space"}]
      BY <2>2 DEF EnterCount, TypeOK
    <3> QED BY <1>1, <3>2, <3>3, <3>4, <3>5 DEF TypeOK, ownerVars
  <2>3. CASE Refuse(c) \/ Leave(c)
    <3>1. Counted(c) /\ to \notin AtDoor \cup InRing /\ users' = users - 1
      BY <2>3, <1>2 DEF Refuse, Leave, EndCall, Goto, Counted, AtDoor, InRing, TypeOK
    <3>2. UsersCount' /\ users' \in Nat
      BY <3>1, <1>2, CountDown
    <3>3. pc' \in [Callers -> Out \cup AtDoor \cup InRing]
      BY <1>2 DEF TypeOK, Out, AtDoor, InRing
    <3>4. /\ gen' \in [Callers -> 0 .. GenMod - 1]
          /\ op' \in [Callers -> {"write", "space"}]
          /\ n' \in [Callers -> Nat]
          /\ stream' \in [Callers -> Nat]
      BY <2>3 DEF Refuse, Leave, EndCall, TypeOK
    <3> QED BY <1>1, <3>2, <3>3, <3>4 DEF TypeOK, ownerVars
  <2> QED BY <2>1, <2>2, <2>3
<1>4. OwnerInv'
  BY <1>1 DEF OwnerInv, ownerVars
<1>5. RingOutlivesCalls'
  <2>1. \A d \in Callers : d # c => Inside(d)' = Inside(d) /\ gen'[d] = gen[d]
    BY <1>2 DEF Find, Current, EnterCount, EnterCheck, Refuse, Leave, EndCall, Inside, TypeOK
  <2>2. Inside(c)' => to \in InRing /\ gen'[c] = gen[c]
    BY <1>2 DEF Find, Current, EnterCount, EnterCheck, Refuse, Leave, EndCall, Goto, Inside, InRing, TypeOK
  <2>3. Inside(c)' => owner = "open" /\ storage /\ gen[c] = last_gen
    BY <2>2, <1>2 DEF OwnerInv
  <2> QED BY <1>1, <2>1, <2>2, <2>3 DEF RingOutlivesCalls, ownerVars
<1>6. OneProducer'
  <2>1. \A d \in Callers : d # c =>
            /\ pc'[d] = pc[d] /\ op'[d] = op[d] /\ n'[d] = n[d]
            /\ Holds(d)' <=> Holds(d)
    BY <1>2 DEF Find, Current, EnterCount, EnterCheck, Refuse, Leave, EndCall, Holds, TypeOK
  <2>2. ~Holds(c) /\ ~Holds(c)' /\ pc'[c] # "push"
    BY <1>2 DEF Find, Current, EnterCount, EnterCheck, Refuse, Leave, EndCall, Goto, Holds, TypeOK
  <2>3. \A d \in Callers : Holds(d)' <=> Holds(d)
    BY <2>1, <2>2, Zenon
  <2>4. \A d \in Callers : pc'[d] = "push" => pc[d] = "push" /\ n'[d] = n[d]
    BY <2>1, <2>2
  <2> QED BY <1>1, <2>3, <2>4 DEF OneProducer, ownerVars
<1>7. LockIsForWriters'
  BY <1>2 DEF Find, Current, EnterCount, EnterCheck, Refuse, Leave, EndCall, Goto, LockIsForWriters, TypeOK
<1> QED BY <1>3, <1>4, <1>5, <1>6, <1>7

\* Steps of a caller that is inside: it stays inside, so the door is untouched.
LEMMA InsideStep ==
    ASSUME IInv, NEW c \in Callers,
           TryLock(c) \/ Room(c) \/ Push(c) \/ Unlock(c)
    PROVE  TypeOK' /\ UsersCount' /\ OwnerInv' /\ LockIsForWriters' /\ RingOutlivesCalls'
<1>. USE PcmSinkAssumption DEF IInv
<1>1. UNCHANGED <<live, users, last_gen, frame, owner, storage, opens, gen, op, stream>>
  BY DEF TryLock, Room, Push, Unlock, gateVars, ownerVars
<1>2. PICK to \in InRing : pc' = [pc EXCEPT ![c] = to]
  BY DEF TryLock, Room, Push, Unlock, Goto, InRing
<1>3. pc[c] \in InRing
  BY DEF TryLock, Room, Push, Unlock, InRing
<1>4. UsersCount'
  <2>1. Counted(c) <=> to \in AtDoor \cup InRing
    BY <1>3 DEF Counted
  <2> QED BY <1>1, <1>2, <2>1, CountStays DEF UsersCount
<1>5. frame \in Nat /\ fill \in 0 .. Capacity /\ \A k \in Nat : Cut(k) \in 0 .. k
  BY CutFacts DEF TypeOK, OneProducer
<1>6. n' \in [Callers -> Nat]
  <2>1. CASE Room(c)
    <3>1. CASE op[c] = "space"
      BY <2>1, <3>1 DEF Room, TypeOK
    <3>2. CASE op[c] = "write"
      <4>1. PICK len \in Requests :
              n' = [n EXCEPT ![c] = Cut(IF len < Capacity - fill THEN len ELSE Capacity - fill)]
        BY <2>1, <3>2 DEF Room
      <4>2. (IF len < Capacity - fill THEN len ELSE Capacity - fill) \in Nat
        BY <1>5
      <4> QED BY <4>1, <4>2, <1>5 DEF TypeOK
    <3> QED BY <3>1, <3>2 DEF TypeOK
  <2> QED BY <2>1 DEF TryLock, Push, Unlock, TypeOK
<1>7. fill' \in Int /\ busy' \in {0, 1}
  BY DEF TryLock, Room, Push, Unlock, gateVars, ownerVars, TypeOK
<1>8. pc' \in [Callers -> Out \cup AtDoor \cup InRing]
  BY <1>2 DEF TypeOK
<1>9. TypeOK'
  BY <1>1, <1>6, <1>7, <1>8 DEF TypeOK
<1>10. RingOutlivesCalls'
  BY <1>1, <1>2, <1>3 DEF RingOutlivesCalls, Inside, TypeOK
<1>11. LockIsForWriters'
  BY <1>1 DEF TryLock, Room, Push, Unlock, Goto, LockIsForWriters, TypeOK
<1> QED BY <1>1, <1>4, <1>9, <1>10, <1>11 DEF OwnerInv

\* The writer's lock: who holds it after each of those steps.
LEMMA ProducerStep ==
    ASSUME IInv, NEW c \in Callers,
           TryLock(c) \/ Room(c) \/ Push(c) \/ Unlock(c)
    PROVE  OneProducer'
<1>. USE PcmSinkAssumption DEF IInv
<1>1. UNCHANGED <<frame, op>>
  BY DEF TryLock, Room, Push, Unlock, gateVars
<1>2. \A d \in Callers : d # c =>
          /\ pc'[d] = pc[d] /\ n'[d] = n[d]
          /\ Holds(d)' <=> Holds(d)
  BY <1>1 DEF TryLock, Room, Push, Unlock, Goto, Holds, TypeOK
<1>3. CASE TryLock(c)
  <2>1. fill' = fill /\ ~Holds(c) /\ pc'[c] # "push"
    BY <1>3 DEF TryLock, Goto, Holds, ownerVars, TypeOK
  <2>2. CASE busy = 0
    <3>1. \A d \in Callers : ~Holds(d)
      BY <2>2 DEF OneProducer
    <3>2. busy' = 1 /\ pc'[c] = "room"
      BY <1>3, <2>2 DEF TryLock, Goto, TypeOK
    <3>3. \A d \in Callers : Holds(d)' => d = c
      BY <3>1, <1>2
    <3>4. op[c] = "write"
      BY <1>3 DEF TryLock, LockIsForWriters
    <3>5. Holds(c)'
      BY <3>2, <3>4, <1>1 DEF Holds
    <3> QED BY <1>1, <1>2, <2>1, <3>2, <3>3, <3>5 DEF OneProducer
  <2>3. CASE busy # 0
    <3>1. busy = 1 /\ busy' = 1 /\ ~Holds(c)'
      BY <1>3, <2>3 DEF TryLock, Goto, Holds, TypeOK
    <3> QED BY <1>1, <1>2, <2>1, <3>1 DEF OneProducer
  <2> QED BY <2>2, <2>3
<1>4. CASE Room(c)
  <2>1. fill' = fill /\ busy' = busy
    BY <1>4 DEF Room, gateVars, ownerVars
  <2>2. frame \in Nat /\ fill \in 0 .. Capacity
    BY DEF TypeOK, OneProducer
  <2>3. CASE op[c] = "space"
    <3>1. ~Holds(c) /\ ~Holds(c)' /\ pc'[c] # "push"
      BY <1>1, <1>4, <2>3 DEF Room, Goto, Holds, TypeOK
    <3> QED BY <1>1, <1>2, <2>1, <3>1 DEF OneProducer
  <2>4. CASE op[c] = "write"
    <3>1. PICK fits \in 0 .. (Capacity - fill) :
            /\ n' = [n EXCEPT ![c] = Cut(fits)]
            /\ pc' = [pc EXCEPT ![c] = IF Cut(fits) > 0 THEN "push" ELSE "unlock"]
      BY <1>4, <2>2, <2>4 DEF Room, Goto
    <3>2. Holds(c) /\ Holds(c)'
      BY <1>1, <1>4, <2>4, <3>1 DEF Room, Holds, TypeOK
    <3>3. Cut(fits) \in 0 .. fits /\ (frame # 0 => Cut(fits) % frame = 0)
      BY <2>2, CutFacts
    <3>4. pc'[c] = "push" =>
            n'[c] \in 1 .. (Capacity - fill) /\ (frame # 0 => n'[c] % frame = 0)
      <4>1. n'[c] = Cut(fits) /\ (pc'[c] = "push" => Cut(fits) > 0)
        BY <3>1 DEF TypeOK
      <4> QED BY <2>2, <3>3, <4>1
    <3>5. \A d \in Callers : Holds(d)' <=> Holds(d)
      BY <1>2, <3>2
    <3>6. \A d \in Callers : pc'[d] = "push" =>
            n'[d] \in 1 .. (Capacity - fill) /\ (frame # 0 => n'[d] % frame = 0)
      BY <1>2, <3>4 DEF OneProducer
    <3> QED BY <1>1, <2>1, <2>2, <3>5, <3>6 DEF OneProducer
  <2> QED BY <2>3, <2>4 DEF TypeOK
<1>5. CASE Push(c)
  <2>1. Holds(c) /\ Holds(c)' /\ pc'[c] = "unlock" /\ fill' = fill + n[c] /\ busy' = busy
    BY <1>1, <1>5 DEF Push, Goto, Holds, LockIsForWriters, gateVars, TypeOK
  <2>2. n[c] \in 1 .. (Capacity - fill) /\ fill \in 0 .. Capacity
    BY <1>5 DEF Push, OneProducer
  <2>3. fill' \in 0 .. Capacity
    BY <2>1, <2>2
  <2>4. \A d \in Callers : d # c => ~Holds(d)
    BY <2>1 DEF OneProducer
  <2>5. \A d \in Callers : pc'[d] # "push"
    BY <1>2, <2>1, <2>4 DEF Holds, LockIsForWriters
  <2>6. \A d \in Callers : Holds(d)' <=> Holds(d)
    BY <1>2, <2>1
  <2> QED BY <2>1, <2>3, <2>5, <2>6 DEF OneProducer
<1>6. CASE Unlock(c)
  <2>1. Holds(c) /\ ~Holds(c)' /\ pc'[c] = "leave" /\ fill' = fill /\ busy' = 0
    BY <1>6 DEF Unlock, Goto, Holds, LockIsForWriters, ownerVars, TypeOK
  <2>2. \A d \in Callers : ~Holds(d)'
    BY <1>2, <2>1 DEF OneProducer
  <2> QED BY <1>1, <1>2, <2>1, <2>2 DEF OneProducer
<1> QED BY <1>3, <1>4, <1>5, <1>6

-----------------------------------------------------------------------------
\* Every step keeps it.
LEMMA StepInv == IInv /\ [Next]_vars => IInv'
<1>. SUFFICES ASSUME IInv, [Next]_vars PROVE IInv'
  OBVIOUS
<1>1. CASE Owner
  BY <1>1, OwnerStep
<1>2. ASSUME NEW c \in Callers, Find(c) \/ Current(c) \/ EnterCount(c) \/ InCall(c)
      PROVE  IInv'
  BY <1>2, DoorStep, InsideStep, ProducerStep DEF InCall, IInv
<1>3. CASE UNCHANGED vars
  BY <1>3 DEF vars, gateVars, ownerVars, callerVars, IInv, TypeOK, UsersCount, OwnerInv,
       LockIsForWriters, RingOutlivesCalls, OneProducer, Counted, Inside, Holds
<1> QED BY <1>1, <1>2, <1>3 DEF Next

\* The invariant of every behaviour.
LEMMA Invariance == Spec => []IInv
  BY InitInv, StepInv, PTL DEF Spec

\* The gate's words and the callers' locals keep their types.
THEOREM TypeCorrect == Spec => []TypeOK
<1>1. IInv => TypeOK
  BY DEF IInv
<1> QED BY <1>1, Invariance, PTL

\* A call inside the ring finds it alive and the stream it entered the latest:
\* what close() owes the owner, who frees the ring once it returns.
THEOREM CallsFindTheRing == Spec => []RingOutlivesCalls
<1>1. IInv => RingOutlivesCalls
  BY DEF IInv
<1> QED BY <1>1, Invariance, PTL

\* One writer at a time works on the ring, within its room, in whole frames.
THEOREM ProducersExclude == Spec => []OneProducer
<1>1. IInv => OneProducer
  BY DEF IInv
<1> QED BY <1>1, Invariance, PTL

-----------------------------------------------------------------------------
\* Generations go round. What is inductive is how many times they did: the
\* latest generation and the streams opened differ by whole turns, and so do a
\* caller's generation and the stream it was read from.
Turn == GenMod - 1

SinkInv ==
    /\ \E k \in Nat : opens = k * Turn + last_gen
    /\ \A c \in Callers : gen[c] # 0 =>
           stream[c] <= opens /\ \E k \in Nat : stream[c] = k * Turn + gen[c]
    /\ \A c \in Callers : Inside(c) => gen[c] # 0

\* The next generation is one further, or begins the next turn.
LEMMA NextTurn ==
    ASSUME NEW g \in 0 .. Turn
    PROVE  NextGen(g) = IF g = Turn THEN 1 ELSE g + 1
<1>1. GenMod \in Nat /\ GenMod > 1
  BY PcmSinkAssumption
<1>2. CASE g = Turn
  <2>1. GenMod % GenMod = 0
    BY <1>1, SMTT(20)
  <2> QED BY <1>1, <1>2, <2>1 DEF NextGen, Turn
<1>3. CASE g # Turn
  <2>1. g + 1 \in 0 .. GenMod - 1 /\ g + 1 # 0
    BY <1>1, <1>3 DEF Turn
  <2>2. (g + 1) % GenMod = g + 1
    BY <1>1, <2>1, SMTT(20)
  <2> QED BY <1>3, <2>1, <2>2 DEF NextGen
<1> QED BY <1>2, <1>3

\* Whole turns are none or at least one turn.
LEMMA WholeTurns ==
    ASSUME NEW j \in Nat, NEW k \in Nat, j * Turn <= k * Turn
    PROVE  k * Turn - j * Turn = 0 \/ k * Turn - j * Turn >= Turn
<1>1. Turn \in Nat
  BY PcmSinkAssumption DEF Turn
<1>2. CASE k = j
  BY <1>1, <1>2
<1>3. CASE k > j
  <2>1. PICK d \in Nat : k = j + 1 + d
    <3>1. k - j - 1 \in Nat /\ k = j + 1 + (k - j - 1)
      BY <1>3
    <3> QED BY <3>1
  <2>2. k * Turn = j * Turn + Turn + d * Turn
    BY <1>1, <2>1, SMTT(20)
  <2>3. d * Turn \in Nat /\ j * Turn \in Nat
    BY <1>1
  <2> QED BY <1>1, <2>2, <2>3
<1>4. CASE k < j
  <2>1. PICK d \in Nat : j = k + 1 + d
    <3>1. j - k - 1 \in Nat /\ j = k + 1 + (j - k - 1)
      BY <1>4
    <3> QED BY <3>1
  <2>2. j * Turn = k * Turn + Turn + d * Turn
    BY <1>1, <2>1, SMTT(20)
  <2>3. d * Turn \in Nat /\ k * Turn \in Nat /\ Turn # 0
    BY <1>1, PcmSinkAssumption DEF Turn
  <2> QED BY <1>1, <2>2, <2>3
<1> QED BY <1>2, <1>3, <1>4

\* Nothing was opened, and no caller has a generation.
LEMMA SinkInit == Init => SinkInv
<1>. SUFFICES ASSUME Init PROVE SinkInv
  OBVIOUS
<1>1. 0 = 0 * Turn + 0
  BY PcmSinkAssumption DEF Turn
<1>2. \A c \in Callers : gen[c] = 0 /\ ~Inside(c)
  BY DEF Init, Inside, InRing
<1> QED BY <1>1, <1>2 DEF Init, SinkInv

\* A stream that is opened takes the next generation.
LEMMA SinkOpens ==
    ASSUME IInv, SinkInv, OpenPrepare
    PROVE  SinkInv'
<1>1. /\ opens' = opens + 1 /\ last_gen' = NextGen(last_gen)
      /\ opens \in Nat /\ last_gen \in 0 .. Turn /\ Turn \in Nat
  BY PcmSinkAssumption DEF OpenPrepare, IInv, TypeOK, Turn
<1>2. /\ gen' = gen /\ stream' = stream /\ pc' = pc
      /\ \A c \in Callers : stream[c] \in Nat
  BY DEF OpenPrepare, callerVars, IInv, TypeOK
<1>3. \E k \in Nat : opens' = k * Turn + last_gen'
  <2>1. PICK k \in Nat : opens = k * Turn + last_gen
    BY DEF SinkInv
  <2>2. CASE last_gen = Turn
    <3>1. last_gen' = 1
      BY <1>1, <2>2, NextTurn
    <3>2. (k + 1) * Turn = k * Turn + Turn
      BY <1>1, SMTT(20)
    <3>3. k * Turn \in Nat /\ k + 1 \in Nat
      BY <1>1
    <3>4. opens' = (k + 1) * Turn + last_gen'
      BY <1>1, <2>1, <2>2, <3>1, <3>2, <3>3
    <3> QED BY <3>3, <3>4
  <2>3. CASE last_gen # Turn
    <3>1. last_gen' = last_gen + 1
      BY <1>1, <2>3, NextTurn
    <3>2. k * Turn \in Nat
      BY <1>1
    <3> QED BY <1>1, <2>1, <3>1, <3>2
  <2> QED BY <2>2, <2>3
<1>4. \A c \in Callers : gen'[c] # 0 =>
          stream'[c] <= opens' /\ \E k \in Nat : stream'[c] = k * Turn + gen'[c]
  BY <1>1, <1>2 DEF SinkInv
<1>5. \A c \in Callers : Inside(c)' => gen'[c] # 0
  BY <1>2 DEF SinkInv, Inside
<1> QED BY <1>3, <1>4, <1>5 DEF SinkInv, Turn

\* A caller that reads a generation reads the latest stream's.
LEMMA SinkCurrent ==
    ASSUME IInv, SinkInv, NEW c \in Callers, Current(c)
    PROVE  SinkInv'
<1>1. opens' = opens /\ last_gen' = last_gen /\ opens \in Nat
  BY DEF Current, gateVars, ownerVars, IInv, TypeOK
<1>2. \A d \in Callers : Inside(d)' => Inside(d) /\ d # c
  BY DEF Current, Goto, Inside, InRing, IInv, TypeOK
<1>3. \A d \in Callers : d # c => gen'[d] = gen[d] /\ stream'[d] = stream[d]
  BY DEF Current, IInv, TypeOK
<1>4. \/ gen'[c] = gen[c] /\ stream'[c] = stream[c]
      \/ gen'[c] = live /\ stream'[c] = opens
  BY DEF Current, IInv, TypeOK
<1>5. live # 0 => live = last_gen
  BY DEF IInv, OwnerInv
<1>6. gen'[c] # 0 => stream'[c] <= opens /\ \E k \in Nat : stream'[c] = k * Turn + gen'[c]
  <2>1. CASE gen'[c] = gen[c] /\ stream'[c] = stream[c]
    BY <2>1 DEF SinkInv
  <2>2. CASE gen'[c] = live /\ stream'[c] = opens
    BY <1>1, <1>5, <2>2 DEF SinkInv
  <2> QED BY <1>4, <2>1, <2>2
<1>7. \A d \in Callers : gen'[d] # 0 =>
          stream'[d] <= opens' /\ \E k \in Nat : stream'[d] = k * Turn + gen'[d]
  BY <1>1, <1>3, <1>6 DEF SinkInv
<1>8. \A d \in Callers : Inside(d)' => gen'[d] # 0
  BY <1>2, <1>3 DEF SinkInv
<1> QED BY <1>1, <1>7, <1>8 DEF SinkInv, Turn

\* A step that opens nothing, gives nobody a generation and lets in only who
\* has one.
LEMMA SinkStays ==
    ASSUME IInv, SinkInv, opens' = opens, last_gen' = last_gen,
           \A c \in Callers : \/ gen'[c] = gen[c] /\ stream'[c] = stream[c]
                              \/ gen'[c] = 0 /\ ~Inside(c)',
           \A c \in Callers : Inside(c)' => Inside(c) \/ gen[c] # 0
    PROVE  SinkInv'
<1>1. \A c \in Callers : gen'[c] # 0 =>
          stream'[c] <= opens' /\ \E k \in Nat : stream'[c] = k * Turn + gen'[c]
  BY DEF SinkInv
<1>2. \A c \in Callers : Inside(c)' => gen'[c] # 0
  BY DEF SinkInv
<1> QED BY <1>1, <1>2 DEF SinkInv, Turn

\* Every step of the sink keeps the turns.
LEMMA SinkStep == IInv /\ SinkInv /\ [Next]_vars => SinkInv'
<1>. SUFFICES ASSUME IInv, SinkInv, [Next]_vars PROVE SinkInv'
  OBVIOUS
<1>1. CASE Owner
  <2>1. CASE OpenPrepare
    BY <2>1, SinkOpens
  <2>2. CASE SetRing \/ OpenPublish \/ CloseStore \/ CloseDone \/ Release \/ Drain
    <3>1. opens' = opens /\ last_gen' = last_gen /\ gen' = gen /\ stream' = stream /\ pc' = pc
      BY <2>2 DEF SetRing, OpenPublish, CloseStore, CloseDone, Release, Drain, gateVars, callerVars
    <3> QED BY <3>1, SinkStays DEF Inside
  <2> QED BY <1>1, <2>1, <2>2 DEF Owner
<1>2. ASSUME NEW c \in Callers, Find(c) \/ EnterCount(c) \/ EnterCheck(c) \/ TryLock(c)
                                \/ Room(c) \/ Push(c) \/ Unlock(c)
      PROVE  SinkInv'
  <2>1. opens' = opens /\ last_gen' = last_gen /\ gen' = gen /\ stream' = stream
    BY <1>2 DEF Find, EnterCount, EnterCheck, TryLock, Room, Push, Unlock, gateVars, ownerVars
  <2>2. \A d \in Callers : d # c => pc'[d] = pc[d]
    BY <1>2 DEF Find, EnterCount, EnterCheck, TryLock, Room, Push, Unlock, Goto, IInv, TypeOK
  <2>3. Inside(c)' => Inside(c) \/ gen[c] # 0
    BY <1>2 DEF Find, EnterCount, EnterCheck, TryLock, Room, Push, Unlock, Goto, Inside, InRing,
         IInv, TypeOK
  <2>4. \A d \in Callers : Inside(d)' => Inside(d) \/ gen[d] # 0
    BY <2>2, <2>3 DEF Inside
  <2> QED BY <2>1, <2>4, SinkStays
<1>3. ASSUME NEW c \in Callers, Refuse(c) \/ Leave(c)
      PROVE  SinkInv'
  <2>1. opens' = opens /\ last_gen' = last_gen
    BY <1>3 DEF Refuse, Leave, ownerVars
  <2>2. \A d \in Callers : d # c => pc'[d] = pc[d] /\ gen'[d] = gen[d] /\ stream'[d] = stream[d]
    BY <1>3 DEF Refuse, Leave, EndCall, Goto, IInv, TypeOK
  <2>3. /\ pc'[c] \in {"none", "held"}
        /\ gen'[c] = 0 \/ (gen'[c] = gen[c] /\ stream'[c] = stream[c])
    BY <1>3 DEF Refuse, Leave, EndCall, Goto, IInv, TypeOK
  <2>4. ~Inside(c)'
    BY <2>3 DEF Inside, InRing
  <2>5. \A d \in Callers : Inside(d)' => Inside(d)
    BY <2>2, <2>4 DEF Inside
  <2> QED BY <2>1, <2>2, <2>3, <2>4, <2>5, SinkStays
<1>4. ASSUME NEW c \in Callers, Current(c)
      PROVE  SinkInv'
  BY <1>4, SinkCurrent
<1>5. CASE UNCHANGED vars
  BY <1>5, SinkStays DEF vars, gateVars, ownerVars, callerVars, Inside
<1> QED BY <1>1, <1>2, <1>3, <1>4, <1>5 DEF Next, InCall

\* A sink of a closed stream lets nobody in, short of a full turn of the
\* generations: a call inside has the latest stream's generation, so that its
\* own stream is that one or whole turns before it.
THEOREM SinksStayClosed == Spec => []SinkStaysClosed
<1>1. IInv /\ SinkInv => SinkStaysClosed
  <2>. SUFFICES ASSUME IInv, SinkInv, NEW c \in Callers, Inside(c)
                PROVE  stream[c] = opens \/ opens - stream[c] >= Turn
    BY DEF SinkStaysClosed, Turn
  <2>1. gen[c] = last_gen /\ gen[c] # 0
    BY DEF IInv, RingOutlivesCalls, SinkInv
  <2>2. PICK k \in Nat : opens = k * Turn + last_gen
    BY DEF SinkInv
  <2>3. PICK j \in Nat : stream[c] = j * Turn + gen[c]
    BY <2>1 DEF SinkInv
  <2>4. stream[c] <= opens
    BY <2>1 DEF SinkInv
  <2>5. /\ Turn \in Nat /\ last_gen \in Nat
        /\ j * Turn \in Nat /\ k * Turn \in Nat
    BY PcmSinkAssumption DEF IInv, TypeOK, Turn
  <2>6. j * Turn <= k * Turn
    BY <2>1, <2>2, <2>3, <2>4, <2>5
  <2>7. k * Turn - j * Turn = 0 \/ k * Turn - j * Turn >= Turn
    BY <2>6, WholeTurns
  <2> QED BY <2>1, <2>2, <2>3, <2>5, <2>7
<1> QED BY <1>1, Invariance, SinkInit, SinkStep, PTL DEF Spec

-----------------------------------------------------------------------------
\* The refinement.  The abstract gate's callers inside:
InsideSet == {c \in Callers : Inside(c)}

\* The sink begins as the abstract gate does.
LEMMA GateInit == Init => Gate!Init
<1>. SUFFICES ASSUME Init PROVE Gate!Init
  OBVIOUS
<1>1. InsideSet = {}
  BY DEF Init, InsideSet, Inside, InRing
<1> QED BY <1>1 DEF Init, Gate!Init, InsideSet

\* Each step of the owner is a step of the gate, or none.
LEMMA GateOwnerStep ==
    ASSUME IInv, Owner
    PROVE  [Gate!Next]_(Gate!gateVars)
<1>. USE DEF IInv
<1>1. InsideSet' = InsideSet
  BY DEF Owner, SetRing, OpenPrepare, OpenPublish, CloseStore, CloseDone, Release, Drain,
         callerVars, InsideSet, Inside
<1>2. CASE SetRing
  BY <1>1, <1>2 DEF SetRing, Gate!Next, Gate!NewRing, InsideSet
<1>3. CASE OpenPrepare
  BY <1>1, <1>3 DEF OpenPrepare, Gate!gateVars, InsideSet
<1>4. CASE OpenPublish
  BY <1>1, <1>4 DEF OpenPublish, OwnerInv, Gate!Next, Gate!OpenGate, InsideSet
<1>5. CASE CloseStore
  BY <1>1, <1>5 DEF CloseStore, Gate!Next, Gate!BeginClose, InsideSet
<1>6. CASE CloseDone
  <2>1. InsideSet = {}
    BY <1>6, NobodyInside DEF CloseDone, InsideSet, Inside, Counted
  <2> QED BY <1>1, <1>6, <2>1 DEF CloseDone, Gate!Next, Gate!EndClose, InsideSet
<1>7. CASE Release
  BY <1>1, <1>7 DEF Release, Gate!Next, Gate!FreeRing, InsideSet, Gate!gateVars
<1>8. CASE Drain
  <2>1. PICK want \in 1 .. fill : Cut(want) > 0 /\ fill' = fill - Cut(want)
    BY <1>8 DEF Drain
  <2>2. frame \in Nat
    BY PcmSinkAssumption DEF TypeOK
  <2>3. Cut(want) \in 0 .. want /\ fill \in Nat
    BY <2>2, CutFacts, PcmSinkAssumption DEF OneProducer
  <2>4. Cut(want) \in 1 .. fill
    BY <2>1, <2>3
  <2> QED BY <1>1, <1>8, <2>1, <2>4 DEF Drain, OwnerInv, Gate!Next, Gate!Take, InsideSet
<1> QED BY <1>2, <1>3, <1>4, <1>5, <1>6, <1>7, <1>8 DEF Owner

\* So is each step of a caller.
LEMMA GateCallerStep ==
    ASSUME IInv, NEW c \in Callers,
           Find(c) \/ Current(c) \/ EnterCount(c) \/ InCall(c)
    PROVE  [Gate!Next]_(Gate!gateVars)
<1>. USE DEF IInv
<1>1. owner' = owner /\ storage' = storage
  BY DEF Find, Current, EnterCount, InCall, EnterCheck, Refuse, TryLock, Room, Push, Unlock,
         Leave, ownerVars
<1>2. \A d \in Callers : d # c => (Inside(d)' <=> Inside(d))
  BY DEF Find, Current, EnterCount, InCall, EnterCheck, Refuse, TryLock, Room, Push, Unlock,
         Leave, EndCall, Goto, Inside, TypeOK
<1>3. CASE EnterCheck(c) /\ Inside(c)'
  <2>1. ~Inside(c) /\ owner = "open" /\ fill' = fill
    BY <1>3 DEF EnterCheck, Goto, Inside, InRing, OwnerInv, ownerVars, TypeOK
  <2>2. InsideSet' = InsideSet \cup {c} /\ c \notin InsideSet
    BY <1>2, <1>3, <2>1 DEF InsideSet
  <2> QED BY <1>1, <2>1, <2>2 DEF Gate!Next, Gate!Enter, InsideSet
<1>4. CASE Leave(c)
  <2>1. Inside(c) /\ ~Inside(c)' /\ fill' = fill
    BY <1>4 DEF Leave, EndCall, Goto, Inside, InRing, ownerVars, TypeOK
  <2>2. InsideSet' = InsideSet \ {c} /\ c \in InsideSet
    BY <1>2, <2>1 DEF InsideSet
  <2> QED BY <1>1, <2>1, <2>2 DEF Gate!Next, Gate!Exit, InsideSet
<1>5. CASE Push(c)
  <2>1. Inside(c) /\ Inside(c)'
    BY <1>5 DEF Push, Goto, Inside, InRing, TypeOK
  <2>2. InsideSet' = InsideSet /\ c \in InsideSet
    BY <1>2, <2>1 DEF InsideSet
  <2>3. n[c] \in 1 .. (Capacity - fill) /\ fill' = fill + n[c]
    BY <1>5 DEF Push, OneProducer
  <2>4. storage
    BY <2>1 DEF RingOutlivesCalls
  <2> QED BY <1>1, <2>2, <2>3, <2>4 DEF Gate!Next, Gate!Put, InsideSet
<1>6. CASE /\ ~(EnterCheck(c) /\ Inside(c)') /\ ~Leave(c) /\ ~Push(c)
  <2>1. fill' = fill
    BY <1>6 DEF Find, Current, EnterCount, InCall, EnterCheck, Refuse, TryLock, Room, Unlock,
                ownerVars
  <2>2. Inside(c)' <=> Inside(c)
    BY <1>6 DEF Find, Current, EnterCount, InCall, EnterCheck, Refuse, TryLock, Room, Unlock,
                EndCall, Goto, Inside, InRing, TypeOK
  <2>3. InsideSet' = InsideSet
    BY <1>2, <2>2 DEF InsideSet
  <2> QED BY <1>1, <2>1, <2>3 DEF Gate!gateVars, InsideSet
<1> QED BY <1>3, <1>4, <1>5, <1>6

\* The four words and their atomic operations implement the abstract gate.
THEOREM ImplementsGate == Spec => GateSpec
<1>1. IInv /\ [Next]_vars => [Gate!Next]_(Gate!gateVars)
  <2>. SUFFICES ASSUME IInv, [Next]_vars PROVE [Gate!Next]_(Gate!gateVars)
    OBVIOUS
  <2>1. CASE Owner
    BY <2>1, GateOwnerStep
  <2>2. ASSUME NEW c \in Callers, Find(c) \/ Current(c) \/ EnterCount(c) \/ InCall(c)
        PROVE  [Gate!Next]_(Gate!gateVars)
    BY <2>2, GateCallerStep
  <2>3. CASE UNCHANGED vars
    BY <2>3 DEF vars, gateVars, ownerVars, callerVars, Gate!gateVars, Inside
  <2> QED BY <2>1, <2>2, <2>3 DEF Next
<1> QED BY <1>1, GateInit, Invariance, PTL DEF Spec, GateSpec, Gate!Spec

=============================================================================
