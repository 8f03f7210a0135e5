------------------------- MODULE NetPictures_proofs -------------------------
(***************************************************************************)
(* What the components promise that serve a network or carry pictures: a   *)
(* cast's session, the USB network adapter, mDNS, the pipes of control and *)
(* bulk transfers, and a camera: its buffers, its picture and what a frame *)
(* becomes; for any number of slots, services, endpoints, sizes and calls. *)
(* Each has its invariant.                                                 *)
(***************************************************************************)
EXTENDS CastSession, HostNet, Mdns, MdnsWindows, HostXfer, PpaPictures,
        SequenceTheorems, FiniteSetTheorems, WellFoundedInduction, TLAPS

\* A set of naturals that has any has a least.
LEMMA LeastOf ==
    ASSUME NEW S \in SUBSET Nat, S # {}
    PROVE  \E m \in S : \A k \in S : m <= k
<1>1. IsWellFoundedOn(OpToRel(<, Nat), Nat)
  BY NatLessThanWellFounded
<1>2. PICK m \in S : \A k \in S : ~(<<k, m>> \in OpToRel(<, Nat))
  BY <1>1, WFMin
<1>3. \A k \in S : ~(k < m)
  BY <1>2 DEF OpToRel
<1> QED BY <1>3

-----------------------------------------------------------------------------
(***************************************************************************)
(* A cast's session. Inductive is who owes a marked picture: the flag, the *)
(* failed frame, or the task between reading the one and sending; a task   *)
(* that ends leaves the debt to the next start.                            *)
(***************************************************************************)

\* Where the task may be.
CsPlaces == {"none", "top", "rated", "unrated", "hashed", "keeps", "reads", "encodes", "sends"}

\* What each variable holds, and the order of the pictures' counts.
CsTypeOK ==
    /\ csTask \in CsPlaces /\ csPy \in {"idle", "waits", "closes"}
    /\ csDirty \in BOOLEAN /\ csFailed \in BOOLEAN
    /\ csDrawn \in Nat /\ csMarked \in Nat /\ csMarked <= csDrawn /\ csSends \in Nat /\ csSent \in Nat
    /\ csSent <= csSends /\ csSends <= csDrawn

\* The debt to a marked picture outlives the task: a start takes it over.
CsMarkIsOwed ==
    csMarked > csSent =>
        \/ csDirty \/ csFailed \/ csTask \in {"keeps", "reads"}
        \/ csTask = "encodes" /\ csSends >= csMarked

\* The inductive invariant.
CsInv == CsTypeOK /\ CsMarkIsOwed /\ CsOneTask

\* Every step of the program, the task and the sink keeps it.
LEMMA CsSteps == CsInv /\ [CsNext]_csVars => CsInv'
<1> SUFFICES ASSUME CsInv, [CsNext]_csVars PROVE CsInv'
  OBVIOUS
<1> USE DEF CsInv, CsTypeOK, CsPlaces, CsMarkIsOwed, CsOneTask, csVars, csLife, csWords, csPics
<1>1. CASE CsStart
  BY <1>1 DEF CsStart, CsMayStart
<1>2. CASE CsDraw
  BY <1>2 DEF CsDraw
<1>3. CASE CsMarkDirty
  <2>1. csDirty' \in BOOLEAN /\ csFailed' \in BOOLEAN
    BY <1>3 DEF CsMarkDirty
  <2> QED BY <1>3, <2>1 DEF CsMarkDirty
<1>4. CASE CsSetBitrate
  BY <1>4 DEF CsSetBitrate
<1>5. ASSUME NEW then \in {"waits", "closes"}, CsStop(then) PROVE CsInv'
  BY <1>5 DEF CsStop
<1>6. CASE CsStopAgain
  BY <1>6 DEF CsStopAgain
<1>7. CASE CsWaited
  BY <1>7 DEF CsWaited
<1>8. CASE CsTaskStep
  <2>1. CASE CsEnd
    BY <2>1 DEF CsEnd, CsAgain
  <2>2. CASE CsRates
    BY <2>2 DEF CsRates, CsAgain
  <2>3. CASE CsHashes
    BY <2>3 DEF CsHashes
  <2>4. CASE CsDecides
    BY <2>4 DEF CsDecides
  <2>5. CASE CsKeeps
    BY <2>5 DEF CsKeeps, CsClears
  <2>6. CASE CsReads
    BY <2>6 DEF CsReads
  <2>7. CASE CsEncodes
    <3>1. csDirty' = csDirty /\ csFailed' \in BOOLEAN
      BY <2>7 DEF CsEncodes, CsClears
    <3>2. CsTypeOK'
      BY <2>7, <3>1 DEF CsEncodes
    <3>3. CsMarkIsOwed'
      BY <2>7, <3>1 DEF CsEncodes
    <3> QED BY <2>7, <3>2, <3>3 DEF CsEncodes
  <2>8. CASE CsTurns
    BY <2>8 DEF CsTurns
  <2> QED BY <1>8, <2>1, <2>2, <2>3, <2>4, <2>5, <2>6, <2>7, <2>8 DEF CsTaskStep
<1>9. CASE UNCHANGED csVars
  BY <1>9
<1> QED BY <1>1, <1>2, <1>3, <1>4, <1>5, <1>6, <1>7, <1>8, <1>9 DEF CsNext

\* Every mark reaches the picture, and there is one task, for any number of draws, rates and starts.
THEOREM CsMarksReachThePicture == CsSpec => []CsSafe
<1>1. CsInit => CsInv
  <2> SUFFICES ASSUME CsInit PROVE CsInv
    OBVIOUS
  <2>1. CsTypeOK
    <3>1. csTask \in CsPlaces /\ csPy \in {"idle", "waits", "closes"}
      BY DEF CsInit, CsPlaces
    <3>2. csDirty \in BOOLEAN /\ csFailed \in BOOLEAN
      BY DEF CsInit
    <3>3. csDrawn \in Nat /\ csMarked \in Nat /\ csMarked <= csDrawn /\ csSends \in Nat /\ csSent \in Nat
          /\ csSent <= csSends /\ csSends <= csDrawn
      BY DEF CsInit
    <3> QED BY <3>1, <3>2, <3>3 DEF CsTypeOK
  <2>2. CsMarkIsOwed
    BY DEF CsInit, CsMarkIsOwed
  <2>3. CsOneTask
    BY DEF CsInit, CsOneTask
  <2> QED BY <2>1, <2>2, <2>3 DEF CsInv
<1>2. CsInv => CsSafe
  BY DEF CsInv, CsTypeOK, CsMarkIsOwed, CsOneTask, CsSafe, CsMarkIsSent
<1> QED BY <1>1, <1>2, CsSteps, PTL DEF CsSpec

-----------------------------------------------------------------------------
(***************************************************************************)
(* The network adapter. Inductive is that a marked slot is the library's   *)
(* or a transmit's about to submit, that lwIP is in a transmit only behind *)
(* an open adapter or one an unplug waits for, and that a stop on its way  *)
(* has it out for good.                                                    *)
(***************************************************************************)

\* Where a stop or an open may be.
NetPlaces == {"idle", "arm", "quiesce", "wait", "free"}

\* What each variable holds.
NetTypeOK ==
    /\ nOpen \in BOOLEAN /\ nNetif \in BOOLEAN /\ nDev \in BOOLEAN /\ nLost \in BOOLEAN
    /\ nSes \in Nat
    /\ nPtr \in [NetSlots -> Nat] /\ nMark \in [NetSlots -> BOOLEAN]
    /\ \A x \in nHeld : x = <<x[1], x[2]>> /\ x[1] \in NetSlots /\ x[2] \in Nat
    /\ nLink \in {"up", "closing", "down"} /\ nPy \in NetPlaces
    /\ nTx \in [pc : {"idle", "slot", "submit"}, slot : NetTx \cup {0}]
    /\ nTx.pc = "submit" => nTx.slot \in NetTx

\* Who may be where: lwIP is in a transmit only behind an open adapter or one
\* that an unplug waits for, and a stop on its way has lwIP out for good.
NetOrder ==
    /\ nOpen => nNetif /\ nLink # "closing"
    /\ nTx.pc # "idle" => nNetif /\ (nOpen \/ nLink = "closing")
    /\ nPy # "idle" => nNetif
    /\ nPy \in {"quiesce", "wait", "free"} => nTx.pc = "idle" /\ (nLink = "down" \/ ~nOpen)
    /\ nPy \in {"wait", "free"} => ~nOpen

\* Every slot has a transfer as long as there is a netif.
NetFilled == nNetif => \A s \in NetSlots : nPtr[s] # 0

\* A mark that is no transfer's of the library's is a transmit's, about to submit.
NetMarked ==
    ~nLost => \A s \in NetSlots :
        nMark[s] => <<s, nPtr[s]>> \in nHeld \/ (nTx.pc = "submit" /\ nTx.slot = s)

\* The slot of a transmit is its own.
NetTxOwn == nTx.pc = "submit" /\ ~nLost => nMark[nTx.slot] /\ <<nTx.slot, nPtr[nTx.slot]>> \notin nHeld

\* What was submitted before the reads is a transmit's.
NetArming == nPy = "arm" /\ ~nLost => \A x \in nHeld : x[1] \in NetTx

\* The inductive invariant.
NetInv ==
    /\ NetTypeOK /\ NetOrder /\ NetFilled /\ NetMarked /\ NetTxOwn /\ NetArming
    /\ NetHeldIsKept /\ NetStopLeavesNone

\* Opening marks the reads' slots and leaves the others' marks.
LEMMA NetMarkType ==
    ASSUME NEW taken, NetTypeOK
    PROVE  [s \in NetSlots |-> IF s \in NetRx THEN s \in taken ELSE nMark[s]] \in [NetSlots -> BOOLEAN]
<1>1. \A s \in NetSlots : nMark[s] \in BOOLEAN
  BY DEF NetTypeOK
<1>2. \A s \in NetSlots : (s \in taken) \in BOOLEAN
  OBVIOUS
<1>3. \A s \in NetSlots : (IF s \in NetRx THEN s \in taken ELSE nMark[s]) \in BOOLEAN
  BY ONLY <1>1, <1>2, Zenon
<1> QED BY ONLY <1>3, Zenon

\* Freeing the transfers leaves the types.
LEMMA NetFreeType == NetTypeOK /\ NetFree => NetTypeOK'
<1> SUFFICES ASSUME NetTypeOK, NetFree PROVE NetTypeOK'
  OBVIOUS
<1>1. nPtr' \in [NetSlots -> Nat]
  BY DEF NetFree, NetTypeOK
<1>2. nLost' \in BOOLEAN
  BY DEF NetFree, NetTypeOK
<1> QED BY <1>1, <1>2 DEF NetFree, NetTypeOK, NetPlaces

\* So does a read's callback.
LEMMA NetRxType ==
    ASSUME NetTypeOK, NEW x \in nHeld, NetRxCb(x)
    PROVE  NetTypeOK'
<1>1. nMark' \in [NetSlots -> BOOLEAN]
  BY DEF NetRxCb, NetTypeOK
<1>2. \A y \in nHeld' : y \in nHeld
  BY DEF NetRxCb
<1> QED BY <1>1, <1>2 DEF NetRxCb, NetTypeOK

\* And a transmit's submission.
LEMMA NetSubmitType == NetTypeOK /\ NetTxSubmit => NetTypeOK'
<1> SUFFICES ASSUME NetTypeOK, NetTxSubmit PROVE NetTypeOK'
  OBVIOUS
<1>1. nMark' \in [NetSlots -> BOOLEAN]
  BY DEF NetTxSubmit, NetTypeOK
<1>2. \A y \in nHeld' : y \in nHeld \/ y = <<nTx.slot, nPtr[nTx.slot]>>
  BY DEF NetTxSubmit
<1>3. nTx.slot \in NetSlots /\ nPtr[nTx.slot] \in Nat
  BY DEF NetTxSubmit, NetTypeOK, NetSlots
<1>4. \A y \in nHeld' : y = <<y[1], y[2]>> /\ y[1] \in NetSlots /\ y[2] \in Nat
  BY <1>2, <1>3 DEF NetTypeOK
<1> QED BY <1>1, <1>4 DEF NetTxSubmit, NetTypeOK, NetIdle

\* No adapter, to begin with.
LEMMA NetStarts == NetInit => NetInv
<1> SUFFICES ASSUME NetInit PROVE NetInv
  OBVIOUS
<1>1. NetTypeOK
  BY DEF NetInit, NetTypeOK, NetPlaces, NetIdle
<1>2. NetOrder /\ NetFilled /\ NetMarked /\ NetTxOwn /\ NetArming
  BY DEF NetInit, NetIdle, NetOrder, NetFilled, NetMarked, NetTxOwn, NetArming
<1>3. NetHeldIsKept /\ NetStopLeavesNone
  BY DEF NetInit, NetHeldIsKept, NetStopLeavesNone
<1> QED BY <1>1, <1>2, <1>3 DEF NetInv

\* Every step of the library, lwIP and the program keeps the invariant.
LEMMA NetSteps == NetInv /\ [NetNext]_netVars => NetInv'
<1> SUFFICES ASSUME NetInv, [NetNext]_netVars PROVE NetInv'
  OBVIOUS
<1>0. NetTypeOK
  BY DEF NetInv
<1> USE NetAssumption DEF NetInv, NetTypeOK, NetPlaces, NetOrder, NetFilled, NetMarked, NetTxOwn,
         NetArming, NetHeldIsKept, NetStopLeavesNone, Unlocked, NetIdle, NetSlots
<1>1. CASE NetStart
  <2> USE <1>1 DEF NetStart
  <2>1. nSes' \in Nat /\ nPtr' \in [NetSlots -> Nat] /\ nMark' \in [NetSlots -> BOOLEAN]
    OBVIOUS
  <2>2. NetTypeOK'
    BY <2>1
  <2>3. (NetOrder /\ NetFilled)'
    OBVIOUS
  <2>4. (NetMarked /\ NetTxOwn /\ NetArming)'
    OBVIOUS
  <2>5. (NetHeldIsKept /\ NetStopLeavesNone)'
    OBVIOUS
  <2> QED BY <2>2, <2>3, <2>4, <2>5
<1>2. CASE NetArm
  <2> USE <1>2 DEF NetArm
  <2> PICK taken \in SUBSET NetRx :
           /\ nMark' = [s \in NetSlots |-> IF s \in NetRx THEN s \in taken ELSE nMark[s]]
           /\ nHeld' = nHeld \cup {<<s, nPtr[s]>> : s \in taken}
    OBVIOUS
  <2>1. \A x \in nHeld' : x \in nHeld \/ (\E s \in taken : x = <<s, nPtr[s]>>)
    OBVIOUS
  <2>2. nMark' \in [NetSlots -> BOOLEAN]
    BY ONLY <1>0, NetMarkType, nMark' = [s \in NetSlots |-> IF s \in NetRx THEN s \in taken ELSE nMark[s]]
  <2>3. NetTypeOK'
    BY <2>1, <2>2
  <2>4. (NetOrder /\ NetFilled)'
    OBVIOUS
  <2>5. (NetMarked /\ NetTxOwn /\ NetArming)'
    OBVIOUS
  <2>6. NetHeldIsKept'
    <3> SUFFICES ASSUME ~nLost, NEW x \in nHeld' PROVE nPtr[x[1]] = x[2] /\ nMark'[x[1]]
      OBVIOUS
    <3>1. CASE x \in nHeld
      BY <3>1
    <3>2. ASSUME NEW s \in taken, x = <<s, nPtr[s]>> PROVE nPtr[x[1]] = x[2] /\ nMark'[x[1]]
      <4>1. x[1] = s /\ x[2] = nPtr[s]
        BY <3>2
      <4>2. nMark'[s]
        OBVIOUS
      <4> QED BY <4>1, <4>2
    <3> QED BY <2>1, <3>1, <3>2
  <2>7. NetStopLeavesNone'
    OBVIOUS
  <2> QED BY <2>3, <2>4, <2>5, <2>6, <2>7
<1>3. CASE NetStop
  BY <1>3 DEF NetStop
<1>4. CASE NetQuiesce
  BY <1>4 DEF NetQuiesce
<1>5. CASE NetWaited
  BY <1>5 DEF NetWaited
<1>6. CASE NetFree
  <2> USE <1>6 DEF NetFree
  <2>1. NetTypeOK'
    BY <1>0, NetFreeType
  <2>2. (NetOrder /\ NetFilled)'
    OBVIOUS
  <2>3. (NetMarked /\ NetTxOwn /\ NetArming)'
    OBVIOUS
  <2>4. (NetHeldIsKept /\ NetStopLeavesNone)'
    OBVIOUS
  <2> QED BY <2>1, <2>2, <2>3, <2>4
<1>7. CASE NetPlug
  BY <1>7 DEF NetPlug
<1>8. CASE NetGone
  BY <1>8 DEF NetGone
<1>9. CASE NetGoneEnds
  BY <1>9 DEF NetGoneEnds
<1>10. ASSUME NEW x \in nHeld, NetRxCb(x) PROVE NetInv'
  <2> USE <1>10 DEF NetRxCb
  <2>1. NetTypeOK'
    BY <1>0, NetRxType
  <2>2. (NetOrder /\ NetFilled)'
    OBVIOUS
  <2>3. (NetMarked /\ NetTxOwn /\ NetArming)'
    OBVIOUS
  <2>4. (NetHeldIsKept /\ NetStopLeavesNone)'
    OBVIOUS
  <2> QED BY <2>1, <2>2, <2>3, <2>4
<1>11. ASSUME NEW x \in nHeld, NetTxCb(x) PROVE NetInv'
  BY <1>11 DEF NetTxCb
<1>12. CASE NetTxCheck
  BY <1>12 DEF NetTxCheck
<1>13. CASE NetTxSlot
  <2> DEFINE idle == {s \in NetTx : ~nMark[s]}
             slot == CHOOSE s \in idle : \A t \in idle : s <= t
  <2>1. CASE idle = {}
    BY <1>13, <2>1 DEF NetTxSlot
  <2>2. CASE idle # {}
    <3>1. slot \in idle
      BY <2>2, LeastOf
    <3> HIDE DEF slot
    <3>2. slot \in NetTx /\ ~nMark[slot]
      BY <3>1
    <3>3. /\ nTx.pc = "slot" /\ nTx' = [pc |-> "submit", slot |-> slot]
          /\ nMark' = [nMark EXCEPT ![slot] = TRUE]
          /\ UNCHANGED <<nOpen, nNetif, nPtr, nHeld, nLink, nDev, nPy, nSes, nLost>>
      BY <1>13, <2>2 DEF NetTxSlot, slot
    <3>4. NetTypeOK'
      BY <3>2, <3>3
    <3>5. (NetOrder /\ NetFilled)'
      BY <3>2, <3>3
    <3>6. (NetMarked /\ NetTxOwn /\ NetArming)'
      BY <3>2, <3>3
    <3>7. (NetHeldIsKept /\ NetStopLeavesNone)'
      BY <3>2, <3>3
    <3> QED BY <3>4, <3>5, <3>6, <3>7
  <2> QED BY <2>1, <2>2
<1>14. CASE NetTxSubmit
  <2> USE <1>14 DEF NetTxSubmit
  <2>1. NetTypeOK'
    BY <1>0, NetSubmitType
  <2>2. (NetOrder /\ NetFilled)'
    OBVIOUS
  <2>3. (NetMarked /\ NetTxOwn /\ NetArming)'
    OBVIOUS
  <2>4. (NetHeldIsKept /\ NetStopLeavesNone)'
    OBVIOUS
  <2> QED BY <2>1, <2>2, <2>3, <2>4
<1>15. CASE UNCHANGED netVars
  BY <1>15 DEF netVars
<1> QED BY <1>1, <1>2, <1>3, <1>4, <1>5, <1>6, <1>7, <1>8, <1>9, <1>10, <1>11, <1>12, <1>13, <1>14, <1>15 DEF NetNext

\* No transfer the USB library holds is freed or submitted twice, and a stop leaves
\* it none: for any slots and any number of sessions. (net_free, net_stop,
\* usbhost_net_output, rx_cb)
THEOREM NetKeepsTransfers == NetSpec => []NetSafe
<1>1. NetInv => NetSafe
  BY DEF NetInv, NetTypeOK, NetOrder, NetFilled, NetMarked, NetTxOwn, NetHeldIsKept, NetStopLeavesNone,
         NetSafe, NetMarksAreOut, NetTxHasTransfer, NetSlots
<1> QED BY <1>1, NetStarts, NetSteps, PTL DEF NetSpec

-----------------------------------------------------------------------------
(***************************************************************************)
(* What the mDNS listener knows of the responder, for any services, names  *)
(* and finders. Inductive is that a type is advertised in one slot only,   *)
(* so that what is said of one service says nothing of another; that there *)
(* is no service without a thread to announce it; and that a call that     *)
(* stops the responder has taken the Server down first.                    *)
(***************************************************************************)

\* The words, the services and names, the finders and the thread.
MdWords ==
    /\ mdUp \in BOOLEAN /\ mdPy \in {"idle", "stops", "wakes", "joins"}
    /\ mdLeft \in Nat

\* The services and the names.
MdNames ==
    /\ mdSvc \in [MdSlots -> MdService \cup {MdNone}]
    /\ mdName \in [host : MdHosts, inst : MdInsts]

\* The finders, and the one that gathers.
MdFindOK ==
    /\ mdFind \in [MdFinders -> [at : {"idle", "asks", "reads", "asksAgain", "ends"},
                                 shared : BOOLEAN, recs : SUBSET {"ptr", "srv", "a"}]]
    /\ mdCollect \in MdFinders \cup {MdNone}

\* What the thread's record may be.
MdThread ==
    [at : {"none", "top", "polls", "timed", "ready", "exited"}, waits : BOOLEAN,
     woken : BOOLEAN, packet : {"none", "response", "query", "legacy"}]

\* The thread and its pipe.
MdThreadOK == mdThread \in MdThread /\ mdPipe \in BOOLEAN

\* What each variable holds.
MdTypeOK == MdWords /\ MdNames /\ MdFindOK /\ MdThreadOK

\* A type is advertised in one slot.
MdOneEach ==
    \A s, t \in MdSlots :
      mdSvc[s] # MdNone /\ mdSvc[t] # MdNone /\ mdSvc[s].type = mdSvc[t].type => s = t

\* Without a thread there is no service; while it is stopped there is no Server.
MdPlaces ==
    /\ ~MdLive => \A s \in MdSlots : mdSvc[s] = MdNone
    /\ mdPy # "idle" => ~mdUp

\* The inductive invariant.
MdInv == MdTypeOK /\ MdOneEach /\ MdPlaces /\ MdToldAll /\ MdAddsToGatherer /\ MdLeavesNothing

-----------------------------------------------------------------------------
\* What the messages do to what the listener knows

\* The computer has one of the names there are.
LEMMA MdNamed == MdComputers \in [host : MdHosts, inst : MdInsts]
<1>1. \E n : n \in [host : MdHosts, inst : MdInsts]
  <2>1. PICK h \in MdHosts, i \in MdInsts : TRUE
    BY MdAssumption
  <2>2. [host |-> h, inst |-> i] \in [host : MdHosts, inst : MdInsts]
    BY <2>1
  <2> QED BY <2>2
<1>2. \E n \in [host : MdHosts, inst : MdInsts] : TRUE
  BY <1>1
<1> QED BY <1>2 DEF MdComputers

\* What is said in an announcement stands, with what it does not replace: when it
\* replaces all there was, the listener knows what is said and no more.
LEMMA MdAnnounces ==
    ASSUME NEW heard, NEW svc, NEW name,
           MdLive, MdFits(svc, MdSlots),
           \A r \in heard : \E q \in MdRecords(svc, name, MdSlots) : MdSame(r, q)
    PROVE  MdAnnounced(heard, svc, name) = MdRecords(svc, name, MdSlots)
<1> DEFINE said == MdRecords(svc, name, MdSlots)
<1>1. MdAnnounced(heard, svc, name) = {r \in heard : \A q \in said : ~MdSame(r, q)} \cup said
  BY DEF MdAnnounced
<1>2. \A r \in heard : \E q \in said : MdSame(r, q)
  OBVIOUS
<1> HIDE DEF said
<1>3. {r \in heard : \A q \in said : ~MdSame(r, q)} = {}
  BY <1>2
<1>4. MdAnnounced(heard, svc, name) = said
  BY <1>1, <1>3
<1> QED BY <1>4 DEF said

\* A record is the same as itself.
LEMMA MdItself ==
    ASSUME NEW set
    PROVE  \A r \in set : \E q \in set : MdSame(r, q)
BY DEF MdSame

\* Said again, it changes nothing.
LEMMA MdRepeats ==
    ASSUME NEW svc, NEW name, MdLive, MdFits(svc, MdSlots)
    PROVE  MdAnnounced(MdRecords(svc, name, MdSlots), svc, name) = MdRecords(svc, name, MdSlots)
BY MdAnnounces, MdItself

\* Goodbye to all leaves nothing.
LEMMA MdGoes ==
    ASSUME NEW svc, NEW name, MdLive, MdFits(svc, MdSlots)
    PROVE  MdGoodbye(MdRecords(svc, name, MdSlots), svc, name) = {}
<1> DEFINE said == MdRecords(svc, name, MdSlots)
<1>1. MdGoodbye(said, svc, name) = {r \in said : \A q \in said : ~MdSame(r, q)}
  BY DEF MdGoodbye
<1> HIDE DEF said
<1>2. \A r \in said : \E q \in said : MdSame(r, q)
  BY MdItself
<1>3. MdGoodbye(said, svc, name) = {}
  BY <1>1, <1>2
<1> QED BY <1>3 DEF said

\* With no service there is nothing to say.
LEMMA MdSilent ==
    ASSUME NEW svc, NEW name, NEW which, \A s \in MdSlots : svc[s] = MdNone
    PROVE  MdRecords(svc, name, which) = {}
BY DEF MdRecords, MdUsed

\* Under another host every record has its successor.
LEMMA MdMoves ==
    ASSUME NEW svc, NEW old, NEW new, new.inst = old.inst
    PROVE  \A r \in MdRecords(svc, old, MdSlots) :
             \E q \in MdRecords(svc, new, MdSlots) : MdSame(r, q)
<1> SUFFICES ASSUME NEW r \in MdRecords(svc, old, MdSlots)
             PROVE  \E q \in MdRecords(svc, new, MdSlots) : MdSame(r, q)
  OBVIOUS
<1>1. PICK s \in MdUsed(svc) \cap MdSlots :
        r = [type |-> svc[s].type, inst |-> old.inst, host |-> old.host, port |-> svc[s].port]
  BY DEF MdRecords
<1> DEFINE q == [type |-> svc[s].type, inst |-> new.inst, host |-> new.host, port |-> svc[s].port]
<1>2. q \in MdRecords(svc, new, MdSlots)
  BY DEF MdRecords
<1>3. MdSame(r, q)
  BY <1>1 DEF MdSame
<1> QED BY <1>2, <1>3

\* With a service in a free slot, or in place of that of its type, every record
\* has its successor.
LEMMA MdReplaces ==
    ASSUME NEW svc \in [MdSlots -> MdService \cup {MdNone}], NEW name, NEW s \in MdSlots,
           NEW v \in MdService, svc[s] # MdNone => svc[s].type = v.type
    PROVE  \A r \in MdRecords(svc, name, MdSlots) :
             \E q \in MdRecords([svc EXCEPT ![s] = v], name, MdSlots) : MdSame(r, q)
<1> DEFINE now == [svc EXCEPT ![s] = v]
<1> SUFFICES ASSUME NEW r \in MdRecords(svc, name, MdSlots)
             PROVE  \E q \in MdRecords(now, name, MdSlots) : MdSame(r, q)
  OBVIOUS
<1>1. PICK t \in MdUsed(svc) \cap MdSlots :
        r = [type |-> svc[t].type, inst |-> name.inst, host |-> name.host, port |-> svc[t].port]
  BY DEF MdRecords
<1> DEFINE q == [type |-> now[t].type, inst |-> name.inst, host |-> name.host, port |-> now[t].port]
<1>2. t \in MdUsed(now) \cap MdSlots
  BY <1>1, MdAssumption DEF MdUsed, MdService
<1>3. now[t].type = svc[t].type
  BY <1>1 DEF MdUsed
<1> HIDE DEF now
<1>4. q \in MdRecords(now, name, MdSlots)
  BY <1>2 DEF MdRecords
<1>5. MdSame(r, q)
  BY <1>1, <1>3 DEF MdSame
<1> QED BY <1>4, <1>5

\* Of the services that stand, one's records replace its own and no other's.
LEMMA MdAnswers ==
    ASSUME MdTypeOK, MdOneEach, NEW s \in MdSlots,
           mdHeard = MdRecords(mdSvc, mdName, MdSlots)
    PROVE  MdAnswered(s) = mdHeard
<1> DEFINE said == MdRecords(mdSvc, mdName, {s})
<1>1. said \subseteq mdHeard
  BY DEF MdRecords, MdUsed
<1>2. ASSUME NEW r \in mdHeard, NEW q \in said, MdSame(r, q)
      PROVE  r = q
  <2>1. PICK t \in MdUsed(mdSvc) \cap MdSlots :
          r = [type |-> mdSvc[t].type, inst |-> mdName.inst, host |-> mdName.host,
               port |-> mdSvc[t].port]
    BY DEF MdRecords
  <2>2. s \in MdUsed(mdSvc) /\ q = [type |-> mdSvc[s].type, inst |-> mdName.inst,
                                     host |-> mdName.host, port |-> mdSvc[s].port]
    BY DEF MdRecords
  <2>3. mdSvc[t].type = mdSvc[s].type
    BY <1>2, <2>1, <2>2 DEF MdSame
  <2>4. t = s
    BY <2>1, <2>2, <2>3 DEF MdOneEach, MdUsed
  <2> QED BY <2>1, <2>2, <2>4
<1>3. MdAnswered(s) = {r \in mdHeard : \A q \in said : ~MdSame(r, q)} \cup said
  BY DEF MdAnswered
<1> HIDE DEF said
<1>4. \A r \in mdHeard : (\A q \in said : ~MdSame(r, q)) \/ r \in said
  BY <1>2
<1> QED BY <1>1, <1>3, <1>4

-----------------------------------------------------------------------------

\* What the thread is written to be, it may be.
LEMMA MdThreads ==
    \A place \in {"none", "top", "polls", "timed", "ready", "exited"}, b \in BOOLEAN,
       kind \in {"none", "response", "query", "legacy"} :
      /\ MdAt(place) \in MdThread
      /\ [MdAt(place) EXCEPT !.waits = b] \in MdThread
      /\ [MdAt(place) EXCEPT !.woken = b] \in MdThread
      /\ [MdAt(place) EXCEPT !.woken = b, !.packet = kind] \in MdThread
BY DEF MdAt, MdThread
\* It holds at first.
LEMMA MdStarted == MdInit => MdInv
<1> SUFFICES ASSUME MdInit PROVE MdInv
  OBVIOUS
<1>1. MdTypeOK
  BY MdNamed, MdThreads DEF MdInit, MdTypeOK, MdWords, MdNames, MdFindOK, MdThreadOK
<1>2. \A s \in MdSlots : mdSvc[s] = MdNone
  BY DEF MdInit
<1>3. MdRecords(mdSvc, mdName, MdSlots) = {} /\ MdUsed(mdSvc) = {}
  BY <1>2, MdSilent DEF MdUsed
<1>4. MdOneEach /\ MdPlaces /\ MdToldAll
  BY <1>2, <1>3 DEF MdInit, MdOneEach, MdPlaces, MdToldAll
<1>5. MdAddsToGatherer /\ MdLeavesNothing
  BY <1>3 DEF MdInit, MdAddsToGatherer, MdAddsOnlyThere, MdLeavesNothing, MdLive, MdAt
<1> QED BY <1>1, <1>4, <1>5 DEF MdInv

\* The slot a service goes to is free, or that of its type, which no other has.
LEMMA MdSlotIs ==
    ASSUME MdTypeOK, MdOneEach, NEW v \in MdService, NEW s \in MdSlotFor(v.type)
    PROVE  /\ s \in MdSlots /\ (mdSvc[s] # MdNone => mdSvc[s].type = v.type)
           /\ \A t \in MdSlots : mdSvc[t] # MdNone /\ mdSvc[t].type = v.type => t = s
<1> DEFINE own == {t \in MdUsed(mdSvc) : mdSvc[t].type = v.type}
<1>1. s \in (IF own # {} THEN own ELSE MdSlots \ MdUsed(mdSvc))
  BY DEF MdSlotFor
<1>2. \A t \in own : t \in MdSlots /\ mdSvc[t] # MdNone /\ mdSvc[t].type = v.type
  BY DEF MdUsed
<1>3. \A t \in MdSlots : mdSvc[t] # MdNone /\ mdSvc[t].type = v.type => t \in own
  BY DEF MdUsed
<1>4. \A t \in MdSlots : t \notin MdUsed(mdSvc) => mdSvc[t] = MdNone
  BY DEF MdUsed
<1> HIDE DEF own
<1>5. CASE own # {}
  BY <1>1, <1>2, <1>3, <1>5 DEF MdOneEach
<1>6. CASE own = {}
  BY <1>1, <1>3, <1>4, <1>6
<1> QED BY <1>5, <1>6

\* Of the type, the words.
LEMMA MdWordsStay ==
    ASSUME MdTypeOK, [MdNext]_mdVars
    PROVE  MdWords'
<1>1. ASSUME NEW ok \in BOOLEAN, MdConstruct(ok) PROVE MdWords'
  BY <1>1 DEF MdConstruct, MdStarts, MdWords, MdTypeOK, MdNames, MdFindOK, MdThreadOK
<1>2. CASE MdDeinit
  BY <1>2 DEF MdDeinit, MdWords, MdTypeOK, MdNames, MdFindOK, MdThreadOK
<1>3. CASE MdStopping
  BY <1>3 DEF MdStopping, MdStop, MdWords, MdTypeOK, MdNames, MdFindOK, MdThreadOK
<1>4. CASE MdJoined
  BY <1>4 DEF MdJoined, MdWords, MdTypeOK, MdNames, MdFindOK, MdThreadOK
<1>5. CASE MdAdvertiseStarts
  BY <1>5 DEF MdAdvertiseStarts, MdStarts, MdWords, MdTypeOK, MdNames, MdFindOK, MdThreadOK
<1>6. ASSUME NEW h \in MdHosts, MdSetHostname(h) PROVE MdWords'
  BY <1>6 DEF MdSetHostname, MdChanged, MdWakes, MdWords, MdTypeOK, MdNames, MdFindOK, MdThreadOK
<1>7. ASSUME NEW i \in MdInsts, MdSetInstanceName(i) PROVE MdWords'
  BY <1>7 DEF MdSetInstanceName, MdChanged, MdWakes, MdWords, MdTypeOK, MdNames, MdFindOK, MdThreadOK
<1>8. ASSUME NEW v \in MdService, MdAdvertise(v) PROVE MdWords'
  BY <1>8 DEF MdAdvertise, MdChanged, MdWakes, MdWords, MdTypeOK, MdNames, MdFindOK, MdThreadOK
<1>9. CASE MdTop
  BY <1>9 DEF MdTop, MdWords, MdTypeOK, MdNames, MdFindOK, MdThreadOK
<1>10. CASE MdTimeout
  BY <1>10 DEF MdTimeout, MdPolled, MdWords, MdTypeOK, MdNames, MdFindOK, MdThreadOK
<1>11. CASE MdWoken
  BY <1>11 DEF MdWoken, MdPolled, MdWords, MdTypeOK, MdNames, MdFindOK, MdThreadOK
<1>12. CASE MdRepeat
  BY <1>12 DEF MdRepeat, MdWords, MdTypeOK, MdNames, MdFindOK, MdThreadOK
<1>13. CASE MdHandle
  BY <1>13 DEF MdHandle, MdWords, MdTypeOK, MdNames, MdFindOK, MdThreadOK
<1>14. CASE MdInterrupted
  BY <1>14 DEF MdInterrupted, MdPolled, MdWords, MdTypeOK, MdNames, MdFindOK, MdThreadOK
<1>15. ASSUME NEW kind \in {"response", "query", "legacy"}, MdPacket(kind) PROVE MdWords'
  BY <1>15 DEF MdPacket, MdPolled, MdWords, MdTypeOK, MdNames, MdFindOK, MdThreadOK
<1>16. ASSUME NEW f \in MdFinders, MdFindBegins(f) PROVE MdWords'
  BY <1>16 DEF MdFindBegins, MdFindStep, MdWords, MdTypeOK, MdNames, MdFindOK, MdThreadOK
<1>17. ASSUME NEW f \in MdFinders, MdFindHears(f) PROVE MdWords'
  BY <1>17 DEF MdFindHears, MdFindStep, MdWords, MdTypeOK, MdNames, MdFindOK, MdThreadOK
<1>18. ASSUME NEW f \in MdFinders, MdAskStops(f) PROVE MdWords'
  BY <1>18 DEF MdAskStops, MdFindStep, MdOthers, MdWords, MdTypeOK, MdNames, MdFindOK, MdThreadOK
<1>19. ASSUME NEW f \in MdFinders, MdAskStarves(f) PROVE MdWords'
  BY <1>19 DEF MdAskStarves, MdFindStep, MdWords, MdTypeOK, MdNames, MdFindOK, MdThreadOK
<1>20. ASSUME NEW f \in MdFinders, MdFindAgain(f) PROVE MdWords'
  BY <1>20 DEF MdFindAgain, MdFindStep, MdWords, MdTypeOK, MdNames, MdFindOK, MdThreadOK
<1>21. ASSUME NEW f \in MdFinders, MdFindEnds(f) PROVE MdWords'
  BY <1>21 DEF MdFindEnds, MdFindStep, MdWords, MdTypeOK, MdNames, MdFindOK, MdThreadOK
<1>22. ASSUME NEW f \in MdFinders, MdFindRaises(f) PROVE MdWords'
  BY <1>22 DEF MdFindRaises, MdFindStep, MdOthers, MdWords, MdTypeOK, MdNames, MdFindOK, MdThreadOK
<1>23. CASE UNCHANGED mdVars
  BY <1>23 DEF mdVars, MdWords, MdTypeOK, MdNames, MdFindOK, MdThreadOK
<1> QED BY <1>1, <1>2, <1>3, <1>4, <1>5, <1>6, <1>7, <1>8, <1>9, <1>10, <1>11, <1>12, <1>13, <1>14, <1>15, <1>16, <1>17, <1>18, <1>19, <1>20, <1>21, <1>22, <1>23 DEF MdNext, MdThreadStep, MdFinding

\* Of the type, the services and the names.
LEMMA MdSvcStays ==
    ASSUME MdTypeOK, [MdNext]_mdVars
    PROVE  MdNames'
<1>1. ASSUME NEW ok \in BOOLEAN, MdConstruct(ok) PROVE MdNames'
  BY <1>1, MdNamed DEF MdConstruct, MdStarts, MdNames, MdTypeOK, MdWords, MdFindOK, MdThreadOK
<1>2. CASE MdDeinit
  BY <1>2, MdNamed DEF MdDeinit, MdNames, MdTypeOK, MdWords, MdFindOK, MdThreadOK
<1>3. CASE MdStopping
  BY <1>3, MdNamed DEF MdStopping, MdStop, MdNames, MdTypeOK, MdWords, MdFindOK, MdThreadOK
<1>4. CASE MdJoined
  BY <1>4, MdNamed DEF MdJoined, MdNames, MdTypeOK, MdWords, MdFindOK, MdThreadOK
<1>5. CASE MdAdvertiseStarts
  BY <1>5, MdNamed DEF MdAdvertiseStarts, MdStarts, MdNames, MdTypeOK, MdWords, MdFindOK, MdThreadOK
<1>6. ASSUME NEW h \in MdHosts, MdSetHostname(h) PROVE MdNames'
  BY <1>6, MdNamed DEF MdSetHostname, MdChanged, MdWakes, MdNames, MdTypeOK, MdWords, MdFindOK, MdThreadOK
<1>7. ASSUME NEW i \in MdInsts, MdSetInstanceName(i) PROVE MdNames'
  BY <1>7, MdNamed DEF MdSetInstanceName, MdChanged, MdWakes, MdNames, MdTypeOK, MdWords, MdFindOK, MdThreadOK
<1>8. ASSUME NEW v \in MdService, MdAdvertise(v) PROVE MdNames'
  <2>1. mdSvc' \in [MdSlots -> MdService \cup {MdNone}]
    BY <1>8 DEF MdAdvertise, MdTypeOK, MdWords, MdNames, MdFindOK, MdThreadOK
  <2> QED BY <1>8, <2>1 DEF MdAdvertise, MdNames, MdTypeOK, MdWords, MdFindOK, MdThreadOK
<1>9. CASE MdTop
  BY <1>9, MdNamed DEF MdTop, MdNames, MdTypeOK, MdWords, MdFindOK, MdThreadOK
<1>10. CASE MdTimeout
  BY <1>10, MdNamed DEF MdTimeout, MdPolled, MdNames, MdTypeOK, MdWords, MdFindOK, MdThreadOK
<1>11. CASE MdWoken
  BY <1>11, MdNamed DEF MdWoken, MdPolled, MdNames, MdTypeOK, MdWords, MdFindOK, MdThreadOK
<1>12. CASE MdRepeat
  BY <1>12, MdNamed DEF MdRepeat, MdNames, MdTypeOK, MdWords, MdFindOK, MdThreadOK
<1>13. CASE MdHandle
  BY <1>13, MdNamed DEF MdHandle, MdNames, MdTypeOK, MdWords, MdFindOK, MdThreadOK
<1>14. CASE MdInterrupted
  BY <1>14, MdNamed DEF MdInterrupted, MdPolled, MdNames, MdTypeOK, MdWords, MdFindOK, MdThreadOK
<1>15. ASSUME NEW kind \in {"response", "query", "legacy"}, MdPacket(kind) PROVE MdNames'
  BY <1>15, MdNamed DEF MdPacket, MdPolled, MdNames, MdTypeOK, MdWords, MdFindOK, MdThreadOK
<1>16. ASSUME NEW f \in MdFinders, MdFindBegins(f) PROVE MdNames'
  BY <1>16, MdNamed DEF MdFindBegins, MdFindStep, MdNames, MdTypeOK, MdWords, MdFindOK, MdThreadOK
<1>17. ASSUME NEW f \in MdFinders, MdFindHears(f) PROVE MdNames'
  BY <1>17, MdNamed DEF MdFindHears, MdFindStep, MdNames, MdTypeOK, MdWords, MdFindOK, MdThreadOK
<1>18. ASSUME NEW f \in MdFinders, MdAskStops(f) PROVE MdNames'
  BY <1>18, MdNamed DEF MdAskStops, MdFindStep, MdOthers, MdNames, MdTypeOK, MdWords, MdFindOK, MdThreadOK
<1>19. ASSUME NEW f \in MdFinders, MdAskStarves(f) PROVE MdNames'
  BY <1>19, MdNamed DEF MdAskStarves, MdFindStep, MdNames, MdTypeOK, MdWords, MdFindOK, MdThreadOK
<1>20. ASSUME NEW f \in MdFinders, MdFindAgain(f) PROVE MdNames'
  BY <1>20, MdNamed DEF MdFindAgain, MdFindStep, MdNames, MdTypeOK, MdWords, MdFindOK, MdThreadOK
<1>21. ASSUME NEW f \in MdFinders, MdFindEnds(f) PROVE MdNames'
  BY <1>21, MdNamed DEF MdFindEnds, MdFindStep, MdNames, MdTypeOK, MdWords, MdFindOK, MdThreadOK
<1>22. ASSUME NEW f \in MdFinders, MdFindRaises(f) PROVE MdNames'
  BY <1>22, MdNamed DEF MdFindRaises, MdFindStep, MdOthers, MdNames, MdTypeOK, MdWords, MdFindOK, MdThreadOK
<1>23. CASE UNCHANGED mdVars
  BY <1>23, MdNamed DEF mdVars, MdNames, MdTypeOK, MdWords, MdFindOK, MdThreadOK
<1> QED BY <1>1, <1>2, <1>3, <1>4, <1>5, <1>6, <1>7, <1>8, <1>9, <1>10, <1>11, <1>12, <1>13, <1>14, <1>15, <1>16, <1>17, <1>18, <1>19, <1>20, <1>21, <1>22, <1>23 DEF MdNext, MdThreadStep, MdFinding

\* Of the type, the thread.
LEMMA MdThreadStays ==
    ASSUME MdTypeOK, [MdNext]_mdVars
    PROVE  MdThreadOK'
<1>1. ASSUME NEW ok \in BOOLEAN, MdConstruct(ok) PROVE MdThreadOK'
  BY <1>1, MdThreads DEF MdConstruct, MdStarts, MdThreadOK, MdTypeOK, MdWords, MdNames, MdFindOK
<1>2. CASE MdDeinit
  BY <1>2, MdThreads DEF MdDeinit, MdThreadOK, MdTypeOK, MdWords, MdNames, MdFindOK
<1>3. CASE MdStopping
  BY <1>3, MdThreads DEF MdStopping, MdStop, MdThreadOK, MdTypeOK, MdWords, MdNames, MdFindOK
<1>4. CASE MdJoined
  BY <1>4, MdThreads DEF MdJoined, MdThreadOK, MdTypeOK, MdWords, MdNames, MdFindOK
<1>5. CASE MdAdvertiseStarts
  BY <1>5, MdThreads DEF MdAdvertiseStarts, MdStarts, MdThreadOK, MdTypeOK, MdWords, MdNames, MdFindOK
<1>6. ASSUME NEW h \in MdHosts, MdSetHostname(h) PROVE MdThreadOK'
  <2>1. mdThread' = mdThread /\ mdPipe' = MdLive
    BY <1>6 DEF MdSetHostname, MdChanged, MdWakes
  <2>2. MdLive \in BOOLEAN
    BY DEF MdLive
  <2> QED BY <2>1, <2>2 DEF MdThreadOK, MdTypeOK, MdWords, MdNames, MdFindOK
<1>7. ASSUME NEW i \in MdInsts, MdSetInstanceName(i) PROVE MdThreadOK'
  <2>1. mdThread' = mdThread /\ mdPipe' = MdLive
    BY <1>7 DEF MdSetInstanceName, MdChanged, MdWakes
  <2>2. MdLive \in BOOLEAN
    BY DEF MdLive
  <2> QED BY <2>1, <2>2 DEF MdThreadOK, MdTypeOK, MdWords, MdNames, MdFindOK
<1>8. ASSUME NEW v \in MdService, MdAdvertise(v) PROVE MdThreadOK'
  <2>1. mdThread' = mdThread /\ mdPipe' = MdLive
    BY <1>8 DEF MdAdvertise, MdChanged, MdWakes
  <2>2. MdLive \in BOOLEAN
    BY DEF MdLive
  <2> QED BY <2>1, <2>2 DEF MdThreadOK, MdTypeOK, MdWords, MdNames, MdFindOK
<1>9. CASE MdTop
  <2>1. (mdLeft > 0) \in BOOLEAN
    OBVIOUS
  <2> DEFINE b == mdLeft > 0
  <2>2. mdThread' = [MdAt("polls") EXCEPT !.waits = b] \/ mdThread' = MdAt("exited")
    BY <1>9 DEF MdTop
  <2>4. mdPipe' \in BOOLEAN
    BY <1>9 DEF MdTop, MdTypeOK, MdWords, MdNames, MdFindOK, MdThreadOK
  <2>3. b \in BOOLEAN
    BY <2>1
  <2> HIDE DEF b
  <2> QED BY <2>2, <2>3, <2>4, MdThreads DEF MdThreadOK
<1>10. CASE MdTimeout
  BY <1>10, MdThreads DEF MdTimeout, MdPolled, MdThreadOK, MdTypeOK, MdWords, MdNames, MdFindOK
<1>11. CASE MdWoken
  BY <1>11, MdThreads DEF MdWoken, MdPolled, MdThreadOK, MdTypeOK, MdWords, MdNames, MdFindOK
<1>12. CASE MdRepeat
  BY <1>12, MdThreads DEF MdRepeat, MdThreadOK, MdTypeOK, MdWords, MdNames, MdFindOK
<1>13. CASE MdHandle
  BY <1>13, MdThreads DEF MdHandle, MdThreadOK, MdTypeOK, MdWords, MdNames, MdFindOK
<1>14. CASE MdInterrupted
  BY <1>14, MdThreads DEF MdInterrupted, MdPolled, MdThreadOK, MdTypeOK, MdWords, MdNames, MdFindOK
<1>15. ASSUME NEW kind \in {"response", "query", "legacy"}, MdPacket(kind) PROVE MdThreadOK'
  BY <1>15, MdThreads DEF MdPacket, MdPolled, MdThreadOK, MdTypeOK, MdWords, MdNames, MdFindOK
<1>16. ASSUME NEW f \in MdFinders, MdFindBegins(f) PROVE MdThreadOK'
  BY <1>16, MdThreads DEF MdFindBegins, MdFindStep, MdThreadOK, MdTypeOK, MdWords, MdNames, MdFindOK
<1>17. ASSUME NEW f \in MdFinders, MdFindHears(f) PROVE MdThreadOK'
  BY <1>17, MdThreads DEF MdFindHears, MdFindStep, MdThreadOK, MdTypeOK, MdWords, MdNames, MdFindOK
<1>18. ASSUME NEW f \in MdFinders, MdAskStops(f) PROVE MdThreadOK'
  BY <1>18, MdThreads DEF MdAskStops, MdFindStep, MdOthers, MdThreadOK, MdTypeOK, MdWords, MdNames, MdFindOK
<1>19. ASSUME NEW f \in MdFinders, MdAskStarves(f) PROVE MdThreadOK'
  BY <1>19, MdThreads DEF MdAskStarves, MdFindStep, MdThreadOK, MdTypeOK, MdWords, MdNames, MdFindOK
<1>20. ASSUME NEW f \in MdFinders, MdFindAgain(f) PROVE MdThreadOK'
  BY <1>20, MdThreads DEF MdFindAgain, MdFindStep, MdThreadOK, MdTypeOK, MdWords, MdNames, MdFindOK
<1>21. ASSUME NEW f \in MdFinders, MdFindEnds(f) PROVE MdThreadOK'
  BY <1>21, MdThreads DEF MdFindEnds, MdFindStep, MdThreadOK, MdTypeOK, MdWords, MdNames, MdFindOK
<1>22. ASSUME NEW f \in MdFinders, MdFindRaises(f) PROVE MdThreadOK'
  BY <1>22, MdThreads DEF MdFindRaises, MdFindStep, MdOthers, MdThreadOK, MdTypeOK, MdWords, MdNames, MdFindOK
<1>23. CASE UNCHANGED mdVars
  BY <1>23, MdThreads DEF mdVars, MdThreadOK, MdTypeOK, MdWords, MdNames, MdFindOK
<1> QED BY <1>1, <1>2, <1>3, <1>4, <1>5, <1>6, <1>7, <1>8, <1>9, <1>10, <1>11, <1>12, <1>13, <1>14, <1>15, <1>16, <1>17, <1>18, <1>19, <1>20, <1>21, <1>22, <1>23 DEF MdNext, MdThreadStep, MdFinding

\* Of the type, the finders.
LEMMA MdFindStays ==
    ASSUME MdTypeOK, [MdNext]_mdVars
    PROVE  MdFindOK'
<1>1. ASSUME NEW ok \in BOOLEAN, MdConstruct(ok) PROVE MdFindOK'
  BY <1>1 DEF MdConstruct, MdStarts, MdMessage, MdFindOK, MdTypeOK, MdWords, MdNames, MdThreadOK
<1>2. CASE MdDeinit
  BY <1>2 DEF MdDeinit, MdMessage, MdFindOK, MdTypeOK, MdWords, MdNames, MdThreadOK
<1>3. CASE MdStopping
  BY <1>3 DEF MdStopping, MdStop, MdMessage, MdFindOK, MdTypeOK, MdWords, MdNames, MdThreadOK
<1>4. CASE MdJoined
  BY <1>4 DEF MdJoined, MdMessage, MdFindOK, MdTypeOK, MdWords, MdNames, MdThreadOK
<1>5. CASE MdAdvertiseStarts
  BY <1>5 DEF MdAdvertiseStarts, MdStarts, MdMessage, MdFindOK, MdTypeOK, MdWords, MdNames, MdThreadOK
<1>6. ASSUME NEW h \in MdHosts, MdSetHostname(h) PROVE MdFindOK'
  BY <1>6 DEF MdSetHostname, MdChanged, MdWakes, MdMessage, MdFindOK, MdTypeOK, MdWords, MdNames, MdThreadOK
<1>7. ASSUME NEW i \in MdInsts, MdSetInstanceName(i) PROVE MdFindOK'
  BY <1>7 DEF MdSetInstanceName, MdChanged, MdWakes, MdMessage, MdFindOK, MdTypeOK, MdWords, MdNames, MdThreadOK
<1>8. ASSUME NEW v \in MdService, MdAdvertise(v) PROVE MdFindOK'
  BY <1>8 DEF MdAdvertise, MdChanged, MdWakes, MdMessage, MdFindOK, MdTypeOK, MdWords, MdNames, MdThreadOK
<1>9. CASE MdTop
  BY <1>9 DEF MdTop, MdMessage, MdFindOK, MdTypeOK, MdWords, MdNames, MdThreadOK
<1>10. CASE MdTimeout
  BY <1>10 DEF MdTimeout, MdPolled, MdMessage, MdFindOK, MdTypeOK, MdWords, MdNames, MdThreadOK
<1>11. CASE MdWoken
  BY <1>11 DEF MdWoken, MdPolled, MdMessage, MdFindOK, MdTypeOK, MdWords, MdNames, MdThreadOK
<1>12. CASE MdRepeat
  BY <1>12 DEF MdRepeat, MdMessage, MdFindOK, MdTypeOK, MdWords, MdNames, MdThreadOK
<1>13. CASE MdHandle
  BY <1>13 DEF MdHandle, MdMessage, MdFindOK, MdTypeOK, MdWords, MdNames, MdThreadOK
<1>14. CASE MdInterrupted
  BY <1>14 DEF MdInterrupted, MdPolled, MdMessage, MdFindOK, MdTypeOK, MdWords, MdNames, MdThreadOK
<1>15. ASSUME NEW kind \in {"response", "query", "legacy"}, MdPacket(kind) PROVE MdFindOK'
  BY <1>15 DEF MdPacket, MdPolled, MdMessage, MdFindOK, MdTypeOK, MdWords, MdNames, MdThreadOK
<1>16. ASSUME NEW f \in MdFinders, MdFindBegins(f) PROVE MdFindOK'
  <2> DEFINE b == MdLive
  <2>1. b \in BOOLEAN
    BY DEF MdLive
  <2>2. mdFind' = [mdFind EXCEPT ![f] = [at |-> "asks", shared |-> b, recs |-> {}]]
    BY <1>16 DEF MdFindBegins
  <2>3. mdCollect' = f \/ mdCollect' = mdCollect
    BY <1>16 DEF MdFindBegins
  <2> HIDE DEF b
  <2> QED BY <2>1, <2>2, <2>3 DEF MdFindOK, MdTypeOK, MdWords, MdNames, MdThreadOK
<1>17. ASSUME NEW f \in MdFinders, MdFindHears(f) PROVE MdFindOK'
  BY <1>17 DEF MdFindHears, MdFindStep, MdMessage, MdFindOK, MdTypeOK, MdWords, MdNames, MdThreadOK
<1>18. ASSUME NEW f \in MdFinders, MdAskStops(f) PROVE MdFindOK'
  BY <1>18 DEF MdAskStops, MdFindStep, MdOthers, MdMessage, MdFindOK, MdTypeOK, MdWords, MdNames, MdThreadOK
<1>19. ASSUME NEW f \in MdFinders, MdAskStarves(f) PROVE MdFindOK'
  BY <1>19 DEF MdAskStarves, MdFindStep, MdMessage, MdFindOK, MdTypeOK, MdWords, MdNames, MdThreadOK
<1>20. ASSUME NEW f \in MdFinders, MdFindAgain(f) PROVE MdFindOK'
  BY <1>20 DEF MdFindAgain, MdFindStep, MdMessage, MdFindOK, MdTypeOK, MdWords, MdNames, MdThreadOK
<1>21. ASSUME NEW f \in MdFinders, MdFindEnds(f) PROVE MdFindOK'
  BY <1>21 DEF MdFindEnds, MdFindStep, MdMessage, MdFindOK, MdTypeOK, MdWords, MdNames, MdThreadOK
<1>22. ASSUME NEW f \in MdFinders, MdFindRaises(f) PROVE MdFindOK'
  BY <1>22 DEF MdFindRaises, MdFindStep, MdOthers, MdMessage, MdFindOK, MdTypeOK, MdWords, MdNames, MdThreadOK
<1>23. CASE UNCHANGED mdVars
  BY <1>23 DEF mdVars, MdMessage, MdFindOK, MdTypeOK, MdWords, MdNames, MdThreadOK
<1> QED BY <1>1, <1>2, <1>3, <1>4, <1>5, <1>6, <1>7, <1>8, <1>9, <1>10, <1>11, <1>12, <1>13, <1>14, <1>15, <1>16, <1>17, <1>18, <1>19, <1>20, <1>21, <1>22, <1>23 DEF MdNext, MdThreadStep, MdFinding

\* The type, of its parts.
LEMMA MdTypeStays == ASSUME MdTypeOK, [MdNext]_mdVars PROVE MdTypeOK'
<1>1. MdWords' /\ MdNames' /\ MdThreadOK' /\ MdFindOK'
  BY MdWordsStay, MdSvcStays, MdThreadStays, MdFindStays
<1> QED BY <1>1 DEF MdTypeOK, MdWords, MdNames, MdThreadOK, MdFindOK

\* A type stays in one slot.
LEMMA MdOneStays ==
    ASSUME MdInv, [MdNext]_mdVars
    PROVE  MdOneEach'
<1>1. ASSUME NEW ok \in BOOLEAN, MdConstruct(ok) PROVE MdOneEach'
  BY <1>1 DEF MdConstruct, MdStarts, MdInv, MdOneEach
<1>2. CASE MdDeinit
  BY <1>2 DEF MdDeinit, MdInv, MdOneEach
<1>3. CASE MdStopping
  BY <1>3 DEF MdStopping, MdStop, MdInv, MdOneEach
<1>4. CASE MdJoined
  BY <1>4 DEF MdJoined, MdInv, MdOneEach
<1>5. CASE MdAdvertiseStarts
  BY <1>5 DEF MdAdvertiseStarts, MdStarts, MdInv, MdOneEach
<1>6. ASSUME NEW h \in MdHosts, MdSetHostname(h) PROVE MdOneEach'
  BY <1>6 DEF MdSetHostname, MdChanged, MdWakes, MdInv, MdOneEach
<1>7. ASSUME NEW i \in MdInsts, MdSetInstanceName(i) PROVE MdOneEach'
  BY <1>7 DEF MdSetInstanceName, MdChanged, MdWakes, MdInv, MdOneEach
<1>8. ASSUME NEW v \in MdService, MdAdvertise(v) PROVE MdOneEach'
  <2>1. PICK s \in MdSlotFor(v.type) : mdSvc' = [mdSvc EXCEPT ![s] = v]
    BY <1>8 DEF MdAdvertise
  <2>2. /\ s \in MdSlots
        /\ \A t \in MdSlots : mdSvc[t] # MdNone /\ mdSvc[t].type = v.type => t = s
    BY MdSlotIs DEF MdInv
  <2>3. mdSvc \in [MdSlots -> MdService \cup {MdNone}]
    BY DEF MdInv, MdTypeOK, MdWords, MdNames, MdFindOK, MdThreadOK
  <2>4. \A t \in MdSlots : mdSvc'[t] = IF t = s THEN v ELSE mdSvc[t]
    BY <2>1, <2>2, <2>3
  <2> QED BY <2>2, <2>4 DEF MdInv, MdOneEach
<1>9. CASE MdTop
  BY <1>9 DEF MdTop, MdInv, MdOneEach
<1>10. CASE MdTimeout
  BY <1>10 DEF MdTimeout, MdPolled, MdInv, MdOneEach
<1>11. CASE MdWoken
  BY <1>11 DEF MdWoken, MdPolled, MdInv, MdOneEach
<1>12. CASE MdRepeat
  BY <1>12 DEF MdRepeat, MdInv, MdOneEach
<1>13. CASE MdHandle
  BY <1>13 DEF MdHandle, MdInv, MdOneEach
<1>14. CASE MdInterrupted
  BY <1>14 DEF MdInterrupted, MdPolled, MdInv, MdOneEach
<1>15. ASSUME NEW kind \in {"response", "query", "legacy"}, MdPacket(kind) PROVE MdOneEach'
  BY <1>15 DEF MdPacket, MdPolled, MdInv, MdOneEach
<1>16. ASSUME NEW f \in MdFinders, MdFindBegins(f) PROVE MdOneEach'
  BY <1>16 DEF MdFindBegins, MdFindStep, MdInv, MdOneEach
<1>17. ASSUME NEW f \in MdFinders, MdFindHears(f) PROVE MdOneEach'
  BY <1>17 DEF MdFindHears, MdFindStep, MdInv, MdOneEach
<1>18. ASSUME NEW f \in MdFinders, MdAskStops(f) PROVE MdOneEach'
  BY <1>18 DEF MdAskStops, MdFindStep, MdOthers, MdInv, MdOneEach
<1>19. ASSUME NEW f \in MdFinders, MdAskStarves(f) PROVE MdOneEach'
  BY <1>19 DEF MdAskStarves, MdFindStep, MdInv, MdOneEach
<1>20. ASSUME NEW f \in MdFinders, MdFindAgain(f) PROVE MdOneEach'
  BY <1>20 DEF MdFindAgain, MdFindStep, MdInv, MdOneEach
<1>21. ASSUME NEW f \in MdFinders, MdFindEnds(f) PROVE MdOneEach'
  BY <1>21 DEF MdFindEnds, MdFindStep, MdInv, MdOneEach
<1>22. ASSUME NEW f \in MdFinders, MdFindRaises(f) PROVE MdOneEach'
  BY <1>22 DEF MdFindRaises, MdFindStep, MdOthers, MdInv, MdOneEach
<1>23. CASE UNCHANGED mdVars
  BY <1>23 DEF mdVars, MdInv, MdOneEach
<1> QED BY <1>1, <1>2, <1>3, <1>4, <1>5, <1>6, <1>7, <1>8, <1>9, <1>10, <1>11, <1>12, <1>13, <1>14, <1>15, <1>16, <1>17, <1>18, <1>19, <1>20, <1>21, <1>22, <1>23 DEF MdNext, MdThreadStep, MdFinding

\* No service without a thread; no Server while one stops.
LEMMA MdPlacesStay ==
    ASSUME MdInv, [MdNext]_mdVars
    PROVE  MdPlaces'
<1>1. ASSUME NEW ok \in BOOLEAN, MdConstruct(ok) PROVE MdPlaces'
  <2>1. \A s \in MdSlots : mdSvc'[s] = MdNone
    BY <1>1 DEF MdConstruct
  <2>2. mdPy = "idle" /\ mdPy' = mdPy
    BY <1>1 DEF MdConstruct, MdCall
  <2> QED BY <2>1, <2>2 DEF MdPlaces
<1>2. CASE MdDeinit
  BY <1>2 DEF MdDeinit, MdLive, MdAt, MdInv, MdPlaces, MdLeavesNothing, MdUsed
<1>3. CASE MdStopping
  BY <1>3 DEF MdStopping, MdStop, MdLive, MdAt, MdInv, MdPlaces, MdLeavesNothing, MdUsed
<1>4. CASE MdJoined
  BY <1>4 DEF MdJoined, MdLive, MdAt, MdInv, MdPlaces, MdLeavesNothing, MdUsed
<1>5. CASE MdAdvertiseStarts
  BY <1>5 DEF MdAdvertiseStarts, MdStarts, MdLive, MdAt, MdInv, MdPlaces, MdLeavesNothing, MdUsed
<1>6. ASSUME NEW h \in MdHosts, MdSetHostname(h) PROVE MdPlaces'
  BY <1>6 DEF MdSetHostname, MdChanged, MdWakes, MdLive, MdAt, MdInv, MdPlaces, MdLeavesNothing, MdUsed
<1>7. ASSUME NEW i \in MdInsts, MdSetInstanceName(i) PROVE MdPlaces'
  BY <1>7 DEF MdSetInstanceName, MdChanged, MdWakes, MdLive, MdAt, MdInv, MdPlaces, MdLeavesNothing, MdUsed
<1>8. ASSUME NEW v \in MdService, MdAdvertise(v) PROVE MdPlaces'
  BY <1>8 DEF MdAdvertise, MdChanged, MdWakes, MdLive, MdAt, MdInv, MdPlaces, MdLeavesNothing, MdUsed
<1>9. CASE MdTop
  BY <1>9 DEF MdTop, MdLive, MdAt, MdInv, MdPlaces, MdLeavesNothing, MdUsed
<1>10. CASE MdTimeout
  BY <1>10 DEF MdTimeout, MdPolled, MdLive, MdAt, MdInv, MdPlaces, MdLeavesNothing, MdUsed
<1>11. CASE MdWoken
  BY <1>11 DEF MdWoken, MdPolled, MdLive, MdAt, MdInv, MdPlaces, MdLeavesNothing, MdUsed
<1>12. CASE MdRepeat
  BY <1>12 DEF MdRepeat, MdLive, MdAt, MdInv, MdPlaces, MdLeavesNothing, MdUsed
<1>13. CASE MdHandle
  BY <1>13 DEF MdHandle, MdLive, MdAt, MdInv, MdPlaces, MdLeavesNothing, MdUsed
<1>14. CASE MdInterrupted
  BY <1>14 DEF MdInterrupted, MdPolled, MdLive, MdAt, MdInv, MdPlaces, MdLeavesNothing, MdUsed
<1>15. ASSUME NEW kind \in {"response", "query", "legacy"}, MdPacket(kind) PROVE MdPlaces'
  BY <1>15 DEF MdPacket, MdPolled, MdLive, MdAt, MdInv, MdPlaces, MdLeavesNothing, MdUsed
<1>16. ASSUME NEW f \in MdFinders, MdFindBegins(f) PROVE MdPlaces'
  BY <1>16 DEF MdFindBegins, MdFindStep, MdLive, MdAt, MdInv, MdPlaces, MdLeavesNothing, MdUsed
<1>17. ASSUME NEW f \in MdFinders, MdFindHears(f) PROVE MdPlaces'
  BY <1>17 DEF MdFindHears, MdFindStep, MdLive, MdAt, MdInv, MdPlaces, MdLeavesNothing, MdUsed
<1>18. ASSUME NEW f \in MdFinders, MdAskStops(f) PROVE MdPlaces'
  BY <1>18 DEF MdAskStops, MdFindStep, MdOthers, MdLive, MdAt, MdInv, MdPlaces, MdLeavesNothing, MdUsed
<1>19. ASSUME NEW f \in MdFinders, MdAskStarves(f) PROVE MdPlaces'
  BY <1>19 DEF MdAskStarves, MdFindStep, MdLive, MdAt, MdInv, MdPlaces, MdLeavesNothing, MdUsed
<1>20. ASSUME NEW f \in MdFinders, MdFindAgain(f) PROVE MdPlaces'
  BY <1>20 DEF MdFindAgain, MdFindStep, MdLive, MdAt, MdInv, MdPlaces, MdLeavesNothing, MdUsed
<1>21. ASSUME NEW f \in MdFinders, MdFindEnds(f) PROVE MdPlaces'
  BY <1>21 DEF MdFindEnds, MdFindStep, MdLive, MdAt, MdInv, MdPlaces, MdLeavesNothing, MdUsed
<1>22. ASSUME NEW f \in MdFinders, MdFindRaises(f) PROVE MdPlaces'
  BY <1>22 DEF MdFindRaises, MdFindStep, MdOthers, MdLive, MdAt, MdInv, MdPlaces, MdLeavesNothing, MdUsed
<1>23. CASE UNCHANGED mdVars
  BY <1>23 DEF mdVars, MdLive, MdAt, MdInv, MdPlaces, MdLeavesNothing, MdUsed
<1> QED BY <1>1, <1>2, <1>3, <1>4, <1>5, <1>6, <1>7, <1>8, <1>9, <1>10, <1>11, <1>12, <1>13, <1>14, <1>15, <1>16, <1>17, <1>18, <1>19, <1>20, <1>21, <1>22, <1>23 DEF MdNext, MdThreadStep, MdFinding

\* The listener goes on knowing what there is.
LEMMA MdToldStays ==
    ASSUME MdInv, [MdNext]_mdVars
    PROVE  MdToldAll'
<1>1. ASSUME NEW ok \in BOOLEAN, MdConstruct(ok) PROVE MdToldAll'
  <2>1. \A s \in MdSlots : mdSvc[s] = MdNone
    BY <1>1 DEF MdConstruct, MdInv, MdLeavesNothing, MdUsed
  <2>2. MdRecords(mdSvc, mdName, MdSlots) = {} /\ MdRecords(mdSvc', mdName', MdSlots) = {}
    BY <1>1, <2>1, MdSilent DEF MdConstruct
  <2> QED BY <1>1, <2>2 DEF MdConstruct, MdInv, MdToldAll
<1>2. CASE MdDeinit
  <2>1. \A s \in MdSlots : mdSvc'[s] = MdNone
    BY <1>2 DEF MdDeinit
  <2>2. MdRecords(mdSvc', mdName', MdSlots) = {}
    BY <2>1, MdSilent
  <2>3. CASE ~MdLive
    <3>1. MdRecords(mdSvc, mdName, MdSlots) = {}
      BY <2>3, MdSilent DEF MdInv, MdPlaces
    <3>2. mdHeard' = mdHeard
      BY <1>2, <2>3 DEF MdDeinit, MdGoodbye
    <3> QED BY <1>2, <2>2, <3>1, <3>2 DEF MdDeinit, MdInv, MdToldAll
  <2>4. CASE MdLive /\ MdFits(mdSvc, MdSlots)
    <3>1. MdToldAll => mdMuted \/ mdHeard' = {}
      BY <1>2, <2>4, MdGoes DEF MdDeinit, MdToldAll
    <3> QED BY <1>2, <2>2, <3>1 DEF MdDeinit, MdInv, MdToldAll
  <2>5. CASE ~MdFits(mdSvc, MdSlots)
    BY <1>2, <2>5 DEF MdDeinit, MdToldAll
  <2> QED BY <2>3, <2>4, <2>5
<1>3. CASE MdStopping
  BY <1>3 DEF MdStopping, MdStop, MdInv, MdToldAll
<1>4. CASE MdJoined
  BY <1>4 DEF MdJoined, MdInv, MdToldAll
<1>5. CASE MdAdvertiseStarts
  BY <1>5 DEF MdAdvertiseStarts, MdStarts, MdInv, MdToldAll
<1>6. ASSUME NEW h \in MdHosts, MdSetHostname(h) PROVE MdToldAll'
  <2>1. CASE ~MdFits(mdSvc, MdSlots)
    BY <1>6, <2>1 DEF MdSetHostname, MdToldAll
  <2>2. CASE ~MdLive
    <3>1. MdRecords(mdSvc, mdName, MdSlots) = {} /\ MdRecords(mdSvc, mdName', MdSlots) = {}
      BY <2>2, MdSilent DEF MdInv, MdPlaces
    <3>2. mdHeard' = mdHeard /\ mdSvc' = mdSvc
      BY <1>6, <2>2 DEF MdSetHostname, MdChanged, MdAnnounced, MdFarewell, MdGoodbye
    <3> QED BY <1>6, <3>1, <3>2 DEF MdSetHostname, MdInv, MdToldAll
  <2>3. CASE MdFits(mdSvc, MdSlots) /\ MdLive /\ ~mdMuted
    <3>1. mdHeard = MdRecords(mdSvc, mdName, MdSlots)
      BY <2>3 DEF MdInv, MdToldAll
    <3>2. mdName'.inst = mdName.inst
      BY <1>6 DEF MdSetHostname, MdInv, MdTypeOK, MdWords, MdNames, MdFindOK, MdThreadOK
    <3>3. \A r \in mdHeard : \E q \in MdRecords(mdSvc, mdName', MdSlots) : MdSame(r, q)
      BY <3>1, <3>2, MdMoves
    <3>4. MdAnnounced(mdHeard, mdSvc, mdName') = MdRecords(mdSvc, mdName', MdSlots)
      BY <2>3, <3>3, MdAnnounces
    <3> QED BY <1>6, <3>4 DEF MdSetHostname, MdChanged, MdToldAll
  <2>4. CASE mdMuted
    BY <1>6, <2>4 DEF MdSetHostname, MdToldAll
  <2> QED BY <2>1, <2>2, <2>3, <2>4
<1>7. ASSUME NEW i \in MdInsts, MdSetInstanceName(i) PROVE MdToldAll'
  <2>1. CASE ~MdFits(mdSvc, MdSlots)
    BY <1>7, <2>1 DEF MdSetInstanceName, MdToldAll
  <2>2. CASE ~MdLive
    <3>1. MdRecords(mdSvc, mdName, MdSlots) = {} /\ MdRecords(mdSvc, mdName', MdSlots) = {}
      BY <2>2, MdSilent DEF MdInv, MdPlaces
    <3>2. mdHeard' = mdHeard /\ mdSvc' = mdSvc
      BY <1>7, <2>2 DEF MdSetInstanceName, MdChanged, MdAnnounced, MdFarewell, MdGoodbye
    <3> QED BY <1>7, <3>1, <3>2 DEF MdSetInstanceName, MdInv, MdToldAll
  <2>3. CASE MdFits(mdSvc, MdSlots) /\ MdLive /\ ~mdMuted
    <3>1. mdHeard = MdRecords(mdSvc, mdName, MdSlots)
      BY <2>3 DEF MdInv, MdToldAll
    <3>2. MdFarewell(mdHeard, mdSvc, mdName, mdName') = {}
      BY <2>3, <3>1, MdGoes DEF MdFarewell
    <3>3. MdAnnounced({}, mdSvc, mdName') = MdRecords(mdSvc, mdName', MdSlots)
      BY <2>3, MdAnnounces
    <3> QED BY <1>7, <3>2, <3>3 DEF MdSetInstanceName, MdChanged, MdToldAll
  <2>4. CASE mdMuted
    BY <1>7, <2>4 DEF MdSetInstanceName, MdToldAll
  <2> QED BY <2>1, <2>2, <2>3, <2>4
<1>8. ASSUME NEW v \in MdService, MdAdvertise(v) PROVE MdToldAll'
  <2>1. PICK s \in MdSlotFor(v.type) : mdSvc' = [mdSvc EXCEPT ![s] = v]
    BY <1>8 DEF MdAdvertise
  <2>2. s \in MdSlots /\ (mdSvc[s] # MdNone => mdSvc[s].type = v.type)
    BY MdSlotIs DEF MdInv
  <2>3. mdSvc \in [MdSlots -> MdService \cup {MdNone}]
    BY DEF MdInv, MdTypeOK, MdWords, MdNames, MdFindOK, MdThreadOK
  <2>4. \A r \in MdRecords(mdSvc, mdName, MdSlots) :
          \E q \in MdRecords(mdSvc', mdName, MdSlots) : MdSame(r, q)
    BY <2>1, <2>2, <2>3, MdReplaces
  <2>5. MdLive /\ MdFits(mdSvc', MdSlots) /\ mdHeard = MdRecords(mdSvc, mdName, MdSlots)
        => MdAnnounced(mdHeard, mdSvc', mdName) = MdRecords(mdSvc', mdName, MdSlots)
    BY <2>4, MdAnnounces
  <2>6. MdLive /\ mdName' = mdName /\ mdHeard' = MdAnnounced(mdHeard, mdSvc', mdName)
        /\ mdMuted' = (mdMuted \/ ~MdFits(mdSvc', MdSlots))
    BY <1>8 DEF MdAdvertise, MdChanged
  <2>7. mdMuted \/ mdHeard = MdRecords(mdSvc, mdName, MdSlots)
    BY DEF MdInv, MdToldAll
  <2> HIDE <1>8
  <2> QED BY ONLY <2>5, <2>6, <2>7 DEF MdToldAll
<1>9. CASE MdTop
  BY <1>9 DEF MdTop, MdInv, MdToldAll
<1>10. CASE MdTimeout
  BY <1>10 DEF MdTimeout, MdPolled, MdInv, MdToldAll
<1>11. CASE MdWoken
  BY <1>11 DEF MdWoken, MdPolled, MdInv, MdToldAll
<1>12. CASE MdRepeat
  <2>1. MdLive
    BY <1>12 DEF MdRepeat, MdLive
  <2>2. MdFits(mdSvc, MdSlots)
        => MdAnnounced(MdRecords(mdSvc, mdName, MdSlots), mdSvc, mdName) = MdRecords(mdSvc, mdName, MdSlots)
    BY <2>1, MdRepeats
  <2>3. mdSvc' = mdSvc /\ mdName' = mdName
        /\ \/ /\ mdHeard' = MdAnnounced(mdHeard, mdSvc, mdName)
              /\ mdMuted' = (mdMuted \/ ~MdFits(mdSvc, MdSlots))
           \/ mdHeard' = mdHeard /\ mdMuted' = mdMuted
    BY <1>12 DEF MdRepeat
  <2> QED BY <2>2, <2>3 DEF MdInv, MdToldAll
<1>13. CASE MdHandle
  <2>1. mdHeard' = mdHeard \/ \E s \in MdSlots : mdHeard' = MdAnswered(s)
    BY <1>13 DEF MdHandle
  <2>2. mdHeard = MdRecords(mdSvc, mdName, MdSlots) => mdHeard' = mdHeard
    BY <2>1, MdAnswers DEF MdInv
  <2> QED BY <1>13, <2>2 DEF MdHandle, MdInv, MdToldAll
<1>14. CASE MdInterrupted
  BY <1>14 DEF MdInterrupted, MdPolled, MdInv, MdToldAll
<1>15. ASSUME NEW kind \in {"response", "query", "legacy"}, MdPacket(kind) PROVE MdToldAll'
  BY <1>15 DEF MdPacket, MdPolled, MdInv, MdToldAll
<1>16. ASSUME NEW f \in MdFinders, MdFindBegins(f) PROVE MdToldAll'
  BY <1>16 DEF MdFindBegins, MdFindStep, MdInv, MdToldAll
<1>17. ASSUME NEW f \in MdFinders, MdFindHears(f) PROVE MdToldAll'
  BY <1>17 DEF MdFindHears, MdFindStep, MdInv, MdToldAll
<1>18. ASSUME NEW f \in MdFinders, MdAskStops(f) PROVE MdToldAll'
  BY <1>18 DEF MdAskStops, MdFindStep, MdOthers, MdInv, MdToldAll
<1>19. ASSUME NEW f \in MdFinders, MdAskStarves(f) PROVE MdToldAll'
  BY <1>19 DEF MdAskStarves, MdFindStep, MdInv, MdToldAll
<1>20. ASSUME NEW f \in MdFinders, MdFindAgain(f) PROVE MdToldAll'
  BY <1>20 DEF MdFindAgain, MdFindStep, MdInv, MdToldAll
<1>21. ASSUME NEW f \in MdFinders, MdFindEnds(f) PROVE MdToldAll'
  BY <1>21 DEF MdFindEnds, MdFindStep, MdInv, MdToldAll
<1>22. ASSUME NEW f \in MdFinders, MdFindRaises(f) PROVE MdToldAll'
  BY <1>22 DEF MdFindRaises, MdFindStep, MdOthers, MdInv, MdToldAll
<1>23. CASE UNCHANGED mdVars
  BY <1>23 DEF mdVars, MdInv, MdToldAll
<1> QED BY <1>1, <1>2, <1>3, <1>4, <1>5, <1>6, <1>7, <1>8, <1>9, <1>10, <1>11, <1>12, <1>13, <1>14, <1>15, <1>16, <1>17, <1>18, <1>19, <1>20, <1>21, <1>22, <1>23 DEF MdNext, MdThreadStep, MdFinding

\* The thread goes on adding where it may.
LEMMA MdGatherStays ==
    ASSUME MdInv, [MdNext]_mdVars
    PROVE  MdAddsToGatherer'
<1>1. ASSUME NEW ok \in BOOLEAN, MdConstruct(ok) PROVE MdAddsToGatherer'
  BY <1>1, MdAssumption DEF MdConstruct, MdStarts, MdInv, MdTypeOK, MdAddsToGatherer, MdAddsOnlyThere, MdWords, MdNames, MdFindOK, MdThreadOK
<1>2. CASE MdDeinit
  BY <1>2, MdAssumption DEF MdDeinit, MdInv, MdTypeOK, MdAddsToGatherer, MdAddsOnlyThere, MdWords, MdNames, MdFindOK, MdThreadOK
<1>3. CASE MdStopping
  BY <1>3, MdAssumption DEF MdStopping, MdStop, MdInv, MdTypeOK, MdAddsToGatherer, MdAddsOnlyThere, MdWords, MdNames, MdFindOK, MdThreadOK
<1>4. CASE MdJoined
  BY <1>4, MdAssumption DEF MdJoined, MdInv, MdTypeOK, MdAddsToGatherer, MdAddsOnlyThere, MdWords, MdNames, MdFindOK, MdThreadOK
<1>5. CASE MdAdvertiseStarts
  BY <1>5, MdAssumption DEF MdAdvertiseStarts, MdStarts, MdInv, MdTypeOK, MdAddsToGatherer, MdAddsOnlyThere, MdWords, MdNames, MdFindOK, MdThreadOK
<1>6. ASSUME NEW h \in MdHosts, MdSetHostname(h) PROVE MdAddsToGatherer'
  BY <1>6, MdAssumption DEF MdSetHostname, MdChanged, MdWakes, MdInv, MdTypeOK, MdAddsToGatherer, MdAddsOnlyThere, MdWords, MdNames, MdFindOK, MdThreadOK
<1>7. ASSUME NEW i \in MdInsts, MdSetInstanceName(i) PROVE MdAddsToGatherer'
  BY <1>7, MdAssumption DEF MdSetInstanceName, MdChanged, MdWakes, MdInv, MdTypeOK, MdAddsToGatherer, MdAddsOnlyThere, MdWords, MdNames, MdFindOK, MdThreadOK
<1>8. ASSUME NEW v \in MdService, MdAdvertise(v) PROVE MdAddsToGatherer'
  BY <1>8, MdAssumption DEF MdAdvertise, MdChanged, MdWakes, MdInv, MdTypeOK, MdAddsToGatherer, MdAddsOnlyThere, MdWords, MdNames, MdFindOK, MdThreadOK
<1>9. CASE MdTop
  BY <1>9, MdAssumption DEF MdTop, MdInv, MdTypeOK, MdAddsToGatherer, MdAddsOnlyThere, MdWords, MdNames, MdFindOK, MdThreadOK
<1>10. CASE MdTimeout
  BY <1>10, MdAssumption DEF MdTimeout, MdPolled, MdInv, MdTypeOK, MdAddsToGatherer, MdAddsOnlyThere, MdWords, MdNames, MdFindOK, MdThreadOK
<1>11. CASE MdWoken
  BY <1>11, MdAssumption DEF MdWoken, MdPolled, MdInv, MdTypeOK, MdAddsToGatherer, MdAddsOnlyThere, MdWords, MdNames, MdFindOK, MdThreadOK
<1>12. CASE MdRepeat
  BY <1>12, MdAssumption DEF MdRepeat, MdInv, MdTypeOK, MdAddsToGatherer, MdAddsOnlyThere, MdWords, MdNames, MdFindOK, MdThreadOK
<1>13. CASE MdHandle
  BY <1>13, MdAssumption DEF MdHandle, MdInv, MdTypeOK, MdAddsToGatherer, MdAddsOnlyThere, MdWords, MdNames, MdFindOK, MdThreadOK
<1>14. CASE MdInterrupted
  BY <1>14, MdAssumption DEF MdInterrupted, MdPolled, MdInv, MdTypeOK, MdAddsToGatherer, MdAddsOnlyThere, MdWords, MdNames, MdFindOK, MdThreadOK
<1>15. ASSUME NEW kind \in {"response", "query", "legacy"}, MdPacket(kind) PROVE MdAddsToGatherer'
  BY <1>15, MdAssumption DEF MdPacket, MdPolled, MdInv, MdTypeOK, MdAddsToGatherer, MdAddsOnlyThere, MdWords, MdNames, MdFindOK, MdThreadOK
<1>16. ASSUME NEW f \in MdFinders, MdFindBegins(f) PROVE MdAddsToGatherer'
  BY <1>16, MdAssumption DEF MdFindBegins, MdFindStep, MdInv, MdTypeOK, MdAddsToGatherer, MdAddsOnlyThere, MdWords, MdNames, MdFindOK, MdThreadOK
<1>17. ASSUME NEW f \in MdFinders, MdFindHears(f) PROVE MdAddsToGatherer'
  BY <1>17, MdAssumption DEF MdFindHears, MdFindStep, MdInv, MdTypeOK, MdAddsToGatherer, MdAddsOnlyThere, MdWords, MdNames, MdFindOK, MdThreadOK
<1>18. ASSUME NEW f \in MdFinders, MdAskStops(f) PROVE MdAddsToGatherer'
  BY <1>18, MdAssumption DEF MdAskStops, MdFindStep, MdOthers, MdInv, MdTypeOK, MdAddsToGatherer, MdAddsOnlyThere, MdWords, MdNames, MdFindOK, MdThreadOK
<1>19. ASSUME NEW f \in MdFinders, MdAskStarves(f) PROVE MdAddsToGatherer'
  BY <1>19, MdAssumption DEF MdAskStarves, MdFindStep, MdInv, MdTypeOK, MdAddsToGatherer, MdAddsOnlyThere, MdWords, MdNames, MdFindOK, MdThreadOK
<1>20. ASSUME NEW f \in MdFinders, MdFindAgain(f) PROVE MdAddsToGatherer'
  BY <1>20, MdAssumption DEF MdFindAgain, MdFindStep, MdInv, MdTypeOK, MdAddsToGatherer, MdAddsOnlyThere, MdWords, MdNames, MdFindOK, MdThreadOK
<1>21. ASSUME NEW f \in MdFinders, MdFindEnds(f) PROVE MdAddsToGatherer'
  BY <1>21, MdAssumption DEF MdFindEnds, MdFindStep, MdInv, MdTypeOK, MdAddsToGatherer, MdAddsOnlyThere, MdWords, MdNames, MdFindOK, MdThreadOK
<1>22. ASSUME NEW f \in MdFinders, MdFindRaises(f) PROVE MdAddsToGatherer'
  BY <1>22, MdAssumption DEF MdFindRaises, MdFindStep, MdOthers, MdInv, MdTypeOK, MdAddsToGatherer, MdAddsOnlyThere, MdWords, MdNames, MdFindOK, MdThreadOK
<1>23. CASE UNCHANGED mdVars
  BY <1>23, MdAssumption DEF mdVars, MdInv, MdTypeOK, MdAddsToGatherer, MdAddsOnlyThere, MdWords, MdNames, MdFindOK, MdThreadOK
<1> QED BY <1>1, <1>2, <1>3, <1>4, <1>5, <1>6, <1>7, <1>8, <1>9, <1>10, <1>11, <1>12, <1>13, <1>14, <1>15, <1>16, <1>17, <1>18, <1>19, <1>20, <1>21, <1>22, <1>23 DEF MdNext, MdThreadStep, MdFinding

\* What is gone leaves nothing.
LEMMA MdNothingStays ==
    ASSUME MdInv, [MdNext]_mdVars
    PROVE  MdLeavesNothing'
<1>1. ASSUME NEW ok \in BOOLEAN, MdConstruct(ok) PROVE MdLeavesNothing'
  BY <1>1 DEF MdConstruct, MdStarts, MdLive, MdAt, MdInv, MdTypeOK, MdPlaces, MdUsed, MdLeavesNothing, MdWords, MdNames, MdFindOK, MdThreadOK, MdThread
<1>2. CASE MdDeinit
  BY <1>2 DEF MdDeinit, MdLive, MdAt, MdInv, MdTypeOK, MdPlaces, MdUsed, MdLeavesNothing, MdWords, MdNames, MdFindOK, MdThreadOK, MdThread
<1>3. CASE MdStopping
  BY <1>3 DEF MdStopping, MdStop, MdLive, MdAt, MdInv, MdTypeOK, MdPlaces, MdUsed, MdLeavesNothing, MdWords, MdNames, MdFindOK, MdThreadOK, MdThread
<1>4. CASE MdJoined
  BY <1>4 DEF MdJoined, MdLive, MdAt, MdInv, MdTypeOK, MdPlaces, MdUsed, MdLeavesNothing, MdWords, MdNames, MdFindOK, MdThreadOK, MdThread
<1>5. CASE MdAdvertiseStarts
  BY <1>5 DEF MdAdvertiseStarts, MdStarts, MdLive, MdAt, MdInv, MdTypeOK, MdPlaces, MdUsed, MdLeavesNothing, MdWords, MdNames, MdFindOK, MdThreadOK, MdThread
<1>6. ASSUME NEW h \in MdHosts, MdSetHostname(h) PROVE MdLeavesNothing'
  BY <1>6 DEF MdSetHostname, MdChanged, MdWakes, MdLive, MdAt, MdInv, MdTypeOK, MdPlaces, MdUsed, MdLeavesNothing, MdWords, MdNames, MdFindOK, MdThreadOK, MdThread
<1>7. ASSUME NEW i \in MdInsts, MdSetInstanceName(i) PROVE MdLeavesNothing'
  BY <1>7 DEF MdSetInstanceName, MdChanged, MdWakes, MdLive, MdAt, MdInv, MdTypeOK, MdPlaces, MdUsed, MdLeavesNothing, MdWords, MdNames, MdFindOK, MdThreadOK, MdThread
<1>8. ASSUME NEW v \in MdService, MdAdvertise(v) PROVE MdLeavesNothing'
  BY <1>8 DEF MdAdvertise, MdChanged, MdWakes, MdLive, MdAt, MdInv, MdTypeOK, MdPlaces, MdUsed, MdLeavesNothing, MdWords, MdNames, MdFindOK, MdThreadOK, MdThread
<1>9. CASE MdTop
  BY <1>9 DEF MdTop, MdLive, MdAt, MdInv, MdTypeOK, MdPlaces, MdUsed, MdLeavesNothing, MdWords, MdNames, MdFindOK, MdThreadOK, MdThread
<1>10. CASE MdTimeout
  BY <1>10 DEF MdTimeout, MdPolled, MdLive, MdAt, MdInv, MdTypeOK, MdPlaces, MdUsed, MdLeavesNothing, MdWords, MdNames, MdFindOK, MdThreadOK, MdThread
<1>11. CASE MdWoken
  BY <1>11 DEF MdWoken, MdPolled, MdLive, MdAt, MdInv, MdTypeOK, MdPlaces, MdUsed, MdLeavesNothing, MdWords, MdNames, MdFindOK, MdThreadOK, MdThread
<1>12. CASE MdRepeat
  BY <1>12 DEF MdRepeat, MdLive, MdAt, MdInv, MdTypeOK, MdPlaces, MdUsed, MdLeavesNothing, MdWords, MdNames, MdFindOK, MdThreadOK, MdThread
<1>13. CASE MdHandle
  BY <1>13 DEF MdHandle, MdLive, MdAt, MdInv, MdTypeOK, MdPlaces, MdUsed, MdLeavesNothing, MdWords, MdNames, MdFindOK, MdThreadOK, MdThread
<1>14. CASE MdInterrupted
  BY <1>14 DEF MdInterrupted, MdPolled, MdLive, MdAt, MdInv, MdTypeOK, MdPlaces, MdUsed, MdLeavesNothing, MdWords, MdNames, MdFindOK, MdThreadOK, MdThread
<1>15. ASSUME NEW kind \in {"response", "query", "legacy"}, MdPacket(kind) PROVE MdLeavesNothing'
  BY <1>15 DEF MdPacket, MdPolled, MdLive, MdAt, MdInv, MdTypeOK, MdPlaces, MdUsed, MdLeavesNothing, MdWords, MdNames, MdFindOK, MdThreadOK, MdThread
<1>16. ASSUME NEW f \in MdFinders, MdFindBegins(f) PROVE MdLeavesNothing'
  BY <1>16 DEF MdFindBegins, MdFindStep, MdLive, MdAt, MdInv, MdTypeOK, MdPlaces, MdUsed, MdLeavesNothing, MdWords, MdNames, MdFindOK, MdThreadOK, MdThread
<1>17. ASSUME NEW f \in MdFinders, MdFindHears(f) PROVE MdLeavesNothing'
  BY <1>17 DEF MdFindHears, MdFindStep, MdLive, MdAt, MdInv, MdTypeOK, MdPlaces, MdUsed, MdLeavesNothing, MdWords, MdNames, MdFindOK, MdThreadOK, MdThread
<1>18. ASSUME NEW f \in MdFinders, MdAskStops(f) PROVE MdLeavesNothing'
  BY <1>18 DEF MdAskStops, MdFindStep, MdOthers, MdLive, MdAt, MdInv, MdTypeOK, MdPlaces, MdUsed, MdLeavesNothing, MdWords, MdNames, MdFindOK, MdThreadOK, MdThread
<1>19. ASSUME NEW f \in MdFinders, MdAskStarves(f) PROVE MdLeavesNothing'
  BY <1>19 DEF MdAskStarves, MdFindStep, MdLive, MdAt, MdInv, MdTypeOK, MdPlaces, MdUsed, MdLeavesNothing, MdWords, MdNames, MdFindOK, MdThreadOK, MdThread
<1>20. ASSUME NEW f \in MdFinders, MdFindAgain(f) PROVE MdLeavesNothing'
  BY <1>20 DEF MdFindAgain, MdFindStep, MdLive, MdAt, MdInv, MdTypeOK, MdPlaces, MdUsed, MdLeavesNothing, MdWords, MdNames, MdFindOK, MdThreadOK, MdThread
<1>21. ASSUME NEW f \in MdFinders, MdFindEnds(f) PROVE MdLeavesNothing'
  BY <1>21 DEF MdFindEnds, MdFindStep, MdLive, MdAt, MdInv, MdTypeOK, MdPlaces, MdUsed, MdLeavesNothing, MdWords, MdNames, MdFindOK, MdThreadOK, MdThread
<1>22. ASSUME NEW f \in MdFinders, MdFindRaises(f) PROVE MdLeavesNothing'
  BY <1>22 DEF MdFindRaises, MdFindStep, MdOthers, MdLive, MdAt, MdInv, MdTypeOK, MdPlaces, MdUsed, MdLeavesNothing, MdWords, MdNames, MdFindOK, MdThreadOK, MdThread
<1>23. CASE UNCHANGED mdVars
  BY <1>23 DEF mdVars, MdLive, MdAt, MdInv, MdTypeOK, MdPlaces, MdUsed, MdLeavesNothing, MdWords, MdNames, MdFindOK, MdThreadOK, MdThread
<1> QED BY <1>1, <1>2, <1>3, <1>4, <1>5, <1>6, <1>7, <1>8, <1>9, <1>10, <1>11, <1>12, <1>13, <1>14, <1>15, <1>16, <1>17, <1>18, <1>19, <1>20, <1>21, <1>22, <1>23 DEF MdNext, MdThreadStep, MdFinding

-----------------------------------------------------------------------------
\* What a listener was told is what there is, but for messages too long to send;
\* the thread adds to the records of a find() that gathers, but for an ask() that
\* found no memory; and a Server that is gone leaves nothing.
THEOREM MdTellsWhatThereIs == MdSpec => []MdSafe
<1>1. MdInv /\ [MdNext]_mdVars => MdInv'
  BY MdTypeStays, MdOneStays, MdPlacesStay, MdToldStays, MdGatherStays, MdNothingStays DEF MdInv
<1>2. MdInv => MdSafe
  BY DEF MdInv, MdSafe
<1> QED BY MdStarted, <1>1, <1>2, PTL DEF MdSpec

-----------------------------------------------------------------------------
(***************************************************************************)
(* The camera's two buffers. Inductive is that the buffer a frame is read  *)
(* from is the one that is held, and that the DMA, which writes only while *)
(* the driver streams, writes the other one once it was asked.             *)
(***************************************************************************)

\* What a frame is read from is what is held, and the DMA writes only while the
\* driver streams; a constructor has no frame yet.
CbInv ==
    /\ cbLevel \in 0 .. 4 /\ cbHeld \in {CbNone, 0, 1} /\ cbFrame \in {CbNone, 0, 1}
    /\ {cbFilling, cbDone, cbPicked} \subseteq {0, 1}
    /\ cbFrame # CbNone => cbHeld = cbFrame
    /\ cbWriting # CbNone => cbLevel = 4
    /\ cbTask \in {"open", "waits", "taken", "checked", "read"} => cbFrame = CbNone
    /\ CbSparedOnceAsked

\* The other buffer is one, and is not the one held.
LEMMA CbOthers ==
    ASSUME NEW h \in {CbNone, 0, 1}
    PROVE  CbOther(h) \in {0, 1} /\ CbOther(h) # h
  BY DEF CbOther, CbNone

\* No camera: nothing is written.
LEMMA CbInitInv == CbInit => CbInv
  BY DEF CbInit, CbInv, CbNone, CbSparedOnceAsked

\* The driver and a wait for a frame.
LEMMA CbFrameSteps ==
    ASSUME CbInv, CbIsr \/ CbWait \/ CbTake \/ CbTimesOut \/ CbCheck \/ CbPick \/ CbClaim
    PROVE  CbInv'
<1>1. CASE CbIsr
  <2>1. CbOther(cbHeld) \in {0, 1} /\ CbOther(cbHeld) # cbHeld
    BY CbOthers DEF CbInv
  <2>2. /\ cbWriting' = CbOther(cbHeld) /\ cbFilling' \in {0, 1} /\ cbDone' \in {0, 1}
        /\ UNCHANGED <<cbLevel, cbTask, cbHeld, cbFrame, cbPicked>> /\ cbLevel = 4
    BY <1>1, <2>1 DEF CbIsr, CbInv, cbLife
  <2> QED BY <2>1, <2>2 DEF CbInv, CbSparedOnceAsked
<1>2. CASE CbWait
  BY <1>2 DEF CbWait, CbInv, CbSparedOnceAsked, cbLife, cbBufs, cbSensor
<1>3. CASE CbTake \/ CbTimesOut \/ CbCheck
  BY <1>3 DEF CbTake, CbTimesOut, CbCheck, CbInv, CbSparedOnceAsked, cbLife, cbBufs, cbSensor
<1>4. CASE CbPick
  BY <1>4 DEF CbPick, CbInv, CbSparedOnceAsked, cbLife, cbBufs, cbSensor
<1>5. CASE CbClaim
  BY <1>5 DEF CbClaim, CbInv, CbSparedOnceAsked, cbLife, cbBufs, cbSensor
<1> QED BY <1>1, <1>2, <1>3, <1>4, <1>5

\* Opening and closing.
LEMMA CbLifeSteps ==
    ASSUME CbInv, CbMake \/ CbStage \/ CbMade \/ CbFails \/ CbDeinit \/ CbSoftReset
                  \/ CbTearStops \/ CbTearFrees
    PROVE  CbInv'
<1>1. CASE CbMake
  BY <1>1 DEF CbMake, CbInv, CbSparedOnceAsked, CbNone
<1>2. CASE CbStage
  <2>1. CbOther(cbHeld) \in {0, 1}
    BY CbOthers DEF CbInv
  <2>2. cbFrame = CbNone /\ cbFrame' = cbFrame /\ cbLevel' = cbLevel + 1 /\ cbLevel < 4
    BY <1>2 DEF CbStage, CbInv
  <2>3. cbFilling' \in {0, 1} /\ cbHeld' \in {CbNone, 0, 1}
    BY <1>2, <2>1 DEF CbStage, CbInv
  <2>4. cbWriting' # CbNone => cbLevel' = 4
    BY <1>2, <2>2 DEF CbStage, CbInv
  <2> QED BY <1>2, <2>2, <2>3, <2>4 DEF CbStage, CbInv, CbSparedOnceAsked
<1>3. CASE CbMade \/ CbFails \/ CbDeinit \/ CbSoftReset
  BY <1>3 DEF CbMade, CbFails, CbDeinit, CbSoftReset, CbInv, CbSparedOnceAsked, cbLife, cbBufs, cbSensor
<1>4. CASE CbTearStops
  <2>1. cbLevel' \in 0 .. 2 /\ cbWriting' = CbNone
    BY <1>4 DEF CbTearStops, CbStops, CbInv
  <2> QED BY <1>4, <2>1 DEF CbTearStops, CbInv, CbSparedOnceAsked, CbNone, cbBufs
<1>5. CASE CbTearFrees
  <2>1. cbWriting = CbNone /\ cbWriting' = cbWriting
    BY <1>5 DEF CbTearFrees, CbStops, CbInv, cbSensor
  <2> QED BY <1>5, <2>1 DEF CbTearFrees, CbInv, CbSparedOnceAsked, CbNone, cbBufs
<1> QED BY <1>1, <1>2, <1>3, <1>4, <1>5

\* The DMA writes only what is there, and once the driver has asked after a
\* claim, never the buffer that is read: whichever order the driver calls back
\* in, whatever stage a constructor fails at, for any number of frames.
THEOREM CbKeepsApart == CbSpec => []CbSafe
<1>1. CbInv /\ [CbNext]_cbVars => CbInv'
  <2>1. CbInv /\ UNCHANGED cbVars => CbInv'
    BY DEF cbVars, cbLife, cbBufs, cbSensor, CbInv, CbSparedOnceAsked
  <2> QED BY <2>1, CbFrameSteps, CbLifeSteps DEF CbNext
<1>2. CbInv => CbSafe
  BY DEF CbInv, CbSafe, CbSparedOnceAsked, CbWritesWhatIsThere
<1> QED BY <1>1, <1>2, CbInitInv, PTL DEF CbSpec
-----------------------------------------------------------------------------
(***************************************************************************)
(* mDNS on Windows. Inductive is, for advertising, what is left of the     *)
(* call under way and what it has made of the registrations it is about,   *)
(* all others in a slot being settled; for find(), the count.              *)
(***************************************************************************)

\* The browse_t's half: its references are counted, and what is asked for was
\* found, one answer at a time.
MwFindInv ==
    /\ mwHolds \subseteq {"find", "browse"} /\ mwDrops \in Nat /\ mwRefs \in Nat
    /\ IsFiniteSet(mwFlight) /\ IsFiniteSet(mwFound)
    /\ MwCounted /\ MwOneRequest

\* Those that may hold it are two.
LEMMA MwHoldsCount ==
    ASSUME NEW H \in SUBSET {"find", "browse"}
    PROVE  /\ IsFiniteSet(H) /\ Cardinality(H) \in Nat
           /\ \A h \in H : Cardinality(H \ {h}) = Cardinality(H) - 1
           /\ Cardinality({}) = 0 /\ Cardinality({"find", "browse"}) = 2
<1>1. IsFiniteSet({"find", "browse"}) /\ Cardinality({"find", "browse"}) = 2
  <2>1. IsFiniteSet({"find"}) /\ Cardinality({"find"}) = 1 /\ IsFiniteSet({}) /\ Cardinality({}) = 0
    BY FS_EmptySet, FS_Singleton
  <2>2. IsFiniteSet({"find"} \cup {"browse"}) /\ Cardinality({"find"} \cup {"browse"}) = Cardinality({"find"}) + 1
    BY <2>1, FS_AddElement
  <2>3. {"find"} \cup {"browse"} = {"find", "browse"}
    OBVIOUS
  <2> QED BY <2>1, <2>2, <2>3
<1>2. IsFiniteSet(H)
  BY <1>1, FS_Subset
<1>3. Cardinality(H) \in Nat
  BY <1>2, FS_CardinalityType
<1>4. \A h \in H : Cardinality(H \ {h}) = Cardinality(H) - 1
  BY <1>2, FS_RemoveElement
<1> QED BY <1>1, <1>2, <1>3, <1>4, FS_EmptySet

\* A release: whoever lets go was counted.
LEMMA MwReleases ==
    ASSUME MwFindInv, NEW H, NEW F, NEW D, MwRelease(H, F, D),
           H \subseteq {"find", "browse"}, D \in Nat, IsFiniteSet(F),
           Cardinality(H) + Cardinality(F) + D = mwRefs - 1
    PROVE  mwRefs > 0 /\ mwRefs' = mwRefs - 1 /\ MwCounted'
<1>1. Cardinality(H) \in Nat /\ Cardinality(F) \in Nat
  BY MwHoldsCount, FS_CardinalityType
<1>2. mwRefs > 0
  BY <1>1 DEF MwFindInv
<1>3. /\ mwRefs' = mwRefs - 1 /\ mwMem' = (IF mwRefs = 1 THEN "freed" ELSE mwMem)
      /\ mwHolds' = H /\ mwFlight' = F /\ mwDrops' = D
  BY DEF MwRelease
<1>4. mwMem = "held" /\ mwRefs \in Nat
  BY <1>2 DEF MwFindInv, MwCounted
<1>5. mwRefs' = Cardinality(mwHolds') + Cardinality(mwFlight') + mwDrops'
  BY <1>3
<1>6. mwMem' = "held" <=> mwRefs' > 0
  BY <1>2, <1>3, <1>4
<1> QED BY <1>2, <1>3, <1>5, <1>6 DEF MwCounted

\* find(), its browse and its resolves keep the count.
LEMMA MwFindSteps ==
    ASSUME MwFindInv,
           \/ MwFindBegins \/ MwFindEnds
           \/ \E asked, refused \in SUBSET MwHits : MwRound(asked, refused)
           \/ \E h \in MwHits, yes \in BOOLEAN : MwBrowseCb(h, yes) \/ MwResolveCb(h, yes)
           \/ MwBrowseEnds \/ MwResolveLetsGo
    PROVE  MwFindInv'
<1>0. /\ Cardinality(mwHolds) \in Nat /\ Cardinality(mwFlight) \in Nat /\ mwDrops \in Nat
      /\ mwRefs = Cardinality(mwHolds) + Cardinality(mwFlight) + mwDrops
      /\ mwResolving = mwFlight
  BY MwHoldsCount, FS_CardinalityType DEF MwFindInv, MwCounted, MwOneRequest
<1>1. CASE MwFindBegins
  <2>1. mwRefs = 0
    BY <1>1 DEF MwFindBegins, MwFindInv, MwCounted
  <2>2. Cardinality(mwHolds) = 0 /\ Cardinality(mwFlight) = 0 /\ mwDrops = 0
    BY <1>0, <2>1
  <2>3. UNCHANGED <<mwFound, mwResolving, mwFlight, mwDrops>>
    BY <1>1 DEF MwFindBegins, mwHitVars
  <2>4. \/ mwMem' = "held" /\ mwRefs' = 2 /\ mwHolds' = {"find", "browse"}
        \/ mwMem' = "freed" /\ mwRefs' = 0 /\ mwHolds' = mwHolds
    BY <1>1 DEF MwFindBegins
  <2>5. Cardinality({"find", "browse"}) = 2
    BY MwHoldsCount DEF MwFindInv
  <2>6. CASE mwMem' = "held" /\ mwRefs' = 2 /\ mwHolds' = {"find", "browse"}
    BY <2>2, <2>3, <2>5, <2>6 DEF MwFindInv, MwCounted, MwOneRequest
  <2>7. CASE mwMem' = "freed" /\ mwRefs' = 0 /\ mwHolds' = mwHolds
    BY <2>2, <2>3, <2>7 DEF MwFindInv, MwCounted, MwOneRequest
  <2> QED BY <2>4, <2>6, <2>7
<1>2. CASE MwFindEnds
  <2>1. /\ "find" \in mwHolds /\ MwRelease(mwHolds \ {"find"}, mwFlight, mwDrops)
        /\ mwFound' = mwFound /\ mwResolving' = mwResolving
    BY <1>2 DEF MwFindEnds
  <2>2. Cardinality(mwHolds \ {"find"}) = Cardinality(mwHolds) - 1
    BY <2>1, MwHoldsCount DEF MwFindInv
  <2>3. /\ mwHolds \ {"find"} \subseteq {"find", "browse"} /\ mwDrops \in Nat
        /\ IsFiniteSet(mwFlight)
        /\ Cardinality(mwHolds \ {"find"}) + Cardinality(mwFlight) + mwDrops = mwRefs - 1
    BY <1>0, <2>2 DEF MwFindInv
  <2>4. mwRefs > 0 /\ mwRefs' = mwRefs - 1 /\ MwCounted'
    BY <2>1, <2>3, MwReleases
  <2> QED BY <2>1, <2>3, <2>4 DEF MwFindInv, MwRelease, MwOneRequest
<1>3. ASSUME NEW asked \in SUBSET MwHits, NEW refused \in SUBSET MwHits, MwRound(asked, refused)
      PROVE  MwFindInv'
  <2>1. /\ "find" \in mwHolds /\ asked \subseteq mwFound /\ asked \cap mwFlight = {}
        /\ mwRefs' = mwRefs + Cardinality(asked) /\ mwFlight' = mwFlight \cup asked
        /\ mwResolving' = mwResolving \cup asked
        /\ UNCHANGED <<mwMem, mwHolds, mwFound, mwDrops>>
    BY <1>0, <1>3 DEF MwRound, MwToAsk
  <2>2. IsFiniteSet(asked) /\ Cardinality(asked) \in Nat
    BY <2>1, FS_Subset, FS_CardinalityType DEF MwFindInv
  <2>3. IsFiniteSet(mwFlight \cup asked)
    BY <2>2, FS_Union DEF MwFindInv
  <2>4. Cardinality(mwFlight \cup asked) = Cardinality(mwFlight) + Cardinality(asked)
    <3>0. mwFlight \cap asked = {}
      BY <2>1
    <3>1. Cardinality(mwFlight \cap asked) = 0
      BY <3>0, FS_EmptySet
    <3>2. IsFiniteSet(mwFlight) /\ IsFiniteSet(asked)
      BY <2>2 DEF MwFindInv
    <3>3. Cardinality(mwFlight \cup asked)
            = Cardinality(mwFlight) + Cardinality(asked) - Cardinality(mwFlight \cap asked)
      BY <3>2, FS_Union
    <3> QED BY <1>0, <2>2, <3>1, <3>3
  <2>5. Cardinality(mwHolds) > 0
    <3>1. Cardinality(mwHolds \ {"find"}) = Cardinality(mwHolds) - 1
      BY <2>1, MwHoldsCount DEF MwFindInv
    <3>2. mwHolds \ {"find"} \in SUBSET {"find", "browse"}
      BY DEF MwFindInv
    <3>3. Cardinality(mwHolds \ {"find"}) \in Nat
      BY <3>2, MwHoldsCount
    <3> QED BY <1>0, <3>1, <3>3
  <2>6. MwCounted'
    <3>1. mwRefs > 0 /\ mwMem = "held"
      BY <1>0, <2>5 DEF MwFindInv, MwCounted
    <3> QED BY <1>0, <2>1, <2>2, <2>4, <3>1 DEF MwCounted
  <2> QED BY <1>0, <2>1, <2>2, <2>3, <2>6 DEF MwFindInv, MwOneRequest
<1>4. ASSUME NEW h \in MwHits, NEW yes \in BOOLEAN, MwBrowseCb(h, yes)
      PROVE  MwFindInv'
  <2>1. /\ mwFound' = mwFound \cup {h}
        /\ UNCHANGED <<mwRefs, mwMem, mwHolds, mwResolving, mwFlight, mwDrops>>
    BY <1>4 DEF MwBrowseCb
  <2>2. IsFiniteSet(mwFound \cup {h})
    BY FS_AddElement DEF MwFindInv
  <2> QED BY <2>1, <2>2 DEF MwFindInv, MwCounted, MwOneRequest
<1>5. ASSUME NEW h \in MwHits, NEW yes \in BOOLEAN, MwResolveCb(h, yes)
      PROVE  MwFindInv'
  <2>1. /\ h \in mwFlight /\ mwFlight' = mwFlight \ {h} /\ mwDrops' = mwDrops + 1
        /\ mwResolving' = mwResolving \ {h}
        /\ UNCHANGED <<mwRefs, mwMem, mwHolds, mwFound>>
    BY <1>5 DEF MwResolveCb
  <2>2. IsFiniteSet(mwFlight \ {h}) /\ Cardinality(mwFlight \ {h}) = Cardinality(mwFlight) - 1
    BY <2>1, FS_RemoveElement DEF MwFindInv
  <2>3. MwCounted'
    BY <1>0, <2>1, <2>2 DEF MwFindInv, MwCounted
  <2> QED BY <1>0, <2>1, <2>2, <2>3 DEF MwFindInv, MwOneRequest
<1>6. CASE MwBrowseEnds
  <2>1. /\ "browse" \in mwHolds /\ MwRelease(mwHolds \ {"browse"}, mwFlight, mwDrops)
        /\ mwFound' = mwFound /\ mwResolving' = mwResolving
    BY <1>6 DEF MwBrowseEnds
  <2>2. Cardinality(mwHolds \ {"browse"}) = Cardinality(mwHolds) - 1
    BY <2>1, MwHoldsCount DEF MwFindInv
  <2>3. /\ mwHolds \ {"browse"} \subseteq {"find", "browse"} /\ mwDrops \in Nat
        /\ IsFiniteSet(mwFlight)
        /\ Cardinality(mwHolds \ {"browse"}) + Cardinality(mwFlight) + mwDrops = mwRefs - 1
    BY <1>0, <2>2 DEF MwFindInv
  <2>4. mwRefs > 0 /\ mwRefs' = mwRefs - 1 /\ MwCounted'
    BY <2>1, <2>3, MwReleases
  <2> QED BY <2>1, <2>3, <2>4 DEF MwFindInv, MwRelease, MwOneRequest
<1>7. CASE MwResolveLetsGo
  <2>1. /\ mwDrops > 0 /\ MwRelease(mwHolds, mwFlight, mwDrops - 1)
        /\ mwFound' = mwFound /\ mwResolving' = mwResolving
    BY <1>7 DEF MwResolveLetsGo
  <2>3. /\ mwHolds \subseteq {"find", "browse"} /\ mwDrops - 1 \in Nat
        /\ IsFiniteSet(mwFlight)
        /\ Cardinality(mwHolds) + Cardinality(mwFlight) + (mwDrops - 1) = mwRefs - 1
    BY <1>0, <2>1 DEF MwFindInv
  <2>4. mwRefs > 0 /\ mwRefs' = mwRefs - 1 /\ MwCounted'
    BY <2>1, <2>3, MwReleases
  <2> QED BY <2>1, <2>3, <2>4 DEF MwFindInv, MwRelease, MwOneRequest
<1> QED BY <1>1, <1>2, <1>3, <1>4, <1>5, <1>6, <1>7

\* The advertising half: what a call may have left, its registrations and slots.
MwItems ==
    ({"withdraw", "withdrawn"} \X MwRegs) \cup ({"renew", "drop"} \X MwSlots)
    \cup ({"publish", "published"} \X MwRegs \X {"advertise", "rename"})
    \cup ({"place"} \X MwRegs \X MwSlots)

MwRegType ==
    [mem : {"unused", "held", "left", "freed"}, type : MwTypes \cup {MwNone},
     done : BOOLEAN, failed : BOOLEAN, req : MwRegs \cup {MwNone}]

MwTyped ==
    /\ mwReg \in [MwRegs -> MwRegType] /\ mwOwed \in [MwRegs -> [MwCallbacks -> Nat]]
    /\ mwSlot \in [MwSlots -> MwRegs \cup {MwNone}] /\ mwTodo \in Seq(MwItems)

\* Windows owes a registration one call at most, and none once it has called,
\* nor to one whose memory is gone.
MwQuiet(r) == \A c \in MwCallbacks : mwOwed[r][c] = 0
MwOwes == \A r \in MwRegs :
    /\ \A c, d \in MwCallbacks : mwOwed[r][c] > 0 =>
           mwOwed[r][c] = 1 /\ (c # d => mwOwed[r][d] = 0)
    /\ mwReg[r].done \/ mwReg[r].mem \in {"unused", "freed"} => MwQuiet(r)

\* No two slots have the same registration, or the same service.
MwApart == \A s, t \in MwUsed : s # t =>
    mwSlot[s] # mwSlot[t] /\ mwReg[mwSlot[s]].type # mwReg[mwSlot[t]].type

\* A registration that may be in a slot: Windows has it, by its own request.
MwSettled(r) ==
    mwReg[r].mem = "held" /\ mwReg[r].req = r /\ mwReg[r].type \in MwTypes /\ MwQuiet(r)
MwNowhere(r) == \A s \in MwSlots : mwSlot[s] # r

\* The last n steps of advertise(), which puts r at s, where q was.
MwAdvSteps(owed, n, q, r, s) ==
    /\ owed \in Seq(MwItems) /\ Len(owed) = n
    /\ owed[n] = <<"place", r, s>>
    /\ n >= 2 => owed[n - 1] = <<"published", r, "advertise">>
    /\ n >= 3 => owed[n - 2] = <<"publish", r, "advertise">>
    /\ n >= 4 => owed[n - 3] = <<"withdrawn", q>>
    /\ n = 5 => owed[1] = <<"withdraw", q>>
MwAdvertises(n, q, r, s) ==
    /\ MwAdvSteps(mwTodo, n, q, r, s)
    /\ n >= 4 => MwNowhere(q) /\ q # r
    /\ n = 5 => MwSettled(q)
    /\ \A t \in MwUsed : MwSettled(mwSlot[t]) /\ mwReg[mwSlot[t]].type # mwReg[r].type
    /\ mwSlot[s] = MwNone /\ MwNowhere(r)
    /\ mwReg[r].mem = "held" /\ mwReg[r].type \in MwTypes
    /\ n <= 2 => mwReg[r].req = r
    /\ n # 2 => MwQuiet(r)

\* What is left of a name change: m steps for slot s, whose r is withdrawn and
\* whose copy f is published, and every slot after s.
MwRenSteps(owed, s, m, r, f) ==
    /\ owed \in Seq(MwItems) /\ Len(owed) = m + (Cardinality(MwSlots) - s)
    /\ \A i \in 1 .. Len(owed) : i > m => owed[i] = <<"renew", (s + i) - m>>
    /\ m >= 1 => owed[m] = <<"published", f, "rename">>
    /\ m >= 2 => owed[m - 1] = <<"publish", f, "rename">>
    /\ m >= 3 => owed[m - 2] = <<"place", f, s>>
    /\ m >= 4 => owed[m - 3] = <<"withdrawn", r>>
    /\ m = 5 => owed[1] = <<"withdraw", r>>
MwRenews(s, m, r, f) ==
    /\ MwRenSteps(mwTodo, s, m, r, f)
    /\ \A t \in MwUsed : m = 0 \/ t # s => MwSettled(mwSlot[t])
    /\ m >= 1 => s \in MwUsed /\ r \in MwRegs /\ f \in MwRegs
                 /\ mwReg[f].mem = "held" /\ mwReg[f].type \in MwTypes
    /\ m \in {1, 2} => mwSlot[s] = f
    /\ m = 1 => mwReg[f].req = f
    /\ m >= 2 => MwQuiet(f)
    /\ m >= 3 => MwNowhere(f) /\ mwSlot[s] = r /\ mwReg[r].type = mwReg[f].type
    /\ m = 5 => MwSettled(r)

\* What is left of deinit(): m steps for the r that was in slot s, and every
\* slot after s.
MwEmpSteps(owed, s, m, r) ==
    /\ owed \in Seq(MwItems) /\ Len(owed) = m + (Cardinality(MwSlots) - s)
    /\ \A i \in 1 .. Len(owed) : i > m => owed[i] = <<"drop", (s + i) - m>>
    /\ m >= 1 => owed[m] = <<"withdrawn", r>>
    /\ m = 2 => owed[1] = <<"withdraw", r>>
MwEmpties(s, m, r) ==
    /\ MwEmpSteps(mwTodo, s, m, r)
    /\ \A t \in MwUsed : MwSettled(mwSlot[t])
    /\ m >= 1 => r \in MwRegs /\ MwNowhere(r)
    /\ m = 2 => MwSettled(r)

\* Between calls every registration in a slot is settled; in one, all are but
\* those the call is about.
MwRests == mwTodo = <<>> /\ \A t \in MwUsed : MwSettled(mwSlot[t])
MwPlan ==
    \/ MwRests
    \/ \E n \in 1 .. 5, q, r \in MwRegs, s \in MwSlots : MwAdvertises(n, q, r, s)
    \/ \E s \in 0 .. Cardinality(MwSlots), m \in 0 .. 5, r, f \in MwRegs \cup {MwNone} :
         MwRenews(s, m, r, f)
    \/ \E s \in 0 .. Cardinality(MwSlots), m \in 0 .. 2, r \in MwRegs \cup {MwNone} :
         MwEmpties(s, m, r)

MwServInv == MwTyped /\ MwOwes /\ MwApart /\ MwPlan

\* A step less of what is left.
LEMMA MwTails ==
    ASSUME NEW t \in Seq(MwItems), t # <<>>
    PROVE  /\ Tail(t) \in Seq(MwItems) /\ Len(t) \in Nat /\ Len(t) >= 1
           /\ Len(Tail(t)) = Len(t) - 1
           /\ \A i \in 1 .. Len(t) - 1 : Tail(t)[i] = t[i + 1]
BY HeadTailProperties, LenProperties, EmptySeq

\* Steps put before what is left.
LEMMA MwFront ==
    ASSUME NEW L \in Seq(MwItems), NEW t \in Seq(MwItems)
    PROVE  /\ L \o t \in Seq(MwItems) /\ Len(L \o t) = Len(L) + Len(t)
           /\ \A i \in 1 .. Len(L) : (L \o t)[i] = L[i]
           /\ \A i \in 1 .. Len(L \o t) : i > Len(L) =>
                  i - Len(L) \in 1 .. Len(t) /\ (L \o t)[i] = t[i - Len(L)]
<1>1. Len(L) \in Nat /\ Len(t) \in Nat
  BY LenProperties
<1>2. /\ L \o t \in Seq(MwItems) /\ Len(L \o t) = Len(L) + Len(t)
      /\ \A i \in 1 .. Len(L) + Len(t) :
           (L \o t)[i] = IF i <= Len(L) THEN L[i] ELSE t[i - Len(L)]
  BY ConcatProperties
<1> QED BY <1>1, <1>2

\* Two items and one, joined.
LEMMA MwTwoAndOne ==
    ASSUME NEW a \in MwItems, NEW b \in MwItems, NEW c \in MwItems
    PROVE  <<a, b>> \o <<c>> = <<a, b, c>>
<1>1. /\ <<a, b>> \in Seq(MwItems) /\ <<c>> \in Seq(MwItems)
      /\ <<a, b, c>> \in Seq(MwItems) /\ Len(<<a, b, c>>) = 3
      /\ Len(<<a, b>>) = 2 /\ Len(<<c>>) = 1
  OBVIOUS
<1>2. /\ <<a, b>> \o <<c>> \in Seq(MwItems) /\ Len(<<a, b>> \o <<c>>) = 3
      /\ \A i \in 1 .. 3 : (<<a, b>> \o <<c>>)[i] =
             IF i <= 2 THEN <<a, b>>[i] ELSE <<c>>[i - 2]
  BY <1>1, ConcatProperties
<1>3. \A i \in 1 .. 3 : (<<a, b>> \o <<c>>)[i] = <<a, b, c>>[i]
  BY <1>2
<1> QED BY <1>1, <1>2, <1>3, SeqEqual

\* Two items and two, joined.
LEMMA MwTwoAndTwo ==
    ASSUME NEW a \in MwItems, NEW b \in MwItems, NEW c \in MwItems,
           NEW d \in MwItems
    PROVE  <<a, b>> \o <<c, d>> = <<a, b, c, d>>
<1>1. /\ <<a, b>> \in Seq(MwItems) /\ <<c, d>> \in Seq(MwItems)
      /\ <<a, b, c, d>> \in Seq(MwItems) /\ Len(<<a, b, c, d>>) = 4
      /\ Len(<<a, b>>) = 2 /\ Len(<<c, d>>) = 2
  OBVIOUS
<1>2. /\ <<a, b>> \o <<c, d>> \in Seq(MwItems) /\ Len(<<a, b>> \o <<c, d>>) = 4
      /\ \A i \in 1 .. 4 : (<<a, b>> \o <<c, d>>)[i] =
             IF i <= 2 THEN <<a, b>>[i] ELSE <<c, d>>[i - 2]
  BY <1>1, ConcatProperties
<1>3. \A i \in 1 .. 4 : (<<a, b>> \o <<c, d>>)[i] = <<a, b, c, d>>[i]
  BY <1>2
<1> QED BY <1>1, <1>2, <1>3, SeqEqual

\* Three items and two, joined.
LEMMA MwThreeAndTwo ==
    ASSUME NEW a \in MwItems, NEW b \in MwItems, NEW c \in MwItems,
           NEW d \in MwItems, NEW e \in MwItems
    PROVE  <<a, b, c>> \o <<d, e>> = <<a, b, c, d, e>>
<1>1. /\ <<a, b, c>> \in Seq(MwItems) /\ <<d, e>> \in Seq(MwItems)
      /\ <<a, b, c, d, e>> \in Seq(MwItems) /\ Len(<<a, b, c, d, e>>) = 5
      /\ Len(<<a, b, c>>) = 3 /\ Len(<<d, e>>) = 2
  OBVIOUS
<1>2. /\ <<a, b, c>> \o <<d, e>> \in Seq(MwItems) /\ Len(<<a, b, c>> \o <<d, e>>) = 5
      /\ \A i \in 1 .. 5 : (<<a, b, c>> \o <<d, e>>)[i] =
             IF i <= 3 THEN <<a, b, c>>[i] ELSE <<d, e>>[i - 3]
  BY <1>1, ConcatProperties
<1>3. \A i \in 1 .. 5 : (<<a, b, c>> \o <<d, e>>)[i] = <<a, b, c, d, e>>[i]
  BY <1>2
<1> QED BY <1>1, <1>2, <1>3, SeqEqual

\* Four items and one, joined.
LEMMA MwFourAndOne ==
    ASSUME NEW a \in MwItems, NEW b \in MwItems, NEW c \in MwItems,
           NEW d \in MwItems, NEW e \in MwItems
    PROVE  <<a, b, c, d>> \o <<e>> = <<a, b, c, d, e>>
<1>1. /\ <<a, b, c, d>> \in Seq(MwItems) /\ <<e>> \in Seq(MwItems)
      /\ <<a, b, c, d, e>> \in Seq(MwItems) /\ Len(<<a, b, c, d, e>>) = 5
      /\ Len(<<a, b, c, d>>) = 4 /\ Len(<<e>>) = 1
  OBVIOUS
<1>2. /\ <<a, b, c, d>> \o <<e>> \in Seq(MwItems) /\ Len(<<a, b, c, d>> \o <<e>>) = 5
      /\ \A i \in 1 .. 5 : (<<a, b, c, d>> \o <<e>>)[i] =
             IF i <= 4 THEN <<a, b, c, d>>[i] ELSE <<e>>[i - 4]
  BY <1>1, ConcatProperties
<1>3. \A i \in 1 .. 5 : (<<a, b, c, d>> \o <<e>>)[i] = <<a, b, c, d, e>>[i]
  BY <1>2
<1> QED BY <1>1, <1>2, <1>3, SeqEqual

\* What the calls have to do, written out.
LEMMA MwJoined ==
    ASSUME NEW q \in MwRegs, NEW r \in MwRegs, NEW s \in MwSlots
    PROVE  /\ MwWithdraw(q) \o <<<<"place", r, s>>>> \o MwPublish("rename", r)
                = <<<<"withdraw", q>>, <<"withdrawn", q>>, <<"place", r, s>>,
                    <<"publish", r, "rename">>, <<"published", r, "rename">>>>
           /\ MwWithdraw(q) \o MwPublish("advertise", r) \o <<<<"place", r, s>>>>
                = <<<<"withdraw", q>>, <<"withdrawn", q>>, <<"publish", r, "advertise">>,
                    <<"published", r, "advertise">>, <<"place", r, s>>>>
           /\ MwPublish("advertise", r) \o <<<<"place", r, s>>>>
                = <<<<"publish", r, "advertise">>, <<"published", r, "advertise">>,
                    <<"place", r, s>>>>
<1>1. PICK w \in MwItems, x \in MwItems, p \in MwItems :
         w = <<"withdraw", q>> /\ x = <<"withdrawn", q>> /\ p = <<"place", r, s>>
  BY DEF MwItems
<1>2. MwWithdraw(q) = <<w, x>> /\ <<<<"place", r, s>>>> = <<p>>
  BY <1>1 DEF MwWithdraw
<1>3. ASSUME NEW call \in {"advertise", "rename"}
      PROVE  \E a \in MwItems, b \in MwItems : /\ a = <<"publish", r, call>> /\ b = <<"published", r, call>>
                                             /\ MwPublish(call, r) = <<a, b>>
  BY DEF MwItems, MwPublish
<1>4. PICK a \in MwItems, b \in MwItems :
         a = <<"publish", r, "rename">> /\ b = <<"published", r, "rename">>
         /\ MwPublish("rename", r) = <<a, b>>
  BY <1>3
<1>5. PICK c \in MwItems, d \in MwItems :
         c = <<"publish", r, "advertise">> /\ d = <<"published", r, "advertise">>
         /\ MwPublish("advertise", r) = <<c, d>>
  BY <1>3
<1>6. <<w, x>> \o <<p>> \o <<a, b>> = <<w, x, p, a, b>>
  <2>1. <<w, x>> \o <<p>> = <<w, x, p>>
    BY MwTwoAndOne
  <2>2. <<w, x, p>> \o <<a, b>> = <<w, x, p, a, b>>
    BY MwThreeAndTwo
  <2> QED BY <2>1, <2>2
<1>7. <<w, x>> \o <<c, d>> \o <<p>> = <<w, x, c, d, p>>
  <2>1. <<w, x>> \o <<c, d>> = <<w, x, c, d>>
    BY MwTwoAndTwo
  <2>2. <<w, x, c, d>> \o <<p>> = <<w, x, c, d, p>>
    BY MwFourAndOne
  <2> QED BY <2>1, <2>2
<1>8. <<c, d>> \o <<p>> = <<c, d, p>>
  BY MwTwoAndOne
<1> QED BY <1>1, <1>2, <1>4, <1>5, <1>6, <1>7, <1>8

\* A step of a publication done, the rest of it is left.
LEMMA MwAdvTail ==
    ASSUME NEW t, NEW n \in 2 .. 5, NEW q, NEW r, NEW s, MwAdvSteps(t, n, q, r, s)
    PROVE  MwAdvSteps(Tail(t), n - 1, q, r, s)
<1>1. t \in Seq(MwItems) /\ t # <<>> /\ Len(t) = n
  BY DEF MwAdvSteps
<1>2. PICK u : u = Tail(t)
  OBVIOUS
<1>3. u \in Seq(MwItems) /\ Len(u) = n - 1 /\ \A i \in 1 .. n - 1 : u[i] = t[i + 1]
  BY <1>1, <1>2, MwTails
<1>4. /\ u[n - 1] = t[n]
      /\ n >= 3 => u[n - 2] = t[n - 1]
      /\ n >= 4 => u[n - 3] = t[n - 2]
      /\ n = 5 => u[1] = t[2]
  BY <1>3
<1>5. /\ t[n] = <<"place", r, s>>
      /\ t[n - 1] = <<"published", r, "advertise">>
      /\ n >= 3 => t[n - 2] = <<"publish", r, "advertise">>
      /\ n = 5 => t[2] = <<"withdrawn", q>>
  BY DEF MwAdvSteps
<1>6. MwAdvSteps(u, n - 1, q, r, s)
  BY <1>3, <1>4, <1>5 DEF MwAdvSteps
<1> QED BY <1>2, <1>6

\* The same of a change of name, within one service.
LEMMA MwRenTail ==
    ASSUME NEW t, NEW s \in 0 .. Cardinality(MwSlots), NEW m \in 1 .. 5, NEW r, NEW f,
           MwRenSteps(t, s, m, r, f)
    PROVE  MwRenSteps(Tail(t), s, m - 1, r, f)
<1>0. Cardinality(MwSlots) \in Nat
  BY MwAssumption
<1>1. t \in Seq(MwItems) /\ t # <<>> /\ Len(t) = m + (Cardinality(MwSlots) - s)
  BY <1>0 DEF MwRenSteps
<1>2. /\ Tail(t) \in Seq(MwItems) /\ Len(Tail(t)) = (m - 1) + (Cardinality(MwSlots) - s)
      /\ \A i \in 1 .. Len(Tail(t)) : Tail(t)[i] = t[i + 1] /\ i + 1 \in 1 .. Len(t)
  BY <1>0, <1>1, MwTails
<1> QED BY <1>0, <1>1, <1>2, SMTT(30) DEF MwRenSteps

\* The same of an end, within one slot.
LEMMA MwEmpTail ==
    ASSUME NEW t, NEW s \in 0 .. Cardinality(MwSlots), NEW m \in 1 .. 2, NEW r,
           MwEmpSteps(t, s, m, r)
    PROVE  MwEmpSteps(Tail(t), s, m - 1, r)
<1>0. Cardinality(MwSlots) \in Nat
  BY MwAssumption
<1>1. t \in Seq(MwItems) /\ t # <<>> /\ Len(t) = m + (Cardinality(MwSlots) - s)
  BY <1>0 DEF MwEmpSteps
<1>2. /\ Tail(t) \in Seq(MwItems) /\ Len(Tail(t)) = (m - 1) + (Cardinality(MwSlots) - s)
      /\ \A i \in 1 .. Len(Tail(t)) : Tail(t)[i] = t[i + 1] /\ i + 1 \in 1 .. Len(t)
  BY <1>0, <1>1, MwTails
<1> QED BY <1>0, <1>1, <1>2 DEF MwEmpSteps

\* The next slot's turn.
LEMMA MwRenNext ==
    ASSUME NEW t, NEW s \in 0 .. Cardinality(MwSlots), NEW r, NEW f,
           MwRenSteps(t, s, 0, r, f), t # <<>>
    PROVE  /\ s + 1 \in MwSlots /\ t[1] = <<"renew", s + 1>>
           /\ \A x, y : MwRenSteps(Tail(t), s + 1, 0, x, y)
<1>0. Cardinality(MwSlots) \in Nat /\ MwSlots = 1 .. Cardinality(MwSlots)
  BY MwAssumption
<1>1. t \in Seq(MwItems) /\ Len(t) = Cardinality(MwSlots) - s
  BY <1>0 DEF MwRenSteps
<1>2. /\ Tail(t) \in Seq(MwItems) /\ Len(t) >= 1
      /\ Len(Tail(t)) = Cardinality(MwSlots) - (s + 1)
      /\ \A i \in 1 .. Len(Tail(t)) : Tail(t)[i] = t[i + 1] /\ i + 1 \in 1 .. Len(t)
  BY <1>0, <1>1, MwTails
<1>3. s + 1 \in MwSlots /\ t[1] = <<"renew", s + 1>>
  BY <1>0, <1>1, <1>2 DEF MwRenSteps
<1> QED BY <1>0, <1>1, <1>2, <1>3 DEF MwRenSteps

\* One slot emptied, the next one is.
LEMMA MwEmpNext ==
    ASSUME NEW t, NEW s \in 0 .. Cardinality(MwSlots), NEW r,
           MwEmpSteps(t, s, 0, r), t # <<>>
    PROVE  /\ s + 1 \in MwSlots /\ t[1] = <<"drop", s + 1>>
           /\ \A x : MwEmpSteps(Tail(t), s + 1, 0, x)
<1>0. Cardinality(MwSlots) \in Nat /\ MwSlots = 1 .. Cardinality(MwSlots)
  BY MwAssumption
<1>1. t \in Seq(MwItems) /\ Len(t) = Cardinality(MwSlots) - s
  BY <1>0 DEF MwEmpSteps
<1>2. /\ Tail(t) \in Seq(MwItems) /\ Len(t) >= 1
      /\ Len(Tail(t)) = Cardinality(MwSlots) - (s + 1)
      /\ \A i \in 1 .. Len(Tail(t)) : Tail(t)[i] = t[i + 1] /\ i + 1 \in 1 .. Len(t)
  BY <1>0, <1>1, MwTails
<1>3. s + 1 \in MwSlots /\ t[1] = <<"drop", s + 1>>
  BY <1>0, <1>1, <1>2 DEF MwEmpSteps
<1> QED BY <1>0, <1>1, <1>2, <1>3 DEF MwEmpSteps

\* What each word of a plan says of where the call is.
LEMMA MwAdvWord ==
    ASSUME NEW n \in 1 .. 5, NEW q, NEW r, NEW s, MwAdvSteps(mwTodo, n, q, r, s)
    PROVE  /\ mwTodo # <<>>
           /\ n = 1 => mwTodo[1] = <<"place", r, s>>
           /\ n = 2 => mwTodo[1] = <<"published", r, "advertise">>
           /\ n = 3 => mwTodo[1] = <<"publish", r, "advertise">>
           /\ n = 4 => mwTodo[1] = <<"withdrawn", q>>
           /\ n = 5 => mwTodo[1] = <<"withdraw", q>>
BY DEF MwAdvSteps

\* Which step of a change of name is next.
LEMMA MwRenWord ==
    ASSUME NEW s \in 0 .. Cardinality(MwSlots), NEW m \in 0 .. 5, NEW r, NEW f,
           MwRenSteps(mwTodo, s, m, r, f), mwTodo # <<>>
    PROVE  /\ m = 0 => mwTodo[1] = <<"renew", s + 1>>
           /\ m = 1 => mwTodo[1] = <<"published", f, "rename">>
           /\ m = 2 => mwTodo[1] = <<"publish", f, "rename">>
           /\ m = 3 => mwTodo[1] = <<"place", f, s>>
           /\ m = 4 => mwTodo[1] = <<"withdrawn", r>>
           /\ m = 5 => mwTodo[1] = <<"withdraw", r>>
<1>1. m = 0 => mwTodo[1] = <<"renew", s + 1>>
  BY MwRenNext
<1> QED BY <1>1 DEF MwRenSteps

\* Which step of an end is next.
LEMMA MwEmpWord ==
    ASSUME NEW s \in 0 .. Cardinality(MwSlots), NEW m \in 0 .. 2, NEW r,
           MwEmpSteps(mwTodo, s, m, r), mwTodo # <<>>
    PROVE  /\ m = 0 => mwTodo[1] = <<"drop", s + 1>>
           /\ m = 1 => mwTodo[1] = <<"withdrawn", r>>
           /\ m = 2 => mwTodo[1] = <<"withdraw", r>>
<1>1. ASSUME m = 0 PROVE mwTodo[1] = <<"drop", s + 1>>
  <2>1. MwEmpSteps(mwTodo, s, 0, r)
    BY <1>1
  <2> QED BY <2>1, MwEmpNext
<1> QED BY <1>1 DEF MwEmpSteps

\* Between calls the plan is to rest.
LEMMA MwAtRest ==
    ASSUME MwServInv, mwTodo = <<>>
    PROVE  MwRests
<1>1. ASSUME NEW n \in 1 .. 5, NEW q \in MwRegs, NEW r \in MwRegs, NEW s \in MwSlots,
             MwAdvertises(n, q, r, s)
      PROVE  FALSE
  BY <1>1, MwAdvWord DEF MwAdvertises
<1>2. ASSUME NEW s \in 0 .. Cardinality(MwSlots), NEW m \in 0 .. 5,
             NEW r \in MwRegs \cup {MwNone}, NEW f \in MwRegs \cup {MwNone}, MwRenews(s, m, r, f)
      PROVE  MwRests
  <2>1. m = 0
    BY <1>2, MwAssumption DEF MwRenews, MwRenSteps
  <2> QED BY <1>2, <2>1 DEF MwRenews, MwRests
<1>3. ASSUME NEW s \in 0 .. Cardinality(MwSlots), NEW m \in 0 .. 2,
             NEW r \in MwRegs \cup {MwNone}, MwEmpties(s, m, r)
      PROVE  MwRests
  BY <1>3 DEF MwEmpties, MwRests
<1> QED BY <1>1, <1>2, <1>3 DEF MwServInv, MwPlan

\* register_done(): what Windows owed a call to is settled nowhere, and no plan
\* asks more of it than its memory, its service and its request.
LEMMA MwDoneStays ==
    ASSUME MwServInv, NEW x \in MwRegs, NEW c \in MwCallbacks, MwRegisterDone(x, c)
    PROVE  MwServInv'
<1>1. PICK failed \in BOOLEAN : mwReg' = [mwReg EXCEPT ![x].done = TRUE, ![x].failed = failed]
  BY DEF MwRegisterDone
<1>2. /\ mwOwed[x][c] > 0 /\ mwOwed' = [mwOwed EXCEPT ![x][c] = @ - 1]
      /\ mwSlot' = mwSlot /\ mwTodo' = mwTodo
  BY DEF MwRegisterDone
<1>3. /\ mwReg \in [MwRegs -> MwRegType] /\ mwOwed \in [MwRegs -> [MwCallbacks -> Nat]]
      /\ mwSlot \in [MwSlots -> MwRegs \cup {MwNone}]
  BY DEF MwServInv, MwTyped
<1>4. MwTyped'
  <2>1. mwReg' \in [MwRegs -> MwRegType]
    BY <1>1, <1>3, ZenonT(60) DEF MwRegType
  <2>2. mwOwed[x] \in [MwCallbacks -> Nat] /\ mwOwed[x][c] - 1 \in Nat
    BY <1>2, <1>3
  <2>3. mwOwed' \in [MwRegs -> [MwCallbacks -> Nat]]
    BY <1>2, <1>3, <2>2
  <2> QED BY <1>2, <2>1, <2>3 DEF MwServInv, MwTyped
<1>5. /\ \A y \in MwRegs : /\ mwReg'[y].mem = mwReg[y].mem /\ mwReg'[y].type = mwReg[y].type
                           /\ mwReg'[y].req = mwReg[y].req
      /\ \A y \in MwRegs : y # x => mwReg'[y] = mwReg[y] /\ mwOwed'[y] = mwOwed[y]
  BY <1>1, <1>2, <1>3 DEF MwRegType
<1>6. \A d \in MwCallbacks : mwOwed'[x][d] = 0
  BY <1>2, <1>3 DEF MwServInv, MwOwes
<1>7. ~MwQuiet(x)
  BY <1>2 DEF MwQuiet
<1>8. MwOwes'
  BY <1>5, <1>6 DEF MwServInv, MwOwes, MwQuiet
<1>9. MwUsed' = MwUsed /\ \A t \in MwUsed : t \in MwSlots /\ mwSlot[t] \in MwRegs
  BY <1>2, <1>3 DEF MwUsed
<1>10. MwApart'
  BY <1>2, <1>5, <1>9 DEF MwServInv, MwApart
<1>11. /\ \A y \in MwRegs : MwQuiet(y) => MwQuiet(y)'
       /\ \A y \in MwRegs : MwSettled(y) => MwSettled(y)'
       /\ \A y : MwNowhere(y)' = MwNowhere(y)
  BY <1>2, <1>5, <1>7 DEF MwQuiet, MwSettled, MwNowhere
<1>12. MwPlan'
  <2>1. CASE MwRests
    BY <1>2, <1>9, <1>11, <2>1 DEF MwRests, MwPlan
  <2>2. ASSUME NEW n \in 1 .. 5, NEW q \in MwRegs, NEW r \in MwRegs, NEW s \in MwSlots,
               MwAdvertises(n, q, r, s)
        PROVE  MwAdvertises(n, q, r, s)'
    BY <1>2, <1>5, <1>9, <1>11, <2>2 DEF MwAdvertises
  <2>3. ASSUME NEW s \in 0 .. Cardinality(MwSlots), NEW m \in 0 .. 5,
               NEW r \in MwRegs \cup {MwNone}, NEW f \in MwRegs \cup {MwNone}, MwRenews(s, m, r, f)
        PROVE  MwRenews(s, m, r, f)'
    BY <1>2, <1>5, <1>9, <1>11, <2>3 DEF MwRenews
  <2>4. ASSUME NEW s \in 0 .. Cardinality(MwSlots), NEW m \in 0 .. 2,
               NEW r \in MwRegs \cup {MwNone}, MwEmpties(s, m, r)
        PROVE  MwEmpties(s, m, r)'
    BY <1>2, <1>9, <1>11, <2>4 DEF MwEmpties
  <2> QED BY <2>1, <2>2, <2>3, <2>4 DEF MwServInv, MwPlan
<1> QED BY <1>4, <1>8, <1>10, <1>12 DEF MwServInv

\* A new Server has no service; a name change and deinit() go over the slots.
LEMMA MwBegins ==
    ASSUME MwServInv, MwConstruct \/ MwRename \/ MwDeinit
    PROVE  MwServInv'
<1>0. Cardinality(MwSlots) \in Nat /\ MwSlots = 1 .. Cardinality(MwSlots)
  BY MwAssumption
<1>1. mwTodo = <<>> /\ mwReg' = mwReg /\ mwOwed' = mwOwed
  BY DEF MwConstruct, MwRename, MwDeinit, MwCall
<1>2. MwRests
  BY <1>1, MwAtRest
<1>3. CASE MwConstruct
  <2>1. mwSlot' = [s \in MwSlots |-> MwNone] /\ mwTodo' = <<>>
    BY <1>1, <1>3 DEF MwConstruct
  <2>2. MwUsed' = {}
    BY <2>1 DEF MwUsed
  <2>3. MwTyped' /\ MwOwes'
    BY <1>1, <2>1 DEF MwServInv, MwTyped, MwOwes, MwQuiet
  <2> QED BY <2>1, <2>2, <2>3 DEF MwServInv, MwApart, MwPlan, MwRests
<1>4. ASSUME NEW word \in {"renew", "drop"}, mwTodo' = [s \in MwSlots |-> <<word, s>>],
             mwSlot' = mwSlot
      PROVE  MwTyped' /\ Len(mwTodo') = Cardinality(MwSlots)
  <2>1. mwTodo' \in Seq(MwItems) /\ Len(mwTodo') = Cardinality(MwSlots)
    BY <1>0, <1>4 DEF MwItems
  <2> QED BY <1>1, <1>4, <2>1 DEF MwServInv, MwTyped
<1>5. CASE MwRename
  <2>1. mwTodo' = [s \in MwSlots |-> <<"renew", s>>] /\ mwSlot' = mwSlot
    BY <1>5 DEF MwRename
  <2>2. MwTyped' /\ Len(mwTodo') = Cardinality(MwSlots)
    BY <1>4, <2>1
  <2>3. MwUsed' = MwUsed /\ MwOwes' /\ MwApart'
    BY <1>1, <2>1 DEF MwServInv, MwOwes, MwQuiet, MwApart, MwUsed
  <2>4. \A t \in MwUsed' : MwSettled(mwSlot[t])'
    BY <1>1, <1>2, <2>1, <2>3 DEF MwRests, MwSettled, MwQuiet
  <2>5. MwRenSteps(mwTodo', 0, 0, MwNone, MwNone)
    BY <1>0, <2>1, <2>2 DEF MwRenSteps, MwTyped
  <2>6. MwRenews(0, 0, MwNone, MwNone)'
    BY <2>4, <2>5 DEF MwRenews
  <2> QED BY <1>0, <2>2, <2>3, <2>6 DEF MwServInv, MwPlan
<1>6. CASE MwDeinit
  <2>1. mwTodo' = [s \in MwSlots |-> <<"drop", s>>] /\ mwSlot' = mwSlot
    BY <1>6 DEF MwDeinit
  <2>2. MwTyped' /\ Len(mwTodo') = Cardinality(MwSlots)
    BY <1>4, <2>1
  <2>3. MwUsed' = MwUsed /\ MwOwes' /\ MwApart'
    BY <1>1, <2>1 DEF MwServInv, MwOwes, MwQuiet, MwApart, MwUsed
  <2>4. \A t \in MwUsed' : MwSettled(mwSlot[t])'
    BY <1>1, <1>2, <2>1, <2>3 DEF MwRests, MwSettled, MwQuiet
  <2>5. MwEmpSteps(mwTodo', 0, 0, MwNone)
    BY <1>0, <2>1, <2>2 DEF MwEmpSteps, MwTyped
  <2>6. MwEmpties(0, 0, MwNone)'
    BY <2>4, <2>5 DEF MwEmpties
  <2> QED BY <1>0, <2>2, <2>3, <2>6 DEF MwServInv, MwPlan
<1> QED BY <1>3, <1>5, <1>6

\* withdraw(), when advertise(), a name change or deinit() comes to it: what it
\* asks Windows to take back is settled.
LEMMA MwAsks ==
    ASSUME MwServInv, MwAsksBack
    PROVE  MwServInv'
<1>1. /\ mwTodo # <<>> /\ mwTodo[1][1] = "withdraw" /\ mwTodo' = Tail(mwTodo)
      /\ mwSlot' = mwSlot
  BY DEF MwAsksBack
<1>2. /\ mwReg \in [MwRegs -> MwRegType] /\ mwOwed \in [MwRegs -> [MwCallbacks -> Nat]]
      /\ mwSlot \in [MwSlots -> MwRegs \cup {MwNone}] /\ mwTodo \in Seq(MwItems)
  BY DEF MwServInv, MwTyped
<1>3. MwUsed' = MwUsed /\ \A t \in MwUsed : t \in MwSlots /\ mwSlot[t] \in MwRegs
  BY <1>1, <1>2 DEF MwUsed
<1>4. ASSUME NEW x \in MwRegs, mwTodo[1] = <<"withdraw", x>>, MwSettled(x)
      PROVE  /\ MwTyped' /\ MwOwes' /\ MwApart'
             /\ \A y \in MwRegs : mwReg'[y].mem = mwReg[y].mem /\ mwReg'[y].type = mwReg[y].type
                                  /\ mwReg'[y].req = mwReg[y].req
             /\ \A y \in MwRegs : y # x => /\ MwQuiet(y) => MwQuiet(y)'
                                           /\ MwSettled(y) => MwSettled(y)'
             /\ \A y : MwNowhere(y)' = MwNowhere(y)
    <2>1. mwReg' = [mwReg EXCEPT ![x].done = FALSE]
      BY <1>4 DEF MwAsksBack
    <2>2. \/ mwOwed' = [mwOwed EXCEPT ![x]["deregister"] = @ + 1]
          \/ mwOwed' = mwOwed
      BY <1>4 DEF MwAsksBack, MwSettled
    <2>3. \A c \in MwCallbacks : mwOwed[x][c] = 0
      BY <1>4 DEF MwSettled, MwQuiet
    <2>4. /\ mwReg' \in [MwRegs -> MwRegType]
          /\ \A y \in MwRegs : /\ mwReg'[y].mem = mwReg[y].mem /\ mwReg'[y].type = mwReg[y].type
                               /\ mwReg'[y].req = mwReg[y].req
          /\ mwReg'[x].done = FALSE
      BY <1>2, <2>1 DEF MwRegType
    <2>5. \A y \in MwRegs : y # x => mwReg'[y] = mwReg[y] /\ mwOwed'[y] = mwOwed[y]
      BY <1>2, <2>1, <2>2
    <2>6. /\ mwOwed' \in [MwRegs -> [MwCallbacks -> Nat]]
          /\ mwOwed'[x]["register"] = 0 /\ mwOwed'[x]["deregister"] \in {0, 1}
      <3>1. mwOwed[x] \in [MwCallbacks -> Nat] /\ "register" \in MwCallbacks
            /\ "deregister" \in MwCallbacks
        BY <1>2 DEF MwCallbacks
      <3>2. mwOwed[x]["register"] = 0 /\ mwOwed[x]["deregister"] = 0
        BY <2>3, <3>1
      <3>3. CASE mwOwed' = [mwOwed EXCEPT ![x]["deregister"] = @ + 1]
        <4>1. mwOwed'[x] = [mwOwed[x] EXCEPT !["deregister"] = 1]
          BY <1>2, <3>2, <3>3
        <4>2. mwOwed' = [mwOwed EXCEPT ![x] = mwOwed'[x]] /\ mwOwed'[x] \in [MwCallbacks -> Nat]
          BY <1>2, <3>1, <3>3, <4>1
        <4> QED BY <1>2, <3>1, <3>2, <4>1, <4>2
      <3>4. CASE mwOwed' = mwOwed
        BY <1>2, <3>2, <3>4
      <3> QED BY <2>2, <3>3, <3>4
    <2>7. Tail(mwTodo) \in Seq(MwItems)
      BY <1>1, <1>2, MwTails
    <2>8. MwTyped'
      BY <1>1, <1>2, <2>4, <2>6, <2>7 DEF MwTyped
    <2>9. MwOwes'
      <3>1. mwReg[x].mem = "held"
        BY <1>4 DEF MwSettled
      <3>2. ASSUME NEW y \in MwRegs, y # x
            PROVE  /\ \A c, d \in MwCallbacks : mwOwed'[y][c] > 0 =>
                        mwOwed'[y][c] = 1 /\ (c # d => mwOwed'[y][d] = 0)
                   /\ mwReg'[y].done \/ mwReg'[y].mem \in {"unused", "freed"} => MwQuiet(y)'
        BY <2>5, <3>2 DEF MwServInv, MwOwes, MwQuiet
      <3>3. \A c, d \in MwCallbacks : mwOwed'[x][c] > 0 =>
                mwOwed'[x][c] = 1 /\ (c # d => mwOwed'[x][d] = 0)
        BY <2>6 DEF MwCallbacks
      <3>4. ~mwReg'[x].done /\ mwReg'[x].mem \notin {"unused", "freed"}
        BY <2>4, <3>1
      <3> QED BY <3>2, <3>3, <3>4 DEF MwOwes
    <2>10. MwApart'
      BY <1>1, <1>3, <2>4 DEF MwServInv, MwApart
    <2>11. /\ \A y \in MwRegs : y # x => /\ MwQuiet(y) => MwQuiet(y)'
                                         /\ MwSettled(y) => MwSettled(y)'
           /\ \A y : MwNowhere(y)' = MwNowhere(y)
      BY <1>1, <2>5 DEF MwQuiet, MwSettled, MwNowhere
    <2> QED BY <2>4, <2>8, <2>9, <2>10, <2>11
<1>5. ASSUME NEW n \in 1 .. 5, NEW q \in MwRegs, NEW r \in MwRegs, NEW s \in MwSlots,
             MwAdvertises(n, q, r, s)
      PROVE  MwServInv'
  <2>1. n = 5 /\ mwTodo[1] = <<"withdraw", q>>
    BY <1>1, <1>5, MwAdvWord DEF MwAdvertises
  <2>2. MwSettled(q) /\ MwNowhere(q) /\ q # r
    BY <1>5, <2>1 DEF MwAdvertises
  <2>3. MwAdvSteps(mwTodo', 4, q, r, s)
    BY <1>1, <1>5, <2>1, MwAdvTail DEF MwAdvertises
  <2>4. MwAdvertises(4, q, r, s)'
    BY <1>1, <1>3, <1>4, <1>5, <2>1, <2>2, <2>3 DEF MwAdvertises, MwNowhere
  <2>5. MwTyped' /\ MwOwes' /\ MwApart'
    BY <1>4, <2>1, <2>2
  <2> QED BY <2>4, <2>5 DEF MwServInv, MwPlan
<1>6. ASSUME NEW s \in 0 .. Cardinality(MwSlots), NEW m \in 0 .. 5,
             NEW r \in MwRegs \cup {MwNone}, NEW f \in MwRegs \cup {MwNone}, MwRenews(s, m, r, f)
      PROVE  MwServInv'
  <2>1. m = 5 /\ mwTodo[1] = <<"withdraw", r>>
    BY <1>1, <1>6, MwRenWord DEF MwRenews
  <2>2. /\ MwSettled(r) /\ r \in MwRegs /\ f \in MwRegs /\ s \in MwUsed /\ mwSlot[s] = r
        /\ MwNowhere(f) /\ mwReg[r].type = mwReg[f].type /\ MwQuiet(f)
        /\ mwReg[f].mem = "held" /\ mwReg[f].type \in MwTypes
    BY <1>6, <2>1 DEF MwRenews
  <2>3. f # r
    BY <2>2 DEF MwNowhere, MwUsed
  <2>4. \A t \in MwUsed : t # s => mwSlot[t] # r /\ MwSettled(mwSlot[t])
    BY <1>6, <2>1, <2>2 DEF MwRenews, MwServInv, MwApart
  <2>5. MwRenSteps(mwTodo', s, 4, r, f)
    BY <1>1, <1>6, <2>1, MwRenTail DEF MwRenews
  <2>6. MwRenews(s, 4, r, f)'
    BY <1>1, <1>3, <1>4, <2>1, <2>2, <2>3, <2>4, <2>5 DEF MwRenews
  <2>7. MwTyped' /\ MwOwes' /\ MwApart'
    BY <1>4, <2>1, <2>2
  <2> QED BY <2>6, <2>7 DEF MwServInv, MwPlan
<1>7. ASSUME NEW s \in 0 .. Cardinality(MwSlots), NEW m \in 0 .. 2,
             NEW r \in MwRegs \cup {MwNone}, MwEmpties(s, m, r)
      PROVE  MwServInv'
  <2>1. m = 2 /\ mwTodo[1] = <<"withdraw", r>>
    BY <1>1, <1>7, MwEmpWord DEF MwEmpties
  <2>2. MwSettled(r) /\ r \in MwRegs /\ MwNowhere(r)
    BY <1>7, <2>1 DEF MwEmpties
  <2>3. MwEmpSteps(mwTodo', s, 1, r)
    BY <1>1, <1>7, <2>1, MwEmpTail DEF MwEmpties
  <2>4. MwEmpties(s, 1, r)'
    BY <1>1, <1>3, <1>4, <1>7, <2>1, <2>2, <2>3 DEF MwEmpties, MwNowhere
  <2>5. MwTyped' /\ MwOwes' /\ MwApart'
    BY <1>4, <2>1, <2>2
  <2> QED BY <2>4, <2>5 DEF MwServInv, MwPlan
<1> QED BY <1>1, <1>5, <1>6, <1>7 DEF MwServInv, MwPlan, MwRests

\* After the wait: what is let go of is in no slot, or in the one a name change
\* is about to fill.
LEMMA MwLetsGo ==
    ASSUME MwServInv, MwWithdrawn
    PROVE  MwServInv'
<1>1. /\ mwTodo # <<>> /\ mwTodo[1][1] = "withdrawn" /\ mwTodo' = Tail(mwTodo)
      /\ mwSlot' = mwSlot /\ mwOwed' = mwOwed
      /\ mwReg' = [mwReg EXCEPT ![mwTodo[1][2]].mem =
                      IF mwReg[mwTodo[1][2]].done THEN "freed" ELSE "left"]
  BY DEF MwWithdrawn, MwMayFree
<1>2. /\ mwReg \in [MwRegs -> MwRegType] /\ mwOwed \in [MwRegs -> [MwCallbacks -> Nat]]
      /\ mwSlot \in [MwSlots -> MwRegs \cup {MwNone}] /\ mwTodo \in Seq(MwItems)
  BY DEF MwServInv, MwTyped
<1>3. MwUsed' = MwUsed /\ \A t \in MwUsed : t \in MwSlots /\ mwSlot[t] \in MwRegs
  BY <1>1, <1>2 DEF MwUsed
<1>4. ASSUME NEW x \in MwRegs, mwTodo[1] = <<"withdrawn", x>>
      PROVE  /\ MwTyped' /\ MwOwes' /\ MwApart'
             /\ \A y \in MwRegs : mwReg'[y].type = mwReg[y].type
             /\ \A y \in MwRegs : y # x => mwReg'[y] = mwReg[y] /\ (MwSettled(y) => MwSettled(y)')
             /\ \A y \in MwRegs : MwQuiet(y)' = MwQuiet(y)
             /\ \A y : MwNowhere(y)' = MwNowhere(y)
  <2>1. mwReg' = [mwReg EXCEPT ![x].mem = IF mwReg[x].done THEN "freed" ELSE "left"]
    BY <1>1, <1>4
  <2>2. /\ mwReg' \in [MwRegs -> MwRegType]
        /\ \A y \in MwRegs : mwReg'[y].type = mwReg[y].type /\ mwReg'[y].done = mwReg[y].done
        /\ \A y \in MwRegs : y # x => mwReg'[y] = mwReg[y]
        /\ mwReg'[x].mem \in {"unused", "freed"} => mwReg[x].done
    BY <1>2, <2>1, ZenonT(60) DEF MwRegType
  <2>3. MwTyped'
    BY <1>1, <1>2, <2>2, MwTails DEF MwTyped
  <2>4. MwOwes'
    BY <1>1, <2>2 DEF MwServInv, MwOwes, MwQuiet
  <2>5. MwApart'
    BY <1>1, <1>3, <2>2 DEF MwServInv, MwApart
  <2>6. /\ \A y \in MwRegs : y # x => (MwSettled(y) => MwSettled(y)')
        /\ \A y \in MwRegs : MwQuiet(y)' = MwQuiet(y)
        /\ \A y : MwNowhere(y)' = MwNowhere(y)
    BY <1>1, <2>2 DEF MwQuiet, MwSettled, MwNowhere
  <2> QED BY <2>2, <2>3, <2>4, <2>5, <2>6
<1>5. ASSUME NEW n \in 1 .. 5, NEW q \in MwRegs, NEW r \in MwRegs, NEW s \in MwSlots,
             MwAdvertises(n, q, r, s)
      PROVE  MwServInv'
  <2>1. n = 4 /\ mwTodo[1] = <<"withdrawn", q>>
    BY <1>1, <1>5, MwAdvWord DEF MwAdvertises
  <2>2. MwNowhere(q) /\ q # r
    BY <1>5, <2>1 DEF MwAdvertises
  <2>3. MwAdvSteps(mwTodo', 3, q, r, s)
    BY <1>1, <1>5, <2>1, MwAdvTail DEF MwAdvertises
  <2>4. MwAdvertises(3, q, r, s)'
    BY <1>1, <1>3, <1>4, <1>5, <2>1, <2>2, <2>3 DEF MwAdvertises, MwNowhere
  <2>5. MwTyped' /\ MwOwes' /\ MwApart'
    BY <1>4, <2>1
  <2> QED BY <2>4, <2>5 DEF MwServInv, MwPlan
<1>6. ASSUME NEW s \in 0 .. Cardinality(MwSlots), NEW m \in 0 .. 5,
             NEW r \in MwRegs \cup {MwNone}, NEW f \in MwRegs \cup {MwNone}, MwRenews(s, m, r, f)
      PROVE  MwServInv'
  <2>1. m = 4 /\ mwTodo[1] = <<"withdrawn", r>>
    BY <1>1, <1>6, MwRenWord DEF MwRenews
  <2>2. /\ r \in MwRegs /\ f \in MwRegs /\ s \in MwUsed /\ mwSlot[s] = r
        /\ MwNowhere(f) /\ mwReg[r].type = mwReg[f].type /\ MwQuiet(f)
        /\ mwReg[f].mem = "held" /\ mwReg[f].type \in MwTypes
    BY <1>6, <2>1 DEF MwRenews
  <2>3. f # r
    BY <2>2 DEF MwNowhere, MwUsed
  <2>4. \A t \in MwUsed : t # s => mwSlot[t] # r /\ MwSettled(mwSlot[t])
    BY <1>6, <2>1, <2>2 DEF MwRenews, MwServInv, MwApart
  <2>5. MwRenSteps(mwTodo', s, 3, r, f)
    BY <1>1, <1>6, <2>1, MwRenTail DEF MwRenews
  <2>6. MwRenews(s, 3, r, f)'
    BY <1>1, <1>3, <1>4, <2>1, <2>2, <2>3, <2>4, <2>5 DEF MwRenews
  <2>7. MwTyped' /\ MwOwes' /\ MwApart'
    BY <1>4, <2>1, <2>2
  <2> QED BY <2>6, <2>7 DEF MwServInv, MwPlan
<1>7. ASSUME NEW s \in 0 .. Cardinality(MwSlots), NEW m \in 0 .. 2,
             NEW r \in MwRegs \cup {MwNone}, MwEmpties(s, m, r)
      PROVE  MwServInv'
  <2>1. m = 1 /\ mwTodo[1] = <<"withdrawn", r>>
    BY <1>1, <1>7, MwEmpWord DEF MwEmpties
  <2>2. r \in MwRegs /\ MwNowhere(r)
    BY <1>7, <2>1 DEF MwEmpties
  <2>3. MwEmpSteps(mwTodo', s, 0, r)
    BY <1>1, <1>7, <2>1, MwEmpTail DEF MwEmpties
  <2>4. MwEmpties(s, 0, r)'
    BY <1>1, <1>3, <1>4, <1>7, <2>1, <2>2, <2>3 DEF MwEmpties, MwNowhere
  <2>5. MwTyped' /\ MwOwes' /\ MwApart'
    BY <1>4, <2>1, <2>2
  <2> QED BY <2>4, <2>5 DEF MwServInv, MwPlan
<1> QED BY <1>1, <1>5, <1>6, <1>7 DEF MwServInv, MwPlan, MwRests

\* publish(): what it publishes is quiet, and in no slot unless a name change
\* has put it there.
LEMMA MwPublishesStays ==
    ASSUME MwServInv, ~MwRefuses, MwPublishes
    PROVE  MwServInv'
<1>1. mwTodo # <<>> /\ mwTodo[1][1] = "publish" /\ mwSlot' = mwSlot
  BY DEF MwPublishes
<1>2. /\ mwReg \in [MwRegs -> MwRegType] /\ mwOwed \in [MwRegs -> [MwCallbacks -> Nat]]
      /\ mwSlot \in [MwSlots -> MwRegs \cup {MwNone}] /\ mwTodo \in Seq(MwItems)
  BY DEF MwServInv, MwTyped
<1>3. MwUsed' = MwUsed /\ \A t \in MwUsed : t \in MwSlots /\ mwSlot[t] \in MwRegs
  BY <1>1, <1>2 DEF MwUsed
<1>4. ASSUME NEW x \in MwRegs, NEW call \in {"advertise", "rename"},
             mwTodo[1] = <<"publish", x, call>>, MwQuiet(x), mwReg[x].mem = "held"
      PROVE  /\ MwTyped' /\ MwOwes' /\ MwApart'
             /\ \A y \in MwRegs : mwReg'[y].type = mwReg[y].type
             /\ \A y \in MwRegs : y # x => /\ MwQuiet(y) => MwQuiet(y)'
                                           /\ MwSettled(y) => MwSettled(y)'
             /\ \A y : MwNowhere(y)' = MwNowhere(y)
             /\ \/ mwTodo' = <<>> /\ call = "advertise"
                \/ /\ mwTodo' = <<>> /\ mwReg'[x].mem = "held" /\ mwReg'[x].req = x
                   /\ MwQuiet(x)'
                \/ mwTodo' = Tail(mwTodo) /\ mwReg'[x].mem = "held" /\ mwReg'[x].req = x
    <2> DEFINE own == [mwReg[x] EXCEPT !.req = x, !.done = FALSE, !.failed = FALSE]
    <2>1. /\ mwReg[x] \in MwRegType /\ own \in MwRegType /\ own.type = mwReg[x].type
          /\ own.mem = "held" /\ own.req = x /\ own.done = FALSE
      BY <1>2, <1>4 DEF MwRegType
    <2>2. CASE MwRaises(x, call) /\ call # "rename" /\ mwOwed' = mwOwed
      <3>1. /\ mwTodo' = <<>> /\ call = "advertise"
            /\ mwReg' = [mwReg EXCEPT ![x].mem = IF mwReg[x].done THEN "freed" ELSE "left"]
        BY <2>2 DEF MwRaises
      <3>2. /\ mwReg' \in [MwRegs -> MwRegType] /\ mwReg'[x].type = mwReg[x].type
            /\ \A y \in MwRegs : y # x => mwReg'[y] = mwReg[y]
        BY <1>2, <3>1, ZenonT(60) DEF MwRegType
      <3>3. MwTyped'
        BY <1>1, <1>2, <2>2, <3>1, <3>2, EmptySeq DEF MwTyped
      <3>4. MwOwes'
        BY <1>4, <2>2, <3>2 DEF MwServInv, MwOwes, MwQuiet
      <3>5. MwApart'
        BY <1>1, <1>3, <3>2 DEF MwServInv, MwApart
      <3> QED BY <1>1, <2>2, <3>1, <3>2, <3>3, <3>4, <3>5 DEF MwQuiet, MwSettled, MwNowhere
    <2>3. CASE /\ mwTodo' = <<>> /\ mwOwed' = mwOwed
               /\ mwReg' = [mwReg EXCEPT ![x] =
                     [own EXCEPT !.mem = IF call = "rename" THEN "held" ELSE "left"]]
      <3>1. /\ mwReg' \in [MwRegs -> MwRegType] /\ mwReg'[x].type = mwReg[x].type
            /\ mwReg'[x].req = x /\ (call = "rename" => mwReg'[x].mem = "held")
            /\ \A y \in MwRegs : y # x => mwReg'[y] = mwReg[y]
        BY <1>2, <2>1, <2>3 DEF MwRegType
      <3>2. MwTyped'
        BY <1>1, <1>2, <2>3, <3>1, EmptySeq DEF MwTyped
      <3>3. MwOwes'
        BY <1>4, <2>3, <3>1 DEF MwServInv, MwOwes, MwQuiet
      <3>4. MwApart'
        BY <1>1, <1>3, <3>1 DEF MwServInv, MwApart
      <3> QED BY <1>1, <1>4, <2>3, <3>1, <3>2, <3>3, <3>4 DEF MwQuiet, MwSettled, MwNowhere
    <2>4. CASE /\ mwReg' = [mwReg EXCEPT ![x] = own] /\ mwTodo' = Tail(mwTodo)
               /\ mwOwed' = [mwOwed EXCEPT ![x]["register"] = @ + 1]
      <3>1. /\ mwReg' \in [MwRegs -> MwRegType] /\ mwReg'[x] = own
            /\ \A y \in MwRegs : y # x => mwReg'[y] = mwReg[y] /\ mwOwed'[y] = mwOwed[y]
        BY <1>2, <2>1, <2>4
      <3>2. /\ mwOwed[x] \in [MwCallbacks -> Nat] /\ "register" \in MwCallbacks
            /\ mwOwed[x]["register"] = 0 /\ mwOwed[x]["deregister"] = 0
        BY <1>2, <1>4 DEF MwCallbacks, MwQuiet
      <3>3. mwOwed'[x] = [mwOwed[x] EXCEPT !["register"] = 1]
        BY <1>2, <2>4, <3>2
      <3>4. mwOwed' = [mwOwed EXCEPT ![x] = mwOwed'[x]] /\ mwOwed'[x] \in [MwCallbacks -> Nat]
        BY <1>2, <2>4, <3>2, <3>3
      <3>5. MwTyped'
        BY <1>1, <1>2, <2>4, <3>1, <3>4, MwTails DEF MwTyped
      <3>6. MwOwes'
        <4>1. ASSUME NEW y \in MwRegs, y # x
              PROVE  /\ \A c, d \in MwCallbacks : mwOwed'[y][c] > 0 =>
                          mwOwed'[y][c] = 1 /\ (c # d => mwOwed'[y][d] = 0)
                     /\ mwReg'[y].done \/ mwReg'[y].mem \in {"unused", "freed"} => MwQuiet(y)'
          BY <3>1, <4>1 DEF MwServInv, MwOwes, MwQuiet
        <4>2. mwOwed'[x]["register"] = 1 /\ mwOwed'[x]["deregister"] = 0
          BY <3>2, <3>3 DEF MwCallbacks
        <4>3. \A c, d \in MwCallbacks : mwOwed'[x][c] > 0 =>
                  mwOwed'[x][c] = 1 /\ (c # d => mwOwed'[x][d] = 0)
          BY <4>2 DEF MwCallbacks
        <4>4. ~mwReg'[x].done /\ mwReg'[x].mem \notin {"unused", "freed"}
          BY <2>1, <3>1
        <4> QED BY <4>1, <4>3, <4>4 DEF MwOwes
      <3>0. \A y \in MwRegs : mwReg'[y].type = mwReg[y].type
        BY <2>1, <3>1
      <3>7. MwApart'
        BY <1>1, <1>3, <3>0 DEF MwServInv, MwApart
      <3>8. /\ \A y \in MwRegs : y # x => /\ MwQuiet(y) => MwQuiet(y)'
                                          /\ MwSettled(y) => MwSettled(y)'
            /\ \A y : MwNowhere(y)' = MwNowhere(y)
        BY <1>1, <3>1 DEF MwQuiet, MwSettled, MwNowhere
      <3> QED BY <2>1, <2>4, <3>0, <3>1, <3>5, <3>6, <3>7, <3>8
    <2> QED BY <1>4, <2>2, <2>3, <2>4 DEF MwPublishes
<1>5. ASSUME NEW n \in 1 .. 5, NEW q \in MwRegs, NEW r \in MwRegs, NEW s \in MwSlots,
             MwAdvertises(n, q, r, s)
      PROVE  MwServInv'
  <2>1. n = 3 /\ mwTodo[1] = <<"publish", r, "advertise">>
    BY <1>1, <1>5, MwAdvWord DEF MwAdvertises
  <2>2. MwNowhere(r) /\ MwQuiet(r) /\ mwReg[r].mem = "held"
    BY <1>5, <2>1 DEF MwAdvertises
  <2>3. MwTyped' /\ MwOwes' /\ MwApart'
    BY <1>4, <2>1, <2>2
  <2>4. \A t \in MwUsed' : MwSettled(mwSlot[t])'
    BY <1>1, <1>3, <1>4, <1>5, <2>1, <2>2 DEF MwAdvertises, MwNowhere
  <2>5. CASE mwTodo' = <<>>
    BY <2>3, <2>4, <2>5 DEF MwServInv, MwPlan, MwRests
  <2>6. CASE mwTodo' = Tail(mwTodo) /\ mwReg'[r].mem = "held" /\ mwReg'[r].req = r
    <3>1. MwAdvSteps(mwTodo', 2, q, r, s)
      BY <1>5, <2>1, <2>6, MwAdvTail DEF MwAdvertises
    <3>2. MwAdvertises(2, q, r, s)'
      BY <1>1, <1>3, <1>4, <1>5, <2>1, <2>2, <2>4, <2>6, <3>1 DEF MwAdvertises, MwNowhere
    <3> QED BY <2>3, <3>2 DEF MwServInv, MwPlan
  <2> QED BY <1>4, <2>1, <2>2, <2>5, <2>6
<1>6. ASSUME NEW s \in 0 .. Cardinality(MwSlots), NEW m \in 0 .. 5,
             NEW r \in MwRegs \cup {MwNone}, NEW f \in MwRegs \cup {MwNone}, MwRenews(s, m, r, f)
      PROVE  MwServInv'
  <2>1. m = 2 /\ mwTodo[1] = <<"publish", f, "rename">>
    BY <1>1, <1>6, MwRenWord DEF MwRenews
  <2>2. /\ r \in MwRegs /\ f \in MwRegs /\ s \in MwUsed /\ mwSlot[s] = f /\ MwQuiet(f)
        /\ mwReg[f].mem = "held" /\ mwReg[f].type \in MwTypes
    BY <1>6, <2>1 DEF MwRenews
  <2>3. MwTyped' /\ MwOwes' /\ MwApart' /\ mwReg'[f].type = mwReg[f].type
    BY <1>4, <2>1, <2>2
  <2>4. \A t \in MwUsed : t # s => mwSlot[t] # f /\ MwSettled(mwSlot[t])
    BY <1>6, <2>1, <2>2 DEF MwRenews, MwServInv, MwApart
  <2>5. \A t \in MwUsed' : t # s => MwSettled(mwSlot[t])'
    BY <1>1, <1>3, <1>4, <2>1, <2>2, <2>4
  <2>6. CASE mwTodo' = <<>> /\ mwReg'[f].mem = "held" /\ mwReg'[f].req = f /\ MwQuiet(f)'
    <3>1. MwSettled(f)'
      BY <2>2, <2>3, <2>6 DEF MwSettled
    <3> QED BY <1>1, <1>3, <2>2, <2>3, <2>5, <2>6, <3>1 DEF MwServInv, MwPlan, MwRests
  <2>7. CASE mwTodo' = Tail(mwTodo) /\ mwReg'[f].mem = "held" /\ mwReg'[f].req = f
    <3>1. MwRenSteps(mwTodo', s, 1, r, f)
      BY <1>6, <2>1, <2>7, MwRenTail DEF MwRenews
    <3>2. MwRenews(s, 1, r, f)'
      BY <1>1, <1>3, <2>2, <2>3, <2>5, <2>7, <3>1 DEF MwRenews
    <3> QED BY <2>3, <3>2 DEF MwServInv, MwPlan
  <2> QED BY <1>4, <2>1, <2>2, <2>6, <2>7
<1>7. ASSUME NEW s \in 0 .. Cardinality(MwSlots), NEW m \in 0 .. 2,
             NEW r \in MwRegs \cup {MwNone}, MwEmpties(s, m, r)
      PROVE  FALSE
  BY <1>1, <1>7, MwEmpWord DEF MwEmpties
<1> QED BY <1>1, <1>5, <1>6, <1>7 DEF MwServInv, MwPlan, MwRests

\* publish()'s wait, when Windows answers in time.
LEMMA MwPublishedStays ==
    ASSUME MwServInv, ~MwLate, MwPublished
    PROVE  MwServInv'
<1>1. /\ mwTodo # <<>> /\ mwTodo[1][1] = "published" /\ mwSlot' = mwSlot /\ mwOwed' = mwOwed
      /\ mwReg[mwTodo[1][2]].done
      /\ \/ MwRaises(mwTodo[1][2], mwTodo[1][3])
         \/ mwTodo' = Tail(mwTodo) /\ mwReg' = mwReg
  BY DEF MwPublished
<1>2. /\ mwReg \in [MwRegs -> MwRegType] /\ mwOwed \in [MwRegs -> [MwCallbacks -> Nat]]
      /\ mwSlot \in [MwSlots -> MwRegs \cup {MwNone}] /\ mwTodo \in Seq(MwItems)
  BY DEF MwServInv, MwTyped
<1>3. MwUsed' = MwUsed /\ \A t \in MwUsed : t \in MwSlots /\ mwSlot[t] \in MwRegs
  BY <1>1, <1>2 DEF MwUsed
<1>4. CASE mwTodo' = Tail(mwTodo) /\ mwReg' = mwReg
  <2>1. MwTyped' /\ MwOwes' /\ MwApart'
    BY <1>1, <1>2, <1>3, <1>4, MwTails DEF MwServInv, MwTyped, MwOwes, MwQuiet, MwApart
  <2>2. /\ \A y : MwQuiet(y)' = MwQuiet(y) /\ MwSettled(y)' = MwSettled(y)
        /\ \A y : MwNowhere(y)' = MwNowhere(y)
    BY <1>1, <1>4 DEF MwQuiet, MwSettled, MwNowhere
  <2>3. ASSUME NEW n \in 1 .. 5, NEW q \in MwRegs, NEW r \in MwRegs, NEW s \in MwSlots,
               MwAdvertises(n, q, r, s)
        PROVE  MwServInv'
    <3>1. n = 2 /\ mwTodo[1] = <<"published", r, "advertise">>
      BY <1>1, <2>3, MwAdvWord DEF MwAdvertises
    <3>2. MwQuiet(r)
      BY <1>1, <3>1 DEF MwServInv, MwOwes
    <3>3. MwAdvSteps(mwTodo', 1, q, r, s)
      BY <1>4, <2>3, <3>1, MwAdvTail DEF MwAdvertises
    <3>4. MwAdvertises(1, q, r, s)'
      BY <1>1, <1>3, <1>4, <2>2, <2>3, <3>1, <3>2, <3>3 DEF MwAdvertises
    <3> QED BY <2>1, <3>4 DEF MwServInv, MwPlan
  <2>4. ASSUME NEW s \in 0 .. Cardinality(MwSlots), NEW m \in 0 .. 5,
               NEW r \in MwRegs \cup {MwNone}, NEW f \in MwRegs \cup {MwNone}, MwRenews(s, m, r, f)
        PROVE  MwServInv'
    <3>1. m = 1 /\ mwTodo[1] = <<"published", f, "rename">>
      BY <1>1, <2>4, MwRenWord DEF MwRenews
    <3>2. f \in MwRegs /\ mwSlot[s] = f /\ mwReg[f].mem = "held" /\ mwReg[f].type \in MwTypes
          /\ mwReg[f].req = f
      BY <2>4, <3>1 DEF MwRenews
    <3>3. MwSettled(f)
      BY <1>1, <3>1, <3>2 DEF MwServInv, MwOwes, MwSettled
    <3>4. MwRenSteps(mwTodo', s, 0, r, f)
      BY <1>4, <2>4, <3>1, MwRenTail DEF MwRenews
    <3>5. MwRenews(s, 0, r, f)'
      BY <1>1, <1>3, <2>2, <2>4, <3>1, <3>2, <3>3, <3>4 DEF MwRenews
    <3> QED BY <2>1, <3>5 DEF MwServInv, MwPlan
  <2>5. ASSUME NEW s \in 0 .. Cardinality(MwSlots), NEW m \in 0 .. 2,
               NEW r \in MwRegs \cup {MwNone}, MwEmpties(s, m, r)
        PROVE  FALSE
    BY <1>1, <2>5, MwEmpWord DEF MwEmpties
  <2> QED BY <1>1, <2>3, <2>4, <2>5 DEF MwServInv, MwPlan, MwRests
<1>5. CASE MwRaises(mwTodo[1][2], mwTodo[1][3])
  <2>1. ASSUME NEW x \in MwRegs, NEW call, mwTodo[1] = <<"published", x, call>>
        PROVE  /\ MwTyped' /\ MwOwes' /\ MwApart' /\ mwTodo' = <<>>
               /\ \A y \in MwRegs : y # x /\ MwSettled(y) => MwSettled(y)'
               /\ call = "rename" /\ MwSettled(x) => MwSettled(x)'
    <3>1. /\ mwReg[x].done /\ mwTodo' = <<>>
          /\ mwReg' = [mwReg EXCEPT ![x].mem = IF call = "rename" THEN "held" ELSE "freed"]
      BY <1>1, <1>5, <2>1 DEF MwRaises
    <3>2. /\ mwReg' \in [MwRegs -> MwRegType] /\ mwReg'[x].type = mwReg[x].type
          /\ mwReg'[x].req = mwReg[x].req /\ (call = "rename" => mwReg'[x].mem = "held")
          /\ \A y \in MwRegs : y # x => mwReg'[y] = mwReg[y]
      BY <1>2, <3>1, ZenonT(60) DEF MwRegType
    <3>3. MwQuiet(x)
      BY <3>1 DEF MwServInv, MwOwes
    <3>4. MwTyped'
      BY <1>1, <1>2, <3>1, <3>2, EmptySeq DEF MwTyped
    <3>5. MwOwes'
      BY <1>1, <3>2, <3>3 DEF MwServInv, MwOwes, MwQuiet
    <3>6. MwApart'
      BY <1>1, <1>3, <3>2 DEF MwServInv, MwApart
    <3> QED BY <1>1, <3>1, <3>2, <3>4, <3>5, <3>6 DEF MwSettled, MwQuiet
  <2>2. ASSUME NEW n \in 1 .. 5, NEW q \in MwRegs, NEW r \in MwRegs, NEW s \in MwSlots,
               MwAdvertises(n, q, r, s)
        PROVE  MwServInv'
    <3>1. n = 2 /\ mwTodo[1] = <<"published", r, "advertise">>
      BY <1>1, <2>2, MwAdvWord DEF MwAdvertises
    <3>2. \A t \in MwUsed' : MwSettled(mwSlot[t])'
      BY <1>1, <1>3, <2>1, <2>2, <3>1 DEF MwAdvertises, MwNowhere
    <3> QED BY <2>1, <3>1, <3>2 DEF MwServInv, MwPlan, MwRests
  <2>3. ASSUME NEW s \in 0 .. Cardinality(MwSlots), NEW m \in 0 .. 5,
               NEW r \in MwRegs \cup {MwNone}, NEW f \in MwRegs \cup {MwNone}, MwRenews(s, m, r, f)
        PROVE  MwServInv'
    <3>1. m = 1 /\ mwTodo[1] = <<"published", f, "rename">>
      BY <1>1, <2>3, MwRenWord DEF MwRenews
    <3>2. f \in MwRegs /\ mwSlot[s] = f /\ mwReg[f].mem = "held" /\ mwReg[f].type \in MwTypes
          /\ mwReg[f].req = f /\ s \in MwUsed
      BY <2>3, <3>1 DEF MwRenews
    <3>3. MwSettled(f)
      BY <1>1, <3>1, <3>2 DEF MwServInv, MwOwes, MwSettled
    <3>4. \A t \in MwUsed : t # s => mwSlot[t] # f /\ MwSettled(mwSlot[t])
      BY <2>3, <3>1, <3>2 DEF MwRenews, MwServInv, MwApart
    <3>5. \A t \in MwUsed' : MwSettled(mwSlot[t])'
      BY <1>1, <1>3, <2>1, <3>1, <3>2, <3>3, <3>4
    <3> QED BY <2>1, <3>1, <3>2, <3>5 DEF MwServInv, MwPlan, MwRests
  <2>4. ASSUME NEW s \in 0 .. Cardinality(MwSlots), NEW m \in 0 .. 2,
               NEW r \in MwRegs \cup {MwNone}, MwEmpties(s, m, r)
        PROVE  FALSE
    BY <1>1, <2>4, MwEmpWord DEF MwEmpties
  <2> QED BY <1>1, <2>2, <2>3, <2>4 DEF MwServInv, MwPlan, MwRests
<1> QED BY <1>1, <1>4, <1>5

\* A slot is filled, by advertise() or a name change, with what no slot holds.
LEMMA MwPlaces ==
    ASSUME MwServInv, MwPlace
    PROVE  MwServInv'
<1>1. /\ mwTodo # <<>> /\ mwTodo[1][1] = "place" /\ mwTodo' = Tail(mwTodo)
      /\ mwSlot' = [mwSlot EXCEPT ![mwTodo[1][3]] = mwTodo[1][2]]
      /\ mwReg' = mwReg /\ mwOwed' = mwOwed
  BY DEF MwPlace
<1>2. /\ mwReg \in [MwRegs -> MwRegType] /\ mwOwed \in [MwRegs -> [MwCallbacks -> Nat]]
      /\ mwSlot \in [MwSlots -> MwRegs \cup {MwNone}] /\ mwTodo \in Seq(MwItems)
  BY DEF MwServInv, MwTyped
<1>3. ASSUME NEW x \in MwRegs, NEW s \in MwSlots, mwTodo[1] = <<"place", x, s>>, MwNowhere(x),
             \A t \in MwUsed : t # s => mwReg[mwSlot[t]].type # mwReg[x].type
      PROVE  /\ MwTyped' /\ MwOwes' /\ MwApart'
             /\ MwUsed' = MwUsed \cup {s} /\ mwSlot'[s] = x
             /\ \A t \in MwSlots : t # s => mwSlot'[t] = mwSlot[t]
             /\ \A y : MwQuiet(y)' = MwQuiet(y) /\ MwSettled(y)' = MwSettled(y)
  <2>1. mwSlot' = [mwSlot EXCEPT ![s] = x]
    BY <1>1, <1>3
  <2>2. /\ mwSlot' \in [MwSlots -> MwRegs \cup {MwNone}] /\ mwSlot'[s] = x
        /\ \A t \in MwSlots : t # s => mwSlot'[t] = mwSlot[t]
    BY <1>2, <2>1
  <2>3. MwTyped'
    BY <1>1, <1>2, <2>2, MwTails DEF MwTyped
  <2>4. MwOwes' /\ \A y : MwQuiet(y)' = MwQuiet(y) /\ MwSettled(y)' = MwSettled(y)
    BY <1>1 DEF MwServInv, MwOwes, MwQuiet, MwSettled
  <2>5. MwUsed' = MwUsed \cup {s}
    BY <1>3, <2>2, MwAssumption DEF MwUsed
  <2>6. MwApart'
    <3>1. ASSUME NEW t \in MwUsed', NEW u \in MwUsed', t # u
          PROVE  mwSlot'[t] # mwSlot'[u] /\ mwReg[mwSlot'[t]].type # mwReg[mwSlot'[u]].type
      BY <1>3, <2>2, <2>5, <3>1 DEF MwServInv, MwApart, MwNowhere, MwUsed
    <3> QED BY <1>1, <3>1 DEF MwApart
  <2> QED BY <2>2, <2>3, <2>4, <2>5, <2>6
<1>4. ASSUME NEW n \in 1 .. 5, NEW q \in MwRegs, NEW r \in MwRegs, NEW s \in MwSlots,
             MwAdvertises(n, q, r, s)
      PROVE  MwServInv'
  <2>1. n = 1 /\ mwTodo[1] = <<"place", r, s>>
    BY <1>1, <1>4, MwAdvWord DEF MwAdvertises
  <2>2. /\ MwNowhere(r) /\ \A t \in MwUsed : mwReg[mwSlot[t]].type # mwReg[r].type
        /\ MwSettled(r)
    BY <1>4, <2>1 DEF MwAdvertises, MwSettled
  <2>3. mwTodo' = <<>>
    BY <1>1, <1>2, <1>4, <2>1, MwTails, EmptySeq DEF MwAdvertises, MwAdvSteps
  <2>4. /\ MwTyped' /\ MwOwes' /\ MwApart' /\ MwUsed' = MwUsed \cup {s} /\ mwSlot'[s] = r
        /\ \A t \in MwSlots : t # s => mwSlot'[t] = mwSlot[t]
        /\ \A y : MwSettled(y)' = MwSettled(y)
    BY <1>3, <2>1, <2>2
  <2>5. \A t \in MwUsed' : MwSettled(mwSlot[t])'
    <3>1. \A t \in MwUsed : t # s /\ t \in MwSlots /\ MwSettled(mwSlot[t])
      BY <1>4, MwAssumption DEF MwAdvertises, MwUsed
    <3> QED BY <2>2, <2>4, <3>1
  <2> QED BY <2>3, <2>4, <2>5 DEF MwServInv, MwPlan, MwRests
<1>5. ASSUME NEW s \in 0 .. Cardinality(MwSlots), NEW m \in 0 .. 5,
             NEW r \in MwRegs \cup {MwNone}, NEW f \in MwRegs \cup {MwNone}, MwRenews(s, m, r, f)
      PROVE  MwServInv'
  <2>1. m = 3 /\ mwTodo[1] = <<"place", f, s>>
    BY <1>1, <1>5, MwRenWord DEF MwRenews
  <2>2. /\ r \in MwRegs /\ f \in MwRegs /\ s \in MwUsed /\ s \in MwSlots /\ mwSlot[s] = r
        /\ MwNowhere(f) /\ mwReg[r].type = mwReg[f].type /\ MwQuiet(f)
        /\ mwReg[f].mem = "held" /\ mwReg[f].type \in MwTypes
    BY <1>5, <2>1 DEF MwRenews, MwUsed
  <2>3. \A t \in MwUsed : t # s => mwReg[mwSlot[t]].type # mwReg[f].type
    BY <2>2 DEF MwServInv, MwApart
  <2>4. /\ MwTyped' /\ MwOwes' /\ MwApart' /\ MwUsed' = MwUsed \cup {s} /\ mwSlot'[s] = f
        /\ \A t \in MwSlots : t # s => mwSlot'[t] = mwSlot[t]
        /\ \A y : MwQuiet(y)' = MwQuiet(y) /\ MwSettled(y)' = MwSettled(y)
    BY <1>3, <2>1, <2>2, <2>3
  <2>5. MwRenSteps(mwTodo', s, 2, r, f)
    BY <1>1, <1>5, <2>1, MwRenTail DEF MwRenews
  <2>6. \A t \in MwUsed' : t # s => MwSettled(mwSlot[t])'
    <3>1. \A t \in MwUsed : t # s => t \in MwSlots /\ MwSettled(mwSlot[t])
      BY <1>5, <2>1 DEF MwRenews, MwUsed
    <3> QED BY <2>4, <3>1
  <2>7. MwRenews(s, 2, r, f)'
    BY <1>1, <2>2, <2>4, <2>5, <2>6 DEF MwRenews
  <2> QED BY <2>4, <2>7 DEF MwServInv, MwPlan
<1>6. ASSUME NEW s \in 0 .. Cardinality(MwSlots), NEW m \in 0 .. 2,
             NEW r \in MwRegs \cup {MwNone}, MwEmpties(s, m, r)
      PROVE  FALSE
  BY <1>1, <1>6, MwEmpWord DEF MwEmpties
<1> QED BY <1>1, <1>4, <1>5, <1>6 DEF MwServInv, MwPlan, MwRests

\* Ctrl-C leaves what the call held, and in advertise() frees what Windows is
\* done with; what is in a slot it does not touch.
LEMMA MwCtrlCStays ==
    ASSUME MwServInv, ~MwBreak, MwCtrlC
    PROVE  MwServInv'
<1>1. /\ mwTodo # <<>> /\ mwTodo[1][1] \in {"withdrawn", "published"} /\ ~MwRenaming
      /\ mwTodo' = <<>> /\ mwSlot' = mwSlot /\ mwOwed' = mwOwed
      /\ mwReg' = [r \in MwRegs |->
           IF r \notin MwHeldBack \/ \E s \in MwUsed : mwSlot[s] = r THEN mwReg[r]
           ELSE [mwReg[r] EXCEPT !.mem =
                   IF mwTodo[1][1] = "published" /\ mwReg[r].done THEN "freed" ELSE "left"]]
  BY DEF MwCtrlC
<1>2. /\ mwReg \in [MwRegs -> MwRegType] /\ mwOwed \in [MwRegs -> [MwCallbacks -> Nat]]
      /\ mwSlot \in [MwSlots -> MwRegs \cup {MwNone}]
  BY DEF MwServInv, MwTyped
<1>3. MwUsed' = MwUsed /\ \A t \in MwUsed : t \in MwSlots /\ mwSlot[t] \in MwRegs
  BY <1>1, <1>2 DEF MwUsed
<1>4. \A t \in MwUsed : mwReg'[mwSlot[t]] = mwReg[mwSlot[t]]
  BY <1>1, <1>3
<1>5. ASSUME NEW y \in MwRegs
      PROVE  /\ mwReg'[y] \in MwRegType /\ mwReg'[y].done = mwReg[y].done
             /\ mwReg'[y].mem \in {"unused", "freed"} =>
                    mwReg[y].done \/ mwReg[y].mem \in {"unused", "freed"}
  BY <1>1, <1>2 DEF MwRegType
<1>6. MwTyped'
  <2>1. mwReg' \in [MwRegs -> MwRegType]
    BY <1>1, <1>5
  <2> QED BY <1>1, <1>2, <2>1, EmptySeq DEF MwTyped
<1>7. MwOwes'
  BY <1>1, <1>5 DEF MwServInv, MwOwes, MwQuiet
<1>8. MwApart'
  BY <1>1, <1>3, <1>4 DEF MwServInv, MwApart
<1>9. \A t \in MwUsed : MwSettled(mwSlot[t])
  <2>1. ASSUME NEW n \in 1 .. 5, NEW q \in MwRegs, NEW r \in MwRegs, NEW s \in MwSlots,
               MwAdvertises(n, q, r, s)
        PROVE  \A t \in MwUsed : MwSettled(mwSlot[t])
    BY <2>1 DEF MwAdvertises
  <2>2. ASSUME NEW s \in 0 .. Cardinality(MwSlots), NEW m \in 0 .. 5,
               NEW r \in MwRegs \cup {MwNone}, NEW f \in MwRegs \cup {MwNone}, MwRenews(s, m, r, f)
        PROVE  FALSE
    <3>1. MwRenSteps(mwTodo, s, m, r, f)
      BY <2>2 DEF MwRenews
    <3>2. m >= 1
      BY <1>1, <3>1, MwRenWord
    <3>3. mwTodo[m] = <<"published", f, "rename">> /\ m \in 1 .. Len(mwTodo)
      BY <3>1, <3>2, MwAssumption DEF MwRenSteps
    <3> QED BY <1>1, <3>3 DEF MwRenaming
  <2>3. ASSUME NEW s \in 0 .. Cardinality(MwSlots), NEW m \in 0 .. 2,
               NEW r \in MwRegs \cup {MwNone}, MwEmpties(s, m, r)
        PROVE  \A t \in MwUsed : MwSettled(mwSlot[t])
    BY <2>3 DEF MwEmpties
  <2> QED BY <2>1, <2>2, <2>3 DEF MwServInv, MwPlan, MwRests
<1>10. \A t \in MwUsed' : MwSettled(mwSlot[t])'
  BY <1>1, <1>3, <1>4, <1>9 DEF MwSettled, MwQuiet
<1> QED BY <1>1, <1>6, <1>7, <1>8, <1>10 DEF MwServInv, MwPlan, MwRests

\* A name change comes to a slot: nothing there, or a copy of what is there.
LEMMA MwRenewStays ==
    ASSUME MwServInv, NEW fresh \in MwRegs, MwRenew(fresh)
    PROVE  MwServInv'
<1>0. Cardinality(MwSlots) \in Nat /\ MwSlots = 1 .. Cardinality(MwSlots) /\ MwNone \notin MwRegs
  BY MwAssumption
<1>1. /\ mwTodo # <<>> /\ mwTodo[1][1] = "renew" /\ mwSlot' = mwSlot /\ mwOwed' = mwOwed
  BY DEF MwRenew
<1>2. /\ mwReg \in [MwRegs -> MwRegType] /\ mwOwed \in [MwRegs -> [MwCallbacks -> Nat]]
      /\ mwSlot \in [MwSlots -> MwRegs \cup {MwNone}] /\ mwTodo \in Seq(MwItems)
  BY DEF MwServInv, MwTyped
<1>3. MwUsed' = MwUsed /\ \A t \in MwUsed : t \in MwSlots /\ mwSlot[t] \in MwRegs
  BY <1>1, <1>2 DEF MwUsed
<1>4. ASSUME NEW n \in 1 .. 5, NEW q \in MwRegs, NEW r \in MwRegs, NEW s \in MwSlots,
             MwAdvertises(n, q, r, s)
      PROVE  FALSE
  BY <1>1, <1>4, MwAdvWord DEF MwAdvertises
<1>5. ASSUME NEW s \in 0 .. Cardinality(MwSlots), NEW m \in 0 .. 2,
             NEW r \in MwRegs \cup {MwNone}, MwEmpties(s, m, r)
      PROVE  FALSE
  BY <1>1, <1>5, MwEmpWord DEF MwEmpties
<1>6. ASSUME NEW s \in 0 .. Cardinality(MwSlots), NEW m \in 0 .. 5,
             NEW x \in MwRegs \cup {MwNone}, NEW y \in MwRegs \cup {MwNone}, MwRenews(s, m, x, y)
      PROVE  MwServInv'
  <2>1. m = 0
    BY <1>1, <1>6, MwRenWord DEF MwRenews
  <2>2. MwRenSteps(mwTodo, s, 0, x, y) /\ \A t \in MwUsed : MwSettled(mwSlot[t])
    BY <1>6, <2>1 DEF MwRenews
  <2>3. /\ s + 1 \in MwSlots /\ mwTodo[1] = <<"renew", s + 1>>
        /\ \A u, v : MwRenSteps(Tail(mwTodo), s + 1, 0, u, v)
    BY <1>1, <2>2, MwRenNext
  <2>4. s + 1 \in 0 .. Cardinality(MwSlots)
    BY <1>0, <2>3
  <2>5. CASE mwSlot[s + 1] = MwNone
    <3>1. mwTodo' = Tail(mwTodo) /\ mwReg' = mwReg
      BY <2>3, <2>5 DEF MwRenew
    <3>2. MwTyped' /\ MwOwes' /\ MwApart'
      BY <1>1, <1>2, <1>3, <3>1, MwTails DEF MwServInv, MwTyped, MwOwes, MwQuiet, MwApart
    <3>3. \A t \in MwUsed' : MwSettled(mwSlot[t])'
      BY <1>1, <1>3, <2>2, <3>1 DEF MwSettled, MwQuiet
    <3>4. MwRenews(s + 1, 0, x, y)'
      BY <2>3, <3>1, <3>3 DEF MwRenews
    <3> QED BY <2>4, <3>2, <3>4 DEF MwServInv, MwPlan
  <2>6. CASE mwSlot[s + 1] # MwNone
    <3>0. PICK r \in MwRegs : r = mwSlot[s + 1]
      BY <1>2, <2>3, <2>6
    <3>1. s + 1 \in MwUsed /\ MwSettled(r)
      BY <1>3, <2>2, <2>3, <2>6, <3>0 DEF MwUsed
    <3>2. /\ mwReg[fresh].mem = "unused" /\ mwReg' = [mwReg EXCEPT ![fresh] = mwReg[r]]
          /\ mwTodo' = MwWithdraw(r) \o <<<<"place", fresh, s + 1>>>>
                         \o MwPublish("rename", fresh) \o Tail(mwTodo)
      <4>1. mwTodo[1][2] = s + 1
        BY <2>3
      <4>2. r # MwNone
        BY <1>0
      <4> QED BY <3>0, <4>1, <4>2, Zenon DEF MwRenew
    <3>3. /\ mwReg' \in [MwRegs -> MwRegType] /\ mwReg'[fresh] = mwReg[r]
          /\ \A z \in MwRegs : z # fresh => mwReg'[z] = mwReg[z]
      BY <1>2, <3>2
    <3>4. MwQuiet(fresh) /\ MwNowhere(fresh) /\ fresh # r
      BY <1>0, <1>2, <2>2, <3>1, <3>2 DEF MwServInv, MwOwes, MwSettled, MwNowhere, MwUsed
    <3>5. MwRenSteps(mwTodo', s + 1, 5, r, fresh)
      <4> DEFINE L == <<<<"withdraw", r>>, <<"withdrawn", r>>, <<"place", fresh, s + 1>>,
                        <<"publish", fresh, "rename">>, <<"published", fresh, "rename">>>>
      <4>1. MwWithdraw(r) \o <<<<"place", fresh, s + 1>>>> \o MwPublish("rename", fresh) = L
        BY <2>3, MwJoined
      <4>2. L \in Seq(MwItems) /\ Len(L) = 5
        BY <2>3, <3>1 DEF MwItems
      <4>3. mwTodo' = L \o Tail(mwTodo)
        BY <3>2, <4>1
      <4>4. /\ Tail(mwTodo) \in Seq(MwItems)
            /\ Len(Tail(mwTodo)) = Cardinality(MwSlots) - (s + 1)
            /\ \A i \in 1 .. Len(Tail(mwTodo)) : Tail(mwTodo)[i] = <<"renew", (s + 1) + i>>
        <5>1. PICK q : q = Tail(mwTodo)
          OBVIOUS
        <5>2. MwRenSteps(q, s + 1, 0, r, fresh)
          BY <2>3, <5>1
        <5>3. /\ q \in Seq(MwItems) /\ Len(q) = 0 + (Cardinality(MwSlots) - (s + 1))
              /\ \A i \in 1 .. Len(q) : i > 0 => q[i] = <<"renew", ((s + 1) + i) - 0>>
          BY <5>2 DEF MwRenSteps
        <5>4. \A i \in 1 .. Len(q) : i > 0 /\ ((s + 1) + i) - 0 = (s + 1) + i
          BY <1>0, <2>4
        <5>5. \A i \in 1 .. Len(q) : q[i] = <<"renew", (s + 1) + i>>
          BY <5>3, <5>4
        <5>6. Len(q) = Cardinality(MwSlots) - (s + 1)
          BY <1>0, <2>4, <5>3
        <5> QED BY <5>1, <5>3, <5>5, <5>6
      <4>5. /\ L[1] = <<"withdraw", r>> /\ L[2] = <<"withdrawn", r>>
            /\ L[3] = <<"place", fresh, s + 1>> /\ L[4] = <<"publish", fresh, "rename">>
            /\ L[5] = <<"published", fresh, "rename">>
        OBVIOUS
      <4> HIDE DEF L
      <4>6. /\ mwTodo' \in Seq(MwItems) /\ Len(mwTodo') = 5 + (Cardinality(MwSlots) - (s + 1))
            /\ \A i \in 1 .. 5 : mwTodo'[i] = L[i]
            /\ \A i \in 1 .. Len(mwTodo') : i > 5 => /\ i - 5 \in 1 .. Len(Tail(mwTodo))
                                                    /\ mwTodo'[i] = Tail(mwTodo)[i - 5]
        <5>1. /\ mwTodo' \in Seq(MwItems) /\ Len(mwTodo') = Len(L) + Len(Tail(mwTodo))
              /\ \A i \in 1 .. Len(L) : mwTodo'[i] = L[i]
              /\ \A i \in 1 .. Len(mwTodo') : i > Len(L) => /\ i - Len(L) \in 1 .. Len(Tail(mwTodo))
                                                           /\ mwTodo'[i] = Tail(mwTodo)[i - Len(L)]
          BY <4>2, <4>3, <4>4, MwFront
        <5> QED BY <4>2, <4>3, <4>4, <5>1
      <4>7. \A i \in 1 .. Len(mwTodo') : i > 5 => mwTodo'[i] = <<"renew", ((s + 1) + i) - 5>>
        <5>1. ASSUME NEW i \in 1 .. Len(mwTodo'), i > 5
              PROVE  mwTodo'[i] = <<"renew", ((s + 1) + i) - 5>>
          <6>1. i \in Nat /\ (s + 1) + (i - 5) = ((s + 1) + i) - 5
            BY <1>0, <2>4, <4>6
          <6> QED BY <4>4, <4>6, <5>1, <6>1
        <5> QED BY <5>1
      <4> QED BY <4>5, <4>6, <4>7 DEF MwRenSteps
    <3>6. MwTyped'
      BY <1>1, <1>2, <3>3, <3>5 DEF MwTyped, MwRenSteps
    <3>7. MwOwes'
      <4> QED BY <1>1, <3>3, <3>4 DEF MwServInv, MwOwes, MwQuiet
    <3>8. \A t \in MwUsed : mwReg'[mwSlot[t]] = mwReg[mwSlot[t]]
      BY <1>3, <3>3, <3>4 DEF MwNowhere
    <3>9. MwApart'
      BY <1>1, <1>3, <3>8 DEF MwServInv, MwApart
    <3>10. \A t \in MwUsed' : MwSettled(mwSlot[t])'
      BY <1>1, <1>3, <2>2, <3>8 DEF MwSettled, MwQuiet
    <3>11. /\ MwQuiet(fresh)' /\ MwNowhere(fresh)' /\ mwSlot'[s + 1] = r /\ MwSettled(r)'
           /\ mwReg'[r].type = mwReg'[fresh].type /\ mwReg'[fresh].mem = "held"
           /\ mwReg'[fresh].type \in MwTypes
      <4>1. mwReg'[r] = mwReg[r] /\ mwReg'[fresh] = mwReg[r] /\ mwSlot'[s + 1] = r
        BY <1>1, <3>0, <3>3, <3>4
      <4> QED BY <1>1, <3>1, <3>4, <4>1 DEF MwSettled, MwQuiet, MwNowhere
    <3>12. MwRenews(s + 1, 5, r, fresh)'
      BY <1>3, <3>1, <3>5, <3>10, <3>11 DEF MwRenews
    <3> QED BY <2>4, <3>1, <3>6, <3>7, <3>9, <3>12 DEF MwServInv, MwPlan
  <2> QED BY <2>5, <2>6
<1> QED BY <1>1, <1>4, <1>5, <1>6 DEF MwServInv, MwPlan, MwRests

\* deinit() comes to a slot, and empties it.
LEMMA MwDropStays ==
    ASSUME MwServInv, MwDrop
    PROVE  MwServInv'
<1>0. Cardinality(MwSlots) \in Nat /\ MwSlots = 1 .. Cardinality(MwSlots) /\ MwNone \notin MwRegs
  BY MwAssumption
<1>1. /\ mwTodo # <<>> /\ mwTodo[1][1] = "drop" /\ mwReg' = mwReg /\ mwOwed' = mwOwed
  BY DEF MwDrop
<1>2. /\ mwReg \in [MwRegs -> MwRegType] /\ mwOwed \in [MwRegs -> [MwCallbacks -> Nat]]
      /\ mwSlot \in [MwSlots -> MwRegs \cup {MwNone}] /\ mwTodo \in Seq(MwItems)
  BY DEF MwServInv, MwTyped
<1>3. ASSUME NEW n \in 1 .. 5, NEW q \in MwRegs, NEW r \in MwRegs, NEW s \in MwSlots,
             MwAdvertises(n, q, r, s)
      PROVE  FALSE
  BY <1>1, <1>3, MwAdvWord DEF MwAdvertises
<1>4. ASSUME NEW s \in 0 .. Cardinality(MwSlots), NEW m \in 0 .. 5,
             NEW r \in MwRegs \cup {MwNone}, NEW f \in MwRegs \cup {MwNone}, MwRenews(s, m, r, f)
      PROVE  FALSE
  BY <1>1, <1>4, MwRenWord DEF MwRenews
<1>5. ASSUME NEW s \in 0 .. Cardinality(MwSlots), NEW m \in 0 .. 2,
             NEW x \in MwRegs \cup {MwNone}, MwEmpties(s, m, x)
      PROVE  MwServInv'
  <2>1. m = 0
    BY <1>1, <1>5, MwEmpWord DEF MwEmpties
  <2>2. MwEmpSteps(mwTodo, s, 0, x) /\ \A t \in MwUsed : MwSettled(mwSlot[t])
    BY <1>5, <2>1 DEF MwEmpties
  <2>3. /\ s + 1 \in MwSlots /\ mwTodo[1] = <<"drop", s + 1>>
        /\ \A u : MwEmpSteps(Tail(mwTodo), s + 1, 0, u)
    BY <1>1, <2>2, MwEmpNext
  <2>4. /\ s + 1 \in 0 .. Cardinality(MwSlots) /\ Tail(mwTodo) \in Seq(MwItems)
    BY <1>0, <1>1, <1>2, <2>3, MwTails
  <2>5. /\ mwSlot' = [mwSlot EXCEPT ![s + 1] = MwNone]
        /\ mwTodo' = (IF s + 1 \in MwUsed THEN MwWithdraw(mwSlot[s + 1]) ELSE <<>>)
                       \o Tail(mwTodo)
    BY <2>3 DEF MwDrop
  <2>6. /\ mwSlot' \in [MwSlots -> MwRegs \cup {MwNone}] /\ MwUsed' = MwUsed \ {s + 1}
        /\ \A t \in MwSlots : t # s + 1 => mwSlot'[t] = mwSlot[t]
        /\ mwSlot'[s + 1] = MwNone
    BY <1>2, <2>3, <2>5 DEF MwUsed
  <2>7. /\ MwOwes' /\ MwApart' /\ \A t \in MwUsed' : MwSettled(mwSlot[t])'
    <3>1. \A t \in MwUsed' : t \in MwUsed /\ mwSlot'[t] = mwSlot[t]
      BY <2>6 DEF MwUsed
    <3> QED BY <1>1, <2>2, <3>1 DEF MwServInv, MwOwes, MwQuiet, MwApart, MwSettled
  <2>8. CASE s + 1 \notin MwUsed
    <3>1. mwTodo' = Tail(mwTodo)
      BY <2>4, <2>5, <2>8, ConcatEmptySeq
    <3>2. MwTyped'
      BY <1>1, <1>2, <2>4, <2>6, <3>1 DEF MwTyped
    <3>3. MwEmpties(s + 1, 0, x)'
      BY <2>3, <2>7, <3>1 DEF MwEmpties
    <3> QED BY <2>4, <2>7, <3>2, <3>3 DEF MwServInv, MwPlan
  <2>9. CASE s + 1 \in MwUsed
    <3>0. PICK r \in MwRegs : r = mwSlot[s + 1]
      BY <1>2, <2>9 DEF MwUsed
    <3>1. MwSettled(r) /\ \A t \in MwUsed : t # s + 1 => mwSlot[t] # r
      BY <2>2, <2>9, <3>0 DEF MwServInv, MwApart
    <3>2. mwTodo' = MwWithdraw(r) \o Tail(mwTodo)
      BY <2>5, <2>9, <3>0
    <3>3. MwEmpSteps(mwTodo', s + 1, 2, r)
      <4> DEFINE L == <<<<"withdraw", r>>, <<"withdrawn", r>>>>
      <4>1. /\ mwTodo' = L \o Tail(mwTodo) /\ L \in Seq(MwItems) /\ Len(L) = 2
            /\ L[1] = <<"withdraw", r>> /\ L[2] = <<"withdrawn", r>>
        BY <3>1, <3>2 DEF MwWithdraw, MwItems
      <4>2. /\ Len(Tail(mwTodo)) = Cardinality(MwSlots) - (s + 1)
            /\ \A i \in 1 .. Len(Tail(mwTodo)) : Tail(mwTodo)[i] = <<"drop", (s + 1) + i>>
        <5>1. MwEmpSteps(Tail(mwTodo), s + 1, 0, x)
          BY <2>3
        <5> QED BY <1>0, <2>4, <5>1 DEF MwEmpSteps
      <4> HIDE DEF L
      <4>3. /\ mwTodo' \in Seq(MwItems) /\ Len(mwTodo') = 2 + (Cardinality(MwSlots) - (s + 1))
            /\ \A i \in 1 .. 2 : mwTodo'[i] = L[i]
            /\ \A i \in 1 .. Len(mwTodo') : i > 2 => /\ i - 2 \in 1 .. Len(Tail(mwTodo))
                                                    /\ mwTodo'[i] = Tail(mwTodo)[i - 2]
        <5>1. /\ mwTodo' \in Seq(MwItems) /\ Len(mwTodo') = Len(L) + Len(Tail(mwTodo))
              /\ \A i \in 1 .. Len(L) : mwTodo'[i] = L[i]
              /\ \A i \in 1 .. Len(mwTodo') : i > Len(L) => /\ i - Len(L) \in 1 .. Len(Tail(mwTodo))
                                                           /\ mwTodo'[i] = Tail(mwTodo)[i - Len(L)]
          BY <4>1, <2>4, MwFront
        <5> QED BY <4>1, <2>4, <4>2, <5>1
      <4>4. \A i \in 1 .. Len(mwTodo') : i > 2 => mwTodo'[i] = <<"drop", ((s + 1) + i) - 2>>
        <5>1. ASSUME NEW i \in 1 .. Len(mwTodo'), i > 2
              PROVE  mwTodo'[i] = <<"drop", ((s + 1) + i) - 2>>
          <6>1. i \in Nat /\ (s + 1) + (i - 2) = ((s + 1) + i) - 2
            BY <1>0, <2>4, <4>3
          <6> QED BY <4>2, <4>3, <5>1, <6>1
        <5> QED BY <5>1
      <4>5. mwTodo'[1] = <<"withdraw", r>> /\ mwTodo'[2] = <<"withdrawn", r>>
        <5>1. mwTodo'[1] = L[1] /\ mwTodo'[2] = L[2]
          BY <4>3
        <5> QED BY <4>1, <5>1
      <4> QED BY <4>3, <4>4, <4>5 DEF MwEmpSteps
    <3>4. MwTyped'
      BY <1>1, <1>2, <2>6, <3>3 DEF MwTyped, MwEmpSteps
    <3>5. MwNowhere(r)' /\ MwSettled(r)'
      BY <1>0, <1>1, <2>6, <3>1 DEF MwNowhere, MwSettled, MwQuiet, MwUsed
    <3>6. MwEmpties(s + 1, 2, r)'
      BY <2>7, <3>1, <3>3, <3>5 DEF MwEmpties
    <3> QED BY <2>4, <2>7, <3>1, <3>4, <3>6 DEF MwServInv, MwPlan
  <2> QED BY <2>8, <2>9
<1> QED BY <1>1, <1>3, <1>4, <1>5 DEF MwServInv, MwPlan, MwRests

\* advertise(): in the slot the service has, or in the first free one.
LEMMA MwAdvertiseStays ==
    ASSUME MwServInv, NEW type \in MwTypes, NEW r \in MwRegs, MwAdvertise(type, r)
    PROVE  MwServInv'
<1>0. Cardinality(MwSlots) \in Nat /\ MwSlots = 1 .. Cardinality(MwSlots) /\ MwNone \notin MwRegs
  BY MwAssumption
<1>1. /\ mwTodo = <<>> /\ mwReg[r].mem = "unused" /\ mwOwed' = mwOwed
      /\ mwReg' = [mwReg EXCEPT ![r].mem = "held", ![r].type = type]
  BY DEF MwAdvertise, MwCall
<1>2. /\ mwReg \in [MwRegs -> MwRegType] /\ mwOwed \in [MwRegs -> [MwCallbacks -> Nat]]
      /\ mwSlot \in [MwSlots -> MwRegs \cup {MwNone}]
  BY DEF MwServInv, MwTyped
<1>3. \A t \in MwUsed : t \in MwSlots /\ mwSlot[t] \in MwRegs /\ MwSettled(mwSlot[t])
  BY <1>1, <1>2, MwAtRest DEF MwUsed, MwRests
<1>4. /\ mwReg' \in [MwRegs -> MwRegType] /\ mwReg'[r].mem = "held" /\ mwReg'[r].type = type
      /\ mwReg'[r].done = mwReg[r].done
      /\ \A y \in MwRegs : y # r => mwReg'[y] = mwReg[y]
  BY <1>1, <1>2 DEF MwRegType
<1>5. MwQuiet(r) /\ MwNowhere(r)
  BY <1>0, <1>1, <1>2, <1>3 DEF MwServInv, MwOwes, MwSettled, MwNowhere, MwUsed
<1>6. MwOwes'
  BY <1>1, <1>4, <1>5 DEF MwServInv, MwOwes, MwQuiet
<1>7. \A y \in MwRegs : y # r /\ MwSettled(y) => MwSettled(y)'
  BY <1>1, <1>4 DEF MwSettled, MwQuiet
<1>8. MwQuiet(r)'
  BY <1>1, <1>5 DEF MwQuiet
<1>9. ASSUME NEW s \in MwOwn(type), mwSlot' = [mwSlot EXCEPT ![s] = MwNone],
             mwTodo' = MwWithdraw(mwSlot[s]) \o MwPublish("advertise", r)
                         \o <<<<"place", r, s>>>>
      PROVE  MwServInv'
  <2>1. PICK q \in MwRegs : q = mwSlot[s]
    BY <1>3 DEF MwOwn
  <2>2. s \in MwUsed /\ s \in MwSlots /\ MwSettled(q) /\ q # r /\ mwReg[q].type = type
    BY <1>3, <1>5, <2>1 DEF MwOwn, MwNowhere, MwUsed
  <2>3. /\ <<"withdraw", q>> \in MwItems /\ <<"withdrawn", q>> \in MwItems
        /\ <<"publish", r, "advertise">> \in MwItems
        /\ <<"published", r, "advertise">> \in MwItems /\ <<"place", r, s>> \in MwItems
    BY <2>2 DEF MwItems
  <2>4. mwTodo' = <<<<"withdraw", q>>, <<"withdrawn", q>>, <<"publish", r, "advertise">>,
                    <<"published", r, "advertise">>, <<"place", r, s>>>>
    BY <1>9, <2>1, <2>2, MwJoined
  <2>5. MwAdvSteps(mwTodo', 5, q, r, s)
    BY <2>3, <2>4 DEF MwAdvSteps
  <2>6. /\ mwSlot' \in [MwSlots -> MwRegs \cup {MwNone}] /\ MwUsed' = MwUsed \ {s}
        /\ \A t \in MwSlots : t # s => mwSlot'[t] = mwSlot[t]
        /\ mwSlot'[s] = MwNone
    BY <1>2, <1>9, <2>2 DEF MwUsed
  <2>7. \A t \in MwUsed' : /\ t \in MwUsed /\ t # s /\ mwSlot'[t] = mwSlot[t] /\ mwSlot[t] # r
                           /\ mwSlot[t] \in MwRegs /\ mwReg'[mwSlot[t]] = mwReg[mwSlot[t]]
    BY <1>3, <1>4, <1>5, <2>6 DEF MwNowhere
  <2>8. MwTyped'
    BY <1>1, <1>2, <1>4, <2>5, <2>6 DEF MwTyped, MwAdvSteps
  <2>9. MwApart'
    BY <2>7 DEF MwServInv, MwApart
  <2>10. MwNowhere(q)' /\ MwNowhere(r)'
    BY <1>0, <1>5, <2>1, <2>2, <2>6 DEF MwNowhere, MwServInv, MwApart, MwUsed
  <2>11. \A t \in MwUsed' : MwSettled(mwSlot[t])' /\ mwReg'[mwSlot'[t]].type # type
    <3>1. \A t \in MwUsed : t # s => mwReg[mwSlot[t]].type # type
      BY <2>1, <2>2 DEF MwServInv, MwApart
    <3> QED BY <1>3, <1>7, <2>7, <3>1
  <2>12. MwAdvertises(5, q, r, s)'
    BY <1>4, <1>7, <1>8, <2>2, <2>5, <2>6, <2>10, <2>11 DEF MwAdvertises
  <2> QED BY <1>6, <2>2, <2>8, <2>9, <2>12 DEF MwServInv, MwPlan
<1>10. ASSUME MwOwn(type) = {}, MwSlots # MwUsed, mwSlot' = mwSlot,
              mwTodo' = MwPublish("advertise", r)
                          \o <<<<"place", r, MwLowest(MwSlots \ MwUsed)>>>>
       PROVE  MwServInv'
  <2>1. PICK s : s = MwLowest(MwSlots \ MwUsed)
    OBVIOUS
  <2>2. s \in MwSlots \ MwUsed
    <3>1. MwSlots \ MwUsed \in SUBSET Nat /\ MwSlots \ MwUsed # {}
      BY <1>0, <1>10 DEF MwUsed
    <3>2. \E m \in MwSlots \ MwUsed : \A k \in MwSlots \ MwUsed : m <= k
      BY <3>1, LeastOf
    <3> QED BY <2>1, <3>2 DEF MwLowest
  <2>3. /\ <<"publish", r, "advertise">> \in MwItems
        /\ <<"published", r, "advertise">> \in MwItems /\ <<"place", r, s>> \in MwItems
    BY <2>2 DEF MwItems
  <2>4. mwTodo' = <<<<"publish", r, "advertise">>, <<"published", r, "advertise">>,
                    <<"place", r, s>>>>
    BY <1>10, <2>1, <2>2, MwJoined
  <2>5. MwAdvSteps(mwTodo', 3, r, r, s)
    BY <2>3, <2>4 DEF MwAdvSteps
  <2>6. MwUsed' = MwUsed /\ mwSlot'[s] = MwNone
    BY <1>10, <2>2 DEF MwUsed
  <2>7. \A t \in MwUsed : mwSlot[t] # r /\ mwReg'[mwSlot[t]] = mwReg[mwSlot[t]]
    BY <1>3, <1>4, <1>5 DEF MwNowhere
  <2>8. MwTyped'
    BY <1>1, <1>2, <1>4, <1>10, <2>5 DEF MwTyped, MwAdvSteps
  <2>9. MwApart'
    BY <1>10, <2>6, <2>7 DEF MwServInv, MwApart
  <2>10. MwNowhere(r)'
    BY <1>5, <1>10 DEF MwNowhere
  <2>11. \A t \in MwUsed' : MwSettled(mwSlot[t])' /\ mwReg'[mwSlot'[t]].type # type
    BY <1>3, <1>7, <1>10, <2>6, <2>7 DEF MwOwn
  <2>12. MwAdvertises(3, r, r, s)'
    BY <1>4, <1>8, <2>5, <2>6, <2>10, <2>11 DEF MwAdvertises
  <2> QED BY <1>6, <2>2, <2>8, <2>9, <2>12 DEF MwServInv, MwPlan
<1> QED BY <1>9, <1>10 DEF MwAdvertise

-----------------------------------------------------------------------------
\* Both halves, for a Server that waits as it says: publish() is answered in
\* time, Ctrl-C waits for a name change, and Windows knows a changed name.
MwInv == MwServInv /\ MwFindInv

\* It holds at the start.
LEMMA MwInitInv == MwInit => MwInv
<1> SUFFICES ASSUME MwInit PROVE MwInv
  OBVIOUS
<1>1. MwTyped
  BY EmptySeq DEF MwInit, MwTyped, MwRegType, MwUnused
<1>2. MwOwes
  BY DEF MwInit, MwOwes, MwQuiet
<1>3. MwUsed = {}
  BY DEF MwInit, MwUsed
<1>4. MwApart /\ MwPlan
  BY <1>3 DEF MwInit, MwApart, MwPlan, MwRests
<1>5. Cardinality({}) = 0 /\ IsFiniteSet({})
  BY FS_EmptySet
<1>6. MwFindInv
  BY <1>5 DEF MwInit, MwFindInv, MwCounted, MwOneRequest
<1> QED BY <1>1, <1>2, <1>4, <1>6 DEF MwInv, MwServInv

\* Neither half moves what the other is about.
LEMMA MwServStays ==
    ASSUME MwServInv, UNCHANGED mwServices
    PROVE  MwServInv'
<1>1. UNCHANGED <<mwLive, mwReg, mwOwed, mwSlot, mwTodo>>
  BY DEF mwServices
<1>2. MwTyped' /\ MwOwes' /\ MwUsed' = MwUsed
  BY <1>1 DEF MwServInv, MwTyped, MwOwes, MwQuiet, MwUsed
<1>3. MwApart'
  BY <1>1, <1>2 DEF MwServInv, MwApart
<1>4. /\ \A y : MwQuiet(y)' = MwQuiet(y) /\ MwSettled(y)' = MwSettled(y)
      /\ \A y : MwNowhere(y)' = MwNowhere(y)
  BY <1>1 DEF MwQuiet, MwSettled, MwNowhere
<1>5. MwPlan'
  <2>1. MwRests => MwRests'
    BY <1>1, <1>2, <1>4 DEF MwRests
  <2>2. \A n, q, r, s : MwAdvertises(n, q, r, s) => MwAdvertises(n, q, r, s)'
    BY <1>1, <1>2, <1>4 DEF MwAdvertises
  <2>3. \A s, m, r, f : MwRenews(s, m, r, f) => MwRenews(s, m, r, f)'
    BY <1>1, <1>2, <1>4 DEF MwRenews
  <2>4. \A s, m, r : MwEmpties(s, m, r) => MwEmpties(s, m, r)'
    BY <1>1, <1>2, <1>4 DEF MwEmpties
  <2> QED BY <2>1, <2>2, <2>3, <2>4 DEF MwServInv, MwPlan
<1> QED BY <1>2, <1>3, <1>5 DEF MwServInv

\* What leaves the browse alone keeps its half.
LEMMA MwFindStays ==
    ASSUME MwFindInv, UNCHANGED mwFinds
    PROVE  MwFindInv'
BY DEF mwFinds, mwHitVars, MwFindInv, MwCounted, MwOneRequest

\* Every step keeps it.
LEMMA MwSteps ==
    ASSUME MwLate = FALSE, MwBreak = FALSE, MwRefuses = FALSE, MwInv, [MwNext]_mwVars
    PROVE  MwInv'
<1>0. MwServInv /\ MwFindInv
  BY DEF MwInv
<1>1. ASSUME UNCHANGED mwFinds, MwServInv' PROVE MwInv'
  BY <1>0, <1>1, MwFindStays DEF MwInv
<1>2. ASSUME UNCHANGED mwServices, MwFindInv' PROVE MwInv'
  BY <1>0, <1>2, MwServStays DEF MwInv
<1>3. CASE MwConstruct \/ MwRename \/ MwDeinit
  <2>1. UNCHANGED mwFinds
    BY <1>3 DEF MwConstruct, MwRename, MwDeinit
  <2> QED BY <1>0, <1>1, <1>3, <2>1, MwBegins
<1>4. ASSUME NEW type \in MwTypes, NEW r \in MwRegs, MwAdvertise(type, r) PROVE MwInv'
  <2>1. UNCHANGED mwFinds
    BY <1>4 DEF MwAdvertise
  <2> QED BY <1>0, <1>1, <1>4, <2>1, MwAdvertiseStays
<1>5. ASSUME NEW r \in MwRegs, MwRenew(r) PROVE MwInv'
  <2>1. UNCHANGED mwFinds
    BY <1>5 DEF MwRenew
  <2> QED BY <1>0, <1>1, <1>5, <2>1, MwRenewStays
<1>6. CASE MwDrop
  <2>1. UNCHANGED mwFinds
    BY <1>6 DEF MwDrop
  <2> QED BY <1>0, <1>1, <1>6, <2>1, MwDropStays
<1>7. CASE MwAsksBack
  <2>1. UNCHANGED mwFinds
    BY <1>7 DEF MwAsksBack
  <2> QED BY <1>0, <1>1, <1>7, <2>1, MwAsks
<1>8. CASE MwWithdrawn
  <2>1. UNCHANGED mwFinds
    BY <1>8 DEF MwWithdrawn
  <2> QED BY <1>0, <1>1, <1>8, <2>1, MwLetsGo
<1>9. CASE MwPublishes
  <2>1. UNCHANGED mwFinds
    BY <1>9 DEF MwPublishes
  <2> QED BY <1>0, <1>1, <1>9, <2>1, MwPublishesStays
<1>10. CASE MwPublished
  <2>1. UNCHANGED mwFinds
    BY <1>10 DEF MwPublished
  <2> QED BY <1>0, <1>1, <1>10, <2>1, MwPublishedStays
<1>11. CASE MwPlace
  <2>1. UNCHANGED mwFinds
    BY <1>11 DEF MwPlace
  <2> QED BY <1>0, <1>1, <1>11, <2>1, MwPlaces
<1>12. CASE MwCtrlC
  <2>1. UNCHANGED mwFinds
    BY <1>12 DEF MwCtrlC
  <2> QED BY <1>0, <1>1, <1>12, <2>1, MwCtrlCStays
<1>13. ASSUME NEW r \in MwRegs, NEW c \in MwCallbacks, MwRegisterDone(r, c) PROVE MwInv'
  <2>1. UNCHANGED mwFinds
    BY <1>13 DEF MwRegisterDone
  <2> QED BY <1>0, <1>1, <1>13, <2>1, MwDoneStays
<1>14. CASE MwFindBegins \/ MwFindEnds \/ MwBrowseEnds \/ MwResolveLetsGo
  <2>1. UNCHANGED mwServices
    BY <1>14 DEF MwFindBegins, MwFindEnds, MwBrowseEnds, MwResolveLetsGo
  <2> QED BY <1>0, <1>2, <1>14, <2>1, MwFindSteps
<1>15. CASE \E asked, refused \in SUBSET MwHits : MwRound(asked, refused)
  <2>1. UNCHANGED mwServices
    BY <1>15 DEF MwRound
  <2> QED BY <1>0, <1>2, <1>15, <2>1, MwFindSteps
<1>16. CASE \E h \in MwHits, yes \in BOOLEAN : MwBrowseCb(h, yes) \/ MwResolveCb(h, yes)
  <2>1. UNCHANGED mwServices
    BY <1>16 DEF MwBrowseCb, MwResolveCb
  <2> QED BY <1>0, <1>2, <1>16, <2>1, MwFindSteps
<1>17. CASE UNCHANGED mwVars
  <2>1. UNCHANGED mwServices /\ UNCHANGED mwFinds
    BY <1>17 DEF mwVars
  <2> QED BY <1>0, <1>2, <2>1, MwFindStays
<1> QED BY <1>3, <1>4, <1>5, <1>6, <1>7, <1>8, <1>9, <1>10, <1>11, <1>12, <1>13, <1>14, <1>15,
     <1>16, <1>17 DEF MwNext

\* It is what is promised.
LEMMA MwInvIsSafe == MwInv => MwSafe
<1> SUFFICES ASSUME MwInv PROVE MwSafe
  OBVIOUS
<1>0. MwServInv /\ MwFindInv
  BY DEF MwInv
<1>1. MwFreedUnused
  <2>1. \A r \in MwRegs : mwReg[r].mem = "freed" => \A c \in MwCallbacks : mwOwed[r][c] = 0
    BY <1>0 DEF MwServInv, MwOwes, MwQuiet
  <2>2. mwTodo = <<>> => \A s \in MwUsed : mwReg[mwSlot[s]].mem = "held"
                                    /\ mwReg[mwSlot[s]].req = mwSlot[s]
    BY <1>0, MwAtRest DEF MwRests, MwSettled
  <2> QED BY <2>1, <2>2 DEF MwFreedUnused
<1>2. MwOneEach
  <2>1. ASSUME NEW type \in MwTypes PROVE Cardinality(MwOwn(type)) <= 1
    <3>1. \A s, t \in MwOwn(type) : s = t
      BY <1>0 DEF MwServInv, MwApart, MwOwn
    <3>2. CASE MwOwn(type) = {}
      BY <3>2, FS_EmptySet
    <3>3. CASE MwOwn(type) # {}
      <4>1. PICK s : MwOwn(type) = {s}
        BY <3>1, <3>3
      <4> QED BY <4>1, FS_Singleton
    <3> QED BY <3>2, <3>3
  <2> QED BY <2>1 DEF MwOneEach
<1> QED BY <1>0, <1>1, <1>2 DEF MwSafe, MwFindInv

\* mdns_windows.c: nothing that Windows still owes a call is freed, whatever call
\* of the program it comes in; every slot has a live registration under its own
\* request between calls, one a service; the browse is there as long as its holders;
\* and no instance is asked for twice. For any number of slots, services,
\* registrations and instances, where publish() is answered within its five
\* seconds, Ctrl-C does not come in a name change and Windows takes its name.
THEOREM MwFreesNothingHeld ==
    ASSUME MwLate = FALSE, MwBreak = FALSE, MwRefuses = FALSE
    PROVE  MwSpec => []MwSafe
<1>1. MwInit => MwInv
  BY MwInitInv
<1>2. MwInv /\ [MwNext]_mwVars => MwInv'
  BY MwSteps
<1>3. MwInv => MwSafe
  BY MwInvIsSafe
<1> QED BY <1>1, <1>2, <1>3, PTL DEF MwSpec

-----------------------------------------------------------------------------
(***************************************************************************)
(* The pipes for every set of endpoints: none is freed or submitted again  *)
(* while its transfer is with the library, a call is woken by its own      *)
(* completion, and a kept read's bytes are not written over.               *)
(*                                                                         *)
(* The inductive invariant adds two facts to the checked ones: a call that *)
(* waits on a pipe has taken it over from the poll that kept it, and a     *)
(* transfer the library has not completed has brought nothing yet.         *)
(***************************************************************************)

\* The pipe a call waits on is the call's, no longer kept.
TakenOver == api \in {"waiting", "woken", "late", "retiring", "retired"} => ~kept[ep]

\* An armed transfer holds no bytes.
ArmedIsEmpty == \A e \in Eps : where[e] = "queued" => ~full[e]

\* The inductive invariant.
IInv == TypeOK /\ InFlightIsBusy /\ WokenByOwn /\ TakenOver /\ ArmedIsEmpty

-----------------------------------------------------------------------------
\* The pieces of TypeOK that the steps below disturb.

\* An endpoint goes in or out.
LEMMA EpsUnion == In \subseteq Eps /\ Out \subseteq Eps /\ \A e \in Eps : e \in In \/ e \in Out
BY DEF Eps

\* The invariant holds while nothing is claimed.
LEMMA InitInv == Init => IInv
<1>. SUFFICES ASSUME Init PROVE IInv
  OBVIOUS
<1>1. TypeOK
  BY EpsUnion DEF Init, TypeOK, NoPipes
<1>2. InFlightIsBusy /\ WokenByOwn /\ TakenOver /\ ArmedIsEmpty
  BY DEF Init, NoPipes, InFlightIsBusy, WokenByOwn, TakenOver, ArmedIsEmpty
<1> QED BY <1>1, <1>2 DEF IInv

\* Claiming, releasing and what a release has to drop keep it.
LEMMA ReleaseStep ==
    ASSUME IInv,
           Claim \/ Release \/ (\E e \in Eps : DropIdle(e) \/ DropBusy(e))
             \/ DropWaitEnds \/ DropEnds \/ Dropped \/ Released
    PROVE  IInv'
<1>. USE DEF IInv, TypeOK, InFlightIsBusy, WokenByOwn, TakenOver, ArmedIsEmpty, callVars, pipeVars
<1>1. CASE Claim
  BY <1>1 DEF Claim
<1>2. CASE Release
  BY <1>2 DEF Release
<1>3. ASSUME NEW e \in Eps, DropIdle(e) PROVE IInv'
  <2>1. where[e] = "ours"
    BY <1>3 DEF DropIdle
  <2> QED BY <1>3, <2>1 DEF DropIdle
<1>4. ASSUME NEW e \in Eps, DropBusy(e) PROVE IInv'
  BY <1>4 DEF DropBusy, Flush
<1>5. CASE DropWaitEnds
  BY <1>5 DEF DropWaitEnds
<1>6. CASE DropEnds
  BY <1>6 DEF DropEnds
<1>7. CASE Dropped
  BY <1>7 DEF Dropped
<1>8. CASE Released
  BY <1>8 DEF Released
<1> QED BY <1>1, <1>2, <1>3, <1>4, <1>5, <1>6, <1>7, <1>8

\* So does each step of a transfer.
LEMMA TransferStep ==
    ASSUME IInv,
           (\E e \in Eps, k \in BOOLEAN : Submit(e, k) \/ Collect(e, k))
             \/ (\E e \in Eps : NoMemory(e))
             \/ WaitEnds \/ Woken \/ LateKept \/ Late \/ RetireWaitEnds \/ Retired
    PROVE  IInv'
<1>. USE DEF IInv, TypeOK, InFlightIsBusy, WokenByOwn, TakenOver, ArmedIsEmpty, callVars, pipeVars
<1>1. ASSUME NEW e \in Eps, NEW k \in BOOLEAN, Submit(e, k) PROVE IInv'
  <2>1. where[e] = "ours" /\ api = "idle"
    BY <1>1 DEF Submit, Idle, Ready
  <2>2. TypeOK'
    <3>1. in_use' \in [Eps -> BOOLEAN] /\ busy' \in [Eps -> BOOLEAN] /\ kept' \in [Eps -> BOOLEAN]
      BY <1>1 DEF Submit
    <3>2. done' \in [Eps -> BOOLEAN] /\ full' \in [Eps -> BOOLEAN]
      BY <1>1 DEF Submit
    <3>3. where' \in [Eps -> {"ours", "queued", "completed"}]
          /\ xfer' \in [Eps -> {"none", "cached", "lost"}]
      BY <1>1 DEF Submit
    <3>4. \A f \in Out : ~kept'[f]
      BY <1>1, EpsUnion DEF Submit
    <3>5. dev' = dev /\ claimed' = claimed /\ todo' = todo
      BY <1>1 DEF Submit
    <3>6. ep' \in Eps /\ keep' \in BOOLEAN /\ api' \in {"idle", "waiting"}
      BY <1>1, <2>1 DEF Submit
    <3> QED BY <3>1, <3>2, <3>3, <3>4, <3>5, <3>6
  <2>3. InFlightIsBusy'
    BY <1>1, <2>1 DEF Submit
  <2>4. WokenByOwn'
    BY <1>1, <2>1 DEF Submit
  <2>5. TakenOver' /\ ArmedIsEmpty'
    BY <1>1, <2>1 DEF Submit
  <2> QED BY <2>2, <2>3, <2>4, <2>5
<1>2. ASSUME NEW e \in Eps, NEW k \in BOOLEAN, Collect(e, k) PROVE IInv'
  BY <1>2 DEF Collect, Idle
<1>3. CASE WaitEnds
  <2>1. api' \in {"woken", "late"} /\ (api' = "woken" => where[ep] = "ours")
    BY <1>3 DEF WaitEnds
  <2> QED BY <1>3, <2>1 DEF WaitEnds
<1>4. CASE Woken
  BY <1>4 DEF Woken
<1>5. CASE LateKept
  BY <1>5, HostXferAssumption DEF LateKept
<1>6. CASE Late
  BY <1>6 DEF Late, Flush
<1>7. CASE RetireWaitEnds
  BY <1>7 DEF RetireWaitEnds
<1>8. CASE Retired
  BY <1>8 DEF Retired
<1>9. ASSUME NEW e \in Eps, NoMemory(e) PROVE IInv'
  <2>1. where[e] = "ours" /\ api = "idle"
    BY <1>9 DEF NoMemory, Idle, Ready
  <2>2. TypeOK'
    <3>1. \A f \in Out : ~kept'[f]
      BY <1>9, EpsUnion DEF NoMemory
    <3> QED BY <1>9, <3>1 DEF NoMemory
  <2>3. InFlightIsBusy'
    BY <1>9, <2>1 DEF NoMemory
  <2>4. WokenByOwn' /\ TakenOver' /\ ArmedIsEmpty'
    BY <1>9, <2>1 DEF NoMemory
  <2> QED BY <2>2, <2>3, <2>4
<1> QED BY <1>1, <1>2, <1>3, <1>4, <1>5, <1>6, <1>7, <1>8, <1>9

\* And the library's and the task's steps.
LEMMA PumpStep ==
    ASSUME IInv, Pump
    PROVE  IInv'
<1>. USE DEF IInv, TypeOK, InFlightIsBusy, WokenByOwn, TakenOver, ArmedIsEmpty, callVars, pipeVars
<1>1. ASSUME NEW e \in Eps, Complete(e) PROVE IInv'
  <2>1. PICK b \in BOOLEAN : full' = [full EXCEPT ![e] = b]
    BY <1>1 DEF Complete
  <2> QED BY <1>1, <2>1 DEF Complete
<1>2. ASSUME NEW e \in Eps, Callback(e) PROVE IInv'
  BY <1>2 DEF Callback
<1>3. CASE Unplug
  BY <1>3 DEF Unplug
<1>4. CASE DevGone
  BY <1>4 DEF DevGone
<1>5. CASE Plug
  BY <1>5 DEF Plug
<1> QED BY <1>1, <1>2, <1>3, <1>4, <1>5 DEF Pump

\* Every step keeps the invariant.
LEMMA NextInv == IInv /\ [Next]_vars => IInv'
<1>. SUFFICES ASSUME IInv, [Next]_vars PROVE IInv'
  OBVIOUS
<1>1. CASE UNCHANGED vars
  BY <1>1 DEF IInv, TypeOK, InFlightIsBusy, WokenByOwn, TakenOver, ArmedIsEmpty, vars, pipeVars, callVars
<1>2. CASE Call
  BY <1>2, ReleaseStep, TransferStep DEF Call
<1>3. CASE InCall
  BY <1>3, ReleaseStep, TransferStep DEF InCall
<1>4. CASE Pump
  BY <1>4, PumpStep
<1> QED BY <1>1, <1>2, <1>3, <1>4 DEF Next

\* The invariant of every behaviour.
LEMMA Invariance == Spec => []IInv
<1>1. Init => IInv
  BY InitInv
<1>2. IInv /\ [Next]_vars => IInv'
  BY NextInv
<1> QED BY <1>1, <1>2, PTL DEF Spec

-----------------------------------------------------------------------------
\* The pipes' flags, transfers and call state keep their types, and only IN
\* endpoints are ever kept.
THEOREM TypeCorrect == Spec => []TypeOK
<1>1. IInv => TypeOK
  BY DEF IInv
<1> QED BY <1>1, Invariance, PTL

\* usbhost_xfer_pipe and usbhost_xfer_drop_pipes: no pipe is reused or freed
\* while the library has its transfer.
THEOREM PipesOutliveTransfers == Spec => []InFlightIsBusy
<1>1. IInv => InFlightIsBusy
  BY DEF IInv
<1> QED BY <1>1, Invariance, PTL

\* usbhost_xfer_wait: a semaphore given for an earlier transfer, late or
\* flushed, wakes no later call.
THEOREM WakeupsAreOwn == Spec => []WokenByOwn
<1>1. IInv => WokenByOwn
  BY DEF IInv
<1> QED BY <1>1, Invariance, PTL

\* usbhost_xfer_ep_: a kept transfer "is collected, never submitted again over
\* the top of data it may already hold".
THEOREM KeptBytesAreCollected == Spec => KeptBytesStay
<1>. DEFINE P(e) == kept[e] /\ in_use[e] /\ full[e] => full'[e] \/ ~in_use'[e]
<1>1. ASSUME IInv, [Next]_vars, NEW e \in Eps PROVE P(e)
  <2>. USE <1>1 DEF IInv, TypeOK, TakenOver, ArmedIsEmpty, pipeVars, callVars
  <2>1. CASE UNCHANGED vars
    BY <2>1 DEF vars
  <2>2. CASE Call
    BY <2>2 DEF Call, Claim, Release, Submit, NoMemory, Ready, Collect
  <2>3. CASE InCall
    <3>1. CASE Woken
      BY <3>1 DEF Woken
    <3>2. CASE Retired
      BY <3>2 DEF Retired
    <3>3. CASE ~(Woken \/ Retired)
      BY <2>3, <3>3 DEF InCall, DropIdle, DropBusy, DropWaitEnds, DropEnds, Dropped, Released,
                        WaitEnds, LateKept, Late, RetireWaitEnds
    <3> QED BY <3>1, <3>2, <3>3
  <2>4. CASE Pump
    <3>1. ASSUME NEW f \in Eps, Complete(f) PROVE P(e)
      <4>1. PICK b \in BOOLEAN : full' = [full EXCEPT ![f] = b]
        BY <3>1 DEF Complete
      <4> QED BY <3>1, <4>1 DEF Complete
    <3>2. CASE ~\E f \in Eps : Complete(f)
      BY <2>4, <3>2 DEF Pump, Callback, Unplug, DevGone, Plug
    <3> QED BY <3>1, <3>2
  <2> QED BY <2>1, <2>2, <2>3, <2>4 DEF Next
<1>2. IInv /\ [Next]_vars => [\A e \in Eps : P(e)]_vars
  BY <1>1
<1> QED BY <1>2, Invariance, PTL DEF KeptBytesStay, Spec

-----------------------------------------------------------------------------
(***************************************************************************)
(* A camera's picture, for any exposure range, frame brightness, black,    *)
(* gains and matrix: the ISP's Bayer order is for the way the sensor       *)
(* reads, the exposure loop moves toward its target and from a fresh       *)
(* frame, the balance that is told is what is applied, and what the code   *)
(* has on the heap is freed once. Inductive are what the flips' copies     *)
(* and the loop's own record tell of a sensor that cannot be asked, which  *)
(* frames are still to be skipped, and what the next write aims at.        *)
(***************************************************************************)

\* The cameras of the promise: each has its own code or a whole table, the writes that
\* would leave a loop or a making half done are taken, nobody sets the exposure of a
\* sensor that cannot be asked, and a write shows within the frames the loop skips.
CtPlain ==
    /\ "bare" \notin CtKinds /\ CtFails \cap {"make", "expose"} = {}
    /\ ~CtBlindHand /\ CtDelay <= 1

\* The two flips, a sensor that works, and what there is of one on the heap.
CtFlips == [v : BOOLEAN, h : BOOLEAN]

CtWorks == ctOpen \in {"isp", "raw"}

CtLife ==
    /\ ctAspect \in {"orient", "expose", "balance"} /\ ctOpen \in {"no", "isp", "raw", "half"}
    /\ ctKind \in {"driver", "blind", "table"} /\ CtHeld

\* Which way a sensor that cannot be asked was turned is known once it works, and the
\* ISP's order is for the way the register says.
CtOrient ==
    /\ ctFlip.reg \in [v : BOOLEAN, h : BOOLEAN, rest : BOOLEAN] /\ ctFlip.copy \in CtFlips
    /\ ctFlip = [reg |-> ctFlip.reg, copy |-> ctFlip.copy, known |-> ctFlip.known]
    /\ ctFlip.known \in SUBSET {"v", "h"}
    /\ ctOrder \in [declared : DOMAIN CtCells, fixed : BOOLEAN, isp : DOMAIN CtCells]
    /\ ctAspect = "orient" /\ CtWorks /\ ctKind = "blind" =>
           ctFlip.known = {"v", "h"} /\ ctFlip.copy = [v |-> ctFlip.reg.v, h |-> ctFlip.reg.h]
    /\ ctAspect = "orient" /\ ctOpen = "isp" /\ ~ctOrder.fixed =>
           ctOrder.isp = CtBayerFor(ctOrder.declared, ctFlip.reg.v, ctFlip.reg.h, ctKind)

\* The values a sensor takes, and what the loop keeps.
CtRangeOf(what) == IF what = "e" THEN 1 .. CtTop ELSE 0 .. CtGainTop

CtLoopTypes ==
    /\ ctSensor \in [has : SUBSET {"e", "g"}, at : [e : 1 .. CtTop, g : 0 .. CtGainTop]]
    /\ ctAe \in [on : BOOLEAN, new : BOOLEAN, luma : Nat, skip : Nat, target : Int,
                 last : [e : Int, g : Int]]
    /\ ctSince \in Nat

\* The loop knows what a sensor has that cannot be asked.
CtKnows ==
    ctAspect = "expose" /\ CtWorks /\ ctKind = "blind" =>
        ctSensor.has = {"e"} /\ ctSensor.at.e = IF ctAe.last.e >= 0 THEN ctAe.last.e ELSE 1

\* The frames the loop skips and those the sensor still needs.
CtSettles ==
    \/ ctSince > CtDelay
    \/ ctAe.skip >= 2
    \/ ctAe.skip = 1 /\ (ctAe.new => ctSince >= 1)
    \/ ctAe.skip = 0 /\ ~ctAe.new /\ ctSince >= 1

\* What the loop is about to write is toward the target.
CtAim ==
    /\ ctAspect = "expose" /\ ctOpen = "isp" /\ ctDoes.what \in {"e", "g"}
    /\ ctDoes.what \in ctSensor.has /\ ctDoes.v \in CtRangeOf(ctDoes.what) /\ ctDoes.luma \in Nat
    /\ ctDoes.fresh
    /\ ctDoes.luma < ctAe.target => ctSensor.at[ctDoes.what] <= ctDoes.v
    /\ ctDoes.luma > ctAe.target => ctDoes.v <= ctSensor.at[ctDoes.what]

CtExpose ==
    /\ CtLoopTypes /\ CtKnows /\ CtSettles
    /\ ctDoes # CtRest => CtAim
    /\ CtTowards /\ CtFresh

\* What a balance is made of.
CtTuned ==
    [black : 0 .. 255, gamma : {"own", "another"}, red : Int, blue : Int, m : [1 .. 9 -> Int],
     block : BOOLEAN, on : BOOLEAN, gammaOn : BOOLEAN, ccm : [1 .. 9 -> Int], gains : Int \X Int,
     curve : [1 .. 3 -> [off : 0 .. 2048, gamma : {"own", "another"}]]]

\* A curve that was started takes nothing off where there is no black.
CtBlackless(w) == w.black = 0 => \A r \in 1 .. 3 : w.curve[r].off = 0

CtBalance == ctW \in CtTuned /\ ctW.gammaOn /\ CtBlackless(ctW) /\ CtBlackGone /\ CtBalanced

\* The invariant.
CtInv == CtLife /\ CtOrient /\ CtExpose /\ CtBalance

\* The cell a sensor reads from the other ends.
CtTurned(order, flip, mirror, kind) ==
    LET p == CtCells[order]
        q == IF mirror # CtTableMirror(kind) THEN <<p[2], p[1], p[4], p[3]>> ELSE p
    IN  IF flip THEN <<q[3], q[4], q[1], q[2]>> ELSE q

\* Each order turned either way is one of the four.
LEMMA CtFourOrders ==
    /\ DOMAIN CtCells = {"RGGB", "GRBG", "GBRG", "BGGR"}
    /\ CtCells["RGGB"] = <<"R", "G", "G", "B">> /\ CtCells["GRBG"] = <<"G", "R", "B", "G">>
    /\ CtCells["GBRG"] = <<"G", "B", "R", "G">> /\ CtCells["BGGR"] = <<"B", "G", "G", "R">>
BY DEF CtCells

\* so the cell of a reading from other ends is that of some order.
LEMMA CtTurnedIs ==
    ASSUME NEW order \in DOMAIN CtCells, NEW flip \in BOOLEAN, NEW mirror \in BOOLEAN, NEW kind
    PROVE  \E o \in DOMAIN CtCells : CtCells[o] = CtTurned(order, flip, mirror, kind)
<1> DEFINE turn == mirror # CtTableMirror(kind)
<1>1. CASE order = "RGGB"
  <2>1. CtTurned(order, flip, mirror, kind)
          = IF flip THEN (IF turn THEN CtCells["BGGR"] ELSE CtCells["GBRG"])
            ELSE (IF turn THEN CtCells["GRBG"] ELSE CtCells["RGGB"])
    BY <1>1, CtFourOrders DEF CtTurned
  <2> QED BY <2>1, CtFourOrders
<1>2. CASE order = "GRBG"
  <2>1. CtTurned(order, flip, mirror, kind)
          = IF flip THEN (IF turn THEN CtCells["GBRG"] ELSE CtCells["BGGR"])
            ELSE (IF turn THEN CtCells["RGGB"] ELSE CtCells["GRBG"])
    BY <1>2, CtFourOrders DEF CtTurned
  <2> QED BY <2>1, CtFourOrders
<1>3. CASE order = "GBRG"
  <2>1. CtTurned(order, flip, mirror, kind)
          = IF flip THEN (IF turn THEN CtCells["GRBG"] ELSE CtCells["RGGB"])
            ELSE (IF turn THEN CtCells["BGGR"] ELSE CtCells["GBRG"])
    BY <1>3, CtFourOrders DEF CtTurned
  <2> QED BY <2>1, CtFourOrders
<1>4. CASE order = "BGGR"
  <2>1. CtTurned(order, flip, mirror, kind)
          = IF flip THEN (IF turn THEN CtCells["RGGB"] ELSE CtCells["GRBG"])
            ELSE (IF turn THEN CtCells["GBRG"] ELSE CtCells["BGGR"])
    BY <1>4, CtFourOrders DEF CtTurned
  <2> QED BY <2>1, CtFourOrders
<1> QED BY <1>1, <1>2, <1>3, <1>4, CtFourOrders

\* So the order there is to be found has the cell that is read.
LEMMA CtBayerIs ==
    ASSUME NEW order \in DOMAIN CtCells, NEW flip \in BOOLEAN, NEW mirror \in BOOLEAN, NEW kind
    PROVE  /\ CtBayerFor(order, flip, mirror, kind) \in DOMAIN CtCells
           /\ CtCells[CtBayerFor(order, flip, mirror, kind)] = CtTurned(order, flip, mirror, kind)
<1>1. CtBayerFor(order, flip, mirror, kind)
        = CHOOSE o \in DOMAIN CtCells : CtCells[o] = CtTurned(order, flip, mirror, kind)
  BY DEF CtBayerFor, CtTurned
<1> HIDE DEF CtTurned
<1> QED BY <1>1, CtTurnedIs

\* Where the register says the cell is read from, its colours are those of the cell turned.
LEMMA CtColoursOf ==
    ASSUME CtOrient, CtLife
    PROVE  CtColours
<1> SUFFICES ASSUME ctAspect = "orient", ctOpen = "isp", ~ctOrder.fixed,
                    NEW row \in {0, 1}, NEW col \in {0, 1}
             PROVE  CtCells[ctOrder.isp][2 * row + col + 1] = CtSeen(row, col)
  BY DEF CtColours
<1> DEFINE d == ctOrder.declared
           v == ctFlip.reg.v
           h == ctFlip.reg.h
           turn == h # CtTableMirror(ctKind)
           p == CtCells[d]
           y == (row + IF v THEN 1 ELSE 0) % 2
           x == (col + IF turn THEN 1 ELSE 0) % 2
<1>1. d \in DOMAIN CtCells /\ v \in BOOLEAN /\ h \in BOOLEAN
  BY DEF CtOrient
<1>2. CtCells[ctOrder.isp] = CtTurned(d, v, h, ctKind)
  BY <1>1, CtBayerIs DEF CtOrient
<1>3. CtSeen(row, col) = p[2 * y + x + 1]
  BY DEF CtSeen
<1>4. CtTurned(d, v, h, ctKind)
        = IF v THEN (IF turn THEN <<p[4], p[3], p[2], p[1]>> ELSE <<p[3], p[4], p[1], p[2]>>)
          ELSE (IF turn THEN <<p[2], p[1], p[4], p[3]>> ELSE <<p[1], p[2], p[3], p[4]>>)
  <2>1. p = <<p[1], p[2], p[3], p[4]>>
    BY <1>1, CtFourOrders
  <2>2. turn = (h # CtTableMirror(ctKind))
    OBVIOUS
  <2> HIDE DEF p, turn, v, h
  <2>3. d \in DOMAIN CtCells => CtCells[d] = p
    BY DEF p
  <2> QED BY <2>1, <2>2, <2>3, <1>1 DEF CtTurned
<1>5. y = IF v THEN 1 - row ELSE row
  OBVIOUS
<1>6. x = IF turn THEN 1 - col ELSE col
  OBVIOUS
<1> HIDE DEF y, x, turn, v, h, p
<1>7. CtTurned(d, v, h, ctKind)[2 * row + col + 1] = p[2 * y + x + 1]
  <2>1. CASE row = 0 /\ col = 0
    BY <2>1, <1>4, <1>5, <1>6
  <2>2. CASE row = 0 /\ col = 1
    BY <2>2, <1>4, <1>5, <1>6
  <2>3. CASE row = 1 /\ col = 0
    BY <2>3, <1>4, <1>5, <1>6
  <2>4. CASE row = 1 /\ col = 1
    BY <2>4, <1>4, <1>5, <1>6
  <2> QED BY <2>1, <2>2, <2>3, <2>4
<1> QED BY <1>2, <1>3, <1>7

\* What the flips' register and copies are.
CtFlipOK(f) ==
    /\ f.reg \in [v : BOOLEAN, h : BOOLEAN, rest : BOOLEAN] /\ f.copy \in CtFlips
    /\ f = [reg |-> f.reg, copy |-> f.copy, known |-> f.known] /\ f.known \in SUBSET {"v", "h"}

\* Of a sensor that answers, or whose flips are all known, what is read is what is.
CtTold(f, kind) ==
    kind = "blind" => f.known = {"v", "h"} /\ f.copy = [v |-> f.reg.v, h |-> f.reg.h]

\* A flip: what was known of the sensor is still known; one that is refused leaves the
\* register; one that is taken reads back as the register is.
LEMMA CtSetFlipKeeps ==
    ASSUME NEW kind \in {"driver", "blind", "table"}, NEW which \in {"v", "h"},
           NEW on \in BOOLEAN, NEW how \in {"ok", "flip", "read"}, NEW f, NEW g,
           CtFlipOK(f), g = CtSetFlip(f, kind, which, on, how)
    PROVE  /\ CtFlipOK(g)
           /\ CtTold(f, kind) => CtTold(g, kind)
           /\ ~CtTook(kind, how) => g.reg = f.reg
           /\ CtTook(kind, how) /\ CtTold(g, kind) =>
                  CtGetFlip(g, kind, "v") = g.reg.v /\ CtGetFlip(g, kind, "h") = g.reg.h
           /\ how = "ok" => g.reg[which] = on
<1>0. PICK reg \in [v : BOOLEAN, h : BOOLEAN, rest : BOOLEAN], copy \in CtFlips,
           known \in SUBSET {"v", "h"} :
        reg = f.reg /\ copy = f.copy /\ known = f.known
  BY DEF CtFlipOK
<1>1. f = [reg |-> reg, copy |-> copy, known |-> known]
  BY <1>0 DEF CtFlipOK
<1>2. CASE kind = "table"
  <2>1. PICK c \in CtFlips : c = [copy EXCEPT ![which] = on]
    BY DEF CtFlips
  <2>2. g = [reg |-> IF how = "flip" THEN reg
                     ELSE [v |-> c.v, h |-> c.h, rest |-> reg.rest /\ how # "read"],
             copy |-> c, known |-> known]
    BY <1>2, <1>1, <2>1 DEF CtSetFlip, CtTableFlip
  <2>3. c[which] = on /\ c.v \in BOOLEAN /\ c.h \in BOOLEAN
    BY <2>1 DEF CtFlips
  <2>4. CtFlipOK(g)
    <3>1. CASE how = "flip"
      BY <3>1, <2>2 DEF CtFlipOK
    <3>2. CASE how # "flip"
      BY <3>2, <2>2, <2>3 DEF CtFlipOK
    <3> QED BY <3>1, <3>2
  <2>5. ~CtTook(kind, how) => g.reg = f.reg
    BY <1>2, <1>1, <2>2 DEF CtTook
  <2>6. CtTook(kind, how) =>
          /\ CtGetFlip(g, kind, "v") = g.reg.v /\ CtGetFlip(g, kind, "h") = g.reg.h
          /\ g.reg[which] = on
    <3>1. CtGetFlip(g, kind, "v") = c.v /\ CtGetFlip(g, kind, "h") = c.h
      BY <1>2, <2>2 DEF CtGetFlip
    <3>2. CtTook(kind, how) => g.reg = [v |-> c.v, h |-> c.h, rest |-> reg.rest /\ how # "read"]
      BY <1>2, <2>2 DEF CtTook
    <3> QED BY <3>1, <3>2, <2>3
  <2>7. CtTold(g, kind) /\ (how = "ok" => CtTook(kind, how))
    BY <1>2 DEF CtTold, CtTook
  <2> QED BY <2>4, <2>5, <2>6, <2>7
<1>3. CASE kind # "table"
  <2>1. CASE how = "flip"
    <3>1. g = f
      BY <1>3, <2>1 DEF CtSetFlip
    <3>2. ~CtTook(kind, how)
      BY <1>3, <2>1 DEF CtTook
    <3> QED BY <3>1, <3>2, <2>1
  <2>2. CASE how # "flip"
    <3>1. PICK c \in CtFlips : c = [copy EXCEPT ![which] = on]
      BY DEF CtFlips
    <3>2. PICK r \in [v : BOOLEAN, h : BOOLEAN, rest : BOOLEAN] : r = [reg EXCEPT ![which] = on]
      OBVIOUS
    <3>3. PICK n \in SUBSET {"v", "h"} : n = known \cup {which}
      OBVIOUS
    <3>4. g = [reg |-> r, copy |-> c, known |-> n]
      BY <1>3, <2>2, <1>1, <3>1, <3>2, <3>3 DEF CtSetFlip
    <3>5. r[which] = on
      BY <3>2
    <3>6. CtFlipOK(g)
      BY <3>4 DEF CtFlipOK
    <3>7. CtTold(f, kind) => CtTold(g, kind)
      <4> SUFFICES ASSUME kind = "blind", known = {"v", "h"}, copy = [v |-> reg.v, h |-> reg.h]
                   PROVE  n = {"v", "h"} /\ c = [v |-> r.v, h |-> r.h]
        BY <1>1, <3>4 DEF CtTold
      <4> QED BY <3>1, <3>2, <3>3 DEF CtFlips
    <3>8. CtTold(g, kind) =>
            CtGetFlip(g, kind, "v") = g.reg.v /\ CtGetFlip(g, kind, "h") = g.reg.h
      <4>1. CASE kind = "driver"
        BY <4>1 DEF CtGetFlip
      <4>2. CASE kind = "blind"
        <5> HAVE CtTold(g, kind)
        <5>1. n = {"v", "h"} /\ c = [v |-> r.v, h |-> r.h]
          BY <4>2, <3>4 DEF CtTold
        <5> QED BY <5>1, <4>2, <3>4 DEF CtGetFlip
      <4> QED BY <4>1, <4>2, <1>3
    <3> QED BY <3>4, <3>5, <3>6, <3>7, <3>8, <2>2 DEF CtTook
  <2> QED BY <2>1, <2>2
<1> QED BY <1>2, <1>3

\* What is promised of the orientation, by the flips and the order.
LEMMA CtFlipsOrient ==
    CtOrient <=>
      /\ CtFlipOK(ctFlip)
      /\ ctOrder \in [declared : DOMAIN CtCells, fixed : BOOLEAN, isp : DOMAIN CtCells]
      /\ ctAspect = "orient" /\ CtWorks => CtTold(ctFlip, ctKind)
      /\ ctAspect = "orient" /\ ctOpen = "isp" /\ ~ctOrder.fixed =>
             ctOrder.isp = CtBayerFor(ctOrder.declared, ctFlip.reg.v, ctFlip.reg.h, ctKind)
BY DEF CtOrient, CtFlipOK, CtTold

\* A program that turns the picture keeps the order for the way the sensor reads.
LEMMA CtTurnsOrient ==
    ASSUME CtPlain, CtLife, CtOrient,
           NEW which \in {"v", "h"}, NEW on \in BOOLEAN, NEW how \in CtHow, CtTurns(which, on, how)
    PROVE  CtOrient'
<1>0. how \in {"ok", "flip", "read"} /\ CtFlipOK(ctFlip) /\ ctKind \in {"driver", "blind", "table"}
  BY CtFlipsOrient DEF CtHow, CtLife
<1>1. ctFlip' = CtSetFlip(ctFlip, ctKind, which, on, how)
  BY DEF CtTurns
<1>2. /\ CtFlipOK(ctFlip')
      /\ CtTold(ctFlip, ctKind) => CtTold(ctFlip', ctKind)
      /\ ~CtTook(ctKind, how) => ctFlip'.reg = ctFlip.reg
      /\ CtTook(ctKind, how) /\ CtTold(ctFlip', ctKind) =>
             /\ CtGetFlip(ctFlip', ctKind, "v") = ctFlip'.reg.v
             /\ CtGetFlip(ctFlip', ctKind, "h") = ctFlip'.reg.h
  BY <1>0, <1>1, CtSetFlipKeeps
<1>3. CtTold(ctFlip, ctKind) /\ CtWorks /\ ctAspect = "orient"
  BY CtFlipsOrient DEF CtTurns, CtWorks
<1>4. CtTold(ctFlip', ctKind) /\ UNCHANGED <<ctKind, ctAspect, ctOpen>>
  BY <1>2, <1>3 DEF CtTurns, ctOfLife
<1>5. PICK d \in DOMAIN CtCells, x \in BOOLEAN, i \in DOMAIN CtCells :
        ctOrder = [declared |-> d, fixed |-> x, isp |-> i]
  BY DEF CtOrient
<1>6. CASE ~CtTook(ctKind, how)
  <2>1. ctOrder' = ctOrder /\ ctFlip'.reg = ctFlip.reg
    BY <1>6, <1>2 DEF CtTurns
  <2> QED BY <2>1, <1>2, <1>4, CtFlipsOrient DEF CtFlipOK, CtTold, CtOrient, CtWorks
<1>7. CASE CtTook(ctKind, how)
  <2>1. ctOrder' = CtFollows(ctFlip')
    BY <1>7 DEF CtTurns
  <2>2. PICK v \in BOOLEAN, h \in BOOLEAN : v = ctFlip'.reg.v /\ h = ctFlip'.reg.h
    BY <1>2 DEF CtFlipOK
  <2>3. CASE ctOpen # "isp" \/ ctOrder.fixed
    <3>1. ctOrder' = ctOrder
      BY <2>1, <2>3 DEF CtFollows
    <3> QED BY <3>1, <2>3, <1>2, <1>4 DEF CtFlipOK, CtTold, CtOrient, CtWorks
  <2>4. CASE ~(ctOpen # "isp" \/ ctOrder.fixed)
    <3>1. ctOrder' = [ctOrder EXCEPT !.isp = CtBayerFor(ctOrder.declared, v, h, ctKind)]
      BY <2>1, <2>2, <2>4, <1>2, <1>4, <1>7 DEF CtFollows
    <3>2. PICK o \in DOMAIN CtCells : o = CtBayerFor(d, v, h, ctKind)
      BY CtBayerIs
    <3>3. ctOrder' = [declared |-> d, fixed |-> x, isp |-> o]
      BY <3>1, <3>2, <1>5
    <3>4. ctOrder' \in [declared : DOMAIN CtCells, fixed : BOOLEAN, isp : DOMAIN CtCells]
      BY <3>3
    <3>5. ctOrder'.isp = CtBayerFor(ctOrder'.declared, ctFlip'.reg.v, ctFlip'.reg.h, ctKind')
      BY <3>3, <3>2, <2>2, <1>4
    <3> QED BY <3>4, <3>5, <1>2, <1>4 DEF CtFlipOK, CtTold, CtOrient, CtWorks
  <2> QED BY <2>3, <2>4
<1> QED BY <1>6, <1>7

\* So does a camera that is made: it turns, and then looks at the register.
LEMMA CtMakesOrient ==
    ASSUME CtPlain, CtLife, CtOrient, NEW kind \in CtKinds, CtMake(kind)
    PROVE  CtOrient'
<1>0. kind \in {"driver", "blind", "table"} /\ ctKind' = kind /\ ctAspect' = ctAspect
  BY CtAssumption DEF CtMake, CtPlain
<1>1. CASE ctAspect # "orient"
  BY <1>1, <1>0 DEF CtMake, ctOfFlip, CtOrient, CtFlips
<1>2. CASE ctAspect = "orient"
  <2>1. PICK order \in DOMAIN CtCells, given \in {CtNone, "BGGR"}, v \in BOOLEAN, h \in BOOLEAN,
             hv \in CtHowMade, hh \in CtHowMade : CtOrients(kind, order, given, v, h, hv, hh)
    BY <1>2 DEF CtMake
  <2>2. hv = "ok" /\ hh = "ok"
    BY DEF CtHowMade, CtPlain
  <2>3. PICK f : f = CtOpened(kind)
    OBVIOUS
  <2>4. CtFlipOK(f) /\ f.known = {} /\ f.reg.v = FALSE
    BY <2>3 DEF CtOpened, CtFlipOK, CtFlips, CtTableMirror
  <2>5. PICK g : g = CtSetFlip(f, kind, "v", v, "ok")
    OBVIOUS
  <2>6. ctFlip' = CtSetFlip(g, kind, "h", h, "ok")
    BY <2>1, <2>2, <2>3, <2>5 DEF CtOrients
  <2>7. CtFlipOK(g) /\ g.reg["v"] = v
    <3>1. "v" \in {"v", "h"} /\ "ok" \in {"ok", "flip", "read"}
      OBVIOUS
    <3> QED BY <3>1, <2>4, <2>5, <1>0, CtSetFlipKeeps
  <2>8. CtFlipOK(ctFlip') /\ ctFlip'.reg["h"] = h
    <3>1. "h" \in {"v", "h"} /\ "ok" \in {"ok", "flip", "read"}
      OBVIOUS
    <3> QED BY <3>1, <2>7, <2>6, <1>0, CtSetFlipKeeps
  <2>9. ctFlip'.reg.v = v /\ CtTold(ctFlip', kind)
    <3>1. CASE kind = "table"
      <4>1. g.copy.v = v
        BY <3>1, <2>4, <2>5 DEF CtSetFlip, CtTableFlip, CtFlipOK, CtFlips
      <4>2. ctFlip'.reg.v = v
        BY <3>1, <2>6, <2>7, <4>1 DEF CtSetFlip, CtTableFlip, CtFlipOK, CtFlips
      <4> QED BY <4>2, <3>1 DEF CtTold
    <3>2. CASE kind # "table"
      <4>1. /\ g.known = {"v"} /\ g.copy.v = v
        BY <3>2, <2>4, <2>5, <1>0 DEF CtSetFlip, CtFlipOK, CtFlips
      <4>2. PICK reg \in [v : BOOLEAN, h : BOOLEAN, rest : BOOLEAN], copy \in CtFlips :
              g = [reg |-> reg, copy |-> copy, known |-> {"v"}] /\ reg.v = v /\ copy.v = v
        BY <2>7, <4>1 DEF CtFlipOK
      <4>3. ctFlip' = [reg |-> [reg EXCEPT !.h = h], copy |-> [copy EXCEPT !.h = h],
                       known |-> {"v"} \cup {"h"}]
        BY <3>2, <1>0, <2>6, <4>2 DEF CtSetFlip
      <4>4. [copy EXCEPT !.h = h] = [v |-> v, h |-> h]
        BY <4>2 DEF CtFlips
      <4>5. [reg EXCEPT !.h = h].v = v /\ [reg EXCEPT !.h = h].h = h
        BY <4>2
      <4> QED BY <4>3, <4>4, <4>5 DEF CtTold
    <3> QED BY <3>1, <3>2
  <2>10. ctOrder' = [declared |-> order, fixed |-> given # CtNone,
                     isp |-> IF given = CtNone THEN CtBayerFor(order, v, h, kind) ELSE given]
    BY <2>1 DEF CtOrients
  <2>11. PICK o \in DOMAIN CtCells :
           o = IF given = CtNone THEN CtBayerFor(order, v, h, kind) ELSE given
    BY CtBayerIs, CtFourOrders DEF CtNone
  <2>12. ctOrder' \in [declared : DOMAIN CtCells, fixed : BOOLEAN, isp : DOMAIN CtCells]
    BY <2>10, <2>11
  <2>13. ~ctOrder'.fixed => ctOrder'.isp = CtBayerFor(order, v, h, kind)
    BY <2>10
  <2> QED BY <2>8, <2>9, <2>10, <2>12, <2>13, <1>0 DEF CtOrient, CtFlipOK, CtTold
<1> QED BY <1>1, <1>2

\* Clamping brings two numbers no further apart.
LEMMA CtWithinNear ==
    ASSUME NEW a, NEW o, a \in Int, o \in 0 .. 2048, ~(CtAbs(a - o) >= 12)
    PROVE  CtAbs(CtWithin(0, a, 2048) - o) < 12
<1>1. a - o < 12 /\ o - a < 12 /\ CtAbs(a - o) < 12
  BY DEF CtAbs
<1>2. CASE a < 0
  <2>1. CtWithin(0, a, 2048) = 0
    BY <1>2 DEF CtWithin
  <2>2. CtAbs(0 - o) < 12
    BY <1>1, <1>2 DEF CtAbs
  <2> QED BY <2>1, <2>2
<1>3. CASE a > 2048
  <2>1. CtWithin(0, a, 2048) = 2048
    BY <1>3 DEF CtWithin
  <2>2. CtAbs(2048 - o) < 12
    BY <1>1, <1>3 DEF CtAbs
  <2> QED BY <2>1, <2>2
<1>4. CASE ~(a < 0) /\ ~(a > 2048)
  BY <1>1, <1>4 DEF CtWithin
<1> QED BY <1>2, <1>3, <1>4

\* A balance by its parts.
CtGammas == {"own", "another"}

CtCurves == [1 .. 3 -> [off : 0 .. 2048, gamma : CtGammas]]

CtRecord(u) ==
    [black |-> u.black, gamma |-> u.gamma, red |-> u.red, blue |-> u.blue, m |-> u.m,
     block |-> u.block, on |-> u.on, gammaOn |-> u.gammaOn, ccm |-> u.ccm,
     gains |-> u.gains, curve |-> u.curve]

CtParts(u) ==
    /\ u = CtRecord(u)
    /\ u.black \in 0 .. 255 /\ u.gamma \in CtGammas /\ u.red \in Int /\ u.blue \in Int
    /\ u.m \in [1 .. 9 -> Int] /\ u.block \in BOOLEAN /\ u.on \in BOOLEAN
    /\ u.gammaOn \in BOOLEAN /\ u.ccm \in [1 .. 9 -> Int] /\ u.gains \in Int \X Int
    /\ u.curve \in CtCurves

\* A balance is its parts.
LEMMA CtTunedIs ==
    ASSUME NEW A, NEW B, NEW C, NEW D, NEW E, NEW F, NEW G, NEW H, NEW I, NEW J, NEW K,
           NEW u \in [black : A, gamma : B, red : C, blue : D, m : E, block : F, on : G,
                      gammaOn : H, ccm : I, gains : J, curve : K]
    PROVE  u = CtRecord(u)
BY DEF CtRecord

\* A balance is one where its parts are what they may be.
LEMMA CtTunedParts == ASSUME NEW u PROVE u \in CtTuned <=> CtParts(u)
<1>1. ASSUME CtParts(u) PROVE u \in CtTuned
  BY <1>1, SMTT(30) DEF CtTuned, CtParts, CtRecord, CtGammas, CtCurves
<1>2. ASSUME u \in CtTuned PROVE CtParts(u)
  <2>1. u = CtRecord(u)
    BY <1>2, CtTunedIs DEF CtTuned, CtRecord
  <2> QED BY <2>1, <1>2, SMTT(30) DEF CtTuned, CtParts, CtGammas, CtCurves
<1> QED BY <1>1, <1>2

\* What a curve takes off is a number of its range, and none where there is no black.
LEMMA CtBlackAtInt ==
    ASSUME NEW w \in CtTuned, NEW r \in 1 .. 3
    PROVE  /\ CtBlackAt(w, r) \in Int /\ CtOff(w, r) \in 0 .. 2048
           /\ w.black = 0 => CtOff(w, r) = 0
<1> DEFINE sum == w.m[3 * (r - 1) + 1] * w.red + w.m[3 * (r - 1) + 2] * CtOne
                    + w.m[3 * (r - 1) + 3] * w.blue
<1>1. w.black \in 0 .. 255 /\ sum \in Int
  <2>1. w.m \in [1 .. 9 -> Int] /\ w.red \in Int /\ w.blue \in Int /\ w.black \in 0 .. 255
    BY DEF CtTuned
  <2>2. 3 * (r - 1) + 1 \in 1 .. 9 /\ 3 * (r - 1) + 2 \in 1 .. 9 /\ 3 * (r - 1) + 3 \in 1 .. 9
    OBVIOUS
  <2>3. w.m[3 * (r - 1) + 1] \in Int /\ w.m[3 * (r - 1) + 2] \in Int /\ w.m[3 * (r - 1) + 3] \in Int
    BY <2>1, <2>2
  <2> QED BY <2>1, <2>3 DEF CtOne
<1>2. CtBlackAt(w, r) = w.black * sum
  BY DEF CtBlackAt
<1> HIDE DEF sum
<1>3. CtBlackAt(w, r) \in Int /\ (w.black = 0 => CtBlackAt(w, r) = 0)
  BY <1>1, <1>2
<1>4. PICK a \in Int : a = CtBlackAt(w, r)
  BY <1>3
<1>5. CtOff(w, r) = CtWithin(0, a, 2048)
  BY <1>4 DEF CtOff, CtOne
<1>6. CtWithin(0, a, 2048) \in 0 .. 2048 /\ (a = 0 => CtWithin(0, a, 2048) = 0)
  BY DEF CtWithin
<1> QED BY <1>3, <1>4, <1>5, <1>6

\* A curve that is started takes off what there is.
CtGone(w) == \A r \in 1 .. 3 : CtAbs(CtOff(w, r) - w.curve[r].off) < 12 /\ w.curve[r].gamma = w.gamma

\* A start of the curve takes off the black there is and leaves gains and matrix.
LEMMA CtStartsGone ==
    ASSUME NEW w, NEW u \in CtTuned, w = CtGammaStart(u)
    PROVE  /\ w \in CtTuned /\ w.gammaOn /\ CtBlackless(w) /\ CtGone(w)
           /\ w.m = u.m /\ w.red = u.red /\ w.blue = u.blue /\ w.block = u.block
           /\ w.ccm = u.ccm /\ w.gains = u.gains
<1> DEFINE c == [r \in 1 .. 3 |-> [off |-> CtOff(u, r), gamma |-> u.gamma]]
<1>1. w = [u EXCEPT !.curve = c, !.gammaOn = TRUE]
  BY DEF CtGammaStart
<1>2. c \in CtCurves
  <2>1. u.gamma \in CtGammas
    BY DEF CtTuned, CtGammas
  <2> QED BY <2>1, CtBlackAtInt DEF CtCurves
<1>3. \A r \in 1 .. 3 : c[r].off = CtOff(u, r) /\ c[r].gamma = u.gamma
  OBVIOUS
<1> HIDE DEF c
<1>p. CtParts(u)
  BY CtTunedParts
<1>q. w = [black |-> u.black, gamma |-> u.gamma, red |-> u.red, blue |-> u.blue, m |-> u.m, block |-> u.block,
         on |-> u.on, gammaOn |-> TRUE, ccm |-> u.ccm, gains |-> u.gains, curve |-> c]
  BY <1>1, <1>p DEF CtParts, CtRecord
<1>4. w \in CtTuned /\ w.curve = c /\ w.gamma = u.gamma /\ w.black = u.black
      /\ w.m = u.m /\ w.red = u.red /\ w.blue = u.blue /\ w.block = u.block
      /\ w.ccm = u.ccm /\ w.gains = u.gains /\ w.on = u.on /\ w.gammaOn = TRUE
  <2>1. /\ w.curve = c /\ w.gamma = u.gamma /\ w.black = u.black
        /\ w.m = u.m /\ w.red = u.red /\ w.blue = u.blue /\ w.block = u.block
        /\ w.ccm = u.ccm /\ w.gains = u.gains /\ w.on = u.on /\ w.gammaOn = TRUE
    BY <1>q DEF CtRecord
  <2>2. CtParts(w)
    BY <1>q, <2>1, <1>p, <1>2 DEF CtParts, CtRecord
  <2> QED BY <2>1, <2>2, CtTunedParts
<1>5. \A r \in 1 .. 3 : CtOff(w, r) = CtOff(u, r) /\ CtOff(u, r) \in 0 .. 2048
  <2> TAKE r \in 1 .. 3
  <2>1. CtOff(w, r) = CtOff(u, r)
    BY <1>4 DEF CtOff, CtBlackAt
  <2> QED BY <2>1, CtBlackAtInt
<1>6. CtBlackless(w)
  <2> SUFFICES ASSUME u.black = 0, NEW r \in 1 .. 3 PROVE c[r].off = 0
    BY <1>4 DEF CtBlackless
  <2>1. CtOff(u, r) = 0
    BY CtBlackAtInt
  <2> QED BY <2>1, <1>3
<1>7. CtGone(w)
  <2> SUFFICES ASSUME NEW r \in 1 .. 3
               PROVE  CtAbs(CtOff(w, r) - c[r].off) < 12 /\ c[r].gamma = w.gamma
    BY <1>4 DEF CtGone
  <2>1. PICK a \in 0 .. 2048 : a = CtOff(u, r)
    BY <1>5
  <2>2. CtOff(w, r) = a /\ c[r].off = a /\ c[r].gamma = w.gamma
    BY <2>1, <1>3, <1>4, <1>5
  <2>3. CtAbs(a - a) < 12
    BY DEF CtAbs
  <2> QED BY <2>2, <2>3
<1> QED BY <1>4, <1>6, <1>7

\* A matrix within its limits is taken.
LEMMA CtMatrixTaken ==
    ASSUME NEW w \in CtTuned
    PROVE  CtMatrix(w) \in [1 .. 9 -> Int] /\ CtIspTakes(CtMatrix(w), w)
<1> DEFINE by(k) == IF w.block THEN CtOne
                    ELSE CASE k % 3 = 1 -> w.red [] k % 3 = 0 -> w.blue [] OTHER -> CtOne
<1>1. w.m \in [1 .. 9 -> Int] /\ w.red \in Int /\ w.blue \in Int /\ w.block \in BOOLEAN
  BY DEF CtTuned
<1>2. CtLimit(w) \in {63, 255} /\ CtLimit(w) + 1 = IF w.block THEN 256 ELSE 64
  BY DEF CtLimit
<1>3. \A k \in 1 .. 9 : CtMatrix(w)[k] = CtWithin(-CtLimit(w), w.m[k] * by(k), CtLimit(w))
  BY DEF CtMatrix
<1>4. \A k \in 1 .. 9 : CtMatrix(w)[k] \in -CtLimit(w) .. CtLimit(w)
  <2> TAKE k \in 1 .. 9
  <2>1. by(k) \in Int
    BY <1>1 DEF CtOne
  <2> HIDE DEF by
  <2>2. w.m[k] * by(k) \in Int
    BY <1>1, <2>1
  <2>3. PICK x \in Int, l \in Int : x = w.m[k] * by(k) /\ l = CtLimit(w) /\ -l <= l
    BY <1>2, <2>2
  <2>4. CtWithin(-l, x, l) \in -l .. l
    BY <2>3 DEF CtWithin
  <2> QED BY <1>3, <2>3, <2>4
<1>5. DOMAIN CtMatrix(w) = 1 .. 9 /\ CtMatrix(w) = [k \in 1 .. 9 |-> CtMatrix(w)[k]]
  BY DEF CtMatrix
<1>6. \A k \in 1 .. 9 : CtMatrix(w)[k] \in Int
  BY <1>2, <1>4
<1>7. CtMatrix(w) \in [1 .. 9 -> Int]
  BY <1>5, <1>6
<1>8. \A k \in 1 .. 9 : CtAbs(CtMatrix(w)[k]) < IF w.block THEN 256 ELSE 64
  <2> TAKE k \in 1 .. 9
  <2>1. PICK a \in Int : a = CtMatrix(w)[k] /\ a >= -CtLimit(w) /\ a <= CtLimit(w)
    BY <1>2, <1>4
  <2>2. CtAbs(a) <= CtLimit(w)
    BY <2>1, <1>2 DEF CtAbs
  <2>3. CtAbs(a) \in Int
    BY DEF CtAbs
  <2> QED BY <2>1, <2>2, <2>3, <1>2
<1> QED BY <1>7, <1>8 DEF CtIspTakes

\* After the matrix is told, the ISP has it, and black is off.
LEMMA CtApplies ==
    ASSUME NEW w, NEW u \in CtTuned, w = CtCcmApply(u), u.gammaOn, CtBlackless(u),
           \A r \in 1 .. 3 : u.curve[r].gamma = u.gamma
    PROVE  /\ w \in CtTuned /\ w.gammaOn /\ CtBlackless(w) /\ CtGone(w)
           /\ w.ccm = CtMatrix(w) /\ (w.block => w.gains = <<w.red, w.blue>>)
<1> DEFINE s == [u EXCEPT !.ccm = CtMatrix(u), !.gains = IF u.block THEN <<u.red, u.blue>> ELSE @]
<1>1. CtMatrix(u) \in [1 .. 9 -> Int] /\ CtIspTakes(CtMatrix(u), u)
  BY CtMatrixTaken
<1>2. w = IF u.black # 0 /\ u.gammaOn /\ CtBlackMoved(u) THEN CtGammaStart(s) ELSE s
  BY <1>1 DEF CtCcmApply
<1>3. /\ s \in CtTuned /\ s.black = u.black /\ s.gamma = u.gamma /\ s.curve = u.curve
      /\ s.m = u.m /\ s.red = u.red /\ s.blue = u.blue /\ s.block = u.block
      /\ s.ccm = CtMatrix(u) /\ (u.block => s.gains = <<u.red, u.blue>>) /\ s.gammaOn
  <2>1. CtParts(u)
    BY CtTunedParts
  <2>2. PICK n : n = IF u.block THEN <<u.red, u.blue>> ELSE u.gains
    OBVIOUS
  <2>3. s = [black |-> u.black, gamma |-> u.gamma, red |-> u.red, blue |-> u.blue, m |-> u.m, block |-> u.block,
         on |-> u.on, gammaOn |-> u.gammaOn, ccm |-> CtMatrix(u), gains |-> n, curve |-> u.curve]
    <3>1. s = [u EXCEPT !.ccm = CtMatrix(u), !.gains = n]
      BY <2>2
    <3> HIDE DEF s
    <3> QED BY <3>1, <2>1 DEF CtParts, CtRecord
  <2> HIDE DEF s
  <2>4. n \in Int \X Int
    BY <2>1, <2>2 DEF CtParts
  <2>5. /\ s.black = u.black /\ s.gamma = u.gamma /\ s.curve = u.curve
        /\ s.m = u.m /\ s.red = u.red /\ s.blue = u.blue /\ s.block = u.block
        /\ s.ccm = CtMatrix(u) /\ s.gains = n /\ s.on = u.on /\ s.gammaOn = u.gammaOn
    BY <2>3 DEF CtRecord
  <2>6. CtParts(s)
    BY <2>1, <2>3, <2>4, <2>5, <1>1 DEF CtParts, CtRecord
  <2> QED BY <2>2, <2>5, <2>6, CtTunedParts
<1> HIDE DEF s
<1>4. /\ CtMatrix(s) = CtMatrix(u)
      /\ \A r \in 1 .. 3 : CtOff(s, r) = CtOff(u, r) /\ CtBlackAt(s, r) = CtBlackAt(u, r)
  BY <1>3 DEF CtMatrix, CtLimit, CtOff, CtBlackAt
<1>5. CASE u.black # 0 /\ u.gammaOn /\ CtBlackMoved(u)
  <2>1. w = CtGammaStart(s)
    BY <1>2, <1>5
  <2>2. /\ w \in CtTuned /\ w.gammaOn /\ CtBlackless(w) /\ CtGone(w)
        /\ w.m = s.m /\ w.red = s.red /\ w.blue = s.blue /\ w.block = s.block
        /\ w.ccm = s.ccm /\ w.gains = s.gains
    BY <2>1, <1>3, CtStartsGone
  <2>3. CtMatrix(w) = CtMatrix(s)
    BY <2>2 DEF CtMatrix, CtLimit
  <2>4. w.ccm = CtMatrix(w)
    BY <2>2, <2>3, <1>3, <1>4
  <2>5. w.block => w.gains = <<w.red, w.blue>>
    BY <2>2, <1>3
  <2> QED BY <2>2, <2>4, <2>5
<1>6. CASE ~(u.black # 0 /\ u.gammaOn /\ CtBlackMoved(u))
  <2>1. w = s
    BY <1>2, <1>6
  <2>2. \A r \in 1 .. 3 : CtAbs(CtOff(u, r) - u.curve[r].off) < 12
    <3> TAKE r \in 1 .. 3
    <3>0. u.curve[r].off \in 0 .. 2048
      <4>1. CtParts(u)
        BY CtTunedParts
      <4>2. PICK c \in CtCurves : c = u.curve
        BY <4>1 DEF CtParts
      <4>3. c[r].off \in 0 .. 2048
        BY DEF CtCurves
      <4> QED BY <4>2, <4>3
    <3>1. CASE u.black = 0
      <4>1. CtOff(u, r) = 0 /\ u.curve[r].off = 0
        BY <3>1, CtBlackAtInt DEF CtBlackless
      <4> QED BY <4>1 DEF CtAbs
    <3>2. CASE u.black # 0
      <4>1. ~(CtAbs(CtBlackAt(u, r) - u.curve[r].off) >= 12)
        BY <3>2, <1>3, <1>6 DEF CtBlackMoved
      <4>2. CtBlackAt(u, r) \in Int
        BY CtBlackAtInt
      <4>5. CtAbs(CtWithin(0, CtBlackAt(u, r), 2048) - u.curve[r].off) < 12
        BY <4>1, <4>2, <3>0, CtWithinNear, SMTT(30)
      <4> QED BY <4>5 DEF CtOff, CtOne
    <3> QED BY <3>1, <3>2
  <2>3. CtGone(s)
    BY <2>2, <1>3, <1>4 DEF CtGone
  <2>4. CtBlackless(s)
    BY <1>3 DEF CtBlackless
  <2> QED BY <2>1, <2>3, <2>4, <1>3, <1>4
<1> QED BY <1>5, <1>6

\* Where a curve is started, what there was of one makes no difference.
LEMMA CtStartsAnew ==
    ASSUME NEW black, NEW gamma, NEW red, NEW blue, NEW m, NEW block, NEW on, NEW gammaOn,
           NEW ccm, NEW gains, NEW curve, NEW c, NEW z, NEW w, w = [z EXCEPT !.curve = c, !.gammaOn = TRUE],
           z = [black |-> black, gamma |-> gamma, red |-> red, blue |-> blue, m |-> m,
                block |-> block, on |-> on, gammaOn |-> gammaOn, ccm |-> ccm, gains |-> gains,
                curve |-> curve]
    PROVE  w = [black |-> black, gamma |-> gamma, red |-> red, blue |-> blue, m |-> m,
                block |-> block, on |-> on, gammaOn |-> TRUE, ccm |-> ccm, gains |-> gains,
                curve |-> c]
OBVIOUS

\* A balance that is begun has the sensor's black off and its matrix told.
LEMMA CtBegins ==
    ASSUME NEW w, NEW black \in Int, black \in 0 .. 255, NEW m \in [1 .. 9 -> Int],
           NEW block \in BOOLEAN, NEW on \in BOOLEAN, w = CtBegun(black, m, block, on)
    PROVE  /\ w \in CtTuned /\ w.gammaOn /\ CtBlackless(w) /\ CtGone(w)
           /\ w.ccm = CtMatrix(w) /\ (w.block => w.gains = <<w.red, w.blue>>)
<1> DEFINE z == [black |-> black, gamma |-> "own", red |-> 0, blue |-> 0, m |-> m,
                 block |-> FALSE, on |-> on, gammaOn |-> FALSE, ccm |-> CtIdentity,
                 gains |-> <<CtOne, CtOne>>, curve |-> <<>>]
           c0 == [r \in 1 .. 3 |-> [off |-> 0, gamma |-> "own"]]
           u == [black |-> black, gamma |-> "own", red |-> 0, blue |-> 0, m |-> m,
                 block |-> FALSE, on |-> on, gammaOn |-> TRUE, ccm |-> CtIdentity,
                 gains |-> <<CtOne, CtOne>>, curve |-> c0]
           v == CtGammaStart(z)
           x == [v EXCEPT !.red = CtOne, !.blue = CtOne, !.block = block]
<1>1. u \in CtTuned
  <2>1. c0 \in CtCurves /\ "own" \in CtGammas /\ CtIdentity \in [1 .. 9 -> Int]
        /\ <<CtOne, CtOne>> \in Int \X Int
    BY DEF CtCurves, CtGammas, CtIdentity, CtOne
  <2> HIDE DEF c0
  <2>3. /\ u.black = black /\ u.gamma = "own" /\ u.red = 0 /\ u.blue = 0 /\ u.m = m
        /\ u.block = FALSE /\ u.on = on /\ u.gammaOn = TRUE /\ u.ccm = CtIdentity
        /\ u.gains = <<CtOne, CtOne>> /\ u.curve = c0
    OBVIOUS
  <2>4. u = CtRecord(u)
    BY DEF CtRecord
  <2>b. u.block \in BOOLEAN /\ u.on \in BOOLEAN /\ u.gammaOn \in BOOLEAN
    OBVIOUS
  <2> HIDE DEF u
  <2>i. /\ u.black \in 0 .. 255 /\ u.gamma \in CtGammas /\ u.red \in Int /\ u.blue \in Int
        /\ u.m \in [1 .. 9 -> Int] /\ u.ccm \in [1 .. 9 -> Int] /\ u.gains \in Int \X Int
        /\ u.curve \in CtCurves
    BY <2>1, <2>3
  <2>5. CtParts(u)
    BY <2>b, <2>i, <2>4 DEF CtParts
  <2> QED BY <2>5, CtTunedParts
<1>2. v = CtGammaStart(u)
  <2>1. /\ z.black = u.black /\ z.gamma = u.gamma /\ z.red = u.red /\ z.blue = u.blue
        /\ z.m = u.m
    OBVIOUS
  <2>2. PICK c : c = [r \in 1 .. 3 |-> [off |-> CtOff(u, r), gamma |-> u.gamma]]
    OBVIOUS
  <2>3. c = [r \in 1 .. 3 |-> [off |-> CtOff(z, r), gamma |-> z.gamma]]
    <3> HIDE DEF z, u
    <3> QED BY <2>1, <2>2 DEF CtOff, CtBlackAt
  <2>4. PICK s : s = CtGammaStart(z)
    OBVIOUS
  <2>5. s = [z EXCEPT !.curve = c, !.gammaOn = TRUE]
    <3> HIDE DEF z, u
    <3> QED BY <2>3, <2>4 DEF CtGammaStart
  <2>6. PICK t : t = CtGammaStart(u)
    OBVIOUS
  <2>7. t = [u EXCEPT !.curve = c, !.gammaOn = TRUE]
    <3> HIDE DEF z, u
    <3> QED BY <2>2, <2>6 DEF CtGammaStart
  <2>8. t = [black |-> black, gamma |-> "own", red |-> 0, blue |-> 0, m |-> m,
             block |-> FALSE, on |-> on, gammaOn |-> TRUE, ccm |-> CtIdentity,
             gains |-> <<CtOne, CtOne>>, curve |-> c]
    BY <2>7, CtStartsAnew, Zenon
  <2>9. s = [black |-> black, gamma |-> "own", red |-> 0, blue |-> 0, m |-> m,
             block |-> FALSE, on |-> on, gammaOn |-> TRUE, ccm |-> CtIdentity,
             gains |-> <<CtOne, CtOne>>, curve |-> c]
    BY <2>5, CtStartsAnew, Zenon
  <2> QED BY <2>4, <2>6, <2>8, <2>9
<1>3. w = CtCcmApply(x)
  BY DEF CtBegun
<1> HIDE DEF z, u, v
<1>5. v \in CtTuned /\ v.gammaOn /\ CtBlackless(v) /\ CtGone(v)
  BY <1>1, <1>2, CtStartsGone
<1>6. x \in CtTuned /\ x.gammaOn /\ x.curve = v.curve /\ x.black = v.black /\ x.gamma = v.gamma
  <2>1. CtParts(v)
    BY <1>5, CtTunedParts
  <2>2. x = [black |-> v.black, gamma |-> v.gamma, red |-> CtOne, blue |-> CtOne, m |-> v.m, block |-> block,
         on |-> v.on, gammaOn |-> v.gammaOn, ccm |-> v.ccm, gains |-> v.gains, curve |-> v.curve]
    <3>1. v = CtRecord(v)
      BY <2>1 DEF CtParts
    <3>2. PICK b : b = block
      OBVIOUS
    <3>3. x = [v EXCEPT !.red = CtOne, !.blue = CtOne, !.block = b]
      BY <3>2
    <3> HIDE DEF x
    <3> QED BY <3>1, <3>2, <3>3 DEF CtRecord
  <2> HIDE DEF x
  <2>3. /\ x.black = v.black /\ x.gamma = v.gamma /\ x.red = CtOne /\ x.blue = CtOne /\ x.m = v.m
        /\ x.block = block /\ x.on = v.on /\ x.gammaOn = v.gammaOn /\ x.ccm = v.ccm
        /\ x.gains = v.gains /\ x.curve = v.curve
    BY <2>2 DEF CtRecord
  <2>4. CtParts(x)
    <3>1. CtOne \in Int
      BY DEF CtOne
    <3> QED BY <3>1, <2>1, <2>2, <2>3 DEF CtParts, CtRecord
  <2> QED BY <1>5, <2>3, <2>4, CtTunedParts
<1> HIDE DEF x
<1>7. CtBlackless(x) /\ \A r \in 1 .. 3 : x.curve[r].gamma = x.gamma
  BY <1>5, <1>6 DEF CtBlackless, CtGone
<1> QED BY <1>3, <1>6, <1>7, CtApplies

\* A quotient and a rest give back the number.
LEMMA CtDivMod ==
    ASSUME NEW d \in Nat \ {0}, NEW n \in Int
    PROVE  n \div d \in Int /\ n = d * (n \div d) + (n % d) /\ n % d \in 0 .. d - 1
<1>1. n \div d \in Int
  OBVIOUS
<1>2. n % d \in 0 .. d - 1
  OBVIOUS
<1>3. n = d * (n \div d) + (n % d)
  OBVIOUS
<1> QED BY <1>1, <1>2, <1>3

\* What is more is one divisor more, at the least.
LEMMA CtTimesMore ==
    ASSUME NEW d \in Nat \ {0}, NEW a \in Int, NEW b \in Int, a < b
    PROVE  d * a \in Int /\ d * b \in Int /\ d * a + d <= d * b
<1>1. PICK k \in Nat : b = a + 1 + k
  <2>1. b - a - 1 \in Nat /\ b = a + 1 + (b - a - 1)
    OBVIOUS
  <2> QED BY <2>1
<1>2. d * b = d * a + d + d * k /\ d * a \in Int /\ d * k \in Int
  BY <1>1
<1>3. d * k >= 0
  OBVIOUS
<1> QED BY <1>2, <1>3

\* A quotient is on the side of a number its dividend is on of the product.
LEMMA CtQuotientSide ==
    ASSUME NEW d \in Nat \ {0}, NEW n \in Int, NEW q, q = n \div d, NEW e \in Int
    PROVE  /\ q \in Int
           /\ d * e <= n => e <= q
           /\ n <= d * e => q <= e
<1>1. PICK r \in 0 .. d - 1 : n = d * q + r /\ q \in Int
  BY CtDivMod
<1>2. ASSUME d * e <= n, q < e PROVE FALSE
  <2>1. d * q \in Int /\ d * e \in Int /\ d * q + d <= d * e
    BY <1>1, <1>2, CtTimesMore
  <2> QED BY <2>1, <1>1, <1>2
<1>3. ASSUME n <= d * e, e < q PROVE FALSE
  <2>1. d * q \in Int /\ d * e \in Int /\ d * e + d <= d * q
    BY <1>1, <1>3, CtTimesMore
  <2> QED BY <2>1, <1>1, <1>3
<1> QED BY <1>1, <1>2, <1>3

\* A quotient by twice what is at most, or at least, half of it.
LEMMA CtQuotient ==
    ASSUME NEW e \in Nat, NEW l \in Nat \ {0}, NEW t \in Int
    PROVE  /\ (e * (l + t)) \div (2 * l) \in Int
           /\ l <= t => e <= (e * (l + t)) \div (2 * l)
           /\ t <= l => (e * (l + t)) \div (2 * l) <= e
<1>1. PICK d, n : d = 2 * l /\ n = e * (l + t) /\ d \in Nat \ {0} /\ n \in Int
  OBVIOUS
<1>2. PICK q : q = n \div d
  OBVIOUS
<1>3. d * e \in Int /\ n - d * e = e * (t - l) /\ e * (t - l) = -(e * (l - t))
  BY <1>1
<1>4. l <= t => d * e <= n
  <2>1. l <= t => e * (t - l) >= 0
    OBVIOUS
  <2> QED BY <2>1, <1>1, <1>3
<1>5. t <= l => n <= d * e
  <2>1. t <= l => e * (l - t) >= 0 /\ e * (l - t) \in Int
    OBVIOUS
  <2> QED BY <2>1, <1>1, <1>3
<1>6. q \in Int /\ (d * e <= n => e <= q) /\ (n <= d * e => q <= e)
  BY <1>1, <1>2, CtQuotientSide
<1> QED BY <1>1, <1>2, <1>4, <1>5, <1>6

\* More light where there is too little, less where there is too much.
LEMMA CtRatioToward ==
    ASSUME NEW e \in Nat, NEW luma \in Nat \ {0}, ctAe.target \in Int
    PROVE  /\ CtRatio(e, luma) \in Int
           /\ luma < ctAe.target => e <= CtRatio(e, luma)
           /\ luma > ctAe.target => CtRatio(e, luma) <= e
<1>1. PICK q \in Int : q = (e * (luma + ctAe.target)) \div (2 * luma)
  BY CtQuotient
<1>2. (luma < ctAe.target => e <= q) /\ (luma > ctAe.target => q <= e)
  BY <1>1, CtQuotient
<1>3. PICK f \in Int : f = e \div 4 /\ f <= e
  OBVIOUS
<1>4. CtRatio(e, luma) = CtWithin(f, q, 4 * e)
  BY <1>1, <1>3 DEF CtRatio
<1>5. q \in Int /\ f \in Int /\ f <= e
  BY <1>1, <1>3
<1> QED BY <1>2, <1>4, <1>5 DEF CtWithin

\* A step of the loop is of something the sensor has, within its range and toward the
\* target, by a frame that is fresh.
LEMMA CtStepToward ==
    ASSUME CtLoopTypes, NEW luma \in Nat \ {0}, CtIsFresh,
           CtNow("e") = ctSensor.at.e, CtHas("g") => CtNow("g") = ctSensor.at.g,
           NEW s, s = CtStep(luma), s # CtRest
    PROVE  /\ s.what \in {"e", "g"} /\ s.what \in ctSensor.has /\ s.v \in CtRangeOf(s.what)
           /\ s.luma = luma /\ s.fresh
           /\ luma < ctAe.target => ctSensor.at[s.what] <= s.v
           /\ luma > ctAe.target => s.v <= ctSensor.at[s.what]
<1> DEFINE to(what, v) == [what |-> what, v |-> v, luma |-> luma, fresh |-> CtIsFresh]
<1>0. PICK e, g, t : /\ e = ctSensor.at.e /\ g = ctSensor.at.g /\ t = ctAe.target
                     /\ e \in 1 .. CtTop /\ g \in 0 .. CtGainTop /\ t \in Int
  BY DEF CtLoopTypes
<1>t. CtTop \in Nat \ {0, 1} /\ CtGainTop \in Nat \ {0} /\ CtGainStep \in Nat
  BY CtAssumption DEF CtGainStep
<1>1. CtInRange(CtNow("e")) = e
  BY <1>0 DEF CtInRange
<1>r. PICK r \in Int : /\ r = CtRatio(e, luma)
                       /\ luma < t => e <= r
                       /\ luma > t => r <= e
  BY <1>0, CtRatioToward
<1>2. CASE t > luma
  <2>1. CASE CtHas("e") /\ e < CtTop
    <3>1. s = to("e", CtWithin(1, r + 1, CtTop))
      BY <1>0, <1>1, <1>2, <1>r, <2>1 DEF CtStep
    <3>2. PICK v : v = CtWithin(1, r + 1, CtTop)
      OBVIOUS
    <3>3. v \in 1 .. CtTop /\ e <= v
      BY <3>2, <1>0, <1>2, <1>t, <1>r, <2>1 DEF CtWithin
    <3>4. s.what = "e" /\ s.v = v /\ s.luma = luma /\ s.fresh = CtIsFresh
      BY <3>1, <3>2
    <3> QED BY <3>3, <3>4, <1>0, <1>2, <2>1 DEF CtRangeOf, CtHas
  <2>2. CASE ~(CtHas("e") /\ e < CtTop) /\ CtHas("g") /\ g < CtGainTop
    <3>1. s = to("g", CtWithin(0, g + CtGainStep, CtGainTop))
      BY <1>0, <1>1, <1>2, <2>2 DEF CtStep
    <3>2. PICK v : v = CtWithin(0, g + CtGainStep, CtGainTop)
      OBVIOUS
    <3>3. v \in 0 .. CtGainTop /\ g <= v
      BY <3>2, <1>0, <1>t, <2>2 DEF CtWithin
    <3>4. s.what = "g" /\ s.v = v /\ s.luma = luma /\ s.fresh = CtIsFresh
      BY <3>1, <3>2
    <3> QED BY <3>3, <3>4, <1>0, <1>2, <2>2 DEF CtRangeOf, CtHas
  <2>3. CASE ~(CtHas("e") /\ e < CtTop) /\ ~(CtHas("g") /\ g < CtGainTop)
    <3>1. s = CtRest
      BY <1>0, <1>1, <1>2, <2>3 DEF CtStep
    <3> QED BY <3>1
  <2> QED BY <2>1, <2>2, <2>3
<1>3. CASE ~(t > luma)
  <2>1. CASE CtHas("g") /\ g > 0
    <3>1. s = to("g", CtWithin(0, g - CtGainStep, CtGainTop))
      BY <1>0, <1>1, <1>3, <2>1 DEF CtStep
    <3>2. PICK v : v = CtWithin(0, g - CtGainStep, CtGainTop)
      OBVIOUS
    <3>3. v \in 0 .. CtGainTop /\ v <= g
      BY <3>2, <1>0, <1>t, <2>1 DEF CtWithin
    <3>4. s.what = "g" /\ s.v = v /\ s.luma = luma /\ s.fresh = CtIsFresh
      BY <3>1, <3>2
    <3> QED BY <3>3, <3>4, <1>0, <1>3, <2>1 DEF CtRangeOf, CtHas
  <2>2. CASE ~(CtHas("g") /\ g > 0) /\ CtHas("e") /\ e > 1
    <3>1. s = to("e", CtWithin(1, r, CtTop))
      BY <1>0, <1>1, <1>3, <1>r, <2>2 DEF CtStep
    <3>2. PICK v : v = CtWithin(1, r, CtTop)
      OBVIOUS
    <3>3. v \in 1 .. CtTop /\ (luma > t => v <= e)
      BY <3>2, <1>0, <1>t, <1>r, <2>2 DEF CtWithin
    <3>4. s.what = "e" /\ s.v = v /\ s.luma = luma /\ s.fresh = CtIsFresh
      BY <3>1, <3>2
    <3> QED BY <3>3, <3>4, <1>0, <1>3, <2>2 DEF CtRangeOf, CtHas
  <2>3. CASE ~(CtHas("g") /\ g > 0) /\ ~(CtHas("e") /\ e > 1)
    <3>1. s = CtRest
      BY <1>0, <1>1, <1>3, <2>3 DEF CtStep
    <3> QED BY <3>1
  <2> QED BY <2>1, <2>2, <2>3
<1> QED BY <1>2, <1>3, <1>0

CtAes == [on : BOOLEAN, new : BOOLEAN, luma : Nat, skip : Nat, target : Int,
          last : [e : Int, g : Int]]

\* What was moved is toward the target where nothing was moved.
LEMMA CtStillKeeps ==
    ASSUME CtExpose, ctMoved' = CtStill \/ UNCHANGED <<ctMoved, ctAe>>
    PROVE  CtTowards' /\ CtFresh'
<1>1. CASE ctMoved' = CtStill
  BY <1>1 DEF CtTowards, CtFresh, CtStill
<1>2. CASE UNCHANGED <<ctMoved, ctAe>>
  BY <1>2 DEF CtTowards, CtFresh, CtExpose
<1> QED BY <1>1, <1>2

\* The interrupt measures a frame while the loop may be about to write.
LEMMA CtStatKeeps ==
    ASSUME CtPlain, CtExpose, NEW luma \in Nat, CtStat(luma)
    PROVE  CtExpose'
<1>0. CtDelay \in Nat /\ CtDelay <= 1
  BY CtAssumption DEF CtPlain
<1>1. CtTowards' /\ CtFresh'
  BY CtStillKeeps DEF CtStat
<1>2. ctAe' = [ctAe EXCEPT !.new = TRUE, !.luma = luma] /\ ctAe \in CtAes /\ ctSince \in Nat
  BY DEF CtStat, CtExpose, CtLoopTypes, CtAes
<1>3. /\ ctAe' \in CtAes /\ ctAe'.new /\ ctAe'.skip = ctAe.skip /\ ctAe'.last = ctAe.last
      /\ ctAe'.target = ctAe.target /\ ctAe.skip \in Nat
  BY <1>2 DEF CtAes
<1>4. /\ ctSince' \in Nat /\ ctSince' = IF ctSince > CtDelay THEN ctSince ELSE ctSince + 1
      /\ ctSensor' = ctSensor /\ ctDoes' = ctDoes
      /\ ctAspect' = ctAspect /\ ctOpen' = ctOpen /\ ctKind' = ctKind
  BY <1>2 DEF CtStat, ctOfLife
<1>5. CtLoopTypes'
  BY <1>3, <1>4 DEF CtExpose, CtLoopTypes, CtAes
<1>6. CtKnows'
  BY <1>3, <1>4 DEF CtExpose, CtKnows, CtWorks
<1>7. CtSettles'
  <2>1. CtSettles
    BY DEF CtExpose
  <2> QED BY <2>1, <1>0, <1>2, <1>3, <1>4 DEF CtSettles
<1>8. (ctDoes # CtRest => CtAim)'
  BY <1>3, <1>4 DEF CtExpose, CtAim, CtRest
<1> QED BY <1>1, <1>5, <1>6, <1>7, <1>8 DEF CtExpose

\* The loop takes a statistic and decides.
LEMMA CtLoopKeeps ==
    ASSUME CtPlain, CtLife, CtExpose, CtLoop
    PROVE  CtExpose'
<1>1. CtTowards' /\ CtFresh'
  BY CtStillKeeps DEF CtLoop
<1>2. /\ ctAe' = [ctAe EXCEPT !.new = FALSE, !.skip = IF @ > 0 THEN @ - 1 ELSE 0]
      /\ ctAe \in CtAes /\ ctSince \in Nat /\ ctAe.new /\ ctAe.skip \in Nat
  BY DEF CtLoop, CtExpose, CtLoopTypes, CtAes
<1>3. /\ ctAe' \in CtAes /\ ~ctAe'.new /\ ctAe'.last = ctAe.last /\ ctAe'.target = ctAe.target
      /\ ctAe'.skip = IF ctAe.skip > 0 THEN ctAe.skip - 1 ELSE 0
  <2>1. PICK n \in Nat : n = IF ctAe.skip > 0 THEN ctAe.skip - 1 ELSE 0
    BY <1>2
  <2>2. ctAe' = [ctAe EXCEPT !.new = FALSE, !.skip = n]
    BY <1>2, <2>1
  <2> QED BY <2>1, <2>2, <1>2 DEF CtAes
<1>4. /\ ctSince' = ctSince /\ ctSensor' = ctSensor
      /\ ctAspect' = ctAspect /\ ctOpen' = ctOpen /\ ctKind' = ctKind
      /\ ctAspect = "expose" /\ ctOpen = "isp"
  BY DEF CtLoop, ctOfLife
<1>5. CtLoopTypes'
  BY <1>3, <1>4 DEF CtExpose, CtLoopTypes, CtAes
<1>6. CtKnows'
  BY <1>3, <1>4 DEF CtExpose, CtKnows, CtWorks
<1>7. CtSettles'
  <2>1. CtSettles
    BY DEF CtExpose
  <2>2. PICK k : k = ctAe.skip /\ k \in Nat
    BY <1>2
  <2>3. ctSince > CtDelay \/ k >= 2 \/ (k = 1 /\ ctSince >= 1)
    BY <2>1, <2>2, <1>2 DEF CtSettles
  <2>4. ctAe'.skip = IF k > 0 THEN k - 1 ELSE 0
    BY <1>3, <2>2
  <2>5. CASE ctSince > CtDelay
    BY <2>5, <1>4 DEF CtSettles
  <2>6. CASE k >= 2
    <3>1. ctAe'.skip = 1 \/ ctAe'.skip >= 2
      BY <2>6, <2>2, <2>4
    <3>2. ~ctAe'.new
      BY <1>3
    <3> QED BY <3>1, <3>2, Zenon DEF CtSettles
  <2>7. CASE k = 1 /\ ctSince >= 1
    BY <2>7, <2>4, <1>3, <1>4 DEF CtSettles
  <2> QED BY <2>3, <2>5, <2>6, <2>7
<1>8. (ctDoes # CtRest => CtAim)'
  <2> SUFFICES ASSUME ctDoes' # CtRest PROVE CtAim'
    BY DEF CtRest
  <2>1. PICK luma \in Nat \ {0} : luma = IF ctAe.luma < 1 THEN 1 ELSE ctAe.luma
    BY <1>2 DEF CtAes
  <2>2. ctDoes' = IF ctAe.skip > 0 \/ CtInBand(luma) THEN CtRest ELSE CtStep(luma)
    BY <2>1 DEF CtLoop
  <2>3. ~(ctAe.skip > 0) /\ ctDoes' = CtStep(luma)
    BY <2>2
  <2>4. CtIsFresh
    <3>1. CtSettles
      BY DEF CtExpose
    <3> QED BY <3>1, <2>3, <1>2 DEF CtSettles, CtIsFresh
  <2>5. CtNow("e") = ctSensor.at.e /\ (CtHas("g") => CtNow("g") = ctSensor.at.g)
    <3>1. CASE ctKind = "blind"
      BY <3>1, <1>4 DEF CtExpose, CtKnows, CtWorks, CtNow, CtHas
    <3>2. CASE ctKind # "blind"
      BY <3>2 DEF CtNow
    <3> QED BY <3>1, <3>2
  <2>6. CtLoopTypes
    BY DEF CtExpose
  <2>7. PICK s : s = ctDoes'
    OBVIOUS
  <2>8. /\ s.what \in {"e", "g"} /\ s.what \in ctSensor.has /\ s.v \in CtRangeOf(s.what)
        /\ s.luma = luma /\ s.fresh
        /\ luma < ctAe.target => ctSensor.at[s.what] <= s.v
        /\ luma > ctAe.target => s.v <= ctSensor.at[s.what]
    BY <2>3, <2>4, <2>5, <2>6, <2>7, CtStepToward
  <2> QED BY <2>1, <2>7, <2>8, <1>3, <1>4 DEF CtAim
<1> QED BY <1>1, <1>5, <1>6, <1>7, <1>8 DEF CtExpose

\* The sensor takes what the loop writes.
LEMMA CtWritesKeep ==
    ASSUME CtPlain, CtExpose, CtWrites(TRUE)
    PROVE  CtExpose'
<1>1. CtAim /\ CtLoopTypes /\ CtKnows
  BY DEF CtWrites, CtExpose
<1>2. PICK what, v : what = ctDoes.what /\ v = ctDoes.v /\ what \in {"e", "g"} /\ v \in CtRangeOf(what)
  BY <1>1 DEF CtAim
<1>3. PICK e, g, has : /\ ctSensor = [has |-> has, at |-> [e |-> e, g |-> g]]
                       /\ e \in 1 .. CtTop /\ g \in 0 .. CtGainTop /\ has \in SUBSET {"e", "g"}
  BY <1>1 DEF CtLoopTypes
<1>t. CtTop \in Nat /\ CtGainTop \in Nat /\ CtRangeOf("e") = 1 .. CtTop /\ CtRangeOf("g") = 0 .. CtGainTop
  BY CtAssumption DEF CtRangeOf
<1>4. PICK e2, g2 : /\ e2 = (IF what = "e" THEN v ELSE e) /\ g2 = (IF what = "g" THEN v ELSE g)
                    /\ e2 \in 1 .. CtTop /\ g2 \in 0 .. CtGainTop
  BY <1>2, <1>3, <1>t
<1>5. ctSensor' = [has |-> has, at |-> [e |-> e2, g |-> g2]]
  <2>1. ctSensor' = [ctSensor EXCEPT !.at[what] = v]
    BY <1>2 DEF CtWrites
  <2>2. CASE what = "e"
    BY <2>1, <2>2, <1>3, <1>4
  <2>3. CASE what = "g"
    BY <2>1, <2>3, <1>3, <1>4
  <2> QED BY <2>2, <2>3, <1>2
<1>6. PICK a : a = ctAe /\ a \in CtAes
  BY <1>1 DEF CtLoopTypes, CtAes
<1>7. PICK le, lg : a.last = [e |-> le, g |-> lg] /\ le \in Int /\ lg \in Int
  BY <1>6 DEF CtAes
<1>v. v \in Int /\ (what = "e" => v >= 1)
  BY <1>2, <1>t
<1>w. PICK x, y : /\ x = (IF what = "e" THEN v ELSE le) /\ y = (IF what = "g" THEN v ELSE lg)
                  /\ x \in Int /\ y \in Int
  BY <1>v, <1>7
<1>8. PICK l2 : l2 = [e |-> x, g |-> y]
  OBVIOUS
<1>9. ctAe' = [a EXCEPT !.last = l2, !.skip = 2]
  <2>1. ctAe' = [a EXCEPT !.last[what] = v, !.skip = 2]
    BY <1>2, <1>6 DEF CtWrites, CtSkip
  <2>2. [a.last EXCEPT ![what] = v] = l2
    <3>1. PICK l3 : l3 = [a.last EXCEPT ![what] = v]
      OBVIOUS
    <3>2. CASE what = "e"
      <4>1. l3 = [[e |-> le, g |-> lg] EXCEPT !.e = v]
        BY <3>1, <3>2, <1>7
      <4>2. l3 = [e |-> v, g |-> lg]
        BY <4>1
      <4> QED BY <4>2, <3>1, <3>2, <1>8, <1>w
    <3>3. CASE what = "g"
      <4>1. l3 = [[e |-> le, g |-> lg] EXCEPT !.g = v]
        BY <3>1, <3>3, <1>7
      <4>2. l3 = [e |-> le, g |-> v]
        BY <4>1
      <4> QED BY <4>2, <3>1, <3>3, <1>8, <1>w
    <3> QED BY <3>2, <3>3, <1>2
  <2> QED BY <2>1, <2>2
<1>l. l2 \in [e : Int, g : Int] /\ (what = "e" => l2.e = v)
  BY <1>8, <1>w
<1>10. ctAe' \in CtAes /\ ctAe'.last = l2 /\ ctAe'.skip = 2 /\ ctAe'.target = a.target
  BY <1>6, <1>l, <1>9 DEF CtAes
<1>11. /\ ctSince' = 0 /\ ctDoes' = CtRest
       /\ ctAspect' = ctAspect /\ ctOpen' = ctOpen /\ ctKind' = ctKind
  BY DEF CtWrites, ctOfLife
<1>12. CtLoopTypes'
  BY <1>4, <1>3, <1>5, <1>10, <1>11 DEF CtLoopTypes, CtAes
<1>13. CtKnows'
  <2> SUFFICES ASSUME ctAspect = "expose", CtWorks, ctKind = "blind"
               PROVE  ctSensor'.has = {"e"} /\ ctSensor'.at.e = IF l2.e >= 0 THEN l2.e ELSE 1
    BY <1>10, <1>11 DEF CtKnows, CtWorks
  <2>1. has = {"e"} /\ what = "e"
    BY <1>1, <1>2, <1>3 DEF CtKnows, CtAim
  <2>2. v >= 0
    BY <2>1, <1>2, <1>t
  <2> QED BY <2>1, <2>2, <1>4, <1>5, <1>l
<1>14. CtSettles'
  BY <1>10 DEF CtSettles
<1>15. /\ ctMoved'.luma = ctDoes.luma /\ ctMoved'.was = <<e, g>> /\ ctMoved'.now = <<e2, g2>>
       /\ ctMoved'.fresh = ctDoes.fresh
  BY <1>3, <1>5 DEF CtWrites
<1>16. CtFresh'
  BY <1>1, <1>15 DEF CtFresh, CtAim
<1>17. /\ ctDoes.luma < a.target => e <= e2 /\ g <= g2
       /\ ctDoes.luma > a.target => e2 <= e /\ g2 <= g
  <2>1. CASE what = "e"
    BY <2>1, <1>1, <1>2, <1>3, <1>4, <1>6 DEF CtAim
  <2>2. CASE what = "g"
    BY <2>2, <1>1, <1>2, <1>3, <1>4, <1>6 DEF CtAim
  <2> QED BY <2>1, <2>2, <1>2
<1>18. CtTowards'
  <2>1. ctAe'.target = a.target
    BY <1>10
  <2>2. \A k \in {1, 2} : /\ e <= e2 /\ g <= g2 => <<e2, g2>>[k] >= <<e, g>>[k]
                          /\ e2 <= e /\ g2 <= g => <<e2, g2>>[k] <= <<e, g>>[k]
    BY <1>3, <1>4
  <2> QED BY <2>1, <2>2, <1>15, <1>17 DEF CtTowards
<1>19. (ctDoes # CtRest => CtAim)'
  BY <1>11 DEF CtRest
<1> QED BY <1>12, <1>13, <1>14, <1>16, <1>18, <1>19 DEF CtExpose

\* A program that takes over stops the loop, and there is no way to of a sensor
\* that cannot be asked.
LEMMA CtByHandKeeps ==
    ASSUME CtPlain, CtExpose, NEW what \in {"e", "g"}, NEW v \in Int, CtByHand(what, v)
    PROVE  CtExpose'
<1>1. CtTowards' /\ CtFresh'
  BY CtStillKeeps DEF CtByHand
<1>2. CtLoopTypes /\ CtSettles
  BY DEF CtExpose
<1>3. PICK e, g, has : /\ ctSensor = [has |-> has, at |-> [e |-> e, g |-> g]]
                       /\ e \in 1 .. CtTop /\ g \in 0 .. CtGainTop /\ has \in SUBSET {"e", "g"}
  BY <1>2 DEF CtLoopTypes
<1>t. CtTop \in Nat \ {0} /\ CtGainTop \in Nat
  BY CtAssumption
<1>4. PICK x : /\ x = CtTakes(what, v)
               /\ what = "e" => x \in 1 .. CtTop
               /\ what = "g" => x \in 0 .. CtGainTop
  BY <1>t DEF CtTakes, CtWithin
<1>5. PICK e2, g2 : /\ e2 = (IF what = "e" THEN x ELSE e) /\ g2 = (IF what = "g" THEN x ELSE g)
                    /\ e2 \in 1 .. CtTop /\ g2 \in 0 .. CtGainTop
  BY <1>3, <1>4
<1>6. ctSensor' = [has |-> has, at |-> [e |-> e2, g |-> g2]]
  <2>1. ctSensor' = [ctSensor EXCEPT !.at[what] = x]
    BY <1>4 DEF CtByHand
  <2>2. CASE what = "e"
    BY <2>1, <2>2, <1>3, <1>5
  <2>3. CASE what = "g"
    BY <2>1, <2>3, <1>3, <1>5
  <2> QED BY <2>2, <2>3
<1>7. /\ ctAe' = [ctAe EXCEPT !.on = FALSE] /\ ctAe \in CtAes /\ ctSince \in Nat
      /\ ctSince' = ctSince /\ ctDoes' = ctDoes /\ ctDoes = CtRest
      /\ ctKind # "blind" /\ ctKind' = ctKind
  BY <1>2 DEF CtByHand, CtLoopTypes, CtAes, CtPlain, ctOfLife
<1>8. ctAe' \in CtAes /\ ctAe'.skip = ctAe.skip /\ ctAe'.new = ctAe.new
  BY <1>7 DEF CtAes
<1>9. CtLoopTypes'
  BY <1>3, <1>5, <1>6, <1>7, <1>8 DEF CtLoopTypes, CtAes
<1>10. CtKnows'
  BY <1>7 DEF CtKnows
<1>11. CtSettles'
  BY <1>2, <1>7, <1>8 DEF CtSettles
<1>12. (ctDoes # CtRest => CtAim)'
  BY <1>7 DEF CtRest
<1> QED BY <1>1, <1>9, <1>10, <1>11, <1>12 DEF CtExpose

\* A loop that is told a target, or to go on, knows no less.
LEMMA CtAutoKeeps ==
    ASSUME CtPlain, CtExpose, NEW on \in BOOLEAN, NEW target \in Int, CtAuto(on, target)
    PROVE  CtExpose'
<1>1. CtTowards' /\ CtFresh'
  BY CtStillKeeps DEF CtAuto
<1>2. CtLoopTypes /\ CtSettles /\ CtKnows
  BY DEF CtExpose
<1>4. PICK t \in Int : t = CtWithin(8, target, 247)
  BY DEF CtWithin
<1>7. /\ ctAe' = [ctAe EXCEPT !.on = on, !.target = t] /\ ctAe \in CtAes /\ ctSensor' = ctSensor
      /\ ctSince' = ctSince /\ ctDoes' = ctDoes /\ ctDoes = CtRest
      /\ ctKind' = ctKind /\ ctAspect' = ctAspect /\ ctOpen' = ctOpen
  BY <1>2, <1>4 DEF CtAuto, CtLoopTypes, CtAes, ctOfLife
<1>8. ctAe' \in CtAes /\ ctAe'.skip = ctAe.skip /\ ctAe'.new = ctAe.new /\ ctAe'.last = ctAe.last
  BY <1>7 DEF CtAes
<1>9. CtLoopTypes'
  BY <1>2, <1>7, <1>8 DEF CtLoopTypes, CtAes
<1>10. CtKnows'
  BY <1>2, <1>7, <1>8 DEF CtKnows, CtWorks
<1>11. CtSettles'
  BY <1>2, <1>7, <1>8 DEF CtSettles
<1>12. (ctDoes # CtRest => CtAim)'
  BY <1>7 DEF CtRest
<1> QED BY <1>1, <1>9, <1>10, <1>11, <1>12 DEF CtExpose

\* What leaves the loop alone, or closes the camera.
LEMMA CtExposeStays ==
    ASSUME CtExpose, UNCHANGED ctOfLoop,
           UNCHANGED <<ctAspect, ctKind, ctOpen>> \/ (ctOpen' \in {"no", "half"} /\ ctDoes' = CtRest)
    PROVE  CtExpose'
<1>1. CtTowards' /\ CtFresh'
  BY CtStillKeeps DEF ctOfLoop
<1>2. CtLoopTypes /\ CtSettles /\ CtKnows /\ (ctDoes # CtRest => CtAim)
  BY DEF CtExpose
<1>3. UNCHANGED <<ctSensor, ctAe, ctSince, ctDoes, ctMoved>>
  BY DEF ctOfLoop
<1>4. CtLoopTypes' /\ CtSettles'
  BY <1>2, <1>3 DEF CtLoopTypes, CtSettles
<1>5. CASE UNCHANGED <<ctAspect, ctKind, ctOpen>>
  <2>1. CtKnows'
    BY <1>2, <1>3, <1>5 DEF CtKnows, CtWorks
  <2>2. (ctDoes # CtRest => CtAim)'
    BY <1>2, <1>3, <1>5 DEF CtAim, CtRest
  <2> QED BY <1>1, <1>4, <2>1, <2>2 DEF CtExpose
<1>6. CASE ctOpen' \in {"no", "half"} /\ ctDoes' = CtRest
  <2>1. CtKnows'
    BY <1>6 DEF CtKnows, CtWorks
  <2>2. (ctDoes # CtRest => CtAim)'
    BY <1>6 DEF CtRest
  <2> QED BY <1>1, <1>4, <2>1, <2>2 DEF CtExpose
<1> QED BY <1>5, <1>6

\* A loop that begins knows what the sensor begins with.
LEMMA CtExposesBegin ==
    ASSUME NEW has \in SUBSET {"e", "g"}, NEW e \in 1 .. CtTop, NEW g \in 0 .. CtGainTop,
           CtExposes(has, e, g), ctDoes' = CtRest,
           ctKind' = "blind" => has = {"e"} /\ e = 1
    PROVE  CtExpose'
<1>1. /\ ctSensor' = [has |-> has, at |-> [e |-> e, g |-> g]]
      /\ ctAe' = [on |-> TRUE, new |-> FALSE, luma |-> 0, skip |-> 0, target |-> 110,
                last |-> [e |-> -1, g |-> -1]]
      /\ ctSince' = CtDelay + 1 /\ ctMoved' = CtStill
  BY DEF CtExposes
<1>2. CtDelay \in Nat
  BY CtAssumption
<1>3. CtLoopTypes'
  BY <1>1, <1>2 DEF CtLoopTypes
<1>4. CtSettles'
  BY <1>1, <1>2 DEF CtSettles
<1>5. CtKnows'
  BY <1>1 DEF CtKnows
<1>6. CtTowards' /\ CtFresh'
  BY <1>1 DEF CtTowards, CtFresh, CtStill
<1>7. (ctDoes # CtRest => CtAim)'
  BY DEF CtRest
<1> QED BY <1>3, <1>4, <1>5, <1>6, <1>7 DEF CtExpose

\* A camera that is made begins its loop, or has none.
LEMMA CtMakesExpose ==
    ASSUME CtPlain, CtExpose, NEW kind \in CtKinds, CtMake(kind)
    PROVE  CtExpose'
<1>1. ctDoes' = CtRest /\ ctDoes = CtRest /\ ctKind' = kind /\ ctAspect' = ctAspect
  BY DEF CtMake
<1>2. CASE ctAspect # "expose"
  <2>1. UNCHANGED <<ctSensor, ctAe, ctSince, ctMoved, ctDoes>>
    BY <1>1, <1>2 DEF CtMake
  <2>2. CtTowards' /\ CtFresh'
    BY <2>1, CtStillKeeps
  <2>3. CtLoopTypes' /\ CtSettles'
    BY <2>1 DEF CtExpose, CtLoopTypes, CtSettles
  <2>4. CtKnows' /\ (ctDoes # CtRest => CtAim)'
    BY <1>1, <1>2 DEF CtKnows, CtRest
  <2> QED BY <2>2, <2>3, <2>4 DEF CtExpose
<1>3. CASE ctAspect = "expose"
  <2>1. PICK has \in SUBSET {"e", "g"}, e \in {1, CtTop \div 2, CtTop}, g \in {0, CtGainTop} :
               /\ kind = "blind" => has = {"e"} /\ e = 1
               /\ CtExposes(has, e, g)
    BY <1>3 DEF CtMake
  <2>2. CtTop \in Nat \ {0, 1} /\ CtGainTop \in Nat
    BY CtAssumption
  <2>3. e \in 1 .. CtTop /\ g \in 0 .. CtGainTop
    <3>1. CtTop \div 2 \in 1 .. CtTop
      BY <2>2
    <3> QED BY <2>2, <3>1
  <2> QED BY <2>1, <2>3, <1>1, CtExposesBegin
<1> QED BY <1>2, <1>3

---------------------------------------------------------------------------

\* What table_parse() allocated is freed, wherever it raises.
LEMMA CtAllFreed == ASSUME NEW n \in 1 .. 9 PROVE CtReached(n) \ CtFreed(n) = {}
<1>1. CtFreed(n) = CtReached(n) \ IF CtModes(n) = 0 THEN {"name", "regs"} ELSE {}
  BY DEF CtFreed
<1>2. CASE n >= 7
  <2>1. CtModes(n) # 0
    BY <1>2 DEF CtModes
  <2>2. CtFreed(n) = CtReached(n)
    BY <1>1, <2>1
  <2> QED BY <2>2
<1>3. CASE n < 7
  <2>1. \A k \in 1 .. n : CtAllocs[k] \notin {"name", "regs"}
    <3> TAKE k \in 1 .. n
    <3>1. k \in {1, 2, 3, 4, 5, 6}
      BY <1>3
    <3>2. /\ CtAllocs[1] = "table" /\ CtAllocs[2] = "init" /\ CtAllocs[3] = "on"
          /\ CtAllocs[4] = "off" /\ CtAllocs[5] = "formats" /\ CtAllocs[6] = "isp"
      BY DEF CtAllocs
    <3> QED BY <3>1, <3>2
  <2>2. CtReached(n) \cap {"name", "regs"} = {}
    BY <2>1 DEF CtReached
  <2> QED BY <1>1, <2>2
<1> QED BY <1>2, <1>3

\* Nothing is freed twice or lost.
LEMMA CtTornNone == ASSUME CtLife PROVE CtTorn = {}
BY DEF CtLife, CtHeld, CtTorn

\* Whatever ends, begins or raises, the heap holds the tables of what is open.
LEMMA CtNextLife == ASSUME CtPlain, CtLife, CtNext PROVE CtLife'
<1>k. \A kind \in CtKinds : kind \in {"driver", "blind", "table"}
  BY CtAssumption DEF CtPlain
<1>0. CtTorn = {}
  BY CtTornNone
<1>1. ASSUME NEW kind \in CtKinds, CtMake(kind) PROVE CtLife'
  <2>1. /\ ctBlocks' = CtTorn \cup CtBlocksOf(kind) /\ ctKind' = kind /\ ctOpen' \in {"isp", "raw"}
        /\ ctAspect' = ctAspect
    BY <1>1 DEF CtMake
  <2>2. ctBlocks' = CtBlocksOf(ctKind')
    BY <2>1, <1>0
  <2>3. CtHeld'
    BY <2>1, <2>2 DEF CtHeld, CtBlocksOf, CtIsTable, CtReached, CtAllocs
  <2> QED BY <2>1, <2>3, <1>k DEF CtLife
<1>2. ASSUME NEW kind \in CtKinds, CtMakeRaises(kind) PROVE CtLife'
  <2>1. /\ ctBlocks' = CtTorn \cup CtBlocksOf(kind) /\ ctKind' = kind /\ ctOpen' = "half"
        /\ ctAspect' = ctAspect
    BY <1>2 DEF CtMakeRaises
  <2>2. ctBlocks' = CtBlocksOf(ctKind')
    BY <2>1, <1>0
  <2>3. CtHeld'
    BY <2>1, <2>2 DEF CtHeld, CtBlocksOf, CtIsTable, CtReached, CtAllocs
  <2> QED BY <2>1, <2>3, <1>k DEF CtLife
<1>3. ASSUME CtCloses, ctBlocks' = {} PROVE CtLife'
  BY <1>3 DEF CtCloses, CtLife, CtHeld
<1>4. ASSUME NEW n \in 1 .. 9, CtParseFails(n) PROVE CtLife'
  <2>1. ctBlocks' = {}
    BY <1>0, <1>4, CtAllFreed DEF CtParseFails
  <2> QED BY <1>3, <1>4, <2>1 DEF CtParseFails
<1>5. CASE CtMakeFails \/ CtDeinit
  BY <1>0, <1>3, <1>5 DEF CtMakeFails, CtDeinit
<1>6. ASSUME UNCHANGED ctOfLife PROVE CtLife'
  BY <1>6 DEF ctOfLife, CtLife, CtHeld, CtBlocksOf, CtIsTable, CtReached, CtAllocs
<1>7. ASSUME NEW which \in {"v", "h"}, NEW on \in BOOLEAN, NEW how \in CtHow, CtTurns(which, on, how)
      PROVE  CtLife'
  BY <1>6, <1>7 DEF CtTurns
<1>8. ASSUME NEW luma \in CtLumas, CtStat(luma) PROVE CtLife'
  BY <1>6, <1>8 DEF CtStat
<1>9. CASE CtLoop
  BY <1>6, <1>9 DEF CtLoop
<1>10. ASSUME NEW ok \in {TRUE} \cup {"expose" \notin CtFails}, CtWrites(ok) PROVE CtLife'
  BY <1>6, <1>10 DEF CtWrites
<1>11. ASSUME NEW what \in {"e", "g"}, NEW v \in CtRaws, CtByHand(what, v) PROVE CtLife'
  BY <1>6, <1>11 DEF CtByHand
<1>12. ASSUME NEW on \in BOOLEAN, NEW target \in CtTargets, CtAuto(on, target) PROVE CtLife'
  BY <1>6, <1>12 DEF CtAuto
<1>13. ASSUME CtStays PROVE CtLife'
  BY <1>6, <1>13 DEF CtStays
<1>14. ASSUME \/ \E r, b \in CtRatios : CtWhite(r, b)
              \/ \E on \in BOOLEAN : CtAwb(on)
              \/ \E r, b \in CtGains : CtWbGains(r, b)
              \/ \E m \in CtMatrices : CtCcm(m)
              \/ \E g \in {"own", "another"} : CtGamma(g)
              \/ \E b \in CtBlacks : CtBlackLevel(b)
       PROVE  CtLife'
  BY <1>13, <1>14 DEF CtWhite, CtAwb, CtWbGains, CtCcm, CtGamma, CtBlackLevel
<1> QED BY <1>1, <1>2, <1>4, <1>5, <1>7, <1>8, <1>9, <1>10, <1>11, <1>12, <1>14 DEF CtNext

\* What leaves the flips and the order alone, or closes the camera.
LEMMA CtOrientStays ==
    ASSUME CtOrient, UNCHANGED ctOfFlip,
           UNCHANGED <<ctAspect, ctKind, ctOpen>> \/ ctOpen' \in {"no", "half"}
    PROVE  CtOrient'
BY DEF CtOrient, ctOfFlip, CtWorks, CtFlips

\* Every step keeps the order for the way the sensor reads.
LEMMA CtNextOrient == ASSUME CtPlain, CtLife, CtOrient, CtNext PROVE CtOrient'
<1>1. ASSUME NEW kind \in CtKinds, CtMake(kind) PROVE CtOrient'
  BY <1>1, CtMakesOrient
<1>2. ASSUME NEW kind \in CtKinds, CtMakeRaises(kind) PROVE CtOrient'
  BY <1>2, CtOrientStays DEF CtMakeRaises
<1>3. ASSUME CtCloses PROVE CtOrient'
  BY <1>3, CtOrientStays DEF CtCloses
<1>4. ASSUME \/ \E n \in 1 .. 9 : CtParseFails(n)
             \/ CtMakeFails \/ CtDeinit
      PROVE  CtOrient'
  BY <1>3, <1>4 DEF CtParseFails, CtMakeFails, CtDeinit
<1>5. ASSUME NEW which \in {"v", "h"}, NEW on \in BOOLEAN, NEW how \in CtHow, CtTurns(which, on, how)
      PROVE  CtOrient'
  BY <1>5, CtTurnsOrient
<1>6. ASSUME UNCHANGED <<ctOfLife, ctOfFlip>> PROVE CtOrient'
  BY <1>6, CtOrientStays DEF ctOfLife
<1>7. ASSUME NEW luma \in CtLumas, CtStat(luma) PROVE CtOrient'
  BY <1>6, <1>7 DEF CtStat
<1>8. CASE CtLoop
  BY <1>6, <1>8 DEF CtLoop
<1>w. ASSUME NEW ok \in {TRUE} \cup {"expose" \notin CtFails}, CtWrites(ok) PROVE CtOrient'
  BY <1>6, <1>w DEF CtWrites
<1>x. ASSUME NEW what \in {"e", "g"}, NEW v \in CtRaws, CtByHand(what, v) PROVE CtOrient'
  BY <1>6, <1>x DEF CtByHand
<1>y. ASSUME NEW on \in BOOLEAN, NEW target \in CtTargets, CtAuto(on, target) PROVE CtOrient'
  BY <1>6, <1>y DEF CtAuto
<1>z. ASSUME CtStays PROVE CtOrient'
  BY <1>6, <1>z DEF CtStays
<1>9. ASSUME NEW r \in CtRatios, NEW b \in CtRatios, CtWhite(r, b) PROVE CtOrient'
  BY <1>9, <1>z DEF CtWhite
<1>10. ASSUME NEW on \in BOOLEAN, CtAwb(on) PROVE CtOrient'
  BY <1>10, <1>z DEF CtAwb
<1>11. ASSUME NEW r \in CtGains, NEW b \in CtGains, CtWbGains(r, b) PROVE CtOrient'
  BY <1>11, <1>z DEF CtWbGains
<1>12. ASSUME NEW m \in CtMatrices, CtCcm(m) PROVE CtOrient'
  BY <1>12, <1>z DEF CtCcm
<1>13. ASSUME NEW g \in {"own", "another"}, CtGamma(g) PROVE CtOrient'
  BY <1>13, <1>z DEF CtGamma
<1>14. ASSUME NEW b \in CtBlacks, CtBlackLevel(b) PROVE CtOrient'
  BY <1>14, <1>z DEF CtBlackLevel
<1> QED BY <1>1, <1>2, <1>4, <1>5, <1>7, <1>8, <1>9, <1>10, <1>11, <1>12, <1>13, <1>14, <1>w, <1>x, <1>y DEF CtNext

\* Every step keeps what the loop knows and aims at.
LEMMA CtNextExpose == ASSUME CtPlain, CtLife, CtExpose, CtNext PROVE CtExpose'
<1>0. CtLumas \subseteq Nat /\ CtRaws \subseteq Int /\ CtTargets \subseteq Int
  BY CtAssumption
<1>1. ASSUME NEW kind \in CtKinds, CtMake(kind) PROVE CtExpose'
  BY <1>1, CtMakesExpose
<1>2. ASSUME NEW kind \in CtKinds, CtMakeRaises(kind) PROVE CtExpose'
  <2>1. UNCHANGED ctOfLoop /\ ctOpen' = "half" /\ ctDoes' = CtRest
    BY <1>2 DEF CtMakeRaises, ctOfLoop
  <2> QED BY <2>1, CtExposeStays
<1>3. ASSUME CtCloses PROVE CtExpose'
  <2>1. UNCHANGED ctOfLoop /\ ctOpen' = "no" /\ ctDoes' = CtRest
    BY <1>3 DEF CtCloses, ctOfLoop
  <2> QED BY <2>1, CtExposeStays
<1>4. ASSUME \/ \E n \in 1 .. 9 : CtParseFails(n)
             \/ CtMakeFails \/ CtDeinit
      PROVE  CtExpose'
  BY <1>3, <1>4 DEF CtParseFails, CtMakeFails, CtDeinit
<1>5. ASSUME UNCHANGED <<ctOfLife, ctOfLoop>> PROVE CtExpose'
  BY <1>5, CtExposeStays DEF ctOfLife
<1>6. ASSUME NEW which \in {"v", "h"}, NEW on \in BOOLEAN, NEW how \in CtHow, CtTurns(which, on, how)
      PROVE  CtExpose'
  BY <1>5, <1>6 DEF CtTurns
<1>7. ASSUME NEW luma \in CtLumas, CtStat(luma) PROVE CtExpose'
  BY <1>0, <1>7, CtStatKeeps
<1>8. CASE CtLoop
  BY <1>8, CtLoopKeeps
<1>9. ASSUME NEW ok \in {TRUE} \cup {"expose" \notin CtFails}, CtWrites(ok) PROVE CtExpose'
  <2>1. ok = TRUE
    <3>1. "expose" \notin CtFails
      BY DEF CtPlain
    <3> QED BY <3>1
  <2> QED BY <2>1, <1>9, CtWritesKeep
<1>10. ASSUME NEW what \in {"e", "g"}, NEW v \in CtRaws, CtByHand(what, v) PROVE CtExpose'
  BY <1>0, <1>10, CtByHandKeeps
<1>11. ASSUME NEW on \in BOOLEAN, NEW target \in CtTargets, CtAuto(on, target) PROVE CtExpose'
  BY <1>0, <1>11, CtAutoKeeps
<1>12. ASSUME CtStays PROVE CtExpose'
  BY <1>5, <1>12 DEF CtStays
<1>13. ASSUME \/ \E r, b \in CtRatios : CtWhite(r, b)
              \/ \E on \in BOOLEAN : CtAwb(on)
              \/ \E r, b \in CtGains : CtWbGains(r, b)
              \/ \E m \in CtMatrices : CtCcm(m)
              \/ \E g \in {"own", "another"} : CtGamma(g)
              \/ \E b \in CtBlacks : CtBlackLevel(b)
       PROVE  CtExpose'
  BY <1>12, <1>13 DEF CtWhite, CtAwb, CtWbGains, CtCcm, CtGamma, CtBlackLevel
<1> QED BY <1>1, <1>2, <1>4, <1>6, <1>7, <1>8, <1>9, <1>10, <1>11, <1>13 DEF CtNext

\* A balance by what it promises.
CtEven(w) ==
    /\ w \in CtTuned /\ w.gammaOn /\ CtBlackless(w) /\ CtGone(w)
    /\ w.ccm = CtMatrix(w) /\ (w.block => w.gains = <<w.red, w.blue>>)

\* The balance of the camera is such a one.
LEMMA CtEvenIs == CtBalance <=> CtEven(ctW)
BY DEF CtBalance, CtEven, CtGone, CtBlackGone, CtBalanced

\* A balance with other gains, matrix, exponent or black.
CtWith(u, black, gamma, red, blue, m, on) ==
    [black |-> black, gamma |-> gamma, red |-> red, blue |-> blue, m |-> m, block |-> u.block,
     on |-> on, gammaOn |-> u.gammaOn, ccm |-> u.ccm, gains |-> u.gains, curve |-> u.curve]

\* and what there is of it.
LEMMA CtPut ==
    ASSUME NEW u, NEW black, NEW gamma, NEW red, NEW blue, NEW m, NEW on, NEW w,
           w = CtWith(u, black, gamma, red, blue, m, on),
           u \in CtTuned, black \in 0 .. 255, gamma \in CtGammas, red \in Int, blue \in Int,
           m \in [1 .. 9 -> Int], on \in BOOLEAN
    PROVE  /\ w \in CtTuned /\ w.black = black /\ w.gamma = gamma /\ w.red = red /\ w.blue = blue
           /\ w.m = m /\ w.block = u.block /\ w.on = on /\ w.gammaOn = u.gammaOn /\ w.ccm = u.ccm
           /\ w.gains = u.gains /\ w.curve = u.curve
<1>1. CtParts(u)
  BY CtTunedParts
<1>2. /\ w.black = black /\ w.gamma = gamma /\ w.red = red /\ w.blue = blue
      /\ w.m = m /\ w.block = u.block /\ w.on = on /\ w.gammaOn = u.gammaOn /\ w.ccm = u.ccm
      /\ w.gains = u.gains /\ w.curve = u.curve
  BY DEF CtWith
<1>3. w = CtRecord(w)
  BY <1>2 DEF CtRecord, CtWith
<1>4. CtParts(w)
  BY <1>1, <1>2, <1>3 DEF CtParts
<1> QED BY <1>2, <1>4, CtTunedParts

\* What is told of gains and a matrix, where the curve is there.
LEMMA CtToldEven ==
    ASSUME NEW w, NEW v \in CtTuned, w = CtCcmApply(v), v.gammaOn, CtBlackless(v),
           \A r \in 1 .. 3 : v.curve[r].gamma = v.gamma
    PROVE  CtEven(w)
<1>1. /\ w \in CtTuned /\ w.gammaOn /\ CtBlackless(w) /\ CtGone(w)
      /\ w.ccm = CtMatrix(w) /\ (w.block => w.gains = <<w.red, w.blue>>)
  BY CtApplies
<1> QED BY <1>1, Zenon DEF CtEven

\* New gains, or a new matrix.
CtCurved(v) ==
    /\ v \in CtTuned /\ v.gammaOn /\ CtBlackless(v)
    /\ \A r \in 1 .. 3 : v.curve[r].gamma = v.gamma

\* They leave the curve as it was.
LEMMA CtPutEven ==
    ASSUME NEW u, NEW red, NEW blue, NEW m, NEW on, NEW v,
           v = CtWith(u, u.black, u.gamma, red, blue, m, on),
           CtEven(u), red \in Int, blue \in Int, m \in [1 .. 9 -> Int], on \in BOOLEAN
    PROVE  CtCurved(v)
<1>1. u \in CtTuned /\ u.black \in 0 .. 255 /\ u.gamma \in CtGammas
  BY CtTunedParts DEF CtEven, CtParts
<1>2. /\ v \in CtTuned /\ v.black = u.black /\ v.gamma = u.gamma /\ v.gammaOn = u.gammaOn
      /\ v.curve = u.curve
  BY <1>1, CtPut
<1>3. u.gammaOn /\ CtBlackless(u) /\ \A r \in 1 .. 3 : u.curve[r].gamma = u.gamma
  BY DEF CtEven, CtGone
<1> QED BY <1>2, <1>3 DEF CtBlackless, CtCurved

\* New gains or a new matrix, applied.
CtApplied(u, w) ==
    \E red \in Int, blue \in Int, m \in [1 .. 9 -> Int], on \in BOOLEAN : \E v :
       v = CtWith(u, u.black, u.gamma, red, blue, m, on) /\ w = CtCcmApply(v)

\* Gains and a matrix applied to an even balance leave an even one.
LEMMA CtEvenApplies == ASSUME NEW u, NEW w, CtEven(u), CtApplied(u, w) PROVE CtEven(w)
<1>1. PICK red \in Int, blue \in Int, m \in [1 .. 9 -> Int], on \in BOOLEAN : \E v :
         v = CtWith(u, u.black, u.gamma, red, blue, m, on) /\ w = CtCcmApply(v)
  BY Zenon DEF CtApplied
<1>2. PICK v : v = CtWith(u, u.black, u.gamma, red, blue, m, on) /\ w = CtCcmApply(v)
  BY <1>1
<1>3. CtCurved(v)
  BY <1>1, <1>2, CtPutEven
<1>4. /\ v \in CtTuned /\ v.gammaOn /\ CtBlackless(v)
      /\ \A r \in 1 .. 3 : v.curve[r].gamma = v.gamma
  BY <1>3 DEF CtCurved
<1> QED BY <1>2, <1>4, CtToldEven

\* A new black or exponent, and the curve that is started for it.
CtStarted(u, w) ==
    \E black \in 0 .. 255, gamma \in CtGammas : \E v :
       v = CtWith(u, black, gamma, u.red, u.blue, u.m, u.on) /\ w = CtGammaStart(v)

\* A curve started on an even balance leaves an even one.
LEMMA CtEvenStarts == ASSUME NEW u, NEW w, CtEven(u), CtStarted(u, w) PROVE CtEven(w)
<1>1. /\ u \in CtTuned /\ u.red \in Int /\ u.blue \in Int /\ u.m \in [1 .. 9 -> Int]
      /\ u.on \in BOOLEAN
  BY CtTunedParts DEF CtEven, CtParts
<1>a. PICK black \in 0 .. 255, gamma \in CtGammas : \E v :
         v = CtWith(u, black, gamma, u.red, u.blue, u.m, u.on) /\ w = CtGammaStart(v)
  BY Zenon DEF CtStarted
<1>b. PICK v : v = CtWith(u, black, gamma, u.red, u.blue, u.m, u.on) /\ w = CtGammaStart(v)
  BY <1>a
<1>2. /\ v \in CtTuned /\ v.red = u.red /\ v.blue = u.blue /\ v.m = u.m /\ v.block = u.block
      /\ v.ccm = u.ccm /\ v.gains = u.gains
  BY <1>1, <1>a, <1>b, CtPut
<1>3. /\ w \in CtTuned /\ w.gammaOn /\ CtBlackless(w) /\ CtGone(w)
      /\ w.m = v.m /\ w.red = v.red /\ w.blue = v.blue /\ w.block = v.block
      /\ w.ccm = v.ccm /\ w.gains = v.gains
  BY <1>2, <1>b, CtStartsGone
<1>4. CtMatrix(w) = CtMatrix(u)
  BY <1>2, <1>3 DEF CtMatrix, CtLimit
<1>5. w.ccm = CtMatrix(w)
  BY <1>2, <1>3, <1>4 DEF CtEven
<1>6. w.block = u.block /\ w.gains = u.gains /\ w.red = u.red /\ w.blue = u.blue
  BY <1>2, <1>3
<1>7. u.block => u.gains = <<u.red, u.blue>>
  BY DEF CtEven
<1>8. w.block => w.gains = <<w.red, w.blue>>
  BY <1>6, <1>7, Zenon
<1> QED BY <1>3, <1>5, <1>8, Zenon DEF CtEven

\* Every step keeps the balance that is told.
LEMMA CtNextBalance == ASSUME CtBalance, CtNext PROVE CtBalance'
<1>0. CtEven(ctW) /\ ctW \in CtTuned /\ CtParts(ctW)
  BY CtEvenIs, CtTunedParts DEF CtEven
<1>a. /\ CtBlacks \subseteq Int /\ CtGains \subseteq Int /\ CtRatios \subseteq Int
      /\ CtMatrices \subseteq [1 .. 9 -> Int]
  BY CtAssumption
<1>b. PICK u : u = ctW
  OBVIOUS
<1>c. u = CtRecord(u) /\ CtEven(u) /\ u \in CtTuned /\ CtParts(u)
  BY <1>0, <1>b DEF CtParts
<1>f. CtEven(u)
  BY <1>c
<1>d. /\ u.black \in 0 .. 255 /\ u.gamma \in CtGammas /\ u.red \in Int /\ u.blue \in Int
      /\ u.m \in [1 .. 9 -> Int] /\ u.on \in BOOLEAN
  BY <1>c DEF CtParts
<1>e. SUFFICES CtEven(ctW')
  BY DEF CtBalance, CtEven, CtGone, CtBlackGone, CtBalanced
<1>s. ASSUME UNCHANGED ctW PROVE CtEven(ctW')
  BY <1>s, <1>0
<1>1. ASSUME NEW kind \in CtKinds, CtMake(kind) PROVE CtEven(ctW')
  <2>1. CASE UNCHANGED ctW
    BY <2>1, <1>s
  <2>2. CASE ~UNCHANGED ctW
    <3>1. PICK black \in CtBlacks, m \in CtMatrices, block \in BOOLEAN, on \in BOOLEAN :
            ctW' = CtBegun(black % 256, m, block, on)
      BY <1>1, <2>2 DEF CtMake
    <3>2. PICK b \in Int : b = black % 256 /\ b \in 0 .. 255
      BY <1>a
    <3>3. m \in [1 .. 9 -> Int] /\ ctW' = CtBegun(b, m, block, on)
      BY <3>1, <3>2, <1>a
    <3>4. PICK w : w = ctW'
      OBVIOUS
    <3>a. b \in Int /\ b \in 0 .. 255 /\ m \in [1 .. 9 -> Int] /\ block \in BOOLEAN
          /\ on \in BOOLEAN /\ w = CtBegun(b, m, block, on)
      BY <3>1, <3>2, <3>3, <3>4
    <3>5. /\ w \in CtTuned /\ w.gammaOn /\ CtBlackless(w) /\ CtGone(w)
          /\ w.ccm = CtMatrix(w) /\ (w.block => w.gains = <<w.red, w.blue>>)
      BY <3>a, CtBegins
    <3>6. CtEven(w)
      BY <3>5, Zenon DEF CtEven
    <3> QED BY <3>4, <3>6
  <2> QED BY <2>1, <2>2
<1>2. ASSUME NEW r \in CtRatios, NEW b \in CtRatios, CtWhite(r, b) PROVE CtEven(ctW')
  <2>1. PICK red \in Int, blue \in Int :
          /\ red = u.red + (CtWithin(1, r, 15) - u.red) \div 4
          /\ blue = u.blue + (CtWithin(1, b, 15) - u.blue) \div 4
    <3>1. PICK r1 \in Int, b1 \in Int : r1 = CtWithin(1, r, 15) /\ b1 = CtWithin(1, b, 15)
      BY <1>a DEF CtWithin
    <3>2. PICK r2 \in Int, b2 \in Int : r2 = r1 - u.red /\ b2 = b1 - u.blue
      BY <1>d
    <3>3. PICK r3 \in Int, b3 \in Int : r3 = r2 \div 4 /\ b3 = b2 \div 4
      OBVIOUS
    <3>4. u.red + r3 \in Int /\ u.blue + b3 \in Int
      BY <1>d
    <3> QED BY <3>1, <3>2, <3>3, <3>4
  <2>2. PICK v : v = [u EXCEPT !.red = red, !.blue = blue]
    OBVIOUS
  <2>3. ctW' = CtCcmApply(v)
    BY <1>2, <1>b, <2>1, <2>2 DEF CtWhite
  <2>4. v = CtWith(u, u.black, u.gamma, red, blue, u.m, u.on)
    BY <2>2, <1>c DEF CtRecord, CtWith
  <2>5. CtApplied(u, ctW')
    BY <2>1, <2>3, <2>4, <1>d, Zenon DEF CtApplied
  <2> QED BY <2>5, <1>f, CtEvenApplies
<1>3. ASSUME NEW on \in BOOLEAN, CtAwb(on) PROVE CtEven(ctW')
  <2>1. PICK v : v = ctW'
    OBVIOUS
  <2>2. v = [u EXCEPT !.on = on]
    BY <1>3, <1>b, <2>1 DEF CtAwb
  <2>3. v = CtWith(u, u.black, u.gamma, u.red, u.blue, u.m, on)
    BY <2>2, <1>c DEF CtRecord, CtWith
  <2>4. /\ v \in CtTuned /\ v.black = u.black /\ v.gamma = u.gamma /\ v.red = u.red
        /\ v.blue = u.blue /\ v.m = u.m /\ v.block = u.block /\ v.gammaOn = u.gammaOn
        /\ v.ccm = u.ccm /\ v.gains = u.gains /\ v.curve = u.curve
    <3>1. /\ u \in CtTuned /\ u.black \in 0 .. 255 /\ u.gamma \in CtGammas /\ u.red \in Int
          /\ u.blue \in Int /\ u.m \in [1 .. 9 -> Int]
      BY <1>c, <1>d
    <3> QED BY <2>3, <3>1, CtPut
  <2>5. /\ CtMatrix(v) = CtMatrix(u) /\ \A r \in 1 .. 3 : CtOff(v, r) = CtOff(u, r)
    BY <2>4 DEF CtMatrix, CtLimit, CtOff, CtBlackAt
  <2>6. CtGone(v) /\ CtBlackless(v)
    BY <2>4, <2>5, <1>c DEF CtEven, CtGone, CtBlackless
  <2>7. v.gammaOn /\ v.ccm = CtMatrix(v) /\ (v.block => v.gains = <<v.red, v.blue>>)
    BY <2>4, <2>5, <1>c DEF CtEven
  <2> QED BY <2>1, <2>4, <2>6, <2>7 DEF CtEven
<1>4. ASSUME NEW r \in CtGains, NEW b \in CtGains, CtWbGains(r, b) PROVE CtEven(ctW')
  <2>2. PICK v : v = [u EXCEPT !.on = FALSE, !.red = r, !.blue = b]
    OBVIOUS
  <2>3. ctW' = CtCcmApply(v)
    BY <1>4, <1>b, <2>2 DEF CtWbGains
  <2>4. v = CtWith(u, u.black, u.gamma, r, b, u.m, FALSE)
    BY <2>2, <1>c DEF CtRecord, CtWith
  <2>5. r \in Int /\ b \in Int /\ FALSE \in BOOLEAN
    BY <1>a
  <2>6. CtApplied(u, ctW')
    BY <2>3, <2>4, <2>5, <1>d, Zenon DEF CtApplied
  <2> QED BY <2>6, <1>f, CtEvenApplies
<1>5. ASSUME NEW m \in CtMatrices, CtCcm(m) PROVE CtEven(ctW')
  <2>2. PICK v : v = [u EXCEPT !.m = m]
    OBVIOUS
  <2>3. ctW' = CtCcmApply(v)
    BY <1>5, <1>b, <2>2 DEF CtCcm
  <2>4. v = CtWith(u, u.black, u.gamma, u.red, u.blue, m, u.on)
    BY <2>2, <1>c DEF CtRecord, CtWith
  <2>5. m \in [1 .. 9 -> Int]
    BY <1>a
  <2>6. CtApplied(u, ctW')
    BY <2>3, <2>4, <2>5, <1>d, Zenon DEF CtApplied
  <2> QED BY <2>6, <1>f, CtEvenApplies
<1>6. ASSUME NEW g \in {"own", "another"}, CtGamma(g) PROVE CtEven(ctW')
  <2>2. PICK v : v = [u EXCEPT !.gamma = g]
    OBVIOUS
  <2>3. ctW' = CtGammaStart(v)
    BY <1>6, <1>b, <2>2 DEF CtGamma
  <2>4. v = CtWith(u, u.black, g, u.red, u.blue, u.m, u.on)
    BY <2>2, <1>c DEF CtRecord, CtWith
  <2>5. g \in CtGammas
    BY DEF CtGammas
  <2>6. CtStarted(u, ctW')
    BY <2>3, <2>4, <2>5, <1>d, Zenon DEF CtStarted
  <2> QED BY <2>6, <1>f, CtEvenStarts
<1>7. ASSUME NEW b \in CtBlacks, CtBlackLevel(b) PROVE CtEven(ctW')
  <2>1. PICK k \in 0 .. 255 : k = CtWithin(0, b, 128)
    BY <1>a DEF CtWithin
  <2>2. PICK v : v = [u EXCEPT !.black = k]
    OBVIOUS
  <2>3. ctW' = CtGammaStart(v)
    BY <1>7, <1>b, <2>1, <2>2 DEF CtBlackLevel
  <2>4. v = CtWith(u, k, u.gamma, u.red, u.blue, u.m, u.on)
    BY <2>2, <1>c DEF CtRecord, CtWith
  <2>6. CtStarted(u, ctW')
    BY <2>1, <2>3, <2>4, <1>d, Zenon DEF CtStarted
  <2> QED BY <2>6, <1>f, CtEvenStarts
<1>8. ASSUME NEW kind \in CtKinds, CtMakeRaises(kind) PROVE CtEven(ctW')
  BY <1>s, <1>8 DEF CtMakeRaises
<1>9. ASSUME \/ \E n \in 1 .. 9 : CtParseFails(n)
             \/ CtMakeFails \/ CtDeinit
      PROVE  CtEven(ctW')
  BY <1>s, <1>9 DEF CtParseFails, CtMakeFails, CtDeinit, CtCloses
<1>10. ASSUME \/ \E which \in {"v", "h"}, on \in BOOLEAN, how \in CtHow : CtTurns(which, on, how)
              \/ \E luma \in CtLumas : CtStat(luma)
              \/ CtLoop
              \/ \E ok \in {TRUE} \cup {"expose" \notin CtFails} : CtWrites(ok)
              \/ \E what \in {"e", "g"}, v \in CtRaws : CtByHand(what, v)
              \/ \E on \in BOOLEAN, target \in CtTargets : CtAuto(on, target)
       PROVE  CtEven(ctW')
  BY <1>s, <1>10 DEF CtTurns, CtStat, CtLoop, CtWrites, CtByHand, CtAuto
<1> QED BY <1>1, <1>2, <1>3, <1>4, <1>5, <1>6, <1>7, <1>8, <1>9, <1>10 DEF CtNext

\* A camera nobody has opened.
LEMMA CtInitInv == CtInit => CtInv
<1> SUFFICES ASSUME CtInit PROVE CtInv
  OBVIOUS
<1>1. CtLife
  BY DEF CtInit, CtLife, CtHeld
<1>2. CtOrient
  <2>1. "BGGR" \in DOMAIN CtCells
    BY DEF CtCells
  <2> QED BY <2>1 DEF CtInit, CtOrient, CtOpened, CtTableMirror, CtFlips, CtWorks
<1>3. CtExpose
  <2>0. CtDelay \in Nat /\ CtTop \in Nat \ {0} /\ CtGainTop \in Nat
    BY CtAssumption
  <2>1. /\ ctSensor = [has |-> {}, at |-> [e |-> 1, g |-> 0]]
        /\ ctAe = [on |-> FALSE, new |-> FALSE, luma |-> 0, skip |-> 0, target |-> 110,
                   last |-> [e |-> -1, g |-> -1]]
        /\ ctSince = CtDelay + 1 /\ ctDoes = CtRest /\ ctMoved = CtStill /\ ctOpen = "no"
    BY DEF CtInit
  <2>2. CtLoopTypes
    BY <2>0, <2>1 DEF CtLoopTypes
  <2>3. CtKnows /\ CtSettles
    BY <2>0, <2>1 DEF CtKnows, CtSettles, CtWorks
  <2>4. CtTowards /\ CtFresh
    BY <2>1 DEF CtTowards, CtFresh, CtStill
  <2> QED BY <2>1, <2>2, <2>3, <2>4 DEF CtExpose
<1>4. CtBalance
  <2>1. CtIdentity \in [1 .. 9 -> Int]
    BY DEF CtIdentity
  <2>2. ctW = CtBegun(0, CtIdentity, FALSE, TRUE)
    BY DEF CtInit
  <2>3. 0 \in Int /\ 0 \in 0 .. 255 /\ FALSE \in BOOLEAN /\ TRUE \in BOOLEAN
    OBVIOUS
  <2> QED BY <2>1, <2>2, <2>3, CtBegins, CtEvenIs DEF CtEven
<1> QED BY <1>1, <1>2, <1>3, <1>4 DEF CtInv

\* Every step keeps what is promised.
LEMMA CtNextInv == ASSUME CtPlain, CtInv, [CtNext]_ctVars PROVE CtInv'
<1>0. CtLife /\ CtOrient /\ CtExpose /\ CtBalance
  BY DEF CtInv
<1>1. CASE CtNext
  BY <1>0, <1>1, CtNextLife, CtNextOrient, CtNextExpose, CtNextBalance DEF CtInv
<1>2. CASE UNCHANGED ctVars
  <2>1. UNCHANGED <<ctOfLife, ctOfFlip, ctOfLoop, ctW>>
    BY <1>2 DEF ctVars, ctOfLife, ctOfFlip, ctOfLoop
  <2>2. CtLife'
    BY <1>0, <2>1 DEF ctOfLife, CtLife, CtHeld, CtBlocksOf, CtIsTable, CtReached, CtAllocs
  <2>3. CtOrient' /\ CtExpose'
    BY <1>0, <2>1, CtOrientStays, CtExposeStays DEF ctOfLife
  <2>4. CtBalance'
    BY <1>0, <2>1 DEF CtBalance, CtBlackGone, CtBalanced
  <2> QED BY <2>2, <2>3, <2>4 DEF CtInv
<1> QED BY <1>1, <1>2

\* CameraTune's part of CameraSafe: flips and Bayer order, exposure loop, white balance
\* and black, and the heap of a camera that ends or fails to begin.
THEOREM CtKeepsThePicture == CtPlain => (CtSpec => []CtSafe)
<1> SUFFICES ASSUME CtPlain PROVE CtSpec => []CtSafe
  OBVIOUS
<1>1. CtInit => CtInv
  BY CtInitInv
<1>2. CtInv /\ [CtNext]_ctVars => CtInv'
  BY CtNextInv
<1>3. CtInv => CtSafe
  BY CtColoursOf DEF CtInv, CtSafe, CtExpose, CtBalance, CtLife
<1> QED BY <1>1, <1>2, <1>3, PTL DEF CtSpec

-----------------------------------------------------------------------------
(***************************************************************************)
(* Which pixels of a frame go where, for any frame and any size asked of   *)
(* take(). It is arithmetic: a block is 16w/k by 16h/k, so that its sides  *)
(* scale exactly; and a picture turned is followed back to the source.     *)
(***************************************************************************)

\* A product with less than a divisor, divided by it, is less than the other factor.
LEMMA PaWithin ==
    ASSUME NEW s \in Nat \ {0}, NEW w \in Nat \ {0}, NEW u \in 0 .. w - 1
    PROVE  (u * s) \div w \in 0 .. s - 1
<1>1. PICK n \in Nat : n = u * s
  OBVIOUS
<1>2. PICK q : q = n \div w
  OBVIOUS
<1>3. q \in Int /\ 0 <= q
  <2>1. w * 0 <= n
    OBVIOUS
  <2> QED BY <1>2, <2>1, CtQuotientSide
<1>4. n + s <= s * w
  <2>1. s * u + s <= s * w
    BY CtTimesMore
  <2>2. s * u = u * s
    OBVIOUS
  <2> QED BY <1>1, <2>1, <2>2
<1>5. w * q <= n /\ w * q \in Int
  BY <1>2, CtDivMod
<1>6. ASSUME s <= q PROVE FALSE
  <2>1. w * s <= w * q
    <3>1. CASE s = q
      BY <1>3, <1>5, <3>1
    <3>2. CASE s < q
      BY <1>3, <3>2, CtTimesMore
    <3> QED BY <1>3, <1>6, <3>1, <3>2
  <2>2. w * s = s * w /\ w * s \in Int
    OBVIOUS
  <2> QED BY <1>4, <1>5, <2>1, <2>2
<1> QED BY <1>1, <1>2, <1>3, <1>6

\* The side of a block that is not the frame's whole: at least a pixel, and in the frame.
LEMMA PaShare ==
    ASSUME NEW W \in Nat \ {0}, NEW H \in Nat \ {0}, NEW w \in Nat \ {0}, NEW h \in Nat \ {0},
           H * w <= W * h, h <= H * w
    PROVE  (H * w) \div h \in 1 .. W
<1>1. PICK n \in Nat : n = H * w
  OBVIOUS
<1>2. PICK q : q = n \div h
  OBVIOUS
<1>3. h * 1 <= n /\ n <= h * W
  <2>1. W * h = h * W
    OBVIOUS
  <2> QED BY <1>1, <2>1
<1>4. q \in Int /\ 1 <= q /\ q <= W
  BY <1>1, <1>2, <1>3, CtQuotientSide
<1> QED BY <1>1, <1>2, <1>4

\* Equal products of one factor have the other equal.
LEMMA PaCancel ==
    ASSUME NEW k \in Nat \ {0}, NEW a \in Int, NEW b \in Int, k * a = k * b
    PROVE  a = b
<1>1. ASSUME a < b PROVE FALSE
  BY <1>1, CtTimesMore
<1>2. ASSUME b < a PROVE FALSE
  BY <1>2, CtTimesMore
<1> QED BY <1>1, <1>2

\* A side of which sixteen times the one asked is a multiple scales exactly.
LEMMA PaExactly ==
    ASSUME NEW n \in Nat \ {0}, NEW want \in Nat \ {0}, NEW k \in Nat \ {0}, n * k = 16 * want
    PROVE  PaScalesExactly(n, want, FALSE)
<1>1. (16 * want) \div n = k
  <2>1. PICK m \in Int : m = 16 * want
    OBVIOUS
  <2>2. PICK q : q = m \div n
    OBVIOUS
  <2>3. n * k <= m /\ m <= n * k
    BY <2>1
  <2>4. q \in Int /\ k <= q /\ q <= k
    BY <2>2, <2>3, CtQuotientSide
  <2> QED BY <2>1, <2>2, <2>4
<1>2. PICK p \in Nat, f \in 0 .. 15 : k = 16 * p + f /\ f = k % 16
  <2>1. PICK p, f : p = k \div 16 /\ f = k % 16
    OBVIOUS
  <2>2. p \in Int /\ k = 16 * p + f /\ f \in 0 .. 15
    BY <2>1, CtDivMod
  <2>3. p \in Nat
    BY <2>2
  <2> QED BY <2>1, <2>2, <2>3
<1>3. PICK np \in Nat, nf \in Nat : np = n * p /\ nf = n * f
  OBVIOUS
<1>4. n * k = 16 * np + nf
  <2>1. n * (16 * p + f) = 16 * (n * p) + n * f
    OBVIOUS
  <2> QED BY <1>2, <1>3, <2>1
<1>5. nf <= 15 * n
  <2>1. n * f <= n * 15
    <3>1. CASE f = 15
      BY <3>1
    <3>2. CASE f < 15
      BY <3>2, CtTimesMore
    <3> QED BY <3>1, <3>2
  <2> QED BY <1>3, <2>1
<1>6. PICK z \in Int : z = want - np
  OBVIOUS
<1>7. nf = 16 * z /\ 0 <= z /\ z < n
  BY <1>3, <1>4, <1>5, <1>6
<1>8. nf \div 16 = z
  BY <1>7
<1>9. want \div n = p
  <2>1. PICK q : q = want \div n
    OBVIOUS
  <2>2. n * p <= want
    BY <1>3, <1>6, <1>7
  <2>3. q \in Int /\ p <= q
    BY <2>1, <2>2, CtQuotientSide
  <2>4. n * q <= want /\ n * q \in Int
    BY <2>1, CtDivMod
  <2>5. ASSUME p < q PROVE FALSE
    <3>1. n * p + n <= n * q
      BY <2>3, <2>5, CtTimesMore
    <3> QED BY <1>3, <1>6, <1>7, <2>4, <3>1
  <2> QED BY <2>1, <2>3, <2>5
<1>10. n * (want \div n) + (n * f) \div 16 = want
  BY <1>3, <1>6, <1>8, <1>9
<1> QED BY <1>1, <1>2, <1>10 DEF PaScalesExactly

\* A multiple's quotient.
LEMMA PaWhole ==
    ASSUME NEW d \in Nat \ {0}, NEW n \in Int, NEW q, q = n \div d, n % d = 0
    PROVE  q \in Int /\ n = d * q
<1>1. n \div d \in Int /\ n = d * (n \div d) + (n % d)
  BY CtDivMod
<1>2. d * (n \div d) \in Int
  BY <1>1
<1> QED BY <1>1, <1>2

\* A block in the middle.
LEMMA PaMiddle ==
    ASSUME NEW W \in Nat \ {0}, NEW b \in 1 .. W, NEW x, x = (W - b) \div 2
    PROVE  x + b <= W /\ W - b - 2 * x \in {0, 1}
<1>1. PICK n \in Nat, d \in Nat \ {0} : n = W - b /\ d = 2
  OBVIOUS
<1>2. PICK r \in 0 .. d - 1 : n = d * x + r /\ x \in Int
  <2>1. x = n \div d
    BY <1>1
  <2> QED BY <2>1, CtDivMod
<1> QED BY <1>1, <1>2

\* What divides a multiple of sixteen into no more than there is.
PaParts(w, h, mw, mh) ==
    {k \in 1 .. 256 : /\ (16 * w) % k = 0 /\ (16 * w) \div k <= mw
                      /\ (16 * h) % k = 0 /\ (16 * h) \div k <= mh}
PaPartIs(w, h, mw, mh, k, bw, bh) ==
    /\ {w, h} \subseteq Nat \ {0} /\ {mw, mh} \subseteq Nat
    /\ k \in PaParts(w, h, mw, mh) /\ bw = (16 * w) \div k /\ bh = (16 * h) \div k
PaPartFits(w, h, mw, mh, bw, bh) ==
    /\ bw \in 1 .. mw /\ bh \in 1 .. mh /\ bw * h = bh * w
    /\ PaScalesExactly(bw, w, FALSE) /\ PaScalesExactly(bh, h, FALSE)

\* Such a part scales exactly, and keeps the shape asked.
LEMMA PaPartsExact ==
    ASSUME NEW w, NEW h, NEW mw, NEW mh, NEW k, NEW bw, NEW bh, PaPartIs(w, h, mw, mh, k, bw, bh)
    PROVE  PaPartFits(w, h, mw, mh, bw, bh)
<1>0. /\ w \in Nat \ {0} /\ h \in Nat \ {0} /\ mw \in Nat /\ mh \in Nat
      /\ k \in PaParts(w, h, mw, mh) /\ bw = (16 * w) \div k /\ bh = (16 * h) \div k
  BY DEF PaPartIs
<1>1. k \in Nat \ {0} /\ (16 * w) % k = 0 /\ bw <= mw /\ (16 * h) % k = 0 /\ bh <= mh
  BY <1>0 DEF PaParts
<1>2. bw \in Int /\ 16 * w = k * bw /\ bh \in Int /\ 16 * h = k * bh
  <2>1. PICK m \in Int, n \in Int : m = 16 * w /\ n = 16 * h
    BY <1>0
  <2>2. bw = m \div k /\ m % k = 0 /\ bh = n \div k /\ n % k = 0
    BY <1>0, <1>1, <2>1
  <2>3. bw \in Int /\ m = k * bw
    BY <1>1, <2>2, PaWhole
  <2>4. bh \in Int /\ n = k * bh
    BY <1>1, <2>2, PaWhole
  <2> QED BY <2>1, <2>3, <2>4
<1>3. 1 <= bw /\ 1 <= bh
  <2>1. ASSUME NEW b \in Int, b <= 0 PROVE k * b <= 0
    <3>1. CASE b = 0
      BY <1>1, <3>1
    <3>2. CASE b < 0
      <4>1. k * b + k <= k * 0
        BY <1>1, <3>2, CtTimesMore
      <4>2. k * b \in Int
        BY <1>1
      <4> QED BY <1>1, <4>1, <4>2
    <3> QED BY <2>1, <3>1, <3>2
  <2> QED BY <1>0, <1>2, <2>1
<1>4. bw * h = bh * w
  <2>1. k * (bw * h) = (k * bw) * h /\ k * (bh * w) = (k * bh) * w
    BY <1>0, <1>1, <1>2
  <2>2. (16 * w) * h = (16 * h) * w
    BY <1>0
  <2>3. k * (bw * h) = k * (bh * w) /\ bw * h \in Int /\ bh * w \in Int
    BY <1>0, <1>2, <2>1, <2>2
  <2> QED BY <1>1, <2>3, PaCancel
<1>5. PaScalesExactly(bw, w, FALSE)
  <2>1. bw * k = 16 * w /\ bw \in Nat \ {0}
    BY <1>1, <1>2, <1>3
  <2> QED BY <1>0, <1>1, <2>1, PaExactly
<1>6. PaScalesExactly(bh, h, FALSE)
  <2>1. bh * k = 16 * h /\ bh \in Nat \ {0}
    BY <1>1, <1>2, <1>3
  <2> QED BY <1>0, <1>1, <2>1, PaExactly
<1>7. bw \in 1 .. mw /\ bh \in 1 .. mh
  BY <1>0, <1>1, <1>2, <1>3
<1> QED BY <1>4, <1>5, <1>6, <1>7 DEF PaPartFits

\* A block in its frame, in the middle, and exact when it says so.
PaBlockAsked(W, H, w, h) == {W, H, w, h} \subseteq Nat \ {0} /\ h <= H * w /\ w <= W * h
PaBlockIn(W, H, w, h, b) ==
    /\ b.w > 0 /\ b.x + b.w <= W /\ W - b.w - 2 * b.x \in {0, 1}
    /\ b.h > 0 /\ b.y + b.h <= H /\ H - b.h - 2 * b.y \in {0, 1}
    /\ b.exact => /\ b.w * h = b.h * w
                  /\ PaScalesExactly(b.w, w, FALSE) /\ PaScalesExactly(b.h, h, FALSE)

\* block(), of a frame in which the shape asked is a pixel at the least.
LEMMA PaBlockFits ==
    ASSUME NEW W, NEW H, NEW w, NEW h, NEW b, PaBlockAsked(W, H, w, h), b = PaBlock(W, H, w, h)
    PROVE  PaBlockIn(W, H, w, h, b)
<1>0. W \in Nat \ {0} /\ H \in Nat \ {0} /\ w \in Nat \ {0} /\ h \in Nat \ {0} /\ h <= H * w /\ w <= W * h
  BY DEF PaBlockAsked
<1> DEFINE wide == W * h >= H * w
           mw == IF wide THEN (H * w) \div h ELSE W
           mh == IF wide THEN H ELSE (W * h) \div w
           ks == PaParts(w, h, mw, mh)
           k == CHOOSE i \in ks : \A j \in ks : i <= j
           exact == ks # {} /\ 2 * ((16 * w) \div k) >= mw /\ 2 * ((16 * h) \div k) >= mh
           bw == IF exact THEN (16 * w) \div k ELSE mw
           bh == IF exact THEN (16 * h) \div k ELSE mh
<1>8. b = [x |-> (W - bw) \div 2, y |-> (H - bh) \div 2, w |-> bw, h |-> bh, exact |-> exact]
  BY Zenon DEF PaBlock, PaParts
<1>2. mw = (IF wide THEN (H * w) \div h ELSE W) /\ mh = (IF wide THEN H ELSE (W * h) \div w)
  OBVIOUS
<1>1. PICK p \in Int, q \in Int : p = W * h /\ q = H * w
  BY <1>0
<1>a. wide \in BOOLEAN /\ wide = (p >= q)
  BY <1>1
<1> HIDE DEF wide, mw, mh
<1>3. mw \in 1 .. W /\ mh \in 1 .. H
  <2>2. CASE wide
    <3>1. H * w <= W * h
      BY <1>0, <1>1, <1>a, <2>2
    <3>2. (H * w) \div h \in 1 .. W
      BY <1>0, <3>1, PaShare
    <3> QED BY <1>0, <1>2, <2>2, <3>2
  <2>3. CASE ~wide
    <3>0. ~(p >= q)
      BY <1>a, <2>3
    <3>1. W * h <= H * w
      BY <1>0, <1>1, <3>0
    <3>2. (W * h) \div w \in 1 .. H
      BY <1>0, <3>1, PaShare
    <3> QED BY <1>0, <1>2, <2>3, <3>2
  <2> QED BY <2>2, <2>3, <1>a
<1>4. ks = PaParts(w, h, mw, mh)
  OBVIOUS
<1> HIDE DEF ks
<1>5. k = CHOOSE i \in ks : \A j \in ks : i <= j
  OBVIOUS
<1> HIDE DEF k
<1>6. exact \in BOOLEAN /\ (exact => ks # {})
  OBVIOUS
<1> HIDE DEF exact
<1>7. bw = (IF exact THEN (16 * w) \div k ELSE mw) /\ bh = (IF exact THEN (16 * h) \div k ELSE mh)
  OBVIOUS
<1> HIDE DEF bw, bh
<1>9. exact => k \in ks
  <2>1. ks \in SUBSET Nat
    BY <1>4 DEF PaParts
  <2>2. ks # {} => \E i \in ks : \A j \in ks : i <= j
    BY <2>1, LeastOf
  <2> QED BY <1>5, <1>6, <2>2
<1>10. /\ bw \in 1 .. W /\ bh \in 1 .. H
       /\ exact => bw * h = bh * w /\ PaScalesExactly(bw, w, FALSE) /\ PaScalesExactly(bh, h, FALSE)
  <2>1. CASE exact
    <3>1. k \in PaParts(w, h, mw, mh) /\ bw = (16 * w) \div k /\ bh = (16 * h) \div k
      BY <1>4, <1>7, <1>9, <2>1
    <3>2. PaPartIs(w, h, mw, mh, k, bw, bh)
      BY <1>0, <1>3, <3>1 DEF PaPartIs
    <3>3. PaPartFits(w, h, mw, mh, bw, bh)
      BY <3>2, PaPartsExact
    <3>4. /\ bw \in 1 .. mw /\ bh \in 1 .. mh /\ bw * h = bh * w
          /\ PaScalesExactly(bw, w, FALSE) /\ PaScalesExactly(bh, h, FALSE)
      BY <3>3 DEF PaPartFits
    <3>5. bw \in 1 .. W /\ bh \in 1 .. H
      BY <1>0, <1>3, <3>4
    <3> QED BY <3>4, <3>5
  <2>2. CASE ~exact
    BY <1>3, <1>7, <2>2
  <2> QED BY <2>1, <2>2, <1>6
<1>11. b.x = (W - bw) \div 2 /\ b.y = (H - bh) \div 2 /\ b.w = bw /\ b.h = bh /\ b.exact = exact
  BY <1>8
<1>12. b.x + b.w <= W /\ W - b.w - 2 * b.x \in {0, 1}
  BY <1>0, <1>10, <1>11, PaMiddle
<1>13. b.y + b.h <= H /\ H - b.h - 2 * b.y \in {0, 1}
  BY <1>0, <1>10, <1>11, PaMiddle
<1>14. b.w > 0 /\ b.h > 0
  BY <1>10, <1>11
<1> QED BY <1>10, <1>11, <1>12, <1>13, <1>14 DEF PaBlockIn

\* A buffer rounded up to whole lines is one the PPA takes.
LEMMA PaDmaTakes ==
    ASSUME NEW need \in Nat \ {0}
    PROVE  PaDmaLen(PaRounded(need), need) # 0
<1>1. PICK r : r = PaRounded(need)
  OBVIOUS
<1>2. r \in Nat /\ r >= need /\ r % 64 = 0
  BY <1>1 DEF PaRounded
<1> QED BY <1>1, <1>2 DEF PaDmaLen

\* An operation that is checked.
PaOpTypes == [what : {"srm"}, sf : {"rgb", "y422", "y420"}, df : {"rgb", "y422", "y420"},
              sx : Nat, sy : Nat, sw : Nat \ {0}, sh : Nat \ {0}, x : Nat, y : Nat,
              w : Nat \ {0}, h : Nat \ {0}, rot : {0, 90, 180, 270}, mx : BOOLEAN, my : BOOLEAN]

\* Each operation that is asked is one.
LEMMA PaOpIs ==
    ASSUME NEW f \in PaFormats, NEW x \in {0, 1} \X {0, 1}, NEW s \in {2, 3} \X {2, 3} \X {2, 3},
           NEW rot \in {0, 90, 180, 270}, NEW mx \in BOOLEAN, NEW my \in BOOLEAN
    PROVE  PaOp(f, x, s, rot, mx, my) \in PaOpTypes
<1>1. f[1] \in {"rgb", "y422", "y420"} /\ f[2] \in {"rgb", "y422", "y420"}
  BY DEF PaFormats
<1>2. x[1] \in Nat /\ x[2] \in Nat
  OBVIOUS
<1>3. s[1] \in Nat \ {0} /\ s[2] \in Nat \ {0} /\ s[3] \in Nat \ {0}
  OBVIOUS
<1> QED BY <1>1, <1>2, <1>3 DEF PaOp, PaOpTypes

\* A pair, and its parts.
LEMMA PaPair ==
    ASSUME NEW A, NEW B, NEW i \in A, NEW j \in B, NEW p, p = <<i, j>>
    PROVE  p \in A \X B /\ p[1] = i /\ p[2] = j
OBVIOUS

\* The sides of a picture scaled, the pixels it has, and those of one turned a quarter.
PaSides(a, w, h) == w = (IF PaTurn(a) THEN a.h ELSE a.w) /\ h = (IF PaTurn(a) THEN a.w ELSE a.h)
PaHasSides(q, w, h) == q.w = w /\ q.h = h
PaScaledOf(q, a, w, h) ==
    /\ q.w = w /\ q.h = h
    /\ \A i \in 0 .. w - 1, j \in 0 .. h - 1 :
           q.at[<<i, j>>] = <<a.sx + (i * a.sw) \div w, a.sy + (j * a.sh) \div h>>
PaQuarterOf(t, q, w, h) ==
    /\ t.w = h /\ t.h = w
    /\ \A i \in 0 .. h - 1, j \in 0 .. w - 1 : t.at[<<i, j>>] = q.at[<<w - 1 - j, i>>]

\* The picture scaled is so,
LEMMA PaScaledAt ==
    ASSUME NEW a, NEW w, NEW h, PaSides(a, w, h)
    PROVE  PaScaledOf(PaScaledPicture(a), a, w, h)
<1> DEFINE q == PaScaledPicture(a)
<1>0. w = (IF PaTurn(a) THEN a.h ELSE a.w) /\ h = (IF PaTurn(a) THEN a.w ELSE a.h)
  BY DEF PaSides
<1> DEFINE at == [p \in (0 .. w - 1) \X (0 .. h - 1) |->
                     <<a.sx + (p[1] * a.sw) \div w, a.sy + (p[2] * a.sh) \div h>>]
<1>1. q = [w |-> w, h |-> h, at |-> at]
  BY <1>0 DEF PaScaledPicture
<1>2. ASSUME NEW i \in 0 .. w - 1, NEW j \in 0 .. h - 1
      PROVE  at[<<i, j>>] = <<a.sx + (i * a.sw) \div w, a.sy + (j * a.sh) \div h>>
  <2>1. PICK p : p = <<i, j>>
    OBVIOUS
  <2>2. p \in (0 .. w - 1) \X (0 .. h - 1) /\ p[1] = i /\ p[2] = j
    BY <2>1, PaPair
  <2> QED BY <2>1, <2>2
<1> HIDE DEF at, q
<1>3. q.w = w /\ q.h = h /\ q.at = at
  BY <1>1
<1>4. PaScaledOf(q, a, w, h)
  BY <1>2, <1>3 DEF PaScaledOf
<1> QED BY <1>4 DEF q

\* ... and the one turned too.
LEMMA PaQuarterAt ==
    ASSUME NEW q, NEW w, NEW h, PaHasSides(q, w, h)
    PROVE  PaQuarterOf(PaQuarter(q), q, w, h)
<1>0. PICK t : t = PaQuarter(q)
  OBVIOUS
<1> DEFINE at == [p \in (0 .. q.h - 1) \X (0 .. q.w - 1) |-> q.at[<<q.w - 1 - p[2], p[1]>>]]
<1>1. t = [w |-> q.h, h |-> q.w, at |-> at]
  BY <1>0 DEF PaQuarter
<1>2. ASSUME NEW i \in 0 .. q.h - 1, NEW j \in 0 .. q.w - 1
      PROVE  at[<<i, j>>] = q.at[<<q.w - 1 - j, i>>]
  <2>1. PICK p : p = <<i, j>>
    OBVIOUS
  <2>2. p \in (0 .. q.h - 1) \X (0 .. q.w - 1) /\ p[1] = i /\ p[2] = j
    BY <2>1, PaPair
  <2> QED BY <2>1, <2>2
<1> HIDE DEF at
<1>3. t.w = q.h /\ t.h = q.w /\ t.at = at
  BY <1>1
<1>4. q.w = w /\ q.h = h
  BY DEF PaHasSides
<1>5. PaQuarterOf(t, q, w, h)
  BY <1>2, <1>3, <1>4 DEF PaQuarterOf
<1> QED BY <1>0, <1>5

\* The pixel of the picture scaled that a pixel of the picture turned is.
PaUnturned(a, w, h, i, j) ==
    CASE a.rot = 90 -> <<w - 1 - j, i>> [] a.rot = 180 -> <<w - 1 - i, h - 1 - j>>
      [] a.rot = 270 -> <<j, h - 1 - i>> [] OTHER -> <<i, j>>

\* Turned as often as asked, the picture has there what it had here.
LEMMA PaTurnedAt ==
    ASSUME NEW a \in PaOpTypes, NEW w, NEW h, NEW i \in 0 .. a.w - 1, NEW j \in 0 .. a.h - 1, PaSides(a, w, h)
    PROVE  PaTurned(a).at[<<i, j>>] = PaScaledPicture(a).at[PaUnturned(a, w, h, i, j)]
<1>1. PICK q : q = PaScaledPicture(a)
  OBVIOUS
<1>2. PaHasSides(q, w, h) /\ w \in Nat \ {0} /\ h \in Nat \ {0}
  <2>1. PaScaledOf(q, a, w, h)
    BY <1>1, PaScaledAt
  <2>2. w \in Nat \ {0} /\ h \in Nat \ {0}
    BY DEF PaSides, PaOpTypes
  <2> QED BY <2>1, <2>2 DEF PaScaledOf, PaHasSides
<1>3. PICK s : s = PaQuarter(q)
  OBVIOUS
<1>4. PICK t : t = PaQuarter(s)
  OBVIOUS
<1>5. PICK u : u = PaQuarter(t)
  OBVIOUS
<1>6. PaHasSides(s, h, w) /\ \A x \in 0 .. h - 1, y \in 0 .. w - 1 : s.at[<<x, y>>] = q.at[<<w - 1 - y, x>>]
  <2>1. PaQuarterOf(s, q, w, h)
    BY <1>2, <1>3, PaQuarterAt
  <2> QED BY <2>1 DEF PaQuarterOf, PaHasSides
<1>7. PaHasSides(t, w, h) /\ \A x \in 0 .. w - 1, y \in 0 .. h - 1 : t.at[<<x, y>>] = s.at[<<h - 1 - y, x>>]
  <2>1. PaQuarterOf(t, s, h, w)
    BY <1>6, <1>4, PaQuarterAt
  <2> QED BY <2>1 DEF PaQuarterOf, PaHasSides
<1>8. \A x \in 0 .. h - 1, y \in 0 .. w - 1 : u.at[<<x, y>>] = t.at[<<w - 1 - y, x>>]
  <2>1. PaQuarterOf(u, t, w, h)
    BY <1>7, <1>5, PaQuarterAt
  <2> QED BY <2>1 DEF PaQuarterOf
<1>9. CASE a.rot = 0
  <2>1. PaTurned(a) = q /\ PaUnturned(a, w, h, i, j) = <<i, j>>
    BY <1>1, <1>9 DEF PaTurned, PaUnturned
  <2> QED BY <1>1, <2>1
<1>10. CASE a.rot = 90
  <2>1. PaTurned(a) = s /\ PaUnturned(a, w, h, i, j) = <<w - 1 - j, i>>
    BY <1>1, <1>3, <1>10 DEF PaTurned, PaUnturned
  <2>2. i \in 0 .. h - 1 /\ j \in 0 .. w - 1
    BY <1>10 DEF PaSides, PaTurn
  <2> QED BY <1>1, <1>6, <2>1, <2>2
<1>11. CASE a.rot = 180
  <2>1. PaTurned(a) = t /\ PaUnturned(a, w, h, i, j) = <<w - 1 - i, h - 1 - j>>
    BY <1>1, <1>3, <1>4, <1>11 DEF PaTurned, PaUnturned
  <2>2. i \in 0 .. w - 1 /\ j \in 0 .. h - 1
    BY <1>11 DEF PaSides, PaTurn
  <2>3. h - 1 - j \in 0 .. h - 1
    BY <1>2, <2>2
  <2>4. t.at[<<i, j>>] = s.at[<<h - 1 - j, i>>]
    BY <1>7, <2>2
  <2>5. s.at[<<h - 1 - j, i>>] = q.at[<<w - 1 - i, h - 1 - j>>]
    BY <1>6, <2>2, <2>3
  <2> QED BY <1>1, <2>1, <2>4, <2>5
<1>12. CASE a.rot = 270
  <2>1. PaTurned(a) = u /\ PaUnturned(a, w, h, i, j) = <<j, h - 1 - i>>
    BY <1>1, <1>3, <1>4, <1>5, <1>12 DEF PaTurned, PaUnturned
  <2>2. i \in 0 .. h - 1 /\ j \in 0 .. w - 1
    BY <1>12 DEF PaSides, PaTurn
  <2>3. w - 1 - j \in 0 .. w - 1 /\ h - 1 - i \in 0 .. h - 1
    BY <1>2, <2>2
  <2>4. u.at[<<i, j>>] = t.at[<<w - 1 - j, i>>]
    BY <1>8, <2>2
  <2>5. t.at[<<w - 1 - j, i>>] = s.at[<<h - 1 - i, w - 1 - j>>]
    BY <1>7, <2>2, <2>3
  <2>6. s.at[<<h - 1 - i, w - 1 - j>>] = q.at[<<w - 1 - (w - 1 - j), h - 1 - i>>]
    BY <1>6, <2>3
  <2>7. w - 1 - (w - 1 - j) = j
    BY <1>2, <2>2
  <2> QED BY <1>1, <2>1, <2>4, <2>5, <2>6, <2>7
<1>13. a.rot \in {0, 90, 180, 270}
  BY DEF PaOpTypes
<1> QED BY <1>9, <1>10, <1>11, <1>12, <1>13

\* It is in the picture scaled.
LEMMA PaUnturnedIn ==
    ASSUME NEW a \in PaOpTypes, NEW w, NEW h, NEW i \in 0 .. a.w - 1, NEW j \in 0 .. a.h - 1, PaSides(a, w, h)
    PROVE  \E x \in 0 .. w - 1, y \in 0 .. h - 1 : PaUnturned(a, w, h, i, j) = <<x, y>>
<1>2. w \in Nat \ {0} /\ h \in Nat \ {0}
  BY DEF PaSides, PaOpTypes
<1>9. CASE a.rot = 0
  <2>1. PaUnturned(a, w, h, i, j) = <<i, j>>
    BY <1>9 DEF PaUnturned
  <2>2. i \in 0 .. w - 1 /\ j \in 0 .. h - 1
    BY <1>9 DEF PaSides, PaTurn
  <2> QED BY <2>1, <2>2
<1>10. CASE a.rot = 90
  <2>1. PaUnturned(a, w, h, i, j) = <<w - 1 - j, i>>
    BY <1>10 DEF PaUnturned
  <2>2. i \in 0 .. h - 1 /\ w - 1 - j \in 0 .. w - 1
    BY <1>2, <1>10 DEF PaSides, PaTurn
  <2> QED BY <2>1, <2>2
<1>11. CASE a.rot = 180
  <2>1. PaUnturned(a, w, h, i, j) = <<w - 1 - i, h - 1 - j>>
    BY <1>11 DEF PaUnturned
  <2>2. w - 1 - i \in 0 .. w - 1 /\ h - 1 - j \in 0 .. h - 1
    BY <1>2, <1>11 DEF PaSides, PaTurn
  <2> QED BY <2>1, <2>2
<1>12. CASE a.rot = 270
  <2>1. PaUnturned(a, w, h, i, j) = <<j, h - 1 - i>>
    BY <1>12 DEF PaUnturned
  <2>2. j \in 0 .. w - 1 /\ h - 1 - i \in 0 .. h - 1
    BY <1>2, <1>12 DEF PaSides, PaTurn
  <2> QED BY <2>1, <2>2
<1>13. a.rot \in {0, 90, 180, 270}
  BY DEF PaOpTypes
<1> QED BY <1>9, <1>10, <1>11, <1>12, <1>13

\* A pixel of the block is the picture's, turned and mirrored, and in the source's block.
LEMMA PaPixelIs ==
    ASSUME NEW a \in PaOpTypes, NEW ox \in 0 .. a.w - 1, NEW oy \in 0 .. a.h - 1
    PROVE  /\ PaPixel(a, ox, oy) = PaTurned(a).at[<<IF a.mx THEN a.w - 1 - ox ELSE ox,
                                                  IF a.my THEN a.h - 1 - oy ELSE oy>>]
           /\ \E x \in 0 .. a.sw - 1, y \in 0 .. a.sh - 1 : PaPixel(a, ox, oy) = <<a.sx + x, a.sy + y>>
<1>0. a.w \in Nat \ {0} /\ a.h \in Nat \ {0} /\ a.sw \in Nat \ {0} /\ a.sh \in Nat \ {0}
  BY DEF PaOpTypes
<1>1. PICK i, j : i = (IF a.mx THEN a.w - 1 - ox ELSE ox) /\ j = (IF a.my THEN a.h - 1 - oy ELSE oy)
  OBVIOUS
<1>2. i \in 0 .. a.w - 1 /\ j \in 0 .. a.h - 1
  BY <1>0, <1>1
<1>3. PICK w, h : w = (IF PaTurn(a) THEN a.h ELSE a.w) /\ h = (IF PaTurn(a) THEN a.w ELSE a.h)
  OBVIOUS
<1>4. PaSides(a, w, h) /\ w \in Nat \ {0} /\ h \in Nat \ {0}
  BY <1>0, <1>3 DEF PaSides
<1>5. PICK x \in 0 .. w - 1, y \in 0 .. h - 1 : PaUnturned(a, w, h, i, j) = <<x, y>>
  BY <1>2, <1>4, PaUnturnedIn
<1>6. PICK u : u = PaUnturned(a, w, h, i, j)
  OBVIOUS
<1>7. PaPixel(a, ox, oy) = <<a.sx + (u[1] * a.sw) \div w, a.sy + (u[2] * a.sh) \div h>>
  BY <1>1, <1>3, <1>6 DEF PaPixel, PaUnturned
<1>8. u[1] = x /\ u[2] = y
  BY <1>5, <1>6
<1>9. PaPixel(a, ox, oy) = <<a.sx + (x * a.sw) \div w, a.sy + (y * a.sh) \div h>>
  BY <1>7, <1>8
<1>10. PaScaledPicture(a).at[<<x, y>>] = <<a.sx + (x * a.sw) \div w, a.sy + (y * a.sh) \div h>>
  <2>1. PaScaledOf(PaScaledPicture(a), a, w, h)
    BY <1>4, PaScaledAt
  <2> QED BY <2>1 DEF PaScaledOf
<1>11. PaTurned(a).at[<<i, j>>] = PaScaledPicture(a).at[<<x, y>>]
  BY <1>2, <1>4, <1>5, PaTurnedAt
<1>12. PICK m, n : m = (x * a.sw) \div w /\ n = (y * a.sh) \div h
  OBVIOUS
<1>13. m \in 0 .. a.sw - 1 /\ n \in 0 .. a.sh - 1
  BY <1>0, <1>4, <1>12, PaWithin
<1>14. PaPixel(a, ox, oy) = <<a.sx + m, a.sy + n>>
  BY <1>9, <1>12
<1> QED BY <1>1, <1>9, <1>10, <1>11, <1>13, <1>14

\* A pair with a pixel of an even range is in it.
LEMMA PaEvenIn ==
    ASSUME NEW s \in Nat, NEW n \in Nat, NEW c \in s .. s + n - 1, s % 2 # 1, n % 2 # 1,
           NEW l, l = c - (c % 2)
    PROVE  l \in s .. s + n - 1 /\ l + 1 \in s .. s + n - 1
<1>1. PICK d \in Nat \ {0} : d = 2
  OBVIOUS
<1>2. PICK sq \in Int, sr \in 0 .. 1 : s = 2 * sq + sr /\ sr = s % 2
  <2>1. s \div d \in Int /\ s = d * (s \div d) + (s % d) /\ s % d \in 0 .. d - 1
    BY CtDivMod
  <2> QED BY <1>1, <2>1
<1>3. PICK nq \in Int, nr \in 0 .. 1 : n = 2 * nq + nr /\ nr = n % 2
  <2>1. n \div d \in Int /\ n = d * (n \div d) + (n % d) /\ n % d \in 0 .. d - 1
    BY CtDivMod
  <2> QED BY <1>1, <2>1
<1>4. PICK cq \in Int, cr \in 0 .. 1 : c = 2 * cq + cr /\ cr = c % 2
  <2>1. c \div d \in Int /\ c = d * (c \div d) + (c % d) /\ c % d \in 0 .. d - 1
    BY CtDivMod
  <2> QED BY <1>1, <2>1
<1>5. sr = 0 /\ nr = 0 /\ l = 2 * cq
  BY <1>2, <1>3, <1>4
<1> QED BY <1>2, <1>3, <1>4, <1>5

\* What is read for it is in the source's block: pairs and quads are whole there.
LEMMA PaReadsIn ==
    ASSUME NEW a \in PaOpTypes, PaCheck(a), NEW x \in 0 .. a.sw - 1, NEW y \in 0 .. a.sh - 1
    PROVE  PaReads(a.sf, <<a.sx + x, a.sy + y>>) \subseteq (a.sx .. a.sx + a.sw - 1) \X (a.sy .. a.sy + a.sh - 1)
<1>0. /\ a.sx \in Nat /\ a.sy \in Nat /\ a.sw \in Nat \ {0} /\ a.sh \in Nat \ {0}
      /\ a.sf \in {"rgb", "y422", "y420"}
  BY DEF PaOpTypes
<1>1. PICK c \in Nat, d \in Nat : c = a.sx + x /\ d = a.sy + y
  BY <1>0
<1>2. PICK l, t : l = c - (c % 2) /\ t = d - (d % 2)
  OBVIOUS
<1>3. c \in a.sx .. a.sx + a.sw - 1 /\ d \in a.sy .. a.sy + a.sh - 1
  BY <1>0, <1>1
<1>4. a.sf # "rgb" => l \in a.sx .. a.sx + a.sw - 1 /\ l + 1 \in a.sx .. a.sx + a.sw - 1
  <2>1. a.sf # "rgb" => a.sx % 2 # 1 /\ a.sw % 2 # 1
    BY DEF PaCheck, PaPairs, PaOdd
  <2> QED BY <1>0, <1>2, <1>3, <2>1, PaEvenIn
<1>5. a.sf = "y420" => t \in a.sy .. a.sy + a.sh - 1 /\ t + 1 \in a.sy .. a.sy + a.sh - 1
  <2>1. a.sf = "y420" => a.sy % 2 # 1 /\ a.sh % 2 # 1
    BY DEF PaCheck, PaQuads, PaOdd
  <2> QED BY <1>0, <1>2, <1>3, <2>1, PaEvenIn
<1>6. PICK p : p = <<c, d>> /\ p[1] = c /\ p[2] = d
  <2>1. PICK p : p = <<c, d>>
    OBVIOUS
  <2>2. p[1] = c /\ p[2] = d
    BY <2>1
  <2> QED BY <2>1, <2>2
<1>7. PaReads(a.sf, p) = {p} \cup (IF a.sf = "y422" THEN {<<l, d>>, <<l + 1, d>>} ELSE {})
                             \cup (IF a.sf = "y420" THEN {<<l, t>>, <<l, t + 1>>} ELSE {})
  BY <1>2, <1>6 DEF PaReads
<1>8. PICK S : S = (a.sx .. a.sx + a.sw - 1) \X (a.sy .. a.sy + a.sh - 1)
  OBVIOUS
<1>9. p \in S
  BY <1>3, <1>6, <1>8
<1>10. a.sf = "y422" => <<l, d>> \in S /\ <<l + 1, d>> \in S
  BY <1>3, <1>4, <1>8
<1>11. a.sf = "y420" => <<l, t>> \in S /\ <<l, t + 1>> \in S
  BY <1>4, <1>5, <1>8
<1>12. PaReads(a.sf, p) \subseteq S
  BY <1>7, <1>9, <1>10, <1>11
<1> QED BY <1>1, <1>6, <1>8, <1>12

\* Every pixel of the block is written.
LEMMA PaWritesAll ==
    ASSUME NEW a \in PaOpTypes, PaCheck(a)
    PROVE  PaWrites(a) = (a.x .. a.x + a.w - 1) \X (a.y .. a.y + a.h - 1)
<1>1. a.w \in Nat /\ a.h \in Nat
  BY DEF PaOpTypes
<1>2. PaPairs(a.df) => a.w - (a.w % 2) = a.w
  BY <1>1 DEF PaCheck, PaOdd
<1>3. PaQuads(a.df) => a.h - (a.h % 2) = a.h
  BY <1>1 DEF PaCheck, PaOdd
<1> QED BY <1>2, <1>3 DEF PaWrites

\* The operation looked at is none, one that is checked, or a frame's for take().
PaFitInv ==
    \/ paAsk = PaNoAsk
    \/ paAsk \in PaOpTypes /\ PaCheck(paAsk)
    \/ \E c \in PaCameras, s \in PaAsked :
           paAsk = [what |-> "take", frame |-> c, size |-> s, block |-> PaBlock(c[1], c[2], s[1], s[2])]

\* Its block, its buffer and its pixels are right.
LEMMA PaFitSafe == ASSUME PaFitInv PROVE PaFits /\ PaTaken /\ PaMapped
<1>1. CASE paAsk = PaNoAsk
  <2>1. paAsk.what = PaNone
    BY <1>1 DEF PaNoAsk
  <2> QED BY <2>1 DEF PaNone, PaFits, PaTaken, PaMapped
<1>2. CASE paAsk \in PaOpTypes /\ PaCheck(paAsk)
  <2>1. paAsk.what = "srm"
    BY <1>2 DEF PaOpTypes
  <2>2. PICK a : a = paAsk
    OBVIOUS
  <2>3. ASSUME NEW ox \in 0 .. a.w - 1, NEW oy \in 0 .. a.h - 1
        PROVE  /\ PaPixel(a, ox, oy) = PaTurned(a).at[<<IF a.mx THEN a.w - 1 - ox ELSE ox,
                                                      IF a.my THEN a.h - 1 - oy ELSE oy>>]
               /\ PaReads(a.sf, PaPixel(a, ox, oy)) \subseteq (a.sx .. a.sx + a.sw - 1) \X (a.sy .. a.sy + a.sh - 1)
    <3>1. PICK x \in 0 .. a.sw - 1, y \in 0 .. a.sh - 1 : PaPixel(a, ox, oy) = <<a.sx + x, a.sy + y>>
      BY <1>2, <2>2, PaPixelIs
    <3>2. PaPixel(a, ox, oy) = PaTurned(a).at[<<IF a.mx THEN a.w - 1 - ox ELSE ox,
                                              IF a.my THEN a.h - 1 - oy ELSE oy>>]
      BY <1>2, <2>2, PaPixelIs
    <3>3. PaReads(a.sf, <<a.sx + x, a.sy + y>>) \subseteq (a.sx .. a.sx + a.sw - 1) \X (a.sy .. a.sy + a.sh - 1)
      BY <1>2, <2>2, PaReadsIn
    <3> QED BY <3>1, <3>2, <3>3
  <2>4. PaWrites(a) = (a.x .. a.x + a.w - 1) \X (a.y .. a.y + a.h - 1)
    BY <1>2, <2>2, PaWritesAll
  <2>5. PaMapped
    BY <2>2, <2>3, <2>4 DEF PaMapped
  <2> QED BY <2>1, <2>5 DEF PaFits, PaTaken
<1>3. ASSUME NEW c \in PaCameras, NEW s \in PaAsked,
             paAsk = [what |-> "take", frame |-> c, size |-> s, block |-> PaBlock(c[1], c[2], s[1], s[2])]
      PROVE  PaFits /\ PaTaken /\ PaMapped
  <2>1. /\ c[1] \in Nat \ {0} /\ c[2] \in Nat \ {0} /\ s[1] \in Nat \ {0} /\ s[2] \in Nat \ {0}
        /\ s[2] <= c[2] * s[1] /\ s[1] <= c[1] * s[2]
    BY PaAssumption
  <2>2. PICK b : b = PaBlock(c[1], c[2], s[1], s[2])
    OBVIOUS
  <2>3. paAsk.what = "take" /\ paAsk.frame = c /\ paAsk.size = s /\ paAsk.block = b
    BY <1>3, <2>2
  <2>4. PaBlockIn(c[1], c[2], s[1], s[2], b)
    <3>1. PICK W \in Nat \ {0}, H \in Nat \ {0}, w \in Nat \ {0}, h \in Nat \ {0} :
              /\ W = c[1] /\ H = c[2] /\ w = s[1] /\ h = s[2] /\ h <= H * w /\ w <= W * h
      BY <2>1
    <3>2. PaBlockAsked(W, H, w, h) /\ b = PaBlock(W, H, w, h)
      BY <2>2, <3>1 DEF PaBlockAsked
    <3>3. PaBlockIn(W, H, w, h, b)
      BY <3>2, PaBlockFits
    <3> QED BY <3>1, <3>3
  <2>5. PaFits
    BY <2>3, <2>4 DEF PaFits, PaBlockIn
  <2>6. PICK need \in Nat \ {0} : need = 2 * s[1] * s[2]
    BY <2>1
  <2>7. PaTaken
    BY <2>3, <2>6, PaDmaTakes DEF PaTaken
  <2>8. PaMapped
    BY <2>3 DEF PaMapped
  <2> QED BY <2>5, <2>7, <2>8
<1> QED BY <1>1, <1>2, <1>3 DEF PaFitInv

\* None is looked at yet at the start.
LEMMA PaFitBegins == PaInit => PaFitInv
BY DEF PaInit, PaFitInv

\* Only PaAsks looks at an operation.
LEMMA PaFitKeeps == ASSUME PaFitInv, [PaNext]_paVars PROVE PaFitInv'
<1>1. CASE PaAsks
  <2>1. CASE \E f \in PaFormats, x \in {0, 1} \X {0, 1}, s \in {2, 3} \X {2, 3} \X {2, 3},
             rot \in {0, 90, 180, 270}, mx \in BOOLEAN, my \in BOOLEAN :
              PaCheck(PaOp(f, x, s, rot, mx, my)) /\ paAsk' = PaOp(f, x, s, rot, mx, my)
    <3>1. PICK f \in PaFormats, x \in {0, 1} \X {0, 1}, s \in {2, 3} \X {2, 3} \X {2, 3},
             rot \in {0, 90, 180, 270}, mx \in BOOLEAN, my \in BOOLEAN :
              PaCheck(PaOp(f, x, s, rot, mx, my)) /\ paAsk' = PaOp(f, x, s, rot, mx, my)
      BY <2>1
    <3>2. paAsk' \in PaOpTypes /\ PaCheck(paAsk')
      BY <3>1, PaOpIs
    <3> QED BY <3>2 DEF PaFitInv
  <2>2. CASE \E c \in PaCameras, size \in PaAsked :
              paAsk' = [what |-> "take", frame |-> c, size |-> size,
                        block |-> PaBlock(c[1], c[2], size[1], size[2])]
    BY <2>2 DEF PaFitInv
  <2> QED BY <1>1, <2>1, <2>2 DEF PaAsks
<1>2. CASE UNCHANGED paAsk
  BY <1>2 DEF PaFitInv
<1>3. [PaNext]_paVars => PaAsks \/ UNCHANGED paAsk
  <2>1. ASSUME NEW b \in PaBufs, PaArrives(b) \/ PaEvict(b) PROVE UNCHANGED paAsk
    BY <2>1 DEF PaArrives, PaEvict
  <2>2. ASSUME NEW plan, PaBegins(plan) PROVE UNCHANGED paAsk
    BY <2>2 DEF PaBegins
  <2>3. ASSUME NEW hw, PaEncodes(hw) \/ PaUses(hw) PROVE UNCHANGED paAsk
    BY <2>3 DEF PaEncodes, PaUses, PaGoesOn
  <2>4. ASSUME PaClaims \/ PaTimesOut \/ PaDraws \/ PaAllocates \/ PaAllocFails \/ PaPpaWorks \/ PaCpuWorks \/ PaMsync \/ PaGives
        PROVE  UNCHANGED paAsk
    BY <2>4 DEF PaClaims, PaTimesOut, PaDraws, PaAllocates, PaAllocFails, PaPpaWorks, PaCpuWorks, PaMsync, PaGives, PaGoesOn
  <2>5. ASSUME NEW t, NEW mode, NEW op, PaCalls(t, mode, op) PROVE UNCHANGED paAsk
    BY <2>5 DEF PaCalls, PaOtherwise
  <2>6. ASSUME NEW t, NEW longer, PaEnters(t, longer) PROVE UNCHANGED paAsk
    BY <2>6 DEF PaEnters, PaOtherwise
  <2>7. ASSUME NEW t, PaRegisters(t) \/ PaSubmits(t) \/ PaWorked(t) \/ PaFinishes(t) \/ PaSoftware(t) \/ PaReturns(t) \/ PaRaises(t)
        PROVE  UNCHANGED paAsk
    BY <2>7 DEF PaRegisters, PaSubmits, PaWorked, PaFinishes, PaSoftware, PaReturns, PaRaises, PaOtherwise
  <2>8. CASE UNCHANGED paVars
    BY <2>8 DEF paVars
  <2>9. CASE PaNext
    BY <2>1, <2>2, <2>3, <2>4, <2>5, <2>6, <2>7, <2>9, Zenon DEF PaNext
  <2> QED BY <2>8, <2>9
<1> QED BY <1>1, <1>2, <1>3

\* take()'s block is in the frame, in its middle and scaled as it says; its buffer is one the
\* PPA takes; and software writes each pixel of the block from the one the picture has there,
\* and reads nothing beside. (cameraif_block, hw_dma_len, ppa_sw_srm)
THEOREM PaPixelsFit == PaSpec => [](PaFits /\ PaTaken /\ PaMapped)
<1>1. PaInit => PaFitInv
  BY PaFitBegins
<1>2. PaFitInv /\ [PaNext]_paVars => PaFitInv'
  BY PaFitKeeps
<1>3. PaFitInv => PaFits /\ PaTaken /\ PaMapped
  BY PaFitSafe
<1> QED BY <1>1, <1>2, <1>3, PTL DEF PaSpec

-----------------------------------------------------------------------------
(***************************************************************************)
(* What a camera's frame becomes, for any threads and calls. Inductive of  *)
(* threads is what each has at its place, and that two of one client know  *)
(* of each other (PaCallInv); and of a call, where its frame or its        *)
(* picture is, in memory or in a line, and that what is left to do is      *)
(* right from there (PaPlace).                                             *)
(***************************************************************************)

\* What the picture is promised for: the PPA's driver drops its destination, it and the
\* engine refuse nothing that fits them, and no program writes into a view; and no two
\* threads are in one client's scratch.
PaSynced == "out" \in PaSyncs /\ PaFails \cap {"ppa", "engine"} = {} /\ ~PaEdits
PaPlain == PaSynced /\ ~PaShares

\* The threads and clients there are.
PaBusyAt == {"begin", "register", "submit", "wait", "finish", "software", "return", "raise"}
PaUsers == [at : PaBusyAt \cup {"idle"}, mode : PaModes, op : {"plain", "grey", "odd", "fill"},
            dst : PaThreads \cup {PaNone, "zeros"}, alone : BOOLEAN, on : BOOLEAN, hw : BOOLEAN,
            told : BOOLEAN]
PaClients == [used : BOOLEAN, srm : Nat, paint : Nat, made : Nat, busy : [PaThreads -> Nat],
              tmp : PaThreads \cup {PaNone, "zeros"}]

\* What a thread has at its place, and its client of it.
PaRight(t, u, c) ==
    /\ u.at = "finish" => IF u.op = "grey" THEN c.tmp = t ELSE u.dst = t
    /\ u.at = "return" => u.dst = t /\ (u.alone => c.used = u.hw)
    /\ u.at = "idle" /\ u.on => u.dst = t /\ (u.alone => u.told = u.hw)
    /\ u.at \in {"begin", "register", "submit", "wait", "software"} => u.hw = FALSE
    /\ u.op = "fill" => u.mode = "insist"
    /\ u.at = "software" => u.mode # "insist" /\ (u.alone => c.used = FALSE)
    /\ u.at \in {"register", "submit"} /\ u.alone /\ u.op # "fill" => c.used = FALSE

\* Of two threads in one client neither is alone, and one at most uses the scratch.
PaTogether(u, v) == u.at # "idle" /\ v.at # "idle" /\ u.mode = v.mode
PaApart == \A s, t \in PaThreads : s # t /\ PaTogether(paUse[s], paUse[t]) =>
               paUse[s].alone = FALSE /\ ~(paUse[s].op = "grey" /\ paUse[t].op = "grey")
PaCallTypes == paUse \in [PaThreads -> PaUsers] /\ paClient \in [PaModes -> PaClients]
PaCallInv ==
    /\ PaCallTypes /\ PaApart
    /\ \A t \in PaThreads : PaRight(t, paUse[t], paClient[paUse[t].mode])

\* A step of a thread in its client.
PaThreadStep(t, m, u, v, c, d) ==
    /\ u = paUse[t] /\ m = u.mode /\ u.at # "idle" /\ c = paClient[m]
    /\ paUse' = [paUse EXCEPT ![t] = v] /\ paClient' = [paClient EXCEPT ![m] = d]
    /\ v.at = "idle" \/ (v.mode = m /\ v.op = u.op /\ v.alone = u.alone)
    /\ d.tmp = c.tmp \/ u.op = "grey"
    /\ \A e \in PaClients : (v.mode = m => e = d) => PaRight(t, v, e)

\* Such a step keeps what threads and clients are to each other.
LEMMA PaThreadSteps ==
    ASSUME NEW t \in PaThreads, NEW m \in PaModes, NEW u \in PaUsers, NEW v \in PaUsers,
           NEW c \in PaClients, NEW d \in PaClients, PaThreadStep(t, m, u, v, c, d), PaCallInv
    PROVE  PaCallInv'
<1>0. /\ u = paUse[t] /\ m = u.mode /\ u.at # "idle" /\ c = paClient[m]
      /\ paUse' = [paUse EXCEPT ![t] = v] /\ paClient' = [paClient EXCEPT ![m] = d]
      /\ v.at = "idle" \/ (v.mode = m /\ v.op = u.op /\ v.alone = u.alone)
      /\ d.tmp = c.tmp \/ u.op = "grey"
      /\ \A e \in PaClients : (v.mode = m => e = d) => PaRight(t, v, e)
  BY DEF PaThreadStep
<1>a. PaCallTypes /\ PaApart /\ \A s \in PaThreads : PaRight(s, paUse[s], paClient[paUse[s].mode])
  BY DEF PaCallInv
<1>b. \A s \in PaThreads : paUse[s] \in PaUsers /\ paUse[s].mode \in PaModes
  BY <1>a DEF PaCallTypes, PaUsers
<1>1. PaCallTypes'
  BY <1>0, <1>a DEF PaCallTypes
<1>2. paUse'[t] = v /\ \A s \in PaThreads : s # t => paUse'[s] = paUse[s]
  BY <1>0, <1>a DEF PaCallTypes
<1>3. paClient'[m] = d /\ \A n \in PaModes : n # m => paClient'[n] = paClient[n]
  BY <1>0, <1>a DEF PaCallTypes
<1>4. PaApart'
  <2>1. \A s \in PaThreads : PaTogether(paUse'[s], paUse'[t]) /\ s # t =>
            /\ PaTogether(paUse[s], paUse[t]) /\ v.alone = u.alone /\ v.op = u.op
    BY <1>0, <1>2 DEF PaTogether
  <2>2. \A s \in PaThreads : PaTogether(paUse'[t], paUse'[s]) /\ s # t =>
            /\ PaTogether(paUse[t], paUse[s]) /\ v.alone = u.alone /\ v.op = u.op
    BY <1>0, <1>2 DEF PaTogether
  <2> SUFFICES ASSUME NEW r \in PaThreads, NEW s \in PaThreads, r # s, PaTogether(paUse'[r], paUse'[s])
               PROVE  paUse'[r].alone = FALSE /\ ~(paUse'[r].op = "grey" /\ paUse'[s].op = "grey")
    BY DEF PaApart
  <2>3. CASE r = t
    <3>1. paUse[t].alone = FALSE /\ ~(paUse[t].op = "grey" /\ paUse[s].op = "grey")
      BY <2>2, <2>3, <1>a DEF PaApart
    <3> QED BY <1>0, <1>2, <2>2, <2>3, <3>1
  <2>4. CASE s = t
    <3>1. paUse[r].alone = FALSE /\ ~(paUse[r].op = "grey" /\ paUse[t].op = "grey")
      BY <2>1, <2>4, <1>a DEF PaApart
    <3> QED BY <1>0, <1>2, <2>1, <2>4, <3>1
  <2>5. CASE r # t /\ s # t
    BY <1>2, <1>a, <2>5 DEF PaApart
  <2> QED BY <2>3, <2>4, <2>5
<1>5. ASSUME NEW s \in PaThreads
      PROVE  PaRight(s, paUse'[s], paClient'[paUse'[s].mode])
  <2>1. CASE s = t
    <3>1. PICK n \in PaModes : n = v.mode
      BY DEF PaUsers
    <3>2. PICK e \in PaClients : e = paClient'[n]
      BY <1>1 DEF PaCallTypes
    <3>3. v.mode = m => e = d
      BY <1>3, <3>1, <3>2
    <3>4. PaRight(t, v, e)
      BY <1>0, <3>3
    <3> QED BY <1>2, <2>1, <3>1, <3>2, <3>4
  <2>2. CASE s # t
    <3>1. PICK w \in PaUsers : w = paUse[s] /\ w = paUse'[s]
      BY <1>b, <1>2, <2>2
    <3>2. PICK n \in PaModes : n = w.mode
      BY DEF PaUsers
    <3>3. PaRight(s, w, paClient[n])
      BY <1>a, <3>1, <3>2
    <3>4. CASE n # m
      BY <1>3, <3>1, <3>2, <3>3, <3>4
    <3>5. CASE n = m
      <4>1. w.at # "idle" => w.alone = FALSE /\ ~(w.op = "grey" /\ u.op = "grey")
        <5>1. w.at # "idle" => PaTogether(paUse[s], paUse[t])
          BY <1>0, <3>1, <3>2, <3>5 DEF PaTogether
        <5> QED BY <1>0, <1>a, <2>2, <3>1, <5>1 DEF PaApart
      <4>2. PaRight(s, w, c)
        BY <1>0, <3>3, <3>5
      <4>3. PaRight(s, w, d)
        BY <1>0, <4>1, <4>2 DEF PaRight
      <4> QED BY <1>3, <3>1, <3>2, <3>5, <4>3
    <3> QED BY <3>4, <3>5
  <2> QED BY <2>1, <2>2
<1> QED BY <1>1, <1>4, <1>5 DEF PaCallInv

\* A thread that is in ppa, with its client.
LEMMA PaThreadOf ==
    ASSUME PaCallInv, NEW t \in PaThreads
    PROVE  \E m \in PaModes, u \in PaUsers, c \in PaClients :
               u = paUse[t] /\ m = u.mode /\ c = paClient[m] /\ PaRight(t, u, c)
<1>1. paUse[t] \in PaUsers /\ paUse[t].mode \in PaModes
  BY DEF PaCallInv, PaCallTypes, PaUsers
<1>2. paClient[paUse[t].mode] \in PaClients
  BY <1>1 DEF PaCallInv, PaCallTypes
<1> QED BY <1>1, <1>2 DEF PaCallInv


\* A call that begins joins its client's others, none of which is alone after.
LEMMA PaCallsKeeps ==
    ASSUME ~PaShares, PaCallInv, NEW t \in PaThreads, NEW mode \in PaModes,
           NEW op \in {"plain", "grey", "odd", "fill"}, PaCalls(t, mode, op)
    PROVE  PaCallInv'
<1> DEFINE n == [PaIdle EXCEPT !.at = "begin", !.mode = mode, !.op = op, !.alone = PaIn(mode) = {}]
<1>a. PaCallTypes /\ PaApart /\ \A s \in PaThreads : PaRight(s, paUse[s], paClient[paUse[s].mode])
  BY DEF PaCallInv
<1>0. /\ paUse[t].at = "idle" /\ (op = "fill" => mode = "insist")
      /\ op = "grey" => \A u \in PaIn(mode) : paUse[u].op # "grey"
      /\ paUse' = [u \in PaThreads |->
                     IF u = t THEN n ELSE [paUse[u] EXCEPT !.alone = @ /\ u \notin PaIn(mode)]]
      /\ paClient' = paClient
  BY DEF PaCalls, PaCan
<1>1. /\ n \in PaUsers /\ n.at = "begin" /\ n.mode = mode /\ n.op = op /\ n.hw = FALSE
      /\ n.alone = (PaIn(mode) = {})
  BY DEF PaIdle, PaUsers, PaBusyAt
<1> HIDE DEF n
<1>2. paUse'[t] = n
  BY <1>0
<1>3. ASSUME NEW s \in PaThreads, s # t
      PROVE  /\ paUse'[s] \in PaUsers /\ paUse'[s] = [paUse[s] EXCEPT !.alone = @ /\ s \notin PaIn(mode)]
             /\ paUse'[s].at = paUse[s].at /\ paUse'[s].mode = paUse[s].mode /\ paUse'[s].op = paUse[s].op
             /\ paUse'[s].dst = paUse[s].dst /\ paUse'[s].hw = paUse[s].hw
             /\ paUse'[s].on = paUse[s].on /\ paUse'[s].told = paUse[s].told
             /\ paUse'[s].alone = (paUse[s].alone /\ s \notin PaIn(mode))
  <2>1. PICK u \in PaUsers : u = paUse[s]
    BY <1>a DEF PaCallTypes
  <2>2. paUse'[s] = [u EXCEPT !.alone = @ /\ s \notin PaIn(mode)]
    BY <1>0, <1>3, <2>1
  <2>3. PICK b \in BOOLEAN : b = (u.alone /\ s \notin PaIn(mode))
    BY DEF PaUsers
  <2>4. paUse'[s] = [u EXCEPT !.alone = b]
    BY <2>2, <2>3
  <2>5. /\ paUse'[s] \in PaUsers /\ paUse'[s].at = u.at /\ paUse'[s].mode = u.mode /\ paUse'[s].op = u.op
        /\ paUse'[s].dst = u.dst /\ paUse'[s].hw = u.hw /\ paUse'[s].on = u.on /\ paUse'[s].told = u.told
        /\ paUse'[s].alone = b
    BY <2>4 DEF PaUsers
  <2> QED BY <2>1, <2>2, <2>3, <2>5
<1>4. PaCallTypes'
  BY <1>0, <1>1, <1>2, <1>3, <1>a DEF PaCallTypes
<1>5. ASSUME NEW s \in PaThreads, s # t, paUse[s].at # "idle", paUse[s].mode = mode
      PROVE  /\ n.alone = FALSE /\ paUse'[s].alone = FALSE
             /\ ~(op = "grey" /\ paUse[s].op = "grey")
  <2>1. s \in PaIn(mode)
    BY <1>5 DEF PaIn
  <2> QED BY <2>1, <1>0, <1>1, <1>3, <1>5
<1>6. PaApart'
  <2> SUFFICES ASSUME NEW r \in PaThreads, NEW s \in PaThreads, r # s, PaTogether(paUse'[r], paUse'[s])
               PROVE  paUse'[r].alone = FALSE /\ ~(paUse'[r].op = "grey" /\ paUse'[s].op = "grey")
    BY DEF PaApart
  <2>1. CASE r = t
    <3>1. paUse[s].at # "idle" /\ paUse[s].mode = mode
      BY <1>1, <1>2, <1>3, <2>1 DEF PaTogether
    <3> QED BY <1>1, <1>2, <1>3, <1>5, <2>1, <3>1
  <2>2. CASE s = t
    <3>1. paUse[r].at # "idle" /\ paUse[r].mode = mode
      BY <1>1, <1>2, <1>3, <2>2 DEF PaTogether
    <3> QED BY <1>1, <1>2, <1>3, <1>5, <2>2, <3>1
  <2>3. CASE r # t /\ s # t
    <3>1. PaTogether(paUse[r], paUse[s])
      BY <1>3, <2>3 DEF PaTogether
    <3>2. paUse[r].alone = FALSE /\ ~(paUse[r].op = "grey" /\ paUse[s].op = "grey")
      BY <1>a, <3>1 DEF PaApart
    <3> QED BY <1>3, <2>3, <3>2
  <2> QED BY <2>1, <2>2, <2>3
<1>7. ASSUME NEW s \in PaThreads
      PROVE  PaRight(s, paUse'[s], paClient'[paUse'[s].mode])
  <2>1. CASE s = t
    BY <1>0, <1>1, <1>2, <2>1 DEF PaRight
  <2>2. CASE s # t
    <3>1. PaRight(s, paUse[s], paClient[paUse[s].mode])
      BY <1>a
    <3>2. PICK c : c = paClient[paUse[s].mode]
      OBVIOUS
    <3>3. PaRight(s, paUse'[s], c)
      BY <1>3, <2>2, <3>1, <3>2 DEF PaRight
    <3> QED BY <1>0, <1>3, <2>2, <3>2, <3>3
  <2> QED BY <2>1, <2>2
<1> QED BY <1>4, <1>6, <1>7 DEF PaCallInv

\* What software and insistence leave of the fields of a thread and of its client.
LEMMA PaMovesTo ==
    ASSUME NEW u \in PaUsers, NEW at \in PaBusyAt
    PROVE  \E v \in PaUsers : /\ v = [u EXCEPT !.at = at]
                              /\ v.at = at /\ v.mode = u.mode /\ v.op = u.op /\ v.dst = u.dst /\ v.on = u.on
                              /\ v.alone = u.alone /\ v.hw = u.hw /\ v.told = u.told
<1> DEFINE v == [u EXCEPT !.at = at]
<1>1. v \in PaUsers
  BY DEF PaUsers
<1>2. /\ v.at = at /\ v.mode = u.mode /\ v.op = u.op /\ v.dst = u.dst /\ v.on = u.on
      /\ v.alone = u.alone /\ v.hw = u.hw /\ v.told = u.told
  BY DEF PaUsers
<1> HIDE DEF v
<1> QED BY <1>1, <1>2 DEF v

\* A thread enters its client, and goes where its mode and its operation send it.
LEMMA PaEntersKeeps ==
    ASSUME PaCallInv, NEW t \in PaThreads, NEW longer \in BOOLEAN, PaEnters(t, longer)
    PROVE  PaCallInv'
<1>1. PICK m \in PaModes, u \in PaUsers, c \in PaClients :
          u = paUse[t] /\ m = u.mode /\ c = paClient[m] /\ PaRight(t, u, c)
  BY PaThreadOf
<1>2. PICK at : at = (IF m = "never" \/ u.op = "odd" THEN PaElse(m)
                      ELSE IF c[PaSlot(u.op)] = 0 THEN "register" ELSE "submit")
  OBVIOUS
<1>3. /\ u.at = "begin" /\ u.hw = FALSE /\ (u.op = "fill" => m = "insist") /\ paUse' = [paUse EXCEPT ![t].at = at]
      /\ paClient' = [paClient EXCEPT ![m].used = u.op = "fill" /\ @, ![m].tmp = IF longer THEN "zeros" ELSE @]
      /\ longer => u.op = "grey"
  BY <1>1, <1>2 DEF PaEnters, PaCan, PaTo, PaMine, PaRight
<1>4. /\ at \in PaBusyAt /\ at \in {"register", "submit", "software", "raise"}
      /\ at = "software" => m # "insist"
  BY <1>2 DEF PaElse, PaBusyAt
<1>5. PICK v \in PaUsers : /\ v = [u EXCEPT !.at = at]
                           /\ v.at = at /\ v.mode = u.mode /\ v.op = u.op /\ v.dst = u.dst /\ v.on = u.on
                           /\ v.alone = u.alone /\ v.hw = u.hw /\ v.told = u.told
  BY <1>4, PaMovesTo
<1>6. PICK used \in BOOLEAN : used = (u.op = "fill" /\ c.used)
  BY DEF PaClients
<1>7. PICK tmp \in PaThreads \cup {PaNone, "zeros"} : tmp = (IF longer THEN "zeros" ELSE c.tmp)
  BY DEF PaClients
<1>8. PICK d : d = [c EXCEPT !.used = used, !.tmp = tmp]
  OBVIOUS
<1>9. d \in PaClients /\ d.used = used /\ d.tmp = tmp
  BY <1>8 DEF PaClients
<1>10. paUse' = [paUse EXCEPT ![t] = v] /\ paClient' = [paClient EXCEPT ![m] = d]
  <2>1. paUse' = [paUse EXCEPT ![t] = [paUse[t] EXCEPT !.at = at]]
    BY <1>3
  <2>2. paClient' = [paClient EXCEPT ![m] = [paClient[m] EXCEPT
                        !.used = u.op = "fill" /\ @, !.tmp = IF longer THEN "zeros" ELSE @]]
    BY <1>3
  <2>3. paClient' = [paClient EXCEPT ![m] = [c EXCEPT !.used = used, !.tmp = tmp]]
    BY <2>2, <1>1, <1>6, <1>7
  <2> QED BY <1>1, <1>5, <1>8, <2>1, <2>3
<1>11. d.tmp = c.tmp \/ u.op = "grey"
  BY <1>3, <1>7, <1>9
<1>12. ASSUME NEW e \in PaClients, v.mode = m => e = d
       PROVE  PaRight(t, v, e)
  <2>1. e = d
    BY <1>1, <1>5, <1>12
  <2> QED BY <1>3, <1>4, <1>5, <1>6, <1>9, <1>1, <2>1 DEF PaRight
<1>13. PaThreadStep(t, m, u, v, c, d)
  BY <1>1, <1>3, <1>5, <1>10, <1>11, <1>12 DEF PaThreadStep
<1> QED BY <1>9, <1>13, PaThreadSteps

\* A thread registers what its client lacks, and goes on to submit.
LEMMA PaRegistersKeeps ==
    ASSUME PaCallInv, NEW t \in PaThreads, PaRegisters(t)
    PROVE  PaCallInv'
<1>1. PICK m \in PaModes, u \in PaUsers, c \in PaClients :
          u = paUse[t] /\ m = u.mode /\ c = paClient[m] /\ PaRight(t, u, c)
  BY PaThreadOf
<1>2. PICK slot \in {"paint", "srm"} : slot = PaSlot(u.op)
  BY DEF PaSlot
<1>3. /\ u.at = "register" /\ paUse' = [paUse EXCEPT ![t].at = "submit"]
      /\ paClient' = [paClient EXCEPT ![m].made = @ + 1, ![m][slot] = c.made + 1]
  BY <1>1, <1>2 DEF PaRegisters, PaCan, PaTo, PaMine
<1>4. "submit" \in PaBusyAt
  BY DEF PaBusyAt
<1>5. PICK v \in PaUsers : /\ v = [u EXCEPT !.at = "submit"]
                           /\ v.at = "submit" /\ v.mode = u.mode /\ v.op = u.op /\ v.dst = u.dst /\ v.on = u.on
                           /\ v.alone = u.alone /\ v.hw = u.hw /\ v.told = u.told
  BY <1>4, PaMovesTo
<1>6. PICK d : d = [c EXCEPT !.made = @ + 1, ![slot] = c.made + 1]
  OBVIOUS
<1>7. d \in PaClients /\ d.used = c.used /\ d.tmp = c.tmp
  <2>0. /\ c.used \in BOOLEAN /\ c.srm \in Nat /\ c.paint \in Nat /\ c.made + 1 \in Nat
        /\ c.busy \in [PaThreads -> Nat] /\ c.tmp \in PaThreads \cup {PaNone, "zeros"}
        /\ c = [used |-> c.used, srm |-> c.srm, paint |-> c.paint, made |-> c.made, busy |-> c.busy, tmp |-> c.tmp]
    BY DEF PaClients
  <2>1. CASE slot = "paint"
    <3>1. d = [used |-> c.used, srm |-> c.srm, paint |-> c.made + 1, made |-> c.made + 1, busy |-> c.busy,
               tmp |-> c.tmp]
      BY <1>6, <2>0, <2>1
    <3>2. d \in PaClients
      BY <2>0, <3>1 DEF PaClients
    <3> QED BY <3>1, <3>2
  <2>2. CASE slot = "srm"
    <3>1. d = [used |-> c.used, srm |-> c.made + 1, paint |-> c.paint, made |-> c.made + 1, busy |-> c.busy,
               tmp |-> c.tmp]
      BY <1>6, <2>0, <2>2
    <3>2. d \in PaClients
      BY <2>0, <3>1 DEF PaClients
    <3> QED BY <3>1, <3>2
  <2> QED BY <2>1, <2>2
<1>8. paUse' = [paUse EXCEPT ![t] = v] /\ paClient' = [paClient EXCEPT ![m] = d]
  <2>1. paUse' = [paUse EXCEPT ![t] = [paUse[t] EXCEPT !.at = "submit"]]
    BY <1>3
  <2>2. paClient' = [paClient EXCEPT ![m] = [paClient[m] EXCEPT !.made = @ + 1, ![slot] = c.made + 1]]
    BY <1>3
  <2> QED BY <1>1, <1>5, <1>6, <2>1, <2>2
<1>9. ASSUME NEW e \in PaClients, v.mode = m => e = d
      PROVE  PaRight(t, v, e)
  <2>1. e = d
    BY <1>1, <1>5, <1>9
  <2> QED BY <1>3, <1>5, <1>7, <1>1, <2>1 DEF PaRight
<1>10. PaThreadStep(t, m, u, v, c, d)
  BY <1>1, <1>3, <1>5, <1>7, <1>8, <1>9 DEF PaThreadStep
<1> QED BY <1>7, <1>10, PaThreadSteps

\* A thread submits, and waits, or finds its client of the PPA taken.
LEMMA PaSubmitsKeeps ==
    ASSUME PaCallInv, NEW t \in PaThreads, PaSubmits(t)
    PROVE  PaCallInv'
<1>1. PICK m \in PaModes, u \in PaUsers, c \in PaClients :
          u = paUse[t] /\ m = u.mode /\ c = paClient[m] /\ PaRight(t, u, c)
  BY PaThreadOf
<1>2. PICK mine \in Nat : mine = c[PaSlot(u.op)]
  BY DEF PaSlot, PaClients
<1>3. PICK taken \in BOOLEAN : taken = \A s \in PaThreads : c.busy[s] # mine
  OBVIOUS
<1>4. PICK at : at = (IF taken THEN "wait" ELSE PaElse(m))
  OBVIOUS
<1>5. PICK k \in Nat : k = (IF taken THEN mine ELSE 0)
  OBVIOUS
<1>6. /\ u.at = "submit" /\ u.hw = FALSE /\ (u.op = "fill" => m = "insist") /\ paUse' = [paUse EXCEPT ![t].at = at]
      /\ paClient' = [paClient EXCEPT ![m].busy[t] = k, ![m].used = @ \/ u.op = "fill"]
      /\ u.alone /\ u.op # "fill" => c.used = FALSE
  BY <1>1, <1>2, <1>3, <1>4, <1>5 DEF PaSubmits, PaCan, PaTo, PaMine, PaRight
<1>7. at \in PaBusyAt /\ at \in {"wait", "software", "raise"} /\ (at = "software" => m # "insist")
  BY <1>4 DEF PaElse, PaBusyAt
<1>8. PICK v \in PaUsers : /\ v = [u EXCEPT !.at = at]
                           /\ v.at = at /\ v.mode = u.mode /\ v.op = u.op /\ v.dst = u.dst /\ v.on = u.on
                           /\ v.alone = u.alone /\ v.hw = u.hw /\ v.told = u.told
  BY <1>7, PaMovesTo
<1>9. PICK used \in BOOLEAN : used = (c.used \/ u.op = "fill")
  BY DEF PaClients
<1>10. PICK b \in [PaThreads -> Nat] : b = [c.busy EXCEPT ![t] = k]
  BY DEF PaClients
<1>11. PICK d : d = [c EXCEPT !.busy = b, !.used = used]
  OBVIOUS
<1>12. d \in PaClients /\ d.used = used /\ d.tmp = c.tmp
  BY <1>11 DEF PaClients
<1>13. paUse' = [paUse EXCEPT ![t] = v] /\ paClient' = [paClient EXCEPT ![m] = d]
  <2>1. paUse' = [paUse EXCEPT ![t] = [paUse[t] EXCEPT !.at = at]]
    BY <1>6
  <2>2. paClient' = [paClient EXCEPT ![m] = [paClient[m] EXCEPT !.busy[t] = k, !.used = @ \/ u.op = "fill"]]
    BY <1>6
  <2>3. paClient' = [paClient EXCEPT ![m] = [c EXCEPT !.busy = [c.busy EXCEPT ![t] = k], !.used = used]]
    BY <2>2, <1>1, <1>9
  <2> QED BY <1>1, <1>8, <1>10, <1>11, <2>1, <2>3
<1>14. ASSUME NEW e \in PaClients, v.mode = m => e = d
       PROVE  PaRight(t, v, e)
  <2>1. e = d
    BY <1>1, <1>8, <1>14
  <2> QED BY <1>6, <1>7, <1>8, <1>9, <1>12, <1>1, <2>1 DEF PaRight
<1>15. PaThreadStep(t, m, u, v, c, d)
  BY <1>1, <1>6, <1>8, <1>12, <1>13, <1>14 DEF PaThreadStep
<1> QED BY <1>12, <1>15, PaThreadSteps

\* The PPA is done: the picture is the thread's, or is in its client's scratch.
LEMMA PaWorkedKeeps ==
    ASSUME PaCallInv, NEW t \in PaThreads, PaWorked(t)
    PROVE  PaCallInv'
<1>1. PICK m \in PaModes, u \in PaUsers, c \in PaClients :
          u = paUse[t] /\ m = u.mode /\ c = paClient[m] /\ PaRight(t, u, c)
  BY PaThreadOf
<1>2. PICK tmp \in PaThreads \cup {PaNone, "zeros"} : tmp = (IF u.op = "grey" THEN t ELSE c.tmp)
  BY DEF PaClients
<1>3. PICK dst \in PaThreads \cup {PaNone, "zeros"} : dst = (IF u.op = "grey" THEN u.dst ELSE t)
  BY DEF PaUsers
<1>4. /\ u.at = "wait" /\ u.hw = FALSE /\ (u.op = "fill" => m = "insist")
      /\ paUse' = [paUse EXCEPT ![t].at = "finish", ![t].dst = dst]
      /\ paClient' = [paClient EXCEPT ![m].busy[t] = 0, ![m].tmp = tmp]
  <2>1. /\ u.at = "wait" /\ u.hw = FALSE /\ (u.op = "fill" => m = "insist")
        /\ paUse' = [paUse EXCEPT ![t].at = "finish", ![t].dst = IF u.op = "grey" THEN @ ELSE t]
        /\ paClient' = [paClient EXCEPT ![m].busy[t] = 0, ![m].tmp = IF u.op = "grey" THEN t ELSE @]
    BY <1>1 DEF PaWorked, PaCan, PaRight
  <2> QED BY <1>1, <1>2, <1>3, <2>1
<1>5. PICK v : v = [u EXCEPT !.at = "finish", !.dst = dst]
  OBVIOUS
<1>6. /\ v \in PaUsers /\ v.at = "finish" /\ v.mode = u.mode /\ v.op = u.op /\ v.dst = dst
      /\ v.alone = u.alone /\ v.hw = u.hw
  BY <1>5 DEF PaUsers, PaBusyAt
<1>7. PICK b \in [PaThreads -> Nat] : b = [c.busy EXCEPT ![t] = 0]
  BY DEF PaClients
<1>8. PICK d : d = [c EXCEPT !.busy = b, !.tmp = tmp]
  OBVIOUS
<1>9. d \in PaClients /\ d.tmp = tmp
  BY <1>8 DEF PaClients
<1>10. paUse' = [paUse EXCEPT ![t] = v] /\ paClient' = [paClient EXCEPT ![m] = d]
  <2>1. paUse' = [paUse EXCEPT ![t] = [paUse[t] EXCEPT !.at = "finish", !.dst = dst]]
    BY <1>4
  <2>2. paClient' = [paClient EXCEPT ![m] = [paClient[m] EXCEPT !.busy[t] = 0, !.tmp = tmp]]
    BY <1>4
  <2>3. paClient' = [paClient EXCEPT ![m] = [c EXCEPT !.busy = [c.busy EXCEPT ![t] = 0], !.tmp = tmp]]
    BY <2>2, <1>1
  <2> QED BY <1>1, <1>5, <1>7, <1>8, <2>1, <2>3
<1>11. ASSUME NEW e \in PaClients, v.mode = m => e = d
       PROVE  PaRight(t, v, e)
  <2>1. e = d
    BY <1>1, <1>6, <1>11
  <2> QED BY <1>2, <1>3, <1>4, <1>6, <1>9, <1>1, <2>1 DEF PaRight
<1>12. d.tmp = c.tmp \/ u.op = "grey"
  BY <1>2, <1>9
<1>13. PaThreadStep(t, m, u, v, c, d)
  BY <1>1, <1>4, <1>6, <1>10, <1>11, <1>12 DEF PaThreadStep
<1> QED BY <1>6, <1>9, <1>13, PaThreadSteps

\* The hardware's picture is the thread's, out of the scratch if it is grey.
LEMMA PaFinishesKeeps ==
    ASSUME PaCallInv, NEW t \in PaThreads, PaFinishes(t)
    PROVE  PaCallInv'
<1>1. PICK m \in PaModes, u \in PaUsers, c \in PaClients :
          u = paUse[t] /\ m = u.mode /\ c = paClient[m] /\ PaRight(t, u, c)
  BY PaThreadOf
<1>2. PICK dst \in PaThreads \cup {PaNone, "zeros"} : dst = (IF u.op = "grey" THEN c.tmp ELSE u.dst)
  BY DEF PaUsers, PaClients
<1>3. /\ u.at = "finish" /\ (u.op = "fill" => m = "insist") /\ dst = t
      /\ paUse' = [paUse EXCEPT ![t].at = "return", ![t].hw = TRUE, ![t].dst = dst]
      /\ paClient' = [paClient EXCEPT ![m].used = TRUE]
  <2>1. /\ u.at = "finish" /\ (u.op = "fill" => m = "insist")
        /\ paUse' = [paUse EXCEPT ![t].at = "return", ![t].hw = TRUE,
                                  ![t].dst = IF u.op = "grey" THEN c.tmp ELSE @]
        /\ paClient' = [paClient EXCEPT ![m].used = TRUE]
        /\ IF u.op = "grey" THEN c.tmp = t ELSE u.dst = t
    BY <1>1 DEF PaFinishes, PaCan, PaMine, PaRight
  <2> QED BY <1>1, <1>2, <2>1
<1>4. PICK v : v = [u EXCEPT !.at = "return", !.hw = TRUE, !.dst = dst]
  OBVIOUS
<1>5. /\ v \in PaUsers /\ v.at = "return" /\ v.mode = u.mode /\ v.op = u.op /\ v.dst = dst
      /\ v.alone = u.alone /\ v.hw = TRUE
  BY <1>4 DEF PaUsers, PaBusyAt
<1>6. PICK d : d = [c EXCEPT !.used = TRUE]
  OBVIOUS
<1>7. d \in PaClients /\ d.tmp = c.tmp /\ d.used = TRUE
  BY <1>6 DEF PaClients
<1>8. paUse' = [paUse EXCEPT ![t] = v] /\ paClient' = [paClient EXCEPT ![m] = d]
  <2>1. paUse' = [paUse EXCEPT ![t] = [paUse[t] EXCEPT !.at = "return", !.hw = TRUE, !.dst = dst]]
    BY <1>3
  <2>2. paClient' = [paClient EXCEPT ![m] = [paClient[m] EXCEPT !.used = TRUE]]
    BY <1>3
  <2> QED BY <1>1, <1>4, <1>6, <2>1, <2>2
<1>9. ASSUME NEW e \in PaClients, v.mode = m => e = d
      PROVE  PaRight(t, v, e)
  <2>1. e = d
    BY <1>1, <1>5, <1>9
  <2> QED BY <1>3, <1>5, <1>7, <1>1, <2>1 DEF PaRight
<1>10. PaThreadStep(t, m, u, v, c, d)
  BY <1>1, <1>3, <1>5, <1>7, <1>8, <1>9 DEF PaThreadStep
<1> QED BY <1>5, <1>7, <1>10, PaThreadSteps

\* Software ends, a call returns and says how it was done, or raises.
LEMMA PaEndsKeep ==
    ASSUME PaCallInv, NEW t \in PaThreads, PaSoftware(t) \/ PaReturns(t) \/ PaRaises(t)
    PROVE  PaCallInv'
<1>1. PICK m \in PaModes, u \in PaUsers, c \in PaClients :
          u = paUse[t] /\ m = u.mode /\ c = paClient[m] /\ PaRight(t, u, c)
  BY PaThreadOf
<1>2. ASSUME NEW v \in PaUsers, paUse' = [paUse EXCEPT ![t] = v], paClient' = paClient,
             v.at = "idle" \/ (v.mode = m /\ v.op = u.op /\ v.alone = u.alone),
             \A e \in PaClients : (v.mode = m => e = c) => PaRight(t, v, e), u.at # "idle"
      PROVE  PaCallInv'
  <2>1. paClient' = [paClient EXCEPT ![m] = c]
    BY <1>1, <1>2 DEF PaCallInv, PaCallTypes
  <2>2. PaThreadStep(t, m, u, v, c, c)
    BY <1>1, <1>2, <2>1 DEF PaThreadStep
  <2> QED BY <2>2, PaThreadSteps
<1>3. CASE PaSoftware(t)
  <2>1. /\ u.at = "software" /\ u.hw = FALSE /\ (u.op = "fill" => m = "insist") /\ paClient' = paClient
        /\ u.alone => c.used = FALSE
        /\ \/ paUse' = [paUse EXCEPT ![t].at = "return", ![t].dst = t]
           \/ paUse' = [paUse EXCEPT ![t].at = "raise"]
    BY <1>1, <1>3 DEF PaSoftware, PaCan, PaTo, PaRight
  <2>2. CASE paUse' = [paUse EXCEPT ![t].at = "return", ![t].dst = t]
    <3>1. PICK v : v = [u EXCEPT !.at = "return", !.dst = t]
      OBVIOUS
    <3>2. /\ v \in PaUsers /\ v.at = "return" /\ v.mode = u.mode /\ v.op = u.op /\ v.dst = t
          /\ v.alone = u.alone /\ v.hw = u.hw
      BY <3>1 DEF PaUsers, PaBusyAt
    <3>3. paUse' = [paUse EXCEPT ![t] = v]
      BY <1>1, <2>2, <3>1
    <3>4. ASSUME NEW e \in PaClients, v.mode = m => e = c
          PROVE  PaRight(t, v, e)
      <4>1. e = c
        BY <1>1, <3>2, <3>4
      <4> QED BY <1>1, <2>1, <3>2, <4>1 DEF PaRight
    <3> QED BY <1>1, <1>2, <2>1, <3>2, <3>3, <3>4
  <2>3. CASE paUse' = [paUse EXCEPT ![t].at = "raise"]
    <3>1. "raise" \in PaBusyAt
      BY DEF PaBusyAt
    <3>2. PICK v \in PaUsers : /\ v = [u EXCEPT !.at = "raise"]
                               /\ v.at = "raise" /\ v.mode = u.mode /\ v.op = u.op /\ v.dst = u.dst
                               /\ v.on = u.on /\ v.alone = u.alone /\ v.hw = u.hw /\ v.told = u.told
      BY <3>1, PaMovesTo
    <3>3. paUse' = [paUse EXCEPT ![t] = v]
      BY <1>1, <2>3, <3>2
    <3>4. \A e \in PaClients : PaRight(t, v, e)
      BY <1>1, <2>1, <3>2 DEF PaRight
    <3> QED BY <1>1, <1>2, <2>1, <3>2, <3>3, <3>4
  <2> QED BY <2>1, <2>2, <2>3
<1>4. CASE PaReturns(t)
  <2>1. /\ u.at = "return" /\ (u.op = "fill" => m = "insist") /\ paClient' = paClient
        /\ u.dst = t /\ (u.alone => c.used = u.hw)
        /\ paUse' = [paUse EXCEPT ![t].at = "idle", ![t].on = TRUE, ![t].told = c.used]
    BY <1>1, <1>4 DEF PaReturns, PaCan, PaMine, PaRight
  <2>2. PICK v : v = [u EXCEPT !.at = "idle", !.on = TRUE, !.told = c.used]
    OBVIOUS
  <2>3. /\ v \in PaUsers /\ v.at = "idle" /\ v.mode = u.mode /\ v.op = u.op /\ v.dst = u.dst
        /\ v.alone = u.alone /\ v.hw = u.hw /\ v.told = c.used
    BY <2>2 DEF PaUsers, PaClients
  <2>4. paUse' = [paUse EXCEPT ![t] = v]
    BY <1>1, <2>1, <2>2
  <2>5. \A e \in PaClients : PaRight(t, v, e)
    BY <1>1, <2>1, <2>3 DEF PaRight
  <2> QED BY <1>1, <1>2, <2>1, <2>3, <2>4, <2>5
<1>5. CASE PaRaises(t)
  <2>1. u.at = "raise" /\ paClient' = paClient /\ paUse' = [paUse EXCEPT ![t] = PaIdle]
    BY <1>1, <1>5 DEF PaRaises, PaCan
  <2>2. PaIdle \in PaUsers /\ PaIdle.at = "idle" /\ PaIdle.on = FALSE /\ PaIdle.op = "plain"
    BY DEF PaIdle, PaUsers, PaModes
  <2>3. \A e \in PaClients : PaRight(t, PaIdle, e)
    BY <2>2 DEF PaRight
  <2> QED BY <1>1, <1>2, <2>1, <2>2, <2>3
<1> QED BY <1>3, <1>4, <1>5

\* What leaves the threads alone keeps what is theirs.
LEMMA PaCallStays ==
    ASSUME PaCallInv, paUse' = paUse, paClient' = paClient
    PROVE  PaCallInv'
BY DEF PaCallInv, PaCallTypes, PaApart

\* At rest a thread has what is promised.
LEMMA PaCallSafe ==
    ASSUME PaCallInv
    PROVE  PaOwn /\ PaTold
BY DEF PaCallInv, PaRight, PaOwn, PaTold

\* Threads and clients begin right.
LEMMA PaCallBegins ==
    ASSUME PaInit
    PROVE  PaCallInv
<1>1. PaIdle \in PaUsers /\ PaIdle.at = "idle" /\ PaIdle.on = FALSE /\ PaIdle.op = "plain" /\ PaIdle.mode \in PaModes
  BY DEF PaIdle, PaUsers, PaModes
<1>2. PaFresh \in PaClients
  BY DEF PaFresh, PaClients
<1>3. paUse = [t \in PaThreads |-> PaIdle] /\ paClient = [m \in PaModes |-> PaFresh]
  BY DEF PaInit
<1>4. PaCallTypes
  BY <1>1, <1>2, <1>3 DEF PaCallTypes
<1>5. PaApart
  BY <1>1, <1>3 DEF PaApart, PaTogether
<1>6. \A t \in PaThreads : PaRight(t, paUse[t], paClient[paUse[t].mode])
  <2>1. ASSUME NEW t \in PaThreads PROVE PaRight(t, PaIdle, PaFresh)
    BY <1>1 DEF PaRight
  <2> QED BY <1>1, <1>3, <2>1
<1> QED BY <1>4, <1>5, <1>6 DEF PaCallInv

\* What a camera's call, its frames and the cache do, and nothing of ppa's threads.
PaShoots ==
    \/ \E plan \in PaPlans : PaBegins(plan)
    \/ \E b \in PaBufs : PaArrives(b)
    \/ \E b \in PaBufs \ {"bytes"} : PaEvict(b)
    \/ PaClaims \/ PaTimesOut \/ PaDraws \/ PaAllocates \/ PaAllocFails
    \/ PaPpaWorks \/ PaCpuWorks \/ PaMsync \/ PaGives
    \/ \E hw \in BOOLEAN : PaEncodes(hw)
    \/ \E edits \in BOOLEAN : PaUses(edits)

\* What a thread of ppa does.
PaThreadDoes ==
    \/ \E t \in PaThreads, mode \in PaModes, op \in {"plain", "grey", "odd", "fill"} : PaCalls(t, mode, op)
    \/ \E t \in PaThreads, longer \in BOOLEAN : PaEnters(t, longer)
    \/ \E t \in PaThreads : \/ PaRegisters(t) \/ PaSubmits(t) \/ PaWorked(t) \/ PaFinishes(t)
                            \/ PaSoftware(t) \/ PaReturns(t) \/ PaRaises(t)

\* A step is one of these, or asks where pixels go.
LEMMA PaNextIs ==
    ASSUME PaNext
    PROVE  PaShoots \/ PaThreadDoes \/ PaAsks
BY DEF PaNext, PaShoots, PaThreadDoes

\* Of the steps of a call none touches the threads.
LEMMA PaShootsAlone ==
    ASSUME PaShoots
    PROVE  paOfCall' = paOfCall
<1>1. ASSUME NEW plan, PaBegins(plan) PROVE paOfCall' = paOfCall
  BY <1>1 DEF PaBegins
<1>2. ASSUME NEW b, PaArrives(b) \/ PaEvict(b) PROVE paOfCall' = paOfCall
  BY <1>2 DEF PaArrives, PaEvict
<1>3. CASE PaClaims \/ PaTimesOut \/ PaDraws \/ PaAllocates
  BY <1>3 DEF PaClaims, PaTimesOut, PaDraws, PaAllocates, PaGoesOn
<1>4. CASE PaAllocFails \/ PaPpaWorks \/ PaCpuWorks \/ PaMsync \/ PaGives
  BY <1>4 DEF PaAllocFails, PaPpaWorks, PaCpuWorks, PaMsync, PaGives, PaGoesOn
<1>5. ASSUME NEW hw, PaEncodes(hw) PROVE paOfCall' = paOfCall
  BY <1>5 DEF PaEncodes, PaGoesOn
<1>6. ASSUME NEW edits, PaUses(edits) PROVE paOfCall' = paOfCall
  BY <1>6 DEF PaUses
<1> QED BY <1>1, <1>2, <1>3, <1>4, <1>5, <1>6 DEF PaShoots

\* Each step of a thread keeps what is the threads'.
LEMMA PaThreadsKeep ==
    ASSUME ~PaShares, PaCallInv, PaThreadDoes
    PROVE  PaCallInv'
<1>1. CASE \E t \in PaThreads, mode \in PaModes, op \in {"plain", "grey", "odd", "fill"} : PaCalls(t, mode, op)
  BY <1>1, PaCallsKeeps
<1>2. CASE \E t \in PaThreads, longer \in BOOLEAN : PaEnters(t, longer)
  BY <1>2, PaEntersKeeps
<1>3. ASSUME NEW t \in PaThreads, PaRegisters(t) \/ PaSubmits(t) \/ PaWorked(t) \/ PaFinishes(t)
      PROVE  PaCallInv'
  BY <1>3, PaRegistersKeeps, PaSubmitsKeeps, PaWorkedKeeps, PaFinishesKeeps
<1>4. ASSUME NEW t \in PaThreads, PaSoftware(t) \/ PaReturns(t) \/ PaRaises(t)
      PROVE  PaCallInv'
  BY <1>4, PaEndsKeep
<1> QED BY <1>1, <1>2, <1>3, <1>4 DEF PaThreadDoes

\* Every step keeps it.
LEMMA PaCallKeeps ==
    ASSUME ~PaShares, PaCallInv, [PaNext]_paVars
    PROVE  PaCallInv'
<1>1. CASE PaShoots
  BY <1>1, PaShootsAlone, PaCallStays DEF paOfCall
<1>2. CASE PaThreadDoes
  BY <1>2, PaThreadsKeep
<1>3. CASE PaAsks
  BY <1>3, PaCallStays DEF PaAsks, paOfCall
<1>4. CASE UNCHANGED paVars
  BY <1>4, PaCallStays DEF paVars
<1> QED BY <1>1, <1>2, <1>3, <1>4, PaNextIs

\* When no client's scratch has two threads, a call that returns has made its own picture,
\* and what it tells of the hardware is so, for any threads, modes and operations.
\* (ppa_py_run, hw_srm)
THEOREM PaThreadsOwn == ~PaShares => (PaSpec => [](PaOwn /\ PaTold))
<1> SUFFICES ASSUME ~PaShares PROVE PaSpec => [](PaOwn /\ PaTold)
  OBVIOUS
<1>1. PaInit => PaCallInv
  BY PaCallBegins
<1>2. PaCallInv /\ [PaNext]_paVars => PaCallInv'
  BY PaCallKeeps
<1>3. PaCallInv => PaOwn /\ PaTold
  BY PaCallSafe
<1> QED BY <1>1, <1>2, <1>3, PTL DEF PaSpec

-----------------------------------------------------------------------------
\* Of a call: its buffers, and what there is left to do.

\* The buffers that are not the camera's, the forms of a picture, and the camera's frames.
PaFrames == {"f0", "f1"}
PaOthers == PaBufs \ PaFrames
PaForms == {"rgb", "grey", "yuy2", "uyvy", "bgr", "jpeg"}

\* A buffer has a picture, in its line if that is dirty; or has it in memory.
PaHas(m, b, v) == IF m[b].dirty THEN m[b].line = v ELSE m[b].mem = v /\ m[b].line \in {<<>>, v}
PaInMem(m, b, v) == ~m[b].dirty /\ m[b].mem = v /\ m[b].line \in {<<>>, v}

\* What is left to do begins with a step, or is that step.
PaFirst(d, s) == d # <<>> /\ Head(d) = s
PaLast(d, s) == PaFirst(d, s) /\ Tail(d) = <<>>

\* What may follow when buffer b has the picture in form f: it ends there, or is made so
\* that it can, or becomes another first, for which the engine's copy may be allocated.
PaEnds(d, b, f) == PaLast(d, PaEncode(b, f)) \/ (b # "dst" /\ PaLast(d, PaGive(b, f)))
PaMade(d, b, f) == \/ PaFirst(d, PaClean(b)) /\ PaEnds(Tail(d), b, f)
                   \/ PaFirst(d, PaCopy(b, "bytes")) /\ PaLast(Tail(d), PaGive("bytes", f))
PaConverts(d, from) == \E to \in PaOthers, g \in PaForms :
    PaFirst(d, PaCpu(from, to, g)) /\ (PaEnds(Tail(d), to, g) \/ PaMade(Tail(d), to, g))
PaKeeping(d, b) == b = "dst" /\ \E n \in Nat : PaFirst(d, PaAlloc("enc", n)) /\ PaConverts(Tail(d), b)
PaFromHas(d, b, f) == PaEnds(d, b, f) \/ PaMade(d, b, f) \/ PaConverts(d, b) \/ PaKeeping(d, b)

\* When it is in memory.
PaFromMem(d, b, f) == \/ PaLast(d, PaGive(b, f))
                      \/ PaFirst(d, PaDrop(b)) /\ (PaEnds(Tail(d), b, f) \/ PaConverts(Tail(d), b))

\* When the frame held is the call's, in memory; and when no line of the cache hides it.
PaByHand(d) == \E to \in PaOthers, f \in PaForms :
    PaFirst(d, PaPpa("fb", to, f)) /\ (PaFromMem(Tail(d), to, f) \/ PaFromHas(Tail(d), to, f))
PaFromFrame(d) == \/ PaLast(d, PaEncode("fb", "rgb"))
                  \/ PaByHand(d)
                  \/ \E n \in Nat : PaFirst(d, PaAlloc("tmp", n)) /\ PaByHand(Tail(d))
PaFromSeen(d) == \/ PaLast(d, PaGive("fb", "rgb"))
                 \/ PaConverts(d, "fb")
                 \/ PaFirst(d, PaCopy("fb", "bytes")) /\ PaLast(Tail(d), PaGive("bytes", "rgb"))

\* When there is nothing yet.
PaFromClaim(d) == \E sync \in BOOLEAN :
    PaFirst(d, PaClaim(sync)) /\ \/ Tail(d) = <<>> \/ PaFromFrame(Tail(d))
                                 \/ sync = TRUE /\ PaFromSeen(Tail(d))
PaFromClean(d) == PaFirst(d, PaClean("take")) /\ PaFromClaim(Tail(d))
PaFromRoom(d) == \E b \in {"take", "yuy2"}, n \in Nat :
    PaFirst(d, PaAlloc(b, n)) /\ (PaFromClaim(Tail(d)) \/ PaFromClean(Tail(d)))
PaFromDraw(d) == PaFirst(d, PaDraw("dst")) /\ PaFromHas(Tail(d), "dst", "rgb")
PaFromNothing(d) == d = <<>> \/ PaFromClaim(d) \/ PaFromClean(d) \/ PaFromRoom(d) \/ PaFromDraw(d)

\* What is left to do is right from where the frame or the picture is.
PaFrameIn(m, c) == c.held \in PaFrames /\ m[c.held].mem = <<1, "rgb">>
PaFrameSeen(m, c) == c.held \in PaFrames /\ PaInMem(m, c.held, <<1, "rgb">>)
PaPlaceHas(m, d) == \E b \in PaOthers, f \in PaForms : PaHas(m, b, <<1, f>>) /\ PaFromHas(d, b, f)
PaPlaceMem(m, d) == \E b \in PaOthers, f \in PaForms : PaInMem(m, b, <<1, f>>) /\ PaFromMem(d, b, f)
PaPlace(m, c, d) ==
    \/ PaFromNothing(d)
    \/ PaPlaceHas(m, d)
    \/ PaPlaceMem(m, d)
    \/ PaFrameIn(m, c) /\ PaFromFrame(d)
    \/ PaFrameSeen(m, c) /\ PaFromSeen(d)

\* What was given is where it is said to be.
PaShown(m, c, v) ==
    \/ v = PaNoView
    \/ /\ v.b \in PaBufs /\ \E f \in PaForms : v.is = <<1, f>> /\ PaHas(m, v.b, v.is)
       /\ v.b = "dst" => ~m["dst"].dirty
       /\ v.b \in PaFrames => v.b = c.held

\* What the buffers and the camera are, and the invariant of a call.
PaCells(M) == [mem : M, line : M, dirty : BOOLEAN]
PaShaped(m) == \E M : m \in [PaBufs -> PaCells(M)]
PaCamera == [done : PaFrames, ready : BOOLEAN, held : PaFrames \cup {PaNone}, old : BOOLEAN]
PaBase(m, c) == PaShaped(m) /\ (\A b \in PaFrames : ~m[b].dirty) /\ c \in PaCamera
PaAfter(m, c, d, v) == IF d = <<>> THEN PaShown(m, c, v) ELSE v = PaNoView /\ PaPlace(m, c, d)
PaShotInv == PaBase(paBuf, paCam) /\ PaAfter(paBuf, paCam, paDo, paView)

\* n is m but for buffer b.
PaOnly(m, n, b, x, l, e) ==
    /\ PaShaped(n) /\ n[b].mem = x /\ n[b].line = l /\ n[b].dirty = e
    /\ \A c \in PaBufs \ {b} : n[c] = m[c]

\* More pictures there may be do no harm.
LEMMA PaWiden ==
    ASSUME NEW M, NEW N, M \subseteq N, NEW m \in [PaBufs -> PaCells(M)]
    PROVE  m \in [PaBufs -> PaCells(N)]
BY DEF PaCells

\* A line is dropped.
LEMMA PaDroppedIs ==
    ASSUME NEW m, PaShaped(m), NEW b \in PaBufs, NEW n, n = PaDropped(m, b)
    PROVE  PaOnly(m, n, b, m[b].mem, <<>>, FALSE)
<1>1. PICK M : m \in [PaBufs -> PaCells(M)]
  BY DEF PaShaped
<1>2. PICK N : N = M \cup {<<>>}
  OBVIOUS
<1>3. m \in [PaBufs -> PaCells(N)]
  BY <1>1, <1>2, PaWiden
<1>4. PICK r \in PaCells(N) : r = [m[b] EXCEPT !.line = <<>>, !.dirty = FALSE]
  BY <1>2, <1>3 DEF PaCells
<1>5. r.mem = m[b].mem /\ r.line = <<>> /\ r.dirty = FALSE
  BY <1>3, <1>4 DEF PaCells
<1>6. n = [m EXCEPT ![b] = r]
  BY <1>4 DEF PaDropped
<1>7. n \in [PaBufs -> PaCells(N)] /\ n[b] = r /\ \A c \in PaBufs \ {b} : n[c] = m[c]
  BY <1>3, <1>6
<1> QED BY <1>5, <1>7 DEF PaOnly, PaShaped

\* A line is read.
LEMMA PaReadByIs ==
    ASSUME NEW m, PaShaped(m), NEW b \in PaBufs, NEW n, n = PaReadBy(m, b)
    PROVE  PaOnly(m, n, b, m[b].mem, IF m[b].line # <<>> THEN m[b].line ELSE m[b].mem, m[b].dirty)
<1>1. PICK M : m \in [PaBufs -> PaCells(M)]
  BY DEF PaShaped
<1>2. PICK l \in M : l = (IF m[b].line # <<>> THEN m[b].line ELSE m[b].mem)
  BY <1>1 DEF PaCells
<1>3. PICK r \in PaCells(M) : r = [m[b] EXCEPT !.line = l]
  BY <1>1 DEF PaCells
<1>4. r.mem = m[b].mem /\ r.line = l /\ r.dirty = m[b].dirty
  BY <1>1, <1>3 DEF PaCells
<1>5. n = [m EXCEPT ![b] = r]
  BY <1>2, <1>3 DEF PaReadBy
<1>6. n \in [PaBufs -> PaCells(M)] /\ n[b] = r /\ \A c \in PaBufs \ {b} : n[c] = m[c]
  BY <1>1, <1>5
<1> QED BY <1>2, <1>4, <1>6 DEF PaOnly, PaShaped

\* A line is written.
LEMMA PaWrittenByIs ==
    ASSUME NEW m, PaShaped(m), NEW b \in PaBufs, NEW v, NEW n, n = PaWrittenBy(m, b, v)
    PROVE  PaOnly(m, n, b, m[b].mem, v, TRUE)
<1>1. PICK M : m \in [PaBufs -> PaCells(M)]
  BY DEF PaShaped
<1>2. PICK N : N = M \cup {v}
  OBVIOUS
<1>3. m \in [PaBufs -> PaCells(N)]
  BY <1>1, <1>2, PaWiden
<1>4. PICK r \in PaCells(N) : r = [m[b] EXCEPT !.line = v, !.dirty = TRUE]
  BY <1>2, <1>3 DEF PaCells
<1>5. r.mem = m[b].mem /\ r.line = v /\ r.dirty = TRUE
  BY <1>3, <1>4 DEF PaCells
<1>6. n = [m EXCEPT ![b] = r]
  BY <1>4 DEF PaWrittenBy
<1>7. n \in [PaBufs -> PaCells(N)] /\ n[b] = r /\ \A c \in PaBufs \ {b} : n[c] = m[c]
  BY <1>3, <1>6
<1> QED BY <1>5, <1>7 DEF PaOnly, PaShaped

\* A line is written back.
LEMMA PaCleanedIs ==
    ASSUME NEW m, PaShaped(m), NEW b \in PaBufs, NEW n, n = PaCleaned(m, b)
    PROVE  PaOnly(m, n, b, IF m[b].dirty THEN m[b].line ELSE m[b].mem, m[b].line, FALSE)
<1>1. PICK M : m \in [PaBufs -> PaCells(M)]
  BY DEF PaShaped
<1>2. PICK x \in M : x = (IF m[b].dirty THEN m[b].line ELSE m[b].mem)
  BY <1>1 DEF PaCells
<1>3. PICK r \in PaCells(M) : r = [m[b] EXCEPT !.mem = x, !.dirty = FALSE]
  BY <1>1 DEF PaCells
<1>4. r.mem = x /\ r.line = m[b].line /\ r.dirty = FALSE
  BY <1>1, <1>3 DEF PaCells
<1>5. n = [m EXCEPT ![b] = r]
  BY <1>2, <1>3 DEF PaCleaned
<1>6. n \in [PaBufs -> PaCells(M)] /\ n[b] = r /\ \A c \in PaBufs \ {b} : n[c] = m[c]
  BY <1>1, <1>5
<1> QED BY <1>2, <1>4, <1>6 DEF PaOnly, PaShaped

\* Memory is written past the cache.
LEMMA PaMemIs ==
    ASSUME NEW m, PaShaped(m), NEW b \in PaBufs, NEW v, NEW n, n = [m EXCEPT ![b].mem = v]
    PROVE  PaOnly(m, n, b, v, m[b].line, m[b].dirty)
<1>1. PICK M : m \in [PaBufs -> PaCells(M)]
  BY DEF PaShaped
<1>2. PICK N : N = M \cup {v}
  OBVIOUS
<1>3. m \in [PaBufs -> PaCells(N)]
  BY <1>1, <1>2, PaWiden
<1>4. PICK r \in PaCells(N) : r = [m[b] EXCEPT !.mem = v]
  BY <1>2, <1>3 DEF PaCells
<1>5. r.mem = v /\ r.line = m[b].line /\ r.dirty = m[b].dirty
  BY <1>3, <1>4 DEF PaCells
<1>6. n = [m EXCEPT ![b] = r]
  BY <1>4
<1>7. n \in [PaBufs -> PaCells(N)] /\ n[b] = r /\ \A c \in PaBufs \ {b} : n[c] = m[c]
  BY <1>3, <1>6
<1> QED BY <1>5, <1>7 DEF PaOnly, PaShaped

\* A buffer is zeroed.
LEMMA PaZeroedIs ==
    ASSUME NEW m, PaShaped(m), NEW b \in PaBufs, NEW x, NEW l, NEW e \in BOOLEAN, NEW n,
           n = [m EXCEPT ![b] = [mem |-> x, line |-> l, dirty |-> e]]
    PROVE  PaOnly(m, n, b, x, l, e)
<1>1. PICK M : m \in [PaBufs -> PaCells(M)]
  BY DEF PaShaped
<1>2. PICK N : N = M \cup {x, l}
  OBVIOUS
<1>3. m \in [PaBufs -> PaCells(N)]
  BY <1>1, <1>2, PaWiden
<1>4. PICK r : r = [mem |-> x, line |-> l, dirty |-> e]
  OBVIOUS
<1>5. r \in PaCells(N) /\ r.mem = x /\ r.line = l /\ r.dirty = e
  BY <1>2, <1>4 DEF PaCells
<1>6. n = [m EXCEPT ![b] = r]
  BY <1>4
<1>7. n \in [PaBufs -> PaCells(N)] /\ n[b] = r /\ \A c \in PaBufs \ {b} : n[c] = m[c]
  BY <1>3, <1>5, <1>6
<1> QED BY <1>5, <1>7 DEF PaOnly, PaShaped



\* A picture that is read is seen.
LEMMA PaSeen ==
    ASSUME NEW b \in PaBufs, NEW f, PaHas(paBuf, b, <<1, f>>)
    PROVE  PaSees(b) = <<1, f>>
<1>1. <<1, f>> # <<>>
  OBVIOUS
<1> QED BY <1>1 DEF PaHas, PaSees

\* What is in memory is there to have.
LEMMA PaMemHas ==
    ASSUME NEW m, NEW b, NEW v, PaInMem(m, b, v)
    PROVE  PaHas(m, b, v)
BY DEF PaInMem, PaHas

\* Reading a picture leaves it where it is.
LEMMA PaReadHas ==
    ASSUME NEW m, PaShaped(m), NEW b \in PaBufs, NEW a \in PaBufs, NEW f, NEW n, n = PaReadBy(m, b)
    PROVE  /\ PaShaped(n) /\ n[b].line = (IF m[b].line # <<>> THEN m[b].line ELSE m[b].mem)
           /\ n[a].dirty = m[a].dirty /\ n[a].mem = m[a].mem
           /\ PaHas(m, a, <<1, f>>) => PaHas(n, a, <<1, f>>)
           /\ PaInMem(m, a, <<1, f>>) => PaInMem(n, a, <<1, f>>)
<1>0. <<1, f>> # <<>>
  OBVIOUS
<1>1. PaOnly(m, n, b, m[b].mem, IF m[b].line # <<>> THEN m[b].line ELSE m[b].mem, m[b].dirty)
  BY PaReadByIs
<1>2. /\ PaShaped(n) /\ n[b].line = (IF m[b].line # <<>> THEN m[b].line ELSE m[b].mem)
      /\ n[b].mem = m[b].mem /\ n[b].dirty = m[b].dirty
  BY <1>1 DEF PaOnly
<1>3. CASE a = b
  BY <1>0, <1>2, <1>3 DEF PaHas, PaInMem
<1>4. CASE a # b
  <2>1. n[a] = m[a]
    BY <1>1, <1>4 DEF PaOnly
  <2> QED BY <1>2, <2>1 DEF PaHas, PaInMem
<1> QED BY <1>3, <1>4

\* What reading, writing back and dropping a line leave in memory, and as it was.
LEMMA PaReadKeeps ==
    ASSUME NEW m, PaShaped(m), NEW b \in PaBufs, NEW n, n = PaReadBy(m, b)
    PROVE  /\ PaShaped(n) /\ n[b].line = (IF m[b].line # <<>> THEN m[b].line ELSE m[b].mem)
           /\ \A a \in PaBufs : n[a].dirty = m[a].dirty /\ n[a].mem = m[a].mem
<1>1. PaOnly(m, n, b, m[b].mem, IF m[b].line # <<>> THEN m[b].line ELSE m[b].mem, m[b].dirty)
  BY PaReadByIs
<1>2. /\ PaShaped(n) /\ n[b].line = (IF m[b].line # <<>> THEN m[b].line ELSE m[b].mem)
      /\ n[b].mem = m[b].mem /\ n[b].dirty = m[b].dirty /\ \A a \in PaBufs \ {b} : n[a] = m[a]
  BY <1>1 DEF PaOnly
<1> QED BY <1>2
\* A buffer written back, and then one dropped: nothing of another is lost.
LEMMA PaCleanKeeps ==
    ASSUME NEW m, PaShaped(m), NEW b \in PaBufs, NEW n, n = PaCleaned(m, b)
    PROVE  /\ PaShaped(n) /\ ~n[b].dirty
           /\ \A a \in PaBufs : ~m[a].dirty => ~n[a].dirty /\ n[a].mem = m[a].mem
<1>1. PaOnly(m, n, b, IF m[b].dirty THEN m[b].line ELSE m[b].mem, m[b].line, FALSE)
  BY PaCleanedIs
<1>2. /\ PaShaped(n) /\ n[b].mem = (IF m[b].dirty THEN m[b].line ELSE m[b].mem) /\ ~n[b].dirty
      /\ \A a \in PaBufs \ {b} : n[a] = m[a]
  BY <1>1 DEF PaOnly
<1> QED BY <1>2

LEMMA PaDropKeeps ==
    ASSUME NEW m, PaShaped(m), NEW b \in PaBufs, NEW n, n = PaDropped(m, b)
    PROVE  /\ PaShaped(n) /\ ~n[b].dirty
           /\ \A a \in PaBufs : n[a].mem = m[a].mem /\ (~m[a].dirty => ~n[a].dirty)
<1>1. PaOnly(m, n, b, m[b].mem, <<>>, FALSE)
  BY PaDroppedIs
<1>2. /\ PaShaped(n) /\ n[b].mem = m[b].mem /\ ~n[b].dirty /\ \A a \in PaBufs \ {b} : n[a] = m[a]
  BY <1>1 DEF PaOnly
<1> QED BY <1>2

\* Writing a line back brings the picture to memory.
LEMMA PaCleanHas ==
    ASSUME NEW m, PaShaped(m), NEW b \in PaBufs, NEW a \in PaBufs, NEW f, NEW n, n = PaCleaned(m, b)
    PROVE  /\ PaShaped(n) /\ ~n[b].dirty /\ (~m[a].dirty => ~n[a].dirty /\ n[a].mem = m[a].mem)
           /\ PaHas(m, a, <<1, f>>) => PaHas(n, a, <<1, f>>)
           /\ PaHas(m, b, <<1, f>>) => PaInMem(n, b, <<1, f>>)
           /\ PaInMem(m, a, <<1, f>>) => PaInMem(n, a, <<1, f>>)
<1>1. PaOnly(m, n, b, IF m[b].dirty THEN m[b].line ELSE m[b].mem, m[b].line, FALSE)
  BY PaCleanedIs
<1>2. /\ PaShaped(n) /\ n[b].line = m[b].line
      /\ n[b].mem = (IF m[b].dirty THEN m[b].line ELSE m[b].mem) /\ ~n[b].dirty
  BY <1>1 DEF PaOnly
<1>3. CASE a = b
  BY <1>2, <1>3 DEF PaHas, PaInMem
<1>4. CASE a # b
  <2>1. n[a] = m[a] /\ (PaHas(m, a, <<1, f>>) => PaHas(n, a, <<1, f>>)) /\ (PaInMem(m, a, <<1, f>>) => PaInMem(n, a, <<1, f>>))
    <3>1. n[a] = m[a]
      BY <1>1, <1>4 DEF PaOnly
    <3> QED BY <3>1 DEF PaHas, PaInMem
  <2>2. PaHas(m, b, <<1, f>>) => PaInMem(n, b, <<1, f>>)
    BY <1>2 DEF PaHas, PaInMem
  <2> QED BY <1>2, <2>1, <2>2
<1> QED BY <1>3, <1>4

\* Dropping a line leaves what is in memory.
LEMMA PaDropHas ==
    ASSUME NEW m, PaShaped(m), NEW b \in PaBufs, NEW a \in PaBufs, NEW f, NEW n, n = PaDropped(m, b)
    PROVE  /\ PaShaped(n) /\ ~n[b].dirty /\ n[a].mem = m[a].mem
           /\ ~m[a].dirty => ~n[a].dirty
           /\ a # b => n[a] = m[a]
           /\ a # b /\ PaHas(m, a, <<1, f>>) => PaHas(n, a, <<1, f>>)
           /\ PaInMem(m, a, <<1, f>>) => PaInMem(n, a, <<1, f>>)
<1>1. PaOnly(m, n, b, m[b].mem, <<>>, FALSE)
  BY PaDroppedIs
<1>2. PaShaped(n) /\ n[b].line = <<>> /\ n[b].mem = m[b].mem /\ ~n[b].dirty
  BY <1>1 DEF PaOnly
<1>3. CASE a = b
  BY <1>2, <1>3 DEF PaHas, PaInMem
<1>4. CASE a # b
  <2>1. n[a] = m[a]
    BY <1>1, <1>4 DEF PaOnly
  <2> QED BY <1>2, <1>4, <2>1 DEF PaHas, PaInMem
<1> QED BY <1>3, <1>4

\* The PPA leaves its picture in memory, and no line before it.
LEMMA PaByPpaHas ==
    ASSUME NEW m, PaShaped(m), "out" \in PaSyncs, NEW from \in PaFrames, ~m[from].dirty,
           m[from].mem = <<1, "rgb">>, NEW to \in PaOthers, NEW form, NEW n, n = PaByPpa(m, from, to, form)
    PROVE  /\ PaShaped(n) /\ PaInMem(n, to, <<1, form>>)
           /\ \A a \in PaFrames : ~m[a].dirty => ~n[a].dirty
<1>0. from \in PaBufs /\ to \in PaBufs /\ from # to
  BY DEF PaFrames, PaOthers, PaBufs
<1>1. PICK a : a = (IF "in" \in PaSyncs THEN PaCleaned(m, from) ELSE m)
  OBVIOUS
<1>2. PICK b : b = PaDropped(a, to)
  OBVIOUS
<1>3. n = [b EXCEPT ![to].mem = <<b[from].mem[1], form>>]
  BY <1>1, <1>2 DEF PaByPpa
<1>4. /\ PaShaped(a) /\ a[from].mem = m[from].mem
      /\ \A c \in PaFrames : ~m[c].dirty => ~a[c].dirty
  <2>1. CASE "in" \in PaSyncs
    <3>1. PaShaped(a) /\ \A c \in PaBufs : ~m[c].dirty => ~a[c].dirty /\ a[c].mem = m[c].mem
      BY <1>0, <1>1, <2>1, PaCleanKeeps
    <3> QED BY <1>0, <3>1 DEF PaFrames, PaBufs
  <2>2. CASE "in" \notin PaSyncs
    BY <1>1, <2>2
  <2> QED BY <2>1, <2>2
<1>5. PaOnly(a, b, to, a[to].mem, <<>>, FALSE)
  BY <1>0, <1>2, <1>4, PaDroppedIs
<1>6. /\ PaShaped(b) /\ b[from] = a[from] /\ b[to].line = <<>> /\ ~b[to].dirty
      /\ \A c \in PaFrames : b[c] = a[c]
  <2>1. \A c \in PaFrames : c \in PaBufs \ {to}
    BY DEF PaFrames, PaOthers, PaBufs
  <2> QED BY <1>5, <2>1 DEF PaOnly
<1>7. b[from].mem[1] = 1
  BY <1>4, <1>6
<1>8. PaOnly(b, n, to, <<1, form>>, b[to].line, b[to].dirty)
  <2>1. n = [b EXCEPT ![to].mem = <<1, form>>]
    BY <1>3, <1>7
  <2> QED BY <1>0, <1>6, <2>1, PaMemIs
<1>9. PaShaped(n) /\ PaInMem(n, to, <<1, form>>)
  BY <1>6, <1>8 DEF PaOnly, PaInMem
<1>10. \A c \in PaFrames : n[c] = b[c]
  <2>1. \A c \in PaFrames : c \in PaBufs \ {to}
    BY DEF PaFrames, PaOthers, PaBufs
  <2> QED BY <1>8, <2>1 DEF PaOnly
<1> QED BY <1>4, <1>6, <1>9, <1>10

\* The CPU makes a picture of one it sees, in a buffer that is not the camera's.
LEMMA PaCpuHas ==
    ASSUME NEW m, PaShaped(m), NEW from \in PaBufs, NEW to \in PaOthers, NEW v, NEW n,
           n = PaWrittenBy(PaReadBy(m, from), to, v)
    PROVE  /\ PaShaped(n) /\ PaHas(n, to, v)
           /\ \A a \in PaFrames : n[a].dirty = m[a].dirty
<1>0. to \in PaBufs /\ \A c \in PaFrames : c \in PaBufs /\ c # to
  BY DEF PaFrames, PaOthers, PaBufs
<1>1. PICK r : r = PaReadBy(m, from)
  OBVIOUS
<1>2. \A a \in PaBufs : PaShaped(r) /\ r[a].dirty = m[a].dirty
  BY <1>1, PaReadKeeps
<1>3. PaShaped(r)
  BY <1>0, <1>2
<1>4. PaOnly(r, n, to, r[to].mem, v, TRUE)
  BY <1>0, <1>1, <1>3, PaWrittenByIs
<1>5. PaShaped(n) /\ PaHas(n, to, v)
  BY <1>4 DEF PaOnly, PaHas
<1>6. \A c \in PaFrames : n[c] = r[c]
  BY <1>0, <1>4 DEF PaOnly
<1> QED BY <1>0, <1>2, <1>5, <1>6

\* Pictures age.
LEMMA PaAgedIs ==
    ASSUME NEW m, PaShaped(m), NEW n, n = PaAged(m)
    PROVE  PaShaped(n) /\ \A b \in PaBufs : n[b].dirty = m[b].dirty
<1>1. PICK M : m \in [PaBufs -> PaCells(M)]
  BY DEF PaShaped
<1>2. PICK N : N = M \cup {PaBlank}
  OBVIOUS
<1> DEFINE a(c) == IF c # <<>> /\ c[1] = 1 THEN PaBlank ELSE c
<1>3. \A x \in M : a(x) \in N
  BY <1>2
<1>4. n = [b \in PaBufs |-> [m[b] EXCEPT !.mem = a(@), !.line = a(@)]]
  BY Zenon DEF PaAged
<1> HIDE DEF a
<1>5. ASSUME NEW b \in PaBufs
      PROVE  n[b] \in PaCells(N) /\ n[b].dirty = m[b].dirty
  <2>1. PICK r \in PaCells(M) : r = m[b]
    BY <1>1
  <2>2. PICK x \in N : x = a(r.mem)
    BY <1>3 DEF PaCells
  <2>3. PICK l \in N : l = a(r.line)
    BY <1>3 DEF PaCells
  <2>4. n[b] = [r EXCEPT !.mem = a(@), !.line = a(@)]
    BY <1>4, <2>1
  <2>5. n[b] = [r EXCEPT !.mem = x, !.line = l]
    BY <2>2, <2>3, <2>4
  <2> QED BY <2>1, <2>5 DEF PaCells
<1>6. n \in [PaBufs -> PaCells(N)]
  <2>1. n = [b \in PaBufs |-> n[b]]
    BY <1>4
  <2> QED BY <1>5, <2>1
<1> QED BY <1>5, <1>6 DEF PaShaped

\* What is left to do begins with one of some words.
PaWord(d, W) == d # <<>> /\ Head(d).do \in W

\* The words what is left to do may begin with, from where the picture is.
LEMMA PaEndsWord ==
    ASSUME NEW d, NEW b, NEW f, PaEnds(d, b, f)
    PROVE  PaWord(d, {"encode", "give"})
BY DEF PaEnds, PaLast, PaFirst, PaWord, PaEncode, PaGive

\* The same, when the picture is made.
LEMMA PaMadeWord ==
    ASSUME NEW d, NEW b, NEW f, PaMade(d, b, f)
    PROVE  PaWord(d, {"clean", "cpu"})
BY DEF PaMade, PaFirst, PaWord, PaClean, PaCopy, PaCpu

\* The same, when it becomes another.
LEMMA PaConvertsWord ==
    ASSUME NEW d, NEW from, PaConverts(d, from)
    PROVE  PaWord(d, {"cpu"})
BY DEF PaConverts, PaFirst, PaWord, PaCpu

\* The same, from a buffer that has it.
LEMMA PaHasWord ==
    ASSUME NEW d, NEW b, NEW f, PaFromHas(d, b, f)
    PROVE  PaWord(d, {"encode", "give", "clean", "cpu", "alloc"})
<1>1. CASE PaEnds(d, b, f) \/ PaMade(d, b, f) \/ PaConverts(d, b)
  BY <1>1, PaEndsWord, PaMadeWord, PaConvertsWord DEF PaWord
<1>2. CASE PaKeeping(d, b)
  BY <1>2 DEF PaKeeping, PaFirst, PaWord, PaAlloc
<1> QED BY <1>1, <1>2 DEF PaFromHas

\* The same, from memory.
LEMMA PaMemWord ==
    ASSUME NEW d, NEW b, NEW f, PaFromMem(d, b, f)
    PROVE  PaWord(d, {"give", "drop"})
BY DEF PaFromMem, PaLast, PaFirst, PaWord, PaGive, PaDrop

\* The same, by the PPA.
LEMMA PaHandWord ==
    ASSUME NEW d, PaByHand(d)
    PROVE  PaWord(d, {"ppa"})
BY DEF PaByHand, PaFirst, PaWord, PaPpa

\* The same, from the frame in memory.
LEMMA PaFrameWord ==
    ASSUME NEW d, PaFromFrame(d)
    PROVE  PaWord(d, {"encode", "ppa", "alloc"})
<1>1. CASE PaLast(d, PaEncode("fb", "rgb"))
  BY <1>1 DEF PaLast, PaFirst, PaWord, PaEncode
<1>2. CASE PaByHand(d)
  BY <1>2, PaHandWord DEF PaWord
<1>3. CASE \E n \in Nat : PaFirst(d, PaAlloc("tmp", n)) /\ PaByHand(Tail(d))
  BY <1>3 DEF PaFirst, PaWord, PaAlloc
<1> QED BY <1>1, <1>2, <1>3 DEF PaFromFrame

\* The same, from the frame as the CPU sees it.
LEMMA PaSeenWord ==
    ASSUME NEW d, PaFromSeen(d)
    PROVE  PaWord(d, {"give", "cpu"})
<1>1. CASE PaLast(d, PaGive("fb", "rgb"))
  BY <1>1 DEF PaLast, PaFirst, PaWord, PaGive
<1>2. CASE PaConverts(d, "fb")
  BY <1>2, PaConvertsWord DEF PaWord
<1>3. CASE PaFirst(d, PaCopy("fb", "bytes"))
  BY <1>3 DEF PaFirst, PaWord, PaCopy, PaCpu
<1> QED BY <1>1, <1>2, <1>3 DEF PaFromSeen

\* The same, when there is nothing yet.
LEMMA PaNothingWord ==
    ASSUME NEW d, PaFromNothing(d), d # <<>>
    PROVE  PaWord(d, {"claim", "clean", "alloc", "draw"})
<1>1. CASE PaFromClaim(d)
  BY <1>1 DEF PaFromClaim, PaFirst, PaWord, PaClaim
<1>2. CASE PaFromClean(d)
  BY <1>2 DEF PaFromClean, PaFirst, PaWord, PaClean
<1>3. CASE PaFromRoom(d)
  BY <1>3 DEF PaFromRoom, PaFirst, PaWord, PaAlloc
<1>4. CASE PaFromDraw(d)
  BY <1>4 DEF PaFromDraw, PaFirst, PaWord, PaDraw
<1> QED BY <1>1, <1>2, <1>3, <1>4 DEF PaFromNothing

\* A call under way is at one of its places, by the word it is at.
LEMMA PaWhere ==
    ASSUME NEW m, NEW c, NEW d, PaPlace(m, c, d), d # <<>>, NEW w, w = Head(d).do
    PROVE  /\ w = "claim" => PaFromClaim(d)
           /\ w = "draw" => PaFromDraw(d)
           /\ w = "drop" => PaPlaceMem(m, d)
           /\ w = "ppa" => PaFrameIn(m, c) /\ PaByHand(d)
           /\ w = "clean" => PaFromClean(d) \/ PaPlaceHas(m, d)
           /\ w = "alloc" => PaFromRoom(d) \/ PaPlaceHas(m, d) \/ (PaFrameIn(m, c) /\ PaFromFrame(d))
           /\ w = "cpu" => PaPlaceHas(m, d) \/ (PaFrameSeen(m, c) /\ PaFromSeen(d))
           /\ w = "give" => PaPlaceHas(m, d) \/ PaPlaceMem(m, d) \/ (PaFrameSeen(m, c) /\ PaFromSeen(d))
           /\ w = "encode" => PaPlaceHas(m, d) \/ (PaFrameIn(m, c) /\ PaFromFrame(d))
<1>1. CASE PaFromNothing(d)
  <2>1. w \in {"claim", "clean", "alloc", "draw"}
    BY <1>1, PaNothingWord DEF PaWord
  <2>2. PaFromClaim(d) => w = "claim"
    BY DEF PaFromClaim, PaFirst, PaClaim
  <2>3. PaFromDraw(d) => w = "draw"
    BY DEF PaFromDraw, PaFirst, PaDraw
  <2>4. PaFromClean(d) => w = "clean"
    BY DEF PaFromClean, PaFirst, PaClean
  <2>5. PaFromRoom(d) => w = "alloc"
    BY DEF PaFromRoom, PaFirst, PaAlloc
  <2> QED BY <1>1, <2>1, <2>2, <2>3, <2>4, <2>5 DEF PaFromNothing
<1>2. CASE PaPlaceHas(m, d)
  <2>1. w \in {"encode", "give", "clean", "cpu", "alloc"}
    BY <1>2, PaHasWord DEF PaWord, PaPlaceHas
  <2> QED BY <1>2, <2>1
<1>3. CASE PaPlaceMem(m, d)
  <2>1. w \in {"give", "drop"}
    BY <1>3, PaMemWord DEF PaWord, PaPlaceMem
  <2> QED BY <1>3, <2>1
<1>4. CASE PaFrameIn(m, c) /\ PaFromFrame(d)
  <2>1. w \in {"encode", "ppa", "alloc"}
    BY <1>4, PaFrameWord DEF PaWord
  <2>2. w = "ppa" => PaByHand(d)
    BY <1>4 DEF PaFromFrame, PaLast, PaFirst, PaEncode, PaAlloc
  <2> QED BY <1>4, <2>1, <2>2
<1>5. CASE PaFrameSeen(m, c) /\ PaFromSeen(d)
  <2>1. w \in {"give", "cpu"}
    BY <1>5, PaSeenWord DEF PaWord
  <2> QED BY <1>5, <2>1
<1> QED BY <1>1, <1>2, <1>3, <1>4, <1>5 DEF PaPlace

\* From a buffer that has the picture there is something left to do, and it is right.
LEMMA PaAfterHas ==
    ASSUME NEW m, NEW c, NEW d, NEW v, v = PaNoView, NEW b \in PaOthers, NEW f \in PaForms,
           PaHas(m, b, <<1, f>>), PaFromHas(d, b, f)
    PROVE  PaAfter(m, c, d, v)
<1>1. d # <<>>
  BY PaHasWord DEF PaWord
<1>2. PaPlace(m, c, d)
  BY DEF PaPlace, PaPlaceHas
<1> QED BY <1>1, <1>2 DEF PaAfter

\* The same from memory.
LEMMA PaAfterMem ==
    ASSUME NEW m, NEW c, NEW d, NEW v, v = PaNoView, NEW b \in PaOthers, NEW f \in PaForms,
           PaInMem(m, b, <<1, f>>), PaFromMem(d, b, f)
    PROVE  PaAfter(m, c, d, v)
<1>1. d # <<>>
  BY PaMemWord DEF PaWord
<1>2. PaPlace(m, c, d)
  BY DEF PaPlace, PaPlaceMem
<1> QED BY <1>1, <1>2 DEF PaAfter

\* The buffers by name.
LEMMA PaNames ==
    /\ PaFrames \subseteq PaBufs /\ PaOthers \subseteq PaBufs /\ PaBufs = PaFrames \cup PaOthers
    /\ \A b \in PaOthers : b \notin PaFrames /\ b # "fb"
    /\ {"take", "yuy2", "tmp", "enc", "dst", "bytes"} = PaOthers
BY DEF PaFrames, PaOthers, PaBufs

\* A call that is at a step.
LEMMA PaUnderWay ==
    ASSUME PaShotInv, NEW w, PaDoes(w)
    PROVE  /\ paDo # <<>> /\ Head(paDo).do = w /\ paView = PaNoView /\ PaPlace(paBuf, paCam, paDo)
           /\ PaShaped(paBuf) /\ (\A b \in PaFrames : ~paBuf[b].dirty) /\ paCam \in PaCamera
BY DEF PaShotInv, PaDoes, PaStep, PaAfter, PaBase

\* What is given is there.
LEMMA PaGivesKeep ==
    ASSUME PaShotInv, PaGives
    PROVE  PaShotInv'
<1>1. PaDoes("give")
  BY DEF PaGives
<1>2. /\ paDo # <<>> /\ Head(paDo).do = "give" /\ PaPlace(paBuf, paCam, paDo) /\ PaBase(paBuf, paCam)
  BY <1>1, PaUnderWay DEF PaShotInv
<1>3. paBuf' = paBuf /\ paCam' = paCam
  BY DEF PaGives
<1>4. ASSUME NEW b, NEW f, PaLast(paDo, PaGive(b, f))
      PROVE  paDo' = <<>> /\ paView' = [b |-> PaAt(b), is |-> <<1, f>>]
  BY <1>4 DEF PaGives, PaGoesOn, PaLast, PaFirst, PaStep, PaGive
<1>5. ASSUME NEW b \in PaBufs, NEW f \in PaForms, PaHas(paBuf, b, <<1, f>>), b = "dst" => ~paBuf["dst"].dirty,
             b \in PaFrames => b = paCam.held, paDo' = <<>>, paView' = [b |-> b, is |-> <<1, f>>]
      PROVE  PaShotInv'
  <2>1. PaShown(paBuf, paCam, paView')
    BY <1>5 DEF PaShown
  <2> QED BY <1>2, <1>3, <1>5, <2>1 DEF PaShotInv, PaAfter
<1>6. CASE PaPlaceHas(paBuf, paDo)
  <2>1. PICK b \in PaOthers, f \in PaForms : PaHas(paBuf, b, <<1, f>>) /\ PaFromHas(paDo, b, f)
    BY <1>6 DEF PaPlaceHas
  <2>2. PaEnds(paDo, b, f)
    <3>1. ~PaMade(paDo, b, f) /\ ~PaConverts(paDo, b)
      BY <1>2, PaMadeWord, PaConvertsWord DEF PaWord
    <3>2. ~PaKeeping(paDo, b)
      BY <1>2 DEF PaKeeping, PaFirst, PaAlloc
    <3> QED BY <2>1, <3>1, <3>2 DEF PaFromHas
  <2>3. b # "dst" /\ PaLast(paDo, PaGive(b, f))
    BY <1>2, <2>2 DEF PaEnds, PaLast, PaFirst, PaEncode
  <2>4. b \in PaBufs /\ b \notin PaFrames /\ PaAt(b) = b
    BY PaNames DEF PaAt
  <2> QED BY <1>4, <1>5, <2>1, <2>3, <2>4
<1>7. CASE PaPlaceMem(paBuf, paDo)
  <2>1. PICK b \in PaOthers, f \in PaForms : PaInMem(paBuf, b, <<1, f>>) /\ PaFromMem(paDo, b, f)
    BY <1>7 DEF PaPlaceMem
  <2>2. PaLast(paDo, PaGive(b, f))
    BY <1>2, <2>1 DEF PaFromMem, PaFirst, PaDrop
  <2>3. b \in PaBufs /\ b \notin PaFrames /\ PaAt(b) = b
    BY PaNames DEF PaAt
  <2>4. PaHas(paBuf, b, <<1, f>>) /\ ~paBuf[b].dirty
    BY <2>1, PaMemHas DEF PaInMem
  <2> QED BY <1>4, <1>5, <2>2, <2>3, <2>4
<1>8. CASE PaFrameSeen(paBuf, paCam) /\ PaFromSeen(paDo)
  <2>1. PaLast(paDo, PaGive("fb", "rgb"))
    <3>1. ~PaConverts(paDo, "fb")
      BY <1>2, PaConvertsWord DEF PaWord
    <3> QED BY <1>2, <1>8, <3>1 DEF PaFromSeen, PaFirst, PaCopy, PaCpu
  <2>2. PICK b \in PaFrames : b = paCam.held /\ PaInMem(paBuf, b, <<1, "rgb">>)
    BY <1>8 DEF PaFrameSeen
  <2>3. b \in PaBufs /\ b # "dst" /\ PaAt("fb") = b
    BY <2>2, PaNames DEF PaAt, PaFrames
  <2>4. PaHas(paBuf, b, <<1, "rgb">>) /\ "rgb" \in PaForms
    BY <2>2, PaMemHas DEF PaForms
  <2> QED BY <1>4, <1>5, <2>1, <2>2, <2>3, <2>4
<1> QED BY <1>2, <1>6, <1>7, <1>8, PaWhere

\* The engine encodes what is in memory.
LEMMA PaEncodesKeep ==
    ASSUME PaShotInv, "engine" \notin PaFails, NEW hw \in BOOLEAN, PaEncodes(hw)
    PROVE  PaShotInv'
<1>1. PaDoes("encode") /\ hw = TRUE
  BY DEF PaEncodes
<1>2. /\ paDo # <<>> /\ Head(paDo).do = "encode" /\ PaPlace(paBuf, paCam, paDo) /\ PaBase(paBuf, paCam)
      /\ PaShaped(paBuf) /\ (\A a \in PaFrames : ~paBuf[a].dirty) /\ paCam \in PaCamera
  BY <1>1, PaUnderWay DEF PaShotInv
<1>3. ASSUME NEW a, NEW f, NEW b \in PaBufs, b = PaAt(a), PaLast(paDo, PaEncode(a, f)),
             NEW m, m = PaCleaned(paBuf, b), m[b].mem = <<1, f>>
      PROVE  PaShotInv'
  <2>1. paCam' = paCam /\ paDo' = <<>> /\ paView' = [b |-> "bytes", is |-> <<1, "jpeg">>]
    BY <1>3 DEF PaEncodes, PaGoesOn, PaLast
  <2>2. Head(paDo).from = a /\ Head(paDo).form = f
    BY <1>3 DEF PaLast, PaFirst, PaEncode
  <2>3. paBuf' = PaWrittenBy(m, "bytes", <<m[b].mem[1], IF m[b].mem[2] = f THEN "jpeg" ELSE "noise">>)
    BY <1>1, <1>3, <2>2 DEF PaEncodes, PaStep
  <2>4. paBuf' = PaWrittenBy(m, "bytes", <<1, "jpeg">>)
    BY <1>3, <2>3
  <2>5. PaShaped(m) /\ \A c \in PaFrames : ~m[c].dirty
    <3>1. PaShaped(m) /\ \A c \in PaBufs : ~paBuf[c].dirty => ~m[c].dirty
      BY <1>2, <1>3, PaCleanKeeps
    <3> QED BY <1>2, <1>3, <3>1, PaNames
  <2>6. PaOnly(m, paBuf', "bytes", m["bytes"].mem, <<1, "jpeg">>, TRUE)
    <3>1. "bytes" \in PaBufs
      BY DEF PaBufs
    <3> QED BY <2>4, <2>5, <3>1, PaWrittenByIs
  <2>7. PaShaped(paBuf') /\ PaHas(paBuf', "bytes", <<1, "jpeg">>)
    BY <2>6 DEF PaOnly, PaHas
  <2>8. \A c \in PaFrames : ~paBuf'[c].dirty
    <3>1. \A c \in PaFrames : c \in PaBufs \ {"bytes"}
      BY DEF PaFrames, PaBufs
    <3> QED BY <2>5, <2>6, <3>1 DEF PaOnly
  <2>9. PaShown(paBuf', paCam', paView')
    <3>1. "bytes" \in PaBufs /\ "bytes" \notin PaFrames /\ "jpeg" \in PaForms
      BY DEF PaBufs, PaFrames, PaForms
    <3> QED BY <2>1, <2>7, <3>1 DEF PaShown
  <2> QED BY <1>2, <2>1, <2>7, <2>8, <2>9 DEF PaShotInv, PaAfter, PaBase
<1>4. CASE PaPlaceHas(paBuf, paDo)
  <2>1. PICK b \in PaOthers, f \in PaForms : PaHas(paBuf, b, <<1, f>>) /\ PaFromHas(paDo, b, f)
    BY <1>4 DEF PaPlaceHas
  <2>2. PaEnds(paDo, b, f)
    <3>1. ~PaMade(paDo, b, f) /\ ~PaConverts(paDo, b)
      BY <1>2, PaMadeWord, PaConvertsWord DEF PaWord
    <3>2. ~PaKeeping(paDo, b)
      BY <1>2 DEF PaKeeping, PaFirst, PaAlloc
    <3> QED BY <2>1, <3>1, <3>2 DEF PaFromHas
  <2>3. PaLast(paDo, PaEncode(b, f))
    BY <1>2, <2>2 DEF PaEnds, PaLast, PaFirst, PaGive
  <2>4. b \in PaBufs /\ PaAt(b) = b
    BY PaNames DEF PaAt
  <2>5. PICK m : m = PaCleaned(paBuf, b)
    OBVIOUS
  <2>6. m[b].mem = <<1, f>>
    <3>1. PaInMem(m, b, <<1, f>>)
      BY <1>2, <2>1, <2>4, <2>5, PaCleanHas
    <3> QED BY <3>1 DEF PaInMem
  <2> QED BY <1>3, <2>3, <2>4, <2>5, <2>6
<1>5. CASE PaFrameIn(paBuf, paCam) /\ PaFromFrame(paDo)
  <2>1. PaLast(paDo, PaEncode("fb", "rgb"))
    <3>1. ~PaByHand(paDo)
      BY <1>2, PaHandWord DEF PaWord
    <3> QED BY <1>2, <1>5, <3>1 DEF PaFromFrame, PaFirst, PaAlloc
  <2>2. PICK b \in PaFrames : b = paCam.held /\ paBuf[b].mem = <<1, "rgb">>
    BY <1>5 DEF PaFrameIn
  <2>3. b \in PaBufs /\ PaAt("fb") = b
    BY <2>2, PaNames DEF PaAt
  <2>4. PICK m : m = PaCleaned(paBuf, b)
    OBVIOUS
  <2>5. m[b].mem = <<1, "rgb">>
    <3>1. m[b].mem = paBuf[b].mem
      BY <1>2, <2>2, <2>3, <2>4, PaCleanKeeps
    <3> QED BY <2>2, <3>1
  <2> QED BY <1>3, <2>1, <2>3, <2>4, <2>5
<1> QED BY <1>2, <1>4, <1>5, PaWhere

\* A line is written back or dropped, and what is left to do is right.
LEMMA PaMsyncKeeps ==
    ASSUME PaShotInv, PaMsync
    PROVE  PaShotInv'
<1>1. PICK w \in {"clean", "drop"} : PaDoes(w)
  BY DEF PaMsync
<1>2. /\ paDo # <<>> /\ Head(paDo).do = w /\ PaPlace(paBuf, paCam, paDo) /\ PaBase(paBuf, paCam)
      /\ PaShaped(paBuf) /\ (\A a \in PaFrames : ~paBuf[a].dirty) /\ paCam \in PaCamera
      /\ paView = PaNoView
  BY <1>1, PaUnderWay DEF PaShotInv
<1>3. /\ paCam' = paCam /\ paDo' = Tail(paDo) /\ paView' = PaNoView
      /\ paBuf' = IF w = "clean" THEN PaCleaned(paBuf, Head(paDo).b) ELSE PaDropped(paBuf, Head(paDo).b)
  BY <1>2 DEF PaMsync, PaGoesOn, PaStep
<1>4. ASSUME NEW b \in PaOthers, PaFirst(paDo, PaClean(b))
      PROVE  paBuf' = PaCleaned(paBuf, b) /\ PaBase(paBuf', paCam')
  <2>1. paBuf' = PaCleaned(paBuf, b)
    BY <1>2, <1>3, <1>4 DEF PaFirst, PaClean
  <2>2. PaShaped(paBuf') /\ \A c \in PaBufs : ~paBuf[c].dirty => ~paBuf'[c].dirty
    BY <1>2, <2>1, PaNames, PaCleanKeeps
  <2> QED BY <1>2, <1>3, <2>1, <2>2, PaNames DEF PaBase
<1>5. ASSUME NEW b \in PaOthers, PaFirst(paDo, PaDrop(b))
      PROVE  paBuf' = PaDropped(paBuf, b) /\ PaBase(paBuf', paCam')
  <2>1. paBuf' = PaDropped(paBuf, b)
    BY <1>2, <1>3, <1>5 DEF PaFirst, PaDrop
  <2>2. PaShaped(paBuf') /\ \A c \in PaBufs : ~paBuf[c].dirty => ~paBuf'[c].dirty
    BY <1>2, <2>1, PaNames, PaDropKeeps
  <2> QED BY <1>2, <1>3, <2>1, <2>2, PaNames DEF PaBase
<1>6. CASE w = "clean" /\ PaFromClean(paDo)
  <2>1. PaFirst(paDo, PaClean("take")) /\ PaFromClaim(paDo')
    BY <1>3, <1>6 DEF PaFromClean
  <2>2. PaBase(paBuf', paCam')
    BY <1>4, <2>1, PaNames
  <2>3. paDo' # <<>> /\ PaPlace(paBuf', paCam', paDo')
    BY <2>1 DEF PaPlace, PaFromNothing, PaFromClaim, PaFirst
  <2> QED BY <1>3, <2>2, <2>3 DEF PaShotInv, PaAfter
<1>7. CASE w = "clean" /\ PaPlaceHas(paBuf, paDo)
  <2>1. PICK b \in PaOthers, f \in PaForms : PaHas(paBuf, b, <<1, f>>) /\ PaFromHas(paDo, b, f)
    BY <1>7 DEF PaPlaceHas
  <2>2. PaMade(paDo, b, f)
    <3>1. ~PaEnds(paDo, b, f) /\ ~PaConverts(paDo, b)
      BY <1>2, <1>7, PaEndsWord, PaConvertsWord DEF PaWord
    <3>2. ~PaKeeping(paDo, b)
      BY <1>2, <1>7 DEF PaKeeping, PaFirst, PaAlloc
    <3> QED BY <2>1, <3>1, <3>2 DEF PaFromHas
  <2>3. PaFirst(paDo, PaClean(b)) /\ PaEnds(paDo', b, f)
    BY <1>2, <1>3, <1>7, <2>2 DEF PaMade, PaFirst, PaCopy, PaCpu
  <2>4. paBuf' = PaCleaned(paBuf, b) /\ PaBase(paBuf', paCam')
    BY <1>4, <2>3
  <2>5. PaHas(paBuf', b, <<1, f>>)
    BY <1>2, <2>1, <2>4, PaNames, PaCleanHas
  <2>6. PaFromHas(paDo', b, f)
    BY <2>3 DEF PaFromHas
  <2>7. PaAfter(paBuf', paCam', paDo', paView')
    BY <1>3, <2>5, <2>6, PaAfterHas
  <2> QED BY <2>4, <2>7 DEF PaShotInv
<1>8. CASE w = "drop"
  <2>1. PICK b \in PaOthers, f \in PaForms : PaInMem(paBuf, b, <<1, f>>) /\ PaFromMem(paDo, b, f)
    BY <1>2, <1>8, PaWhere DEF PaPlaceMem
  <2>2. PaFirst(paDo, PaDrop(b)) /\ (PaEnds(paDo', b, f) \/ PaConverts(paDo', b))
    BY <1>2, <1>3, <1>8, <2>1 DEF PaFromMem, PaLast, PaFirst, PaGive
  <2>3. paBuf' = PaDropped(paBuf, b) /\ PaBase(paBuf', paCam')
    BY <1>5, <2>2
  <2>4. PaInMem(paBuf', b, <<1, f>>)
    BY <1>2, <2>1, <2>3, PaNames, PaDropHas
  <2>5. PaHas(paBuf', b, <<1, f>>) /\ PaFromHas(paDo', b, f)
    BY <2>2, <2>4, PaMemHas DEF PaFromHas
  <2>6. PaAfter(paBuf', paCam', paDo', paView')
    BY <1>3, <2>5, PaAfterHas
  <2> QED BY <2>3, <2>6 DEF PaShotInv
<1> QED BY <1>2, <1>6, <1>7, <1>8, PaWhere

\* The PPA does what it is told to the frame.
LEMMA PaPpaKeeps ==
    ASSUME PaShotInv, "out" \in PaSyncs, PaPpaWorks
    PROVE  PaShotInv'
<1>1. PaDoes("ppa")
  BY DEF PaPpaWorks
<1>2. /\ paDo # <<>> /\ Head(paDo).do = "ppa" /\ PaPlace(paBuf, paCam, paDo)
      /\ PaShaped(paBuf) /\ (\A a \in PaFrames : ~paBuf[a].dirty) /\ paCam \in PaCamera
      /\ paView = PaNoView
  BY <1>1, PaUnderWay
<1>3. PaFrameIn(paBuf, paCam) /\ PaByHand(paDo)
  BY <1>2, PaWhere
<1>4. PICK b \in PaFrames : b = paCam.held /\ paBuf[b].mem = <<1, "rgb">>
  BY <1>3 DEF PaFrameIn
<1>5. PICK to \in PaOthers, f \in PaForms :
          PaFirst(paDo, PaPpa("fb", to, f)) /\ (PaFromMem(Tail(paDo), to, f) \/ PaFromHas(Tail(paDo), to, f))
  BY <1>3 DEF PaByHand
<1>6. /\ paCam' = paCam /\ paDo' = Tail(paDo) /\ paView' = PaNoView
      /\ paBuf' = PaByPpa(paBuf, b, to, f)
  BY <1>2, <1>4, <1>5 DEF PaPpaWorks, PaGoesOn, PaStep, PaFirst, PaPpa, PaAt
<1>7. PaShaped(paBuf') /\ PaInMem(paBuf', to, <<1, f>>) /\ \A a \in PaFrames : ~paBuf'[a].dirty
  <2>1. PICK m : m = paBuf
    OBVIOUS
  <2>2. PICK n : n = paBuf'
    OBVIOUS
  <2>3. /\ PaShaped(m) /\ ~m[b].dirty /\ m[b].mem = <<1, "rgb">> /\ n = PaByPpa(m, b, to, f)
        /\ \A a \in PaFrames : ~m[a].dirty
    BY <1>2, <1>4, <1>6, <2>1, <2>2
  <2>4. /\ PaShaped(n) /\ PaInMem(n, to, <<1, f>>) /\ \A a \in PaFrames : ~m[a].dirty => ~n[a].dirty
    BY <2>3, PaByPpaHas
  <2> QED BY <2>2, <2>3, <2>4
<1>8. PaHas(paBuf', to, <<1, f>>)
  BY <1>7, PaMemHas
<1>9. PaAfter(paBuf', paCam', paDo', paView')
  BY <1>5, <1>6, <1>7, <1>8, PaAfterHas, PaAfterMem
<1> QED BY <1>2, <1>6, <1>7, <1>9 DEF PaShotInv, PaBase

\* The CPU makes of a picture it sees another, or copies it.
LEMMA PaCpuKeeps ==
    ASSUME PaShotInv, PaCpuWorks
    PROVE  PaShotInv'
<1>1. PaDoes("cpu")
  BY DEF PaCpuWorks
<1>2. /\ paDo # <<>> /\ Head(paDo).do = "cpu" /\ PaPlace(paBuf, paCam, paDo)
      /\ PaShaped(paBuf) /\ (\A a \in PaFrames : ~paBuf[a].dirty) /\ paCam \in PaCamera
      /\ paView = PaNoView
  BY <1>1, PaUnderWay
<1>3. paCam' = paCam /\ paDo' = Tail(paDo) /\ paView' = PaNoView
  BY <1>2 DEF PaCpuWorks, PaGoesOn
<1>4. ASSUME NEW a, NEW from \in PaBufs, from = PaAt(a), NEW f, PaHas(paBuf, from, <<1, f>>),
             NEW to \in PaOthers, NEW g, PaFirst(paDo, PaCpu(a, to, g)), NEW h, h = IF g = PaNone THEN f ELSE g
      PROVE  PaBase(paBuf', paCam') /\ PaHas(paBuf', to, <<1, h>>)
  <2>1. Head(paDo).from = a /\ Head(paDo).to = to /\ Head(paDo).form = g
    BY <1>4 DEF PaFirst, PaCpu
  <2>2. PaSees(from) = <<1, f>>
    BY <1>4, PaSeen
  <2>3. paBuf' = PaWrittenBy(PaReadBy(paBuf, from), to,
                     <<PaSees(from)[1], IF g = PaNone THEN PaSees(from)[2] ELSE g>>)
    BY <1>4, <2>1 DEF PaCpuWorks, PaStep
  <2>4. paBuf' = PaWrittenBy(PaReadBy(paBuf, from), to, <<1, h>>)
    BY <1>4, <2>2, <2>3
  <2>5. PaShaped(paBuf') /\ PaHas(paBuf', to, <<1, h>>) /\ \A c \in PaFrames : paBuf'[c].dirty = paBuf[c].dirty
    BY <1>2, <2>4, PaCpuHas
  <2> QED BY <1>2, <1>3, <2>5 DEF PaBase
<1>5. ASSUME NEW a, NEW from \in PaBufs, from = PaAt(a), NEW f, PaHas(paBuf, from, <<1, f>>), PaConverts(paDo, a)
      PROVE  PaShotInv'
  <2>1. PICK to \in PaOthers, g \in PaForms :
            PaFirst(paDo, PaCpu(a, to, g)) /\ (PaEnds(Tail(paDo), to, g) \/ PaMade(Tail(paDo), to, g))
    BY <1>5 DEF PaConverts
  <2>2. g # PaNone
    BY DEF PaForms, PaNone
  <2>3. PaBase(paBuf', paCam') /\ PaHas(paBuf', to, <<1, g>>)
    BY <1>4, <1>5, <2>1, <2>2
  <2>4. PaFromHas(paDo', to, g)
    BY <1>3, <2>1 DEF PaFromHas
  <2>5. PaAfter(paBuf', paCam', paDo', paView')
    BY <1>3, <2>3, <2>4, PaAfterHas
  <2> QED BY <2>3, <2>5 DEF PaShotInv
<1>6. ASSUME NEW a, NEW from \in PaBufs, from = PaAt(a), NEW f \in PaForms, PaHas(paBuf, from, <<1, f>>),
             PaFirst(paDo, PaCopy(a, "bytes")), PaLast(Tail(paDo), PaGive("bytes", f))
      PROVE  PaShotInv'
  <2>1. "bytes" \in PaOthers /\ "bytes" # "dst"
    BY PaNames
  <2>2. PaBase(paBuf', paCam') /\ PaHas(paBuf', "bytes", <<1, f>>)
    <3>1. PaFirst(paDo, PaCpu(a, "bytes", PaNone))
      BY <1>6 DEF PaCopy
    <3> QED BY <1>4, <1>6, <2>1, <3>1
  <2>3. PaFromHas(paDo', "bytes", f)
    BY <1>3, <1>6, <2>1 DEF PaFromHas, PaEnds
  <2>4. PaAfter(paBuf', paCam', paDo', paView')
    BY <1>3, <2>1, <2>2, <2>3, PaAfterHas
  <2> QED BY <2>2, <2>4 DEF PaShotInv
<1>7. CASE PaPlaceHas(paBuf, paDo)
  <2>1. PICK b \in PaOthers, f \in PaForms : PaHas(paBuf, b, <<1, f>>) /\ PaFromHas(paDo, b, f)
    BY <1>7 DEF PaPlaceHas
  <2>2. b \in PaBufs /\ PaAt(b) = b
    BY PaNames DEF PaAt
  <2>3. PaMade(paDo, b, f) \/ PaConverts(paDo, b)
    <3>1. ~PaEnds(paDo, b, f)
      BY <1>2, PaEndsWord DEF PaWord
    <3>2. ~PaKeeping(paDo, b)
      BY <1>2 DEF PaKeeping, PaFirst, PaAlloc
    <3> QED BY <2>1, <3>1, <3>2 DEF PaFromHas
  <2>4. CASE PaConverts(paDo, b)
    BY <1>5, <2>1, <2>2, <2>4
  <2>5. CASE PaMade(paDo, b, f)
    <3>1. PaFirst(paDo, PaCopy(b, "bytes")) /\ PaLast(Tail(paDo), PaGive("bytes", f))
      BY <1>2, <2>5 DEF PaMade, PaFirst, PaClean
    <3> QED BY <1>6, <2>1, <2>2, <3>1
  <2> QED BY <2>3, <2>4, <2>5
<1>8. CASE PaFrameSeen(paBuf, paCam) /\ PaFromSeen(paDo)
  <2>1. PICK b \in PaFrames : b = paCam.held /\ PaInMem(paBuf, b, <<1, "rgb">>)
    BY <1>8 DEF PaFrameSeen
  <2>2. b \in PaBufs /\ PaAt("fb") = b /\ PaHas(paBuf, b, <<1, "rgb">>) /\ "rgb" \in PaForms
    BY <2>1, PaNames, PaMemHas DEF PaAt, PaForms
  <2>3. CASE PaConverts(paDo, "fb")
    BY <1>5, <2>2, <2>3
  <2>4. CASE ~PaConverts(paDo, "fb")
    <3>1. PaFirst(paDo, PaCopy("fb", "bytes")) /\ PaLast(Tail(paDo), PaGive("bytes", "rgb"))
      BY <1>2, <1>8, <2>4 DEF PaFromSeen, PaLast, PaFirst, PaGive
    <3> QED BY <1>6, <2>2, <3>1
  <2> QED BY <2>3, <2>4
<1> QED BY <1>2, <1>7, <1>8, PaWhere

\* A buffer is allocated and zeroed, before a frame is claimed, beside one, or beside a
\* picture that is not in it.
LEMMA PaAllocatesKeep ==
    ASSUME PaShotInv, PaAllocates
    PROVE  PaShotInv'
<1>1. PaDoes("alloc")
  BY DEF PaAllocates
<1>2. /\ paDo # <<>> /\ Head(paDo).do = "alloc" /\ PaPlace(paBuf, paCam, paDo)
      /\ PaShaped(paBuf) /\ (\A a \in PaFrames : ~paBuf[a].dirty) /\ paCam \in PaCamera
      /\ paView = PaNoView
  BY <1>1, PaUnderWay
<1>3. paCam' = paCam /\ paDo' = Tail(paDo) /\ paView' = PaNoView
  BY <1>2 DEF PaAllocates, PaGoesOn
<1>4. ASSUME NEW b \in PaOthers, NEW n, PaFirst(paDo, PaAlloc(b, n))
      PROVE  /\ PaBase(paBuf', paCam') /\ \A a \in PaFrames : paBuf'[a] = paBuf[a]
             /\ \A a \in PaBufs \ {b} : paBuf'[a] = paBuf[a]
  <2>1. Head(paDo).b = b
    BY <1>4 DEF PaFirst, PaAlloc
  <2>2. paBuf' = [paBuf EXCEPT ![b] = [mem |-> PaBlank, line |-> PaBlank, dirty |-> TRUE]]
    BY <2>1 DEF PaAllocates, PaStep
  <2>3. PaOnly(paBuf, paBuf', b, PaBlank, PaBlank, TRUE)
    BY <1>2, <2>2, PaNames, PaZeroedIs
  <2>4. PaShaped(paBuf') /\ \A a \in PaBufs \ {b} : paBuf'[a] = paBuf[a]
    BY <2>3 DEF PaOnly
  <2>5. \A a \in PaFrames : a \in PaBufs \ {b}
    BY PaNames
  <2> QED BY <1>2, <1>3, <2>4, <2>5 DEF PaBase
<1>5. CASE PaFromRoom(paDo)
  <2>1. PICK b \in {"take", "yuy2"}, n \in Nat :
            PaFirst(paDo, PaAlloc(b, n)) /\ (PaFromClaim(paDo') \/ PaFromClean(paDo'))
    BY <1>3, <1>5 DEF PaFromRoom
  <2>2. b \in PaOthers
    BY PaNames
  <2>3. PaBase(paBuf', paCam')
    BY <1>4, <2>1, <2>2
  <2>4. paDo' # <<>> /\ PaPlace(paBuf', paCam', paDo')
    BY <2>1 DEF PaPlace, PaFromNothing, PaFromClaim, PaFromClean, PaFirst
  <2> QED BY <1>3, <2>3, <2>4 DEF PaShotInv, PaAfter
<1>6. CASE PaPlaceHas(paBuf, paDo)
  <2>1. PICK b \in PaOthers, f \in PaForms : PaHas(paBuf, b, <<1, f>>) /\ PaFromHas(paDo, b, f)
    BY <1>6 DEF PaPlaceHas
  <2>2. PaKeeping(paDo, b)
    <3>1. ~PaEnds(paDo, b, f) /\ ~PaMade(paDo, b, f) /\ ~PaConverts(paDo, b)
      BY <1>2, PaEndsWord, PaMadeWord, PaConvertsWord DEF PaWord
    <3> QED BY <2>1, <3>1 DEF PaFromHas
  <2>3. PICK n \in Nat : PaFirst(paDo, PaAlloc("enc", n)) /\ PaConverts(paDo', b)
    BY <1>3, <2>2 DEF PaKeeping
  <2>4. b = "dst" /\ "enc" \in PaOthers /\ b \in PaBufs \ {"enc"}
    BY <2>2, PaNames DEF PaKeeping
  <2>5. PaBase(paBuf', paCam') /\ paBuf'[b] = paBuf[b]
    BY <1>4, <2>3, <2>4
  <2>6. PaHas(paBuf', b, <<1, f>>) /\ PaFromHas(paDo', b, f)
    BY <2>1, <2>3, <2>5 DEF PaHas, PaFromHas
  <2>7. PaAfter(paBuf', paCam', paDo', paView')
    BY <1>3, <2>6, PaAfterHas
  <2> QED BY <2>5, <2>7 DEF PaShotInv
<1>7. CASE PaFrameIn(paBuf, paCam) /\ PaFromFrame(paDo)
  <2>1. PICK n \in Nat : PaFirst(paDo, PaAlloc("tmp", n)) /\ PaByHand(paDo')
    <3>1. ~PaByHand(paDo)
      BY <1>2, PaHandWord DEF PaWord
    <3> QED BY <1>2, <1>3, <1>7, <3>1 DEF PaFromFrame, PaLast, PaFirst, PaEncode
  <2>2. PaBase(paBuf', paCam') /\ \A a \in PaFrames : paBuf'[a] = paBuf[a]
    BY <1>4, <2>1, PaNames
  <2>3. PaFrameIn(paBuf', paCam')
    BY <1>3, <1>7, <2>2 DEF PaFrameIn
  <2>4. paDo' # <<>>
    BY <2>1, PaHandWord DEF PaWord
  <2>5. PaPlace(paBuf', paCam', paDo')
    BY <2>1, <2>3 DEF PaPlace, PaFromFrame
  <2> QED BY <1>3, <2>2, <2>4, <2>5 DEF PaShotInv, PaAfter
<1> QED BY <1>2, <1>5, <1>6, <1>7, PaWhere

\* There is no memory: the call raises, or the CPU encodes what was drawn.
LEMMA PaAllocFailsKeeps ==
    ASSUME PaShotInv, "ppa" \notin PaFails, PaAllocFails
    PROVE  PaShotInv'
<1>1. PaDoes("alloc")
  BY DEF PaAllocFails
<1>2. /\ paDo # <<>> /\ Head(paDo).do = "alloc" /\ PaPlace(paBuf, paCam, paDo) /\ PaBase(paBuf, paCam)
      /\ paView = PaNoView
  BY <1>1, PaUnderWay DEF PaShotInv
<1>3. paCam' = paCam /\ paBuf' = paBuf /\ paView' = PaNoView /\ Head(paDo).b # "tmp"
  BY <1>2 DEF PaAllocFails, PaStep
<1>4. /\ Head(paDo).b = "enc" => paDo' = <<PaCpu("dst", "bytes", "jpeg"), PaGive("bytes", "jpeg")>>
      /\ Head(paDo).b # "enc" => paDo' = <<>>
  BY <1>3 DEF PaAllocFails, PaStep
<1>5. CASE PaFromRoom(paDo)
  <2>1. PICK b \in {"take", "yuy2"} : Head(paDo).b = b
    BY <1>5 DEF PaFromRoom, PaFirst, PaAlloc
  <2>2. paDo' = <<>>
    BY <1>4, <2>1
  <2> QED BY <1>2, <1>3, <2>2 DEF PaShotInv, PaAfter, PaShown
<1>6. CASE PaPlaceHas(paBuf, paDo)
  <2>1. PICK b \in PaOthers, f \in PaForms : PaHas(paBuf, b, <<1, f>>) /\ PaFromHas(paDo, b, f)
    BY <1>6 DEF PaPlaceHas
  <2>2. PaKeeping(paDo, b)
    <3>1. ~PaEnds(paDo, b, f) /\ ~PaMade(paDo, b, f) /\ ~PaConverts(paDo, b)
      BY <1>2, PaEndsWord, PaMadeWord, PaConvertsWord DEF PaWord
    <3> QED BY <2>1, <3>1 DEF PaFromHas
  <2>3. b = "dst" /\ Head(paDo).b = "enc"
    BY <2>2 DEF PaKeeping, PaFirst, PaAlloc
  <2>4. PICK x : x = PaCpu("dst", "bytes", "jpeg")
    OBVIOUS
  <2>5. PICK y : y = PaGive("bytes", "jpeg")
    OBVIOUS
  <2>6. paDo' = <<x, y>>
    BY <1>4, <2>3, <2>4, <2>5
  <2>7. paDo' # <<>> /\ Head(paDo') = x /\ Tail(paDo') # <<>> /\ Head(Tail(paDo')) = y /\ Tail(Tail(paDo')) = <<>>
    BY <2>6
  <2>8. PaEnds(Tail(paDo'), "bytes", "jpeg")
    BY <2>5, <2>7 DEF PaEnds, PaLast, PaFirst
  <2>9. "bytes" \in PaOthers /\ "jpeg" \in PaForms
    BY PaNames DEF PaForms
  <2>10. PaConverts(paDo', "dst")
    BY <2>4, <2>7, <2>8, <2>9 DEF PaConverts, PaFirst
  <2>11. PaAfter(paBuf', paCam', paDo', paView')
    BY <1>3, <2>1, <2>3, <2>10, PaAfterHas DEF PaFromHas
  <2> QED BY <1>2, <1>3, <2>11 DEF PaShotInv
<1>7. CASE PaFrameIn(paBuf, paCam) /\ PaFromFrame(paDo)
  <2>1. ~PaByHand(paDo)
    BY <1>2, PaHandWord DEF PaWord
  <2>2. Head(paDo).b = "tmp"
    BY <1>2, <1>7, <2>1 DEF PaFromFrame, PaLast, PaFirst, PaEncode, PaAlloc
  <2> QED BY <1>3, <2>2
<1> QED BY <1>2, <1>5, <1>6, <1>7, PaWhere

\* The program draws a picture, and older frames' are older.
LEMMA PaDrawsKeep ==
    ASSUME PaShotInv, PaDraws
    PROVE  PaShotInv'
<1>1. PaDoes("draw")
  BY DEF PaDraws
<1>2. /\ paDo # <<>> /\ Head(paDo).do = "draw" /\ PaPlace(paBuf, paCam, paDo)
      /\ PaShaped(paBuf) /\ (\A a \in PaFrames : ~paBuf[a].dirty) /\ paCam \in PaCamera
      /\ paView = PaNoView
  BY <1>1, PaUnderWay
<1>3. PaFirst(paDo, PaDraw("dst")) /\ PaFromHas(Tail(paDo), "dst", "rgb")
  BY <1>2, PaWhere DEF PaFromDraw
<1>4. PICK m : m = PaAged(paBuf)
  OBVIOUS
<1>5. /\ paCam' = paCam /\ paDo' = Tail(paDo) /\ paView' = PaNoView
      /\ paBuf' = PaWrittenBy(m, "dst", <<1, "rgb">>)
  BY <1>2, <1>3, <1>4 DEF PaDraws, PaGoesOn, PaStep, PaFirst, PaDraw
<1>6. PaShaped(m) /\ \A b \in PaBufs : m[b].dirty = paBuf[b].dirty
  BY <1>2, <1>4, PaAgedIs
<1>7. "dst" \in PaOthers /\ "dst" \in PaBufs /\ "rgb" \in PaForms
  BY PaNames DEF PaForms
<1>8. PaOnly(m, paBuf', "dst", m["dst"].mem, <<1, "rgb">>, TRUE)
  BY <1>5, <1>6, <1>7, PaWrittenByIs
<1>9. PaShaped(paBuf') /\ PaHas(paBuf', "dst", <<1, "rgb">>) /\ \A b \in PaBufs \ {"dst"} : paBuf'[b] = m[b]
  BY <1>8 DEF PaOnly, PaHas
<1>10. \A b \in PaFrames : ~paBuf'[b].dirty
  <2>1. \A b \in PaFrames : b \in PaBufs \ {"dst"}
    BY <1>7, PaNames
  <2> QED BY <1>2, <1>6, <1>9, <2>1
<1>11. PaAfter(paBuf', paCam', paDo', paView')
  BY <1>3, <1>5, <1>7, <1>9, PaAfterHas
<1> QED BY <1>2, <1>5, <1>9, <1>10, <1>11 DEF PaShotInv, PaBase

\* A call claims the newest frame, and its lines are dropped if the CPU is to read it.
LEMMA PaClaimsKeep ==
    ASSUME PaShotInv, PaClaims
    PROVE  PaShotInv'
<1>1. PaDoes("claim")
  BY DEF PaClaims
<1>2. /\ paDo # <<>> /\ Head(paDo).do = "claim" /\ PaPlace(paBuf, paCam, paDo)
      /\ PaShaped(paBuf) /\ (\A a \in PaFrames : ~paBuf[a].dirty) /\ paCam \in PaCamera
      /\ paView = PaNoView
  BY <1>1, PaUnderWay
<1>3. PICK sync \in BOOLEAN : /\ PaFirst(paDo, PaClaim(sync))
                              /\ \/ Tail(paDo) = <<>>
                                 \/ PaFromFrame(Tail(paDo))
                                 \/ sync = TRUE /\ PaFromSeen(Tail(paDo))
  BY <1>2, PaWhere DEF PaFromClaim
<1>4. PICK m : m = PaAged(paBuf)
  OBVIOUS
<1>5. PICK b \in PaFrames : b = paCam.done
  BY <1>2 DEF PaCamera
<1>6. PICK n : n = [m EXCEPT ![b].mem = <<1, "rgb">>]
  OBVIOUS
<1>7. /\ paDo' = Tail(paDo) /\ paView' = PaNoView /\ paCam' = [paCam EXCEPT !.ready = FALSE, !.held = b]
      /\ paBuf' = IF sync THEN PaDropped(n, b) ELSE n
  <2>1. Head(paDo).sync = sync
    BY <1>3 DEF PaFirst, PaClaim
  <2> QED BY <1>2, <1>4, <1>5, <1>6, <2>1 DEF PaClaims, PaGoesOn, PaStep
<1>8. PaShaped(m) /\ \A a \in PaBufs : m[a].dirty = paBuf[a].dirty
  BY <1>2, <1>4, PaAgedIs
<1>9. b \in PaBufs
  BY PaNames
<1>10. PaOnly(m, n, b, <<1, "rgb">>, m[b].line, m[b].dirty)
  BY <1>6, <1>8, <1>9, PaMemIs
<1>11. PaShaped(n) /\ n[b].mem = <<1, "rgb">> /\ \A a \in PaFrames : ~n[a].dirty
  <2>1. PaShaped(n) /\ n[b].mem = <<1, "rgb">> /\ n[b].dirty = m[b].dirty /\ \A a \in PaBufs \ {b} : n[a] = m[a]
    BY <1>10 DEF PaOnly
  <2> QED BY <1>2, <1>8, <1>9, <2>1, PaNames
<1>12. paCam' \in PaCamera /\ paCam'.held = b
  BY <1>2, <1>7 DEF PaCamera
<1>13. /\ PaShaped(paBuf') /\ paBuf'[b].mem = <<1, "rgb">> /\ \A a \in PaFrames : ~paBuf'[a].dirty
       /\ sync => paBuf'[b].line = <<>>
  <2>1. CASE sync
    <3>1. PaShaped(paBuf') /\ \A a \in PaBufs : paBuf'[a].mem = n[a].mem /\ (~n[a].dirty => ~paBuf'[a].dirty)
      BY <1>7, <1>9, <1>11, <2>1, PaDropKeeps
    <3>2. PaOnly(n, paBuf', b, n[b].mem, <<>>, FALSE)
      BY <1>7, <1>9, <1>11, <2>1, PaDroppedIs
    <3>3. paBuf'[b].line = <<>>
      BY <3>2 DEF PaOnly
    <3> QED BY <1>9, <1>11, <3>1, <3>3, PaNames
  <2>2. CASE ~sync
    BY <1>7, <1>11, <2>2
  <2> QED BY <2>1, <2>2
<1>14. PaBase(paBuf', paCam') /\ PaFrameIn(paBuf', paCam') /\ (sync => PaFrameSeen(paBuf', paCam'))
  BY <1>12, <1>13 DEF PaBase, PaFrameIn, PaFrameSeen, PaInMem
<1>15. CASE Tail(paDo) = <<>>
  BY <1>7, <1>14, <1>15 DEF PaShotInv, PaAfter, PaShown
<1>16. CASE Tail(paDo) # <<>>
  <2>1. PaPlace(paBuf', paCam', paDo')
    BY <1>3, <1>7, <1>14, <1>16 DEF PaPlace
  <2> QED BY <1>7, <1>14, <1>16, <2>1 DEF PaShotInv, PaAfter
<1> QED BY <1>15, <1>16

\* No frame comes in time.
LEMMA PaTimesOutKeeps ==
    ASSUME PaShotInv, PaTimesOut
    PROVE  PaShotInv'
<1>1. PaDoes("claim")
  BY DEF PaTimesOut
<1>2. /\ PaShaped(paBuf) /\ (\A a \in PaFrames : ~paBuf[a].dirty) /\ paCam \in PaCamera
      /\ paView = PaNoView
  BY <1>1, PaUnderWay
<1>3. paBuf' = paBuf /\ paDo' = <<>> /\ paView' = PaNoView /\ paCam' = [paCam EXCEPT !.ready = FALSE, !.held = PaNone]
  BY <1>2 DEF PaTimesOut
<1>4. paCam' \in PaCamera
  BY <1>2, <1>3 DEF PaCamera
<1> QED BY <1>2, <1>3, <1>4 DEF PaShotInv, PaBase, PaAfter, PaShown

\* What a call is at stays right when the cache and the sensor do nothing to what it needs.
LEMMA PaPlaceStays ==
    ASSUME NEW m, NEW n, NEW c, NEW e, NEW d, PaPlace(m, c, d),
           \A b \in PaOthers, f \in PaForms : /\ PaHas(m, b, <<1, f>>) => PaHas(n, b, <<1, f>>)
                                              /\ PaInMem(m, b, <<1, f>>) => PaInMem(n, b, <<1, f>>),
           ~PaFromClaim(d) => /\ PaFrameIn(m, c) => PaFrameIn(n, e)
                              /\ PaFrameSeen(m, c) => PaFrameSeen(n, e)
    PROVE  PaPlace(n, e, d)
<1>1. CASE PaFromNothing(d)
  BY <1>1 DEF PaPlace
<1>2. CASE PaPlaceHas(m, d)
  BY <1>2 DEF PaPlace, PaPlaceHas
<1>3. CASE PaPlaceMem(m, d)
  BY <1>3 DEF PaPlace, PaPlaceMem
<1>4. CASE PaFrameIn(m, c) /\ PaFromFrame(d)
  <2>1. ~PaFromClaim(d)
    BY <1>4, PaFrameWord DEF PaWord, PaFromClaim, PaFirst, PaClaim
  <2> QED BY <1>4, <2>1 DEF PaPlace
<1>5. CASE PaFrameSeen(m, c) /\ PaFromSeen(d)
  <2>1. ~PaFromClaim(d)
    BY <1>5, PaSeenWord DEF PaWord, PaFromClaim, PaFirst, PaClaim
  <2> QED BY <1>5, <2>1 DEF PaPlace
<1> QED BY <1>1, <1>2, <1>3, <1>4, <1>5 DEF PaPlace

\* A line leaves the cache.
LEMMA PaEvictKeeps ==
    ASSUME PaShotInv, NEW b \in PaBufs, PaEvict(b)
    PROVE  PaShotInv'
<1>1. /\ PaShaped(paBuf) /\ (\A a \in PaFrames : ~paBuf[a].dirty) /\ paCam \in PaCamera
      /\ PaAfter(paBuf, paCam, paDo, paView)
  BY DEF PaShotInv, PaBase
<1>2. PICK m : m = PaCleaned(paBuf, b)
  OBVIOUS
<1>3. paBuf' = PaDropped(m, b) /\ paCam' = paCam /\ paDo' = paDo /\ paView' = paView
  BY <1>2 DEF PaEvict
<1>4. PaShaped(m)
  BY <1>1, <1>2, PaCleanKeeps
<1>5. ASSUME NEW a \in PaBufs, NEW f
      PROVE  /\ PaShaped(paBuf')
             /\ ~paBuf[a].dirty => ~paBuf'[a].dirty /\ paBuf'[a].mem = paBuf[a].mem
             /\ PaHas(paBuf, a, <<1, f>>) => PaHas(paBuf', a, <<1, f>>)
             /\ PaInMem(paBuf, a, <<1, f>>) => PaInMem(paBuf', a, <<1, f>>)
  <2>1. /\ ~paBuf[a].dirty => ~m[a].dirty /\ m[a].mem = paBuf[a].mem
        /\ PaHas(paBuf, a, <<1, f>>) => PaHas(m, a, <<1, f>>)
        /\ PaHas(paBuf, b, <<1, f>>) => PaInMem(m, b, <<1, f>>)
        /\ PaInMem(paBuf, a, <<1, f>>) => PaInMem(m, a, <<1, f>>)
    <3>1. ~paBuf[a].dirty => ~m[a].dirty /\ m[a].mem = paBuf[a].mem
      BY <1>1, <1>2, PaCleanKeeps
    <3>2. /\ PaHas(paBuf, a, <<1, f>>) => PaHas(m, a, <<1, f>>)
          /\ PaHas(paBuf, b, <<1, f>>) => PaInMem(m, b, <<1, f>>)
          /\ PaInMem(paBuf, a, <<1, f>>) => PaInMem(m, a, <<1, f>>)
      BY <1>1, <1>2, PaCleanHas
    <3> QED BY <3>1, <3>2
  <2>2. /\ PaShaped(paBuf') /\ paBuf'[a].mem = m[a].mem
        /\ ~m[a].dirty => ~paBuf'[a].dirty
        /\ a # b /\ PaHas(m, a, <<1, f>>) => PaHas(paBuf', a, <<1, f>>)
        /\ PaInMem(m, a, <<1, f>>) => PaInMem(paBuf', a, <<1, f>>)
    <3>1. /\ PaShaped(paBuf') /\ paBuf'[a].mem = m[a].mem
          /\ ~m[a].dirty => ~paBuf'[a].dirty
      BY <1>3, <1>4, PaDropKeeps
    <3>2. /\ a # b /\ PaHas(m, a, <<1, f>>) => PaHas(paBuf', a, <<1, f>>)
          /\ PaInMem(m, a, <<1, f>>) => PaInMem(paBuf', a, <<1, f>>)
      BY <1>3, <1>4, PaDropHas
    <3> QED BY <3>1, <3>2
  <2>3. PaHas(paBuf, a, <<1, f>>) => PaHas(paBuf', a, <<1, f>>)
    <3>1. CASE a = b
      BY <2>1, <2>2, <3>1, PaMemHas
    <3>2. CASE a # b
      BY <2>1, <2>2, <3>2
    <3> QED BY <3>1, <3>2
  <2> QED BY <2>1, <2>2, <2>3
<1>6. PaBase(paBuf', paCam')
  BY <1>1, <1>3, <1>5, PaNames DEF PaBase
<1>7. CASE paDo # <<>>
  <2>1. PaPlace(paBuf, paCam, paDo) /\ paView = PaNoView
    BY <1>1, <1>7 DEF PaAfter
  <2>2. PaFrameIn(paBuf, paCam) => PaFrameIn(paBuf', paCam')
    BY <1>1, <1>3, <1>5, PaNames DEF PaFrameIn
  <2>3. PaFrameSeen(paBuf, paCam) => PaFrameSeen(paBuf', paCam')
    BY <1>3, <1>5, PaNames DEF PaFrameSeen
  <2>4. \A a \in PaOthers, f \in PaForms : /\ PaHas(paBuf, a, <<1, f>>) => PaHas(paBuf', a, <<1, f>>)
                                           /\ PaInMem(paBuf, a, <<1, f>>) => PaInMem(paBuf', a, <<1, f>>)
    BY <1>5, PaNames
  <2>5. PaPlace(paBuf', paCam', paDo)
    BY <2>1, <2>2, <2>3, <2>4, PaPlaceStays
  <2> QED BY <1>3, <1>6, <1>7, <2>1, <2>5 DEF PaShotInv, PaAfter
<1>8. CASE paDo = <<>>
  <2>1. PaShown(paBuf, paCam, paView)
    BY <1>1, <1>8 DEF PaAfter
  <2>2. PaShown(paBuf', paCam', paView')
    <3>1. CASE paView = PaNoView
      BY <1>3, <3>1 DEF PaShown
    <3>2. CASE paView # PaNoView
      <4>1. PICK a \in PaBufs, f \in PaForms : a = paView.b /\ paView.is = <<1, f>> /\ PaHas(paBuf, a, <<1, f>>)
        BY <2>1, <3>2 DEF PaShown
      <4>2. PaHas(paBuf', a, <<1, f>>)
        BY <1>5, <4>1
      <4>3. ~paBuf["dst"].dirty => ~paBuf'["dst"].dirty
        BY <1>5, PaNames
      <4> QED BY <1>3, <2>1, <3>2, <4>1, <4>2, <4>3 DEF PaShown
    <3> QED BY <3>1, <3>2
  <2> QED BY <1>3, <1>6, <1>8, <2>2 DEF PaShotInv, PaAfter
<1> QED BY <1>7, <1>8

\* A frame ends, in a buffer a call does not hold unless it waits for the next.
LEMMA PaArrivesKeeps ==
    ASSUME PaShotInv, NEW b \in PaBufs, PaArrives(b)
    PROVE  PaShotInv'
<1>1. /\ PaShaped(paBuf) /\ (\A a \in PaFrames : ~paBuf[a].dirty) /\ paCam \in PaCamera
      /\ PaAfter(paBuf, paCam, paDo, paView)
  BY DEF PaShotInv, PaBase
<1>2. /\ b \in PaFrames /\ (b # paCam.held \/ PaDoes("claim"))
      /\ paCam' = [paCam EXCEPT !.done = b, !.ready = TRUE] /\ paDo' = paDo /\ paView' = paView
      /\ paBuf' = [c \in PaBufs |-> IF c = b THEN [paBuf[b] EXCEPT !.mem = <<2, "rgb">>]
                                    ELSE [paBuf[c] EXCEPT !.mem = IF @[1] = 2 THEN PaBlank ELSE @]]
  BY DEF PaArrives, PaFrames
<1>3. paCam' \in PaCamera /\ paCam'.held = paCam.held
  BY <1>1, <1>2 DEF PaCamera
<1>4. PICK M : paBuf \in [PaBufs -> PaCells(M)]
  BY <1>1 DEF PaShaped
<1>5. PICK N : N = M \cup {PaBlank, <<2, "rgb">>}
  OBVIOUS
<1>6. ASSUME NEW c \in PaBufs
      PROVE  /\ paBuf'[c] \in PaCells(N) /\ paBuf'[c].line = paBuf[c].line /\ paBuf'[c].dirty = paBuf[c].dirty
             /\ c # b /\ paBuf[c].mem[1] # 2 => paBuf'[c].mem = paBuf[c].mem
  <2>1. PICK r \in PaCells(M) : r = paBuf[c]
    BY <1>4
  <2>2. PICK x \in N : x = IF c = b THEN <<2, "rgb">> ELSE IF r.mem[1] = 2 THEN PaBlank ELSE r.mem
    <3>1. r.mem \in N
      BY <1>5 DEF PaCells
    <3> QED BY <1>5, <3>1
  <2>3. paBuf'[c] = [r EXCEPT !.mem = x]
    BY <1>2, <2>1, <2>2
  <2>4. r \in PaCells(N)
    BY <1>5 DEF PaCells
  <2>5. paBuf'[c] \in PaCells(N) /\ paBuf'[c].line = r.line /\ paBuf'[c].dirty = r.dirty /\ paBuf'[c].mem = x
    BY <2>3, <2>4 DEF PaCells
  <2> QED BY <2>1, <2>2, <2>5
<1>7. PaShaped(paBuf')
  <2>1. paBuf' = [c \in PaBufs |-> paBuf'[c]]
    BY <1>2
  <2>2. paBuf' \in [PaBufs -> PaCells(N)]
    BY <1>6, <2>1
  <2> QED BY <2>2 DEF PaShaped
<1>8. PaBase(paBuf', paCam')
  BY <1>1, <1>3, <1>6, <1>7, PaNames DEF PaBase
<1>9. ASSUME NEW a \in PaBufs, a # b, NEW f
      PROVE  /\ paBuf[a].mem = <<1, f>> => paBuf'[a].mem = <<1, f>>
             /\ PaHas(paBuf, a, <<1, f>>) => PaHas(paBuf', a, <<1, f>>)
             /\ PaInMem(paBuf, a, <<1, f>>) => PaInMem(paBuf', a, <<1, f>>)
  <2>1. paBuf[a].mem = <<1, f>> => paBuf'[a].mem = <<1, f>>
    BY <1>6, <1>9
  <2> QED BY <1>6, <2>1 DEF PaHas, PaInMem
<1>10. CASE paDo # <<>>
  <2>1. PaPlace(paBuf, paCam, paDo) /\ paView = PaNoView
    BY <1>1, <1>10 DEF PaAfter
  <2>2. ~PaFromClaim(paDo) => paCam.held # b
    <3>1. PaDoes("claim") => PaFromClaim(paDo)
      BY <2>1, PaWhere DEF PaDoes, PaStep
    <3> QED BY <1>2, <3>1
  <2>3. ~PaFromClaim(paDo) => (PaFrameIn(paBuf, paCam) => PaFrameIn(paBuf', paCam'))
    BY <1>3, <1>9, <2>2, PaNames DEF PaFrameIn
  <2>4. ~PaFromClaim(paDo) => (PaFrameSeen(paBuf, paCam) => PaFrameSeen(paBuf', paCam'))
    BY <1>3, <1>9, <2>2, PaNames DEF PaFrameSeen
  <2>5. \A a \in PaOthers, f \in PaForms : /\ PaHas(paBuf, a, <<1, f>>) => PaHas(paBuf', a, <<1, f>>)
                                           /\ PaInMem(paBuf, a, <<1, f>>) => PaInMem(paBuf', a, <<1, f>>)
    BY <1>2, <1>9, PaNames
  <2>6. PaPlace(paBuf', paCam', paDo)
    BY <2>1, <2>3, <2>4, <2>5, PaPlaceStays
  <2> QED BY <1>2, <1>8, <1>10, <2>1, <2>6 DEF PaShotInv, PaAfter
<1>11. CASE paDo = <<>>
  <2>1. PaShown(paBuf, paCam, paView) /\ b # paCam.held
    BY <1>1, <1>2, <1>11 DEF PaAfter, PaDoes
  <2>2. PaShown(paBuf', paCam', paView')
    <3>1. CASE paView = PaNoView
      BY <1>2, <3>1 DEF PaShown
    <3>2. CASE paView # PaNoView
      <4>1. PICK a \in PaBufs, f \in PaForms : /\ a = paView.b /\ paView.is = <<1, f>> /\ PaHas(paBuf, a, <<1, f>>)
                                               /\ a \in PaFrames => a = paCam.held
        BY <2>1, <3>2 DEF PaShown
      <4>2. PaHas(paBuf', a, <<1, f>>)
        BY <1>2, <1>9, <2>1, <4>1
      <4>3. paBuf'["dst"].dirty = paBuf["dst"].dirty
        BY <1>6, PaNames
      <4> QED BY <1>2, <1>3, <2>1, <3>2, <4>1, <4>2, <4>3 DEF PaShown
    <3> QED BY <3>1, <3>2
  <2> QED BY <1>2, <1>8, <1>11, <2>2 DEF PaShotInv, PaAfter
<1> QED BY <1>10, <1>11

\* The program reads what it was given.
LEMMA PaUsesKeep ==
    ASSUME PaShotInv, ~PaEdits, NEW edits \in BOOLEAN, PaUses(edits)
    PROVE  PaShotInv'
<1>1. /\ PaShaped(paBuf) /\ (\A a \in PaFrames : ~paBuf[a].dirty) /\ paCam \in PaCamera
      /\ PaAfter(paBuf, paCam, paDo, paView)
  BY DEF PaShotInv, PaBase
<1>2. /\ paView # PaNoView /\ paDo = <<>> /\ paBuf' = PaReadBy(paBuf, paView.b) /\ paView' = paView
      /\ paCam' = paCam /\ paDo' = paDo
  BY DEF PaUses
<1>3. PaShown(paBuf, paCam, paView)
  BY <1>1, <1>2 DEF PaAfter
<1>4. PICK b \in PaBufs, f \in PaForms : b = paView.b /\ paView.is = <<1, f>> /\ PaHas(paBuf, b, <<1, f>>)
  BY <1>2, <1>3 DEF PaShown
<1>5. \A a \in PaBufs : PaShaped(paBuf') /\ paBuf'[a].dirty = paBuf[a].dirty
  BY <1>1, <1>2, <1>4, PaReadHas
<1>6. PaHas(paBuf', b, <<1, f>>)
  BY <1>1, <1>2, <1>4, PaReadHas
<1>7. PaShown(paBuf', paCam', paView')
  <2>1. paBuf'["dst"].dirty = paBuf["dst"].dirty
    BY <1>5, PaNames
  <2> QED BY <1>2, <1>3, <1>4, <1>6, <2>1 DEF PaShown
<1>8. PaBase(paBuf', paCam')
  BY <1>1, <1>2, <1>5, PaNames DEF PaBase
<1> QED BY <1>2, <1>7, <1>8 DEF PaShotInv, PaAfter

\* A sequence of whatever, one of a single step, and two in a row.
PaSeqs(d) == \E S : d \in Seq(S)
PaOne(s) == <<s>>
PaCat(a, b) == a \o b

\* Two sequences are of what either is of.
LEMMA PaSeqShare ==
    ASSUME NEW a, NEW b, PaSeqs(a), PaSeqs(b)
    PROVE  \E S : a \in Seq(S) /\ b \in Seq(S)
<1>1. PICK A : a \in Seq(A)
  BY DEF PaSeqs
<1>2. PICK B : b \in Seq(B)
  BY DEF PaSeqs
<1>3. a \in Seq(A \cup B) /\ b \in Seq(A \cup B)
  BY <1>1, <1>2
<1> QED BY <1>3

\* A single step.
LEMMA PaOneIs ==
    ASSUME NEW s
    PROVE  /\ PaSeqs(PaOne(s)) /\ PaFirst(PaOne(s), s) /\ Tail(PaOne(s)) = <<>> /\ PaSeqs(<<>>)
           /\ Len(PaOne(s)) = 1 /\ PaOne(s)[1] = s
<1>1. PICK d : d = PaOne(s)
  OBVIOUS
<1>2. d \in Seq({s}) /\ Len(d) = 1 /\ d[1] = s
  BY <1>1 DEF PaOne
<1>3. d # <<>> /\ Head(d) = s /\ Tail(d) = <<>>
  <2>1. d # <<>> /\ Head(d) = s
    BY <1>2, EmptySeq
  <2>2. Tail(d) \in Seq({s}) /\ Len(Tail(d)) = 0
    BY <1>2, <2>1, HeadTailProperties
  <2> QED BY <2>1, <2>2, EmptySeq
<1>4. <<>> \in Seq({s})
  OBVIOUS
<1>5. PaSeqs(d) /\ PaSeqs(<<>>)
  BY <1>2, <1>4 DEF PaSeqs
<1>6. PaFirst(d, s)
  BY <1>3 DEF PaFirst
<1> QED BY <1>1, <1>2, <1>3, <1>5, <1>6

\* Two in a row are one.
LEMMA PaCatIs ==
    ASSUME NEW a, NEW b, PaSeqs(a), PaSeqs(b)
    PROVE  PaSeqs(PaCat(a, b))
<1>1. PICK S : a \in Seq(S) /\ b \in Seq(S)
  BY PaSeqShare
<1>2. a \o b \in Seq(S)
  BY <1>1
<1> QED BY <1>2 DEF PaSeqs, PaCat

\* Three in a row are so either way.
LEMMA PaCatAssoc ==
    ASSUME NEW a, NEW b, NEW c, PaSeqs(a), PaSeqs(b), PaSeqs(c)
    PROVE  PaCat(PaCat(a, b), c) = PaCat(a, PaCat(b, c))
<1>1. PICK A : a \in Seq(A)
  BY DEF PaSeqs
<1>2. PICK B : b \in Seq(B)
  BY DEF PaSeqs
<1>3. PICK C : c \in Seq(C)
  BY DEF PaSeqs
<1>4. PICK S : S = A \cup B \cup C
  OBVIOUS
<1>5. a \in Seq(S) /\ b \in Seq(S) /\ c \in Seq(S)
  BY <1>1, <1>2, <1>3, <1>4
<1> QED BY <1>5, ConcatAssociative DEF PaCat

\* Nothing before a sequence, or after it, is no more.
LEMMA PaCatEmpty ==
    ASSUME NEW a, PaSeqs(a)
    PROVE  PaCat(<<>>, a) = a /\ PaCat(a, <<>>) = a
<1>1. PICK S : a \in Seq(S)
  BY DEF PaSeqs
<1> QED BY <1>1, ConcatEmptySeq DEF PaCat

\* A step and what follows it.
LEMMA PaCatCons ==
    ASSUME NEW s, NEW r, PaSeqs(r), NEW d, d = PaCat(PaOne(s), r)
    PROVE  PaSeqs(d) /\ PaFirst(d, s) /\ Tail(d) = r
<1>1. PICK p : p = PaOne(s)
  OBVIOUS
<1>2. PaSeqs(p) /\ Len(p) = 1 /\ p[1] = s
  BY <1>1, PaOneIs
<1>3. PICK S : p \in Seq(S) /\ r \in Seq(S)
  BY <1>2, PaSeqShare
<1>5. d = p \o r
  BY <1>1 DEF PaCat
<1>6. /\ d \in Seq(S) /\ Len(d) = 1 + Len(r) /\ d[1] = s
      /\ \A i \in 1 .. Len(r) : d[i + 1] = r[i]
  <2>1. /\ d \in Seq(S) /\ Len(d) = Len(p) + Len(r)
        /\ \A i \in 1 .. Len(p) + Len(r) : d[i] = IF i <= Len(p) THEN p[i] ELSE r[i - Len(p)]
    BY <1>3, <1>5, ConcatProperties
  <2>2. Len(r) \in Nat
    BY <1>3
  <2> QED BY <1>2, <2>1, <2>2
<1>7. d # <<>> /\ Head(d) = s
  BY <1>3, <1>6
<1>8. /\ Tail(d) \in Seq(S) /\ Len(Tail(d)) = Len(r)
      /\ \A i \in 1 .. Len(Tail(d)) : Tail(d)[i] = r[i]
  <2>1. /\ Tail(d) \in Seq(S) /\ Len(Tail(d)) = Len(d) - 1
        /\ \A i \in 1 .. Len(Tail(d)) : Tail(d)[i] = d[i + 1]
    BY <1>6, <1>7, HeadTailProperties
  <2> QED BY <1>3, <1>6, <2>1
<1>9. Tail(d) = r
  BY <1>3, <1>8, SeqEqual
<1>10. PaSeqs(d)
  BY <1>6 DEF PaSeqs
<1>11. PaFirst(d, s)
  BY <1>7 DEF PaFirst
<1> QED BY <1>9, <1>10, <1>11

\* Two steps, and three.
LEMMA PaTwoIs ==
    ASSUME NEW s, NEW t
    PROVE  <<s, t>> = PaCat(PaOne(s), PaOne(t))
<1>1. PICK S : S = {s, t}
  OBVIOUS
<1>2. PICK a : a = PaOne(s)
  OBVIOUS
<1>3. PICK b : b = PaOne(t)
  OBVIOUS
<1>4. a \in Seq(S) /\ Len(a) = 1 /\ a[1] = s
  BY <1>1, <1>2 DEF PaOne
<1>5. b \in Seq(S) /\ Len(b) = 1 /\ b[1] = t
  BY <1>1, <1>3 DEF PaOne
<1>6. PICK c : c = <<s, t>>
  OBVIOUS
<1>7. c \in Seq(S) /\ Len(c) = 2 /\ c[1] = s /\ c[2] = t
  BY <1>1, <1>6
<1>8. PICK d : d = a \o b
  OBVIOUS
<1>0. /\ d \in Seq(S) /\ Len(d) = Len(a) + Len(b)
      /\ \A i \in 1 .. Len(a) + Len(b) : d[i] = IF i <= Len(a) THEN a[i] ELSE b[i - Len(a)]
  BY <1>4, <1>5, <1>8, ConcatProperties
<1>9. d \in Seq(S) /\ Len(d) = 2 /\ d[1] = s /\ d[2] = t
  BY <1>0, <1>4, <1>5
<1>10. \A i \in 1 .. Len(c) : c[i] = d[i]
  BY <1>7, <1>9
<1>11. c = d
  BY <1>7, <1>9, <1>10, SeqEqual
<1>12. d = PaCat(PaOne(s), PaOne(t))
  BY <1>2, <1>3, <1>8, Zenon DEF PaCat
<1> QED BY <1>6, <1>11, <1>12, Zenon

LEMMA PaThreeIs ==
    ASSUME NEW s, NEW t, NEW u
    PROVE  <<s, t, u>> = PaCat(PaOne(s), PaCat(PaOne(t), PaOne(u)))
<1>1. PICK S : S = {s, t, u}
  OBVIOUS
<1>2. PICK a : a = PaOne(s)
  OBVIOUS
<1>3. PICK b : b = <<t, u>>
  OBVIOUS
<1>4. a \in Seq(S) /\ Len(a) = 1 /\ a[1] = s
  BY <1>1, <1>2 DEF PaOne
<1>5. b \in Seq(S) /\ Len(b) = 2 /\ b[1] = t /\ b[2] = u
  BY <1>1, <1>3
<1>6. PICK c : c = <<s, t, u>>
  OBVIOUS
<1>7. c \in Seq(S) /\ Len(c) = 3 /\ c[1] = s /\ c[2] = t /\ c[3] = u
  BY <1>1, <1>6
<1>8. PICK d : d = a \o b
  OBVIOUS
<1>0. /\ d \in Seq(S) /\ Len(d) = Len(a) + Len(b)
      /\ \A i \in 1 .. Len(a) + Len(b) : d[i] = IF i <= Len(a) THEN a[i] ELSE b[i - Len(a)]
  BY <1>4, <1>5, <1>8, ConcatProperties
<1>9. d \in Seq(S) /\ Len(d) = 3 /\ d[1] = s /\ d[2] = t /\ d[3] = u
  BY <1>0, <1>4, <1>5
<1>10. \A i \in 1 .. Len(c) : c[i] = d[i]
  BY <1>7, <1>9
<1>11. c = d
  BY <1>7, <1>9, <1>10, SeqEqual
<1>12. b = PaCat(PaOne(t), PaOne(u))
  BY <1>3, PaTwoIs, Zenon
<1>13. d = PaCat(PaOne(s), PaCat(PaOne(t), PaOne(u)))
  BY <1>2, <1>8, <1>12, Zenon DEF PaCat
<1> QED BY <1>6, <1>11, <1>13, Zenon

\* Four parts of a plan in a row.
LEMMA PaCatFour ==
    ASSUME NEW a, NEW b, NEW c, NEW e, PaSeqs(a), PaSeqs(b), PaSeqs(c), PaSeqs(e)
    PROVE  PaCat(PaCat(PaCat(a, b), c), e) = PaCat(a, PaCat(b, PaCat(c, e)))
<1>1. PaSeqs(PaCat(a, b)) /\ PaSeqs(PaCat(c, e))
  BY PaCatIs
<1>2. PaCat(PaCat(PaCat(a, b), c), e) = PaCat(PaCat(a, b), PaCat(c, e))
  BY <1>1, PaCatAssoc
<1>3. PaCat(PaCat(a, b), PaCat(c, e)) = PaCat(a, PaCat(b, PaCat(c, e)))
  BY <1>1, PaCatAssoc
<1> QED BY <1>2, <1>3

\* What keeping a buffer puts first.
LEMMA PaKeepsIs ==
    ASSUME NEW b, NEW len, NEW more, PaSeqs(more), NEW k, k = PaKeeps(b, len, more)
    PROVE  PaSeqs(k) /\ (k = <<>> \/ k = PaCat(PaOne(PaAlloc(b, len)), more))
<1>1. k = <<>> \/ k = <<PaAlloc(b, len)>> \o more
  BY Zenon DEF PaKeeps
<1>2. k = <<>> \/ k = PaCat(PaOne(PaAlloc(b, len)), more)
  BY <1>1, Zenon DEF PaCat, PaOne
<1> QED BY <1>2, PaOneIs, PaCatIs

\* The PPA by hand, then what is right from what it leaves.
LEMMA PaHandIs ==
    ASSUME NEW to \in PaOthers, NEW f \in PaForms, NEW r, PaSeqs(r), PaFromMem(r, to, f) \/ PaFromHas(r, to, f),
           NEW d, d = PaCat(PaOne(PaPpa("fb", to, f)), r)
    PROVE  PaSeqs(d) /\ PaByHand(d)
<1>1. PaSeqs(d) /\ PaFirst(d, PaPpa("fb", to, f)) /\ Tail(d) = r
  BY PaCatCons
<1> QED BY <1>1 DEF PaByHand

\* The CPU's pass, then what is right from what it makes.
LEMMA PaConvertsIs ==
    ASSUME NEW from, NEW to \in PaOthers, NEW f \in PaForms, NEW r, PaSeqs(r), PaEnds(r, to, f) \/ PaMade(r, to, f),
           NEW d, d = PaCat(PaOne(PaCpu(from, to, f)), r)
    PROVE  PaSeqs(d) /\ PaConverts(d, from)
<1>1. PaSeqs(d) /\ PaFirst(d, PaCpu(from, to, f)) /\ Tail(d) = r
  BY PaCatCons
<1> QED BY <1>1 DEF PaConverts

\* What ppa_mod_srm does is right from the frame in memory, and from one the CPU sees if it
\* is software, when what follows is right from the picture it makes.
LEMMA PaSrmIs ==
    ASSUME NEW to \in PaOthers, NEW f \in {"rgb", "grey", "yuy2"}, NEW len \in Nat, NEW hw \in BOOLEAN,
           NEW r, PaSeqs(r),
           IF hw /\ f = "rgb" THEN PaFromMem(r, to, f) \/ PaFromHas(r, to, f)
           ELSE PaEnds(r, to, f) \/ PaMade(r, to, f),
           NEW s, s = PaSrm(to, f, len, hw), NEW d, d = PaCat(s, r)
    PROVE  PaSeqs(s) /\ (hw => PaFromFrame(d)) /\ (~hw => PaFromSeen(d)) /\ PaSeqs(d)
<1>0. f \in PaForms /\ "rgb" \in PaForms /\ "uyvy" \in PaForms /\ "tmp" \in PaOthers
  BY PaNames DEF PaForms
<1>1. CASE ~hw
  <2>1. s = PaOne(PaCpu("fb", to, f))
    BY <1>1 DEF PaSrm, PaOne
  <2>2. PaSeqs(s)
    BY <2>1, PaOneIs
  <2>3. PaEnds(r, to, f) \/ PaMade(r, to, f)
    BY <1>1
  <2>4. PaSeqs(d) /\ PaConverts(d, "fb")
    BY <1>0, <2>1, <2>3, PaConvertsIs
  <2> QED BY <1>1, <2>2, <2>4 DEF PaFromSeen
<1>2. CASE hw /\ PaHybrid(f)
  <2>1. PICK k : k = PaKeeps("tmp", len, <<>>)
    OBVIOUS
  <2>2. PICK t : t = <<PaPpa("fb", "tmp", "rgb"), PaDrop("tmp"), PaCpu("tmp", to, f)>>
    OBVIOUS
  <2>3. s = PaCat(k, t)
    <3>1. s = PaInHardware(to, f, len)
      BY <1>2 DEF PaSrm
    <3> QED BY <1>2, <2>1, <2>2, <3>1, Zenon DEF PaInHardware, PaCat
  <2>4. PaEnds(r, to, f) \/ PaMade(r, to, f)
    BY <1>2 DEF PaHybrid
  <2>5. PICK o : o = PaOne(PaPpa("fb", "tmp", "rgb"))
    OBVIOUS
  <2>6. PICK p : p = PaOne(PaDrop("tmp"))
    OBVIOUS
  <2>7. PICK q : q = PaOne(PaCpu("tmp", to, f))
    OBVIOUS
  <2>8. PaSeqs(o) /\ PaSeqs(p) /\ PaSeqs(q) /\ PaSeqs(<<>>)
    BY <2>5, <2>6, <2>7, PaOneIs
  <2>9. t = PaCat(o, PaCat(p, q))
    BY <2>2, <2>5, <2>6, <2>7, PaThreeIs, Zenon
  <2>10. PaSeqs(PaCat(p, q)) /\ PaSeqs(t) /\ PaSeqs(PaCat(q, r)) /\ PaSeqs(PaCat(p, PaCat(q, r)))
    BY <2>8, <2>9, PaCatIs
  <2>11. PaCat(t, r) = PaCat(o, PaCat(p, PaCat(q, r)))
    BY <2>8, <2>9, <2>10, PaCatAssoc
  <2>12. PaConverts(PaCat(q, r), "tmp")
    BY <1>0, <2>4, <2>7, PaConvertsIs
  <2>13. PICK y : y = PaCat(p, PaCat(q, r))
    OBVIOUS
  <2>14. PaFirst(y, PaDrop("tmp")) /\ Tail(y) = PaCat(q, r)
    BY <2>6, <2>10, <2>13, PaCatCons
  <2>15. PaFromMem(y, "tmp", "rgb")
    BY <2>12, <2>14 DEF PaFromMem
  <2>16. PICK z : z = PaCat(o, y)
    OBVIOUS
  <2>17. PaSeqs(z) /\ PaByHand(z)
    BY <1>0, <2>5, <2>10, <2>13, <2>15, <2>16, PaHandIs
  <2>18. PaSeqs(k) /\ (k = <<>> \/ k = PaCat(PaOne(PaAlloc("tmp", len)), <<>>))
    BY <2>1, <2>8, PaKeepsIs
  <2>19. PaSeqs(s) /\ d = PaCat(k, z)
    BY <2>3, <2>10, <2>11, <2>13, <2>16, <2>18, PaCatIs, PaCatAssoc
  <2>20. PaSeqs(d)
    BY <2>17, <2>18, <2>19, PaCatIs
  <2>21. CASE k = <<>>
    <3>1. d = z
      BY <2>17, <2>19, <2>21, PaCatEmpty
    <3> QED BY <1>2, <2>17, <2>19, <2>20, <3>1 DEF PaFromFrame
  <2>22. CASE k = PaCat(PaOne(PaAlloc("tmp", len)), <<>>)
    <3>1. k = PaOne(PaAlloc("tmp", len))
      BY <2>22, PaOneIs, PaCatEmpty
    <3>2. PaFirst(d, PaAlloc("tmp", len)) /\ Tail(d) = z
      BY <2>17, <2>19, <3>1, PaCatCons
    <3> QED BY <1>2, <2>17, <2>19, <2>20, <3>2 DEF PaFromFrame
  <2> QED BY <2>18, <2>21, <2>22
<1>3. CASE hw /\ ~PaHybrid(f) /\ f = "yuy2"
  <2>1. s = <<PaPpa("fb", to, "uyvy"), PaCpu(to, to, "yuy2")>>
    BY <1>3, Zenon DEF PaSrm, PaInHardware
  <2>2. PaEnds(r, to, f) \/ PaMade(r, to, f)
    BY <1>3
  <2>3. PICK o : o = PaOne(PaPpa("fb", to, "uyvy"))
    OBVIOUS
  <2>4. PICK p : p = PaOne(PaCpu(to, to, "yuy2"))
    OBVIOUS
  <2>5. s = PaCat(o, p)
    BY <2>1, <2>3, <2>4, PaTwoIs, Zenon
  <2>6. PaSeqs(o) /\ PaSeqs(p)
    BY <2>3, <2>4, PaOneIs
  <2>7. PICK x : x = PaCat(p, r)
    OBVIOUS
  <2>8. PaSeqs(x) /\ PaConverts(x, to)
    BY <1>0, <1>3, <2>2, <2>4, <2>7, PaConvertsIs
  <2>9. PaFromHas(x, to, "uyvy")
    BY <2>8 DEF PaFromHas
  <2>10. PaSeqs(s) /\ d = PaCat(o, x)
    BY <2>5, <2>6, <2>7, PaCatIs, PaCatAssoc
  <2>11. PaSeqs(d) /\ PaByHand(d)
    BY <1>0, <2>3, <2>8, <2>9, <2>10, PaHandIs
  <2> QED BY <1>3, <2>10, <2>11 DEF PaFromFrame
<1>4. CASE hw /\ ~PaHybrid(f) /\ f # "yuy2"
  <2>1. f = "rgb"
    BY <1>4 DEF PaHybrid
  <2>2. s = PaOne(PaPpa("fb", to, f))
    BY <1>4, <2>1, Zenon DEF PaSrm, PaInHardware, PaOne
  <2>3. PaFromMem(r, to, f) \/ PaFromHas(r, to, f)
    BY <1>4, <2>1
  <2>4. PaSeqs(d) /\ PaByHand(d)
    BY <1>0, <2>2, <2>3, PaHandIs
  <2>5. PaSeqs(s)
    BY <2>2, PaOneIs
  <2> QED BY <1>4, <2>4, <2>5 DEF PaFromFrame
<1> QED BY <1>1, <1>2, <1>3, <1>4

\* A claim, then what is right from the frame, or from one the CPU sees.
LEMMA PaClaimIs ==
    ASSUME NEW sync \in BOOLEAN, NEW r, PaSeqs(r), r = <<>> \/ PaFromFrame(r) \/ (sync /\ PaFromSeen(r)),
           NEW d, d = PaCat(PaOne(PaClaim(sync)), r)
    PROVE  PaSeqs(d) /\ PaFromClaim(d)
<1>1. PaSeqs(d) /\ PaFirst(d, PaClaim(sync)) /\ Tail(d) = r
  BY PaCatCons
<1> QED BY <1>1 DEF PaFromClaim

\* The same of a claim and one step, or two.
LEMMA PaClaimGives ==
    ASSUME NEW x, NEW d, \/ /\ d = <<PaClaim(TRUE), x>>
                            /\ x = PaGive("fb", "rgb")
                         \/ /\ d = <<PaClaim(FALSE), x>>
                            /\ x = PaEncode("fb", "rgb")
                         \/ d = <<PaClaim(TRUE), PaCopy("fb", "bytes"), PaGive("bytes", "rgb")>>
    PROVE  PaFromClaim(d)
<1>1. PICK r : r = PaOne(x)
  OBVIOUS
<1>2. PaSeqs(r) /\ PaLast(r, x)
  BY <1>1, PaOneIs DEF PaLast
<1>3. CASE d = <<PaClaim(TRUE), x>> /\ x = PaGive("fb", "rgb")
  <2>1. d = PaCat(PaOne(PaClaim(TRUE)), r)
    BY <1>1, <1>3, PaTwoIs, Zenon
  <2>2. PaFromSeen(r)
    BY <1>2, <1>3 DEF PaFromSeen
  <2> QED BY <1>2, <2>1, <2>2, PaClaimIs
<1>4. CASE d = <<PaClaim(FALSE), x>> /\ x = PaEncode("fb", "rgb")
  <2>1. d = PaCat(PaOne(PaClaim(FALSE)), r)
    BY <1>1, <1>4, PaTwoIs, Zenon
  <2>2. PaFromFrame(r)
    BY <1>2, <1>4 DEF PaFromFrame
  <2> QED BY <1>2, <2>1, <2>2, PaClaimIs
<1>5. CASE d = <<PaClaim(TRUE), PaCopy("fb", "bytes"), PaGive("bytes", "rgb")>>
  <2>1. PICK y : y = PaOne(PaGive("bytes", "rgb"))
    OBVIOUS
  <2>2. PICK e : e = PaCat(PaOne(PaCopy("fb", "bytes")), y)
    OBVIOUS
  <2>3. d = PaCat(PaOne(PaClaim(TRUE)), e)
    BY <1>5, <2>1, <2>2, PaThreeIs, Zenon
  <2>4. PaSeqs(y) /\ PaLast(y, PaGive("bytes", "rgb"))
    BY <2>1, PaOneIs DEF PaLast
  <2>5. PaSeqs(e) /\ PaFirst(e, PaCopy("fb", "bytes")) /\ Tail(e) = y
    BY <2>2, <2>4, PaCatCons
  <2>6. PaFromSeen(e)
    BY <2>4, <2>5 DEF PaFromSeen
  <2> QED BY <2>3, <2>5, <2>6, PaClaimIs
<1> QED BY <1>3, <1>4, <1>5

\* take(): its buffer, a claim, the block scaled or as it is, and what is given.
LEMMA PaTakesIs ==
    ASSUME NEW take \in PaReconfigured, NEW hw \in BOOLEAN, hw \/ ~PaExact(take), NEW d, d = PaTakes(take, hw)
    PROVE  PaFromNothing(d)
<1>1. take.fmt \in {"rgb", "grey", "jpeg"} /\ "take" \in PaOthers
  BY PaNames DEF PaReconfigured
<1>2. CASE take.size = "own" /\ take.fmt = "rgb"
  <2>1. d = <<PaClaim(TRUE), PaGive("fb", "rgb")>>
    BY <1>2 DEF PaTakes
  <2> QED BY <2>1, PaClaimGives DEF PaFromNothing
<1>3. CASE take.size = "own" /\ take.fmt = "jpeg"
  <2>1. d = <<PaClaim(FALSE), PaEncode("fb", "rgb")>>
    BY <1>3 DEF PaTakes
  <2> QED BY <2>1, PaClaimGives DEF PaFromNothing
<1>4. CASE ~(take.size = "own" /\ take.fmt \in {"rgb", "jpeg"})
  <2>0. PICK form \in {"rgb", "grey"} : form = (IF take.fmt = "grey" THEN "grey" ELSE "rgb")
    OBVIOUS
  <2>1. PICK len \in Nat : len = PaLenOf(take.size)
    BY DEF PaLenOf
  <2>2. PICK k : k = PaKeeps("take", len, <<PaClean("take")>>)
    OBVIOUS
  <2>3. PICK sync \in BOOLEAN : sync = ~PaExact(take)
    OBVIOUS
  <2>4. PICK c : c = PaOne(PaClaim(sync))
    OBVIOUS
  <2>5. PICK s : s = PaSrm("take", form, len, hw)
    OBVIOUS
  <2>6. PICK x : x = IF hw /\ ~(take.fmt = "grey") THEN PaDrop("take") ELSE PaClean("take")
    OBVIOUS
  <2>7. PICK y : y = IF take.fmt = "jpeg" THEN PaEncode("take", "rgb") ELSE PaGive("take", form)
    OBVIOUS
  <2>8. d = (((k \o <<PaClaim(sync)>>) \o s) \o <<x>>) \o <<y>>
    BY <1>4, <2>0, <2>1, <2>2, <2>3, <2>5, <2>6, <2>7 DEF PaTakes
  <2>9. d = PaCat(PaCat(PaCat(PaCat(k, c), s), PaOne(x)), PaOne(y))
    BY <2>4, <2>8, Zenon DEF PaCat, PaOne
  <2>10. PICK w : w = PaOne(y)
    OBVIOUS
  <2>11. PICK r : r = PaCat(PaOne(x), w)
    OBVIOUS
  <2>12. PaSeqs(w) /\ PaLast(w, y) /\ PaSeqs(PaOne(x)) /\ PaSeqs(c)
    BY <2>4, <2>10, PaOneIs DEF PaLast
  <2>13. PaEnds(w, "take", form)
    <3>1. y = PaEncode("take", form) \/ y = PaGive("take", form)
      BY <2>0, <2>7
    <3> QED BY <2>12, <3>1 DEF PaEnds
  <2>14. PaSeqs(r) /\ PaFirst(r, x) /\ Tail(r) = w
    BY <2>11, <2>12, PaCatCons
  <2>15. IF hw /\ form = "rgb" THEN PaFromMem(r, "take", form) \/ PaFromHas(r, "take", form)
         ELSE PaEnds(r, "take", form) \/ PaMade(r, "take", form)
    <3>1. x = PaDrop("take") \/ x = PaClean("take")
      BY <2>6
    <3>2. ~(hw /\ form = "rgb") => x = PaClean("take")
      BY <1>1, <2>0, <2>6
    <3>3. x = PaDrop("take") => PaFromMem(r, "take", form)
      BY <2>13, <2>14 DEF PaFromMem
    <3>4. x = PaClean("take") => PaMade(r, "take", form)
      BY <2>13, <2>14 DEF PaMade
    <3> QED BY <3>1, <3>2, <3>3, <3>4 DEF PaFromHas
  <2>16. PICK e : e = PaCat(s, r)
    OBVIOUS
  <2>17. /\ PaSeqs(s) /\ PaSeqs(e)
         /\ hw => PaFromFrame(e)
         /\ ~hw => PaFromSeen(e)
    <3>1. form \in {"rgb", "grey", "yuy2"}
      OBVIOUS
    <3> QED BY <1>1, <2>5, <2>14, <2>15, <2>16, <3>1, PaSrmIs
  <2>18. PICK g : g = PaCat(c, e)
    OBVIOUS
  <2>19. PaSeqs(g) /\ PaFromClaim(g)
    BY <2>3, <2>4, <2>17, <2>18, PaClaimIs
  <2>20. PICK p : p = PaOne(PaClean("take"))
    OBVIOUS
  <2>21. PaSeqs(k) /\ PaSeqs(p) /\ (k = <<>> \/ k = PaCat(PaOne(PaAlloc("take", len)), p))
    <3>1. k = PaKeeps("take", len, p)
      BY <2>2, <2>20, Zenon DEF PaOne
    <3>2. PaSeqs(p)
      BY <2>20, PaOneIs
    <3> QED BY <3>1, <3>2, PaKeepsIs
  <2>22. d = PaCat(k, g)
    <3>1. PaSeqs(PaCat(PaCat(k, c), s))
      BY <2>12, <2>17, <2>21, PaCatIs
    <3>2. d = PaCat(PaCat(PaCat(k, c), s), r)
      BY <2>9, <2>10, <2>11, <2>12, <3>1, PaCatAssoc
    <3> QED BY <2>12, <2>14, <2>16, <2>17, <2>18, <2>21, <3>2, PaCatFour
  <2>23. CASE k = <<>>
    <3>1. d = g
      BY <2>19, <2>22, <2>23, PaCatEmpty
    <3> QED BY <2>19, <3>1 DEF PaFromNothing
  <2>24. CASE k = PaCat(PaOne(PaAlloc("take", len)), p)
    <3>1. PICK q : q = PaCat(p, g)
      OBVIOUS
    <3>2. PaSeqs(q) /\ PaFirst(q, PaClean("take")) /\ Tail(q) = g
      BY <2>19, <2>20, <3>1, PaCatCons
    <3>3. PaFromClean(q)
      BY <2>19, <3>2 DEF PaFromClean
    <3>4. d = PaCat(PaOne(PaAlloc("take", len)), q)
      <4>1. PaSeqs(PaOne(PaAlloc("take", len)))
        BY PaOneIs
      <4> QED BY <2>19, <2>21, <2>22, <2>24, <3>1, <4>1, PaCatAssoc
    <3>5. PaFirst(d, PaAlloc("take", len)) /\ Tail(d) = q
      BY <3>2, <3>4, PaCatCons
    <3> QED BY <3>3, <3>5 DEF PaFromNothing, PaFromRoom
  <2> QED BY <2>21, <2>23, <2>24
<1> QED BY <1>1, <1>2, <1>3, <1>4

\* capture_yuy2(): its buffer, a claim, YUV422, and a copy of it.
LEMMA PaYuy2Is ==
    ASSUME NEW len \in Nat, NEW hw \in BOOLEAN, NEW d, d = PaYuy2(len, hw)
    PROVE  PaFromNothing(d)
<1>1. PICK k : k = PaKeeps("yuy2", len, <<>>)
  OBVIOUS
<1>2. PICK c : c = PaOne(PaClaim(TRUE))
  OBVIOUS
<1>3. PICK s : s = PaSrm("yuy2", "yuy2", len, hw)
  OBVIOUS
<1>4. PICK y : y = PaOne(PaGive("bytes", "yuy2"))
  OBVIOUS
<1>5. PICK r : r = PaCat(PaOne(PaCopy("yuy2", "bytes")), y)
  OBVIOUS
<1>6. d = PaCat(PaCat(PaCat(k, c), s), r)
  <2>1. <<PaCopy("yuy2", "bytes"), PaGive("bytes", "yuy2")>> = r
    BY <1>4, <1>5, PaTwoIs, Zenon
  <2> QED BY <1>1, <1>2, <1>3, <2>1, Zenon DEF PaYuy2, PaCat, PaOne
<1>7. PaSeqs(y) /\ PaLast(y, PaGive("bytes", "yuy2")) /\ PaSeqs(c) /\ PaSeqs(<<>>)
  BY <1>2, <1>4, PaOneIs DEF PaLast
<1>8. PaSeqs(r) /\ PaFirst(r, PaCopy("yuy2", "bytes")) /\ Tail(r) = y
  BY <1>5, <1>7, PaCatCons
<1>9. PaMade(r, "yuy2", "yuy2")
  BY <1>7, <1>8 DEF PaMade
<1>10. PICK e : e = PaCat(s, r)
  OBVIOUS
<1>11. PaSeqs(s) /\ PaSeqs(e) /\ (PaFromFrame(e) \/ PaFromSeen(e))
  <2>1. "yuy2" \in PaOthers
    BY PaNames
  <2> QED BY <1>3, <1>8, <1>9, <1>10, <2>1, PaSrmIs
<1>12. PICK g : g = PaCat(c, e)
  OBVIOUS
<1>13. PaSeqs(g) /\ PaFromClaim(g)
  BY <1>2, <1>11, <1>12, PaClaimIs
<1>14. PaSeqs(k) /\ (k = <<>> \/ k = PaCat(PaOne(PaAlloc("yuy2", len)), <<>>))
  BY <1>1, <1>7, PaKeepsIs
<1>15. d = PaCat(k, g)
  BY <1>6, <1>7, <1>8, <1>10, <1>11, <1>12, <1>14, PaCatFour
<1>16. CASE k = <<>>
  <2>1. d = g
    BY <1>13, <1>15, <1>16, PaCatEmpty
  <2> QED BY <1>13, <2>1 DEF PaFromNothing
<1>17. CASE k = PaCat(PaOne(PaAlloc("yuy2", len)), <<>>)
  <2>1. k = PaOne(PaAlloc("yuy2", len))
    BY <1>17, PaOneIs, PaCatEmpty
  <2>2. PaFirst(d, PaAlloc("yuy2", len)) /\ Tail(d) = g
    BY <1>13, <1>15, <2>1, PaCatCons
  <2> QED BY <1>13, <2>2 DEF PaFromNothing, PaFromRoom
<1> QED BY <1>14, <1>16, <1>17

\* capture_scaled(), of which every ratio is the PPA's.
LEMMA PaScaledIs ==
    ASSUME "ppa" \notin PaFails, NEW hw \in PaHow(TRUE), NEW d, d = PaScaled(hw)
    PROVE  PaFromNothing(d)
<1>9. hw \in BOOLEAN /\ (hw \/ "ppa" \in PaFails)
  BY DEF PaHow
<1>1. PICK c : c = PaOne(PaClaim(FALSE))
  OBVIOUS
<1>0. PICK len \in Nat : len = 1
  OBVIOUS
<1>2. PICK s : s = PaSrm("dst", "rgb", len, hw)
  OBVIOUS
<1>3. PICK r : r = PaOne(PaGive("dst", "rgb"))
  OBVIOUS
<1>4. d = PaCat(PaCat(c, s), r)
  BY <1>0, <1>1, <1>2, <1>3, Zenon DEF PaScaled, PaCat, PaOne
<1>5. PaSeqs(r) /\ PaFromMem(r, "dst", "rgb") /\ PaSeqs(c)
  BY <1>1, <1>3, PaOneIs DEF PaFromMem, PaLast
<1>6. PICK e : e = PaCat(s, r)
  OBVIOUS
<1>7. PaSeqs(s) /\ PaSeqs(e) /\ PaFromFrame(e)
  <2>1. "dst" \in PaOthers
    BY PaNames
  <2> QED BY <1>2, <1>5, <1>6, <1>9, <2>1, PaSrmIs
<1>8. d = PaCat(c, e)
  BY <1>4, <1>5, <1>6, <1>7, PaCatAssoc
<1> QED BY <1>1, <1>7, <1>8, PaClaimIs DEF PaFromNothing

\* The encoder of a picture that was drawn, or of its copy.
LEMMA PaEncoderIs ==
    ASSUME NEW len \in {0, 1, 3}, NEW d, d = PaEncoder(len)
    PROVE  PaFromNothing(d)
<1>1. PICK form \in PaForms : form = (IF len = 3 THEN "bgr" ELSE "rgb")
  BY DEF PaForms
<1>2. ASSUME NEW r, PaSeqs(r), PaFromHas(r, "dst", "rgb"), d = PaCat(PaOne(PaDraw("dst")), r)
      PROVE  PaFromNothing(d)
  <2>1. PaFirst(d, PaDraw("dst")) /\ Tail(d) = r
    BY <1>2, PaCatCons
  <2> QED BY <1>2, <2>1 DEF PaFromNothing, PaFromDraw
<1>3. CASE len = 0
  <2>1. PICK r : r = PaOne(PaEncode("dst", "rgb"))
    OBVIOUS
  <2>2. d = <<PaDraw("dst")>> \o <<PaEncode("dst", "rgb")>>
    BY <1>3 DEF PaEncoder
  <2>3. d = PaCat(PaOne(PaDraw("dst")), r)
    BY <2>1, <2>2, Zenon DEF PaCat, PaOne
  <2>4. PaSeqs(r) /\ PaFromHas(r, "dst", "rgb")
    BY <2>1, PaOneIs DEF PaFromHas, PaEnds, PaLast
  <2> QED BY <1>2, <2>3, <2>4
<1>4. CASE len # 0
  <2>1. PICK y : y = PaOne(PaEncode("enc", form))
    OBVIOUS
  <2>2. PICK x : x = PaCat(PaOne(PaCpu("dst", "enc", form)), y)
    OBVIOUS
  <2>3. PICK k : k = PaReserves(len)
    OBVIOUS
  <2>4. PICK r : r = PaCat(k, x)
    OBVIOUS
  <2>5. d = PaCat(PaOne(PaDraw("dst")), r)
    <3>1. <<PaCpu("dst", "enc", form), PaEncode("enc", form)>> = x
      BY <2>1, <2>2, PaTwoIs, Zenon
    <3>2. d = <<PaDraw("dst")>> \o (k \o <<PaCpu("dst", "enc", form), PaEncode("enc", form)>>)
      BY <1>1, <1>4, <2>3, Zenon DEF PaEncoder
    <3> QED BY <2>4, <3>1, <3>2, Zenon DEF PaCat, PaOne
  <2>6. PaSeqs(y) /\ PaEnds(y, "enc", form)
    BY <2>1, PaOneIs DEF PaEnds, PaLast
  <2>7. PaSeqs(x) /\ PaConverts(x, "dst")
    BY <2>2, <2>6, PaNames, PaConvertsIs
  <2>8. k = <<>> \/ k = PaOne(PaAlloc("enc", len))
    BY <2>3, Zenon DEF PaReserves, PaOne
  <2>9. CASE k = <<>>
    <3>1. r = x
      BY <2>4, <2>7, <2>9, PaCatEmpty
    <3> QED BY <1>2, <2>5, <2>7, <3>1 DEF PaFromHas
  <2>10. CASE k = PaOne(PaAlloc("enc", len))
    <3>1. PaSeqs(r) /\ PaFirst(r, PaAlloc("enc", len)) /\ Tail(r) = x
      BY <2>4, <2>7, <2>10, PaCatCons
    <3>2. PaKeeping(r, "dst")
      BY <2>7, <3>1 DEF PaKeeping
    <3> QED BY <1>2, <2>5, <3>1, <3>2 DEF PaFromHas
  <2> QED BY <2>8, <2>9, <2>10
<1> QED BY <1>3, <1>4

\* frame(), capture(), the encoder of a frame, and a call ppa refuses.
LEMMA PaFrameIs ==
    PaFromNothing(PaFrame) /\ PaFromNothing(PaCapture) /\ PaFromNothing(PaJpeg) /\ PaFromNothing(PaRefused)
<1>1. PaFromClaim(PaFrame)
  <2>1. PICK d : d = PaFrame
    OBVIOUS
  <2>2. PICK x : x = PaGive("fb", "rgb")
    OBVIOUS
  <2>3. d = <<PaClaim(TRUE), x>>
    BY <2>1, <2>2, Zenon DEF PaFrame
  <2> QED BY <2>1, <2>2, <2>3, PaClaimGives
<1>2. PaFromClaim(PaCapture)
  <2>1. PICK d : d = PaCapture
    OBVIOUS
  <2>2. d = <<PaClaim(TRUE), PaCopy("fb", "bytes"), PaGive("bytes", "rgb")>>
    BY <2>1, Zenon DEF PaCapture
  <2> QED BY <2>1, <2>2, PaClaimGives
<1>3. PaFromClaim(PaJpeg)
  <2>1. PICK d : d = PaJpeg
    OBVIOUS
  <2>2. PICK x : x = PaEncode("fb", "rgb")
    OBVIOUS
  <2>3. d = <<PaClaim(FALSE), x>>
    BY <2>1, <2>2, Zenon DEF PaJpeg
  <2> QED BY <2>1, <2>2, <2>3, PaClaimGives
<1>4. PaFromClaim(PaRefused)
  <2>1. PaRefused = PaOne(PaClaim(FALSE))
    BY Zenon DEF PaRefused, PaOne
  <2>2. PaFirst(PaRefused, PaClaim(FALSE)) /\ Tail(PaRefused) = <<>>
    BY <2>1, PaOneIs
  <2> QED BY <2>2 DEF PaFromClaim
<1> QED BY <1>1, <1>2, <1>3, <1>4 DEF PaFromNothing

\* Every call is right from nothing.
LEMMA PaPlansAre ==
    ASSUME "ppa" \notin PaFails, NEW plan \in PaPlans
    PROVE  PaFromNothing(plan)
<1>1. CASE plan \in {PaFrame, PaRefused}
  BY <1>1, PaFrameIs
<1>2. CASE \E t \in PaReconfigured : \E hw \in PaHow(PaExact(t)) : plan = PaTakes(t, hw)
  <2>1. PICK t \in PaReconfigured : \E hw \in PaHow(PaExact(t)) : plan = PaTakes(t, hw)
    BY <1>2
  <2>2. PICK hw \in PaHow(PaExact(t)) : plan = PaTakes(t, hw)
    BY <2>1
  <2>3. hw \in BOOLEAN /\ (hw \/ ~PaExact(t))
    BY <2>2 DEF PaHow
  <2> QED BY <2>2, <2>3, PaTakesIs
<1>3. CASE \E len \in {1, 2} : \E hw \in PaHow(FALSE) : plan = PaYuy2(len, hw)
  BY <1>3, PaYuy2Is DEF PaHow
<1>4. CASE plan \in {PaCapture, PaJpeg}
  BY <1>4, PaFrameIs
<1>5. CASE \E hw \in PaHow(TRUE) : plan = PaScaled(hw)
  BY <1>5, PaScaledIs
<1>6. CASE \E len \in {0, 1, 3} : plan = PaEncoder(len)
  BY <1>6, PaEncoderIs
<1>7. plan \in {PaFrame, PaRefused} \/ plan \in
        CASE paWith = "take" -> UNION {{PaTakes(t, hw) : hw \in PaHow(PaExact(t))} : t \in PaReconfigured}
          [] paWith = "yuy2" -> UNION {{PaYuy2(len, hw) : hw \in PaHow(FALSE)} : len \in {1, 2}}
          [] OTHER -> {PaCapture, PaJpeg} \cup {PaScaled(hw) : hw \in PaHow(TRUE)}
                      \cup {PaEncoder(len) : len \in {0, 1, 3}}
  BY Zenon DEF PaPlans
<1>8. CASE paWith = "take"
  BY <1>1, <1>2, <1>7, <1>8
<1>9. CASE paWith = "yuy2"
  BY <1>1, <1>3, <1>7, <1>9
<1>10. CASE paWith \notin {"take", "yuy2"}
  BY <1>1, <1>4, <1>5, <1>6, <1>7, <1>10
<1> QED BY <1>8, <1>9, <1>10

\* A call begins, right from nothing, and makes a new object for its bytes.
LEMMA PaBeginsKeep ==
    ASSUME PaShotInv, "ppa" \notin PaFails, NEW plan \in PaPlans, PaBegins(plan)
    PROVE  PaShotInv'
<1>1. /\ PaShaped(paBuf) /\ (\A a \in PaFrames : ~paBuf[a].dirty) /\ paCam \in PaCamera
  BY DEF PaShotInv, PaBase
<1>2. /\ paCam' = paCam /\ paDo' = plan /\ paView' = PaNoView
      /\ paBuf' = [paBuf EXCEPT !["bytes"] = [mem |-> PaBlank, line |-> <<>>, dirty |-> FALSE]]
  BY DEF PaBegins
<1>3. PaOnly(paBuf, paBuf', "bytes", PaBlank, <<>>, FALSE)
  BY <1>1, <1>2, PaNames, PaZeroedIs
<1>4. PaShaped(paBuf') /\ \A a \in PaBufs \ {"bytes"} : paBuf'[a] = paBuf[a]
  BY <1>3 DEF PaOnly
<1>5. PaBase(paBuf', paCam')
  <2>1. \A a \in PaFrames : a \in PaBufs \ {"bytes"}
    BY PaNames
  <2> QED BY <1>1, <1>2, <1>4, <2>1 DEF PaBase
<1>6. PaFromNothing(paDo')
  BY <1>2, PaPlansAre
<1> QED BY <1>2, <1>5, <1>6 DEF PaShotInv, PaAfter, PaPlace, PaShown

\* Nothing is given at first.
LEMMA PaShotBegins ==
    ASSUME PaInit
    PROVE  PaShotInv
<1>1. /\ paBuf = [b \in PaBufs |-> [mem |-> PaBlank, line |-> <<>>, dirty |-> FALSE]]
      /\ paDo = <<>> /\ paView = PaNoView
  BY DEF PaInit
<1>2. PICK M : M = {PaBlank, <<>>}
  OBVIOUS
<1>3. [mem |-> PaBlank, line |-> <<>>, dirty |-> FALSE] \in PaCells(M)
  BY <1>2 DEF PaCells
<1>4. PaShaped(paBuf)
  <2>1. paBuf \in [PaBufs -> PaCells(M)]
    BY <1>1, <1>3
  <2> QED BY <2>1 DEF PaShaped
<1>5. \A a \in PaFrames : ~paBuf[a].dirty
  BY <1>1, PaNames
<1>6. paCam \in PaCamera
  <2>1. PICK old \in BOOLEAN : paCam = [done |-> "f0", ready |-> FALSE, held |-> PaNone, old |-> old]
    BY DEF PaInit
  <2> QED BY <2>1 DEF PaCamera, PaFrames
<1> QED BY <1>1, <1>4, <1>5, <1>6 DEF PaShotInv, PaBase, PaAfter, PaShown

\* What is given is what it should be.
LEMMA PaShotSafe ==
    ASSUME PaShotInv
    PROVE  PaCurrent
<1> SUFFICES ASSUME paView # PaNoView, paDo = <<>>
             PROVE  /\ PaSees(paView.b) = paView.is
                    /\ paView.b = "dst" => paBuf["dst"].mem = paView.is
  BY DEF PaCurrent
<1>1. PaShown(paBuf, paCam, paView)
  BY DEF PaShotInv, PaAfter
<1>2. PICK b \in PaBufs, f \in PaForms : b = paView.b /\ paView.is = <<1, f>> /\ PaHas(paBuf, b, <<1, f>>)
  BY <1>1 DEF PaShown
<1>3. PaSees(b) = <<1, f>>
  BY <1>2, PaSeen
<1>4. b = "dst" => paBuf["dst"].mem = <<1, f>>
  BY <1>1, <1>2 DEF PaShown, PaHas
<1> QED BY <1>2, <1>3, <1>4

\* Each step of a call, of its frames and of the cache keeps it right.
LEMMA PaShootsKeep ==
    ASSUME PaSynced, PaShotInv, PaShoots
    PROVE  PaShotInv'
<1>0. "out" \in PaSyncs /\ "ppa" \notin PaFails /\ "engine" \notin PaFails /\ ~PaEdits
  BY DEF PaSynced
<1>1. CASE \E plan \in PaPlans : PaBegins(plan)
  BY <1>0, <1>1, PaBeginsKeep
<1>2. CASE \E b \in PaBufs : PaArrives(b)
  BY <1>2, PaArrivesKeeps
<1>3. CASE \E b \in PaBufs \ {"bytes"} : PaEvict(b)
  BY <1>3, PaEvictKeeps
<1>4. CASE PaClaims \/ PaTimesOut \/ PaDraws \/ PaAllocates \/ PaAllocFails
  BY <1>0, <1>4, PaClaimsKeep, PaTimesOutKeeps, PaDrawsKeep, PaAllocatesKeep, PaAllocFailsKeeps
<1>5. CASE PaPpaWorks \/ PaCpuWorks \/ PaMsync \/ PaGives
  BY <1>0, <1>5, PaPpaKeeps, PaCpuKeeps, PaMsyncKeeps, PaGivesKeep
<1>6. CASE \E hw \in BOOLEAN : PaEncodes(hw)
  BY <1>0, <1>6, PaEncodesKeep
<1>7. CASE \E edits \in BOOLEAN : PaUses(edits)
  BY <1>0, <1>7, PaUsesKeep
<1> QED BY <1>1, <1>2, <1>3, <1>4, <1>5, <1>6, <1>7 DEF PaShoots

\* Of the steps of a thread none touches a call of the camera.
LEMMA PaThreadDoesAlone ==
    ASSUME PaThreadDoes
    PROVE  paOfShot' = paOfShot
<1>1. ASSUME NEW t, NEW mode, NEW op, PaCalls(t, mode, op) PROVE paOfShot' = paOfShot
  BY <1>1 DEF PaCalls, PaOtherwise
<1>2. ASSUME NEW t, NEW longer, PaEnters(t, longer) PROVE paOfShot' = paOfShot
  BY <1>2 DEF PaEnters, PaOtherwise
<1>3. ASSUME NEW t, PaRegisters(t) \/ PaSubmits(t) \/ PaWorked(t) \/ PaFinishes(t) PROVE paOfShot' = paOfShot
  BY <1>3 DEF PaRegisters, PaSubmits, PaWorked, PaFinishes, PaOtherwise
<1>4. ASSUME NEW t, PaSoftware(t) \/ PaReturns(t) \/ PaRaises(t) PROVE paOfShot' = paOfShot
  BY <1>4 DEF PaSoftware, PaReturns, PaRaises, PaOtherwise
<1> QED BY <1>1, <1>2, <1>3, <1>4 DEF PaThreadDoes

\* Every step keeps it.
LEMMA PaShotKeeps ==
    ASSUME PaSynced, PaShotInv, [PaNext]_paVars
    PROVE  PaShotInv'
<1>0. ASSUME paOfShot' = paOfShot PROVE PaShotInv'
  BY <1>0 DEF paOfShot, PaShotInv
<1>1. CASE PaShoots
  BY <1>1, PaShootsKeep
<1>2. CASE PaThreadDoes
  BY <1>0, <1>2, PaThreadDoesAlone
<1>3. CASE PaAsks
  BY <1>0, <1>3 DEF PaAsks
<1>4. CASE UNCHANGED paVars
  BY <1>0, <1>4 DEF paVars, paOfShot
<1> QED BY <1>1, <1>2, <1>3, <1>4, PaNextIs

\* What a call of the camera gave is the newest frame there was when it claimed one, in the
\* form asked, until the next call, whatever the cache does: for any call, any lengths kept
\* from the ones before, any ratio, and either kind of chip. (wait_frame, take)
THEOREM PaGivesTheFrame == PaSynced => (PaSpec => []PaCurrent)
<1> SUFFICES ASSUME PaSynced PROVE PaSpec => []PaCurrent
  OBVIOUS
<1>1. PaInit => PaShotInv
  BY PaShotBegins
<1>2. PaShotInv /\ [PaNext]_paVars => PaShotInv'
  BY PaShotKeeps
<1>3. PaShotInv => PaCurrent
  BY PaShotSafe
<1> QED BY <1>1, <1>2, <1>3, PTL DEF PaSpec

\* All that PpaPictures promises.
THEOREM PaKeepsThePicture == PaPlain => (PaSpec => []PaSafe)
<1> SUFFICES ASSUME PaPlain PROVE PaSpec => []PaSafe
  OBVIOUS
<1>1. PaSynced /\ ~PaShares
  BY DEF PaPlain
<1>2. PaSpec => [](PaFits /\ PaTaken /\ PaMapped)
  BY PaPixelsFit
<1>3. PaSpec => [](PaOwn /\ PaTold)
  BY <1>1, PaThreadsOwn
<1>4. PaSpec => []PaCurrent
  BY <1>1, PaGivesTheFrame
<1>5. PaCurrent /\ (PaOwn /\ PaTold) /\ (PaFits /\ PaTaken /\ PaMapped) => PaSafe
  BY DEF PaSafe
<1> QED BY <1>2, <1>3, <1>4, <1>5, PTL

\* A camera keeps what it promises, from its buffers to the picture the program has.
THEOREM CameraKeepsItsPromises == CtPlain /\ PaPlain => (CbSpec /\ CtSpec /\ PaSpec => []CameraSafe)
<1> SUFFICES ASSUME CtPlain, PaPlain PROVE CbSpec /\ CtSpec /\ PaSpec => []CameraSafe
  OBVIOUS
<1>1. CbSpec => []CbSafe
  BY CbKeepsApart
<1>2. CtSpec => []CtSafe
  BY CtKeepsThePicture
<1>3. PaSpec => []PaSafe
  BY PaKeepsThePicture
<1>4. CbSafe /\ CtSafe /\ PaSafe => CameraSafe
  BY DEF CameraSafe
<1> QED BY <1>1, <1>2, <1>3, <1>4, PTL
=============================================================================
