-------------------------- MODULE TwoSides_proofs ---------------------------
(***************************************************************************)
(* What two sides that share memory, with no lock around it all, owe each  *)
(* other: the event queue between the host and the interpreter, the two    *)
(* buffers and the segments of castif.Hls between the encoder and the      *)
(* server, and btaudio's ring and link between its callbacks and the       *)
(* program; for any sizes, frames, clients and widths of their words.      *)
(***************************************************************************)
EXTENDS EventRing, HlsHandover, HlsSegments, BtAudio,
        SequenceTheorems, FiniteSetTheorems, TLAPS

-----------------------------------------------------------------------------
(***************************************************************************)
(* The event queue for every capacity, every set of records, every limit a *)
(* drain may be given and every width of the `dropped` word: no record is  *)
(* torn, no overflow is made up, and the ring implements the bounded queue.*)
(*                                                                         *)
(* What is inductive is that each side's judgement stays true while the    *)
(* other moves: a producer that found room still has it, a consumer that   *)
(* found a record still has it, and neither's slot is the other's.         *)
(***************************************************************************)

\* What each side has judged or moved so far still holds.
Judged ==
    /\ ppc # "idle" => running /\ event \in Event
    /\ ppc = "publish" => slots[head] = event
    /\ cpc = "advance" => out = slots[tail]

\* The losses that a later drain may still tell of: the one being counted, and
\* the one that a count other than 0 stands for.
Counting == IF ppc \in {"drop", "bump"} THEN 1 ELSE 0
Counted == IF (cpc = "clear" /\ count # 0) \/ (cpc # "clear" /\ dropped # 0) THEN 1 ELSE 0

\* No more reports than losses, those still to be told of counted.
ReportsPaid == reports + Counting + Counted <= lost

\* The inductive invariant.
IInv == TypeOK /\ NoTornRecord /\ Judged /\ ReportsPaid

-----------------------------------------------------------------------------
\* Index arithmetic.

\* The slots queued are distinct from one another and from the head's.
LEMMA IndexFacts ==
    ASSUME TypeOK
    PROVE  /\ Count \in 0 .. Capacity - 1
           /\ \A k \in 0 .. Capacity - 1 : At(k) \in Index
           /\ \A k \in 0 .. Count - 1 : At(k) # head
           /\ At(0) = tail /\ At(Count) = head
           /\ Count = 0 <=> head = tail
           /\ Count = Capacity - 1 <=> next_index(head) = tail
BY EventRingAssumption DEF TypeOK, Count, At, Index, next_index

\* Publishing adds the head's slot to the queued ones.
LEMMA PublishFacts ==
    ASSUME TypeOK, next_index(head) # tail, head' = next_index(head), tail' = tail
    PROVE  /\ head' \in Index
           /\ Count' = Count + 1
           /\ \A k \in 0 .. Capacity - 1 : At(k)' = At(k)
BY EventRingAssumption DEF TypeOK, Count, At, Index, next_index

\* Advancing takes away the tail's slot.
LEMMA AdvanceFacts ==
    ASSUME TypeOK, tail # head, tail' = next_index(tail), head' = head
    PROVE  /\ tail' \in Index
           /\ Count' = Count - 1
           /\ \A k \in 0 .. Count - 2 : At(k)' = At(k + 1)
           /\ next_index(head') # tail'
BY EventRingAssumption DEF TypeOK, Count, At, Index, next_index

-----------------------------------------------------------------------------
\* The invariant.

\* It holds of a ring not yet started.
LEMMA InitInv == Init => IInv
<1>. SUFFICES ASSUME Init PROVE IInv
  OBVIOUS
<1>1. 0 \in Index /\ 0 \in 0 .. Word - 1
  BY EventRingAssumption DEF Index
<1>2. TypeOK
  BY <1>1 DEF Init, TypeOK
<1>3. NoTornRecord
  <2>1. Count = 0
    BY DEF Init, Count
  <2> QED BY <2>1 DEF Init, NoTornRecord
<1>4. Judged /\ ReportsPaid
  BY DEF Init, Judged, ReportsPaid, Counting, Counted
<1> QED BY <1>2, <1>3, <1>4 DEF IInv

\* Starting and stopping the queue keep it.
LEMMA InterpreterStep ==
    ASSUME IInv, Start \/ Stop
    PROVE  IInv'
<1>. USE EventRingAssumption
<1>1. CASE Start
  <2>1. ppc = "idle" /\ cpc = "idle" /\ Count' = 0
    BY <1>1 DEF Start, IInv, Judged, TypeOK, Count
  <2>2. TypeOK'
    <3>1. 0 \in Index /\ 0 \in 0 .. Word - 1
      BY DEF Index
    <3>2. head' \in Index /\ tail' \in Index /\ dropped' \in 0 .. Word - 1 /\ untold' \in BOOLEAN
      BY <1>1, <3>1 DEF Start
    <3>3. running' \in BOOLEAN
      BY <1>1 DEF Start
    <3> QED BY <1>1, <3>2, <3>3 DEF Start, IInv, TypeOK, producerVars, consumerVars
  <2>3. NoTornRecord' /\ Judged'
    BY <1>1, <2>1 DEF Start, NoTornRecord, Judged, producerVars, consumerVars
  <2>4. ReportsPaid'
    BY <1>1, <2>1 DEF Start, IInv, ReportsPaid, Counting, Counted, TypeOK, producerVars, consumerVars
  <2> QED BY <2>2, <2>3, <2>4 DEF IInv
<1>2. CASE Stop
  <2>1. TypeOK'
    BY <1>2 DEF Stop, IInv, TypeOK, ringVars, producerVars, consumerVars, history
  <2>2. NoTornRecord' /\ Judged'
    BY <1>2 DEF Stop, IInv, NoTornRecord, Judged, Count, At, ringVars, producerVars, consumerVars
  <2>3. ReportsPaid'
    BY <1>2 DEF Stop, IInv, ReportsPaid, Counting, Counted, ringVars, producerVars, consumerVars, history
  <2> QED BY <2>1, <2>2, <2>3 DEF IInv
<1> QED BY <1>1, <1>2

\* So does each step of an emit.
LEMMA ProducerStep ==
    ASSUME IInv, Producer
    PROVE  IInv'
<1>. USE EventRingAssumption DEF IInv
<1>1. CASE Look
  <2>1. TypeOK'
    <3>1. CASE next_index(head) = tail
      BY <1>1, <3>1 DEF Look, TypeOK, ringVars, consumerVars
    <3>2. CASE next_index(head) # tail
      BY <1>1, <3>2 DEF Look, TypeOK, ringVars, consumerVars
    <3> QED BY <3>1, <3>2
  <2>2. NoTornRecord' /\ Judged'
    BY <1>1 DEF Look, NoTornRecord, Judged, Count, At, ringVars, consumerVars
  <2>3. ReportsPaid'
    BY <1>1 DEF Look, TypeOK, ReportsPaid, Counting, Counted, ringVars, consumerVars
  <2> QED BY <2>1, <2>2, <2>3
<1>2. CASE LoadDropped
  BY <1>2 DEF LoadDropped, TypeOK, NoTornRecord, Judged, ReportsPaid, Counting, Counted, Count, At,
     ringVars, consumerVars, history
<1>3. CASE StoreDropped
  <2>1. (seen + 1) % Word \in 0 .. Word - 1
    BY DEF TypeOK
  <2>2. TypeOK' /\ NoTornRecord' /\ Judged'
    BY <1>3, <2>1 DEF StoreDropped, TypeOK, NoTornRecord, Judged, Count, At, consumerVars, history
  <2>3. ReportsPaid'
    BY <1>3 DEF StoreDropped, TypeOK, ReportsPaid, Counting, Counted, consumerVars, history
  <2> QED BY <2>2, <2>3
<1>4. CASE Write
  <2>1. /\ \A k \in 0 .. Count - 1 : At(k) \in Index /\ At(k) # head
        /\ tail # head => slots'[tail] = slots[tail]
        /\ slots'[head] = event /\ event \in Event
    BY <1>4, IndexFacts DEF Write, TypeOK, Judged
  <2>2. Count' = Count /\ \A k \in 0 .. Count - 1 : At(k)' = At(k)
    BY <1>4 DEF Write, Count, At
  <2>3. TypeOK'
    <3>1. slots' \in [Index -> Event \cup {None}]
      BY <1>4, <2>1 DEF Write, TypeOK
    <3> QED BY <1>4, <3>1 DEF Write, TypeOK, consumerVars, history
  <2>4. NoTornRecord'
    BY <1>4, <2>1, <2>2 DEF Write, TypeOK, NoTornRecord, consumerVars
  <2>5. Judged' /\ ReportsPaid'
    BY <1>4, <2>1 DEF Write, NoTornRecord, Judged, ReportsPaid, Counting, Counted, consumerVars, history
  <2> QED BY <2>3, <2>4, <2>5
<1>5. CASE Publish
  <2>1. next_index(head) # tail /\ head' = next_index(head) /\ tail' = tail /\ slots' = slots
    BY <1>5 DEF Publish, NoTornRecord
  <2>2. /\ head' \in Index /\ Count' = Count + 1
        /\ \A k \in 0 .. Capacity - 1 : At(k)' = At(k)
    BY <2>1, PublishFacts
  <2>3. slots[At(Count)] \in Event /\ Count \in 0 .. Capacity - 1
    BY <1>5, IndexFacts DEF Publish, Judged
  <2>4. TypeOK'
    BY <1>5, <2>2 DEF Publish, TypeOK, consumerVars, history
  <2>5. \A k \in 0 .. Count' - 1 : slots'[At(k)'] \in Event
    <3>1. Count \in 0 .. Capacity - 2
      BY <1>5, <2>1, <2>3, IndexFacts
    <3> QED BY <2>1, <2>2, <2>3, <3>1 DEF NoTornRecord
  <2>6. cpc \in {"copy", "advance"} => tail # head'
    BY <2>1 DEF NoTornRecord
  <2>7. NoTornRecord'
    BY <1>5, <2>1, <2>5, <2>6 DEF Publish, NoTornRecord, consumerVars
  <2>8. Judged' /\ ReportsPaid'
    BY <1>5 DEF Publish, Judged, ReportsPaid, Counting, Counted, consumerVars, history
  <2> QED BY <2>4, <2>7, <2>8
<1> QED BY <1>1, <1>2, <1>3, <1>4, <1>5 DEF Producer

\* And each step of a drain.
LEMMA ConsumerStep ==
    ASSUME IInv, Consumer
    PROVE  IInv'
<1>. USE EventRingAssumption DEF IInv
<1>1. CASE Drain \/ Pop \/ Copy \/ TakeDropped
  <2>1. TypeOK'
    <3>1. CASE Drain
      BY <1>1, <3>1 DEF Drain, TypeOK, ringVars, producerVars, history
    <3>2. CASE Pop
      BY <1>1, <3>2 DEF Pop, TypeOK, ringVars, producerVars, history
    <3>3. CASE Copy
      BY <1>1, <3>3 DEF Copy, TypeOK, ringVars, producerVars, history
    <3>4. CASE TakeDropped
      BY <1>1, <3>4 DEF TakeDropped, TypeOK, ringVars, producerVars, history
    <3> QED BY <1>1, <3>1, <3>2, <3>3, <3>4
  <2>2. NoTornRecord'
    BY <1>1 DEF Drain, Pop, Copy, TakeDropped, NoTornRecord, Count, At, ringVars, producerVars
  <2>3. Judged' /\ ReportsPaid'
    BY <1>1 DEF Drain, Pop, Copy, TakeDropped, Judged, ReportsPaid, Counting, Counted,
                ringVars, producerVars, history
  <2> QED BY <2>1, <2>2, <2>3
<1>2. CASE Advance
  <2>1. tail # head /\ tail' = next_index(tail) /\ head' = head /\ slots' = slots
    BY <1>2 DEF Advance, NoTornRecord
  <2>2. /\ tail' \in Index /\ Count' = Count - 1
        /\ \A k \in 0 .. Count - 2 : At(k)' = At(k + 1)
        /\ next_index(head') # tail'
    BY <2>1, AdvanceFacts
  <2>3. Count \in 0 .. Capacity - 1
    BY IndexFacts
  <2>4. TypeOK'
    BY <1>2, <2>1, <2>2 DEF Advance, TypeOK, producerVars
  <2>5. NoTornRecord'
    BY <1>2, <2>1, <2>2, <2>3 DEF Advance, NoTornRecord, producerVars
  <2>6. Judged' /\ ReportsPaid'
    BY <1>2 DEF Advance, Judged, ReportsPaid, Counting, Counted, producerVars
  <2> QED BY <2>4, <2>5, <2>6
<1>3. CASE ClearDropped
  <2>1. TypeOK'
    <3>1. 0 \in 0 .. Word - 1
      OBVIOUS
    <3>2. dropped' = 0 /\ cpc' = "idle" /\ UNCHANGED <<slots, head, tail, running, producerVars>>
      BY <1>3 DEF ClearDropped
    <3>3. UNCHANGED <<left, out, count, last, lost, emits>>
      BY <1>3 DEF ClearDropped
    <3>4. reports' \in Nat
      BY <1>3 DEF ClearDropped, TypeOK
    <3>5. untold' \in BOOLEAN
      BY <1>3 DEF ClearDropped, TypeOK
    <3> QED BY <3>1, <3>2, <3>3, <3>4, <3>5 DEF TypeOK, producerVars
  <2>3. NoTornRecord' /\ Judged'
    BY <1>3 DEF ClearDropped, NoTornRecord, Judged, Count, At, producerVars
  <2>2. ReportsPaid'
    BY <1>3 DEF ClearDropped, TypeOK, ReportsPaid, Counting, Counted, producerVars
  <2> QED BY <2>1, <2>2, <2>3
<1> QED BY <1>1, <1>2, <1>3 DEF Consumer

\* The invariant of every behaviour.
LEMMA Invariance == Spec => []IInv
<1>1. ASSUME IInv, [Next]_vars PROVE IInv'
  <2>1. CASE UNCHANGED vars
    BY <1>1, <2>1 DEF vars, ringVars, producerVars, consumerVars, history, IInv, TypeOK, NoTornRecord,
       Judged, ReportsPaid, Counting, Counted, Count, At
  <2> QED BY <1>1, <2>1, InterpreterStep, ProducerStep, ConsumerStep DEF Next
<1> QED BY <1>1, InitInv, PTL DEF Spec

\* The ring's words and both sides' locals stay in range.
THEOREM TypeCorrect == Spec => []TypeOK
BY Invariance, PTL DEF IInv

\* No slot is copied while it is written, and every queued slot is written.
THEOREM RecordsAreWhole == Spec => []NoTornRecord
BY Invariance, PTL DEF IInv

\* A drain tells of an overflow at most as often as a record was lost, although
\* the producer's increment and the consumer's clearing interleave.
THEOREM OverflowsAreReal == Spec => []NoFalseAlarm
<1>1. IInv => NoFalseAlarm
  BY DEF IInv, TypeOK, ReportsPaid, Counting, Counted, NoFalseAlarm
<1> QED BY <1>1, Invariance, PTL

-----------------------------------------------------------------------------
\* The refinement.

\* The abstract queue is the slots from the tail on.
LEMMA WaitingFacts ==
    ASSUME IInv
    PROVE  /\ Waiting \in Seq(Event)
           /\ Len(Waiting) = Count
           /\ \A k \in 1 .. Count : Waiting[k] = slots[At(k - 1)]
<1>1. Count \in Nat
  BY IndexFacts, EventRingAssumption DEF IInv
<1>2. \A k \in 1 .. Count : slots[At(k - 1)] \in Event
  BY <1>1 DEF IInv, NoTornRecord
<1> QED BY <1>1, <1>2 DEF Waiting

\* It is a sequence of records as long as the ring's count.
WaitingOK == Waiting \in Seq(Event) /\ Len(Waiting) = Count

\* ... after a step as before it.
LEMMA WaitingNext == IInv' => WaitingOK'
<1>1. IInv => WaitingOK
  BY WaitingFacts DEF WaitingOK
<1> QED BY <1>1, PTL

\* The ring begins as the empty queue does.
LEMMA FifoInit == Init => Fifo!Init
<1>. SUFFICES ASSUME Init PROVE Fifo!Init
  OBVIOUS
<1>1. Waiting = <<>>
  <2>1. Count = 0
    BY DEF Init, Count
  <2> QED BY <2>1, InitInv, WaitingFacts
<1> QED BY <1>1 DEF Init, Fifo!Init

\* Each step of the ring is a step of the queue, or none.
LEMMA FifoStep ==
    ASSUME IInv, IInv', [Next]_vars
    PROVE  [Fifo!Next]_(Fifo!fifoVars)
<1>. USE EventRingAssumption
<1>. DEFINE Same == head' = head /\ tail' = tail /\ \A k \in 0 .. Count - 1 : slots'[At(k)] = slots[At(k)]
<1>1. ASSUME Same PROVE Waiting' = Waiting
  <2>1. Count' = Count /\ \A k \in 0 .. Count - 1 : At(k)' = At(k)
    BY <1>1 DEF Count, At
  <2>2. Count \in Nat
    BY IndexFacts DEF IInv
  <2>3. \A k \in 1 .. Count : slots'[At(k - 1)'] = slots[At(k - 1)]
    BY <1>1, <2>1, <2>2
  <2> QED BY <2>1, <2>3 DEF Waiting
<1>2. CASE Start
  <2>1. Count' = 0
    BY <1>2 DEF Start, Count
  <2>2. Waiting' = <<>>
    BY <2>1 DEF Waiting
  <2> QED BY <1>2, <2>2 DEF Start, Fifo!Next, Fifo!Restart
<1>3. CASE Stop
  BY <1>1, <1>3 DEF Stop, ringVars, history, Fifo!Next, Fifo!Halt
<1>4. CASE Look
  <2>1. Waiting' = Waiting
    BY <1>1, <1>4 DEF Look, ringVars
  <2>2. CASE next_index(head) = tail
    <3>1. Len(Waiting) = Capacity - 1
      BY <2>2, WaitingFacts, IndexFacts DEF IInv
    <3> QED BY <1>4, <2>1, <2>2, <3>1 DEF Look, Fifo!Next, Fifo!TurnAway
  <2>3. CASE next_index(head) # tail
    BY <1>4, <2>1, <2>3 DEF Look, Fifo!fifoVars
  <2> QED BY <2>2, <2>3
<1>5. CASE LoadDropped \/ StoreDropped
  BY <1>1, <1>5 DEF LoadDropped, StoreDropped, ringVars, history, Fifo!fifoVars
<1>6. CASE Write
  <2>1. Same
    BY <1>6, IndexFacts DEF Write, IInv, TypeOK
  <2> QED BY <1>1, <1>6, <2>1 DEF Write, history, Fifo!fifoVars
<1>7. CASE Publish
  <2>1. next_index(head) # tail /\ head' = next_index(head) /\ tail' = tail /\ slots' = slots
    BY <1>7 DEF Publish, IInv, NoTornRecord
  <2>2. /\ Count' = Count + 1 /\ Count \in 0 .. Capacity - 1 /\ Count # Capacity - 1
        /\ \A k \in 0 .. Capacity - 1 : At(k)' = At(k)
        /\ At(Count) = head
    BY <2>1, PublishFacts, IndexFacts DEF IInv
  <2>3. slots[head] = event /\ event \in Event /\ running
    BY <1>7 DEF Publish, IInv, Judged
  <2>4. Waiting \in Seq(Event) /\ Len(Waiting) = Count
    BY WaitingFacts
  <2>5. Waiting' = [k \in 1 .. Count + 1 |-> slots[At(k - 1)]]
    BY <2>1, <2>2 DEF Waiting
  <2>6. \A k \in 1 .. Count + 1 : slots[At(k - 1)] = Append(Waiting, event)[k]
    <3>. SUFFICES ASSUME NEW k \in 1 .. Count + 1
                  PROVE  slots[At(k - 1)] = Append(Waiting, event)[k]
      OBVIOUS
    <3>1. CASE k = Count + 1
      BY <2>2, <2>3, <2>4, <3>1
    <3>2. CASE k # Count + 1
      BY <2>2, <2>4, <3>2, WaitingFacts
    <3> QED BY <3>1, <3>2
  <2>7. Waiting' = Append(Waiting, event)
    <3>1. Append(Waiting, event) \in Seq(Event) /\ Len(Append(Waiting, event)) = Count + 1
      BY <2>2, <2>3, <2>4
    <3>2. Waiting' \in Seq(Event) /\ Len(Waiting') = Count + 1
      BY <2>2, WaitingNext DEF WaitingOK
    <3>3. \A k \in 1 .. Len(Waiting') : Waiting'[k] = Append(Waiting, event)[k]
      BY <2>5, <2>6, <3>2
    <3> QED BY <3>1, <3>2, <3>3, SeqEqual
  <2> QED BY <1>7, <2>2, <2>3, <2>4, <2>7 DEF Publish, history, Fifo!Next, Fifo!Accept
<1>8. CASE Drain \/ Pop \/ Copy \/ TakeDropped \/ ClearDropped
  BY <1>1, <1>8 DEF Drain, Pop, Copy, TakeDropped, ClearDropped, ringVars, history, Fifo!fifoVars
<1>9. CASE Advance
  <2>1. tail # head /\ tail' = next_index(tail) /\ head' = head /\ slots' = slots
    BY <1>9 DEF Advance, IInv, NoTornRecord
  <2>2. /\ Count' = Count - 1 /\ Count \in 1 .. Capacity - 1 /\ At(0) = tail
        /\ \A k \in 0 .. Count - 2 : At(k)' = At(k + 1)
    BY <2>1, AdvanceFacts, IndexFacts DEF IInv
  <2>3. Waiting \in Seq(Event) /\ Len(Waiting) = Count
    BY WaitingFacts
  <2>4. Waiting' = [k \in 1 .. Count - 1 |-> slots[At(k)]]
    <3>1. \A k \in 1 .. Count - 1 : slots'[At(k - 1)'] = slots[At(k)]
      BY <2>1, <2>2
    <3> QED BY <2>2, <3>1 DEF Waiting
  <2>5. \A k \in 1 .. Count - 1 : slots[At(k)] = Tail(Waiting)[k]
    <3>. SUFFICES ASSUME NEW k \in 1 .. Count - 1 PROVE slots[At(k)] = Tail(Waiting)[k]
      OBVIOUS
    <3>1. Waiting[k + 1] = slots[At(k)]
      <4>1. k + 1 \in 1 .. Count /\ (k + 1) - 1 = k
        BY <2>2
      <4> QED BY <4>1, WaitingFacts
    <3> QED BY <2>2, <2>3, <3>1
  <2>6. Waiting' = Tail(Waiting)
    <3>1. Tail(Waiting) \in Seq(Event) /\ Len(Tail(Waiting)) = Count - 1
      BY <2>2, <2>3
    <3>2. Waiting' \in Seq(Event) /\ Len(Waiting') = Count - 1
      BY <2>2, WaitingNext DEF WaitingOK
    <3>3. \A k \in 1 .. Len(Waiting') : Waiting'[k] = Tail(Waiting)[k]
      BY <2>4, <2>5, <3>2
    <3> QED BY <3>1, <3>2, <3>3, SeqEqual
  <2>7. last' = Head(Waiting) /\ Waiting # <<>>
    BY <1>9, <2>2, <2>3, WaitingFacts DEF Advance, IInv, Judged
  <2> QED BY <1>9, <2>6, <2>7 DEF Advance, Fifo!Next, Fifo!HandOut
<1>10. CASE UNCHANGED vars
  BY <1>1, <1>10 DEF vars, ringVars, history, Fifo!fifoVars
<1> QED BY <1>2, <1>3, <1>4, <1>5, <1>6, <1>7, <1>8, <1>9, <1>10 DEF Next, Producer, Consumer

\* The two indices implement the bounded queue: first in first out, whole, each
\* record once, and none turned away unless Capacity - 1 are waiting.
THEOREM ImplementsFifo == Spec => FifoSpec
BY FifoInit, FifoStep, Invariance, PTL DEF Spec, FifoSpec, Fifo!Spec


-----------------------------------------------------------------------------
(***************************************************************************)
(* The two-buffer handover of castif.Hls, for any number of frames.        *)
(* Inductive is who owns which buffer between any two stores.              *)
(***************************************************************************)

\* The state between any two stores: each action keeps who owns which buffer.
LEMMA HoInitOwned == HoInit => HoOwned
<1> SUFFICES ASSUME HoInit PROVE HoOwned
  OBVIOUS
<1>1. HoTypeOK
  BY DEF HoInit, HoTypeOK
<1>2. HoFlags /\ HoPointers
  BY DEF HoInit, HoFlags, HoPointers
<1>3. HoPictures
  BY DEF HoInit, HoPictures
<1> QED
  BY <1>1, <1>2, <1>3 DEF HoOwned

\* Every step of the task and the program keeps who owns which buffer.
LEMMA HoStepOwned == HoOwned /\ [HoNext]_hoVars => HoOwned'
<1> SUFFICES ASSUME HoOwned, [HoNext]_hoVars PROVE HoOwned'
  OBVIOUS
<1> USE DEF HoOwned, HoTypeOK, HoFlags, HoPointers, HoPictures
<1>1. CASE HoOffer
  BY <1>1 DEF HoOffer, HoMayTake
<1>2. CASE HoClaims
  BY <1>2 DEF HoClaims
<1>3. CASE HoCopies
  BY <1>3 DEF HoCopies
<1>4. CASE HoPublishes
  BY <1>4 DEF HoPublishes
<1>5. CASE HoTop
  BY <1>5 DEF HoTop
<1>6. CASE HoSwaps
  BY <1>6 DEF HoSwaps
<1>7. CASE HoSwappedBack
  BY <1>7 DEF HoSwappedBack, HoStores, HoStale
<1>8. CASE HoOpens
  BY <1>8 DEF HoOpens, HoStores, HoWanted
<1>9. CASE HoEncodes
  BY <1>9 DEF HoEncodes
<1>10. CASE UNCHANGED hoVars
  BY <1>10 DEF hoVars
<1> QED
  BY <1>1, <1>2, <1>3, <1>4, <1>5, <1>6, <1>7, <1>8, <1>9, <1>10
  DEF HoNext, HoPyStep, HoTaskStep

\* Between any two stores of the two cores, the flags, the pointers and the
\* pictures agree about who owns which buffer.
THEOREM HandoverIsOwned == HoSpec => []HoOwned
  BY HoInitOwned, HoStepOwned, PTL DEF HoSpec

\* The task never encodes the buffer offer() is copying into.
THEOREM HandoverNeverTears == HoSpec => []HoNeverTorn
<1>1. HoOwned => HoNeverTorn
  BY DEF HoOwned, HoFlags, HoPointers, HoNeverTorn
<1> QED
  BY <1>1, HandoverIsOwned, PTL

\* Every frame offer() takes is encoded, in the order taken, none skipped.
THEOREM HandoverShowsEach == HoSpec => HoEachShown
<1>1. HoOwned /\ [HoNext]_hoVars => [hoShown' # hoShown => hoShown' = hoShown + 1]_hoVars
  <2> SUFFICES ASSUME HoOwned, [HoNext]_hoVars, hoShown' # hoShown
               PROVE  hoShown' = hoShown + 1
    OBVIOUS
  <2>1. HoEncodes
    BY DEF HoNext, HoPyStep, HoTaskStep, HoOffer, HoClaims, HoCopies, HoPublishes,
           HoTop, HoSwaps, HoSwappedBack, HoOpens, hoVars
  <2> QED
    BY <2>1 DEF HoEncodes, HoOwned, HoTypeOK, HoPictures
<1> QED
  BY <1>1, HandoverIsOwned, PTL DEF HoSpec, HoEachShown

-----------------------------------------------------------------------------
(***************************************************************************)
(* The segments. Inductive is that a slot's count is the number of clients *)
(* that are sent it, so that only a slot nobody is sent is cut over.       *)
(***************************************************************************)

\* The clients that are sent slot k.
HsOn(k) == {c \in HsClients : hsCl[c].seg = k}

\* What each variable holds.
HsTypeOK ==
    /\ hsSeg \in [HsSlots -> [seq : Nat, start : Nat, dur : Nat, st : {"empty", "open", "done"},
                              busy : Nat, born : Nat]]
    /\ hsCur \in {0} \cup HsSlots /\ hsNext \in Nat /\ hsPts \in Nat /\ hsTime \in Nat
    /\ hsCl \in [HsClients -> [st : {"free", "asks", "sends"}, seg : {0} \cup HsSlots, seq : Nat]]

\* The open slot is the one being written, and a client has a slot while it is sent it.
HsHeld ==
    /\ hsCur # 0 => hsSeg[hsCur].st = "open"
    /\ \A c \in HsClients : hsCl[c].st = "sends" <=> hsCl[c].seg # 0

\* The inductive invariant.
HsInv == HsTypeOK /\ HsHeld /\ HsSentIsKept

\* They are finitely many, and none when their number is 0.
LEMMA HsCounts ==
    ASSUME NEW k
    PROVE  /\ IsFiniteSet(HsOn(k)) /\ Cardinality(HsOn(k)) \in Nat
           /\ Cardinality(HsOn(k)) = 0 <=> HsOn(k) = {}
<1>1. HsOn(k) \in SUBSET HsClients
  BY DEF HsOn
<1>2. IsFiniteSet(HsOn(k))
  BY <1>1, HsAssumption, FS_Subset
<1> QED BY <1>2, FS_CardinalityType, FS_EmptySet

\* A client that moves from one row to another moves one count down and one up.
LEMMA HsRowMoves ==
    ASSUME HsTypeOK, NEW c \in HsClients, NEW row, hsCl' = [hsCl EXCEPT ![c] = row], NEW k
    PROVE  Cardinality({d \in HsClients : hsCl'[d].seg = k}) =
              Cardinality(HsOn(k)) - (IF hsCl[c].seg = k THEN 1 ELSE 0)
                                   + (IF row.seg = k THEN 1 ELSE 0)
<1> DEFINE Rest == HsOn(k) \ {c}
           Now == {d \in HsClients : hsCl'[d].seg = k}
<1>1. IsFiniteSet(HsOn(k)) /\ Cardinality(HsOn(k)) \in Nat
  BY HsCounts
<1>2. /\ IsFiniteSet(Rest)
      /\ Cardinality(Rest) = IF c \in HsOn(k) THEN Cardinality(HsOn(k)) - 1 ELSE Cardinality(HsOn(k))
  BY <1>1, FS_RemoveElement
<1>3. c \in HsOn(k) <=> hsCl[c].seg = k
  BY DEF HsOn
<1>4. Now = IF row.seg = k THEN Rest \cup {c} ELSE Rest
  BY DEF HsOn, HsTypeOK
<1>5. Cardinality(Rest \cup {c}) = Cardinality(Rest) + 1
  BY <1>2, FS_AddElement
<1>6. Cardinality(Now) = IF row.seg = k THEN Cardinality(Rest) + 1 ELSE Cardinality(Rest)
  BY <1>4, <1>5
<1> HIDE DEF Now, Rest
<1>7. Cardinality(Now) = Cardinality(HsOn(k)) - (IF hsCl[c].seg = k THEN 1 ELSE 0)
                                               + (IF row.seg = k THEN 1 ELSE 0)
  BY <1>1, <1>2, <1>3, <1>6
<1> QED BY <1>7 DEF Now

\* What a slot to cut into is: nobody's.
LEMMA HsSlotIsFree ==
    ASSUME HsInv, NEW seg,
           \A j \in HsSlots : /\ seg[j].busy = hsSeg[j].busy
                              /\ seg[j].st = "empty" => hsSeg[j].st = "empty",
           NEW k \in HsSlot(seg)
    PROVE  k \in HsSlots /\ HsOn(k) = {} /\ seg[k].st # "open"
<1>1. k \in HsSlots /\ (seg[k].st = "empty" \/ (seg[k].st # "open" /\ seg[k].busy = 0))
  BY DEF HsSlot, HsEmpty, HsSpare, HsOldest
<1>3. CASE hsSeg[k].st = "empty"
  <2>1. \A c \in HsClients : hsCl[c].seg # k
    <3> SUFFICES ASSUME NEW c \in HsClients, hsCl[c].seg = k PROVE FALSE
      OBVIOUS
    <3>1. hsCl[c].st = "sends"
      BY <1>1 DEF HsInv, HsHeld, HsSlots
    <3>2. hsSeg[k].st = "done"
      BY <3>1 DEF HsInv, HsSentIsKept
    <3> QED BY <1>3, <3>2
  <2> QED BY <1>1, <1>3, <2>1 DEF HsOn
<1>4. CASE hsSeg[k].busy = 0
  <2>1. Cardinality(HsOn(k)) = 0
    BY <1>1, <1>4 DEF HsInv, HsSentIsKept, HsOn
  <2> QED BY <1>1, <1>4, <2>1, HsCounts
<1> QED BY <1>1, <1>3, <1>4

\* No segment and no client, to begin with.
LEMMA HsStarts0 == HsInit => HsInv
<1> SUFFICES ASSUME HsInit PROVE HsInv
  OBVIOUS
<1>1. HsTypeOK
  BY HsAssumption DEF HsInit, HsTypeOK, HsFreeRow
<1>2. HsHeld
  BY DEF HsInit, HsHeld, HsFreeRow
<1>3. \A k \in HsSlots : {c \in HsClients : hsCl[c].seg = k} = {}
  BY HsAssumption DEF HsInit, HsFreeRow, HsSlots
<1>4. HsSentIsKept
  BY <1>3, FS_EmptySet DEF HsInit, HsSentIsKept, HsFreeRow
<1> QED BY <1>1, <1>2, <1>4 DEF HsInv

\* A segment begun is a segment.
LEMMA HsCutType ==
    ASSUME NEW r \in [seq : Nat, start : Nat, dur : Nat, st : {"empty", "open", "done"},
                      busy : Nat, born : Nat],
           NEW n \in Nat, NEW pts \in Nat, NEW t \in Nat
    PROVE  [r EXCEPT !.seq = n, !.start = pts, !.st = "open", !.born = t]
             \in [seq : Nat, start : Nat, dur : Nat, st : {"empty", "open", "done"},
                  busy : Nat, born : Nat]
OBVIOUS

\* Cutting: a segment ended stays its clients', and one begun is nobody's.
LEMMA HsFrameKeeps ==
    ASSUME HsInv, NEW pts \in Nat, NEW idr \in BOOLEAN, HsFrame(pts, idr), hsCl' = hsCl,
           hsPts' \in Nat, hsTime' \in Nat
    PROVE  HsInv'
<1> USE DEF HsInv
<1> DEFINE ended == [hsSeg EXCEPT ![hsCur].dur = HsAge(pts), ![hsCur].st = "done"]
<1>0. hsCur \in HsSlots => HsAge(pts) \in Nat
  BY HsAssumption DEF HsAge, HsTypeOK
<1>1. ASSUME NEW seg, HsBegin(seg, pts), 
             seg \in [HsSlots -> [seq : Nat, start : Nat, dur : Nat, st : {"empty", "open", "done"},
                                  busy : Nat, born : Nat]],
             \A j \in HsSlots : /\ seg[j].busy = hsSeg[j].busy
                                /\ seg[j].st = "empty" => hsSeg[j].st = "empty"
                                /\ hsSeg[j].st = "done" => seg[j] = hsSeg[j]
      PROVE  HsInv'
  <2>1. CASE HsSlot(seg) = {}
    <3>1. hsSeg' = seg /\ hsCur' = 0 /\ hsNext' = hsNext
      BY <1>1, <2>1 DEF HsBegin
    <3>2. HsTypeOK' /\ HsHeld'
      BY <1>1, <3>1 DEF HsTypeOK, HsHeld
    <3>3. HsSentIsKept'
      BY <1>1, <3>1, SMTT(30) DEF HsTypeOK, HsHeld, HsSentIsKept, HsSlots
    <3> QED BY <3>2, <3>3
  <2>2. CASE HsSlot(seg) # {}
    <3>1. PICK k \in HsSlot(seg) :
              /\ hsSeg' = [seg EXCEPT ![k] = [@ EXCEPT !.seq = hsNext, !.start = pts,
                                                       !.st = "open", !.born = hsTime]]
              /\ hsCur' = k /\ hsNext' = hsNext + 1
      BY <1>1, <2>2 DEF HsBegin
    <3>2. k \in HsSlots /\ HsOn(k) = {} /\ seg[k].st # "open"
      BY <1>1, HsSlotIsFree
    <3> DEFINE cut == [seg[k] EXCEPT !.seq = hsNext, !.start = pts, !.st = "open", !.born = hsTime]
    <3>a. cut \in [seq : Nat, start : Nat, dur : Nat, st : {"empty", "open", "done"},
                   busy : Nat, born : Nat]
      <4>1. seg[k] \in [seq : Nat, start : Nat, dur : Nat, st : {"empty", "open", "done"},
                        busy : Nat, born : Nat]
        BY <1>1, <3>2
      <4>2. hsNext \in Nat /\ hsTime \in Nat
        BY DEF HsTypeOK
      <4> QED BY ONLY <4>1, <4>2, pts \in Nat, HsCutType
    <3>b. hsSeg' = [seg EXCEPT ![k] = cut]
      BY <1>1, <3>1, <3>2
    <3> HIDE DEF cut
    <3>c. hsSeg' \in [HsSlots -> [seq : Nat, start : Nat, dur : Nat, st : {"empty", "open", "done"},
                                  busy : Nat, born : Nat]]
      BY <1>1, <3>a, <3>b
    <3>3. HsTypeOK'
      BY <3>c, <3>1, <3>2 DEF HsTypeOK
    <3>4. HsHeld'
      BY <1>1, <3>1, <3>2 DEF HsTypeOK, HsHeld
    <3>5. \A j \in HsSlots : hsSeg'[j].busy = hsSeg[j].busy /\ (j # k => hsSeg'[j] = seg[j])
      BY <1>1, <3>1, <3>2
    <3>6. \A c \in HsClients : hsCl[c].seg # k
      BY <3>2 DEF HsOn
    <3>7. HsSentIsKept'
      <4>1. hsCl' = hsCl
        BY <1>1, <3>1
      <4>2. ASSUME NEW c \in HsClients, hsCl[c].st = "sends"
            PROVE  /\ hsSeg'[hsCl[c].seg].st = "done"
                   /\ hsSeg'[hsCl[c].seg].seq = hsCl[c].seq
        <5>1. PICK j : j = hsCl[c].seg
          OBVIOUS
        <5>2. j \in HsSlots /\ j # k
          BY <4>2, <5>1, <3>6 DEF HsTypeOK, HsHeld, HsSlots
        <5>3. hsSeg[j].st = "done" /\ hsSeg[j].seq = hsCl[c].seq
          BY <4>2, <5>1 DEF HsSentIsKept
        <5>4. hsSeg'[j] = hsSeg[j]
          BY <1>1, <3>5, <5>2, <5>3
        <5> QED BY <5>1, <5>3, <5>4
      <4>3. \A j \in HsSlots : hsSeg'[j].busy = Cardinality({c \in HsClients : hsCl[c].seg = j})
        BY <3>5 DEF HsSentIsKept
      <4> QED BY <4>1, <4>2, <4>3 DEF HsSentIsKept
    <3> QED BY <3>3, <3>4, <3>7
  <2> QED BY <2>1, <2>2
<1>2. CASE HsEnds(pts, idr)
  <2>1. hsCur \in HsSlots /\ hsSeg[hsCur].st = "open"
    BY <1>2 DEF HsEnds, HsTypeOK, HsHeld
  <2>2. ended \in [HsSlots -> [seq : Nat, start : Nat, dur : Nat, st : {"empty", "open", "done"},
                               busy : Nat, born : Nat]]
    BY <1>0, <2>1, ZenonT(60) DEF HsTypeOK
  <2>3. \A j \in HsSlots : /\ ended[j].busy = hsSeg[j].busy
                           /\ ended[j].st = "empty" => hsSeg[j].st = "empty"
                           /\ hsSeg[j].st = "done" => ended[j] = hsSeg[j]
    BY <2>1 DEF HsTypeOK
  <2>4. HsBegin(ended, pts)
    BY <1>2 DEF HsFrame
  <2> QED BY <1>1, <2>2, <2>3, <2>4
<1>3. CASE ~HsEnds(pts, idr) /\ idr /\ hsCur = 0
  <2>1. HsBegin(hsSeg, pts)
    BY <1>3 DEF HsFrame
  <2> QED BY <1>1, <2>1 DEF HsTypeOK
<1>4. CASE ~HsEnds(pts, idr) /\ ~(idr /\ hsCur = 0)
  BY <1>4 DEF HsFrame, HsTypeOK, HsHeld, HsSentIsKept
<1> QED BY <1>2, <1>3, <1>4

\* Every step of the muxer and the server keeps the invariant.
LEMMA HsSteps == HsInv /\ [HsNext]_hsVars => HsInv'
<1> SUFFICES ASSUME HsInv, [HsNext]_hsVars PROVE HsInv'
  OBVIOUS
<1> USE HsAssumption DEF HsInv, hsCut, hsLife, hsClock, hsVars
<1>1. CASE HsTick
  <2>1. hsPts' \in Nat /\ hsTime' \in Nat /\ hsCl' = hsCl
    BY <1>1 DEF HsTick, HsTypeOK
  <2> DEFINE pts == (hsPts + 1) % HsWord
             key == hsPts + 1 - hsKey >= HsTarget
             idr == hsForced \/ key
  <2>2. pts \in Nat /\ idr \in BOOLEAN
    BY DEF HsTypeOK
  <2>3. CASE HsFrame(pts, idr)
    BY <2>1, <2>2, <2>3, HsFrameKeeps
  <2>4. CASE UNCHANGED hsCut
    BY <2>1, <2>4 DEF HsTypeOK, HsHeld, HsSentIsKept
  <2> QED BY <1>1, <2>3, <2>4 DEF HsTick
<1>2. CASE HsStart
  BY <1>2 DEF HsStart, HsTypeOK, HsHeld, HsSentIsKept
<1>3. CASE HsStop
  BY <1>3 DEF HsStop, HsTypeOK, HsHeld, HsSentIsKept
<1>4. CASE HsEnd
  <2>1. \A k \in HsSlots : HsBusyAfter(k) = 0
    <3> SUFFICES ASSUME NEW k \in HsSlots PROVE HsBusyAfter(k) = 0
      OBVIOUS
    <3>1. hsSeg[k].busy = Cardinality(HsOn(k)) /\ Cardinality(HsOn(k)) \in Nat
      BY HsCounts DEF HsSentIsKept, HsOn
    <3> QED BY <3>1 DEF HsBusyAfter, HsOn
  <2>2. \A k \in HsSlots : hsSeg'[k] = [hsSeg[k] EXCEPT !.busy = 0]
    BY <1>4, <2>1 DEF HsEnd
  <2>3. hsSeg' = [k \in HsSlots |-> [hsSeg[k] EXCEPT !.busy = 0]]
    BY <1>4, <2>1 DEF HsEnd
  <2>4. HsTypeOK'
    BY <1>4, <2>3, SMTT(30) DEF HsEnd, HsTypeOK, HsFreeRow
  <2>5. HsHeld'
    BY <1>4, <2>2 DEF HsEnd, HsTypeOK, HsFreeRow, HsHeld
  <2>6. \A k \in HsSlots : {c \in HsClients : hsCl'[c].seg = k} = {}
    BY <1>4 DEF HsEnd, HsFreeRow, HsSlots
  <2>7. \A k \in HsSlots : hsSeg'[k].busy = Cardinality({c \in HsClients : hsCl'[c].seg = k})
    <3> SUFFICES ASSUME NEW k \in HsSlots
                 PROVE hsSeg'[k].busy = Cardinality({c \in HsClients : hsCl'[c].seg = k})
      OBVIOUS
    <3>1. hsSeg'[k].busy = 0
      BY <2>2 DEF HsTypeOK
    <3>2. {c \in HsClients : hsCl'[c].seg = k} = {}
      BY <2>6
    <3> QED BY <3>1, <3>2, FS_EmptySet
  <2>8. \A c \in HsClients : hsCl'[c].st # "sends"
    BY <1>4 DEF HsEnd, HsFreeRow
  <2>9. HsSentIsKept'
    BY <2>7, <2>8 DEF HsSentIsKept
  <2> QED BY <2>4, <2>5, <2>9
<1>5. ASSUME NEW c \in HsClients, HsAccept(c) PROVE HsInv'
  <2> DEFINE row == [hsCl[c] EXCEPT !.st = "asks"]
  <2>1. hsCl' = [hsCl EXCEPT ![c] = row] /\ UNCHANGED <<hsCut, hsClock>> /\ hsCl[c].st = "free"
    BY <1>5 DEF HsAccept
  <2>2. hsCl[c].seg = 0 /\ row.seg = 0 /\ row.st = "asks"
    BY <2>1 DEF HsHeld, HsTypeOK
  <2>3. HsTypeOK'
    BY <2>1 DEF HsTypeOK
  <2>4. HsHeld'
    BY <2>1, <2>2 DEF HsTypeOK, HsHeld
  <2> HIDE DEF row
  <2>5. \A k \in HsSlots : Cardinality({d \in HsClients : hsCl'[d].seg = k}) = Cardinality(HsOn(k))
    <3> SUFFICES ASSUME NEW k \in HsSlots
                 PROVE Cardinality({d \in HsClients : hsCl'[d].seg = k}) = Cardinality(HsOn(k))
      OBVIOUS
    <3>1. k # 0 /\ Cardinality(HsOn(k)) \in Nat
      BY HsCounts DEF HsSlots
    <3>2. Cardinality({d \in HsClients : hsCl'[d].seg = k}) =
              Cardinality(HsOn(k)) - (IF hsCl[c].seg = k THEN 1 ELSE 0)
                                   + (IF row.seg = k THEN 1 ELSE 0)
      BY <2>1, HsRowMoves, ZenonT(60)
    <3> QED BY <2>2, <3>1, <3>2
  <2>6. \A d \in HsClients : hsCl'[d] = IF d = c THEN row ELSE hsCl[d]
    BY <2>1 DEF HsTypeOK
  <2>7. HsSentIsKept'
    BY <2>1, <2>2, <2>5, <2>6 DEF HsSentIsKept, HsOn
  <2> QED BY <2>3, <2>4, <2>7
<1>6. ASSUME NEW c \in HsClients, HsRespond(c) PROVE HsInv'
  <2>1. PICK k \in HsFinished :
          /\ hsSeg' = [hsSeg EXCEPT ![k].busy = @ + 1]
          /\ hsCl' = [hsCl EXCEPT ![c] = [st |-> "sends", seg |-> k, seq |-> hsSeg[k].seq]]
    BY <1>6 DEF HsRespond
  <2> DEFINE row == [st |-> "sends", seg |-> k, seq |-> hsSeg[k].seq]
  <2>2. /\ k \in HsSlots /\ hsSeg[k].st = "done" /\ hsCl[c].seg = 0
        /\ row.seg = k /\ row.st = "sends" /\ row.seq = hsSeg[k].seq
    BY <1>6 DEF HsFinished, HsRespond, HsHeld, HsTypeOK
  <2>3. HsTypeOK'
    BY <1>6, <2>1, <2>2 DEF HsRespond, HsTypeOK
  <2>4. \A j \in HsSlots : /\ hsSeg'[j].st = hsSeg[j].st /\ hsSeg'[j].seq = hsSeg[j].seq
                           /\ hsSeg'[j].busy = hsSeg[j].busy + (IF j = k THEN 1 ELSE 0)
    BY <2>1, <2>2 DEF HsTypeOK
  <2>5. hsCl' = [hsCl EXCEPT ![c] = row]
    BY <2>1
  <2> HIDE DEF row
  <2>6. \A d \in HsClients : hsCl'[d] = IF d = c THEN row ELSE hsCl[d]
    BY <2>5 DEF HsTypeOK
  <2>7. HsHeld'
    BY <1>6, <2>2, <2>4, <2>6, SMTT(30) DEF HsRespond, HsHeld, HsTypeOK, HsSlots
  <2>8. \A j \in HsSlots : Cardinality({d \in HsClients : hsCl'[d].seg = j}) = hsSeg'[j].busy
    <3> SUFFICES ASSUME NEW j \in HsSlots
                 PROVE Cardinality({d \in HsClients : hsCl'[d].seg = j}) = hsSeg'[j].busy
      OBVIOUS
    <3>1. Cardinality(HsOn(j)) \in Nat /\ hsSeg[j].busy = Cardinality(HsOn(j))
      BY HsCounts DEF HsSentIsKept, HsOn
    <3>2. Cardinality({d \in HsClients : hsCl'[d].seg = j}) =
              Cardinality(HsOn(j)) - (IF hsCl[c].seg = j THEN 1 ELSE 0)
                                   + (IF row.seg = j THEN 1 ELSE 0)
      BY <2>5, HsRowMoves, ZenonT(60)
    <3>3. j # 0
      BY DEF HsSlots
    <3> QED BY <2>2, <2>4, <3>1, <3>2, <3>3
  <2>9. \A d \in HsClients : hsCl'[d].st = "sends" =>
            hsSeg'[hsCl'[d].seg].st = "done" /\ hsSeg'[hsCl'[d].seg].seq = hsCl'[d].seq
    BY <2>2, <2>4, <2>6 DEF HsSentIsKept, HsTypeOK, HsHeld
  <2>10. HsSentIsKept'
    BY <2>8, <2>9 DEF HsSentIsKept
  <2> QED BY <2>3, <2>7, <2>10
<1>7. ASSUME NEW c \in HsClients, HsClientClose(c) PROVE HsInv'
  <2> DEFINE k == hsCl[c].seg
  <2>1. hsCl' = [hsCl EXCEPT ![c] = HsFreeRow] /\ hsSeg' = HsLeave(hsSeg, c)
        /\ UNCHANGED <<hsCur, hsNext, hsTop, hsLife, hsClock>>
    BY <1>7 DEF HsClientClose
  <2>2. k \in {0} \cup HsSlots /\ 0 \notin HsSlots
    BY DEF HsTypeOK, HsSlots
  <2>3. \A j \in HsSlots : hsSeg[j].busy = Cardinality(HsOn(j)) /\ Cardinality(HsOn(j)) \in Nat
    BY HsCounts DEF HsSentIsKept, HsOn
  <2>4. k # 0 => hsSeg[k].busy \in Nat \ {0}
    <3> SUFFICES ASSUME k # 0 PROVE hsSeg[k].busy \in Nat \ {0}
      OBVIOUS
    <3>1. c \in HsOn(k)
      BY DEF HsOn
    <3> QED BY <2>2, <2>3, <3>1, HsCounts
  <2>5. \A j \in HsSlots : /\ hsSeg'[j].st = hsSeg[j].st /\ hsSeg'[j].seq = hsSeg[j].seq
                           /\ hsSeg'[j].busy = hsSeg[j].busy - (IF j = k THEN 1 ELSE 0)
    BY <2>1, <2>2, <2>3 DEF HsTypeOK, HsLeave
  <2>a. k # 0 => hsSeg[k].busy - 1 \in Nat
    BY <2>4
  <2>b. hsSeg' \in [HsSlots -> [seq : Nat, start : Nat, dur : Nat, st : {"empty", "open", "done"},
                               busy : Nat, born : Nat]]
    BY <2>1, <2>2, <2>a DEF HsTypeOK, HsLeave
  <2>6. HsTypeOK'
    BY <2>1, <2>b DEF HsTypeOK, HsFreeRow
  <2>7. HsHeld'
    BY <2>1, <2>2, <2>5 DEF HsTypeOK, HsHeld, HsFreeRow
  <2>8. \A j \in HsSlots : Cardinality({d \in HsClients : hsCl'[d].seg = j}) = hsSeg'[j].busy
    <3> SUFFICES ASSUME NEW j \in HsSlots
                 PROVE Cardinality({d \in HsClients : hsCl'[d].seg = j}) = hsSeg'[j].busy
      OBVIOUS
    <3>1. HsFreeRow.seg = 0 /\ j # 0
      BY <2>2 DEF HsFreeRow
    <3>2. Cardinality({d \in HsClients : hsCl'[d].seg = j}) =
              Cardinality(HsOn(j)) - (IF hsCl[c].seg = j THEN 1 ELSE 0)
                                   + (IF HsFreeRow.seg = j THEN 1 ELSE 0)
      BY <2>1, HsRowMoves, ZenonT(60)
    <3> QED BY <2>3, <2>5, <3>1, <3>2
  <2>9. HsSentIsKept'
    BY <2>1, <2>5, <2>8 DEF HsSentIsKept, HsTypeOK, HsHeld, HsFreeRow
  <2> QED BY <2>6, <2>7, <2>9
<1>8. CASE UNCHANGED hsVars
  BY <1>8 DEF HsTypeOK, HsHeld, HsSentIsKept
<1> QED BY <1>1, <1>2, <1>3, <1>4, <1>5, <1>6, <1>7, <1>8 DEF HsNext

\* A client is sent the segment it asked for, whole, for any number of slots, clients and sessions.
THEOREM HsKeepsSent == HsSpec => []HsSentIsKept
<1>1. HsInv => HsSentIsKept
  BY DEF HsInv
<1> QED BY <1>1, HsStarts0, HsSteps, PTL DEF HsSpec

-----------------------------------------------------------------------------
\* Rests, and positions in a ring.

\* A quotient and a rest give back the number, and the rest is short of the divisor.
LEMMA DivMod ==
    ASSUME NEW L \in Nat \ {0}, NEW a \in Int
    PROVE  a = L * (a \div L) + (a % L) /\ a % L \in 0 .. L - 1 /\ a \div L \in Int
<1>1. a \div L \in Int
  OBVIOUS
<1>2. a % L \in 0 .. L - 1
  OBVIOUS
<1>3. a = L * (a \div L) + (a % L)
  OBVIOUS
<1> QED BY <1>1, <1>2, <1>3

\* A rest is its own rest, and so is what is one divisor past it.
LEMMA ModSmall ==
    ASSUME NEW L \in Nat \ {0}, NEW r \in 0 .. L - 1
    PROVE  r % L = r /\ (r + L) % L = r
OBVIOUS

\* Two positions in a ring tell how far apart two counts are that are less than a lap apart.
LEMMA ModDistance ==
    ASSUME NEW L \in Nat \ {0}, NEW a \in Nat, NEW b \in Nat, a <= b, b - a < L
    PROVE  ((b % L) + L - (a % L)) % L = b - a
<1> DEFINE qa == a \div L qb == b \div L ra == a % L rb == b % L
<1>1. /\ a = L * qa + ra /\ b = L * qb + rb /\ qa \in Int /\ qb \in Int
      /\ ra \in 0 .. L - 1 /\ rb \in 0 .. L - 1
  BY DivMod
<1> HIDE DEF qa, qb, ra, rb
<1>2. L * (qb - qa) = L * qb - L * qa
  BY <1>1
<1>3. L * (qb - qa) < 2 * L /\ L * (qb - qa) > 0 - L
  BY <1>1, <1>2
<1>4. qb - qa \in {0, 1}
  BY <1>1, <1>3
<1>5. rb + L - ra = IF qb = qa THEN (b - a) + L ELSE b - a
  BY <1>1, <1>2, <1>4
<1>6. b - a \in 0 .. L - 1
  OBVIOUS
<1>7. (rb + L - ra) % L = b - a
  BY <1>5, <1>6, ModSmall
<1> QED BY <1>7 DEF ra, rb
-----------------------------------------------------------------------------
(***************************************************************************)
(* btaudio's ring: neither end ever waits for the other, and a stream that *)
(* changes asks the reader to start over. Inductive is where each frame    *)
(* lies that is between the positions or being put there, and what each of *)
(* the two threads has read of the other's word.                           *)
(***************************************************************************)

BtTasks == [at : {"idle", "writes", "publishes"}, wp : Nat, n : Nat]
BtPys == [at : {"idle", "resets", "moves", "empties", "looks", "copies", "advances"},
          len : Nat, rp : Nat, take : Nat, adjust : Int, old : Nat]

\* Positions are counts.
BtTypeOK ==
    /\ btWrite \in Nat /\ btRead \in Nat /\ btPut \in Nat /\ btOld \in Nat
    /\ btReset \in BOOLEAN /\ btLife \in {"off", "on", "stopping"}
    /\ btTask \in BtTasks /\ btPy \in BtPys

\* What lies between the positions.
BtSits ==
    /\ btRing \in [0 .. BtCapacity - 1 -> Nat]
    /\ btWrite = btPut /\ btPut <= BtMax
    /\ btRead <= btWrite /\ btWrite - btRead <= BtCapacity
    /\ \A k \in btRead .. btWrite - 1 : btRing[k % BtCapacity] = k + 1

\* The packet under way has room of its own.
BtArrives ==
    btTask.at # "idle" =>
        /\ btTask.wp = btWrite /\ btPut + btTask.n <= BtMax
        /\ (btWrite - btRead) + btTask.n <= BtCapacity
        /\ btTask.at = "publishes" =>
             \A k \in btWrite .. btWrite + btTask.n - 1 : btRing[k % BtCapacity] = k + 1

\* The reader is past what was there before the stream changed, or will be.
BtStarted ==
    /\ btOld <= btPut /\ (btPy.at # "idle" => btPy.old <= btPut)
    /\ ~btReset /\ btPy.at # "moves" => btOld <= btRead
    /\ btPy.at \in {"empties", "looks", "copies", "advances"} => btPy.old <= btRead
    /\ btPy.at \in {"copies", "advances"} => btPy.rp = btRead /\ btPy.take <= btWrite - btRead

\* The ring is there, and what is in it is the stream.
BtInv ==
    /\ BtTypeOK
    /\ btLife = "off" => btTask.at = "idle"
    /\ btLife # "on" => btPy.at = "idle"
    /\ btLife # "off" => BtSits /\ BtArrives /\ BtStarted
    /\ BtGivesStream
-----------------------------------------------------------------------------
\* The constants, as the proofs use them.
LEMMA BtConstants ==
    ASSUME BtMax < BtWord
    PROVE  /\ BtCapacity \in Nat \ {0} /\ BtWord \in Nat \ {0} /\ BtMax \in Nat
           /\ \A n \in BtPackets : n \in Nat /\ n >= 1
           /\ \A n \in BtReads : n \in Nat /\ n >= 1
BY BtAssumption

\* Short of the word's end a position is the number of frames before it.
LEMMA BtAdds ==
    ASSUME BtMax < BtWord, NEW a \in Nat, NEW b \in Nat, a + b <= BtMax
    PROVE  BtAdd(a, b) = a + b
<1>1. a + b \in 0 .. BtWord - 1
  BY BtConstants
<1> QED BY <1>1, BtConstants, ModSmall DEF BtAdd

\* And the distance of two their difference.
LEMMA BtApart ==
    ASSUME BtMax < BtWord, NEW a \in Nat, NEW b \in Nat, a <= b, b <= BtMax
    PROVE  BtBetween(a, b) = b - a
<1>1. b - a \in 0 .. BtWord - 1
  BY BtConstants
<1> QED BY <1>1, BtConstants, ModSmall DEF BtBetween

\* A frame has a place.
LEMMA BtPlaced ==
    ASSUME BtMax < BtWord, NEW k \in Nat
    PROVE  k % BtCapacity \in 0 .. BtCapacity - 1
<1>1. BtCapacity \in Nat \ {0} /\ k \in Int
  BY BtConstants
<1> QED BY <1>1, DivMod

\* Two frames less than a lap apart have places of their own.
LEMMA BtPlacesApart ==
    ASSUME BtMax < BtWord, NEW i \in Nat, NEW j \in Nat, i < j, j - i < BtCapacity
    PROVE  i % BtCapacity # j % BtCapacity
<1>1. BtCapacity \in Nat \ {0}
  BY BtConstants
<1>2. ((j % BtCapacity) + BtCapacity - (i % BtCapacity)) % BtCapacity = j - i
  <2>1. i <= j
    OBVIOUS
  <2> QED BY <1>1, <2>1, ModDistance
<1> SUFFICES ASSUME i % BtCapacity = j % BtCapacity PROVE FALSE
  OBVIOUS
<1>3. j % BtCapacity \in 0 .. BtCapacity - 1
  BY <1>1, DivMod
<1> DEFINE r == j % BtCapacity
<1>4. (r + BtCapacity - r) % BtCapacity = j - i
  BY <1>2
<1> HIDE DEF r
<1>5. r + BtCapacity - r = BtCapacity
  BY <1>1, <1>3 DEF r
<1>6. BtCapacity % BtCapacity = 0
  <2>1. 0 \in 0 .. BtCapacity - 1 /\ 0 + BtCapacity = BtCapacity
    BY <1>1
  <2> QED BY <1>1, <2>1, ModSmall
<1> QED BY <1>4, <1>5, <1>6

\* The first so many of a sequence.
LEMMA BtCut ==
    ASSUME NEW s \in Seq(Nat), NEW n \in Nat, n <= Len(s), NEW p, p = SubSeq(s, 1, n)
    PROVE  Len(p) = n /\ \A i \in 1 .. n : p[i] = s[i]
<1>1. \A i \in 1 .. n : s[i] \in Nat
  <2>1. Len(s) \in Nat /\ \A i \in 1 .. Len(s) : s[i] \in Nat
    BY ElementOfSeq, LenProperties
  <2> QED BY <2>1
<1>2. /\ Len(p) = (IF 1 <= n THEN n - 1 + 1 ELSE 0)
      /\ \A i \in 1 .. n - 1 + 1 : p[i] = s[1 + i - 1]
  BY <1>1, SubSeqProperties
<1>3. Len(p) = n /\ \A i \in 1 .. n : p[i] = s[1 + i - 1]
  BY <1>2
<1>4. \A i \in 1 .. n : 1 + i - 1 = i
  OBVIOUS
<1> QED BY <1>3, <1>4

\* Frames in a row, and after one left out.
LEMMA BtJoin ==
    ASSUME NEW one \in Seq(Nat), NEW two \in Seq(Nat), NEW rp \in Nat,
           \A i \in 1 .. Len(one) : one[i] = rp + i,
           \A i \in 1 .. Len(two) : two[i] = rp + Len(one) + 1 + i
    PROVE  /\ one \o two \in Seq(Nat) /\ Len(one \o two) \in Nat
           /\ \A i \in 1 .. Len(one \o two) :
                (one \o two)[i] = IF i <= Len(one) THEN rp + i ELSE rp + i + 1
<1>. PICK stay : stay = one \o two
  OBVIOUS
<1>1. Len(one) \in Nat /\ Len(two) \in Nat
  BY LenProperties
<1>2. /\ stay \in Seq(Nat) /\ Len(stay) = Len(one) + Len(two)
      /\ \A i \in 1 .. Len(one) + Len(two) :
           stay[i] = IF i <= Len(one) THEN one[i] ELSE two[i - Len(one)]
  BY ConcatProperties
<1>3. ASSUME NEW i \in 1 .. Len(one) + Len(two)
      PROVE  stay[i] = IF i <= Len(one) THEN rp + i ELSE rp + i + 1
  <2>1. CASE i <= Len(one)
    BY <1>1, <1>2, <2>1
  <2>2. CASE i > Len(one)
    <3>1. i - Len(one) \in 1 .. Len(two)
      BY <1>1, <2>2
    <3>2. two[i - Len(one)] = rp + Len(one) + 1 + (i - Len(one))
      BY <3>1
    <3>3. stay[i] = two[i - Len(one)]
      BY <1>1, <1>2, <2>2
    <3> QED BY <1>1, <2>2, <3>2, <3>3
  <2> QED BY <1>1, <2>1, <2>2
<1> QED BY <1>1, <1>2, <1>3

\* A block of frames in a row, after so many.
BtRow(all, rp, take) ==
    all \in Seq(Nat) /\ Len(all) = take /\ \A i \in 1 .. take : all[i] = rp + i

\* Frames in a row, after so many, with one left out after so many of them.
BtSkips(p, rp, drop) ==
    /\ Len(p) \in Nat
    /\ \A i \in 1 .. Len(p) : p[i] = IF i <= drop THEN rp + i ELSE rp + i + 1

\* Of a block of frames those that are played, all of them or but one.
BtShown(all, take, drop, len) ==
    LET stay == SubSeq(all, 1, drop) \o SubSeq(all, drop + 2, take)
    IN  SubSeq(stay, 1, BtMin(Len(stay), len))

\* A block of frames in a row from which one may be left out.
LEMMA BtLeftOut ==
    ASSUME NEW rp \in Nat, NEW take \in Nat, NEW drop \in Nat, drop <= take, NEW len \in Nat,
           NEW all, BtRow(all, rp, take)
    PROVE  BtSkips(BtShown(all, take, drop, len), rp, drop)
<1> DEFINE one == SubSeq(all, 1, drop)  two == SubSeq(all, drop + 2, take)
           stay == one \o two  n == BtMin(Len(stay), len)  played == SubSeq(stay, 1, n)
<1>0. all \in Seq(Nat) /\ Len(all) = take /\ \A i \in 1 .. take : all[i] = rp + i
  BY DEF BtRow
<1>1. /\ one \in Seq(Nat) /\ Len(one) = drop /\ \A i \in 1 .. drop : one[i] = rp + i
  BY <1>0
<1>2. /\ two \in Seq(Nat)
      /\ \A i \in 1 .. Len(two) : two[i] = rp + drop + 1 + i
  <2>1. CASE drop + 2 <= take
    BY <1>0, <2>1
  <2>2. CASE drop + 2 > take
    BY <1>0, <2>2
  <2> QED BY <2>1, <2>2
<1>. SUFFICES BtSkips(played, rp, drop)
  BY DEF BtShown
<1>. HIDE DEF one, two
<1>3. /\ \A i \in 1 .. Len(one) : one[i] = rp + i
      /\ \A i \in 1 .. Len(two) : two[i] = rp + Len(one) + 1 + i
  BY <1>1, <1>2
<1>4. stay = one \o two
  OBVIOUS
<1>. HIDE DEF stay
<1>5. /\ stay \in Seq(Nat) /\ Len(stay) \in Nat
      /\ \A i \in 1 .. Len(stay) : stay[i] = IF i <= drop THEN rp + i ELSE rp + i + 1
  <2>1. one \in Seq(Nat) /\ two \in Seq(Nat) /\ Len(one) = drop
    BY <1>1, <1>2, Zenon
  <2>2. /\ stay \in Seq(Nat) /\ Len(stay) \in Nat
        /\ \A i \in 1 .. Len(stay) : stay[i] = IF i <= Len(one) THEN rp + i ELSE rp + i + 1
    <3>1. /\ one \o two \in Seq(Nat) /\ Len(one \o two) \in Nat
          /\ \A i \in 1 .. Len(one \o two) :
               (one \o two)[i] = IF i <= Len(one) THEN rp + i ELSE rp + i + 1
      BY <1>3, <2>1, BtJoin
    <3> QED BY <1>4, <3>1, Zenon
  <2> QED BY <2>1, <2>2, Zenon
<1>6. n \in Nat /\ n <= Len(stay)
  BY <1>5 DEF BtMin
<1>7. played = SubSeq(stay, 1, n)
  OBVIOUS
<1>. HIDE DEF n, played
<1>8. Len(played) = n /\ \A i \in 1 .. n : played[i] = stay[i]
  BY <1>5, <1>6, <1>7, BtCut
<1>9. ASSUME NEW i \in 1 .. n
      PROVE  played[i] = IF i <= drop THEN rp + i ELSE rp + i + 1
  <2>1. i \in 1 .. Len(stay)
    BY <1>5, <1>6
  <2> QED BY <1>5, <1>8, <2>1, Zenon
<1> QED BY <1>6, <1>8, <1>9, Zenon DEF BtSkips

\* The invariant, and what BtGivesStream says of any read.
BtGood(gave) ==
    /\ \A i \in 1 .. Len(gave.frames) : gave.frames[i] > gave.old
    /\ \A i \in 1 .. Len(gave.frames) - 1 :
         gave.frames[i + 1] \in {gave.frames[i] + 1, gave.frames[i] + 2}
    /\ Len(gave.frames) > 0 =>
         gave.frames[Len(gave.frames)] - gave.frames[1] <= Len(gave.frames)

\* What either thread is doing when it does nothing.
LEMMA BtAtRest ==
    /\ BtIdle \in BtTasks /\ BtIdle.at = "idle"
    /\ BtRest \in BtPys /\ BtRest.at = "idle"
BY DEF BtIdle, BtTasks, BtRest, BtPys

\* A read that gave nothing gave nothing wrong.
LEMMA BtGoodNothing == BtGood(BtNothing)
BY DEF BtGood, BtNothing

\* What BtGivesStream says is said of the last read.
LEMMA BtGoodIs == BtGivesStream <=> BtGood(btGave)
BY DEF BtGood, BtGivesStream

\* It holds before anything started.
LEMMA BtStarts0 == BtInit => BtInv
<1>. SUFFICES ASSUME BtInit PROVE BtInv
  OBVIOUS
<1>1. BtTypeOK
  BY BtAtRest DEF BtInit, BtTypeOK
<1>2. BtGivesStream
  BY BtGoodNothing, BtGoodIs DEF BtInit
<1> QED BY <1>1, <1>2 DEF BtInit, BtInv, BtIdle, BtRest

\* start() and stop(): nothing is lost of a ring that is not there.
LEMMA BtStartsStops ==
    ASSUME BtMax < BtWord, ~BtSlow, BtInv, BtStart \/ BtStop \/ BtFree
    PROVE  BtInv'
<1>1. CASE BtStart
  <2>1. BtTypeOK'
    BY <1>1 DEF BtStart, BtInv, BtTypeOK
  <2>2. BtGivesStream'
    <3>1. BtGood(btGave')
      BY <1>1, BtGoodNothing DEF BtStart
    <3> QED BY <3>1 DEF BtGood, BtGivesStream
  <2>3. BtSits'
    BY <1>1, BtConstants DEF BtStart, BtSits
  <2>4. btTask'.at = "idle" /\ btPy'.at = "idle"
    BY <1>1 DEF BtStart, BtInv, BtTypeOK
  <2>5. btPy' = btPy
    BY <1>1 DEF BtStart
  <2> QED BY <1>1, <2>1, <2>2, <2>3, <2>4, <2>5 DEF BtStart, BtInv, BtArrives, BtStarted
<1>2. CASE BtStop
  BY <1>2 DEF BtStop, BtInv, BtTypeOK, BtSits, BtArrives, BtStarted, BtGivesStream
<1>3. CASE BtFree
  BY <1>3 DEF BtFree, BtInv, BtTypeOK, BtSits, BtArrives, BtStarted, BtGivesStream
<1> QED BY <1>1, <1>2, <1>3

\* Bluedroid's task: a stream that changes, and a packet, which it puts beyond what
\* there is before it says so.
LEMMA BtTaskSteps ==
    ASSUME BtMax < BtWord, BtInv,
           \/ BtStreamEvent
           \/ \E frames \in BtPackets : BtPacket(frames)
           \/ BtWrites \/ BtPublishes
    PROVE  BtInv'
<1>1. CASE BtStreamEvent
  <2>1. BtSits /\ BtArrives /\ BtStarted
    BY <1>1 DEF BtStreamEvent, BtInv
  <2>2. /\ btLife = "on" /\ btTask.at = "idle" /\ btReset' = TRUE /\ btOld' = btPut
        /\ UNCHANGED <<btRing, btWrite, btRead, btRunning, btLife, btTask, btPy, btPut, btGave>>
    BY <1>1 DEF BtStreamEvent
  <2>3. BtTypeOK' /\ BtGivesStream'
    BY <2>2 DEF BtInv, BtTypeOK, BtGivesStream
  <2>4. BtSits' /\ BtArrives'
    BY <2>1, <2>2 DEF BtSits, BtArrives
  <2>5. BtStarted'
    <3>1. btPut \in Nat
      BY DEF BtInv, BtTypeOK
    <3>2. btOld' <= btPut' /\ btReset' /\ btPy' = btPy /\ btRead' = btRead
      BY <2>2, <3>1
    <3> QED BY <2>1, <2>2, <3>2 DEF BtStarted
  <2> QED BY <2>2, <2>3, <2>4, <2>5 DEF BtInv
<1>2. ASSUME NEW frames \in BtPackets, BtPacket(frames) PROVE BtInv'
  <2>1. BtSits /\ BtArrives /\ BtStarted /\ BtTypeOK /\ BtGivesStream
    BY <1>2 DEF BtPacket, BtInv
  <2>2. BtBetween(btRead, btWrite) = btWrite - btRead
    BY <2>1, BtApart DEF BtSits, BtTypeOK
  <2>3. frames \in Nat
    BY BtConstants
  <2> DEFINE room == BtCapacity - BtBetween(btRead, btWrite)
  <2>4. room \in Nat /\ room = BtCapacity - (btWrite - btRead)
    BY <2>1, <2>2, BtConstants DEF BtSits, BtTypeOK
  <2>5. BtMin(frames, room) \in Nat /\ BtMin(frames, room) <= frames /\ BtMin(frames, room) <= room
    BY <2>3, <2>4 DEF BtMin
  <2>6. btTask' = [at |-> "writes", wp |-> btWrite, n |-> BtMin(frames, room)]
    BY <1>2 DEF BtPacket
  <2> HIDE DEF room
  <2>7. UNCHANGED <<btRing, btWrite, btRead, btReset, btLife, btPy, btPut, btOld, btGave>>
        /\ btLife = "on" /\ btPut + frames <= BtMax
    BY <1>2 DEF BtPacket
  <2>61. btTask' \in BtTasks
    BY <2>1, <2>5, <2>6 DEF BtTasks, BtTypeOK
  <2>8. BtTypeOK' /\ BtSits' /\ BtStarted' /\ BtGivesStream'
    BY <2>1, <2>5, <2>61, <2>6, <2>7 DEF BtTypeOK, BtSits, BtStarted, BtGivesStream
  <2>9. BtArrives'
    BY <2>1, <2>3, <2>4, <2>5, <2>6, <2>7, BtConstants DEF BtArrives, BtTypeOK, BtSits
  <2> QED BY <2>6, <2>7, <2>8, <2>9 DEF BtInv
<1>3. CASE BtWrites
  <2>1. BtSits /\ BtArrives /\ BtStarted /\ BtTypeOK /\ BtGivesStream /\ btLife # "off"
    BY <1>3 DEF BtWrites, BtInv
  <2> DEFINE wp == btTask.wp  n == btTask.n
             at(place) == CHOOSE i \in 0 .. n - 1 : BtPlace(wp, i) = place
  <2>2. /\ wp = btPut /\ n \in Nat /\ wp \in Nat /\ wp + n <= BtMax /\ btWrite = btPut
        /\ (btWrite - btRead) + n <= BtCapacity
    BY <1>3, <2>1 DEF BtWrites, BtArrives, BtSits, BtTypeOK, BtTasks
  <2>3. ASSUME NEW i \in 0 .. n - 1
        PROVE  BtPlace(wp, i) = (wp + i) % BtCapacity
    <3>0. i \in Nat /\ wp \in Nat /\ wp + i <= BtMax
      BY <2>2, BtConstants
    <3>1. BtAdd(wp, i) = wp + i
      BY <3>0, BtAdds
    <3> QED BY <3>1 DEF BtPlace
  <2>4. /\ btRing' = [place \in DOMAIN btRing |->
             IF place \in BtSlots(wp, n) THEN btPut + 1 + at(place) ELSE btRing[place]]
        /\ btTask' = [btTask EXCEPT !.at = "publishes"]
        /\ UNCHANGED <<btWrite, btRead, btReset, btLife, btPy, btPut, btOld, btGave>>
    BY <1>3 DEF BtWrites
  <2>5. DOMAIN btRing = 0 .. BtCapacity - 1 /\ btRing \in [0 .. BtCapacity - 1 -> Nat]
    BY <2>1 DEF BtSits
  <2>6. \A place \in BtSlots(wp, n) : at(place) \in 0 .. n - 1 /\ BtPlace(wp, at(place)) = place
    BY DEF BtSlots
  <2>7. btRing' \in [0 .. BtCapacity - 1 -> Nat]
    <3>. SUFFICES ASSUME NEW place \in 0 .. BtCapacity - 1
                  PROVE  (IF place \in BtSlots(wp, n) THEN btPut + 1 + at(place)
                          ELSE btRing[place]) \in Nat
      BY <2>4, <2>5
    <3>1. CASE place \in BtSlots(wp, n)
      <4>1. at(place) \in 0 .. n - 1
        BY <2>6, <3>1
      <4>. HIDE DEF at
      <4> QED BY <2>1, <2>2, <3>1, <4>1 DEF BtTypeOK
    <3>2. CASE place \notin BtSlots(wp, n)
      BY <2>5, <3>2
    <3> QED BY <3>1, <3>2
  <2>8. ASSUME NEW i \in 0 .. n - 1
        PROVE  btRing'[(wp + i) % BtCapacity] = btPut + i + 1
    <3> DEFINE place == (wp + i) % BtCapacity
    <3>1. place \in 0 .. BtCapacity - 1
      BY <2>2, BtPlaced
    <3>2. BtPlace(wp, i) = place
      BY <2>3
    <3>3. place \in BtSlots(wp, n)
      BY <3>2 DEF BtSlots
    <3>4. at(place) \in 0 .. n - 1 /\ BtPlace(wp, at(place)) = place
      BY <2>6, <3>3
    <3>5. btRing'[place] = btPut + 1 + at(place)
      BY <2>4, <2>5, <3>1, <3>3
    <3>6. PICK j \in 0 .. n - 1 : j = at(place)
      BY <3>4
    <3>7. (wp + j) % BtCapacity = place
      BY <2>3, <3>4, <3>6
    <3>8. wp + i \in Nat /\ wp + j \in Nat /\ n <= BtCapacity
      BY <2>1, <2>2, BtConstants DEF BtTypeOK, BtSits
    <3>. HIDE DEF at, n, wp
    <3>9. j = i
      <4>1. CASE i < j
        <5>1. wp + i < wp + j /\ (wp + j) - (wp + i) < BtCapacity
          BY <2>2, <3>8, <4>1, BtConstants
        <5> QED BY <3>7, <3>8, <5>1, BtPlacesApart
      <4>2. CASE j < i
        <5>1. wp + j < wp + i /\ (wp + i) - (wp + j) < BtCapacity
          BY <2>2, <3>8, <4>2, BtConstants
        <5> QED BY <3>7, <3>8, <5>1, BtPlacesApart
      <4> QED BY <2>2, <4>1, <4>2
    <3> QED BY <2>1, <3>5, <3>6, <3>9 DEF BtTypeOK
  <2>9. ASSUME NEW k \in btRead .. btWrite - 1
        PROVE  btRing'[k % BtCapacity] = k + 1
    <3>1. k \in Nat /\ k % BtCapacity \in 0 .. BtCapacity - 1
      BY <2>1, BtPlaced DEF BtTypeOK
    <3>2. ASSUME NEW i \in 0 .. n - 1 PROVE BtPlace(wp, i) # k % BtCapacity
      <4>1. wp + i \in Nat /\ k < wp + i /\ (wp + i) - k < BtCapacity
        BY <2>1, <2>2, BtConstants DEF BtTypeOK
      <4> QED BY <2>3, <3>1, <4>1, BtPlacesApart
    <3>3. k % BtCapacity \notin BtSlots(wp, n)
      BY <3>2 DEF BtSlots
    <3>4. btRing[k % BtCapacity] = k + 1
      BY <2>1 DEF BtSits
    <3> QED BY <2>4, <2>5, <3>1, <3>3, <3>4
  <2>. HIDE DEF at, n, wp
  <2>10. BtSits'
    BY <2>1, <2>4, <2>7, <2>9 DEF BtSits
  <2>11. BtTypeOK' /\ btTask'.wp = wp /\ btTask'.n = n
    <3>1. btTask \in BtTasks /\ btTask' = [btTask EXCEPT !.at = "publishes"]
      BY <2>1, <2>4 DEF BtTypeOK
    <3>2. btTask' \in BtTasks /\ btTask'.wp = wp /\ btTask'.n = n
      BY <3>1 DEF BtTasks, wp, n
    <3> QED BY <2>1, <2>4, <3>2 DEF BtTypeOK
  <2>12. BtArrives'
    <3>1. \A k \in btWrite .. btWrite + n - 1 : btRing'[k % BtCapacity] = k + 1
      <4>. TAKE k \in btWrite .. btWrite + n - 1
      <4>1. k - btWrite \in 0 .. n - 1 /\ wp + (k - btWrite) = k /\ btPut + (k - btWrite) + 1 = k + 1
        BY <2>1, <2>2 DEF BtTypeOK
      <4> QED BY <2>8, <4>1
    <3> QED BY <2>2, <2>4, <2>11, <3>1 DEF BtArrives
  <2>13. BtStarted' /\ BtGivesStream'
    BY <2>1, <2>4 DEF BtStarted, BtGivesStream
  <2> QED BY <2>1, <2>4, <2>10, <2>11, <2>12, <2>13 DEF BtInv
<1>4. CASE BtPublishes
  <2>1. /\ BtSits /\ BtArrives /\ BtStarted /\ BtTypeOK /\ BtGivesStream
        /\ btLife # "off" /\ (btLife # "on" => btPy.at = "idle")
    BY <1>4 DEF BtPublishes, BtInv
  <2>2. /\ btTask.at = "publishes" /\ btTask' = BtIdle
        /\ btWrite' = BtAdd(btTask.wp, btTask.n) /\ btPut' = btPut + btTask.n
        /\ UNCHANGED <<btRing, btRead, btReset, btRunning, btLife, btPy, btOld, btGave>>
    BY <1>4 DEF BtPublishes
  <2>3. PICK n \in Nat : n = btTask.n
    BY <2>1 DEF BtTypeOK, BtTasks
  <2>4. /\ btTask.wp = btPut /\ btWrite = btPut /\ btPut + n <= BtMax /\ btPut \in Nat
        /\ btRead \in Nat /\ btRead <= btPut /\ (btPut - btRead) + n <= BtCapacity
    BY <2>1, <2>2, <2>3 DEF BtArrives, BtSits, BtTypeOK
  <2>5. btWrite' = btPut + n /\ btPut' = btPut + n
    BY <2>2, <2>3, <2>4, BtAdds
  <2>6. BtIdle.at = "idle" /\ BtIdle \in BtTasks
    BY DEF BtIdle, BtTasks
  <2>7. BtTypeOK'
    BY <2>1, <2>2, <2>4, <2>5, <2>6 DEF BtTypeOK
  <2>8. \A k \in btRead .. btPut + n - 1 : btRing[k % BtCapacity] = k + 1
    <3>1. \A k \in btRead .. btPut - 1 : btRing[k % BtCapacity] = k + 1
      BY <2>1 DEF BtSits
    <3>2. \A k \in btPut .. btPut + n - 1 : btRing[k % BtCapacity] = k + 1
      BY <2>1, <2>2, <2>3, <2>4 DEF BtArrives
    <3>3. \A k \in btRead .. btPut + n - 1 : k \in btRead .. btPut - 1 \/ k \in btPut .. btPut + n - 1
      BY <2>4
    <3> QED BY <3>1, <3>2, <3>3
  <2>9. BtSits'
    <3>1. btRead' <= btWrite' /\ btWrite' - btRead' <= BtCapacity /\ btWrite' = btPut' /\ btPut' <= BtMax
      BY <2>2, <2>4, <2>5, BtConstants
    <3>2. btRing' \in [0 .. BtCapacity - 1 -> Nat]
      BY <2>1, <2>2 DEF BtSits
    <3>3. \A k \in btRead' .. btWrite' - 1 : btRing'[k % BtCapacity] = k + 1
      <4>1. btRead' = btRead /\ btWrite' = btPut + n /\ btRing' = btRing
        BY <2>2, <2>5
      <4>. TAKE k \in btRead' .. btWrite' - 1
      <4>2. k \in btRead .. btPut + n - 1
        BY <2>3, <2>4, <4>1
      <4> QED BY <2>8, <4>1, <4>2
    <3> QED BY <3>1, <3>2, <3>3 DEF BtSits
  <2>10. BtStarted'
    <3>1. btPy.old \in Nat /\ btPy.take \in Nat
      BY <2>1 DEF BtTypeOK, BtPys
    <3>2. btOld \in Nat /\ btPut' = btPut + n /\ btWrite' = btWrite + n
      BY <2>1, <2>4, <2>5 DEF BtTypeOK
    <3>3. btPy' = btPy /\ btOld' = btOld /\ btReset' = btReset /\ btRead' = btRead
      BY <2>2
    <3>4. btOld' <= btPut' /\ (btPy.at # "idle" => btPy.old <= btPut')
      BY <2>1, <2>3, <2>4, <3>1, <3>2, <3>3 DEF BtStarted
    <3>5. btPy.at \in {"copies", "advances"} => btPy.rp = btRead /\ btPy.take <= btWrite' - btRead
      BY <2>1, <2>3, <2>4, <3>1, <3>2 DEF BtStarted
    <3> QED BY <2>1, <3>3, <3>4, <3>5 DEF BtStarted
  <2>11. BtArrives' /\ BtGivesStream'
    BY <2>1, <2>2, <2>6 DEF BtArrives, BtGivesStream
  <2> QED BY <2>1, <2>2, <2>6, <2>7, <2>9, <2>10, <2>11 DEF BtInv
<1> QED BY <1>1, <1>2, <1>3, <1>4

\* btaudio_read(), up to what it has looked at: it starts over from where the
\* writer is, and takes no more than there is.
LEMMA BtReadSteps ==
    ASSUME BtMax < BtWord, BtInv,
           \/ \E frames \in BtReads : BtReadBegins(frames)
           \/ BtResets \/ BtMoves \/ BtEmpties \/ BtLooks
    PROVE  BtInv'
<1>0. BtTypeOK /\ BtGivesStream /\ (btLife # "on" => btPy.at = "idle")
  BY DEF BtInv
<1>00. btPy.len \in Nat /\ btPy.old \in Nat /\ btPy.rp \in Nat /\ btPy.take \in Nat
  BY <1>0 DEF BtTypeOK, BtPys
<1>1. ASSUME NEW frames \in BtReads, BtReadBegins(frames) PROVE BtInv'
  <2>1. /\ btLife = "on" /\ btPy.at = "idle"
        /\ btPy' = [BtRest EXCEPT !.at = IF btReset THEN "resets" ELSE "looks",
                                  !.len = frames, !.old = btOld]
        /\ UNCHANGED <<btRing, btWrite, btRead, btReset, btLife, btTask, btPut, btOld, btGave>>
    BY <1>1 DEF BtReadBegins
  <2>2. BtSits /\ BtArrives /\ BtStarted
    BY <2>1 DEF BtInv
  <2>3. frames \in Nat /\ btOld \in Nat
    BY <1>0, BtConstants DEF BtTypeOK
  <2>4. btPy' \in BtPys /\ btPy'.at = (IF btReset THEN "resets" ELSE "looks") /\ btPy'.old = btOld
    <3>1. BtRest \in BtPys
      BY BtAtRest
    <3>2. PICK at \in {"resets", "looks"} : at = (IF btReset THEN "resets" ELSE "looks")
      OBVIOUS
    <3>3. btPy' = [BtRest EXCEPT !.at = at, !.len = frames, !.old = btOld]
      BY <2>1, <3>2
    <3>4. btPy' \in BtPys /\ btPy'.at = at /\ btPy'.old = btOld
      BY <2>3, <3>1, <3>3 DEF BtPys
    <3> QED BY <3>2, <3>4
  <2>5. BtTypeOK' /\ BtGivesStream'
    BY <1>0, <2>1, <2>4 DEF BtTypeOK, BtGivesStream
  <2>6. BtSits' /\ BtArrives'
    BY <2>1, <2>2 DEF BtSits, BtArrives
  <2>7. BtStarted'
    BY <2>1, <2>2, <2>4 DEF BtStarted
  <2> QED BY <2>1, <2>2, <2>5, <2>6, <2>7 DEF BtInv
<1>2. CASE BtResets
  <2>1. /\ btPy.at = "resets" /\ btPy' = [btPy EXCEPT !.at = "moves"]
        /\ btReset' \in BOOLEAN
        /\ UNCHANGED <<btRing, btWrite, btRead, btLife, btTask, btPut, btOld, btGave>>
    BY <1>0, <1>2 DEF BtResets, BtTypeOK
  <2>2. BtSits /\ BtArrives /\ BtStarted /\ btLife = "on"
    BY <2>1, <1>0 DEF BtInv
  <2>3. btPy' \in BtPys /\ btPy'.at = "moves" /\ btPy'.old = btPy.old
    BY <1>0, <2>1 DEF BtPys, BtTypeOK
  <2>4. BtTypeOK' /\ BtGivesStream'
    BY <1>0, <2>1, <2>3 DEF BtTypeOK, BtGivesStream
  <2>5. BtSits' /\ BtArrives'
    BY <2>1, <2>2 DEF BtSits, BtArrives
  <2>6. BtStarted'
    BY <2>1, <2>2, <2>3 DEF BtStarted
  <2> QED BY <2>1, <2>2, <2>4, <2>5, <2>6 DEF BtInv
<1>3. CASE BtMoves
  <2>1. /\ btPy.at = "moves" /\ btPy' = [btPy EXCEPT !.at = "empties"] /\ btRead' = btWrite
        /\ UNCHANGED <<btRing, btWrite, btReset, btLife, btTask, btPut, btOld, btGave>>
    BY <1>3 DEF BtMoves
  <2>2. BtSits /\ BtArrives /\ BtStarted /\ btLife = "on"
    BY <2>1, <1>0 DEF BtInv
  <2>3. btPy' \in BtPys /\ btPy'.at = "empties" /\ btPy'.old = btPy.old
    BY <1>0, <2>1 DEF BtPys, BtTypeOK
  <2>4. BtTypeOK' /\ BtGivesStream'
    BY <1>0, <2>1, <2>3 DEF BtTypeOK, BtGivesStream
  <2>5. BtSits'
    BY <1>0, <2>1, <2>2, BtConstants DEF BtSits, BtTypeOK
  <2>6. BtArrives'
    <3>1. btTask.n \in Nat
      BY <1>0 DEF BtTypeOK, BtTasks
    <3> QED BY <1>0, <2>1, <2>2, <3>1, BtConstants DEF BtArrives, BtSits, BtTypeOK
  <2>7. BtStarted'
    BY <2>1, <2>2, <2>3 DEF BtStarted, BtSits
  <2> QED BY <2>1, <2>2, <2>4, <2>5, <2>6, <2>7 DEF BtInv
<1>4. CASE BtEmpties
  <2>1. /\ btPy.at = "empties" /\ btPy' = [btPy EXCEPT !.at = "looks"]
        /\ btReset' = btReset
        /\ UNCHANGED <<btRing, btWrite, btRead, btLife, btTask, btPut, btOld, btGave>>
    BY <1>0, <1>4 DEF BtEmpties, BtClears, BtTypeOK
  <2>2. BtSits /\ BtArrives /\ BtStarted /\ btLife = "on"
    BY <2>1, <1>0 DEF BtInv
  <2>3. btPy' \in BtPys /\ btPy'.at = "looks" /\ btPy'.old = btPy.old
    BY <1>0, <2>1 DEF BtPys, BtTypeOK
  <2>4. BtTypeOK' /\ BtGivesStream'
    BY <1>0, <2>1, <2>3 DEF BtTypeOK, BtGivesStream
  <2>5. BtSits' /\ BtArrives'
    BY <2>1, <2>2 DEF BtSits, BtArrives
  <2>6. BtStarted'
    BY <2>1, <2>2, <2>3 DEF BtStarted
  <2> QED BY <2>1, <2>2, <2>4, <2>5, <2>6 DEF BtInv
<1>5. CASE BtLooks
  <2> DEFINE avail == BtBetween(btRead, btWrite)  adjust == BtAdjust(avail, btPy.len)
             waits == ~btRunning /\ avail < BtTarget
  <2>1. /\ btPy.at = "looks"
        /\ UNCHANGED <<btRing, btWrite, btRead, btReset, btLife, btTask, btPut, btOld>>
        /\ \/ btPy' = BtRest /\ btGave' = BtNothing
           \/ /\ btPy' = [btPy EXCEPT !.at = "copies", !.rp = btRead, !.adjust = adjust,
                                      !.take = BtMin(btPy.len + adjust, avail)]
              /\ btGave' = btGave
    BY <1>5 DEF BtLooks
  <2>2. BtSits /\ BtArrives /\ BtStarted /\ btLife = "on"
    BY <2>1, <1>0 DEF BtInv
  <2>3. avail = btWrite - btRead /\ avail \in Nat
    BY <1>0, <2>2, BtApart DEF BtSits, BtTypeOK
  <2> HIDE DEF avail
  <2>4. adjust \in {-1, 0, 1} /\ (btPy.len = 0 => adjust # -1)
    BY <1>00 DEF BtAdjust
  <2> HIDE DEF adjust
  <2>5. btPy.len + adjust \in Nat
    BY <1>00, <2>4
  <2>6. BtMin(btPy.len + adjust, avail) \in Nat /\ BtMin(btPy.len + adjust, avail) <= avail
    BY <2>3, <2>5 DEF BtMin
  <2>7. CASE btPy' = BtRest /\ btGave' = BtNothing
    <3>1. btPy' \in BtPys /\ btPy'.at = "idle"
      BY <2>7, BtAtRest
    <3>2. BtGivesStream'
      <4>1. BtGood(btGave')
        BY <2>7, BtGoodNothing
      <4> QED BY <4>1 DEF BtGood, BtGivesStream
    <3>3. BtTypeOK'
      BY <1>0, <2>1, <3>1 DEF BtTypeOK
    <3>4. BtSits' /\ BtArrives' /\ BtStarted'
      BY <2>1, <2>2, <3>1 DEF BtSits, BtArrives, BtStarted
    <3> QED BY <2>1, <2>2, <3>1, <3>2, <3>3, <3>4 DEF BtInv
  <2>8. CASE /\ btPy' = [btPy EXCEPT !.at = "copies", !.rp = btRead, !.adjust = adjust,
                                     !.take = BtMin(btPy.len + adjust, avail)]
             /\ btGave' = btGave
    <3>0. PICK take \in Nat : take = BtMin(btPy.len + adjust, avail)
      BY <2>6
    <3>1. /\ btPy' \in BtPys /\ btPy'.at = "copies" /\ btPy'.old = btPy.old
          /\ btPy'.rp = btRead /\ btPy'.take = take
      <4>1. adjust \in Int /\ btRead \in Nat /\ btPy \in BtPys
        BY <1>0, <2>4 DEF BtTypeOK
      <4> QED BY <2>8, <3>0, <4>1 DEF BtPys
    <3>2. BtTypeOK' /\ BtGivesStream'
      BY <1>0, <2>1, <2>8, <3>1 DEF BtTypeOK, BtGivesStream
    <3>3. BtSits' /\ BtArrives'
      BY <2>1, <2>2 DEF BtSits, BtArrives
    <3>4. BtStarted'
      BY <2>1, <2>2, <2>3, <2>6, <3>0, <3>1 DEF BtStarted
    <3> QED BY <2>1, <2>2, <3>2, <3>3, <3>4 DEF BtInv
  <2> QED BY <2>1, <2>7, <2>8
<1> QED BY <1>1, <1>2, <1>3, <1>4, <1>5

\* btaudio_read()'s end: what it gave was there, and its place is the writer's again.
LEMMA BtReadEnds ==
    ASSUME BtMax < BtWord, BtInv, BtCopies \/ BtMovesOn
    PROVE  BtInv'
<1>0. BtTypeOK /\ BtGivesStream /\ (btLife # "on" => btPy.at = "idle")
  BY DEF BtInv
<1>00. /\ btPy.len \in Nat /\ btPy.old \in Nat /\ btPy.rp \in Nat /\ btPy.take \in Nat
       /\ btPy \in BtPys
  BY <1>0 DEF BtTypeOK, BtPys
<1>1. CASE BtCopies
  <2>1. /\ btPy.at = "copies" /\ btPy' = [btPy EXCEPT !.at = "advances"]
        /\ btGave' = [frames |-> BtPlayed(btPy.rp, btPy.take, btPy.adjust, btPy.len),
                      old |-> btPy.old]
        /\ UNCHANGED <<btRing, btWrite, btRead, btReset, btLife, btTask, btPut, btOld>>
    BY <1>1 DEF BtCopies
  <2>2. BtSits /\ BtArrives /\ BtStarted /\ btLife = "on"
    BY <2>1, <1>0 DEF BtInv
  <2>3. PICK rp \in Nat, take \in Nat, len \in Nat, old \in Nat :
          /\ rp = btPy.rp /\ take = btPy.take /\ len = btPy.len /\ old = btPy.old
    BY <1>00
  <2>4. rp = btRead /\ take <= btWrite - btRead /\ old <= rp /\ btWrite <= BtMax /\ btWrite \in Nat
    BY <1>0, <2>1, <2>2, <2>3 DEF BtStarted, BtSits, BtTypeOK
  <2> DEFINE drop == IF btPy.adjust = 1 THEN take \div 2 ELSE take
             all == [i \in 1 .. take |-> btRing[BtPlace(rp, i - 1)]]
             played == BtShown(all, take, drop, len)
  <2>5. played = BtPlayed(btPy.rp, btPy.take, btPy.adjust, btPy.len)
    BY <2>3 DEF BtPlayed, BtShown
  <2>6. \A i \in 1 .. take : btRing[BtPlace(rp, i - 1)] = rp + i
    <3>. TAKE i \in 1 .. take
    <3>1. i - 1 \in Nat /\ rp + (i - 1) <= BtMax
      BY <2>4, BtConstants
    <3>2. BtPlace(rp, i - 1) = (rp + (i - 1)) % BtCapacity
      BY <3>1, BtAdds DEF BtPlace
    <3>3. rp + (i - 1) \in btRead .. btWrite - 1
      BY <2>4
    <3>4. btRing[(rp + (i - 1)) % BtCapacity] = (rp + (i - 1)) + 1
      BY <2>2, <3>3 DEF BtSits
    <3> QED BY <3>2, <3>4
  <2>7. all \in Seq(Nat) /\ Len(all) = take /\ \A i \in 1 .. take : all[i] = rp + i
    BY <2>6
  <2>8. drop \in Nat /\ drop <= take
    <3>1. take \div 2 \in Nat /\ take \div 2 <= take
      OBVIOUS
    <3> QED BY <3>1
  <2> HIDE DEF all, drop
  <2>9. /\ Len(played) \in Nat
        /\ \A i \in 1 .. Len(played) : played[i] = IF i <= drop THEN rp + i ELSE rp + i + 1
    <3>1. BtRow(all, rp, take)
      BY <2>7 DEF BtRow
    <3>2. BtSkips(BtShown(all, take, drop, len), rp, drop)
      BY <2>8, <3>1, BtLeftOut
    <3> QED BY <3>2 DEF BtSkips
  <2>10. PICK p : p = played
    OBVIOUS
  <2> HIDE DEF played
  <2>11. Len(p) \in Nat /\ \A i \in 1 .. Len(p) : p[i] = IF i <= drop THEN rp + i ELSE rp + i + 1
    BY <2>9, <2>10
  <2>12. btGave'.frames = p /\ btGave'.old = old
    BY <2>1, <2>3, <2>5, <2>10
  <2>13. BtGood(btGave')
    <3>1. \A i \in 1 .. Len(p) : p[i] > old
      BY <2>4, <2>8, <2>11
    <3>2. \A i \in 1 .. Len(p) - 1 : p[i + 1] \in {p[i] + 1, p[i] + 2}
      <4>. TAKE i \in 1 .. Len(p) - 1
      <4>1. i \in 1 .. Len(p) /\ i + 1 \in 1 .. Len(p)
        BY <2>11
      <4>2. /\ p[i] = (IF i <= drop THEN rp + i ELSE rp + i + 1)
            /\ p[i + 1] = IF i + 1 <= drop THEN rp + (i + 1) ELSE rp + (i + 1) + 1
        BY <2>11, <4>1
      <4> QED BY <2>8, <4>1, <4>2
    <3>3. Len(p) > 0 => p[Len(p)] - p[1] <= Len(p)
      <4>. HAVE Len(p) > 0
      <4>1. Len(p) \in 1 .. Len(p) /\ 1 \in 1 .. Len(p)
        BY <2>11
      <4>2. /\ p[Len(p)] = (IF Len(p) <= drop THEN rp + Len(p) ELSE rp + Len(p) + 1)
            /\ p[1] = IF 1 <= drop THEN rp + 1 ELSE rp + 1 + 1
        BY <2>11, <4>1
      <4> QED BY <2>8, <2>11, <4>1, <4>2
    <3> QED BY <2>12, <3>1, <3>2, <3>3 DEF BtGood
  <2>14. BtGivesStream'
    BY <2>13 DEF BtGood, BtGivesStream
  <2>15. /\ btPy' \in BtPys /\ btPy'.at = "advances" /\ btPy'.old = btPy.old
         /\ btPy'.rp = btPy.rp /\ btPy'.take = btPy.take
    BY <1>00, <2>1 DEF BtPys
  <2>16. BtTypeOK'
    BY <1>0, <2>1, <2>15 DEF BtTypeOK
  <2>17. BtSits' /\ BtArrives'
    BY <2>1, <2>2 DEF BtSits, BtArrives
  <2>18. BtStarted'
    BY <2>1, <2>2, <2>15 DEF BtStarted
  <2> QED BY <2>1, <2>2, <2>14, <2>16, <2>17, <2>18 DEF BtInv
<1>2. CASE BtMovesOn
  <2>1. /\ btPy.at = "advances" /\ btPy' = BtRest /\ btRead' = BtAdd(btPy.rp, btPy.take)
        /\ UNCHANGED <<btRing, btWrite, btReset, btLife, btTask, btPut, btOld, btGave>>
    BY <1>2 DEF BtMovesOn
  <2>2. BtSits /\ BtArrives /\ BtStarted /\ btLife = "on"
    BY <2>1, <1>0 DEF BtInv
  <2>3. PICK take \in Nat : take = btPy.take
    BY <1>00
  <2>4. /\ btPy.rp = btRead /\ take <= btWrite - btRead /\ btWrite = btPut /\ btPut <= BtMax
        /\ btWrite \in Nat /\ btRead \in Nat
    BY <1>0, <2>1, <2>2, <2>3 DEF BtStarted, BtSits, BtTypeOK
  <2>5. btRead' = btRead + take
    <3>1. btRead + take <= BtMax
      BY <2>4, BtConstants
    <3>2. BtAdd(btRead, take) = btRead + take
      BY <2>4, <3>1, BtAdds
    <3> QED BY <2>1, <2>3, <2>4, <3>2
  <2>6. btPy' \in BtPys /\ btPy'.at = "idle"
    BY <2>1, BtAtRest
  <2>7. BtTypeOK' /\ BtGivesStream'
    <3>1. BtTypeOK'
      <4>1. btRead' \in Nat
        BY <2>3, <2>4, <2>5
      <4> QED BY <1>0, <2>1, <2>6, <4>1 DEF BtTypeOK
    <3>2. BtGivesStream'
      BY <1>0, <2>1 DEF BtGivesStream
    <3> QED BY <3>1, <3>2
  <2>8. BtSits'
    <3>1. btRead' <= btWrite' /\ btWrite' - btRead' <= BtCapacity
      <4>1. btWrite - btRead <= BtCapacity /\ btWrite' = btWrite
        BY <2>1, <2>2 DEF BtSits
      <4> QED BY <2>4, <2>5, <4>1, BtConstants
    <3>2. \A k \in btRead' .. btWrite' - 1 : k \in btRead .. btWrite - 1
      BY <2>1, <2>3, <2>4, <2>5
    <3> QED BY <2>1, <2>2, <3>1, <3>2 DEF BtSits
  <2>9. BtArrives'
    <3>1. btTask.n \in Nat
      BY <1>0 DEF BtTypeOK, BtTasks
    <3>2. btTask.at # "idle" => (btWrite - btRead) + btTask.n <= BtCapacity
      BY <2>2 DEF BtArrives
    <3>3. btTask.at # "idle" => (btWrite - btRead') + btTask.n <= BtCapacity
      BY <2>4, <2>5, <3>1, <3>2, BtConstants
    <3> QED BY <2>1, <2>2, <3>3 DEF BtArrives
  <2>10. BtStarted'
    <3>1. btOld \in Nat /\ btPut \in Nat
      BY <1>0 DEF BtTypeOK
    <3>2. ~btReset => btOld <= btRead'
      BY <2>1, <2>2, <2>3, <2>4, <2>5, <3>1 DEF BtStarted
    <3> QED BY <2>1, <2>2, <2>6, <3>2 DEF BtStarted
  <2> QED BY <2>1, <2>2, <2>6, <2>7, <2>8, <2>9, <2>10 DEF BtInv
<1> QED BY <1>1, <1>2

\* Every step of the two threads is sound.
LEMMA BtSteps ==
    ASSUME BtMax < BtWord, ~BtSlow, BtInv, [BtNext]_btVars
    PROVE  BtInv'
<1>1. CASE BtNext
  BY <1>1, BtStartsStops, BtTaskSteps, BtReadSteps, BtReadEnds DEF BtNext
<1>2. CASE UNCHANGED btVars
  <2>1. BtTypeOK => BtTypeOK'
    BY <1>2 DEF BtTypeOK, btVars
  <2>2. BtSits /\ BtArrives /\ BtStarted => (BtSits /\ BtArrives /\ BtStarted)'
    BY <1>2 DEF BtSits, BtArrives, BtStarted, btVars
  <2>3. BtGivesStream => BtGivesStream'
    BY <1>2 DEF BtGivesStream, btVars
  <2> QED BY <1>2, <2>1, <2>2, <2>3 DEF BtInv, btVars
<1> QED BY <1>1, <1>2

\* The invariant says what BtSafe does, of the frames there are.
LEMMA BtAgrees ==
    ASSUME BtMax < BtWord, BtInv
    PROVE  BtSafe
<1>1. BtHoldsStream
  <2>. SUFFICES ASSUME btLife # "off"
                PROVE  LET held == BtBetween(btRead, btWrite)
                       IN  /\ held <= BtCapacity
                           /\ \A i \in 0 .. held - 1 :
                                btRing[BtPlace(btRead, i)] = btPut - held + 1 + i
    BY DEF BtHoldsStream
  <2>1. /\ BtSits /\ btRead \in Nat /\ btWrite \in Nat /\ btPut \in Nat /\ btWrite = btPut
        /\ btRead <= btWrite /\ btWrite <= BtMax /\ btWrite - btRead <= BtCapacity
    BY DEF BtInv, BtTypeOK, BtSits
  <2>2. BtBetween(btRead, btWrite) = btWrite - btRead
    BY <2>1, BtApart
  <2>3. ASSUME NEW i \in 0 .. (btWrite - btRead) - 1
        PROVE  btRing[BtPlace(btRead, i)] = btPut - (btWrite - btRead) + 1 + i
    <3>1. i \in Nat /\ btRead + i <= BtMax /\ btRead + i \in btRead .. btWrite - 1
      BY <2>1, BtConstants
    <3>2. BtPlace(btRead, i) = (btRead + i) % BtCapacity
      BY <2>1, <3>1, BtAdds DEF BtPlace
    <3>3. btRing[(btRead + i) % BtCapacity] = (btRead + i) + 1
      BY <2>1, <3>1 DEF BtSits
    <3> QED BY <2>1, <3>1, <3>2, <3>3
  <2> QED BY <2>1, <2>2, <2>3
<1>2. BtGivesStream
  BY DEF BtInv
<1>3. BtFreedUnused
  <2>. SUFFICES ASSUME btTask.at # "idle" PROVE btRing # <<>>
    BY DEF BtFreedUnused
  <2>1. DOMAIN btRing = 0 .. BtCapacity - 1 /\ BtCapacity \in Nat \ {0}
    BY BtConstants DEF BtInv, BtSits
  <2>2. 0 \in DOMAIN btRing /\ 0 \notin DOMAIN <<>>
    BY <2>1
  <2> QED BY <2>2
<1> QED BY <1>1, <1>2, <1>3 DEF BtSafe

\* The ring: a read gives the stream in order, and none of a stream that is over.
LEMMA BtHolds == BtMax < BtWord /\ ~BtSlow => (BtSpec => []BtSafe)
<1>. SUFFICES ASSUME BtMax < BtWord, ~BtSlow PROVE BtSpec => []BtSafe
  OBVIOUS
<1>1. BtInit => BtInv
  BY BtStarts0
<1>2. BtInv /\ [BtNext]_btVars => BtInv'
  BY BtSteps
<1>3. BtInv => BtSafe
  BY BtAgrees
<1> QED BY <1>1, <1>2, <1>3, PTL DEF BtSpec

-----------------------------------------------------------------------------
(***************************************************************************)
(* btaudio's link: a callback takes the lock store by store, the program   *)
(* sets the volume and asks what changed meanwhile. Inductive is what the  *)
(* steps a callback has left still owe: the bit of each property they set, *)
(* the scan mode, and what the sender will be told of the volume.          *)
(***************************************************************************)

BlFields == {"connected", "peer", "streaming", "rate", "track", "playing", "volume", "notify"}
BlLogical == {"connected", "playing", "notify"}

\* A sequence, whatever it is of.
BlSeq(t) == \E S : t \in Seq(S)

\* Step i sets field f.
BlSets(t, i, f) == t[i][1] = "set" /\ f \in DOMAIN t[i][2]

\* What the steps are.
BlStepsOK(t) ==
    /\ BlSeq(t)
    /\ \A i \in 1 .. Len(t) :
         /\ t[i][1] \in {"set", "mark", "scan", "save", "register", "interim"}
         /\ t[i][1] = "register" => Len(t) = 1
         /\ t[i][1] = "set" => DOMAIN t[i][2] \subseteq BlFields
         /\ \A f \in BlLogical : BlSets(t, i, f) => t[i][2][f] \in BOOLEAN

\* Each property they set is marked after, or is what it was already.
BlWillTell(t) ==
    \A i \in 1 .. Len(t), p \in BlProperties :
        BlSets(t, i, p) =>
            \/ Len(t) = 1 /\ p = "playing" /\ t[i][2]["playing"] = blS["playing"]
            \/ \E j \in i + 1 .. Len(t) : t[j][1] = "mark" /\ BlBit[p] \in t[j][2]

\* They neither connect or disconnect, nor scan.
BlKeepsLink(t) == \A i \in 1 .. Len(t) : ~BlSets(t, i, "connected")
BlKeepsScan(t) == \A i \in 1 .. Len(t) : t[i][1] # "scan"

\* They will leave the scan mode the opposite of the connection.
BlWillHide(t) ==
    \/ BlKeepsLink(t) /\ BlKeepsScan(t) /\ blVisible = ~blS["connected"]
    \/ /\ BlKeepsLink(t)
       /\ \E j \in 1 .. Len(t) : /\ t[j][1] = "scan" /\ t[j][2] = ~blS["connected"]
                                 /\ \A i \in 1 .. Len(t) : t[i][1] = "scan" => i = j
    \/ \E i, j \in 1 .. Len(t) :
         /\ i < j /\ BlSets(t, i, "connected") /\ t[j][1] = "scan"
         /\ t[j][2] = ~t[i][2]["connected"]
         /\ \A k \in 1 .. Len(t) : /\ t[k][1] = "scan" => k = j
                                   /\ BlSets(t, k, "connected") => k = i

\* An answer and a volume are of a callback of their own, and one that connects owes a
\* registration.
BlAlone(t) ==
    \A i \in 1 .. Len(t) :
        /\ t[i][1] = "interim" => Len(t) = 1 /\ (blS["notify"] => t[i][2] = blS["volume"])
        /\ BlSets(t, i, "volume") =>
             /\ i = 1 /\ BlKeepsLink(t) /\ (blOwes \/ blSlider = t[i][2]["volume"])
             /\ \A j \in 1 .. Len(t) : t[j][1] = "set" => j = 1
             /\ t[i][2] = [volume |-> t[i][2]["volume"]]
        /\ BlSets(t, i, "connected") => ~t[i][2]["connected"] \/ blOwes
        /\ BlSets(t, i, "notify") => BlSets(t, i, "connected") /\ ~t[i][2]["notify"]

\* The sender shows the volume, or is to.
BlWillShow(t) ==
    \/ blSlider = blS["volume"]
    \/ \E i \in 1 .. Len(t) : t[i][1] = "interim" /\ t[i][2] = blS["volume"]
    \/ \E i \in 1 .. Len(t) : BlSets(t, i, "volume") /\ t[i][2]["volume"] = blSlider

\* Or it will register, or set_volume() has yet to tell it.
BlWillFollow(t) ==
    blS["connected"] /\ BlKeepsLink(t) =>
        \/ blOwes \/ (\E i \in 1 .. Len(blPy) : blPy[i][1] = "changed")
        \/ (\E i \in 1 .. Len(t) : t[i][1] = "register")
        \/ blS["notify"] /\ BlWillShow(t)

\* The program's two steps.
BlPyOK ==
    \/ blPy = <<>> \/ blPy = <<BlMark({"VOLUME"})>>
    \/ \E v : blPy = <<BlSend("changed", v), BlMark({"VOLUME"})>>

BlTyped ==
    /\ DOMAIN blS = BlFields /\ blS = [f \in BlFields |-> blS[f]]
    /\ \A f \in BlLogical : blS[f] \in BOOLEAN
    /\ {blOn, blVisible, blOwes} \subseteq BOOLEAN
    /\ BlStepsOK(blTask) /\ BlPyOK

BlInv ==
    /\ BlTyped
    /\ ~blOn => blPy = <<>>
    /\ BlTold
    /\ BlWillTell(blTask)
    /\ blOn => BlWillHide(blTask) /\ BlAlone(blTask) /\ BlWillFollow(blTask)
-----------------------------------------------------------------------------

\* What the first step leaves.
LEMMA BlRest ==
    ASSUME NEW t, BlSeq(t), t # <<>>
    PROVE  /\ Len(t) \in Nat \ {0} /\ Head(t) = t[1]
           /\ BlSeq(Tail(t)) /\ Len(Tail(t)) = Len(t) - 1
           /\ \A i \in 1 .. Len(t) - 1 : Tail(t)[i] = t[i + 1]
<1>1. PICK S : t \in Seq(S)
  BY DEF BlSeq
<1>2. /\ Tail(t) \in Seq(S) /\ Len(Tail(t)) = Len(t) - 1
      /\ \A i \in 1 .. Len(Tail(t)) : Tail(t)[i] = t[i + 1]
  BY <1>1, HeadTailProperties
<1>3. Len(t) \in Nat /\ Len(t) # 0 /\ Head(t) = t[1]
  BY <1>1, EmptySeq, LenProperties
<1> QED BY <1>2, <1>3 DEF BlSeq

\* One step put before one, or before none.
LEMMA BlJoins ==
    ASSUME NEW a, NEW b
    PROVE  <<a>> \o <<b>> = <<a, b>> /\ <<>> \o <<b>> = <<b>> /\ <<a>> \o <<>> = <<a>>
<1> DEFINE S == {a, b}
<1>1. /\ <<a>> \in Seq(S) /\ <<b>> \in Seq(S) /\ <<a, b>> \in Seq(S)
      /\ Len(<<a>>) = 1 /\ Len(<<b>>) = 1 /\ Len(<<a, b>>) = 2
  OBVIOUS
<1>2. /\ <<a>> \o <<b>> \in Seq(S) /\ Len(<<a>> \o <<b>>) = 2
      /\ \A i \in 1 .. 2 : (<<a>> \o <<b>>)[i] = IF i <= 1 THEN <<a>>[i] ELSE <<b>>[i - 1]
  BY <1>1, ConcatProperties
<1>3. \A i \in 1 .. 2 : (<<a>> \o <<b>>)[i] = <<a, b>>[i]
  BY <1>2
<1>4. <<a>> \o <<b>> = <<a, b>>
  BY <1>1, <1>2, <1>3, SeqEqual
<1>5. <<>> \o <<b>> = <<b>> /\ <<a>> \o <<>> = <<a>>
  OBVIOUS
<1> QED BY <1>4, <1>5

\* Sequences that are written out.
LEMMA BlThree ==
    ASSUME NEW a, NEW b, NEW c, NEW u, u = <<a, b, c>>
    PROVE  /\ Len(u) = 3 /\ 1 .. Len(u) = {1, 2, 3} /\ BlSeq(u)
           /\ u[1] = a /\ u[2] = b /\ u[3] = c
<1>1. u \in Seq({a, b, c})
  OBVIOUS
<1>2. Len(u) = 3 /\ u[1] = a /\ u[2] = b /\ u[3] = c /\ 1 .. 3 = {1, 2, 3}
  OBVIOUS
<1> QED BY <1>1, <1>2 DEF BlSeq

\* Of four steps.
LEMMA BlFour ==
    ASSUME NEW a, NEW b, NEW c, NEW d, NEW u, u = <<a, b, c, d>>
    PROVE  /\ Len(u) = 4 /\ 1 .. Len(u) = {1, 2, 3, 4} /\ BlSeq(u)
           /\ u[1] = a /\ u[2] = b /\ u[3] = c /\ u[4] = d
<1>1. u \in Seq({a, b, c, d})
  OBVIOUS
<1>2. Len(u) = 4 /\ u[1] = a /\ u[2] = b /\ u[3] = c /\ u[4] = d /\ 1 .. 4 = {1, 2, 3, 4}
  OBVIOUS
<1> QED BY <1>1, <1>2 DEF BlSeq

\* Of five steps.
LEMMA BlFive ==
    ASSUME NEW a, NEW b, NEW c, NEW d, NEW e, NEW u, u = <<a, b, c, d, e>>
    PROVE  /\ Len(u) = 5 /\ 1 .. Len(u) = {1, 2, 3, 4, 5} /\ BlSeq(u)
           /\ u[1] = a /\ u[2] = b /\ u[3] = c /\ u[4] = d /\ u[5] = e
<1>1. u \in Seq({a, b, c, d, e})
  OBVIOUS
<1>2. /\ Len(u) = 5 /\ u[1] = a /\ u[2] = b /\ u[3] = c /\ u[4] = d /\ u[5] = e
      /\ 1 .. 5 = {1, 2, 3, 4, 5}
  OBVIOUS
<1> QED BY <1>1, <1>2 DEF BlSeq

\* The properties, and the bits by which they are told of.
LEMMA BlPropertiesAre ==
    /\ BlProperties = {"connected", "peer", "streaming", "rate", "track", "playing", "volume"}
    /\ BlProperties \subseteq BlFields /\ BlLogical \subseteq BlFields
    /\ BlFields = BlProperties \cup {"notify"}
BY DEF BlProperties, BlBit, BlFields, BlLogical

\* A bit some step marks.
BlMarked(t, b) == \E j \in 1 .. Len(t) : t[j][1] = "mark" /\ b \in t[j][2]

\* BlMarks collects what the steps mark.
LEMMA BlMarksAre == ASSUME NEW t, NEW b PROVE b \in BlMarks(t) <=> BlMarked(t, b)
BY DEF BlMarks, BlMarked

\* BlTold, of one property.
BlKnown(p) ==
    blView[p] # blS[p] =>
        ~blOn \/ BlBit[p] \in blChanges \cup blGot \/ BlMarked(blTask, BlBit[p])
              \/ BlMarked(blPy, BlBit[p])

BlAllKnown == \A p \in BlProperties : BlKnown(p)

\* BlTold says it of each property.
LEMMA BlToldIs == BlTold <=> BlAllKnown
BY BlMarksAre DEF BlTold, BlKnown, BlAllKnown

\* A step later it is enough to know it of each.
LEMMA BlToldNext ==
    ASSUME \A p \in BlProperties : BlKnown(p)'
    PROVE  BlTold'
<1>1. BlAllKnown'
  BY DEF BlAllKnown
<1>2. BlTold' <=> BlAllKnown'
  BY BlToldIs, PTL
<1> QED BY <1>1, <1>2

\* No steps.
LEMMA BlNoSteps ==
    /\ BlStepsOK(<<>>) /\ BlWillTell(<<>>) /\ BlAlone(<<>>)
    /\ BlKeepsLink(<<>>) /\ BlKeepsScan(<<>>)
    /\ (BlWillHide(<<>>) <=> blVisible = ~blS["connected"])
<1>1. Len(<<>>) = 0 /\ 1 .. Len(<<>>) = {} /\ <<>> \in Seq({})
  OBVIOUS
<1>2. BlSeq(<<>>)
  BY <1>1 DEF BlSeq
<1>3. /\ BlStepsOK(<<>>) /\ BlWillTell(<<>>) /\ BlAlone(<<>>)
      /\ BlKeepsLink(<<>>) /\ BlKeepsScan(<<>>)
  BY <1>1, <1>2 DEF BlStepsOK, BlWillTell, BlAlone, BlKeepsLink, BlKeepsScan
<1>4. BlWillHide(<<>>) <=> blVisible = ~blS["connected"]
  BY <1>1, <1>3 DEF BlWillHide
<1> QED BY <1>3, <1>4

\* It holds before anything started.
LEMMA BlBegins == BlInit => BlInv
<1>. SUFFICES ASSUME BlInit PROVE BlInv
  OBVIOUS
<1>1. /\ blS = BlZeroed(BlDefault) /\ blTask = <<>> /\ blPy = <<>> /\ blOn = FALSE
      /\ blVisible = FALSE /\ blOwes = FALSE /\ blView = BlSeen(BlZeroed(BlDefault))
  BY DEF BlInit
<1>2. /\ DOMAIN blS = BlFields /\ blS = [f \in BlFields |-> blS[f]]
      /\ \A f \in BlLogical : blS[f] \in BOOLEAN
  BY <1>1 DEF BlZeroed, BlFields, BlLogical
<1>3. BlTyped
  BY <1>1, <1>2, BlNoSteps DEF BlTyped, BlPyOK
<1>4. BlTold
  BY <1>1 DEF BlTold
<1> QED BY <1>1, <1>3, <1>4, BlNoSteps DEF BlInv

\* start() and stop(): what a sender was told is gone with it.
LEMMA BlStartsStops ==
    ASSUME BlInv, BlStart \/ BlStop
    PROVE  BlInv'
<1>1. CASE BlStart
  <2>1. /\ blS' = BlZeroed(BlDefault) /\ blTask' = <<>> /\ blPy' = <<>>
        /\ blVisible' = blOn' /\ blOn' \in BOOLEAN /\ blOwes' = blOwes
        /\ blView' = BlSeen(blS')
    BY <1>1 DEF BlStart, BlInv, blSender
  <2>2. /\ DOMAIN blS' = BlFields /\ blS' = [f \in BlFields |-> blS'[f]]
        /\ \A f \in BlLogical : blS'[f] \in BOOLEAN
        /\ blS'["connected"] = FALSE
    BY <2>1 DEF BlZeroed, BlFields, BlLogical
  <2>3. /\ BlStepsOK(blTask') /\ BlWillTell(blTask)' /\ BlAlone(blTask)'
        /\ (BlWillHide(blTask)' <=> blVisible' = ~blS'["connected"])
    <3>1. /\ Len(<<>>) = 0 /\ 1 .. Len(<<>>) = {} /\ BlStepsOK(<<>>)
      BY BlNoSteps
    <3>2. BlWillHide(blTask)' <=> blVisible' = ~blS'["connected"]
      BY <2>1, <3>1 DEF BlWillHide, BlKeepsLink, BlKeepsScan
    <3>3. BlStepsOK(blTask') /\ BlWillTell(blTask)' /\ BlAlone(blTask)'
      BY <2>1, <3>1 DEF BlWillTell, BlAlone
    <3> QED BY <3>2, <3>3
  <2>4. BlTyped'
    BY <2>1, <2>2, <2>3 DEF BlTyped, BlPyOK, BlInv
  <2>5. BlTold'
    BY <2>1 DEF BlTold, BlSeen
  <2>6. blOn' => BlWillHide(blTask)' /\ BlWillFollow(blTask)'
    BY <2>1, <2>2, <2>3 DEF BlWillFollow
  <2> QED BY <2>1, <2>3, <2>4, <2>5, <2>6 DEF BlInv
<1>2. CASE BlStop
  <2>1. /\ blOn' = FALSE /\ blVisible' = FALSE /\ blOwes' = FALSE /\ blPy' = <<>>
        /\ UNCHANGED <<blS, blTask>>
    BY <1>2 DEF BlStop, BlInv
  <2> QED BY <2>1 DEF BlInv, BlTyped, BlTold, BlPyOK, BlWillTell
<1> QED BY <1>1, <1>2

\* changes(), and the program reads what it names.
LEMMA BlAsksReads ==
    ASSUME BlInv, BlAsks \/ BlReads
    PROVE  BlInv'
<1>1. UNCHANGED <<blOn, blS, blTask, blPy, blVisible, blOwes, blSlider>>
  BY DEF BlAsks, BlReads, blHost, blSender
<1>2. BlTyped' /\ BlWillTell(blTask)' /\ (~blOn' => blPy' = <<>>)
  <2>1. BlTyped /\ BlWillTell(blTask) /\ (~blOn => blPy = <<>>)
    BY DEF BlInv
  <2> QED BY <1>1, <2>1 DEF BlTyped, BlWillTell, BlPyOK
<1>3. blOn' => BlWillHide(blTask)' /\ BlAlone(blTask)' /\ BlWillFollow(blTask)'
  <2>1. blOn => BlWillHide(blTask) /\ BlAlone(blTask) /\ BlWillFollow(blTask)
    BY DEF BlInv
  <2> QED BY <1>1, <2>1 DEF BlWillHide, BlAlone, BlWillFollow, BlWillShow, BlKeepsLink, BlKeepsScan
<1>4. \A p \in BlProperties : BlKnown(p)
  BY BlToldIs DEF BlInv, BlAllKnown
<1>5. ASSUME NEW p \in BlProperties PROVE BlKnown(p)'
  <2>1. CASE BlAsks
    <3>1. blGot = {} /\ blGot' = blChanges /\ blChanges' = {} /\ blView' = blView
      BY <2>1 DEF BlAsks
    <3> QED BY <1>1, <1>4, <3>1 DEF BlKnown, BlMarked
  <2>2. CASE BlReads
    <3>1. /\ blGot' = {} /\ blChanges' = blChanges
          /\ blView' = [q \in BlProperties |-> IF BlBit[q] \in blGot THEN blS[q] ELSE blView[q]]
      BY <2>2 DEF BlReads
    <3>2. blView'[p] = IF BlBit[p] \in blGot THEN blS[p] ELSE blView[p]
      BY <3>1
    <3>3. CASE BlBit[p] \in blGot
      BY <1>1, <3>2, <3>3 DEF BlKnown
    <3>4. CASE BlBit[p] \notin blGot
      BY <1>1, <1>4, <3>1, <3>2, <3>4 DEF BlKnown, BlMarked
    <3> QED BY <3>3, <3>4
  <2> QED BY <2>1, <2>2
<1>6. BlTold'
  BY <1>5, BlToldNext
<1> QED BY <1>2, <1>3, <1>6 DEF BlInv

\* btaudio_set_volume: what it stores it will mark, and tell a sender that had
\* registered, which uses that up.
LEMMA BlSetsVolume ==
    ASSUME BlInv, NEW v \in BlVolumes, BlSetVolume(v)
    PROVE  BlInv'
<1>1. /\ blOn /\ blPy = <<>> /\ blS' = [blS EXCEPT !.volume = v, !.notify = FALSE]
      /\ blPy' = (IF blS.notify THEN <<BlSend("changed", v)>> ELSE <<>>) \o <<BlMark({"VOLUME"})>>
      /\ UNCHANGED <<blOn, blChanges, blTask, blGot, blView, blVisible, blOwes, blSlider>>
  BY DEF BlSetVolume, blHost, blSender, blProgram
<1>2. /\ DOMAIN blS = BlFields /\ blS = [f \in BlFields |-> blS[f]]
      /\ \A f \in BlLogical : blS[f] \in BOOLEAN
      /\ {blOn, blVisible, blOwes} \subseteq BOOLEAN /\ BlStepsOK(blTask)
  BY DEF BlInv, BlTyped
<1>3. /\ DOMAIN blS' = BlFields /\ blS' = [f \in BlFields |-> blS'[f]]
      /\ \A f \in BlFields : f \notin {"volume", "notify"} => blS'[f] = blS[f]
      /\ blS'["volume"] = v /\ blS'["notify"] = FALSE
      /\ \A f \in BlLogical : blS'[f] \in BOOLEAN
  BY <1>1, <1>2 DEF BlFields, BlLogical
<1>4. /\ blS["notify"] => blPy' = <<BlSend("changed", v), BlMark({"VOLUME"})>>
      /\ ~blS["notify"] => blPy' = <<BlMark({"VOLUME"})>>
  BY <1>1, BlJoins
<1>5. blS["notify"] \in BOOLEAN
  BY <1>2 DEF BlLogical
<1>6. BlTyped'
  <2>1. BlPyOK'
    BY <1>4, <1>5 DEF BlPyOK
  <2> QED BY <1>1, <1>2, <1>3, <2>1 DEF BlTyped
<1>7. BlWillTell(blTask)'
  <2>1. blS'["playing"] = blS["playing"] /\ blTask' = blTask
    BY <1>1, <1>3 DEF BlFields
  <2> QED BY <2>1 DEF BlWillTell, BlInv
<1>8. BlMarked(blPy', "VOLUME")
  <2>1. CASE blS["notify"]
    <3>1. Len(blPy') = 2 /\ blPy'[2] = <<"mark", {"VOLUME"}>>
      BY <1>4, <2>1 DEF BlMark
    <3> QED BY <3>1 DEF BlMarked
  <2>2. CASE ~blS["notify"]
    <3>1. Len(blPy') = 1 /\ blPy'[1] = <<"mark", {"VOLUME"}>>
      BY <1>4, <2>2 DEF BlMark
    <3> QED BY <3>1 DEF BlMarked
  <2> QED BY <1>5, <2>1, <2>2
<1>9. BlTold'
  <2>1. \A p \in BlProperties : BlKnown(p)
    BY BlToldIs DEF BlInv, BlAllKnown
  <2>2. ASSUME NEW p \in BlProperties PROVE BlKnown(p)'
    <3>1. CASE p = "volume"
      BY <1>8, <3>1 DEF BlKnown, BlBit
    <3>2. CASE p # "volume"
      <4>1. blS'[p] = blS[p]
        BY <1>3, <3>2, BlPropertiesAre
      <4>2. \A b : ~BlMarked(blPy, b)
        BY <1>1 DEF BlMarked
      <4>3. BlKnown(p)
        BY <2>1
      <4> QED BY <1>1, <4>1, <4>2, <4>3 DEF BlKnown, BlMarked
    <3> QED BY <3>1, <3>2
  <2> QED BY <2>2, BlToldNext
<1>10. blS'["connected"] = blS["connected"] /\ blS'["notify"] = FALSE
  BY <1>3 DEF BlFields
<1>11. BlWillHide(blTask)' /\ BlAlone(blTask)'
  <2>1. BlWillHide(blTask) /\ BlAlone(blTask)
    BY <1>1 DEF BlInv
  <2> QED BY <1>1, <1>10, <2>1 DEF BlWillHide, BlAlone, BlKeepsLink, BlKeepsScan
<1>12. BlWillFollow(blTask)'
  <2>. SUFFICES ASSUME blS'["connected"], BlKeepsLink(blTask')
                PROVE  \/ blOwes' \/ (\E i \in 1 .. Len(blPy') : blPy'[i][1] = "changed")
                       \/ (\E i \in 1 .. Len(blTask') : blTask'[i][1] = "register")
    BY DEF BlWillFollow
  <2>1. CASE blS["notify"]
    <3>1. Len(blPy') = 2 /\ blPy'[1] = <<"changed", v>>
      BY <1>4, <2>1 DEF BlSend
    <3> QED BY <3>1
  <2>2. CASE ~blS["notify"]
    <3>1. BlKeepsLink(blTask) /\ blS["connected"] /\ BlWillFollow(blTask)
      BY <1>1, <1>10 DEF BlInv
    <3>2. ~\E i \in 1 .. Len(blPy) : blPy[i][1] = "changed"
      BY <1>1
    <3> QED BY <1>1, <2>2, <3>1, <3>2 DEF BlWillFollow
  <2> QED BY <1>5, <2>1, <2>2
<1> QED BY <1>1, <1>6, <1>7, <1>9, <1>11, <1>12 DEF BlInv

\* The rest of it: told, the sender will register again.
LEMMA BlPySteps ==
    ASSUME BlInv, BlPyStep
    PROVE  BlInv'
<1>1. /\ blPy # <<>> /\ blPy' = Tail(blPy) /\ BlStep(Head(blPy)[1], Head(blPy)[2])
      /\ UNCHANGED <<blOn, blTask, blGot, blView>>
  BY DEF BlPyStep, blHost, blProgram
<1>2. blOn /\ BlTyped
  BY <1>1 DEF BlInv
<1>3. \/ blPy = <<BlMark({"VOLUME"})>>
      \/ \E v : blPy = <<BlSend("changed", v), BlMark({"VOLUME"})>>
  BY <1>1, <1>2 DEF BlTyped, BlPyOK
<1>4. /\ {blOn, blVisible, blOwes} \subseteq BOOLEAN
      /\ \A f \in BlLogical : blS[f] \in BOOLEAN
  BY <1>2 DEF BlTyped
<1>5. ASSUME NEW what, NEW arg, Head(blPy) = <<what, arg>>, what \in {"mark", "changed"}
      PROVE  /\ blS' = blS /\ blVisible' = blVisible
             /\ blChanges' = IF what = "mark" THEN blChanges \cup arg ELSE blChanges
             /\ blSlider' = IF what = "changed" /\ BlLinked THEN arg ELSE blSlider
             /\ blOwes' = (blOwes \/ (what = "changed" /\ BlLinked))
  <2>1. BlStep(what, arg)
    BY <1>1, <1>5
  <2>2. /\ blS' = CASE what = "set" -> BlStored(arg)
                     [] what = "register" -> BlRegisters(blS)[1]
                     [] OTHER -> blS
        /\ blVisible' = IF what = "scan" /\ blOn THEN arg ELSE blVisible
        /\ blChanges' = IF what = "mark" THEN blChanges \cup arg ELSE blChanges
        /\ blSlider' = IF what \in {"interim", "changed"} /\ BlLinked THEN arg ELSE blSlider
        /\ blOwes' = (blOwes \/ (what = "changed" /\ BlLinked))
    BY <2>1, Zenon DEF BlStep
  <2>. HIDE DEF BlLinked
  <2>3. blS' = blS
    BY <1>5, <2>2
  <2>4. what # "scan" /\ (what \in {"interim", "changed"} <=> what = "changed")
    BY <1>5
  <2> QED BY <2>2, <2>3, <2>4
<1>6. \A p \in BlProperties : BlKnown(p)
  BY BlToldIs DEF BlInv, BlAllKnown
<1>7. CASE blPy = <<BlMark({"VOLUME"})>>
  <2>1. blPy' = <<>> /\ Head(blPy) = <<"mark", {"VOLUME"}>>
    BY <1>1, <1>7 DEF BlMark
  <2>2. /\ blS' = blS /\ blVisible' = blVisible /\ blChanges' = blChanges \cup {"VOLUME"}
        /\ blSlider' = blSlider /\ blOwes' = blOwes
    <3>1. blOwes' = (blOwes \/ ("mark" = "changed" /\ BlLinked))
      BY <1>5, <2>1
    <3> QED BY <1>4, <1>5, <2>1, <3>1
  <2>3. \A b : BlMarked(blPy, b) => b = "VOLUME"
    BY <1>7 DEF BlMarked, BlMark
  <2>4. ASSUME NEW p \in BlProperties PROVE BlKnown(p)'
    BY <1>1, <1>2, <1>6, <2>2, <2>3 DEF BlKnown, BlMarked
  <2>5. BlTold'
    BY <2>4, BlToldNext
  <2>6. ~\E i \in 1 .. Len(blPy) : blPy[i][1] = "changed"
    BY <1>7 DEF BlMark
  <2>7. BlTyped' /\ BlWillTell(blTask)'
    <3>1. BlTyped /\ BlWillTell(blTask)
      BY DEF BlInv
    <3> QED BY <1>1, <2>1, <2>2, <3>1 DEF BlTyped, BlWillTell, BlPyOK
  <2>8. BlWillHide(blTask)' /\ BlAlone(blTask)'
    <3>1. BlWillHide(blTask) /\ BlAlone(blTask)
      BY <1>2 DEF BlInv
    <3> QED BY <1>1, <2>2, <3>1 DEF BlWillHide, BlAlone, BlKeepsLink, BlKeepsScan
  <2>9. BlWillFollow(blTask)'
    <3>1. BlWillFollow(blTask)
      BY <1>2 DEF BlInv
    <3> QED BY <1>1, <2>2, <2>6, <3>1 DEF BlWillFollow, BlWillShow, BlKeepsLink
  <2> QED BY <2>1, <2>5, <2>7, <2>8, <2>9 DEF BlInv
<1>8. ASSUME NEW v, blPy = <<BlSend("changed", v), BlMark({"VOLUME"})>> PROVE BlInv'
  <2>1. blPy' = <<BlMark({"VOLUME"})>> /\ Head(blPy) = <<"changed", v>>
    BY <1>1, <1>8 DEF BlSend
  <2>2. /\ blS' = blS /\ blVisible' = blVisible /\ blChanges' = blChanges
        /\ blSlider' = (IF BlLinked THEN v ELSE blSlider)
        /\ blOwes' = (blOwes \/ BlLinked)
    BY <1>5, <2>1
  <2>3. \A b : BlMarked(blPy, b) => BlMarked(blPy', b)
    <3>1. \A b : BlMarked(blPy, b) => b \in {"VOLUME"}
      BY <1>8 DEF BlMarked, BlMark, BlSend
    <3>2. Len(blPy') = 1 /\ blPy'[1] = <<"mark", {"VOLUME"}>>
      BY <2>1 DEF BlMark
    <3> QED BY <3>1, <3>2 DEF BlMarked
  <2>4. ASSUME NEW p \in BlProperties PROVE BlKnown(p)'
    <3>1. BlKnown(p)
      BY <1>6
    <3>2. BlMarked(blPy, BlBit[p]) => BlMarked(blPy', BlBit[p])
      BY <2>3
    <3>3. blTask' = blTask /\ blOn' = blOn /\ blGot' = blGot /\ blView' = blView
      BY <1>1
    <3>. HIDE DEF BlMarked
    <3> QED BY <2>2, <3>1, <3>2, <3>3 DEF BlKnown
  <2>5. BlTold'
    BY <2>4, BlToldNext
  <2>6. BlLinked \in BOOLEAN /\ (BlLinked <=> blS["connected"])
    BY <1>2, <1>4 DEF BlLinked, BlLogical
  <2>7. BlTyped' /\ BlWillTell(blTask)'
    <3>1. BlTyped /\ BlWillTell(blTask)
      BY DEF BlInv
    <3>2. BlPyOK'
      BY <2>1 DEF BlPyOK
    <3>3. blOwes' \in BOOLEAN
      BY <2>2
    <3> QED BY <1>1, <2>2, <3>1, <3>2, <3>3 DEF BlTyped, BlWillTell
  <2>8. BlWillHide(blTask)'
    <3>1. BlWillHide(blTask)
      BY <1>2 DEF BlInv
    <3> QED BY <1>1, <2>2, <3>1 DEF BlWillHide, BlKeepsLink, BlKeepsScan
  <2>9. BlAlone(blTask)'
    <3>1. BlAlone(blTask)
      BY <1>2 DEF BlInv
    <3>2. blS' = blS /\ blTask' = blTask /\ (blOwes => blOwes') /\ (blSlider' = blSlider \/ blOwes')
      BY <1>1, <2>2
    <3> QED BY <3>1, <3>2 DEF BlAlone, BlKeepsLink
  <2>10. BlWillFollow(blTask)'
    BY <2>2, <2>6 DEF BlWillFollow
  <2> QED BY <1>1, <1>2, <2>5, <2>7, <2>8, <2>9, <2>10 DEF BlInv
<1> QED BY <1>3, <1>7, <1>8

\* A callback begins: no other is under way, and what there is agrees.
LEMMA BlAtRest ==
    ASSUME BlInv, NEW u, BlEvent(u)
    PROVE  /\ blOn /\ blTask = <<>> /\ blTask' = u
           /\ UNCHANGED <<blOn, blS, blChanges, blPy, blGot, blView, blVisible>>
           /\ blVisible = ~blS["connected"]
           /\ \A f \in BlLogical : blS[f] \in BOOLEAN
           /\ blOn \in BOOLEAN /\ blVisible \in BOOLEAN /\ blOwes \in BOOLEAN
           /\ blS["connected"] => \/ blOwes \/ \E i \in 1 .. Len(blPy) : blPy[i][1] = "changed"
                                  \/ blS["notify"] /\ blSlider = blS["volume"]
<1>1. /\ blOn /\ blTask = <<>> /\ blTask' = u
      /\ UNCHANGED <<blOn, blS, blChanges, blPy, blGot, blView, blVisible>>
  BY DEF BlEvent, blHost, blProgram
<1>2. BlWillHide(<<>>) /\ BlWillFollow(<<>>) /\ BlTyped
  BY <1>1 DEF BlInv
<1>3. blVisible = ~blS["connected"]
  BY <1>2, BlNoSteps
<1>4. BlKeepsLink(<<>>) /\ Len(<<>>) = 0 /\ 1 .. Len(<<>>) = {}
  BY BlNoSteps
<1>5. blS["connected"] => \/ blOwes \/ \E i \in 1 .. Len(blPy) : blPy[i][1] = "changed"
                          \/ blS["notify"] /\ blSlider = blS["volume"]
  BY <1>2, <1>4 DEF BlWillFollow, BlWillShow
<1>6. /\ \A f \in BlLogical : blS[f] \in BOOLEAN
      /\ blOn \in BOOLEAN /\ blVisible \in BOOLEAN /\ blOwes \in BOOLEAN
  BY <1>2 DEF BlTyped
<1> QED BY <1>1, <1>3, <1>5, <1>6

\* What its steps have to be for the invariant to go on.
LEMMA BlGoesOn ==
    ASSUME BlInv, NEW u, BlEvent(u), blOwes' \in BOOLEAN,
           BlStepsOK(u), BlWillTell(u), BlWillHide(u), BlAlone(u)', BlWillFollow(u)'
    PROVE  BlInv'
<1>1. /\ blOn /\ blTask = <<>> /\ blTask' = u
      /\ UNCHANGED <<blOn, blS, blChanges, blPy, blGot, blView, blVisible>>
  BY BlAtRest
<1>2. BlTyped
  BY DEF BlInv
<1>3. BlTyped'
  BY <1>1, <1>2 DEF BlTyped, BlPyOK
<1>4. BlTold'
  <2>1. \A p \in BlProperties : BlKnown(p)
    BY BlToldIs DEF BlInv, BlAllKnown
  <2>2. \A b : ~BlMarked(blTask, b)
    BY <1>1 DEF BlMarked
  <2>3. ASSUME NEW p \in BlProperties PROVE BlKnown(p)'
    <3>1. BlKnown(p)
      BY <2>1
    <3> QED BY <1>1, <2>2, <3>1 DEF BlKnown, BlMarked
  <2> QED BY <2>3, BlToldNext
<1>5. BlWillTell(blTask)' /\ BlWillHide(blTask)'
  BY <1>1 DEF BlWillTell, BlWillHide, BlKeepsLink, BlKeepsScan
<1>6. BlAlone(blTask)' /\ BlWillFollow(blTask)'
  BY <1>1 DEF BlAlone, BlWillFollow, BlWillShow, BlKeepsLink
<1> QED BY <1>1, <1>3, <1>4, <1>5, <1>6 DEF BlInv

\* One property is stored, and marked, that neither is the connection nor the volume.
LEMMA BlStoresOne ==
    ASSUME BlInv, NEW f \in BlProperties \ {"connected", "volume"}, NEW r, DOMAIN r = {f},
           f \in BlLogical => r[f] \in BOOLEAN, blOwes' = blOwes, blSlider' = blSlider,
           BlEvent(<<<<"set", r>>, <<"mark", {BlBit[f]}>>>>)
    PROVE  BlInv'
<1> DEFINE w == <<<<"set", r>>, <<"mark", {BlBit[f]}>>>>
<1>1. PICK u : u = w
  OBVIOUS
<1>2. /\ Len(u) = 2 /\ 1 .. Len(u) = {1, 2} /\ u[1] = <<"set", r>> /\ u[2] = <<"mark", {BlBit[f]}>>
      /\ u \in Seq({u[1], u[2]})
  BY <1>1
<1>3. BlEvent(u)
  BY <1>1
<1>. HIDE DEF w
<1>4. f # "connected" /\ f # "volume" /\ f # "notify" /\ f \in BlFields
  BY BlPropertiesAre
<1>5. \A g : \A i \in 1 .. Len(u) : BlSets(u, i, g) => i = 1 /\ g = f
  BY <1>2 DEF BlSets
<1>6. BlStepsOK(u)
  <2>1. BlSeq(u)
    BY <1>2 DEF BlSeq
  <2> QED BY <1>2, <1>4, <1>5, <2>1 DEF BlStepsOK
<1>7. BlWillTell(u)
  BY <1>2, <1>5 DEF BlWillTell
<1>8. BlKeepsLink(u) /\ BlKeepsScan(u)
  BY <1>2, <1>4, <1>5 DEF BlKeepsLink, BlKeepsScan
<1>9. BlWillHide(u)
  BY <1>3, <1>8, BlAtRest DEF BlWillHide
<1>10. BlAlone(u)'
  BY <1>2, <1>4, <1>5 DEF BlAlone
<1>11. BlWillFollow(u)'
  BY <1>3, BlAtRest DEF BlWillFollow, BlWillShow
<1>12. blOwes' \in BOOLEAN
  BY <1>3, BlAtRest
<1> QED BY <1>3, <1>6, <1>7, <1>9, <1>10, <1>11, <1>12, BlGoesOn

\* The stream, its rate, a title, and whether it plays.
LEMMA BlStores ==
    ASSUME BlInv,
           \/ \E b \in BOOLEAN : BlAudio(b) \/ BlPlayStatus(b)
           \/ \E rate \in BlRates : BlFormat(rate)
           \/ \E track \in BlTracks : BlMetadata(track)
    PROVE  BlInv'
<1>0. /\ BlBit["streaming"] = "STREAM" /\ BlBit["rate"] = "FORMAT" /\ BlBit["track"] = "TRACK"
      /\ BlBit["playing"] = "PLAYING" /\ {"streaming", "rate", "track", "playing"} \subseteq BlProperties
      /\ "streaming" \notin BlLogical /\ "rate" \notin BlLogical /\ "track" \notin BlLogical
  BY DEF BlBit, BlProperties, BlLogical
<1>1. ASSUME NEW b \in BOOLEAN, BlAudio(b) PROVE BlInv'
  <2> DEFINE r == [streaming |-> b]
  <2>1. DOMAIN r = {"streaming"}
    OBVIOUS
  <2>2. /\ BlEvent(<<<<"set", r>>, <<"mark", {BlBit["streaming"]}>>>>)
        /\ blOwes' = blOwes /\ blSlider' = blSlider
    BY <1>0, <1>1 DEF BlAudio, BlSet, BlMark, blSender
  <2>. HIDE DEF r
  <2> QED BY <1>0, <2>1, <2>2, BlStoresOne
<1>2. ASSUME NEW rate \in BlRates, BlFormat(rate) PROVE BlInv'
  <2> DEFINE r == [rate |-> rate]
  <2>1. DOMAIN r = {"rate"}
    OBVIOUS
  <2>2. /\ BlEvent(<<<<"set", r>>, <<"mark", {BlBit["rate"]}>>>>)
        /\ blOwes' = blOwes /\ blSlider' = blSlider
    BY <1>0, <1>2 DEF BlFormat, BlSet, BlMark, blSender
  <2>. HIDE DEF r
  <2> QED BY <1>0, <2>1, <2>2, BlStoresOne
<1>3. ASSUME NEW track \in BlTracks, BlMetadata(track) PROVE BlInv'
  <2> DEFINE r == [track |-> track]
  <2>1. DOMAIN r = {"track"}
    OBVIOUS
  <2>2. /\ BlEvent(<<<<"set", r>>, <<"mark", {BlBit["track"]}>>>>)
        /\ blOwes' = blOwes /\ blSlider' = blSlider
    BY <1>0, <1>3 DEF BlMetadata, BlSet, BlMark, blSender
  <2>. HIDE DEF r
  <2> QED BY <1>0, <2>1, <2>2, BlStoresOne
<1>4. ASSUME NEW b \in BOOLEAN, BlPlayStatus(b) PROVE BlInv'
  <2> DEFINE r == [playing |-> b]
  <2>1. DOMAIN r = {"playing"} /\ r["playing"] \in BOOLEAN /\ r["playing"] = b
    OBVIOUS
  <2>2. blOwes' = blOwes /\ blSlider' = blSlider
    BY <1>4 DEF BlPlayStatus, blSender
  <2>3. CASE blS["playing"] # b
    <3>1. BlEvent(<<<<"set", r>>>> \o <<<<"mark", {"PLAYING"}>>>>)
      BY <1>4, <2>3 DEF BlPlayStatus, BlSet, BlMark
    <3>2. BlEvent(<<<<"set", r>>, <<"mark", {"PLAYING"}>>>>)
      BY <3>1, BlJoins
    <3>. HIDE DEF r
    <3> QED BY <1>0, <2>1, <2>2, <3>2, BlStoresOne
  <2>4. CASE blS["playing"] = b
    <3>1. BlEvent(<<<<"set", r>>>> \o <<>>)
      BY <1>4, <2>4 DEF BlPlayStatus, BlSet, BlMark
    <3>2. BlEvent(<<<<"set", r>>>>)
      BY <3>1, BlJoins
    <3>3. PICK u : u = <<<<"set", r>>>>
      OBVIOUS
    <3>4. Len(u) = 1 /\ 1 .. Len(u) = {1} /\ u[1] = <<"set", r>> /\ u \in Seq({u[1]})
      BY <3>3
    <3>5. BlEvent(u)
      BY <3>2, <3>3
    <3>. HIDE DEF r
    <3>6. \A g : \A i \in 1 .. Len(u) : BlSets(u, i, g) => i = 1 /\ g = "playing"
      BY <2>1, <3>4 DEF BlSets
    <3>7. BlStepsOK(u)
      <4>1. BlSeq(u)
        BY <3>4 DEF BlSeq
      <4>2. {"playing"} \subseteq BlFields
        BY DEF BlFields
      <4> QED BY <2>1, <3>4, <3>6, <4>1, <4>2 DEF BlStepsOK
    <3>8. BlWillTell(u)
      BY <2>1, <2>4, <3>4, <3>6 DEF BlWillTell
    <3>9. BlKeepsLink(u) /\ BlKeepsScan(u)
      BY <3>4, <3>6 DEF BlKeepsLink, BlKeepsScan
    <3>10. BlWillHide(u)
      BY <3>5, <3>9, BlAtRest DEF BlWillHide
    <3>11. BlAlone(u)'
      BY <3>4, <3>6 DEF BlAlone
    <3>12. BlWillFollow(u)' /\ blOwes' \in BOOLEAN
      BY <2>2, <3>5, BlAtRest DEF BlWillFollow, BlWillShow
    <3> QED BY <3>5, <3>7, <3>8, <3>10, <3>11, <3>12, BlGoesOn
  <2> QED BY <2>3, <2>4
<1> QED BY <1>1, <1>2, <1>3, <1>4

\* The control link is gone: no title, and nothing plays.
LEMMA BlControlGoes ==
    ASSUME BlInv, BlControlGone
    PROVE  BlInv'
<1> DEFINE w == <<<<"set", [playing |-> FALSE]>>, <<"set", [track |-> BlNone]>>,
                  <<"mark", {"TRACK", "PLAYING"}>>>>
<1>1. BlEvent(w) /\ blOwes' = blOwes /\ blSlider' = blSlider
  BY DEF BlControlGone, BlSet, BlMark, blSender
<1>2. PICK u : u = w
  OBVIOUS
<1>3. /\ Len(u) = 3 /\ 1 .. Len(u) = {1, 2, 3} /\ BlSeq(u)
      /\ u[1] = <<"set", [playing |-> FALSE]>> /\ u[2] = <<"set", [track |-> BlNone]>>
      /\ u[3] = <<"mark", {"TRACK", "PLAYING"}>>
  <2>1. PICK a, b, c : /\ a = <<"set", [playing |-> FALSE]>> /\ b = <<"set", [track |-> BlNone]>>
                       /\ c = <<"mark", {"TRACK", "PLAYING"}>>
    OBVIOUS
  <2>2. u = <<a, b, c>>
    BY <1>2, <2>1, Zenon
  <2>3. /\ Len(u) = 3 /\ 1 .. Len(u) = {1, 2, 3} /\ BlSeq(u)
        /\ u[1] = a /\ u[2] = b /\ u[3] = c
    BY <2>2, BlThree
  <2> QED BY <2>1, <2>3, Zenon
<1>4. BlEvent(u)
  BY <1>1, <1>2
<1>. HIDE DEF w
<1>5. \A g : \A i \in 1 .. Len(u) : BlSets(u, i, g) =>
        (i = 1 /\ g = "playing" /\ u[i][2][g] = FALSE) \/ (i = 2 /\ g = "track")
  BY <1>3 DEF BlSets
<1>6. BlStepsOK(u)
  <2>1. BlSeq(u)
    BY <1>3
  <2>2. {"playing", "track"} \subseteq BlFields /\ "track" \notin BlLogical
    BY DEF BlFields, BlLogical
  <2>3. \A i \in 1 .. Len(u) :
          /\ u[i][1] = "set" => DOMAIN u[i][2] \subseteq {"playing", "track"}
          /\ u[i][1] \in {"set", "mark"}
    BY <1>3
  <2> QED BY <1>5, <2>1, <2>2, <2>3 DEF BlStepsOK
<1>7. BlWillTell(u)
  <2>1. BlBit["track"] \in u[3][2] /\ BlBit["playing"] \in u[3][2] /\ u[3][1] = "mark"
    BY <1>3 DEF BlBit
  <2>2. 3 \in 1 + 1 .. Len(u) /\ 3 \in 2 + 1 .. Len(u)
    BY <1>3
  <2> QED BY <1>5, <2>1, <2>2 DEF BlWillTell
<1>8. BlKeepsLink(u) /\ BlKeepsScan(u)
  BY <1>3, <1>5 DEF BlKeepsLink, BlKeepsScan
<1>9. BlWillHide(u)
  BY <1>4, <1>8, BlAtRest DEF BlWillHide
<1>10. BlAlone(u)'
  BY <1>3, <1>5 DEF BlAlone
<1>11. BlWillFollow(u)' /\ blOwes' \in BOOLEAN
  BY <1>1, <1>4, BlAtRest DEF BlWillFollow, BlWillShow
<1> QED BY <1>4, <1>6, <1>7, <1>9, <1>10, <1>11, BlGoesOn

\* The slider moves; the sender registers.
LEMMA BlVolumeEvents ==
    ASSUME BlInv, BlRegister \/ \E volume \in BlVolumes : BlSlides(volume)
    PROVE  BlInv'
<1>1. ASSUME NEW v \in BlVolumes, BlSlides(v) PROVE BlInv'
  <2>1. /\ BlEvent(<<<<"set", [volume |-> v]>>, <<"mark", {"VOLUME"}>>>>)
        /\ blOwes' = blOwes /\ blSlider' = v /\ blS["connected"]
    BY <1>1 DEF BlSlides, BlSet, BlMark
  <2>2. PICK u : u = <<<<"set", [volume |-> v]>>, <<"mark", {"VOLUME"}>>>>
    OBVIOUS
  <2>3. /\ Len(u) = 2 /\ 1 .. Len(u) = {1, 2} /\ u \in Seq({u[1], u[2]})
        /\ u[1] = <<"set", [volume |-> v]>> /\ u[2] = <<"mark", {"VOLUME"}>>
    BY <2>2
  <2>4. BlEvent(u)
    BY <2>1, <2>2
  <2>5. \A g : \A i \in 1 .. Len(u) : BlSets(u, i, g) => i = 1 /\ g = "volume"
    BY <2>3 DEF BlSets
  <2>6. BlSets(u, 1, "volume") /\ u[1][2]["volume"] = v /\ u[1][2] = [volume |-> v]
    BY <2>3 DEF BlSets
  <2>7. BlStepsOK(u)
    <3>1. BlSeq(u)
      BY <2>3 DEF BlSeq
    <3>2. {"volume"} \subseteq BlFields /\ "volume" \notin BlLogical
      BY DEF BlFields, BlLogical
    <3> QED BY <2>3, <2>5, <3>1, <3>2 DEF BlStepsOK
  <2>8. BlWillTell(u)
    <3>1. BlBit["volume"] \in u[2][2] /\ u[2][1] = "mark" /\ 2 \in 1 + 1 .. Len(u)
      BY <2>3 DEF BlBit
    <3> QED BY <2>5, <3>1 DEF BlWillTell
  <2>9. BlKeepsLink(u) /\ BlKeepsScan(u)
    BY <2>3, <2>5 DEF BlKeepsLink, BlKeepsScan
  <2>10. BlWillHide(u)
    BY <2>4, <2>9, BlAtRest DEF BlWillHide
  <2>11. BlAlone(u)'
    <3>1. \A i \in 1 .. Len(u) : u[i][1] # "register" /\ u[i][1] # "interim"
      BY <2>3
    <3>2. \A j \in 1 .. Len(u) : u[j][1] = "set" => j = 1
      BY <2>3
    <3> QED BY <2>1, <2>5, <2>6, <2>9, <3>1, <3>2 DEF BlAlone
  <2>12. BlWillFollow(u)' /\ blOwes' \in BOOLEAN
    <3>1. /\ blS["connected"] => \/ blOwes \/ \E i \in 1 .. Len(blPy) : blPy[i][1] = "changed"
                                 \/ blS["notify"]
          /\ blOwes \in BOOLEAN /\ blS' = blS /\ blPy' = blPy
      BY <2>4, BlAtRest
    <3>2. BlWillShow(u)'
      BY <2>1, <2>3, <2>6 DEF BlWillShow
    <3> QED BY <2>1, <3>1, <3>2 DEF BlWillFollow
  <2> QED BY <2>4, <2>7, <2>8, <2>10, <2>11, <2>12, BlGoesOn
<1>2. CASE BlRegister
  <2>1. BlEvent(<<<<"register", TRUE>>>>) /\ blOwes' = FALSE
    BY <1>2 DEF BlRegister
  <2>2. PICK u : u = <<<<"register", TRUE>>>>
    OBVIOUS
  <2>3. Len(u) = 1 /\ 1 .. Len(u) = {1} /\ u \in Seq({u[1]}) /\ u[1][1] = "register"
    BY <2>2
  <2>4. BlEvent(u)
    BY <2>1, <2>2
  <2>5. \A g : \A i \in 1 .. Len(u) : ~BlSets(u, i, g)
    BY <2>3 DEF BlSets
  <2>6. BlStepsOK(u)
    <3>1. BlSeq(u)
      BY <2>3 DEF BlSeq
    <3> QED BY <2>3, <2>5, <3>1 DEF BlStepsOK
  <2>7. BlWillTell(u) /\ BlKeepsLink(u) /\ BlKeepsScan(u)
    BY <2>3, <2>5 DEF BlWillTell, BlKeepsLink, BlKeepsScan
  <2>8. BlWillHide(u)
    BY <2>4, <2>7, BlAtRest DEF BlWillHide
  <2>9. BlAlone(u)' /\ BlWillFollow(u)'
    BY <2>3, <2>5 DEF BlAlone, BlWillFollow
  <2> QED BY <2>1, <2>4, <2>6, <2>7, <2>8, <2>9, BlGoesOn
<1> QED BY <1>1, <1>2

\* A sender comes, and goes.
LEMMA BlComesGoes ==
    ASSUME BlInv, BlDisconnect \/ \E peer \in BlPeers : BlConnect(peer)
    PROVE  BlInv'
<1>1. ASSUME NEW peer \in BlPeers, BlConnect(peer) PROVE BlInv'
  <2>1. /\ BlEvent(<<<<"set", [peer |-> peer]>>, <<"set", [connected |-> TRUE]>>,
                     <<"save", peer>>, <<"scan", FALSE>>, <<"mark", {"CONNECTION"}>>>>)
        /\ blOwes' = TRUE
    BY <1>1 DEF BlConnect, BlSet, BlSave, BlScan, BlMark
  <2>2. PICK u : u = <<<<"set", [peer |-> peer]>>, <<"set", [connected |-> TRUE]>>,
                       <<"save", peer>>, <<"scan", FALSE>>, <<"mark", {"CONNECTION"}>>>>
    OBVIOUS
  <2>3. /\ Len(u) = 5 /\ 1 .. Len(u) = {1, 2, 3, 4, 5} /\ BlSeq(u)
        /\ u[1] = <<"set", [peer |-> peer]>> /\ u[2] = <<"set", [connected |-> TRUE]>>
        /\ u[3] = <<"save", peer>> /\ u[4] = <<"scan", FALSE>> /\ u[5] = <<"mark", {"CONNECTION"}>>
    <3>1. PICK a, b, c, d, e :
            /\ a = <<"set", [peer |-> peer]>> /\ b = <<"set", [connected |-> TRUE]>>
            /\ c = <<"save", peer>> /\ d = <<"scan", FALSE>> /\ e = <<"mark", {"CONNECTION"}>>
      OBVIOUS
    <3>2. u = <<a, b, c, d, e>>
      BY <2>2, <3>1, Zenon
    <3>3. /\ Len(u) = 5 /\ 1 .. Len(u) = {1, 2, 3, 4, 5} /\ BlSeq(u)
          /\ u[1] = a /\ u[2] = b /\ u[3] = c /\ u[4] = d /\ u[5] = e
      BY <3>2, BlFive
    <3> QED BY <3>1, <3>3, Zenon
  <2>4. BlEvent(u)
    BY <2>1, <2>2
  <2>5. \A g : \A i \in 1 .. Len(u) : BlSets(u, i, g) =>
          (i = 1 /\ g = "peer") \/ (i = 2 /\ g = "connected")
    BY <2>3 DEF BlSets
  <2>6. /\ BlSets(u, 2, "connected") /\ u[2][2]["connected"] = TRUE
        /\ \A i \in 1 .. Len(u) : u[i][1] = "scan" => i = 4
        /\ u[4][1] = "scan" /\ u[4][2] = FALSE
    BY <2>3 DEF BlSets
  <2>7. BlStepsOK(u)
    <3>1. BlSeq(u)
      BY <2>3
    <3>2. {"peer", "connected"} \subseteq BlFields /\ "peer" \notin BlLogical
      BY DEF BlFields, BlLogical
    <3>3. \A i \in 1 .. Len(u) : u[i][1] = "set" => DOMAIN u[i][2] \subseteq {"peer", "connected"}
      BY <2>3
    <3>4. \A i \in 1 .. Len(u) : u[i][1] \in {"set", "mark", "scan", "save"}
      BY <2>3
    <3> QED BY <2>5, <2>6, <3>1, <3>2, <3>3, <3>4 DEF BlStepsOK
  <2>8. BlWillTell(u)
    <3>1. /\ BlBit["peer"] \in u[5][2] /\ BlBit["connected"] \in u[5][2] /\ u[5][1] = "mark"
          /\ 5 \in 1 + 1 .. Len(u) /\ 5 \in 2 + 1 .. Len(u)
      BY <2>3 DEF BlBit
    <3> QED BY <2>5, <3>1 DEF BlWillTell
  <2>9. BlWillHide(u)
    <3>1. 2 \in 1 .. Len(u) /\ 4 \in 1 .. Len(u) /\ 2 < 4
      BY <2>3
    <3> QED BY <2>5, <2>6, <3>1 DEF BlWillHide
  <2>10. BlAlone(u)'
    <3>1. \A i \in 1 .. Len(u) : u[i][1] # "register" /\ u[i][1] # "interim"
      BY <2>3
    <3> QED BY <2>1, <2>5, <3>1 DEF BlAlone
  <2>11. BlWillFollow(u)'
    BY <2>1 DEF BlWillFollow
  <2> QED BY <2>1, <2>4, <2>7, <2>8, <2>9, <2>10, <2>11, BlGoesOn
<1>2. CASE BlDisconnect
  <2> DEFINE r == [connected |-> FALSE, streaming |-> FALSE, notify |-> FALSE]
  <2>1. /\ BlEvent(<<<<"set", r>>, <<"set", [peer |-> BlNone]>>, <<"scan", TRUE>>,
                     <<"mark", {"CONNECTION", "STREAM"}>>>>)
        /\ blOwes' = FALSE
    BY <1>2 DEF BlDisconnect, BlSet, BlScan, BlMark
  <2>2. /\ DOMAIN r = {"connected", "streaming", "notify"}
        /\ r["connected"] = FALSE /\ r["notify"] = FALSE
    OBVIOUS
  <2>. HIDE DEF r
  <2>3. PICK u : u = <<<<"set", r>>, <<"set", [peer |-> BlNone]>>, <<"scan", TRUE>>,
                       <<"mark", {"CONNECTION", "STREAM"}>>>>
    OBVIOUS
  <2>4. /\ Len(u) = 4 /\ 1 .. Len(u) = {1, 2, 3, 4} /\ BlSeq(u)
        /\ u[1] = <<"set", r>> /\ u[2] = <<"set", [peer |-> BlNone]>>
        /\ u[3] = <<"scan", TRUE>> /\ u[4] = <<"mark", {"CONNECTION", "STREAM"}>>
    <3>1. PICK a, b, c, d :
            /\ a = <<"set", r>> /\ b = <<"set", [peer |-> BlNone]>>
            /\ c = <<"scan", TRUE>> /\ d = <<"mark", {"CONNECTION", "STREAM"}>>
      OBVIOUS
    <3>2. u = <<a, b, c, d>>
      BY <2>3, <3>1, Zenon
    <3>3. /\ Len(u) = 4 /\ 1 .. Len(u) = {1, 2, 3, 4} /\ BlSeq(u)
          /\ u[1] = a /\ u[2] = b /\ u[3] = c /\ u[4] = d
      BY <3>2, BlFour
    <3> QED BY <3>1, <3>3, Zenon
  <2>5. BlEvent(u)
    BY <2>1, <2>3
  <2>6. \A g : \A i \in 1 .. Len(u) : BlSets(u, i, g) =>
          (i = 1 /\ g \in {"connected", "streaming", "notify"}) \/ (i = 2 /\ g = "peer")
    BY <2>2, <2>4 DEF BlSets
  <2>7. /\ BlSets(u, 1, "connected") /\ u[1][2]["connected"] = FALSE /\ u[1][2]["notify"] = FALSE
        /\ \A i \in 1 .. Len(u) : u[i][1] = "scan" => i = 3
        /\ u[3][1] = "scan" /\ u[3][2] = TRUE
    BY <2>2, <2>4 DEF BlSets
  <2>8. BlStepsOK(u)
    <3>1. BlSeq(u)
      BY <2>4
    <3>2. /\ {"peer", "connected", "streaming", "notify"} \subseteq BlFields
          /\ "peer" \notin BlLogical /\ "streaming" \notin BlLogical
      BY DEF BlFields, BlLogical
    <3>3. \A i \in 1 .. Len(u) : u[i][1] = "set" =>
            DOMAIN u[i][2] \subseteq {"peer", "connected", "streaming", "notify"}
      BY <2>2, <2>4
    <3>4. \A i \in 1 .. Len(u) : u[i][1] \in {"set", "mark", "scan", "save"}
      BY <2>4
    <3> QED BY <2>6, <2>7, <3>1, <3>2, <3>3, <3>4 DEF BlStepsOK
  <2>9. BlWillTell(u)
    <3>1. /\ u[4][2] = {"CONNECTION", "STREAM"} /\ u[4][1] = "mark"
          /\ 4 \in 1 + 1 .. Len(u) /\ 4 \in 2 + 1 .. Len(u)
      BY <2>4
    <3>2. /\ BlBit["peer"] = "CONNECTION" /\ BlBit["connected"] = "CONNECTION"
          /\ BlBit["streaming"] = "STREAM" /\ "notify" \notin BlProperties
      BY DEF BlBit, BlProperties
    <3> QED BY <2>6, <3>1, <3>2 DEF BlWillTell
  <2>10. BlWillHide(u)
    <3>1. 1 \in 1 .. Len(u) /\ 3 \in 1 .. Len(u) /\ 1 < 3
      BY <2>4
    <3>2. \A k \in 1 .. Len(u) : BlSets(u, k, "connected") => k = 1
      BY <2>6
    <3>3. u[3][2] = ~u[1][2]["connected"]
      BY <2>7
    <3> QED BY <2>7, <3>1, <3>2, <3>3 DEF BlWillHide
  <2>11. BlAlone(u)'
    <3>1. \A i \in 1 .. Len(u) : u[i][1] # "register" /\ u[i][1] # "interim"
      BY <2>4
    <3> QED BY <2>6, <2>7, <3>1 DEF BlAlone
  <2>12. BlWillFollow(u)'
    <3>1. ~BlKeepsLink(u)
      BY <2>4, <2>7 DEF BlKeepsLink
    <3> QED BY <3>1 DEF BlWillFollow
  <2> QED BY <2>1, <2>5, <2>8, <2>9, <2>10, <2>11, <2>12, BlGoesOn
<1> QED BY <1>1, <1>2

\* u is what t leaves after its first step, which is of this kind.
BlLeft(t, u, what, arg) ==
    /\ Len(t) \in Nat \ {0} /\ Len(u) \in Nat /\ Len(u) = Len(t) - 1 /\ BlSeq(u)
    /\ \A i \in 1 .. Len(u) : u[i] = t[i + 1]
    /\ t[1][1] = what /\ t[1][2] = arg

\* Where a step that is left stood before.
LEMMA BlLater ==
    ASSUME NEW t, NEW u, NEW what, NEW arg, BlLeft(t, u, what, arg)
    PROVE  /\ \A i \in 1 .. Len(u) : i + 1 \in 1 .. Len(t) /\ i + 1 # 1
           /\ \A j \in 1 .. Len(t) : j # 1 => j - 1 \in 1 .. Len(u) /\ u[j - 1] = t[j]
           /\ 1 \in 1 .. Len(t) /\ (Len(t) = 1 => Len(u) = 0)
           /\ \A g : \A i \in 1 .. Len(u) : BlSets(u, i, g) <=> BlSets(t, i + 1, g)
<1>1. /\ \A i \in 1 .. Len(u) : i + 1 \in 1 .. Len(t) /\ i + 1 # 1
      /\ 1 \in 1 .. Len(t) /\ (Len(t) = 1 => Len(u) = 0)
  BY DEF BlLeft
<1>2. \A i \in 1 .. Len(u) : u[i] = t[i + 1]
  BY DEF BlLeft
<1>3. ASSUME NEW j \in 1 .. Len(t), j # 1
      PROVE  j - 1 \in 1 .. Len(u) /\ u[j - 1] = t[j]
  <2>1. j - 1 \in 1 .. Len(u) /\ (j - 1) + 1 = j
    BY <1>3 DEF BlLeft
  <2> QED BY <1>2, <2>1
<1>4. \A g : \A i \in 1 .. Len(u) : BlSets(u, i, g) <=> BlSets(t, i + 1, g)
  BY <1>2 DEF BlSets
<1> QED BY <1>1, <1>3, <1>4

\* What is true of steps is true of what they leave.
LEMMA BlStillSteps ==
    ASSUME NEW t, NEW u, NEW what, NEW arg, BlLeft(t, u, what, arg), BlStepsOK(t)
    PROVE  BlStepsOK(u)
<1>1. BlSeq(u) /\ \A i \in 1 .. Len(u) : u[i] = t[i + 1]
  BY DEF BlLeft
<1>2. ASSUME NEW i \in 1 .. Len(u)
      PROVE  /\ u[i][1] \in {"set", "mark", "scan", "save", "register", "interim"}
             /\ u[i][1] # "register"
             /\ u[i][1] = "set" => DOMAIN u[i][2] \subseteq BlFields
             /\ \A f \in BlLogical : BlSets(u, i, f) => u[i][2][f] \in BOOLEAN
  <2>1. u[i] = t[i + 1] /\ i + 1 \in 1 .. Len(t) /\ Len(t) # 1
    BY <1>1, BlLater DEF BlLeft
  <2>2. \A f : BlSets(u, i, f) <=> BlSets(t, i + 1, f)
    BY BlLater
  <2> QED BY <2>1, <2>2 DEF BlStepsOK
<1> QED BY <1>1, <1>2 DEF BlStepsOK

\* What is still to be marked is marked by what is left, or by the step.
LEMMA BlStillTells ==
    ASSUME NEW t, NEW u, NEW what, NEW arg, BlLeft(t, u, what, arg), BlWillTell(t)
    PROVE  /\ BlWillTell(u)'
           /\ \A p \in BlProperties : what = "set" /\ p \in DOMAIN arg =>
                  \/ p = "playing" /\ arg["playing"] = blS["playing"]
                  \/ BlMarked(u, BlBit[p])
           /\ \A b : BlMarked(t, b) => (what = "mark" /\ b \in arg) \/ BlMarked(u, b)
<1>1. ASSUME NEW j \in 1 .. Len(t), j # 1 PROVE j - 1 \in 1 .. Len(u) /\ u[j - 1] = t[j]
  BY <1>1, BlLater
<1>2. ASSUME NEW i \in 1 .. Len(u), NEW p \in BlProperties, BlSets(u, i, p)
      PROVE  \E j \in i + 1 .. Len(u) : u[j][1] = "mark" /\ BlBit[p] \in u[j][2]
  <2>1. i + 1 \in 1 .. Len(t) /\ BlSets(t, i + 1, p) /\ Len(t) # 1
    BY <1>2, BlLater DEF BlLeft
  <2>2. PICK j \in (i + 1) + 1 .. Len(t) : t[j][1] = "mark" /\ BlBit[p] \in t[j][2]
    BY <2>1 DEF BlWillTell
  <2>3. j \in 1 .. Len(t) /\ j # 1 /\ j - 1 \in i + 1 .. Len(u)
    BY DEF BlLeft
  <2>4. u[j - 1] = t[j]
    BY <1>1, <2>3
  <2> QED BY <2>2, <2>3, <2>4
<1>3. BlWillTell(u)'
  BY <1>2 DEF BlWillTell
<1>4. ASSUME NEW p \in BlProperties, what = "set", p \in DOMAIN arg
      PROVE  \/ p = "playing" /\ arg["playing"] = blS["playing"]
             \/ BlMarked(u, BlBit[p])
  <2>1. BlSets(t, 1, p) /\ 1 \in 1 .. Len(t) /\ t[1][2] = arg
    BY <1>4 DEF BlSets, BlLeft
  <2>2. CASE \E j \in 1 + 1 .. Len(t) : t[j][1] = "mark" /\ BlBit[p] \in t[j][2]
    <3>1. PICK j \in 1 + 1 .. Len(t) : t[j][1] = "mark" /\ BlBit[p] \in t[j][2]
      BY <2>2
    <3>2. j \in 1 .. Len(t) /\ j # 1
      BY DEF BlLeft
    <3> QED BY <1>1, <3>1, <3>2 DEF BlMarked
  <2> QED BY <2>1, <2>2 DEF BlWillTell
<1>5. ASSUME NEW b, BlMarked(t, b) PROVE (what = "mark" /\ b \in arg) \/ BlMarked(u, b)
  <2>1. PICK j \in 1 .. Len(t) : t[j][1] = "mark" /\ b \in t[j][2]
    BY <1>5 DEF BlMarked
  <2>2. CASE j = 1
    BY <2>1, <2>2 DEF BlLeft
  <2>3. CASE j # 1
    BY <1>1, <2>1, <2>3 DEF BlMarked
  <2> QED BY <2>2, <2>3
<1> QED BY <1>3, <1>4, <1>5

\* The scan mode and the connection, a step later.
LEMMA BlStillHides ==
    ASSUME NEW t, NEW u, NEW what, NEW arg, BlLeft(t, u, what, arg), BlWillHide(t),
           blVisible' = IF what = "scan" THEN arg ELSE blVisible,
           blS'["connected"] = IF BlSets(t, 1, "connected") THEN arg["connected"]
                               ELSE blS["connected"],
           BlSets(t, 1, "connected") => what = "set"
    PROVE  BlWillHide(u)'
<1>a. /\ \A i \in 1 .. Len(u) : u[i] = t[i + 1]
      /\ t[1][1] = what /\ t[1][2] = arg
  BY DEF BlLeft
<1>b. /\ \A i \in 1 .. Len(u) : i + 1 \in 1 .. Len(t) /\ i + 1 # 1
      /\ \A j \in 1 .. Len(t) : j # 1 => j - 1 \in 1 .. Len(u) /\ u[j - 1] = t[j]
      /\ 1 \in 1 .. Len(t)
      /\ \A g : \A i \in 1 .. Len(u) : BlSets(u, i, g) <=> BlSets(t, i + 1, g)
  BY BlLater
<1>0. /\ \A i \in 1 .. Len(u) : i + 1 \in 1 .. Len(t) /\ i + 1 # 1 /\ u[i] = t[i + 1]
      /\ \A j \in 1 .. Len(t) : j # 1 => j - 1 \in 1 .. Len(u) /\ u[j - 1] = t[j]
      /\ 1 \in 1 .. Len(t) /\ t[1][1] = what /\ t[1][2] = arg
      /\ \A g : \A i \in 1 .. Len(u) : BlSets(u, i, g) <=> BlSets(t, i + 1, g)
  BY <1>a, <1>b
<1>1. BlKeepsLink(t) => BlKeepsLink(u)' /\ blS'["connected"] = blS["connected"]
  BY <1>0 DEF BlKeepsLink, BlSets
<1>2. CASE BlKeepsLink(t) /\ BlKeepsScan(t) /\ blVisible = ~blS["connected"]
  <2>1. BlKeepsScan(u)' /\ what # "scan"
    BY <1>0, <1>2 DEF BlKeepsScan
  <2> QED BY <1>1, <1>2, <2>1 DEF BlWillHide
<1>3. ASSUME BlKeepsLink(t), NEW j \in 1 .. Len(t), t[j][1] = "scan", t[j][2] = ~blS["connected"],
             \A i \in 1 .. Len(t) : t[i][1] = "scan" => i = j
      PROVE  BlWillHide(u)'
  <2>1. CASE j = 1
    <3>1. blVisible' = ~blS["connected"]
      BY <1>0, <1>3, <2>1
    <3>2. BlKeepsScan(u)'
      BY <1>0, <1>3, <2>1 DEF BlKeepsScan
    <3> QED BY <1>1, <1>3, <3>1, <3>2 DEF BlWillHide
  <2>2. CASE j # 1
    <3>1. j - 1 \in 1 .. Len(u) /\ u[j - 1] = t[j]
      BY <1>0, <2>2
    <3>2. \A i \in 1 .. Len(u) : u[i][1] = "scan" => i = j - 1
      <4>. TAKE i \in 1 .. Len(u)
      <4>1. u[i][1] = "scan" => i + 1 = j
        BY <1>0, <1>3
      <4> QED BY <4>1 DEF BlLeft
    <3> QED BY <1>1, <1>3, <3>1, <3>2 DEF BlWillHide
  <2> QED BY <2>1, <2>2
<1>4. ASSUME NEW i \in 1 .. Len(t), NEW j \in 1 .. Len(t), i < j, BlSets(t, i, "connected"),
             t[j][1] = "scan", t[j][2] = ~t[i][2]["connected"],
             \A k \in 1 .. Len(t) : /\ t[k][1] = "scan" => k = j
                                    /\ BlSets(t, k, "connected") => k = i
      PROVE  BlWillHide(u)'
  <2>1. j # 1 /\ j - 1 \in 1 .. Len(u) /\ u[j - 1] = t[j]
    BY <1>0, <1>4 DEF BlLeft
  <2>2. \A k \in 1 .. Len(u) : u[k][1] = "scan" => k = j - 1
    <3>. TAKE k \in 1 .. Len(u)
    <3>1. u[k][1] = "scan" => k + 1 = j
      BY <1>0, <1>4
    <3> QED BY <3>1 DEF BlLeft
  <2>3. CASE i = 1
    <3>1. BlKeepsLink(u)'
      BY <1>0, <1>4, <2>3 DEF BlKeepsLink, BlSets
    <3>2. blS'["connected"] = t[i][2]["connected"]
      BY <1>0, <1>4, <2>3
    <3> QED BY <1>4, <2>1, <2>2, <3>1, <3>2 DEF BlWillHide
  <2>4. CASE i # 1
    <3>1. i - 1 \in 1 .. Len(u) /\ u[i - 1] = t[i] /\ i - 1 < j - 1
      BY <1>0, <1>4, <2>4 DEF BlLeft
    <3>2. \A k \in 1 .. Len(u) : BlSets(u, k, "connected") => k = i - 1
      <4>. TAKE k \in 1 .. Len(u)
      <4>1. BlSets(u, k, "connected") => k + 1 = i
        BY <1>0, <1>4
      <4> QED BY <4>1 DEF BlLeft
    <3>3. BlSets(u, i - 1, "connected")
      BY <1>4, <3>1 DEF BlSets
    <3>4. u[j - 1][2] = ~u[i - 1][2]["connected"] /\ u[j - 1][1] = "scan"
      BY <1>4, <2>1, <3>1
    <3>5. \E n, m \in 1 .. Len(u) :
            /\ n < m /\ BlSets(u, n, "connected") /\ u[m][1] = "scan"
            /\ u[m][2] = ~u[n][2]["connected"]
            /\ \A k \in 1 .. Len(u) : /\ u[k][1] = "scan" => k = m
                                      /\ BlSets(u, k, "connected") => k = n
      <4>1. PICK n, m : n = i - 1 /\ m = j - 1
        OBVIOUS
      <4>2. n \in 1 .. Len(u) /\ m \in 1 .. Len(u) /\ n < m
        BY <2>1, <3>1, <4>1
      <4>3. BlSets(u, n, "connected") /\ u[m][1] = "scan" /\ u[m][2] = ~u[n][2]["connected"]
        BY <3>3, <3>4, <4>1
      <4>4. \A k \in 1 .. Len(u) : /\ u[k][1] = "scan" => k = m
                                   /\ BlSets(u, k, "connected") => k = n
        BY <2>2, <3>2, <4>1
      <4> QED BY <4>2, <4>3, <4>4
    <3>6. /\ (\A n, g : BlSets(u, n, g)' <=> BlSets(u, n, g))
      BY DEF BlSets
    <3> QED BY <3>5, <3>6 DEF BlWillHide
  <2> QED BY <2>3, <2>4
<1> QED BY <1>2, <1>3, <1>4 DEF BlWillHide

\* What a callback of its own has left is none.
LEMMA BlStillAlone ==
    ASSUME NEW t, NEW u, NEW what, NEW arg, BlLeft(t, u, what, arg), BlAlone(t), blOwes => blOwes'
    PROVE  BlAlone(u)'
<1>1. \A i \in 1 .. Len(u) : u[i] = t[i + 1]
  BY DEF BlLeft
<1>2. \A i \in 1 .. Len(u) : i + 1 \in 1 .. Len(t) /\ i + 1 # 1 /\ Len(t) # 1
  BY BlLater DEF BlLeft
<1>3. \A g : \A i \in 1 .. Len(u) : BlSets(u, i, g) <=> BlSets(t, i + 1, g)
  BY BlLater
<1>4. ASSUME NEW i \in 1 .. Len(u)
      PROVE  /\ u[i][1] # "interim" /\ ~BlSets(u, i, "volume")
             /\ BlSets(u, i, "connected") => ~u[i][2]["connected"] \/ blOwes
             /\ BlSets(u, i, "notify") => BlSets(u, i, "connected") /\ ~u[i][2]["notify"]
  <2>1. /\ t[i + 1][1] = "interim" => Len(t) = 1
        /\ BlSets(t, i + 1, "volume") => i + 1 = 1
        /\ BlSets(t, i + 1, "connected") => ~t[i + 1][2]["connected"] \/ blOwes
        /\ BlSets(t, i + 1, "notify") => BlSets(t, i + 1, "connected") /\ ~t[i + 1][2]["notify"]
    BY <1>2 DEF BlAlone
  <2> QED BY <1>1, <1>2, <1>3, <2>1
<1>5. \A n, g : BlSets(u, n, g)' <=> BlSets(u, n, g)
  BY DEF BlSets
<1> QED BY <1>4, <1>5 DEF BlAlone

\* What the first step leaves neither connects nor disconnects, unless it does.
LEMMA BlLinkKept ==
    ASSUME NEW t, NEW u, NEW what, NEW arg, BlLeft(t, u, what, arg),
           ~BlSets(t, 1, "connected"), BlKeepsLink(u)'
    PROVE  BlKeepsLink(t)
<1>1. ASSUME NEW j \in 1 .. Len(t), j # 1 PROVE ~BlSets(t, j, "connected")
  <2>1. j - 1 \in 1 .. Len(u) /\ u[j - 1] = t[j]
    BY <1>1, BlLater
  <2>2. ~BlSets(u, j - 1, "connected")
    BY <2>1 DEF BlKeepsLink, BlSets
  <2> QED BY <2>1, <2>2 DEF BlSets
<1> QED BY <1>1 DEF BlKeepsLink

\* The sender's slider, after a step that stores no volume and no connection.
LEMMA BlFollowsQuiet ==
    ASSUME NEW t, NEW u, NEW what, NEW arg, BlLeft(t, u, what, arg),
           BlStepsOK(t), BlAlone(t), BlWillFollow(t), what \in {"set", "mark", "scan", "save"},
           ~BlSets(t, 1, "connected"), ~BlSets(t, 1, "volume"),
           blS'["connected"] = blS["connected"], blS'["volume"] = blS["volume"],
           blS'["notify"] = blS["notify"], UNCHANGED <<blPy, blSlider, blOwes>>
    PROVE  BlWillFollow(u)'
<1>. SUFFICES ASSUME blS'["connected"], BlKeepsLink(u)'
              PROVE  \/ blOwes' \/ (\E i \in 1 .. Len(blPy') : blPy'[i][1] = "changed")
                     \/ blS'["notify"] /\ BlWillShow(u)'
  BY DEF BlWillFollow
<1>1. BlKeepsLink(t)
  BY BlLinkKept
<1>2. t[1][1] = what /\ Len(t) \in Nat \ {0} /\ 1 \in 1 .. Len(t)
  BY DEF BlLeft
<1>3. \A i \in 1 .. Len(t) : t[i][1] # "register" /\ t[i][1] # "interim" /\ ~BlSets(t, i, "volume")
  <2>. TAKE i \in 1 .. Len(t)
  <2>1. /\ t[i][1] = "register" => Len(t) = 1
        /\ t[i][1] = "interim" => Len(t) = 1
        /\ BlSets(t, i, "volume") => i = 1
    BY DEF BlStepsOK, BlAlone
  <2>2. Len(t) = 1 => i = 1
    OBVIOUS
  <2> QED BY <1>2, <2>1, <2>2
<1>4. BlWillShow(t) => blSlider = blS["volume"]
  BY <1>3 DEF BlWillShow
<1>5. blSlider = blS["volume"] => BlWillShow(u)'
  BY DEF BlWillShow
<1>6. \/ blOwes \/ (\E i \in 1 .. Len(blPy) : blPy[i][1] = "changed")
      \/ blS["notify"] /\ BlWillShow(t)
  BY <1>1, <1>3 DEF BlWillFollow
<1> QED BY <1>4, <1>5, <1>6

\* And after the others: one that connects owes a registration, the sender's own volume is
\* what its slider shows, an interim answer moves it there.
LEMMA BlFollowsStored ==
    ASSUME NEW t, NEW u, NEW what, NEW arg, BlLeft(t, u, what, arg), BlStepsOK(t), BlAlone(t),
           what = "set", BlSets(t, 1, "connected"), blS'["connected"] = arg["connected"],
           blOwes' = blOwes
    PROVE  BlWillFollow(u)'
<1>1. 1 \in 1 .. Len(t) /\ t[1][2] = arg
  BY DEF BlLeft
<1>2. ~arg["connected"] \/ blOwes
  BY <1>1 DEF BlAlone
<1> QED BY <1>2 DEF BlWillFollow

\* The sender's own volume is what its slider shows already.
LEMMA BlFollowsSlide ==
    ASSUME NEW t, NEW u, NEW what, NEW arg, BlLeft(t, u, what, arg), BlStepsOK(t), BlAlone(t),
           BlWillFollow(t), what = "set", BlSets(t, 1, "volume"), ~BlSets(t, 1, "connected"),
           blS'["connected"] = blS["connected"], blS'["volume"] = arg["volume"],
           blS'["notify"] = blS["notify"], UNCHANGED <<blPy, blSlider, blOwes>>
    PROVE  BlWillFollow(u)'
<1>. SUFFICES ASSUME blS'["connected"]
              PROVE  \/ blOwes' \/ (\E i \in 1 .. Len(blPy') : blPy'[i][1] = "changed")
                     \/ blS'["notify"] /\ BlWillShow(u)'
  BY DEF BlWillFollow
<1>1. 1 \in 1 .. Len(t) /\ t[1][2] = arg /\ t[1][1] = what /\ Len(t) \in Nat
  BY DEF BlLeft
<1>2. BlKeepsLink(t) /\ (blOwes \/ blSlider = arg["volume"])
  BY <1>1 DEF BlAlone
<1>3. \A i \in 1 .. Len(t) : t[i][1] # "register"
  <2>. TAKE i \in 1 .. Len(t)
  <2>1. t[i][1] = "register" => Len(t) = 1
    BY DEF BlStepsOK
  <2>2. Len(t) = 1 => i = 1
    OBVIOUS
  <2> QED BY <1>1, <2>1, <2>2
<1>4. \/ blOwes \/ (\E i \in 1 .. Len(blPy) : blPy[i][1] = "changed")
      \/ blS["notify"]
  BY <1>2, <1>3 DEF BlWillFollow
<1>5. blSlider = arg["volume"] => BlWillShow(u)'
  BY DEF BlWillShow
<1> QED BY <1>2, <1>4, <1>5

\* An interim answer moves the slider to the volume there is.
LEMMA BlFollowsAnswer ==
    ASSUME NEW t, NEW u, NEW what, NEW arg, BlLeft(t, u, what, arg), BlStepsOK(t), BlAlone(t),
           BlWillFollow(t), what = "interim", blS["connected"] => blSlider' = arg,
           blS' = blS, UNCHANGED <<blPy, blOwes>>
    PROVE  BlWillFollow(u)'
<1>. SUFFICES ASSUME blS'["connected"]
              PROVE  \/ blOwes' \/ (\E i \in 1 .. Len(blPy') : blPy'[i][1] = "changed")
                     \/ blS'["notify"] /\ BlWillShow(u)'
  BY DEF BlWillFollow
<1>1. 1 \in 1 .. Len(t) /\ t[1][2] = arg /\ t[1][1] = what
  BY DEF BlLeft
<1>2. Len(t) = 1 /\ (blS["notify"] => arg = blS["volume"])
  BY <1>1 DEF BlAlone
<1>3. \A i \in 1 .. Len(t) : i = 1
  BY <1>2
<1>4. BlKeepsLink(t) /\ \A i \in 1 .. Len(t) : t[i][1] # "register"
  BY <1>1, <1>3 DEF BlKeepsLink, BlSets
<1>5. \/ blOwes \/ (\E i \in 1 .. Len(blPy) : blPy[i][1] = "changed")
      \/ blS["notify"]
  BY <1>4 DEF BlWillFollow
<1>6. blS["notify"] => BlWillShow(u)'
  BY <1>2 DEF BlWillShow
<1> QED BY <1>5, <1>6

\* What s is once a step of the callback in progress is taken.
BlStoredOK(t, what, arg) ==
    /\ DOMAIN blS' = BlFields /\ blS' = [f \in BlFields |-> blS'[f]]
    /\ \A f \in BlLogical : blS'[f] \in BOOLEAN
    /\ what # "register" => \A f \in BlFields :
           blS'[f] = IF BlSets(t, 1, f) THEN arg[f] ELSE blS[f]
    /\ what = "register" => /\ \A f \in BlFields : f # "notify" => blS'[f] = blS[f]
                            /\ blS'["notify"] = TRUE

\* A step of the callback in progress leaves s so.
LEMMA BlTaskStores ==
    ASSUME BlTyped, NEW t, t = blTask, NEW what, NEW arg, 1 \in 1 .. Len(t),
           t[1][1] = what, t[1][2] = arg, BlStep(what, arg)
    PROVE  BlStoredOK(t, what, arg)
<1>1. /\ DOMAIN blS = BlFields /\ blS = [f \in BlFields |-> blS[f]]
      /\ \A f \in BlLogical : blS[f] \in BOOLEAN
      /\ BlLogical \subseteq BlFields /\ BlStepsOK(t)
  BY BlPropertiesAre DEF BlTyped
<1>2. /\ what \in {"set", "mark", "scan", "save", "register", "interim"}
      /\ \A f \in BlLogical : BlSets(t, 1, f) => arg[f] \in BOOLEAN
  BY <1>1 DEF BlStepsOK
<1>3. CASE what = "set"
  <2>1. blS' = [f \in DOMAIN blS |-> IF f \in DOMAIN arg THEN arg[f] ELSE blS[f]]
    BY <1>3 DEF BlStep, BlStored
  <2>2. \A f : BlSets(t, 1, f) <=> f \in DOMAIN arg
    BY <1>3 DEF BlSets
  <2>3. /\ DOMAIN blS' = BlFields
        /\ \A f \in BlFields : blS'[f] = IF BlSets(t, 1, f) THEN arg[f] ELSE blS[f]
    BY <1>1, <2>1, <2>2
  <2>4. blS' = [f \in BlFields |-> blS'[f]]
    BY <1>1, <2>1
  <2> QED BY <1>1, <1>2, <1>3, <2>3, <2>4 DEF BlStoredOK
<1>4. CASE what = "register"
  <2>1. blS' = [blS EXCEPT !.notify = TRUE]
    BY <1>4 DEF BlStep, BlRegisters
  <2>2. "notify" \in BlFields
    BY DEF BlFields
  <2>3. DOMAIN blS' = BlFields /\ blS' = [f \in BlFields |-> blS'[f]]
    BY <1>1, <2>1
  <2>4. /\ \A f \in BlFields : f # "notify" => blS'[f] = blS[f]
        /\ blS'["notify"] = TRUE
    BY <1>1, <2>1, <2>2
  <2> QED BY <1>1, <1>4, <2>3, <2>4 DEF BlStoredOK
<1>5. CASE what \notin {"set", "register"}
  <2>1. blS' = blS
    BY <1>5 DEF BlStep
  <2>2. \A f : ~BlSets(t, 1, f)
    BY <1>5 DEF BlSets
  <2> QED BY <1>1, <1>5, <2>1, <2>2 DEF BlStoredOK
<1> QED BY <1>3, <1>4, <1>5

\* What the program is still to be told of, a step later.
LEMMA BlTaskTells ==
    ASSUME BlTold, BlTyped, NEW t, t = blTask, NEW u, NEW what, NEW arg, BlLeft(t, u, what, arg),
           BlWillTell(t), BlStep(what, arg),
           blTask' = u \/ (what = "register" /\ Len(t) = 1),
           UNCHANGED <<blOn, blPy, blGot, blView>>
    PROVE  BlTold'
<1>1. /\ 1 \in 1 .. Len(t) /\ t[1][1] = what /\ t[1][2] = arg
      /\ Len(t) = 1 => \A j \in 1 .. Len(t) : j = 1
  BY DEF BlLeft
<1>2. /\ what # "register" => \A f \in BlFields :
                  blS'[f] = IF BlSets(t, 1, f) THEN arg[f] ELSE blS[f]
      /\ what = "register" => \A f \in BlFields : f # "notify" => blS'[f] = blS[f]
  <2>1. BlStoredOK(t, what, arg)
    BY <1>1, BlTaskStores
  <2> QED BY <2>1 DEF BlStoredOK
<1>3. ASSUME NEW p \in BlProperties PROVE BlKnown(p)'
  <2>1. p \in BlFields /\ p # "notify"
    BY BlPropertiesAre
  <2>2. BlKnown(p)
    BY BlToldIs DEF BlAllKnown
  <2>3. BlMarked(blTask, BlBit[p]) => BlBit[p] \in blChanges' \/ BlMarked(blTask', BlBit[p])
    <3>1. CASE blTask' = u
      <4>1. BlMarked(t, BlBit[p]) => (what = "mark" /\ BlBit[p] \in arg) \/ BlMarked(u, BlBit[p])
        BY BlStillTells
      <4>2. what = "mark" => blChanges' = blChanges \cup arg
        BY DEF BlStep
      <4> QED BY <3>1, <4>1, <4>2
    <3>2. CASE what = "register" /\ Len(t) = 1
      <4>1. ~BlMarked(t, BlBit[p])
        BY <1>1, <3>2 DEF BlMarked
      <4> QED BY <4>1
    <3> QED BY <3>1, <3>2
  <2>4. BlBit[p] \in blChanges => BlBit[p] \in blChanges'
    BY DEF BlStep
  <2>5. CASE blS'[p] = blS[p]
    <3>1. BlMarked(blPy, BlBit[p]) => BlMarked(blPy', BlBit[p])
      OBVIOUS
    <3>2. blView[p] # blS[p] =>
            ~blOn \/ BlBit[p] \in blChanges \cup blGot \/ BlMarked(blTask, BlBit[p])
                  \/ BlMarked(blPy, BlBit[p])
      BY <2>2 DEF BlKnown
    <3>3. blView'[p] # blS'[p] =>
            ~blOn' \/ BlBit[p] \in blChanges' \cup blGot' \/ BlMarked(blTask', BlBit[p])
                  \/ BlMarked(blPy', BlBit[p])
      BY <2>3, <2>4, <2>5, <3>1, <3>2
    <3> QED BY <3>3 DEF BlKnown, BlMarked
  <2>6. CASE blS'[p] # blS[p]
    <3>1. BlSets(t, 1, p) /\ what # "register" /\ blS'[p] = arg[p]
      BY <1>2, <2>1, <2>6
    <3>2. what = "set" /\ p \in DOMAIN arg /\ blTask' = u
      BY <1>1, <3>1 DEF BlSets
    <3>3. BlMarked(u, BlBit[p])
      BY <2>6, <3>1, <3>2, BlStillTells
    <3> QED BY <3>2, <3>3 DEF BlKnown, BlMarked
  <2> QED BY <2>5, <2>6
<1> QED BY <1>3, BlToldNext

\* A callback's next step, of the kind it is.
LEMMA BlTaskStepIs ==
    ASSUME BlInv, BlTaskStep
    PROVE  \E t, u, what, arg :
             /\ t = blTask /\ BlLeft(t, u, what, arg) /\ BlStep(what, arg)
             /\ what # "register" => blTask' = u
             /\ what = "register" =>
                  Len(t) = 1 /\ \E v : v = blS["volume"] /\ blTask' = <<<<"interim", v>>>>
             /\ UNCHANGED <<blOn, blPy, blGot, blView>>
<1>1. PICK t, u, what, arg : /\ t = blTask /\ u = Tail(t) /\ what = Head(t)[1] /\ arg = Head(t)[2]
  OBVIOUS
<1>2. BlStepsOK(t) /\ t # <<>> /\ BlSeq(t)
  BY <1>1 DEF BlInv, BlTyped, BlTaskStep, BlStepsOK
<1>3. /\ Len(t) \in Nat \ {0} /\ Head(t) = t[1] /\ BlSeq(u) /\ Len(u) = Len(t) - 1
      /\ \A i \in 1 .. Len(t) - 1 : u[i] = t[i + 1]
  BY <1>1, <1>2, BlRest
<1>4. BlLeft(t, u, what, arg)
  BY <1>1, <1>3 DEF BlLeft
<1>5. /\ BlStep(what, arg) /\ UNCHANGED <<blOn, blPy, blGot, blView>>
      /\ blTask' = (IF what = "register" THEN BlRegisters(blS)[2] ELSE <<>>) \o u
  BY <1>1 DEF BlTaskStep, blHost, blProgram
<1>6. what # "register" => blTask' = u
  <2>1. PICK S : u \in Seq(S)
    BY <1>3 DEF BlSeq
  <2>2. <<>> \o u = u
    BY <2>1
  <2> QED BY <1>5, <2>2
<1>7. ASSUME what = "register"
      PROVE  Len(t) = 1 /\ \E v : v = blS["volume"] /\ blTask' = <<<<"interim", v>>>>
  <2>1. Len(t) = 1
    BY <1>1, <1>2, <1>3, <1>7 DEF BlStepsOK
  <2>2. PICK S : u \in Seq(S)
    BY <1>3 DEF BlSeq
  <2>3. u = <<>>
    BY <1>3, <2>1, <2>2, EmptySeq
  <2>4. PICK v, a : v = blS["volume"] /\ a = <<"interim", v>>
    OBVIOUS
  <2>5. BlRegisters(blS)[2] = <<a>>
    BY <2>4 DEF BlRegisters, BlSend
  <2>6. blTask' = <<a>>
    BY <1>5, <1>7, <2>3, <2>5, BlJoins
  <2> QED BY <2>1, <2>4, <2>6
<1> QED BY <1>1, <1>4, <1>5, <1>6, <1>7

\* The steps that are left once a registration came.
LEMMA BlAnswers ==
    ASSUME NEW v, NEW w, w = <<<<"interim", v>>>>
    PROVE  /\ Len(w) = 1 /\ 1 .. Len(w) = {1} /\ w[1][1] = "interim" /\ w[1][2] = v
           /\ BlStepsOK(w)
<1>1. PICK a : a = <<"interim", v>>
  OBVIOUS
<1>2. w = <<a>> /\ a[1] = "interim" /\ a[2] = v
  BY <1>1
<1>3. w \in Seq({a}) /\ Len(w) = 1 /\ w[1] = a /\ 1 .. 1 = {1}
  BY <1>2
<1>4. BlSeq(w)
  BY <1>3 DEF BlSeq
<1> QED BY <1>2, <1>3, <1>4 DEF BlStepsOK, BlSets

\* The scan mode is one or the other, whatever a step makes it.
LEMMA BlScans ==
    ASSUME NEW t, 1 \in 1 .. Len(t), t[1][1] = "scan", BlWillHide(t)
    PROVE  t[1][2] = ~blS["connected"]
<1>1. CASE BlKeepsLink(t) /\ BlKeepsScan(t) /\ blVisible = ~blS["connected"]
  BY <1>1 DEF BlKeepsScan
<1>2. ASSUME NEW j \in 1 .. Len(t), t[j][2] = ~blS["connected"],
             \A i \in 1 .. Len(t) : t[i][1] = "scan" => i = j
      PROVE  t[1][2] = ~blS["connected"]
  <2>1. j = 1
    BY <1>2
  <2> QED BY <1>2, <2>1
<1>3. ASSUME NEW i \in 1 .. Len(t), NEW j \in 1 .. Len(t), i < j,
             \A k \in 1 .. Len(t) : t[k][1] = "scan" => k = j
      PROVE  FALSE
  BY <1>3
<1> QED BY <1>1, <1>2, <1>3 DEF BlWillHide

\* The registration: the volume it is answered with is the volume there is.
LEMMA BlRegistersNow ==
    ASSUME BlInv, blOn, NEW t, NEW u, NEW arg, t = blTask, BlLeft(t, u, "register", arg),
           BlStep("register", arg), Len(t) = 1, NEW v, v = blS["volume"],
           NEW w, w = <<<<"interim", v>>>>, blTask' = w, BlWillHide(u)',
           blS'["volume"] = blS["volume"], blS'["notify"] = TRUE
    PROVE  BlWillHide(w)' /\ BlAlone(w)' /\ BlWillFollow(w)'
<1>1. Len(w) = 1 /\ 1 .. Len(w) = {1} /\ w[1][1] = "interim" /\ w[1][2] = v
  BY BlAnswers
<1>2. \A g : \A i \in 1 .. Len(w) : i = 1 /\ w[i][1] = "interim" /\ ~BlSets(w, i, g)
  BY <1>1 DEF BlSets
<1>3. BlAlone(w)'
  BY <1>1, <1>2 DEF BlAlone, BlSets
<1>4. BlWillFollow(w)'
  <2>1. BlWillShow(w)'
    BY <1>1 DEF BlWillShow
  <2> QED BY <2>1 DEF BlWillFollow
<1>5. BlWillHide(w)'
  <2>1. Len(u) = 0
    BY DEF BlLeft
  <2>2. 1 .. Len(u) = {}
    BY <2>1
  <2>3. blVisible' = ~blS'["connected"]
    BY <2>2 DEF BlWillHide
  <2> QED BY <1>2, <2>3 DEF BlWillHide, BlKeepsLink, BlKeepsScan, BlSets
<1> QED BY <1>3, <1>4, <1>5

\* A callback's step is sound, of whatever kind it is.
LEMMA BlTaskSteps ==
    ASSUME BlInv, BlTaskStep
    PROVE  BlInv'
<1>1. PICK t, u, what, arg :
        /\ t = blTask /\ BlLeft(t, u, what, arg) /\ BlStep(what, arg)
        /\ what # "register" => blTask' = u
        /\ what = "register" =>
             Len(t) = 1 /\ \E v : v = blS["volume"] /\ blTask' = <<<<"interim", v>>>>
        /\ UNCHANGED <<blOn, blPy, blGot, blView>>
  BY BlTaskStepIs
<1>2. /\ BlTyped /\ BlTold /\ BlWillTell(t) /\ (~blOn => blPy = <<>>) /\ BlStepsOK(t)
      /\ blOn => BlWillHide(t) /\ BlAlone(t) /\ BlWillFollow(t)
  BY <1>1 DEF BlInv, BlTyped
<1>3. /\ 1 \in 1 .. Len(t) /\ t[1][1] = what /\ t[1][2] = arg
  BY <1>1 DEF BlLeft
<1>4. /\ DOMAIN blS' = BlFields /\ blS' = [f \in BlFields |-> blS'[f]]
      /\ \A f \in BlLogical : blS'[f] \in BOOLEAN
      /\ what # "register" => \A f \in BlFields :
             blS'[f] = IF BlSets(t, 1, f) THEN arg[f] ELSE blS[f]
      /\ what = "register" => /\ \A f \in BlFields : f # "notify" => blS'[f] = blS[f]
                              /\ blS'["notify"] = TRUE
  <2>1. BlStoredOK(t, what, arg)
    BY <1>1, <1>2, <1>3, BlTaskStores
  <2> QED BY <2>1 DEF BlStoredOK
<1>5. BlTold'
  <2>1. blTask' = u \/ (what = "register" /\ Len(t) = 1)
    BY <1>1
  <2> QED BY <1>1, <1>2, <2>1, BlTaskTells
<1>6. /\ {blOn', blVisible', blOwes'} \subseteq BOOLEAN /\ BlPyOK' /\ (blOwes => blOwes')
      /\ {"connected", "volume", "notify"} \subseteq BlFields /\ "connected" \in BlLogical
  <2>1. {blOn, blVisible, blOwes} \subseteq BOOLEAN /\ BlPyOK /\ blS["connected"] \in BOOLEAN
    BY <1>2 DEF BlTyped, BlLogical
  <2>2. blVisible' \in BOOLEAN
    <3>1. CASE what = "scan" /\ blOn
      <4>1. arg = ~blS["connected"] /\ blVisible' = arg
        BY <1>1, <1>2, <1>3, <3>1, BlScans DEF BlStep
      <4> QED BY <2>1, <4>1
    <3>2. CASE ~(what = "scan" /\ blOn)
      <4>1. blVisible' = blVisible
        BY <1>1, <3>2 DEF BlStep
      <4> QED BY <2>1, <4>1
    <3> QED BY <3>1, <3>2
  <2>3. blOwes' \in BOOLEAN /\ (blOwes => blOwes')
    BY <1>1 DEF BlStep
  <2>4. BlPyOK'
    BY <1>1, <2>1 DEF BlPyOK
  <2> QED BY <1>1, <2>1, <2>2, <2>3, <2>4 DEF BlFields, BlLogical
<1>7. blOn => /\ blVisible' = IF what = "scan" THEN arg ELSE blVisible
              /\ what # "changed" => blOwes' = blOwes
              /\ what \notin {"interim", "changed"} => blSlider' = blSlider
              /\ what = "interim" /\ blS["connected"] => blSlider' = arg
  <2>1. {blOwes} \subseteq BOOLEAN
    BY <1>2 DEF BlTyped
  <2> QED BY <1>1, <2>1 DEF BlStep, BlLinked
<1>8. what \in {"set", "mark", "scan", "save", "register", "interim"} /\ what # "changed"
  BY <1>2, <1>3 DEF BlStepsOK
<1>9. blOn => BlWillHide(u)'
  <2>. SUFFICES ASSUME blOn PROVE BlWillHide(u)'
    OBVIOUS
  <2>1. BlSets(t, 1, "connected") => what = "set"
    BY <1>3 DEF BlSets
  <2>2. blS'["connected"] = IF BlSets(t, 1, "connected") THEN arg["connected"] ELSE blS["connected"]
    BY <1>4, <1>6, <1>8, <2>1
  <2> QED BY <1>1, <1>2, <1>7, <2>1, <2>2, BlStillHides
<1>10. CASE what # "register"
  <2>1. BlStepsOK(u) /\ BlWillTell(u)'
    BY <1>1, <1>2, BlStillSteps, BlStillTells
  <2>2. ASSUME blOn PROVE BlWillHide(u)' /\ BlAlone(u)' /\ BlWillFollow(u)'
    <3>1. BlAlone(u)'
      BY <1>1, <1>2, <1>6, <2>2, BlStillAlone
    <3>2. CASE BlSets(t, 1, "connected")
      <4>1. what = "set" /\ blS'["connected"] = arg["connected"] /\ blOwes' = blOwes
        BY <1>3, <1>4, <1>6, <1>7, <2>2, <3>2 DEF BlSets
      <4>2. BlWillFollow(u)'
        BY <1>1, <1>2, <2>2, <3>2, <4>1, BlFollowsStored
      <4> QED BY <1>9, <2>2, <3>1, <4>2
    <3>3. CASE ~BlSets(t, 1, "connected")
      <4>1. blS'["connected"] = blS["connected"]
        BY <1>4, <1>6, <1>10, <3>3
      <4>2. ~BlSets(t, 1, "notify")
        BY <1>2, <1>3, <2>2, <3>3 DEF BlAlone
      <4>3. blS'["notify"] = blS["notify"]
        BY <1>4, <1>6, <1>10, <4>2
      <4>4. CASE what = "interim"
        <5>1. blS' = blS
          BY <1>1, <4>4 DEF BlStep
        <5> QED BY <1>1, <1>2, <1>7, <1>9, <2>2, <3>1, <4>4, <5>1, BlFollowsAnswer
      <4>5. CASE what # "interim"
        <5>1. UNCHANGED <<blPy, blSlider, blOwes>> /\ what \in {"set", "mark", "scan", "save"}
          BY <1>1, <1>7, <1>8, <1>10, <2>2, <4>5
        <5>2. CASE BlSets(t, 1, "volume")
          <6>1. what = "set" /\ blS'["volume"] = arg["volume"]
            BY <1>3, <1>4, <1>6, <1>10, <5>2 DEF BlSets
          <6>2. BlWillFollow(u)'
            BY <1>1, <1>2, <2>2, <3>3, <4>1, <4>3, <5>1, <5>2, <6>1, BlFollowsSlide
          <6> QED BY <1>9, <2>2, <3>1, <6>2
        <5>3. CASE ~BlSets(t, 1, "volume")
          <6>1. blS'["volume"] = blS["volume"]
            BY <1>4, <1>6, <1>10, <5>3
          <6>2. BlWillFollow(u)'
            BY <1>1, <1>2, <2>2, <3>3, <4>1, <4>3, <5>1, <5>3, <6>1, BlFollowsQuiet
          <6> QED BY <1>9, <2>2, <3>1, <6>2
        <5> QED BY <5>2, <5>3
      <4> QED BY <4>4, <4>5
    <3> QED BY <3>2, <3>3
  <2>3. blTask' = u
    BY <1>1, <1>10
  <2>4. BlWillTell(blTask)'
    BY <2>1, <2>3 DEF BlWillTell
  <2>5. blOn' => BlWillHide(blTask)' /\ BlAlone(blTask)' /\ BlWillFollow(blTask)'
    <3>1. BlWillHide(u)' => BlWillHide(blTask)'
      BY <2>3
    <3>2. BlAlone(u)' => BlAlone(blTask)'
      BY <2>3
    <3>3. BlWillFollow(u)' => BlWillFollow(blTask)'
      BY <2>3
    <3> QED BY <1>1, <2>2, <3>1, <3>2, <3>3
  <2>6. BlTyped'
    BY <1>4, <1>6, <2>1, <2>3 DEF BlTyped
  <2> QED BY <1>1, <1>2, <1>5, <2>4, <2>5, <2>6 DEF BlInv
<1>11. CASE what = "register"
  <2>1. PICK v, w : v = blS["volume"] /\ w = <<<<"interim", v>>>> /\ blTask' = w
    BY <1>1, <1>11
  <2>2. Len(w) = 1 /\ 1 .. Len(w) = {1} /\ w[1][1] = "interim" /\ BlStepsOK(w)
    BY <2>1, BlAnswers
  <2>3. BlWillTell(blTask)'
    BY <2>1, <2>2 DEF BlWillTell, BlSets
  <2>4. blOn => BlWillHide(w)' /\ BlAlone(w)' /\ BlWillFollow(w)'
    <3>1. blS'["volume"] = blS["volume"] /\ blS'["notify"] = TRUE
      BY <1>4, <1>6, <1>11
    <3> QED BY <1>1, <1>9, <1>11, <2>1, <3>1, BlRegistersNow
  <2>5. blOn' => BlWillHide(blTask)' /\ BlAlone(blTask)' /\ BlWillFollow(blTask)'
    <3>1. BlWillHide(w)' => BlWillHide(blTask)'
      BY <2>1
    <3>2. BlAlone(w)' => BlAlone(blTask)'
      BY <2>1
    <3>3. BlWillFollow(w)' => BlWillFollow(blTask)'
      BY <2>1
    <3> QED BY <1>1, <2>4, <3>1, <3>2, <3>3
  <2>6. BlTyped'
    BY <1>4, <1>6, <2>1, <2>2 DEF BlTyped
  <2> QED BY <1>1, <1>2, <1>5, <2>3, <2>5, <2>6 DEF BlInv
<1> QED BY <1>10, <1>11

\* Every step of the two sides is sound.
LEMMA BlSteps == BlInv /\ [BlNext]_blVars => BlInv'
<1>. SUFFICES ASSUME BlInv, [BlNext]_blVars PROVE BlInv'
  OBVIOUS
<1>1. ASSUME UNCHANGED blVars PROVE BlInv'
  <2>1. UNCHANGED <<blOn, blS, blChanges, blTask, blPy, blGot, blView, blVisible, blSlider, blOwes>>
    BY <1>1 DEF blVars, blHost, blProgram, blSender
  <2> QED BY <2>1 DEF BlInv, BlTyped, BlTold, BlPyOK, BlWillTell, BlWillHide, BlAlone, BlWillFollow,
                BlWillShow, BlKeepsLink, BlKeepsScan, BlSets, BlMarks
<1>2. BlStart \/ BlStop => BlInv'
  BY BlStartsStops
<1>3. BlTaskStep => BlInv'
  BY BlTaskSteps
<1>4. BlPyStep => BlInv'
  BY BlPySteps
<1>5. BlAsks \/ BlReads => BlInv'
  BY BlAsksReads
<1>6. (BlDisconnect \/ \E peer \in BlPeers : BlConnect(peer)) => BlInv'
  BY BlComesGoes
<1>7. BlControlGone => BlInv'
  BY BlControlGoes
<1>8. (BlRegister \/ \E volume \in BlVolumes : BlSlides(volume)) => BlInv'
  BY BlVolumeEvents
<1>9. (\/ \E b \in BOOLEAN : BlAudio(b) \/ BlPlayStatus(b)
       \/ \E rate \in BlRates : BlFormat(rate)
       \/ \E track \in BlTracks : BlMetadata(track)) => BlInv'
  BY BlStores
<1>10. (\E volume \in BlVolumes : BlSetVolume(volume)) => BlInv'
  BY BlSetsVolume
<1> QED BY <1>1, <1>2, <1>3, <1>4, <1>5, <1>6, <1>7, <1>8, <1>9, <1>10 DEF BlNext

\* At rest, what is owed is nothing.
LEMMA BlAgrees == BlInv => BlSafe
<1>. SUFFICES ASSUME BlInv PROVE BlSafe
  OBVIOUS
<1>1. BlHidden
  <2>. SUFFICES ASSUME blOn, blTask = <<>> PROVE blVisible = ~blS["connected"]
    BY DEF BlHidden
  <2>1. BlWillHide(<<>>)
    BY DEF BlInv
  <2> QED BY <2>1, BlNoSteps
<1>2. BlSliderFollows
  <2>. SUFFICES ASSUME blOn, blS["connected"], blTask = <<>>, blPy = <<>>
                PROVE  blOwes \/ blSlider = blS["volume"]
    BY DEF BlSliderFollows
  <2>1. BlWillFollow(<<>>) /\ BlKeepsLink(<<>>)
    BY BlNoSteps DEF BlInv
  <2>2. 1 .. Len(<<>>) = {}
    OBVIOUS
  <2> QED BY <2>1, <2>2 DEF BlWillFollow, BlWillShow
<1> QED BY <1>1, <1>2 DEF BlInv, BlSafe

\* What the program and the sender believe of each other is so.
LEMMA BlHolds == BlSpec => []BlSafe
<1> QED BY BlBegins, BlSteps, BlAgrees, PTL DEF BlSpec

\* A phone plays to the board: its frames come in order, none of a stream that is over, and
\* no read waits; what changed is told, who is connected hides the board, and the two ends
\* agree on the volume. So long as no stream reaches the word's end and no callback outlasts
\* stop()'s 50 ms. (btaudio.c)
THEOREM BluetoothKeepsStep ==
    BtMax < BtWord /\ ~BtSlow => (BtSpec /\ BlSpec => []BluetoothSafe)
<1>. SUFFICES ASSUME BtMax < BtWord, ~BtSlow PROVE BtSpec /\ BlSpec => []BluetoothSafe
  OBVIOUS
<1>1. BtSpec => []BtSafe
  BY BtHolds
<1>2. BtSafe /\ BlSafe => BluetoothSafe
  BY DEF BluetoothSafe
<1> QED BY <1>1, <1>2, BlHolds, PTL
=============================================================================
