-------------------------- MODULE TuhEngine_proofs --------------------------
(***************************************************************************)
(* What a pipe, its transfer and the call that waits on it owe each other, *)
(* for any devices, pipes, endpoints and settings, and for generations of  *)
(* any modulus: EngineSafe is a property of the whole engine.  It is not   *)
(* inductive.  That the controller never writes into a dropped buffer      *)
(* rests on a generation being given out only while no completion is       *)
(* queued, so that a live transfer and a queued one never share it         *)
(* (TeApart, TeCtrl); that a pipe is collected rests on who may be waiting *)
(* on it and in which step of a call (TeCall); and that it is claimed, on  *)
(* a device being listed only while TinyUSB has it mounted (TeListed).     *)
(***************************************************************************)
EXTENDS TuhEngine, FiniteSetTheorems, TLAPS

\* The pipe the call in progress waits on is the one that knows it has a waiter;
\* one whose buffer is being allocated has nothing under way.
TeCall ==
    /\ call.pc \in {"alloc", "wait", "woken", "drain"} <=> call.pipe \in Pipes
    /\ \A p \in Pipes : pipe[p].waiter => call.pc \in {"wait", "woken"} /\ call.pipe = p
    /\ \A p \in Pipes : pipe[p].dead => pipe[p].waiter /\ pipe[p].state # "BUSY"
    /\ call.pipe \in Pipes => ~pipe[call.pipe].kept
    /\ call.pc = "alloc" => pipe[call.pipe].state # "BUSY"
    /\ call.pc = "drain" /\ pipe[call.pipe].in_use => pipe[call.pipe].state # "IDLE"
    /\ \A p \in Pipes : pipe[p].in_use => pipe[p].daddr \in Addr
    /\ \A p \in Pipes : pipe[p].in_use /\ pipe[p].kept => pipe[p].state # "IDLE"

\* The controller has one transfer of a pipe at most, and no queued completion is
\* taken for that one's.
TeApart ==
    /\ \A x, y \in live : x.pipe \in Pipes /\ x.pipe = y.pipe => x = y
    /\ \A x \in live, y \in events : x.pipe \in Pipes => x.pipe # y.pipe \/ x.gen # y.gen

\* At most one control transfer is anywhere, and while the controller has it the
\* control buffer is kept for it.
TeCtrl ==
    /\ \A x, y \in live \cup events : x.pipe = None /\ y.pipe = None => x = y
    /\ \A x \in live : x.pipe = None => x \notin events /\ (ctrl.state = "BUSY" \/ ctrl.stale)

\* A device is listed while TinyUSB has it mounted; a host that is stopped has
\* none, nor any transfer, nor a call in progress.
TeListed ==
    /\ \A a \in Addr : Mounted(a) => bus[a] = "mounted"
    /\ ~running => /\ live = {} /\ events = {} /\ call.pc = "idle"
                   /\ \A a \in Addr : bus[a] = "off"

\* The inductive invariant.
TeInv ==
    /\ TypeOK /\ BusyHasTransfer /\ WaiterHasPipe /\ PipesAreClaimed /\ BufferIsHeld
    /\ TeCall /\ TeApart /\ TeCtrl /\ TeListed

-----------------------------------------------------------------------------
\* Xfer and Allocated taken apart: what a submission finds, and the three things
\* a call may do with the pipe it has.
Idle(p, q) ==
    /\ p \in Pipes /\ q \in PipeType /\ q.in_use /\ q.state # "BUSY"
    /\ ~q.kept /\ ~q.waiter /\ ~q.dead /\ q.daddr \in Addr /\ claim[q.daddr] # None
    /\ \A r \in Pipes : r # p => ~pipe[r].waiter
    /\ \A x \in live : x.pipe # p
    /\ events = {} /\ running

\* Nothing but pipes, transfers and the call moves.
OnePipe == UNCHANGED <<running, bus, row, claim, ctrl, events>>

\* A transfer is submitted on the pipe the call has,
Submits(p, q, len, keep) ==
    /\ call.pipe \in {None, p} /\ Idle(p, q) /\ len \in 0 .. q.size /\ keep \in BOOLEAN
    /\ SubmitOn(p, q, len, keep) /\ OnePipe

\* or the call makes room on it and waits to be run,
Allocates(p, q, len, keep) ==
    /\ call.pc = "idle" /\ Idle(p, q) /\ len \in 1 .. MaxSize /\ keep \in BOOLEAN
    /\ Allocate(p, q, len, keep) /\ OnePipe

\* or it takes over the transfer that an earlier call left,
TakesOver(p, keep) ==
    /\ call.pc = "idle" /\ p \in Pipes /\ pipe[p].in_use /\ pipe[p].kept /\ running
    /\ keep \in BOOLEAN /\ TakeOver(p, pipe[p], keep) /\ OnePipe

\* or it returns without one.
GivesUp == Before("alloc") /\ Return /\ UNCHANGED <<pipe, live>> /\ OnePipe

-----------------------------------------------------------------------------
\* The parts of the type, and the values a step gives a pipe.
TeWords ==
    /\ running \in BOOLEAN
    /\ bus \in [Addr -> {"off", "configured", "mounted"}]
    /\ row \in [Rows -> [daddr : Addr \cup {None}, in_use : BOOLEAN]]
    /\ claim \in [Addr -> Alts \cup {None}]

\* The control transfer.
TeCtrlOK == ctrl \in [gen : Gens, state : {"IDLE", "BUSY", "DONE"}, stale : BOOLEAN]
\* The pipes.
TePipes == pipe \in [Pipes -> PipeType]
\* The transfers TinyUSB has, and those whose end it has yet to tell of.
TeXfers == live \in SUBSET Transfer /\ events \in SUBSET Transfer
\* What the program's call may be.
CallType ==
    [pc : {"idle", "alloc", "wait", "woken", "drain", "cwait", "cdrain"},
     pipe : Pipes \cup {None}, keep : BOOLEAN, len : 0 .. MaxSize, gen : Gens]

\* The call in hand.
TeCallOK == call \in CallType

\* TypeOK is its parts.
LEMMA TeTypes == TypeOK <=> TeWords /\ TeCtrlOK /\ TePipes /\ TeXfers /\ TeCallOK
BY DEF TypeOK, TeWords, TeCtrlOK, TePipes, TeXfers, TeCallOK, CallType

\* The next generation is one of them, and another one.
LEMMA TeBump == ASSUME NEW g \in Gens PROVE Bump(g) \in Gens /\ Bump(g) # g
<1>1. GenMod \in Nat /\ GenMod > 1 /\ g \in 0 .. GenMod - 1
  BY TuhAssumption DEF Gens
<1>2. CASE g + 1 < GenMod
  <2>1. (g + 1) % GenMod = g + 1
    BY <1>1, <1>2
  <2> QED BY <1>1, <2>1 DEF Bump, Gens
<1>3. CASE g + 1 = GenMod
  <2>1. GenMod % GenMod = 0
    BY <1>1
  <2> QED BY <1>1, <1>3, <2>1 DEF Bump, Gens
<1> QED BY <1>1, <1>2, <1>3

\* No pipe, no device and no setting is None's namesake.
LEMMA TeNone == None \notin Addr /\ None \notin Alts /\ None \notin Pipes /\ None \notin Rows
BY TuhAssumption

\* A pipe that is freed is a pipe, with nothing under way.
LEMMA TeFreed ==
    ASSUME NEW q \in PipeType
    PROVE  /\ Freed(q) \in PipeType
           /\ ~Freed(q).in_use /\ ~Freed(q).kept /\ ~Freed(q).dead
           /\ Freed(q).state = "IDLE" /\ Freed(q).size = 0 /\ Freed(q).gen = Bump(q.gen)
           /\ Freed(q).waiter = q.waiter /\ Freed(q).daddr = q.daddr /\ Freed(q).ep = q.ep
<1>1. Bump(q.gen) \in Gens /\ 0 \in 0 .. MaxSize
  BY TeBump, TuhAssumption DEF PipeType
<1> QED BY <1>1 DEF Freed, PipeType

\* A pipe whose device goes is freed, or dead and done for the call that waits.
LEMMA TeOrphan ==
    ASSUME NEW q \in PipeType
    PROVE  /\ Orphan(q) \in PipeType
           /\ ~q.waiter => Orphan(q) = Freed(q)
           /\ q.waiter => /\ Orphan(q).dead /\ Orphan(q).state = "DONE"
                          /\ Orphan(q).in_use = q.in_use /\ Orphan(q).kept = q.kept
                          /\ Orphan(q).daddr = q.daddr /\ Orphan(q).waiter
                          /\ Orphan(q).gen = q.gen /\ Orphan(q).size = q.size
BY TeFreed DEF Orphan, PipeType

\* What else a call does to a pipe, or to its own record, leaves it one.
LEMMA TeEdits ==
    ASSUME NEW q \in PipeType
    PROVE  /\ \A g \in Gens :
              /\ [q EXCEPT !.gen = g, !.state = "BUSY", !.kept = FALSE, !.waiter = TRUE] \in PipeType
              /\ [q EXCEPT !.gen = g, !.state = "IDLE"] \in PipeType
           /\ [q EXCEPT !.waiter = FALSE, !.state = "IDLE"] \in PipeType
           /\ [q EXCEPT !.waiter = FALSE] \in PipeType
           /\ [q EXCEPT !.kept = TRUE] \in PipeType
           /\ [q EXCEPT !.state = "IDLE"] \in PipeType
BY DEF PipeType

\* The calls a step begins, goes on with or ends are calls.
LEMMA TeCalls ==
    /\ NoCall \in CallType /\ [NoCall EXCEPT !.pc = "cwait"] \in CallType
    /\ \A p \in Pipes, k \in BOOLEAN :
           [NoCall EXCEPT !.pc = "wait", !.pipe = p, !.keep = k] \in CallType
    /\ \A c \in CallType : \A w \in {"woken", "drain", "cdrain"} : [c EXCEPT !.pc = w] \in CallType
<1>1. 0 \in 0 .. MaxSize /\ 0 \in Gens
  BY TuhAssumption DEF Gens
<1> QED BY <1>1 DEF NoCall, CallType

-----------------------------------------------------------------------------
\* What Xfer and Allocated do is one of the deeds above.
LEMMA TeXfer ==
    ASSUME TeInv, NEW a \in Addr, NEW e \in Eps, NEW len \in 1 .. MaxSize, NEW keep \in BOOLEAN,
           Xfer(a, e, len, keep)
    PROVE  \/ \E p, q : Submits(p, q, len, keep) \/ Allocates(p, q, len, keep)
           \/ \E p : TakesOver(p, keep)
<1> USE DEF TeInv
<1>1. PICK p \in PipeFor(a, e) :
          LET q == Made(p, a, e) IN
          /\ q.state = "BUSY" => q.kept
          /\ IF q.kept THEN TakeOver(p, q, keep)
             ELSE IF len > q.size THEN Allocate(p, q, len, keep)
             ELSE SubmitOn(p, q, len, keep)
  BY DEF Xfer
<1> DEFINE q == Made(p, a, e)
<1>2. p \in Pipes /\ pipe[p] \in PipeType /\ call.pc = "idle" /\ events = {} /\ OnePipe
  BY <1>1 DEF PipeFor, PipesOf, Xfer, Before, TypeOK, OnePipe
<1>3. running /\ call.pipe = None
  BY <1>2 DEF Xfer, TeListed, Mounted, TeCall, TypeOK
<1>4. \A r \in Pipes : ~pipe[r].waiter /\ ~pipe[r].dead
  BY <1>2 DEF TeCall
<1>5. CASE pipe[p].in_use
  <2>1. q = pipe[p]
    BY <1>5 DEF Made
  <2>2. CASE q.kept
    BY <1>1, <1>2, <1>3, <1>5, <2>1, <2>2 DEF TakesOver
  <2>3. CASE ~q.kept
    <3>1. q.state # "BUSY" /\ \A x \in live : x.pipe # p
      BY <1>1, <1>2, <2>1, <2>3 DEF BufferIsHeld
    <3>2. q.daddr \in Addr /\ claim[q.daddr] # None
      BY <1>2, <1>4, <1>5, <2>1 DEF TeCall, PipesAreClaimed
    <3>3. Idle(p, q)
      BY <1>2, <1>3, <1>4, <1>5, <2>1, <2>3, <3>1, <3>2 DEF Idle
    <3>4. CASE len > q.size
      BY <1>1, <1>2, <2>3, <3>3, <3>4 DEF Allocates
    <3>5. CASE ~(len > q.size)
      <4>1. len \in 0 .. q.size
        BY <1>2, <2>1, <3>5, TuhAssumption DEF PipeType
      <4> QED BY <1>1, <1>2, <1>3, <2>3, <3>3, <3>5, <4>1 DEF Submits
    <3> QED BY <3>4, <3>5
  <2> QED BY <2>2, <2>3
<1>6. CASE ~pipe[p].in_use
  <2>1. claim[a] # None
    BY <1>1, <1>6 DEF PipeFor, PipesOf
  <2>2. q = [Freed(pipe[p]) EXCEPT !.in_use = TRUE, !.daddr = a, !.ep = e]
    BY <1>6 DEF Made
  <2>3. /\ q \in PipeType /\ q.in_use /\ q.state = "IDLE" /\ ~q.kept /\ ~q.waiter /\ ~q.dead
        /\ q.daddr = a /\ q.size = 0
    <3> DEFINE f == Freed(pipe[p])
    <3>1. /\ f \in PipeType /\ f.state = "IDLE" /\ ~f.kept /\ ~f.waiter /\ ~f.dead /\ f.size = 0
      BY <1>2, <1>4, TeFreed
    <3> HIDE DEF f
    <3>2. q = [f EXCEPT !.in_use = TRUE, !.daddr = a, !.ep = e]
      BY <2>2 DEF f
    <3> HIDE DEF q
    <3> QED BY <3>1, <3>2 DEF PipeType
  <2>4. \A x \in live : x.pipe # p
    BY <1>2, <1>6 DEF BufferIsHeld
  <2>5. Idle(p, q)
    BY <1>2, <1>3, <1>4, <2>1, <2>3, <2>4 DEF Idle
  <2>6. Allocate(p, q, len, keep)
    BY <1>1, <2>3
  <2> QED BY <1>2, <2>5, <2>6 DEF Allocates
<1> QED BY <1>5, <1>6

\* As for Allocated.
LEMMA TeAllocated ==
    ASSUME TeInv, Allocated
    PROVE  GivesUp \/ \E p, q, len, keep : Submits(p, q, len, keep)
<1> USE DEF TeInv
<1> DEFINE p == call.pipe
           q == pipe[p]
           qq == [q EXCEPT !.size = call.len]
<1>1. p \in Pipes /\ q \in PipeType /\ events = {} /\ OnePipe /\ call.pc = "alloc"
  BY DEF Allocated, Before, OnePipe, TypeOK, TeCall
<1>2. CASE Return /\ UNCHANGED <<pipe, live>>
  BY <1>1, <1>2 DEF GivesUp, Allocated, Before
<1>3. CASE q.in_use /\ q.gen = call.gen /\ SubmitOn(p, qq, call.len, call.keep)
  <2>1. q.state # "BUSY" /\ ~q.kept /\ ~q.waiter /\ ~q.dead /\ \A r \in Pipes : ~pipe[r].waiter
    BY <1>1 DEF TeCall
  <2>2. \A x \in live : x.pipe # p
    BY <1>1, <2>1 DEF BufferIsHeld
  <2>3. q.daddr \in Addr /\ claim[q.daddr] # None
    BY <1>1, <1>3, <2>1 DEF TeCall, PipesAreClaimed
  <2>4. running
    BY <1>1 DEF TeListed
  <2>5. call.len \in 0 .. MaxSize /\ call.keep \in BOOLEAN
    BY DEF TypeOK
  <2>6. /\ qq \in PipeType /\ qq.in_use /\ qq.state # "BUSY" /\ ~qq.kept /\ ~qq.waiter
        /\ ~qq.dead /\ qq.daddr = q.daddr /\ qq.size = call.len
    BY <1>1, <1>3, <2>1, <2>5 DEF PipeType
  <2>7. Idle(p, qq)
    BY <1>1, <2>1, <2>2, <2>3, <2>4, <2>6 DEF Idle
  <2> HIDE DEF qq
  <2>8. call.len \in 0 .. qq.size
    BY <2>5, <2>6
  <2>9. Submits(p, qq, call.len, call.keep)
    BY <1>1, <1>3, <2>5, <2>7, <2>8 DEF Submits
  <2> QED BY <2>9
<1> QED BY <1>2, <1>3 DEF Allocated

\* The steps of Next, one by one.
LEMMA TeSteps ==
    ASSUME TeInv, [Next]_vars
    PROVE  \/ \E a \in Addr : \/ Configure(a) \/ EnumerationFails(a) \/ Mount(a) \/ Unmount(a)
                              \/ Release(a) \/ Ctrl(a)
           \/ \E x \in events : Deliver(x)
           \/ \E x \in live : Complete(x)
           \/ \E a \in Addr, alt \in Alts, opens \in BOOLEAN : Claim(a, alt, opens)
           \/ \E p, q, len, keep : Submits(p, q, len, keep) \/ Allocates(p, q, len, keep)
           \/ \E p, keep : TakesOver(p, keep)
           \/ Start \/ Stop \/ GivesUp \/ WaitEnds \/ Relock \/ Resolve
           \/ CtrlWaitEnds \/ CtrlResolve \/ UNCHANGED vars
<1>1. CASE TaskSteps
  BY <1>1 DEF TaskSteps
<1>2. CASE CallSteps
  BY <1>2, TeAllocated DEF CallSteps
<1>3. ASSUME NEW a \in Addr, NEW e \in Eps, NEW len \in 1 .. MaxSize, NEW keep \in BOOLEAN,
             Xfer(a, e, len, keep)
      PROVE  \/ \E p, q : Submits(p, q, len, keep) \/ Allocates(p, q, len, keep)
             \/ \E p : TakesOver(p, keep)
  BY <1>3, TeXfer
<1> QED BY <1>1, <1>2, <1>3 DEF Next

-----------------------------------------------------------------------------

\* Every step keeps the devices.
LEMMA TeWordsKept ==
    ASSUME TeInv, TeWords, [Next]_vars
    PROVE  TeWords'
<1>1. ASSUME NEW a \in Addr, Configure(a) PROVE TeWords'
  <2>1. ASSUME NEW r \in Rows, NEW b \in BOOLEAN
        PROVE  [row EXCEPT ![r] = [daddr |-> a, in_use |-> b]] \in [Rows -> [daddr : Addr \cup {None}, in_use : BOOLEAN]]
    BY DEF TeWords
  <2>2. ASSUME NEW r \in Reserved(a) PROVE r \in Rows /\ (row[r].daddr = a /\ row[r].in_use) \in BOOLEAN
    BY DEF Reserved, RowsOf
  <2>3. row' \in [Rows -> [daddr : Addr \cup {None}, in_use : BOOLEAN]]
    <3>1. CASE UNCHANGED row
      BY <3>1 DEF TeWords
    <3>2. CASE \E r \in Reserved(a) :
              row' = [row EXCEPT ![r] = [daddr |-> a, in_use |-> row[r].daddr = a /\ row[r].in_use]]
      <4>1. PICK r \in Reserved(a) :
                row' = [row EXCEPT ![r] = [daddr |-> a, in_use |-> row[r].daddr = a /\ row[r].in_use]]
        BY <3>2
      <4> DEFINE b == row[r].daddr = a /\ row[r].in_use
      <4>2. r \in Rows /\ b \in BOOLEAN
        BY <2>2
      <4> HIDE DEF b
      <4>3. [row EXCEPT ![r] = [daddr |-> a, in_use |-> b]] \in [Rows -> [daddr : Addr \cup {None}, in_use : BOOLEAN]]
        BY <2>1, <4>2
      <4> QED BY <4>1, <4>3 DEF b
    <3> QED BY <1>1, <3>1, <3>2 DEF Configure
  <2> QED BY <1>1, <2>3 DEF Configure, TeWords
<1>2. ASSUME NEW a \in Addr, EnumerationFails(a) PROVE TeWords'
  BY <1>2 DEF EnumerationFails, TeWords
<1>3. ASSUME NEW a \in Addr, Mount(a) PROVE TeWords'
  BY <1>3 DEF Mount, FreeRow, TeWords
<1>4. ASSUME NEW a \in Addr, Unmount(a) PROVE TeWords'
  BY <1>4 DEF Unmount, Forget, FreeRow, TeWords
<1>5. ASSUME NEW x \in events, Deliver(x) PROVE TeWords'
  BY <1>5 DEF Deliver, XferCb, CtrlCb, NewPipe, TeWords
<1>6. ASSUME NEW x \in live, Complete(x) PROVE TeWords'
  BY <1>6 DEF Complete, TeWords
<1>7. CASE Start
  BY <1>7 DEF Start, Dropped, FreeRow, TeWords
<1>8. CASE Stop
  BY <1>8 DEF Stop, Before, Dropped, FreeRow, TeWords
<1>9. ASSUME NEW a \in Addr, NEW alt \in Alts, NEW opens \in BOOLEAN, Claim(a, alt, opens) PROVE TeWords'
  BY <1>9 DEF Claim, Before, CloseInterface, Dropped, Forget, TeWords
<1>10. ASSUME NEW a \in Addr, Release(a) PROVE TeWords'
  BY <1>10 DEF Release, Before, CloseInterface, Dropped, Forget, TeWords
<1>11. ASSUME NEW p, NEW q, NEW len, NEW keep, Submits(p, q, len, keep) PROVE TeWords'
  BY <1>11 DEF Submits, SubmitOn, NewPipe, Return, OnePipe, TeWords
<1>12. ASSUME NEW p, NEW q, NEW len, NEW keep, Allocates(p, q, len, keep) PROVE TeWords'
  BY <1>12 DEF Allocates, Allocate, NewPipe, OnePipe, TeWords
<1>13. ASSUME NEW p, NEW keep, TakesOver(p, keep) PROVE TeWords'
  BY <1>13 DEF TakesOver, TakeOver, NewPipe, OnePipe, TeWords
<1>14. CASE GivesUp
  BY <1>14 DEF GivesUp, Before, Return, OnePipe, TeWords
<1>15. CASE WaitEnds
  BY <1>15 DEF WaitEnds, Before, TeWords
<1>16. CASE Relock
  BY <1>16 DEF Relock, Before, NewPipe, Return, TeWords
<1>17. CASE Resolve
  BY <1>17 DEF Resolve, Before, NewPipe, Return, TeWords
<1>18. ASSUME NEW a \in Addr, Ctrl(a) PROVE TeWords'
  BY <1>18 DEF Ctrl, Before, TeWords
<1>19. CASE CtrlWaitEnds
  BY <1>19 DEF CtrlWaitEnds, Before, Return, TeWords
<1>20. CASE CtrlResolve
  BY <1>20 DEF CtrlResolve, Before, Return, TeWords
<1>21. CASE UNCHANGED vars
  BY <1>21 DEF vars, TeWords
<1> QED BY TeSteps, <1>1, <1>2, <1>3, <1>4, <1>5, <1>6, <1>7, <1>8, <1>9, <1>10, <1>11, <1>12, <1>13, <1>14, <1>15, <1>16, <1>17, <1>18, <1>19, <1>20, <1>21

\* Every step keeps the control channel.
LEMMA TeCtrlOKKept ==
    ASSUME TeInv, TeCtrlOK, [Next]_vars
    PROVE  TeCtrlOK'
<1>1. ASSUME NEW a \in Addr, Configure(a) PROVE TeCtrlOK'
  BY <1>1 DEF Configure, TeCtrlOK
<1>2. ASSUME NEW a \in Addr, EnumerationFails(a) PROVE TeCtrlOK'
  BY <1>2 DEF EnumerationFails, TeCtrlOK
<1>3. ASSUME NEW a \in Addr, Mount(a) PROVE TeCtrlOK'
  BY <1>3 DEF Mount, TeCtrlOK
<1>4. ASSUME NEW a \in Addr, Unmount(a) PROVE TeCtrlOK'
  BY <1>4 DEF Unmount, Forget, TeCtrlOK
<1>5. ASSUME NEW x \in events, Deliver(x) PROVE TeCtrlOK'
  BY <1>5 DEF Deliver, XferCb, CtrlCb, NewPipe, TeCtrlOK
<1>6. ASSUME NEW x \in live, Complete(x) PROVE TeCtrlOK'
  BY <1>6 DEF Complete, TeCtrlOK
<1>7. CASE Start
  BY <1>7 DEF Start, Dropped, TeCtrlOK
<1>8. CASE Stop
  BY <1>8, TeBump DEF Stop, Before, Dropped, TeCtrlOK
<1>9. ASSUME NEW a \in Addr, NEW alt \in Alts, NEW opens \in BOOLEAN, Claim(a, alt, opens) PROVE TeCtrlOK'
  BY <1>9 DEF Claim, Before, CloseInterface, Dropped, Forget, TeCtrlOK
<1>10. ASSUME NEW a \in Addr, Release(a) PROVE TeCtrlOK'
  BY <1>10 DEF Release, Before, CloseInterface, Dropped, Forget, TeCtrlOK
<1>11. ASSUME NEW p, NEW q, NEW len, NEW keep, Submits(p, q, len, keep) PROVE TeCtrlOK'
  BY <1>11 DEF Submits, SubmitOn, NewPipe, Return, OnePipe, TeCtrlOK
<1>12. ASSUME NEW p, NEW q, NEW len, NEW keep, Allocates(p, q, len, keep) PROVE TeCtrlOK'
  BY <1>12 DEF Allocates, Allocate, NewPipe, OnePipe, TeCtrlOK
<1>13. ASSUME NEW p, NEW keep, TakesOver(p, keep) PROVE TeCtrlOK'
  BY <1>13 DEF TakesOver, TakeOver, NewPipe, OnePipe, TeCtrlOK
<1>14. CASE GivesUp
  BY <1>14 DEF GivesUp, Before, Return, OnePipe, TeCtrlOK
<1>15. CASE WaitEnds
  BY <1>15 DEF WaitEnds, Before, TeCtrlOK
<1>16. CASE Relock
  BY <1>16 DEF Relock, Before, NewPipe, Return, TeCtrlOK
<1>17. CASE Resolve
  BY <1>17 DEF Resolve, Before, NewPipe, Return, TeCtrlOK
<1>18. ASSUME NEW a \in Addr, Ctrl(a) PROVE TeCtrlOK'
  BY <1>18, TeBump DEF Ctrl, Before, TeCtrlOK
<1>19. CASE CtrlWaitEnds
  BY <1>19 DEF CtrlWaitEnds, Before, Return, TeCtrlOK
<1>20. CASE CtrlResolve
  <2>1. Bump(ctrl.gen) \in Gens /\ ctrl.gen \in Gens
    BY TeBump DEF TeCtrlOK
  <2>2. CASE ctrl' = [ctrl EXCEPT !.state = "IDLE"]
    BY <2>2 DEF TeCtrlOK
  <2>3. CASE \E b \in BOOLEAN : ctrl' = [gen |-> Bump(ctrl.gen), state |-> "IDLE", stale |-> b]
    BY <2>1, <2>3 DEF TeCtrlOK
  <2> QED BY <1>20, <2>2, <2>3 DEF CtrlResolve
<1>21. CASE UNCHANGED vars
  BY <1>21 DEF vars, TeCtrlOK
<1> QED BY TeSteps, <1>1, <1>2, <1>3, <1>4, <1>5, <1>6, <1>7, <1>8, <1>9, <1>10, <1>11, <1>12, <1>13, <1>14, <1>15, <1>16, <1>17, <1>18, <1>19, <1>20, <1>21

\* A submission gives the pipe a transfer of its next generation, or is refused.
LEMMA TeSubmits ==
    ASSUME NEW p, NEW q, NEW len, NEW keep, Submits(p, q, len, keep)
    PROVE  \E r \in PipeType :
              /\ p \in Pipes /\ pipe' = [pipe EXCEPT ![p] = r]
              /\ r.in_use /\ ~r.dead /\ ~r.kept /\ r.daddr = q.daddr /\ r.size = q.size
              /\ \/ /\ r.state = "BUSY" /\ r.waiter
                    /\ live' = live \cup {[pipe |-> p, gen |-> r.gen, len |-> len]}
                    /\ call'.pc = "wait" /\ call'.pipe = p
                 \/ /\ r.state = "IDLE" /\ ~r.waiter /\ live' = live
                    /\ call'.pc = "idle" /\ call'.pipe = None
<1>1. q \in PipeType /\ Bump(q.gen) \in Gens /\ p \in Pipes /\ q.in_use /\ ~q.dead /\ ~q.kept /\ ~q.waiter
  BY TeBump DEF Submits, Idle, PipeType
<1> DEFINE b == [q EXCEPT !.gen = Bump(q.gen), !.state = "BUSY", !.kept = FALSE, !.waiter = TRUE]
           i == [q EXCEPT !.gen = Bump(q.gen), !.state = "IDLE"]
<1>2. /\ b \in PipeType /\ b.in_use /\ ~b.dead /\ ~b.kept /\ b.daddr = q.daddr /\ b.size = q.size
      /\ b.state = "BUSY" /\ b.waiter /\ b.gen = Bump(q.gen)
  BY <1>1, TeEdits, ZenonT(60) DEF PipeType
<1>3. /\ i \in PipeType /\ i.in_use /\ ~i.dead /\ ~i.kept /\ i.daddr = q.daddr /\ i.size = q.size
      /\ i.state = "IDLE" /\ ~i.waiter
  BY <1>1, TeEdits DEF PipeType
<1>4. CASE /\ pipe' = [pipe EXCEPT ![p] = b]
           /\ live' = live \cup {[pipe |-> p, gen |-> Bump(q.gen), len |-> len]}
           /\ call' = [NoCall EXCEPT !.pc = "wait", !.pipe = p, !.keep = keep]
  <2>1. call'.pc = "wait" /\ call'.pipe = p
    BY <1>4 DEF NoCall
  <2> HIDE DEF b
  <2> QED BY <1>1, <1>2, <1>4, <2>1
<1>5. CASE pipe' = [pipe EXCEPT ![p] = i] /\ live' = live /\ call' = NoCall
  <2>1. call'.pc = "idle" /\ call'.pipe = None
    BY <1>5 DEF NoCall
  <2> HIDE DEF i
  <2> QED BY <1>1, <1>3, <1>5, <2>1
<1> QED BY <1>4, <1>5 DEF Submits, SubmitOn, NewPipe, Return

\* A completion makes its own busy pipe done, or the control channel, or nothing.
LEMMA TeDeliver ==
    ASSUME TeInv, NEW x \in events, Deliver(x)
    PROVE  \/ pipe' = pipe
           \/ \E p \in Pipes, r \in PipeType :
              /\ x.pipe = p /\ x.gen = pipe[p].gen /\ pipe[p].in_use /\ pipe[p].state = "BUSY"
              /\ pipe' = [pipe EXCEPT ![p] = r] /\ r.state = "DONE"
              /\ r.in_use /\ r.gen = pipe[p].gen /\ r.daddr = pipe[p].daddr /\ r.size = pipe[p].size
              /\ r.kept = pipe[p].kept /\ r.waiter = pipe[p].waiter /\ r.dead = pipe[p].dead
<1> DEFINE p == x.pipe
           r == [pipe[p] EXCEPT !.state = "DONE"]
<1>1. pipe' = pipe \/ (p \in Pipes /\ Accepted(x) /\ pipe' = [pipe EXCEPT ![p] = r])
  BY DEF Deliver, XferCb, CtrlCb, NewPipe
<1>2. CASE p \in Pipes /\ Accepted(x) /\ pipe' = [pipe EXCEPT ![p] = r]
  <2>1. pipe[p] \in PipeType
    BY <1>2 DEF TeInv, TypeOK
  <2>2. /\ r \in PipeType /\ r.state = "DONE" /\ r.in_use = pipe[p].in_use
        /\ r.gen = pipe[p].gen /\ r.daddr = pipe[p].daddr /\ r.size = pipe[p].size
        /\ r.kept = pipe[p].kept /\ r.waiter = pipe[p].waiter /\ r.dead = pipe[p].dead
    BY <2>1 DEF PipeType
  <2>3. x.gen = pipe[p].gen /\ pipe[p].in_use /\ pipe[p].state = "BUSY"
    BY <1>2 DEF Accepted
  <2> HIDE DEF r
  <2> QED BY <1>2, <2>2, <2>3
<1> QED BY <1>1, <1>2

\* The lock is back: a dead pipe is freed, a finished one is the call's answer, and
\* one that is neither is looked at once more.
LEMMA TeRelock ==
    ASSUME TeInv, Relock
    PROVE  LET p == call.pipe q == pipe[p] IN
           /\ p \in Pipes /\ q \in PipeType /\ ~q.kept
           /\ \E r \in PipeType :
              /\ pipe' = [pipe EXCEPT ![p] = r]
              /\ ~r.waiter /\ ~r.dead /\ ~r.kept
              /\ \/ q.dead /\ ~r.in_use /\ call'.pc = "idle" /\ call'.pipe = None
                 \/ /\ ~q.dead /\ r.in_use = q.in_use /\ r.daddr = q.daddr
                    /\ r.size = q.size /\ r.gen = q.gen
                    /\ \/ q.state = "DONE" /\ r.state = "IDLE" /\ call'.pc = "idle" /\ call'.pipe = None
                       \/ r.state = q.state /\ call'.pc = "drain" /\ call'.pipe = p
<1> DEFINE p == call.pipe
           q == pipe[p]
<1>1. p \in Pipes /\ q \in PipeType /\ ~q.kept /\ call.pc = "woken" /\ call \in CallType
  BY DEF Relock, Before, TeInv, TeCall, TypeOK, CallType
<1>2. CASE q.dead /\ NewPipe(p, [Freed(q) EXCEPT !.waiter = FALSE]) /\ Return
  <2> DEFINE f == Freed(q)
             r == [f EXCEPT !.waiter = FALSE]
  <2>1. f \in PipeType /\ ~f.in_use /\ ~f.kept /\ ~f.dead
    BY <1>1, TeFreed
  <2>2. call'.pc = "idle" /\ call'.pipe = None
    BY <1>2 DEF Return, NoCall
  <2>3. pipe' = [pipe EXCEPT ![p] = r]
    BY <1>2 DEF NewPipe
  <2> HIDE DEF f
  <2>4. r \in PipeType /\ ~r.in_use /\ ~r.kept /\ ~r.dead /\ ~r.waiter
    BY <2>1 DEF PipeType
  <2> HIDE DEF r
  <2> QED BY <1>1, <1>2, <2>2, <2>3, <2>4
<1>3. CASE ~q.dead /\ q.state = "DONE" /\ NewPipe(p, [q EXCEPT !.waiter = FALSE, !.state = "IDLE"]) /\ Return
  <2> DEFINE r == [q EXCEPT !.waiter = FALSE, !.state = "IDLE"]
  <2>1. call'.pc = "idle" /\ call'.pipe = None /\ pipe' = [pipe EXCEPT ![p] = r]
    BY <1>3 DEF Return, NoCall, NewPipe
  <2>2. /\ r \in PipeType /\ r.in_use = q.in_use /\ ~r.kept /\ ~r.dead /\ ~r.waiter /\ r.state = "IDLE"
        /\ r.daddr = q.daddr /\ r.size = q.size /\ r.gen = q.gen
    BY <1>1, <1>3 DEF PipeType
  <2> HIDE DEF r
  <2> QED BY <1>1, <1>3, <2>1, <2>2
<1>4. CASE ~q.dead /\ NewPipe(p, [q EXCEPT !.waiter = FALSE]) /\ call' = [call EXCEPT !.pc = "drain"]
  <2> DEFINE r == [q EXCEPT !.waiter = FALSE]
  <2>1. call'.pc = "drain" /\ call'.pipe = p /\ pipe' = [pipe EXCEPT ![p] = r]
    BY <1>1, <1>4 DEF NewPipe, CallType
  <2>2. /\ r \in PipeType /\ r.in_use = q.in_use /\ ~r.kept /\ ~r.dead /\ ~r.waiter /\ r.state = q.state
        /\ r.daddr = q.daddr /\ r.size = q.size /\ r.gen = q.gen
    BY <1>1, <1>4 DEF PipeType
  <2> HIDE DEF r
  <2> QED BY <1>1, <1>4, <2>1, <2>2
<1> QED BY <1>2, <1>3, <1>4 DEF Relock

\* After the last look: done after all, an IN stays armed, an OUT is taken back.
LEMMA TeResolve ==
    ASSUME TeInv, Resolve
    PROVE  LET p == call.pipe q == pipe[p] IN
           /\ p \in Pipes /\ q \in PipeType /\ ~q.kept
           /\ call'.pc = "idle" /\ call'.pipe = None
           /\ \E r \in PipeType :
              /\ pipe' = [pipe EXCEPT ![p] = r]
              /\ r.waiter = q.waiter /\ r.dead = q.dead
              /\ r.in_use = q.in_use /\ r.daddr = q.daddr /\ r.size = q.size
              /\ \/ q.state = "DONE" /\ r.state = "IDLE" /\ ~r.kept /\ r.gen = q.gen
                    /\ UNCHANGED <<live, events>>
                 \/ q.state # "DONE" /\ r.state = q.state /\ r.kept /\ r.gen = q.gen
                    /\ UNCHANGED <<live, events>>
                 \/ r.state = "IDLE" /\ ~r.kept
                    /\ live' = live \ {x \in live : x.pipe = p}
                    /\ events' \in {events, events \cup {x \in live : x.pipe = p}}
<1> DEFINE p == call.pipe
           q == pipe[p]
<1>1. p \in Pipes /\ q \in PipeType /\ ~q.kept /\ call'.pc = "idle" /\ call'.pipe = None
  BY DEF Resolve, Before, TeInv, TeCall, TypeOK, Return, NoCall
<1>2. CASE q.state = "DONE" /\ NewPipe(p, [q EXCEPT !.state = "IDLE"]) /\ UNCHANGED <<live, events>>
  <2> DEFINE r == [q EXCEPT !.state = "IDLE"]
  <2>1. pipe' = [pipe EXCEPT ![p] = r]
    BY <1>2 DEF NewPipe
  <2>2. /\ r \in PipeType /\ r.in_use = q.in_use /\ ~r.kept /\ r.dead = q.dead /\ r.waiter = q.waiter
        /\ r.state = "IDLE" /\ r.daddr = q.daddr /\ r.size = q.size /\ r.gen = q.gen
    BY <1>1 DEF PipeType
  <2> HIDE DEF r
  <2> QED BY <1>1, <1>2, <2>1, <2>2
<1>3. CASE q.state # "DONE" /\ NewPipe(p, [q EXCEPT !.kept = TRUE]) /\ UNCHANGED <<live, events>>
  <2> DEFINE r == [q EXCEPT !.kept = TRUE]
  <2>1. pipe' = [pipe EXCEPT ![p] = r]
    BY <1>3 DEF NewPipe
  <2>2. /\ r \in PipeType /\ r.in_use = q.in_use /\ r.kept /\ r.dead = q.dead /\ r.waiter = q.waiter
        /\ r.state = q.state /\ r.daddr = q.daddr /\ r.size = q.size /\ r.gen = q.gen
    BY <1>1 DEF PipeType
  <2> HIDE DEF r
  <2> QED BY <1>1, <1>3, <2>1, <2>2
<1>4. CASE /\ NewPipe(p, [q EXCEPT !.gen = Bump(@), !.state = "IDLE"])
           /\ live' = live \ {x \in live : x.pipe = p}
           /\ events' \in {events, events \cup {x \in live : x.pipe = p}}
  <2> DEFINE g == Bump(q.gen)
             r == [q EXCEPT !.gen = g, !.state = "IDLE"]
  <2>1. pipe' = [pipe EXCEPT ![p] = r]
    BY <1>4 DEF NewPipe
  <2>2. g \in Gens
    BY <1>1, TeBump DEF PipeType
  <2> HIDE DEF g
  <2>3. /\ r \in PipeType /\ r.in_use = q.in_use /\ ~r.kept /\ r.dead = q.dead /\ r.waiter = q.waiter
        /\ r.state = "IDLE" /\ r.daddr = q.daddr /\ r.size = q.size
    BY <1>1, <2>2 DEF PipeType
  <2> HIDE DEF r
  <2> QED BY <1>1, <1>4, <2>1, <2>3
<1> QED BY <1>1, <1>2, <1>3, <1>4 DEF Resolve

\* Every step keeps the pipes.
LEMMA TePipesKept ==
    ASSUME TeInv, TePipes, [Next]_vars
    PROVE  TePipes'
<1>1. ASSUME NEW a \in Addr, Configure(a) PROVE TePipes'
  BY <1>1 DEF Configure, TePipes
<1>2. ASSUME NEW a \in Addr, EnumerationFails(a) PROVE TePipes'
  BY <1>2 DEF EnumerationFails, TePipes
<1>3. ASSUME NEW a \in Addr, Mount(a) PROVE TePipes'
  BY <1>3 DEF Mount, TePipes
<1>4. ASSUME NEW a \in Addr, Unmount(a) PROVE TePipes'
  BY <1>4, TeOrphan DEF Unmount, Forget, TePipes
<1>5. ASSUME NEW x \in events, Deliver(x) PROVE TePipes'
  BY <1>5 DEF Deliver, XferCb, CtrlCb, NewPipe, PipeType, TePipes
<1>6. ASSUME NEW x \in live, Complete(x) PROVE TePipes'
  BY <1>6 DEF Complete, TePipes
<1>7. CASE Start
  BY <1>7, TeFreed DEF Start, Dropped, TePipes
<1>8. CASE Stop
  BY <1>8, TeFreed DEF Stop, Before, Dropped, TePipes
<1>9. ASSUME NEW a \in Addr, NEW alt \in Alts, NEW opens \in BOOLEAN, Claim(a, alt, opens) PROVE TePipes'
  BY <1>9, TeFreed DEF Claim, Before, CloseInterface, Dropped, Forget, TePipes
<1>10. ASSUME NEW a \in Addr, Release(a) PROVE TePipes'
  BY <1>10, TeFreed DEF Release, Before, CloseInterface, Dropped, Forget, TePipes
<1>11. ASSUME NEW p, NEW q, NEW len, NEW keep, Submits(p, q, len, keep) PROVE TePipes'
  BY <1>11, TeSubmits DEF TePipes
<1>12. ASSUME NEW p, NEW q, NEW len, NEW keep, Allocates(p, q, len, keep) PROVE TePipes'
  BY <1>12 DEF Allocates, Allocate, NewPipe, OnePipe, Idle, TePipes
<1>13. ASSUME NEW p, NEW keep, TakesOver(p, keep) PROVE TePipes'
  BY <1>13, ZenonT(60) DEF TakesOver, TakeOver, NewPipe, OnePipe, PipeType, TePipes
<1>14. CASE GivesUp
  BY <1>14 DEF GivesUp, Before, Return, OnePipe, TePipes
<1>15. CASE WaitEnds
  BY <1>15 DEF WaitEnds, Before, TePipes
<1>16. CASE Relock
  BY <1>16, TeRelock DEF TePipes
<1>17. CASE Resolve
  BY <1>17, TeResolve DEF TePipes
<1>18. ASSUME NEW a \in Addr, Ctrl(a) PROVE TePipes'
  BY <1>18 DEF Ctrl, Before, TePipes
<1>19. CASE CtrlWaitEnds
  BY <1>19 DEF CtrlWaitEnds, Before, Return, TePipes
<1>20. CASE CtrlResolve
  BY <1>20 DEF CtrlResolve, Before, Return, TePipes
<1>21. CASE UNCHANGED vars
  BY <1>21 DEF vars, TePipes
<1> QED BY TeSteps, <1>1, <1>2, <1>3, <1>4, <1>5, <1>6, <1>7, <1>8, <1>9, <1>10, <1>11, <1>12, <1>13, <1>14, <1>15, <1>16, <1>17, <1>18, <1>19, <1>20, <1>21

\* Every step keeps the transfers.
LEMMA TeXfersKept ==
    ASSUME TeInv, TypeOK, [Next]_vars
    PROVE  TeXfers'
<1>1. ASSUME NEW a \in Addr, Configure(a) PROVE TeXfers'
  BY <1>1 DEF Configure, TeXfers, TypeOK
<1>2. ASSUME NEW a \in Addr, EnumerationFails(a) PROVE TeXfers'
  BY <1>2 DEF EnumerationFails, TeXfers, TypeOK
<1>3. ASSUME NEW a \in Addr, Mount(a) PROVE TeXfers'
  BY <1>3 DEF Mount, TeXfers, TypeOK
<1>4. ASSUME NEW a \in Addr, Unmount(a) PROVE TeXfers'
  BY <1>4 DEF Unmount, Forget, TeXfers, TypeOK
<1>5. ASSUME NEW x \in events, Deliver(x) PROVE TeXfers'
  BY <1>5 DEF Deliver, XferCb, CtrlCb, NewPipe, TeXfers, TypeOK
<1>6. ASSUME NEW x \in live, Complete(x) PROVE TeXfers'
  BY <1>6 DEF Complete, TeXfers, TypeOK
<1>7. CASE Start
  BY <1>7 DEF Start, Dropped, TeXfers, TypeOK
<1>8. CASE Stop
  BY <1>8 DEF Stop, Before, Dropped, TeXfers, TypeOK
<1>9. ASSUME NEW a \in Addr, NEW alt \in Alts, NEW opens \in BOOLEAN, Claim(a, alt, opens) PROVE TeXfers'
  BY <1>9 DEF Claim, Before, CloseInterface, Dropped, Forget, TeXfers, TypeOK
<1>10. ASSUME NEW a \in Addr, Release(a) PROVE TeXfers'
  BY <1>10 DEF Release, Before, CloseInterface, Dropped, Forget, TeXfers, TypeOK
<1>11. ASSUME NEW p, NEW q, NEW len, NEW keep, Submits(p, q, len, keep) PROVE TeXfers'
  <2>1. [pipe |-> p, gen |-> Bump(q.gen), len |-> len] \in Transfer
    <3>1. q \in PipeType /\ Bump(q.gen) \in Gens /\ p \in Pipes
      BY <1>11, TeBump DEF Submits, Idle, PipeType
    <3>2. len \in 0 .. MaxSize
      BY <1>11, <3>1, TuhAssumption DEF Submits, PipeType
    <3> QED BY <3>1, <3>2 DEF Transfer
  <2> QED BY <1>11, <2>1 DEF Submits, SubmitOn, OnePipe, TeXfers, TypeOK
<1>12. ASSUME NEW p, NEW q, NEW len, NEW keep, Allocates(p, q, len, keep) PROVE TeXfers'
  BY <1>12 DEF Allocates, Allocate, NewPipe, OnePipe, TeXfers, TypeOK
<1>13. ASSUME NEW p, NEW keep, TakesOver(p, keep) PROVE TeXfers'
  BY <1>13 DEF TakesOver, TakeOver, NewPipe, OnePipe, TeXfers, TypeOK
<1>14. CASE GivesUp
  BY <1>14 DEF GivesUp, Before, Return, OnePipe, TeXfers, TypeOK
<1>15. CASE WaitEnds
  BY <1>15 DEF WaitEnds, Before, TeXfers, TypeOK
<1>16. CASE Relock
  BY <1>16 DEF Relock, Before, NewPipe, Return, TeXfers, TypeOK
<1>17. CASE Resolve
  BY <1>17 DEF Resolve, Before, NewPipe, Return, TeXfers, TypeOK
<1>18. ASSUME NEW a \in Addr, Ctrl(a) PROVE TeXfers'
  BY <1>18, TeBump, TuhAssumption DEF Ctrl, Before, Transfer, TeXfers, TypeOK
<1>19. CASE CtrlWaitEnds
  BY <1>19 DEF CtrlWaitEnds, Before, Return, TeXfers, TypeOK
<1>20. CASE CtrlResolve
  BY <1>20 DEF CtrlResolve, Before, Return, TeXfers, TypeOK
<1>21. CASE UNCHANGED vars
  BY <1>21 DEF vars, TeXfers, TypeOK
<1> QED BY TeSteps, <1>1, <1>2, <1>3, <1>4, <1>5, <1>6, <1>7, <1>8, <1>9, <1>10, <1>11, <1>12, <1>13, <1>14, <1>15, <1>16, <1>17, <1>18, <1>19, <1>20, <1>21

\* Every step keeps the call.
LEMMA TeCallOKKept ==
    ASSUME TeInv, TeCallOK, [Next]_vars
    PROVE  TeCallOK'
<1>1. ASSUME NEW a \in Addr, Configure(a) PROVE TeCallOK'
  BY <1>1 DEF Configure, TeCallOK
<1>2. ASSUME NEW a \in Addr, EnumerationFails(a) PROVE TeCallOK'
  BY <1>2 DEF EnumerationFails, TeCallOK
<1>3. ASSUME NEW a \in Addr, Mount(a) PROVE TeCallOK'
  BY <1>3 DEF Mount, TeCallOK
<1>4. ASSUME NEW a \in Addr, Unmount(a) PROVE TeCallOK'
  BY <1>4 DEF Unmount, Forget, TeCallOK
<1>5. ASSUME NEW x \in events, Deliver(x) PROVE TeCallOK'
  BY <1>5 DEF Deliver, XferCb, CtrlCb, NewPipe, TeCallOK
<1>6. ASSUME NEW x \in live, Complete(x) PROVE TeCallOK'
  BY <1>6 DEF Complete, TeCallOK
<1>7. CASE Start
  BY <1>7 DEF Start, Dropped, TeCallOK
<1>8. CASE Stop
  BY <1>8 DEF Stop, Before, Dropped, TeCallOK
<1>9. ASSUME NEW a \in Addr, NEW alt \in Alts, NEW opens \in BOOLEAN, Claim(a, alt, opens) PROVE TeCallOK'
  BY <1>9 DEF Claim, Before, CloseInterface, Dropped, Forget, TeCallOK
<1>10. ASSUME NEW a \in Addr, Release(a) PROVE TeCallOK'
  BY <1>10 DEF Release, Before, CloseInterface, Dropped, Forget, TeCallOK
<1>11. ASSUME NEW p, NEW q, NEW len, NEW keep, Submits(p, q, len, keep) PROVE TeCallOK'
  <2>1. p \in Pipes /\ keep \in BOOLEAN
    BY <1>11 DEF Submits, Idle
  <2>2. call' \in {NoCall, [NoCall EXCEPT !.pc = "wait", !.pipe = p, !.keep = keep]}
    BY <1>11 DEF Submits, SubmitOn, Return
  <2> QED BY <2>1, <2>2, TeCalls DEF TeCallOK
<1>12. ASSUME NEW p, NEW q, NEW len, NEW keep, Allocates(p, q, len, keep) PROVE TeCallOK'
  BY <1>12 DEF Allocates, Allocate, NewPipe, OnePipe, Idle, PipeType, CallType, TeCallOK
<1>13. ASSUME NEW p, NEW keep, TakesOver(p, keep) PROVE TeCallOK'
  BY <1>13, TeCalls DEF TakesOver, TakeOver, NewPipe, OnePipe, TeCallOK
<1>14. CASE GivesUp
  BY <1>14, TeCalls DEF GivesUp, Before, Return, OnePipe, TeCallOK
<1>15. CASE WaitEnds
  BY <1>15, TeCalls DEF WaitEnds, Before, TeCallOK
<1>16. CASE Relock
  BY <1>16, TeCalls DEF Relock, Before, NewPipe, Return, TeCallOK
<1>17. CASE Resolve
  BY <1>17, TeCalls DEF Resolve, Before, NewPipe, Return, TeCallOK
<1>18. ASSUME NEW a \in Addr, Ctrl(a) PROVE TeCallOK'
  BY <1>18, TeCalls DEF Ctrl, Before, TeCallOK
<1>19. CASE CtrlWaitEnds
  BY <1>19, TeCalls DEF CtrlWaitEnds, Before, Return, TeCallOK
<1>20. CASE CtrlResolve
  BY <1>20, TeCalls DEF CtrlResolve, Before, Return, TeCallOK
<1>21. CASE UNCHANGED vars
  BY <1>21 DEF vars, TeCallOK
<1> QED BY TeSteps, <1>1, <1>2, <1>3, <1>4, <1>5, <1>6, <1>7, <1>8, <1>9, <1>10, <1>11, <1>12, <1>13, <1>14, <1>15, <1>16, <1>17, <1>18, <1>19, <1>20, <1>21

-----------------------------------------------------------------------------

\* Every step keeps which devices are listed, and that a stopped host has nothing.
LEMMA TeListedKept ==
    ASSUME TeInv, [Next]_vars
    PROVE  TeListed'
<1>1. ASSUME NEW a \in Addr, Configure(a) PROVE TeListed'
  <2>1. bus[a] = "off" /\ bus' = [bus EXCEPT ![a] = "configured"] /\ running /\ running'
    BY <1>1 DEF Configure
  <2>2. ~Mounted(a)
    BY <2>1 DEF TeInv, TeListed
  <2>3. ASSUME NEW b \in Addr, Mounted(b)' PROVE b # a /\ Mounted(b)
    <3>1. PICK r \in Rows : row'[r].daddr = b /\ row'[r].in_use
      BY <2>3 DEF Mounted, RowsOf
    <3>2. CASE row' = row
      BY <2>2, <3>1, <3>2 DEF Mounted, RowsOf
    <3>3. CASE \E c \in Reserved(a) :
              row' = [row EXCEPT ![c] = [daddr |-> a, in_use |-> row[c].daddr = a /\ row[c].in_use]]
      <4>1. PICK c \in Reserved(a) :
                row' = [row EXCEPT ![c] = [daddr |-> a, in_use |-> row[c].daddr = a /\ row[c].in_use]]
        BY <3>3
      <4>2. c \in Rows /\ row \in [Rows -> [daddr : Addr \cup {None}, in_use : BOOLEAN]]
        BY DEF Reserved, RowsOf, TeInv, TypeOK
      <4>3. row'[r] = IF r = c THEN [daddr |-> a, in_use |-> row[c].daddr = a /\ row[c].in_use] ELSE row[r]
        BY <4>1, <4>2
      <4>4. r # c
        <5> SUFFICES ASSUME r = c PROVE FALSE
          OBVIOUS
        <5>1. row[r].daddr = a /\ row[r].in_use
          <6> DEFINE inUse == row[c].daddr = a /\ row[c].in_use
          <6>1. row'[r] = [daddr |-> a, in_use |-> inUse]
            BY <4>3
          <6> HIDE DEF inUse
          <6>2. inUse
            BY <3>1, <6>1
          <6> QED BY <6>2 DEF inUse
        <5> QED BY <2>2, <5>1 DEF Mounted, RowsOf
      <4> QED BY <2>2, <3>1, <4>3, <4>4 DEF Mounted, RowsOf
    <3> QED BY <1>1, <3>2, <3>3 DEF Configure
  <2> QED BY <1>1, <2>1, <2>3 DEF TeInv, TypeOK, TeListed, Configure
<1>2. ASSUME NEW a \in Addr, EnumerationFails(a) PROVE TeListed'
  BY <1>2, TeNone DEF EnumerationFails, TeInv, TypeOK, TeListed, Mounted, RowsOf
<1>3. ASSUME NEW a \in Addr, Mount(a) PROVE TeListed'
  BY <1>3, TeNone DEF Mount, FreeRow, TeInv, TypeOK, TeListed, Mounted, RowsOf
<1>4. ASSUME NEW a \in Addr, Unmount(a) PROVE TeListed'
  BY <1>4, TeNone DEF Unmount, Forget, FreeRow, TeInv, TypeOK, TeListed, Mounted, RowsOf
<1>5. ASSUME NEW x \in events, Deliver(x) PROVE TeListed'
  BY <1>5, TeNone DEF Deliver, XferCb, CtrlCb, NewPipe, TeInv, TypeOK, TeListed, Mounted, RowsOf
<1>6. ASSUME NEW x \in live, Complete(x) PROVE TeListed'
  BY <1>6, TeNone DEF Complete, TeInv, TypeOK, TeListed, Mounted, RowsOf
<1>7. CASE Start
  BY <1>7, TeNone DEF Start, Dropped, FreeRow, TeInv, TypeOK, TeListed, Mounted, RowsOf
<1>8. CASE Stop
  BY <1>8, TeNone DEF Stop, Before, Dropped, FreeRow, NoCall, TeInv, TypeOK, TeListed, Mounted, RowsOf
<1>9. ASSUME NEW a \in Addr, NEW alt \in Alts, NEW opens \in BOOLEAN, Claim(a, alt, opens) PROVE TeListed'
  BY <1>9, TeNone DEF Claim, Before, CloseInterface, Dropped, Forget, TeInv, TypeOK, TeListed, Mounted, RowsOf
<1>10. ASSUME NEW a \in Addr, Release(a) PROVE TeListed'
  BY <1>10, TeNone DEF Release, Before, CloseInterface, Dropped, Forget, TeInv, TypeOK, TeListed, Mounted, RowsOf
<1>11. ASSUME NEW p, NEW q, NEW len, NEW keep, Submits(p, q, len, keep) PROVE TeListed'
  BY <1>11, TeNone, TeSubmits DEF Submits, PipeType, Idle, OnePipe, TeInv, TypeOK, TeListed, Mounted, RowsOf
<1>12. ASSUME NEW p, NEW q, NEW len, NEW keep, Allocates(p, q, len, keep) PROVE TeListed'
  BY <1>12, TeNone DEF Allocates, Allocate, NewPipe, OnePipe, Idle, TeInv, TypeOK, TeListed, Mounted, RowsOf
<1>13. ASSUME NEW p, NEW keep, TakesOver(p, keep) PROVE TeListed'
  BY <1>13, TeNone DEF TakesOver, TakeOver, NewPipe, OnePipe, TeInv, TypeOK, TeListed, Mounted, RowsOf
<1>14. CASE GivesUp
  BY <1>14, TeNone DEF GivesUp, Before, Return, OnePipe, TeInv, TypeOK, TeListed, Mounted, RowsOf
<1>15. CASE WaitEnds
  BY <1>15, TeNone DEF WaitEnds, Before, TeInv, TypeOK, TeListed, Mounted, RowsOf
<1>16. CASE Relock
  BY <1>16, TeNone DEF Relock, Before, NewPipe, Return, TeInv, TypeOK, TeListed, Mounted, RowsOf
<1>17. CASE Resolve
  BY <1>17, TeNone DEF Resolve, Before, NewPipe, Return, TeInv, TypeOK, TeListed, Mounted, RowsOf
<1>18. ASSUME NEW a \in Addr, Ctrl(a) PROVE TeListed'
  BY <1>18, TeNone DEF Ctrl, Before, TeInv, TypeOK, TeListed, Mounted, RowsOf
<1>19. CASE CtrlWaitEnds
  BY <1>19, TeNone DEF CtrlWaitEnds, Before, Return, TeInv, TypeOK, TeListed, Mounted, RowsOf
<1>20. CASE CtrlResolve
  BY <1>20, TeNone DEF CtrlResolve, Before, Return, TeInv, TypeOK, TeListed, Mounted, RowsOf
<1>21. CASE UNCHANGED vars
  BY <1>21, TeNone DEF vars, TeInv, TypeOK, TeListed, Mounted, RowsOf
<1> QED BY TeSteps, <1>1, <1>2, <1>3, <1>4, <1>5, <1>6, <1>7, <1>8, <1>9, <1>10, <1>11, <1>12, <1>13, <1>14, <1>15, <1>16, <1>17, <1>18, <1>19, <1>20, <1>21

\* Every step keeps that a pipe in use is of a claimed interface of a listed device.
LEMMA TeClaimedKept ==
    ASSUME TeInv, [Next]_vars
    PROVE  PipesAreClaimed'
<1>1. ASSUME NEW a \in Addr, Configure(a) PROVE PipesAreClaimed'
  BY <1>1, TeNone DEF Configure, Reserved, TeInv, TypeOK, PipesAreClaimed, Mounted, RowsOf, PipesOf
<1>2. ASSUME NEW a \in Addr, EnumerationFails(a) PROVE PipesAreClaimed'
  BY <1>2, TeNone DEF EnumerationFails, TeInv, TypeOK, PipesAreClaimed, Mounted, RowsOf, PipesOf
<1>3. ASSUME NEW a \in Addr, Mount(a) PROVE PipesAreClaimed'
  BY <1>3, TeNone DEF Mount, FreeRow, TeListed, TeInv, TypeOK, PipesAreClaimed, Mounted, RowsOf, PipesOf
<1>4. ASSUME NEW a \in Addr, Unmount(a) PROVE PipesAreClaimed'
  BY <1>4, TeNone, TeOrphan, TeFreed DEF Unmount, Forget, FreeRow, TeInv, TypeOK, PipesAreClaimed, Mounted, RowsOf, PipesOf
<1>5. ASSUME NEW x \in events, Deliver(x) PROVE PipesAreClaimed'
  BY <1>5, TeNone DEF Deliver, XferCb, CtrlCb, NewPipe, PipeType, TeInv, TypeOK, PipesAreClaimed, Mounted, RowsOf, PipesOf
<1>6. ASSUME NEW x \in live, Complete(x) PROVE PipesAreClaimed'
  BY <1>6, TeNone DEF Complete, TeInv, TypeOK, PipesAreClaimed, Mounted, RowsOf, PipesOf
<1>7. CASE Start
  BY <1>7, TeNone, TeFreed DEF Start, Dropped, FreeRow, TeInv, TypeOK, PipesAreClaimed, Mounted, RowsOf, PipesOf
<1>8. CASE Stop
  BY <1>8, TeNone, TeFreed DEF Stop, Before, Dropped, FreeRow, NoCall, TeInv, TypeOK, PipesAreClaimed, Mounted, RowsOf, PipesOf
<1>9. ASSUME NEW a \in Addr, NEW alt \in Alts, NEW opens \in BOOLEAN, Claim(a, alt, opens) PROVE PipesAreClaimed'
  BY <1>9, TeNone, TeFreed DEF Claim, Before, CloseInterface, Dropped, Forget, TeCall, TeInv, TypeOK, PipesAreClaimed, Mounted, RowsOf, PipesOf
<1>10. ASSUME NEW a \in Addr, Release(a) PROVE PipesAreClaimed'
  BY <1>10, TeNone, TeFreed DEF Release, Before, CloseInterface, Dropped, Forget, TeCall, TeInv, TypeOK, PipesAreClaimed, Mounted, RowsOf, PipesOf
<1>11. ASSUME NEW p, NEW q, NEW len, NEW keep, Submits(p, q, len, keep) PROVE PipesAreClaimed'
  BY <1>11, TeNone, TeSubmits DEF Submits, PipeType, Idle, OnePipe, TeInv, TypeOK, PipesAreClaimed, Mounted, RowsOf, PipesOf
<1>12. ASSUME NEW p, NEW q, NEW len, NEW keep, Allocates(p, q, len, keep) PROVE PipesAreClaimed'
  BY <1>12, TeNone DEF Allocates, Allocate, NewPipe, OnePipe, Idle, TeInv, TypeOK, PipesAreClaimed, Mounted, RowsOf, PipesOf
<1>13. ASSUME NEW p, NEW keep, TakesOver(p, keep) PROVE PipesAreClaimed'
  BY <1>13, TeNone DEF TakesOver, TakeOver, NewPipe, OnePipe, PipeType, TeInv, TypeOK, PipesAreClaimed, Mounted, RowsOf, PipesOf
<1>14. CASE GivesUp
  BY <1>14, TeNone DEF GivesUp, Before, Return, OnePipe, TeInv, TypeOK, PipesAreClaimed, Mounted, RowsOf, PipesOf
<1>15. CASE WaitEnds
  BY <1>15, TeNone DEF WaitEnds, Before, TeInv, TypeOK, PipesAreClaimed, Mounted, RowsOf, PipesOf
<1>16. CASE Relock
  BY <1>16, TeNone, TeRelock DEF Relock, Before, PipeType, TeInv, TypeOK, PipesAreClaimed, Mounted, RowsOf, PipesOf
<1>17. CASE Resolve
  BY <1>17, TeNone, TeResolve DEF Resolve, Before, PipeType, TeInv, TypeOK, PipesAreClaimed, Mounted, RowsOf, PipesOf
<1>18. ASSUME NEW a \in Addr, Ctrl(a) PROVE PipesAreClaimed'
  BY <1>18, TeNone DEF Ctrl, Before, TeInv, TypeOK, PipesAreClaimed, Mounted, RowsOf, PipesOf
<1>19. CASE CtrlWaitEnds
  BY <1>19, TeNone DEF CtrlWaitEnds, Before, Return, TeInv, TypeOK, PipesAreClaimed, Mounted, RowsOf, PipesOf
<1>20. CASE CtrlResolve
  BY <1>20, TeNone DEF CtrlResolve, Before, Return, TeInv, TypeOK, PipesAreClaimed, Mounted, RowsOf, PipesOf
<1>21. CASE UNCHANGED vars
  BY <1>21, TeNone DEF vars, TeInv, TypeOK, PipesAreClaimed, Mounted, RowsOf, PipesOf
<1> QED BY TeSteps, <1>1, <1>2, <1>3, <1>4, <1>5, <1>6, <1>7, <1>8, <1>9, <1>10, <1>11, <1>12, <1>13, <1>14, <1>15, <1>16, <1>17, <1>18, <1>19, <1>20, <1>21

\* Every step keeps what the call and its pipe know of each other.
LEMMA TeCallKept ==
    ASSUME TeInv, [Next]_vars
    PROVE  TeCall'
<1>1. ASSUME NEW a \in Addr, Configure(a) PROVE TeCall'
  BY <1>1, TeNone DEF Configure, TeInv, TypeOK, TeCall
<1>2. ASSUME NEW a \in Addr, EnumerationFails(a) PROVE TeCall'
  BY <1>2, TeNone DEF EnumerationFails, TeInv, TypeOK, TeCall
<1>3. ASSUME NEW a \in Addr, Mount(a) PROVE TeCall'
  BY <1>3, TeNone DEF Mount, TeInv, TypeOK, TeCall
<1>4. ASSUME NEW a \in Addr, Unmount(a) PROVE TeCall'
  BY <1>4, TeNone, TeOrphan, TeFreed DEF Unmount, Forget, TeInv, TypeOK, TeCall
<1>5. ASSUME NEW x \in events, Deliver(x) PROVE TeCall'
  <2>1. call' = call
    BY <1>5 DEF Deliver
  <2>2. CASE pipe' = pipe
    BY <2>1, <2>2 DEF TeInv, TeCall
  <2>3. ASSUME NEW p \in Pipes, NEW r \in PipeType,
               pipe[p].state = "BUSY", pipe[p].in_use, pipe' = [pipe EXCEPT ![p] = r],
               r.state = "DONE", r.in_use, r.daddr = pipe[p].daddr, r.kept = pipe[p].kept,
               r.waiter = pipe[p].waiter, r.dead = pipe[p].dead
        PROVE  TeCall'
    <3>1. pipe'[p] = r /\ \A s \in Pipes : s # p => pipe'[s] = pipe[s]
      BY <2>3 DEF TeInv, TypeOK
    <3> QED BY <2>1, <2>3, <3>1 DEF TeInv, TeCall
  <2> QED BY <1>5, <2>2, <2>3, TeDeliver
<1>6. ASSUME NEW x \in live, Complete(x) PROVE TeCall'
  BY <1>6, TeNone DEF Complete, TeInv, TypeOK, TeCall
<1>7. CASE Start
  BY <1>7, TeNone, TeFreed DEF Start, Dropped, NoCall, TeInv, TypeOK, TeCall
<1>8. CASE Stop
  BY <1>8, TeNone, TeFreed DEF Stop, Before, Dropped, NoCall, TeInv, TypeOK, TeCall
<1>9. ASSUME NEW a \in Addr, NEW alt \in Alts, NEW opens \in BOOLEAN, Claim(a, alt, opens) PROVE TeCall'
  BY <1>9, TeNone, TeFreed DEF Claim, Before, CloseInterface, Dropped, Forget, PipesOf, TeInv, TypeOK, TeCall
<1>10. ASSUME NEW a \in Addr, Release(a) PROVE TeCall'
  BY <1>10, TeNone, TeFreed DEF Release, Before, CloseInterface, Dropped, Forget, PipesOf, TeInv, TypeOK, TeCall
<1>11. ASSUME NEW p, NEW q, NEW len, NEW keep, Submits(p, q, len, keep) PROVE TeCall'
  BY <1>11, TeNone, TeSubmits DEF Submits, PipeType, Idle, OnePipe, TeInv, TypeOK, TeCall
<1>12. ASSUME NEW p, NEW q, NEW len, NEW keep, Allocates(p, q, len, keep) PROVE TeCall'
  BY <1>12, TeNone DEF Allocates, Allocate, NewPipe, OnePipe, Idle, TeInv, TypeOK, TeCall
<1>13. ASSUME NEW p, NEW keep, TakesOver(p, keep) PROVE TeCall'
  BY <1>13, TeNone DEF TakesOver, TakeOver, NewPipe, OnePipe, PipeType, NoCall, TeInv, TypeOK, TeCall
<1>14. CASE GivesUp
  BY <1>14, TeNone DEF GivesUp, Before, Return, OnePipe, NoCall, TeInv, TypeOK, TeCall
<1>15. CASE WaitEnds
  BY <1>15, TeNone DEF WaitEnds, Before, TeInv, TypeOK, TeCall
<1>16. CASE Relock
  <2> DEFINE p == call.pipe
             q == pipe[p]
  <2>1. PICK r \in PipeType :
            /\ pipe' = [pipe EXCEPT ![p] = r] /\ p \in Pipes
            /\ ~r.waiter /\ ~r.dead /\ ~r.kept /\ (r.in_use => r.daddr = q.daddr /\ q.in_use)
            /\ \/ call'.pc = "idle" /\ call'.pipe = None
               \/ call'.pc = "drain" /\ call'.pipe = p /\ r.state = q.state
    BY <1>16, TeRelock DEF PipeType
  <2>2. \A s \in Pipes : s # p => pipe'[s] = pipe[s] /\ ~pipe[s].waiter
    BY <2>1 DEF TeInv, TypeOK, TeCall
  <2>3. pipe'[p] = r
    BY <2>1 DEF TeInv, TypeOK
  <2>4. q.state # "IDLE"
    BY <1>16 DEF Relock, Before, TeInv, WaiterHasPipe
  <2> QED BY <2>1, <2>2, <2>3, <2>4, TeNone DEF TeInv, TeCall
<1>17. CASE Resolve
  <2> DEFINE p == call.pipe
             q == pipe[p]
  <2>1. PICK r \in PipeType :
            /\ pipe' = [pipe EXCEPT ![p] = r] /\ p \in Pipes /\ q.kept = FALSE
            /\ r.waiter = q.waiter /\ r.dead = q.dead /\ r.in_use = q.in_use /\ r.daddr = q.daddr
            /\ r.kept => r.state = q.state /\ q.state # "DONE"
            /\ call'.pc = "idle" /\ call'.pipe = None
    BY <1>17, TeResolve
  <2>2. \A s \in Pipes : s # p => pipe'[s] = pipe[s] /\ ~pipe[s].waiter
    BY <2>1 DEF TeInv, TypeOK, TeCall
  <2>3. pipe'[p] = r
    BY <2>1 DEF TeInv, TypeOK
  <2> QED BY <1>17, <2>1, <2>2, <2>3, TeNone DEF TeInv, TeCall, Resolve, Before
<1>18. ASSUME NEW a \in Addr, Ctrl(a) PROVE TeCall'
  BY <1>18, TeNone DEF Ctrl, Before, NoCall, TeInv, TypeOK, TeCall
<1>19. CASE CtrlWaitEnds
  BY <1>19, TeNone DEF CtrlWaitEnds, Before, Return, NoCall, TeInv, TypeOK, TeCall
<1>20. CASE CtrlResolve
  BY <1>20, TeNone DEF CtrlResolve, Before, Return, NoCall, TeInv, TypeOK, TeCall
<1>21. CASE UNCHANGED vars
  BY <1>21, TeNone DEF vars, TeInv, TypeOK, TeCall
<1> QED BY TeSteps, <1>1, <1>2, <1>3, <1>4, <1>5, <1>6, <1>7, <1>8, <1>9, <1>10, <1>11, <1>12, <1>13, <1>14, <1>15, <1>16, <1>17, <1>18, <1>19, <1>20, <1>21

\* Every step keeps the pipe a call waits on.
LEMMA TeWaiterKept ==
    ASSUME TeInv, [Next]_vars
    PROVE  WaiterHasPipe'
<1>1. ASSUME NEW a \in Addr, Configure(a) PROVE WaiterHasPipe'
  BY <1>1 DEF Configure, TeInv, TypeOK, WaiterHasPipe
<1>2. ASSUME NEW a \in Addr, EnumerationFails(a) PROVE WaiterHasPipe'
  BY <1>2 DEF EnumerationFails, TeInv, TypeOK, WaiterHasPipe
<1>3. ASSUME NEW a \in Addr, Mount(a) PROVE WaiterHasPipe'
  BY <1>3 DEF Mount, TeInv, TypeOK, WaiterHasPipe
<1>4. ASSUME NEW a \in Addr, Unmount(a) PROVE WaiterHasPipe'
  BY <1>4, TeOrphan, TeFreed DEF Unmount, Forget, TeCall, TeInv, TypeOK, WaiterHasPipe
<1>5. ASSUME NEW x \in events, Deliver(x) PROVE WaiterHasPipe'
  BY <1>5 DEF Deliver, XferCb, CtrlCb, NewPipe, PipeType, TeCall, TeInv, TypeOK, WaiterHasPipe
<1>6. ASSUME NEW x \in live, Complete(x) PROVE WaiterHasPipe'
  BY <1>6 DEF Complete, TeInv, TypeOK, WaiterHasPipe
<1>7. CASE Start
  BY <1>7 DEF Start, Dropped, TeInv, TypeOK, WaiterHasPipe
<1>8. CASE Stop
  BY <1>8 DEF Stop, Before, Dropped, TeInv, TypeOK, WaiterHasPipe
<1>9. ASSUME NEW a \in Addr, NEW alt \in Alts, NEW opens \in BOOLEAN, Claim(a, alt, opens) PROVE WaiterHasPipe'
  BY <1>9 DEF Claim, Before, CloseInterface, Dropped, Forget, TeInv, TypeOK, WaiterHasPipe
<1>10. ASSUME NEW a \in Addr, Release(a) PROVE WaiterHasPipe'
  BY <1>10 DEF Release, Before, CloseInterface, Dropped, Forget, TeInv, TypeOK, WaiterHasPipe
<1>11. ASSUME NEW p, NEW q, NEW len, NEW keep, Submits(p, q, len, keep) PROVE WaiterHasPipe'
  BY <1>11, TeSubmits DEF Submits, PipeType, Idle, OnePipe, TeInv, TypeOK, WaiterHasPipe
<1>12. ASSUME NEW p, NEW q, NEW len, NEW keep, Allocates(p, q, len, keep) PROVE WaiterHasPipe'
  BY <1>12 DEF Allocates, Allocate, NewPipe, OnePipe, Idle, TeInv, TypeOK, WaiterHasPipe
<1>13. ASSUME NEW p, NEW keep, TakesOver(p, keep) PROVE WaiterHasPipe'
  BY <1>13 DEF TakesOver, TakeOver, NewPipe, OnePipe, PipeType, NoCall, TeCall, TeInv, TypeOK, WaiterHasPipe
<1>14. CASE GivesUp
  BY <1>14 DEF GivesUp, Before, Return, OnePipe, NoCall, TeInv, TypeOK, WaiterHasPipe
<1>15. CASE WaitEnds
  BY <1>15 DEF WaitEnds, Before, TeInv, TypeOK, WaiterHasPipe
<1>16. CASE Relock
  BY <1>16, TeRelock DEF Relock, Before, PipeType, TeInv, TypeOK, WaiterHasPipe
<1>17. CASE Resolve
  BY <1>17, TeResolve DEF Resolve, Before, PipeType, TeInv, TypeOK, WaiterHasPipe
<1>18. ASSUME NEW a \in Addr, Ctrl(a) PROVE WaiterHasPipe'
  BY <1>18 DEF Ctrl, Before, NoCall, TeInv, TypeOK, WaiterHasPipe
<1>19. CASE CtrlWaitEnds
  BY <1>19 DEF CtrlWaitEnds, Before, Return, NoCall, TeInv, TypeOK, WaiterHasPipe
<1>20. CASE CtrlResolve
  BY <1>20 DEF CtrlResolve, Before, Return, NoCall, TeInv, TypeOK, WaiterHasPipe
<1>21. CASE UNCHANGED vars
  BY <1>21 DEF vars, TeInv, TypeOK, WaiterHasPipe
<1> QED BY TeSteps, <1>1, <1>2, <1>3, <1>4, <1>5, <1>6, <1>7, <1>8, <1>9, <1>10, <1>11, <1>12, <1>13, <1>14, <1>15, <1>16, <1>17, <1>18, <1>19, <1>20, <1>21

\* Every step keeps the buffer of each transfer the controller has.
LEMMA TeBufferKept ==
    ASSUME TeInv, [Next]_vars
    PROVE  BufferIsHeld'
<1>1. ASSUME NEW a \in Addr, Configure(a) PROVE BufferIsHeld'
  BY <1>1, TeNone DEF Configure, TeInv, TypeOK, BufferIsHeld
<1>2. ASSUME NEW a \in Addr, EnumerationFails(a) PROVE BufferIsHeld'
  BY <1>2, TeNone DEF EnumerationFails, TeInv, TypeOK, BufferIsHeld
<1>3. ASSUME NEW a \in Addr, Mount(a) PROVE BufferIsHeld'
  BY <1>3, TeNone DEF Mount, TeInv, TypeOK, BufferIsHeld
<1>4. ASSUME NEW a \in Addr, Unmount(a) PROVE BufferIsHeld'
  BY <1>4, TeNone, TeOrphan, TeFreed DEF Unmount, Forget, Of, PipesOf, TeInv, TypeOK, BufferIsHeld
<1>5. ASSUME NEW x \in events, Deliver(x) PROVE BufferIsHeld'
  BY <1>5, TeNone DEF Deliver, XferCb, CtrlCb, NewPipe, PipeType, TeApart, Accepted, Transfer, TeInv, TypeOK, BufferIsHeld
<1>6. ASSUME NEW x \in live, Complete(x) PROVE BufferIsHeld'
  BY <1>6, TeNone DEF Complete, TeInv, TypeOK, BufferIsHeld
<1>7. CASE Start
  BY <1>7, TeNone, TeFreed DEF Start, Dropped, TeListed, TeInv, TypeOK, BufferIsHeld
<1>8. CASE Stop
  BY <1>8, TeNone DEF Stop, Before, Dropped, TeInv, TypeOK, BufferIsHeld
<1>9. ASSUME NEW a \in Addr, NEW alt \in Alts, NEW opens \in BOOLEAN, Claim(a, alt, opens) PROVE BufferIsHeld'
  BY <1>9, TeNone, TeFreed DEF Claim, Before, CloseInterface, Dropped, Forget, PipesOf, Of, TeInv, TypeOK, BufferIsHeld
<1>10. ASSUME NEW a \in Addr, Release(a) PROVE BufferIsHeld'
  BY <1>10, TeNone, TeFreed DEF Release, Before, CloseInterface, Dropped, Forget, PipesOf, Of, TeInv, TypeOK, BufferIsHeld
<1>11. ASSUME NEW p, NEW q, NEW len, NEW keep, Submits(p, q, len, keep) PROVE BufferIsHeld'
  BY <1>11, TeNone, TeSubmits DEF Submits, PipeType, Idle, OnePipe, TeInv, TypeOK, BufferIsHeld
<1>12. ASSUME NEW p, NEW q, NEW len, NEW keep, Allocates(p, q, len, keep) PROVE BufferIsHeld'
  BY <1>12, TeNone DEF Allocates, Allocate, NewPipe, OnePipe, Idle, TeInv, TypeOK, BufferIsHeld
<1>13. ASSUME NEW p, NEW keep, TakesOver(p, keep) PROVE BufferIsHeld'
  BY <1>13, TeNone DEF TakesOver, TakeOver, NewPipe, OnePipe, PipeType, TeInv, TypeOK, BufferIsHeld
<1>14. CASE GivesUp
  BY <1>14, TeNone DEF GivesUp, Before, Return, OnePipe, TeInv, TypeOK, BufferIsHeld
<1>15. CASE WaitEnds
  BY <1>15, TeNone DEF WaitEnds, Before, TeInv, TypeOK, BufferIsHeld
<1>16. CASE Relock
  <2> DEFINE p == call.pipe
             q == pipe[p]
  <2>1. PICK r \in PipeType :
            /\ pipe' = [pipe EXCEPT ![p] = r] /\ p \in Pipes
            /\ \/ q.dead
               \/ /\ r.in_use = q.in_use /\ r.size = q.size /\ r.gen = q.gen
                  /\ r.state = q.state \/ q.state = "DONE"
    BY <1>16, TeRelock
  <2>2. live' = live /\ pipe'[p] = r /\ \A s \in Pipes : s # p => pipe'[s] = pipe[s]
    BY <1>16, <2>1 DEF TeInv, TypeOK, Relock
  <2>3. q.dead => q.state # "BUSY"
    BY <2>1 DEF TeInv, TeCall
  <2> QED BY <2>1, <2>2, <2>3 DEF TeInv, BufferIsHeld
<1>17. CASE Resolve
  BY <1>17, TeNone, TeResolve DEF Resolve, Before, PipeType, TeInv, TypeOK, BufferIsHeld
<1>18. ASSUME NEW a \in Addr, Ctrl(a) PROVE BufferIsHeld'
  BY <1>18, TeNone DEF Ctrl, Before, TeInv, TypeOK, BufferIsHeld
<1>19. CASE CtrlWaitEnds
  BY <1>19, TeNone DEF CtrlWaitEnds, Before, Return, TeInv, TypeOK, BufferIsHeld
<1>20. CASE CtrlResolve
  BY <1>20, TeNone DEF CtrlResolve, Before, Return, TeInv, TypeOK, BufferIsHeld
<1>21. CASE UNCHANGED vars
  BY <1>21, TeNone DEF vars, TeInv, TypeOK, BufferIsHeld
<1> QED BY TeSteps, <1>1, <1>2, <1>3, <1>4, <1>5, <1>6, <1>7, <1>8, <1>9, <1>10, <1>11, <1>12, <1>13, <1>14, <1>15, <1>16, <1>17, <1>18, <1>19, <1>20, <1>21

\* Every step keeps live transfers and queued completions apart.
LEMMA TeApartKept ==
    ASSUME TeInv, [Next]_vars
    PROVE  TeApart'
<1>1. ASSUME NEW a \in Addr, Configure(a) PROVE TeApart'
  BY <1>1, TeNone DEF Configure, TeInv, TypeOK, TeApart
<1>2. ASSUME NEW a \in Addr, EnumerationFails(a) PROVE TeApart'
  BY <1>2, TeNone DEF EnumerationFails, TeInv, TypeOK, TeApart
<1>3. ASSUME NEW a \in Addr, Mount(a) PROVE TeApart'
  BY <1>3, TeNone DEF Mount, TeInv, TypeOK, TeApart
<1>4. ASSUME NEW a \in Addr, Unmount(a) PROVE TeApart'
  BY <1>4, TeNone DEF Unmount, Forget, TeInv, TypeOK, TeApart
<1>5. ASSUME NEW x \in events, Deliver(x) PROVE TeApart'
  BY <1>5, TeNone DEF Deliver, XferCb, CtrlCb, NewPipe, TeInv, TypeOK, TeApart
<1>6. ASSUME NEW x \in live, Complete(x) PROVE TeApart'
  BY <1>6, TeNone DEF Complete, TeInv, TypeOK, TeApart
<1>7. CASE Start
  BY <1>7, TeNone DEF Start, Dropped, TeInv, TypeOK, TeApart
<1>8. CASE Stop
  BY <1>8, TeNone DEF Stop, Before, Dropped, TeInv, TypeOK, TeApart
<1>9. ASSUME NEW a \in Addr, NEW alt \in Alts, NEW opens \in BOOLEAN, Claim(a, alt, opens) PROVE TeApart'
  BY <1>9, TeNone DEF Claim, Before, CloseInterface, Dropped, Forget, TeInv, TypeOK, TeApart
<1>10. ASSUME NEW a \in Addr, Release(a) PROVE TeApart'
  BY <1>10, TeNone DEF Release, Before, CloseInterface, Dropped, Forget, TeInv, TypeOK, TeApart
<1>11. ASSUME NEW p, NEW q, NEW len, NEW keep, Submits(p, q, len, keep) PROVE TeApart'
  BY <1>11, TeNone, TeSubmits DEF Submits, PipeType, Idle, OnePipe, TeInv, TypeOK, TeApart
<1>12. ASSUME NEW p, NEW q, NEW len, NEW keep, Allocates(p, q, len, keep) PROVE TeApart'
  BY <1>12, TeNone DEF Allocates, Allocate, NewPipe, OnePipe, Idle, TeInv, TypeOK, TeApart
<1>13. ASSUME NEW p, NEW keep, TakesOver(p, keep) PROVE TeApart'
  BY <1>13, TeNone DEF TakesOver, TakeOver, NewPipe, OnePipe, TeInv, TypeOK, TeApart
<1>14. CASE GivesUp
  BY <1>14, TeNone DEF GivesUp, Before, Return, OnePipe, TeInv, TypeOK, TeApart
<1>15. CASE WaitEnds
  BY <1>15, TeNone DEF WaitEnds, Before, TeInv, TypeOK, TeApart
<1>16. CASE Relock
  BY <1>16, TeNone DEF Relock, Before, NewPipe, Return, TeInv, TypeOK, TeApart
<1>17. CASE Resolve
  BY <1>17, TeNone DEF Resolve, Before, NewPipe, Return, TeInv, TypeOK, TeApart
<1>18. ASSUME NEW a \in Addr, Ctrl(a) PROVE TeApart'
  BY <1>18, TeNone DEF Ctrl, Before, TeInv, TypeOK, TeApart
<1>19. CASE CtrlWaitEnds
  BY <1>19, TeNone DEF CtrlWaitEnds, Before, Return, TeInv, TypeOK, TeApart
<1>20. CASE CtrlResolve
  BY <1>20, TeNone DEF CtrlResolve, Before, Return, TeInv, TypeOK, TeApart
<1>21. CASE UNCHANGED vars
  BY <1>21, TeNone DEF vars, TeInv, TypeOK, TeApart
<1> QED BY TeSteps, <1>1, <1>2, <1>3, <1>4, <1>5, <1>6, <1>7, <1>8, <1>9, <1>10, <1>11, <1>12, <1>13, <1>14, <1>15, <1>16, <1>17, <1>18, <1>19, <1>20, <1>21

\* Every step keeps the control transfer the only one.
LEMMA TeCtrlKept ==
    ASSUME TeInv, [Next]_vars
    PROVE  TeCtrl'
<1>1. ASSUME NEW a \in Addr, Configure(a) PROVE TeCtrl'
  BY <1>1, TeNone DEF Configure, TeInv, TypeOK, TeCtrl
<1>2. ASSUME NEW a \in Addr, EnumerationFails(a) PROVE TeCtrl'
  BY <1>2, TeNone DEF EnumerationFails, TeInv, TypeOK, TeCtrl
<1>3. ASSUME NEW a \in Addr, Mount(a) PROVE TeCtrl'
  BY <1>3, TeNone DEF Mount, TeInv, TypeOK, TeCtrl
<1>4. ASSUME NEW a \in Addr, Unmount(a) PROVE TeCtrl'
  BY <1>4, TeNone DEF Unmount, Forget, TeInv, TypeOK, TeCtrl
<1>5. ASSUME NEW x \in events, Deliver(x) PROVE TeCtrl'
  BY <1>5, TeNone DEF Deliver, XferCb, CtrlCb, NewPipe, TeInv, TypeOK, TeCtrl
<1>6. ASSUME NEW x \in live, Complete(x) PROVE TeCtrl'
  BY <1>6, TeNone DEF Complete, TeInv, TypeOK, TeCtrl
<1>7. CASE Start
  BY <1>7, TeNone DEF Start, Dropped, TeListed, TeInv, TypeOK, TeCtrl
<1>8. CASE Stop
  BY <1>8, TeNone DEF Stop, Before, Dropped, TeInv, TypeOK, TeCtrl
<1>9. ASSUME NEW a \in Addr, NEW alt \in Alts, NEW opens \in BOOLEAN, Claim(a, alt, opens) PROVE TeCtrl'
  BY <1>9, TeNone DEF Claim, Before, CloseInterface, Dropped, Forget, TeInv, TypeOK, TeCtrl
<1>10. ASSUME NEW a \in Addr, Release(a) PROVE TeCtrl'
  BY <1>10, TeNone DEF Release, Before, CloseInterface, Dropped, Forget, TeInv, TypeOK, TeCtrl
<1>11. ASSUME NEW p, NEW q, NEW len, NEW keep, Submits(p, q, len, keep) PROVE TeCtrl'
  BY <1>11, TeNone, TeSubmits DEF Submits, PipeType, Idle, OnePipe, TeInv, TypeOK, TeCtrl
<1>12. ASSUME NEW p, NEW q, NEW len, NEW keep, Allocates(p, q, len, keep) PROVE TeCtrl'
  BY <1>12, TeNone DEF Allocates, Allocate, NewPipe, OnePipe, Idle, TeInv, TypeOK, TeCtrl
<1>13. ASSUME NEW p, NEW keep, TakesOver(p, keep) PROVE TeCtrl'
  BY <1>13, TeNone DEF TakesOver, TakeOver, NewPipe, OnePipe, TeInv, TypeOK, TeCtrl
<1>14. CASE GivesUp
  BY <1>14, TeNone DEF GivesUp, Before, Return, OnePipe, TeInv, TypeOK, TeCtrl
<1>15. CASE WaitEnds
  BY <1>15, TeNone DEF WaitEnds, Before, TeInv, TypeOK, TeCtrl
<1>16. CASE Relock
  BY <1>16, TeNone DEF Relock, Before, NewPipe, Return, TeInv, TypeOK, TeCtrl
<1>17. CASE Resolve
  BY <1>17, TeNone DEF Resolve, Before, NewPipe, Return, TeInv, TypeOK, TeCtrl
<1>18. ASSUME NEW a \in Addr, Ctrl(a) PROVE TeCtrl'
  BY <1>18, TeNone DEF Ctrl, Before, TeInv, TypeOK, TeCtrl
<1>19. CASE CtrlWaitEnds
  BY <1>19, TeNone DEF CtrlWaitEnds, Before, Return, TeInv, TypeOK, TeCtrl
<1>20. CASE CtrlResolve
  BY <1>20, TeNone DEF CtrlResolve, Before, Return, TeInv, TypeOK, TeCtrl
<1>21. CASE UNCHANGED vars
  BY <1>21, TeNone DEF vars, TeInv, TypeOK, TeCtrl
<1> QED BY TeSteps, <1>1, <1>2, <1>3, <1>4, <1>5, <1>6, <1>7, <1>8, <1>9, <1>10, <1>11, <1>12, <1>13, <1>14, <1>15, <1>16, <1>17, <1>18, <1>19, <1>20, <1>21

\* Every step keeps a transfer for each busy pipe, and the pipe for someone.
LEMMA TeBusyKept ==
    ASSUME TeInv, [Next]_vars
    PROVE  BusyHasTransfer'
<1>1. ASSUME NEW a \in Addr, Configure(a) PROVE BusyHasTransfer'
  BY <1>1, TeNone DEF Configure, TeInv, TypeOK, BusyHasTransfer
<1>2. ASSUME NEW a \in Addr, EnumerationFails(a) PROVE BusyHasTransfer'
  BY <1>2, TeNone DEF EnumerationFails, TeInv, TypeOK, BusyHasTransfer
<1>3. ASSUME NEW a \in Addr, Mount(a) PROVE BusyHasTransfer'
  BY <1>3, TeNone DEF Mount, TeInv, TypeOK, BusyHasTransfer
<1>4. ASSUME NEW a \in Addr, Unmount(a) PROVE BusyHasTransfer'
  BY <1>4, TeNone, TeOrphan, TeFreed DEF Unmount, Forget, Of, PipesOf, TeInv, TypeOK, BusyHasTransfer
<1>5. ASSUME NEW x \in events, Deliver(x) PROVE BusyHasTransfer'
  BY <1>5, TeNone DEF Deliver, XferCb, CtrlCb, NewPipe, PipeType, Accepted, TeInv, TypeOK, BusyHasTransfer
<1>6. ASSUME NEW x \in live, Complete(x) PROVE BusyHasTransfer'
  BY <1>6, TeNone DEF Complete, TeInv, TypeOK, BusyHasTransfer
<1>7. CASE Start
  BY <1>7, TeNone, TeFreed DEF Start, Dropped, TeListed, TeInv, TypeOK, BusyHasTransfer
<1>8. CASE Stop
  BY <1>8, TeNone, TeFreed DEF Stop, Before, Dropped, TeListed, TeInv, TypeOK, BusyHasTransfer
<1>9. ASSUME NEW a \in Addr, NEW alt \in Alts, NEW opens \in BOOLEAN, Claim(a, alt, opens) PROVE BusyHasTransfer'
  BY <1>9, TeNone, TeFreed DEF Claim, Before, CloseInterface, Dropped, Forget, PipesOf, Of, TeInv, TypeOK, BusyHasTransfer
<1>10. ASSUME NEW a \in Addr, Release(a) PROVE BusyHasTransfer'
  BY <1>10, TeNone, TeFreed DEF Release, Before, CloseInterface, Dropped, Forget, PipesOf, Of, TeInv, TypeOK, BusyHasTransfer
<1>11. ASSUME NEW p, NEW q, NEW len, NEW keep, Submits(p, q, len, keep) PROVE BusyHasTransfer'
  <2>1. PICK r \in PipeType :
            /\ p \in Pipes /\ pipe' = [pipe EXCEPT ![p] = r]
            /\ \/ /\ live' = live \cup {[pipe |-> p, gen |-> r.gen, len |-> len]}
                  /\ call'.pipe = p
               \/ r.state = "IDLE" /\ live' = live
    BY <1>11, TeSubmits
  <2>2. /\ \A s \in Pipes : s # p => pipe'[s] = pipe[s]
        /\ pipe'[p] = r /\ events' = events
    BY <1>11, <2>1 DEF TeInv, TypeOK, Submits, OnePipe
  <2>3. \A s \in Pipes : s # p => call.pipe # s
    BY <1>11, TeNone DEF Submits
  <2>4. ASSUME NEW s \in Pipes, s # p, pipe'[s].in_use, pipe'[s].state = "BUSY"
        PROVE  pipe'[s].kept /\ \E x \in live' \cup events' : x.pipe = s /\ x.gen = pipe'[s].gen
    <3>1. pipe[s].kept /\ \E x \in live \cup events : x.pipe = s /\ x.gen = pipe[s].gen
      BY <2>2, <2>3, <2>4 DEF TeInv, BusyHasTransfer
    <3>2. live \subseteq live'
      BY <2>1
    <3> QED BY <2>2, <2>4, <3>1, <3>2
  <2>5. pipe'[p].state = "BUSY" =>
            call'.pipe = p /\ \E x \in live' : x.pipe = p /\ x.gen = pipe'[p].gen
    <3> DEFINE x == [pipe |-> p, gen |-> r.gen, len |-> len]
    <3>1. x.pipe = p /\ x.gen = r.gen
      OBVIOUS
    <3> HIDE DEF x
    <3> QED BY <2>1, <2>2, <3>1 DEF x
  <2> QED BY <2>4, <2>5 DEF BusyHasTransfer
<1>12. ASSUME NEW p, NEW q, NEW len, NEW keep, Allocates(p, q, len, keep) PROVE BusyHasTransfer'
  <2>1. /\ p \in Pipes /\ pipe' = [pipe EXCEPT ![p] = q] /\ q.state # "BUSY"
        /\ live' = live /\ events' = events /\ call.pc = "idle"
    BY <1>12 DEF Allocates, Allocate, NewPipe, OnePipe, Idle
  <2>2. /\ \A s \in Pipes : s # p => pipe'[s] = pipe[s]
        /\ pipe'[p] = q
    BY <2>1 DEF TeInv, TypeOK
  <2>3. \A s \in Pipes : call.pipe # s
    BY <2>1 DEF TeInv, TeCall
  <2> QED BY <2>1, <2>2, <2>3 DEF TeInv, BusyHasTransfer
<1>13. ASSUME NEW p, NEW keep, TakesOver(p, keep) PROVE BusyHasTransfer'
  BY <1>13, TeNone DEF TakesOver, TakeOver, NewPipe, OnePipe, PipeType, NoCall, TeCall, TeInv, TypeOK, BusyHasTransfer
<1>14. CASE GivesUp
  BY <1>14, TeNone DEF GivesUp, Before, Return, OnePipe, NoCall, TeCall, TeInv, TypeOK, BusyHasTransfer
<1>15. CASE WaitEnds
  BY <1>15, TeNone DEF WaitEnds, Before, TeInv, TypeOK, BusyHasTransfer
<1>16. CASE Relock
  BY <1>16, TeNone, TeRelock DEF Relock, Before, PipeType, TeInv, TypeOK, BusyHasTransfer
<1>17. CASE Resolve
  BY <1>17, TeNone, TeResolve DEF Resolve, Before, PipeType, TeInv, TypeOK, BusyHasTransfer
<1>18. ASSUME NEW a \in Addr, Ctrl(a) PROVE BusyHasTransfer'
  BY <1>18, TeNone DEF Ctrl, Before, NoCall, TeCall, TeInv, TypeOK, BusyHasTransfer
<1>19. CASE CtrlWaitEnds
  BY <1>19, TeNone DEF CtrlWaitEnds, Before, Return, NoCall, TeCall, TeInv, TypeOK, BusyHasTransfer
<1>20. CASE CtrlResolve
  BY <1>20, TeNone DEF CtrlResolve, Before, Return, NoCall, TeCall, TeInv, TypeOK, BusyHasTransfer
<1>21. CASE UNCHANGED vars
  BY <1>21, TeNone DEF vars, TeInv, TypeOK, BusyHasTransfer
<1> QED BY TeSteps, <1>1, <1>2, <1>3, <1>4, <1>5, <1>6, <1>7, <1>8, <1>9, <1>10, <1>11, <1>12, <1>13, <1>14, <1>15, <1>16, <1>17, <1>18, <1>19, <1>20, <1>21

\* The engine starts with nothing under way.
LEMMA TeStarts == Init => TeInv
<1> SUFFICES ASSUME Init PROVE TeInv
  OBVIOUS
<1>1. NoCall \in CallType /\ NoCall.pc = "idle" /\ NoCall.pipe = None
  BY TeCalls DEF NoCall
<1>2. /\ FreePipe \in PipeType /\ ~FreePipe.in_use /\ ~FreePipe.waiter /\ ~FreePipe.dead
      /\ ~FreePipe.kept
  BY TuhAssumption DEF FreePipe, PipeType, Gens
<1>3. TypeOK
  <2>1. ctrl \in [gen : Gens, state : {"IDLE", "BUSY", "DONE"}, stale : BOOLEAN]
    BY TuhAssumption DEF Init, Gens
  <2> QED BY <1>1, <1>2, <2>1, TeTypes DEF Init, FreeRow, TeWords, TeCtrlOK, TePipes, TeXfers, TeCallOK
<1>4. TeListed /\ PipesAreClaimed
  BY <1>1, <1>2 DEF Init, FreeRow, TeListed, Mounted, RowsOf, PipesAreClaimed
<1>5. BusyHasTransfer /\ WaiterHasPipe /\ BufferIsHeld /\ TeApart /\ TeCtrl
  BY <1>1, <1>2 DEF Init, BusyHasTransfer, WaiterHasPipe, BufferIsHeld, TeApart, TeCtrl
<1>6. TeCall
  BY <1>1, <1>2, TeNone DEF Init, TeCall
<1> QED BY <1>3, <1>4, <1>5, <1>6 DEF TeInv

\* Every step keeps the invariant.
LEMMA TeStays ==
    ASSUME TeInv, [Next]_vars
    PROVE  TeInv'
<1>1. TypeOK /\ TeWords /\ TeCtrlOK /\ TePipes /\ TeXfers /\ TeCallOK
  BY TeTypes DEF TeInv
<1>2. TeWords' /\ TeCtrlOK' /\ TePipes' /\ TeXfers' /\ TeCallOK'
  BY <1>1, TeWordsKept, TeCtrlOKKept, TePipesKept, TeXfersKept, TeCallOKKept
<1>3. TypeOK'
  BY <1>2, TeTypes, PTL
<1>4. BusyHasTransfer' /\ WaiterHasPipe' /\ PipesAreClaimed' /\ BufferIsHeld'
  BY TeBusyKept, TeWaiterKept, TeClaimedKept, TeBufferKept
<1>5. TeCall' /\ TeApart' /\ TeCtrl' /\ TeListed'
  BY TeCallKept, TeApartKept, TeCtrlKept, TeListedKept
<1> QED BY <1>3, <1>4, <1>5 DEF TeInv

\* The control buffer has one transfer at most.
LEMMA TeOneControl == ASSUME TeInv PROVE CtrlBufferIsHeld
<1> DEFINE theirs == {x \in live : x.pipe = None}
<1>1. CASE theirs = {}
  BY <1>1, FS_EmptySet DEF CtrlBufferIsHeld
<1>2. CASE theirs # {}
  <2>1. PICK x : x \in theirs
    BY <1>2
  <2>2. theirs = {x}
    BY <2>1 DEF TeInv, TeCtrl
  <2>3. Cardinality(theirs) = 1
    BY <2>2, FS_Singleton
  <2>4. ctrl.state = "BUSY" \/ ctrl.stale
    BY <2>1 DEF TeInv, TeCtrl
  <2> QED BY <2>3, <2>4 DEF CtrlBufferIsHeld
<1> QED BY <1>1, <1>2

\* The controller writes only where a pipe still has a buffer for it, no pipe stays
\* busy for good, no call's pipe is given away under it, the control buffer has one
\* user, and no pipe outlives its claim: for any devices, pipes and endpoints, and
\* whatever is unplugged, timed out, released or completed late.
\* (usbhost_tuh.c's transfers, control requests and callbacks)
THEOREM TuhEngineSafe == Spec => []EngineSafe
<1>1. Init => TeInv
  BY TeStarts
<1>2. TeInv /\ [Next]_vars => TeInv'
  BY TeStays
<1>3. TeInv => EngineSafe
  BY TeOneControl DEF TeInv, EngineSafe
<1> QED BY <1>1, <1>2, <1>3, PTL DEF Spec
=============================================================================
