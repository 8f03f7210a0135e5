------------------------- MODULE PanelParts_proofs --------------------------
(***************************************************************************)
(* What the displays promise, for any size, any number of constructions    *)
(* and any bytes: the RGB panel, and side by side the DSI host, the DVI    *)
(* scanout, the matrix, the buses that send as they are asked and the quad *)
(* SPI bus. Each has its invariant; together they are PanelsSafe.          *)
(***************************************************************************)
EXTENDS Panels, SequenceTheorems, FiniteSetTheorems, TLAPS

-----------------------------------------------------------------------------
(***************************************************************************)
(* The RGB panel, of any size, any number of constructions and colours.    *)
(* Inductive is that one object lives and has the panel, who has finished  *)
(* the pending flip, which buffer the scanout reads and takes next, and    *)
(* that the two buffers agree outside what is dirty.                       *)
(***************************************************************************)

\* What the steps are made of.
RpRectType == [x0 : Int, y0 : Int, x1 : Int, y1 : Int]
RpObj == [panel : Nat, deinited : BOOLEAN, draw : {0, 1}, pending : BOOLEAN,
          presented : {0, 1}, dirty : RpRectType]

RpTypes ==
    /\ rpScan \in [shown : {0, 1}, next : {0, 1}]
    /\ rpObjs \in Seq(RpObj)
    /\ rpCall \in [op : {"none", "paint", "refresh", "present", "wait", "framebuffers"},
                   step : {"idle", "settle", "promote", "count", "wait", "paint"},
                   obj : Int, rect : RpRectType, color : RpColors \cup {0}]
    /\ rpMem \in [{0, 1} -> [RpCells -> RpColors \cup {0}]]
    /\ rpMoved \in BOOLEAN /\ rpDropped \in BOOLEAN /\ rpGui \in {-1, 0, 1}

\* Only the object last made may be used; it has the host's panel.
RpLive(n) == n \in DOMAIN rpObjs /\ ~rpObjs[n].deinited

RpOneLives ==
    /\ \A n \in DOMAIN rpObjs : rpObjs[n].panel # 0 => RpLive(n)
    /\ \A n \in DOMAIN rpObjs : RpLive(n) => rpObjs[n].panel = n /\ rpHost = n /\ rpIdf = n
    /\ rpHost # 0 => RpLive(rpHost)
    /\ rpGui # -1 => rpHost # 0

\* A call is on that object, and has finished the flip that was pending once it
\* goes on; one that waits has a flip of its own.
RpCalls ==
    /\ rpCall.step # "idle" => RpLive(rpCall.obj)
    /\ rpCall.step \in {"promote", "count", "paint"} => ~RpThe.pending
    /\ rpCall.step = "wait" => RpThe.pending /\ rpCall.op = "refresh"
    /\ rpCall.step \in {"promote", "count"} => rpCall.op \in {"refresh", "present"}
    /\ rpCall.step # "idle" /\ rpCall.op \notin {"refresh", "framebuffers"} => rpGui = -1

\* The buffer that is painted, the flip and the screen: a flip that is pending is
\* to the buffer that was painted, and the screen has it once a frame was counted;
\* without one, the screen shows the other and takes no other, unless the last
\* flip was given up.
RpFlips ==
    \A n \in DOMAIN rpObjs : RpLive(n) =>
        LET o == rpObjs[n]
            flipping == o.pending \/ rpCall.step = "count"
        IN  /\ o.pending => o.presented = o.draw /\ (rpMoved => rpScan.shown = o.draw)
            /\ flipping \/ rpDropped => rpScan.next = o.draw
            /\ ~flipping /\ ~rpDropped => rpScan.shown = 1 - o.draw /\ rpScan.next = 1 - o.draw
            /\ rpGui # -1 => rpGui = o.draw /\ (o.pending => rpCall.step = "wait")

\* The inductive invariant.
RpInv == RpTypes /\ RpOneLives /\ RpCalls /\ RpFlips /\ RpAgree

\* The call's object, and what a step changes of it.
LEMMA RpTheLives ==
    ASSUME RpInv, rpCall.step # "idle"
    PROVE  /\ rpCall.obj \in DOMAIN rpObjs /\ RpThe = rpObjs[rpCall.obj] /\ RpThe \in RpObj
           /\ RpThe.panel = rpCall.obj /\ rpHost = rpCall.obj /\ rpIdf = rpCall.obj
           /\ ~RpThe.deinited
           /\ \A n \in DOMAIN rpObjs : RpLive(n) => n = rpCall.obj
<1>1. RpLive(rpCall.obj)
  BY DEF RpInv, RpCalls
<1>2. rpCall.obj \in DOMAIN rpObjs /\ RpThe = rpObjs[rpCall.obj] /\ ~RpThe.deinited
  BY <1>1 DEF RpLive, RpThe
<1>3. RpThe \in RpObj
  BY <1>2 DEF RpInv, RpTypes
<1>4. RpThe.panel = rpCall.obj /\ rpHost = rpCall.obj /\ rpIdf = rpCall.obj
  BY <1>1, <1>2 DEF RpInv, RpOneLives
<1>5. \A n \in DOMAIN rpObjs : RpLive(n) => n = rpCall.obj
  BY <1>4 DEF RpInv, RpOneLives
<1> QED BY <1>2, <1>3, <1>4, <1>5

\* Rectangles: the empty one covers nothing, and a union covers both.
LEMMA RpCovers ==
    ASSUME NEW r \in RpRectType, NEW s \in RpRectType, NEW c \in RpCells
    PROVE  /\ ~RpIn(c, RpNoRect) /\ RpNoRect \in RpRectType
           /\ RpUnion(r, s) \in RpRectType
           /\ RpIn(c, r) \/ RpIn(c, s) => RpIn(c, RpUnion(r, s))
<1>1. c[1] \in Int /\ c[2] \in Int
  BY RpAssumption DEF RpCells
<1>2. ~RpIn(c, RpNoRect) /\ RpNoRect \in RpRectType
  BY <1>1 DEF RpIn, RpNoRect, RpRectType
<1>3. CASE r = RpNoRect
  BY <1>2, <1>3 DEF RpUnion
<1>4. CASE r # RpNoRect
  <2>. DEFINE u == RpUnion(r, s)
  <2>1. u = [x0 |-> IF s.x0 < r.x0 THEN s.x0 ELSE r.x0, y0 |-> IF s.y0 < r.y0 THEN s.y0 ELSE r.y0,
             x1 |-> IF s.x1 > r.x1 THEN s.x1 ELSE r.x1, y1 |-> IF s.y1 > r.y1 THEN s.y1 ELSE r.y1]
    BY <1>4 DEF RpUnion
  <2>2. u \in RpRectType
    BY <2>1 DEF RpRectType
  <2>3. RpIn(c, r) => RpIn(c, u)
    BY <1>1, <2>1 DEF RpIn, RpRectType
  <2>4. RpIn(c, s) => RpIn(c, u)
    BY <1>1, <2>1 DEF RpIn, RpRectType
  <2> QED BY <1>2, <2>2, <2>3, <2>4
<1> QED BY <1>3, <1>4

\* A program's rectangles are in the panel; the empty one is a rectangle.
LEMMA RpRectsTyped == RpRects \subseteq RpRectType /\ RpNoRect \in RpRectType
  BY RpAssumption DEF RpRects, RpRectType, RpNoRect

\* What a call without an object looks at is an object, too.
LEMMA RpNoObjTyped == RpNoObj \in RpObj
  BY DEF RpNoObj, RpObj, RpRectType, RpNoRect

\* The invariant of a board without a panel.
LEMMA RpInitInv == RpInit => RpInv
<1>. SUFFICES ASSUME RpInit PROVE RpInv
  OBVIOUS
<1>0. rpObjs = <<>> /\ rpObjs \in Seq(RpObj) /\ DOMAIN rpObjs = {}
  BY DEF RpInit
<1>1. RpTypes
  <2>1. rpMem \in [{0, 1} -> [RpCells -> RpColors \cup {0}]]
    BY DEF RpInit, RpBlank
  <2>2. rpCall \in [op : {"none", "paint", "refresh", "present", "wait", "framebuffers"},
                   step : {"idle", "settle", "promote", "count", "wait", "paint"},
                   obj : Int, rect : RpRectType, color : RpColors \cup {0}]
    BY RpRectsTyped DEF RpInit, RpIdle
  <2> QED BY <1>0, <2>1, <2>2 DEF RpTypes, RpInit
<1>2. RpOneLives /\ RpFlips /\ RpAgree
  BY <1>0 DEF RpInit, RpOneLives, RpFlips, RpAgree
<1>3. RpCalls
  BY DEF RpInit, RpCalls, RpIdle
<1> QED BY <1>1, <1>2, <1>3 DEF RpInv

\* When the buffers are new, or gone, and a call is not on its way.
LEMMA RpAnew ==
    ASSUME RpInv, RpFreed, rpCall.step = "idle", rpCall' = rpCall,
           rpObjs' \in Seq(RpObj), RpOneLives',
           \A n \in DOMAIN rpObjs' : ~rpObjs'[n].deinited => rpObjs'[n].draw = 1 /\ ~rpObjs'[n].pending
    PROVE  RpInv'
<1>1. RpTypes'
  <2>1. rpMem' \in [{0, 1} -> [RpCells -> RpColors \cup {0}]]
    BY DEF RpFreed, RpBlank
  <2>2. /\ rpScan' \in [shown : {0, 1}, next : {0, 1}]
        /\ rpMoved' \in BOOLEAN /\ rpDropped' \in BOOLEAN /\ rpGui' \in {-1, 0, 1}
    BY DEF RpFreed
  <2> QED BY <2>1, <2>2 DEF RpTypes, RpInv
<1>2. RpCalls'
  BY DEF RpCalls, RpFreed
<1>3. RpFlips'
  BY DEF RpFlips, RpFreed, RpLive
<1>4. RpAgree'
  <2>1. \A c \in RpCells : rpMem'[0][c] = rpMem'[1][c]
    BY DEF RpFreed, RpBlank
  <2> QED BY <2>1 DEF RpAgree
<1> QED BY <1>1, <1>2, <1>3, <1>4 DEF RpInv

\* A new panel, or a construction that fails: no object before it lives.
LEMMA RpMakeStep ==
    ASSUME RpInv, RpKeepsOld = FALSE, NEW room, NEW fails \in BOOLEAN, RpMake(room, fails)
    PROVE  RpInv'
<1>. DEFINE n == Len(rpObjs) + 1
            none == RpProbe(room) = 0 \/ RpTorn.idf # 0
            made == ~none /\ ~fails
            obj == IF made THEN RpNew(n) ELSE RpNoObj
<1>1. /\ rpCall.step = "idle" /\ rpCall' = rpCall /\ RpFreed
      /\ rpHost' = IF made THEN n ELSE RpTorn.host
      /\ rpIdf' = IF none THEN RpTorn.idf ELSE n
      /\ rpObjs' = Append(RpKept, obj)
  BY DEF RpMake, RpMakeAs
<1>2. RpTorn.host = 0
  BY DEF RpTorn
<1>3. RpKept \in Seq(RpObj) /\ Len(RpKept) = Len(rpObjs) /\ n \in Nat \ {0}
      /\ \A m \in 1 .. Len(RpKept) : RpKept[m] = RpNoObj
  <2>1. rpObjs \in Seq(RpObj) /\ Len(rpObjs) \in Nat /\ DOMAIN rpObjs = 1 .. Len(rpObjs)
    BY DEF RpInv, RpTypes
  <2>2. RpKept = [m \in 1 .. Len(rpObjs) |-> RpNoObj]
    BY <2>1 DEF RpKept
  <2>3. RpKept \in Seq(RpObj) /\ Len(RpKept) = Len(rpObjs)
    BY <2>1, <2>2, RpNoObjTyped, SeqDef
  <2> QED BY <2>1, <2>2, <2>3
<1>4. obj \in RpObj /\ (~made => obj = RpNoObj) /\ (made => obj = RpNew(n))
  <2>1. RpNew(n) \in RpObj
    BY <1>3, RpNoObjTyped DEF RpNew, RpObj
  <2> QED BY <2>1, RpNoObjTyped
<1>. HIDE DEF obj
<1>5. /\ rpObjs' \in Seq(RpObj) /\ DOMAIN rpObjs' = 1 .. n
      /\ \A m \in 1 .. n : rpObjs'[m] = IF m = n THEN obj ELSE RpNoObj
  BY <1>1, <1>3, <1>4, AppendProperties
<1>6. RpNoObj.deinited /\ RpNoObj.panel = 0
  BY DEF RpNoObj
<1>7. ~RpNew(n).deinited /\ RpNew(n).panel = n /\ RpNew(n).draw = 1 /\ ~RpNew(n).pending
  BY DEF RpNew, RpNoObj
<1>. HIDE DEF made, none, n
<1>8. RpOneLives'
  <2>1. rpGui' = -1
    BY <1>1 DEF RpFreed
  <2>2. CASE made
    <3>1. rpHost' = n /\ rpIdf' = n /\ obj = RpNew(n)
      BY <1>1, <1>4, <2>2 DEF made
    <3> QED BY <2>1, <3>1, <1>3, <1>5, <1>6, <1>7 DEF RpOneLives, RpLive
  <2>3. CASE ~made
    BY <2>1, <2>3, <1>1, <1>2, <1>4, <1>5, <1>6 DEF RpOneLives, RpLive
  <2> QED BY <2>2, <2>3
<1>9. \A m \in DOMAIN rpObjs' : ~rpObjs'[m].deinited => rpObjs'[m].draw = 1 /\ ~rpObjs'[m].pending
  BY <1>4, <1>5, <1>6, <1>7
<1> QED BY <1>1, <1>5, <1>8, <1>9, RpAnew

\* deinit() tears down the panel there is, which is its own.
LEMMA RpDeinitStep ==
    ASSUME RpInv, NEW n \in DOMAIN rpObjs, RpDeinit(n)
    PROVE  RpInv'
<1>1. RpLive(n) /\ rpHost = n /\ rpObjs[n].panel = n /\ n # 0
  <2>1. RpLive(n)
    BY DEF RpDeinit, RpLive
  <2>2. n \in 1 .. Len(rpObjs) /\ Len(rpObjs) \in Nat
    BY DEF RpInv, RpTypes
  <2> QED BY <2>1, <2>2 DEF RpInv, RpOneLives
<1>2. /\ rpCall.step = "idle" /\ rpCall' = rpCall /\ RpFreed /\ rpHost' = 0
      /\ rpObjs' = [rpObjs EXCEPT ![n].deinited = TRUE, ![n].panel = 0]
  BY <1>1 DEF RpDeinit
<1>3. /\ DOMAIN rpObjs' = DOMAIN rpObjs
      /\ rpObjs'[n].deinited /\ rpObjs'[n].panel = 0
      /\ \A m \in DOMAIN rpObjs : m # n => rpObjs'[m] = rpObjs[m] /\ ~RpLive(m)
      /\ rpObjs' \in Seq(RpObj)
  <2>1. rpObjs[n] \in RpObj /\ rpObjs \in Seq(RpObj)
    BY DEF RpInv, RpTypes
  <2>2. [[rpObjs[n] EXCEPT !.deinited = TRUE] EXCEPT !.panel = 0] \in RpObj
    BY <2>1 DEF RpObj
  <2>. DEFINE v == [[rpObjs[n] EXCEPT !.deinited = TRUE] EXCEPT !.panel = 0]
  <2>3. rpObjs' = [rpObjs EXCEPT ![n] = v]
    BY <1>2, <2>1 DEF RpObj
  <2>4. v.deinited /\ v.panel = 0
    BY <2>1 DEF RpObj
  <2>5. rpObjs' \in Seq(RpObj) /\ DOMAIN rpObjs' = DOMAIN rpObjs
    BY <2>1, <2>2, <2>3
  <2>6. \A m \in DOMAIN rpObjs : m # n => ~RpLive(m)
    BY <1>1 DEF RpInv, RpOneLives
  <2> QED BY <2>1, <2>3, <2>4, <2>5, <2>6
<1>4. RpOneLives'
  <2>1. rpGui' = -1
    BY <1>2 DEF RpFreed
  <2> QED BY <1>2, <1>3, <2>1 DEF RpOneLives, RpLive, RpInv
<1> QED BY <1>2, <1>3, <1>4, RpAnew DEF RpLive

\* A soft reset leaves no object, no panel and nothing pending.
LEMMA RpResetStep ==
    ASSUME RpInv, RpSoftReset
    PROVE  RpInv'
<1>1. /\ rpCall.step = "idle" /\ rpCall' = rpCall /\ RpFreed /\ rpHost' = 0
      /\ rpObjs' = [n \in DOMAIN rpObjs |-> RpNoObj]
  BY DEF RpSoftReset
<1>2. rpObjs' \in Seq(RpObj) /\ \A n \in DOMAIN rpObjs' : rpObjs'[n] = RpNoObj
  <2>1. rpObjs \in Seq(RpObj) /\ Len(rpObjs) \in Nat /\ DOMAIN rpObjs = 1 .. Len(rpObjs)
    BY DEF RpInv, RpTypes
  <2> QED BY <1>1, <2>1, RpNoObjTyped, SeqDef
<1>3. RpNoObj.deinited /\ RpNoObj.panel = 0
  BY DEF RpNoObj
<1>4. RpOneLives'
  <2>1. rpGui' = -1
    BY <1>1 DEF RpFreed
  <2> QED BY <1>1, <1>2, <1>3, <2>1 DEF RpOneLives, RpLive
<1> QED BY <1>1, <1>2, <1>3, <1>4, RpAnew

\* A frame ends: the screen takes the buffer that was promoted.
LEMMA RpWrapStep ==
    ASSUME RpInv, RpWrap
    PROVE  RpInv'
<1>1. /\ rpScan'.shown = rpScan.next /\ rpScan'.next = rpScan.next /\ rpMoved' = TRUE
      /\ rpScan' \in [shown : {0, 1}, next : {0, 1}]
      /\ UNCHANGED <<rpIdf, rpHost, rpMem, rpObjs, rpCall, rpDropped, rpGui>>
  BY DEF RpWrap, RpInv, RpTypes
<1>2. RpTypes' /\ RpOneLives' /\ RpCalls' /\ RpAgree'
  BY <1>1 DEF RpInv, RpTypes, RpOneLives, RpCalls, RpAgree, RpLive, RpThe
<1>3. RpFlips'
  <2>. SUFFICES ASSUME NEW n \in DOMAIN rpObjs, RpLive(n)
                PROVE  LET o == rpObjs[n]
                           flipping == o.pending \/ rpCall.step = "count"
                       IN /\ o.pending => o.presented = o.draw /\ (rpMoved' => rpScan'.shown = o.draw)
                          /\ flipping \/ rpDropped => rpScan'.next = o.draw
                          /\ ~flipping /\ ~rpDropped => rpScan'.shown = 1 - o.draw /\ rpScan'.next = 1 - o.draw
                          /\ rpGui # -1 => rpGui = o.draw /\ (o.pending => rpCall.step = "wait")
    BY <1>1 DEF RpFlips, RpLive
  <2> QED BY <1>1 DEF RpInv, RpFlips
<1> QED BY <1>2, <1>3 DEF RpInv

\* A call begins on the object that lives.
LEMMA RpBeginStep ==
    ASSUME RpInv, NEW n \in DOMAIN rpObjs, NEW op \in {"paint", "refresh", "present", "wait", "framebuffers"},
           NEW r \in RpRectType, NEW k \in RpColors \cup {0}, RpBegin(n, op, r, k)
    PROVE  RpInv'
<1>1. /\ rpCall.step = "idle"
      /\ rpCall' = [op |-> op, step |-> "settle", obj |-> n, rect |-> r, color |-> k]
      /\ UNCHANGED <<rpIdf, rpHost, rpScan, rpMoved, rpMem, rpObjs, rpDropped, rpGui>>
      /\ op \in {"paint", "present", "wait"} => rpGui = -1
      /\ RpLive(n)
  BY DEF RpBegin, RpUses, RpLive
<1>2. rpCall'.step = "settle" /\ rpCall'.op = op /\ rpCall'.obj = n
  BY <1>1
<1>3. RpTypes'
  <2>1. n \in Int
    BY DEF RpInv, RpTypes
  <2> QED BY <1>1, <2>1 DEF RpInv, RpTypes
<1>4. RpOneLives' /\ RpAgree'
  BY <1>1 DEF RpInv, RpOneLives, RpLive, RpAgree
<1>5. RpCalls'
  BY <1>1, <1>2 DEF RpCalls, RpLive
<1>6. RpFlips'
  BY <1>1, <1>2 DEF RpInv, RpFlips, RpLive
<1> QED BY <1>3, <1>4, <1>5, <1>6 DEF RpInv

\* A step within a call: the call goes on as it was, or returns.
LEMMA RpGoesOn ==
    ASSUME RpInv, rpCall.step # "idle",
           NEW to \in {"promote", "count", "wait", "paint"}, RpAt(to) \/ RpReturns
    PROVE  /\ rpCall'.step \in {to, "idle"}
           /\ rpCall'.step # "idle" => rpCall'.op = rpCall.op /\ rpCall'.obj = rpCall.obj
           /\ rpCall' \in [op : {"none", "paint", "refresh", "present", "wait", "framebuffers"},
                   step : {"idle", "settle", "promote", "count", "wait", "paint"},
                   obj : Int, rect : RpRectType, color : RpColors \cup {0}]
<1>1. CASE RpAt(to)
  BY <1>1 DEF RpAt, RpInv, RpTypes
<1>2. CASE RpReturns
  BY <1>2, RpRectsTyped DEF RpReturns, RpIdle
<1> QED BY <1>1, <1>2

\* What follows the flip that was pending.
LEMMA RpSettles ==
    ASSUME RpInv, rpCall.step # "idle", RpSettled
    PROVE  /\ rpCall'.step \in {"promote", "paint", "idle"}
           /\ rpCall'.step = "promote" => rpCall.op \in {"refresh", "present"}
           /\ rpCall'.step = "paint" => rpCall.op = "paint"
           /\ rpCall'.step # "idle" => rpCall'.op = rpCall.op /\ rpCall'.obj = rpCall.obj
           /\ rpCall' \in [op : {"none", "paint", "refresh", "present", "wait", "framebuffers"},
                   step : {"idle", "settle", "promote", "count", "wait", "paint"},
                   obj : Int, rect : RpRectType, color : RpColors \cup {0}]
<1>1. CASE rpCall.op \in {"refresh", "present"}
  BY <1>1, RpGoesOn DEF RpSettled
<1>2. CASE rpCall.op = "paint"
  BY <1>2, RpGoesOn DEF RpSettled
<1>3. CASE rpCall.op \notin {"refresh", "present", "paint"}
  <2>1. RpReturns
    BY <1>3 DEF RpSettled
  <2> QED BY <2>1, RpGoesOn DEF RpReturns, RpIdle
<1> QED BY <1>1, <1>2, <1>3

\* What a step must show that changes nothing but the call's object, the call, the
\* screen and a painter's buffer.
LEMMA RpOneStep ==
    ASSUME RpInv, rpCall.step # "idle", NEW o \in RpObj,
           rpObjs' = [rpObjs EXCEPT ![rpCall.obj] = o],
           o.panel = RpThe.panel, o.deinited = RpThe.deinited,
           rpIdf' = rpIdf, rpHost' = rpHost,
           RpTypes',
           rpCall'.step # "idle" => rpCall'.obj = rpCall.obj,
           rpCall'.step \in {"promote", "count", "paint"} => ~o.pending,
           rpCall'.step = "wait" => o.pending /\ rpCall'.op = "refresh",
           rpCall'.step \in {"promote", "count"} => rpCall'.op \in {"refresh", "present"},
           rpCall'.step # "idle" /\ rpCall'.op \notin {"refresh", "framebuffers"} => rpGui' = -1,
           o.pending => o.presented = o.draw /\ (rpMoved' => rpScan'.shown = o.draw),
           o.pending \/ rpCall'.step = "count" \/ rpDropped' => rpScan'.next = o.draw,
           ~(o.pending \/ rpCall'.step = "count") /\ ~rpDropped' =>
               rpScan'.shown = 1 - o.draw /\ rpScan'.next = 1 - o.draw,
           rpGui' # -1 => rpGui' = o.draw /\ (o.pending => rpCall'.step = "wait"),
           \A c \in RpCells : rpMem'[0][c] # rpMem'[1][c] => RpIn(c, o.dirty)
    PROVE  RpInv'
<1>. DEFINE m == rpCall.obj
<1>1. /\ m \in DOMAIN rpObjs /\ rpObjs[m] = RpThe /\ RpThe.panel = m /\ rpHost = m /\ rpIdf = m
      /\ ~RpThe.deinited
      /\ \A n \in DOMAIN rpObjs : RpLive(n) => n = m
  BY RpTheLives
<1>2. /\ DOMAIN rpObjs' = DOMAIN rpObjs /\ rpObjs'[m] = o
      /\ \A n \in DOMAIN rpObjs : n # m => rpObjs'[n] = rpObjs[n]
  BY <1>1 DEF RpInv, RpTypes
<1>3. \A n \in DOMAIN rpObjs : RpLive(n)' <=> n = m
  BY <1>1, <1>2 DEF RpLive
<1>4. m # 0
  BY <1>1 DEF RpInv, RpTypes
<1>. HIDE DEF m
<1>5. RpOneLives'
  <2>1. \A n \in DOMAIN rpObjs' : rpObjs'[n].panel # 0 => RpLive(n)'
    BY <1>1, <1>2, <1>3 DEF RpInv, RpOneLives
  <2>2. \A n \in DOMAIN rpObjs' : RpLive(n)' => rpObjs'[n].panel = n /\ rpHost' = n /\ rpIdf' = n
    BY <1>1, <1>2, <1>3
  <2>3. (rpHost' # 0 => RpLive(rpHost)') /\ (rpGui' # -1 => rpHost' # 0)
    BY <1>1, <1>3, <1>4
  <2> QED BY <2>1, <2>2, <2>3 DEF RpOneLives
<1>6. RpCalls'
  <2>1. rpCall'.step # "idle" => RpLive(rpCall.obj)' /\ rpCall'.obj = m /\ RpThe' = o
    BY <1>1, <1>2, <1>3 DEF RpThe, m
  <2> QED BY <1>1, <2>1, <1>3 DEF RpCalls, m
<1>7. RpFlips'
  BY <1>2, <1>3 DEF RpFlips
<1>8. RpAgree'
  <2>1. \A n \in DOMAIN rpObjs' : rpObjs'[n].panel # 0 => n = m
    BY <1>5, <1>3, <1>2 DEF RpOneLives
  <2> QED BY <1>2, <2>1 DEF RpAgree
<1> QED BY <1>5, <1>6, <1>7, <1>8 DEF RpInv

\* What the invariant says of the call's own object.
LEMMA RpTheFlips ==
    ASSUME RpInv, rpCall.step # "idle"
    PROVE  /\ RpThe.pending => RpThe.presented = RpThe.draw /\ (rpMoved => rpScan.shown = RpThe.draw)
           /\ RpThe.pending \/ rpCall.step = "count" \/ rpDropped => rpScan.next = RpThe.draw
           /\ ~(RpThe.pending \/ rpCall.step = "count") /\ ~rpDropped =>
                  rpScan.shown = 1 - RpThe.draw /\ rpScan.next = 1 - RpThe.draw
           /\ rpGui # -1 => rpGui = RpThe.draw /\ (RpThe.pending => rpCall.step = "wait")
           /\ \A c \in RpCells : rpMem[0][c] # rpMem[1][c] => RpIn(c, RpThe.dirty)
<1>1. rpCall.obj \in DOMAIN rpObjs /\ RpThe = rpObjs[rpCall.obj] /\ RpLive(rpCall.obj)
  BY RpTheLives DEF RpLive
<1>2. RpThe.panel # 0 /\ RpThe.panel = rpIdf
  BY <1>1, RpTheLives DEF RpInv, RpTypes
<1>3. \A c \in RpCells : rpMem[0][c] # rpMem[1][c] => RpIn(c, RpThe.dirty)
  BY <1>1, <1>2 DEF RpInv, RpAgree
<1> QED BY <1>1, <1>3 DEF RpInv, RpFlips

\* Putting back what an object has changes nothing.
LEMMA RpSameObjs ==
    ASSUME RpInv, rpCall.step # "idle", rpObjs' = rpObjs
    PROVE  rpObjs' = [rpObjs EXCEPT ![rpCall.obj] = RpThe]
  BY RpTheLives DEF RpInv, RpTypes

\* There was nothing to finish.
LEMMA RpNothingStep ==
    ASSUME RpInv, RpNothingPending
    PROVE  RpInv'
<1>1. /\ rpCall.step = "settle" /\ ~RpThe.pending /\ RpSettled
      /\ rpGui' = IF rpCall.op = "framebuffers" THEN RpThe.draw ELSE rpGui
      /\ UNCHANGED <<rpIdf, rpHost, rpScan, rpMoved, rpMem, rpObjs, rpDropped>>
  BY DEF RpNothingPending
<1>2. RpThe \in RpObj /\ rpObjs' = [rpObjs EXCEPT ![rpCall.obj] = RpThe]
  BY <1>1, RpTheLives, RpSameObjs
<1>3. RpTypes'
  <2>1. rpGui' \in {-1, 0, 1}
    BY <1>1, <1>2 DEF RpInv, RpTypes, RpObj
  <2> QED BY <1>1, <2>1, RpSettles DEF RpInv, RpTypes
<1>4. rpCall'.step # "idle" /\ rpCall'.op \notin {"refresh", "framebuffers"} => rpGui' = -1
  BY <1>1, RpSettles DEF RpInv, RpCalls
<1> QED BY <1>1, <1>2, <1>3, <1>4, RpSettles, RpTheFlips, RpOneStep

\* The flip is finished: the object paints the other buffer, brought up to date.
LEMMA RpFinishStep ==
    ASSUME RpInv, RpFinish
    PROVE  RpInv'
<1>. DEFINE o == [RpThe EXCEPT !.pending = FALSE, !.draw = 1 - RpThe.presented, !.dirty = RpNoRect]
<1>1. /\ rpCall.step \in {"settle", "wait"} /\ RpThe.pending /\ rpMoved
      /\ rpMem' = RpSynced(rpMem, RpThe)
      /\ rpDropped' = FALSE
      /\ rpCall.step = "settle" => RpSettled
      /\ rpCall.step = "wait" => RpReturns
      /\ rpGui' = IF rpGui # -1 /\ rpCall.op = "refresh" THEN 1 - rpGui
                  ELSE IF rpCall.op = "framebuffers" THEN 1 - RpThe.presented ELSE rpGui
      /\ UNCHANGED <<rpIdf, rpHost, rpScan, rpMoved>>
  BY DEF RpFinish, RpFlipEnds
<1>2. RpThe \in RpObj /\ RpThe = rpObjs[rpCall.obj] /\ rpCall.obj \in DOMAIN rpObjs
  BY <1>1, RpTheLives
<1>3. o \in RpObj
  <2>1. 1 - RpThe.presented \in {0, 1}
    BY <1>2 DEF RpObj
  <2> QED BY <1>2, <2>1, RpRectsTyped DEF RpObj
<1>4. /\ o.panel = RpThe.panel /\ o.deinited = RpThe.deinited /\ o.pending = FALSE
      /\ o.draw = 1 - RpThe.presented /\ o.dirty = RpNoRect
  BY <1>2 DEF RpObj
<1>5. rpObjs' = [rpObjs EXCEPT ![rpCall.obj] = o]
  BY <1>2 DEF RpFinish, RpInv, RpTypes, RpObj
<1>. HIDE DEF o
<1>6. /\ rpCall'.step \in {"promote", "paint", "idle"}
      /\ rpCall'.step = "promote" => rpCall'.op \in {"refresh", "present"}
      /\ rpCall'.step # "idle" => rpCall'.op = rpCall.op /\ rpCall'.obj = rpCall.obj
      /\ rpCall' \in [op : {"none", "paint", "refresh", "present", "wait", "framebuffers"},
                   step : {"idle", "settle", "promote", "count", "wait", "paint"},
                   obj : Int, rect : RpRectType, color : RpColors \cup {0}]
  <2>1. CASE rpCall.step = "settle"
    BY <1>1, <2>1, RpSettles
  <2>2. CASE rpCall.step = "wait"
    BY <1>1, <2>2, RpGoesOn DEF RpReturns, RpIdle
  <2> QED BY <1>1, <2>1, <2>2
<1>7. RpThe.presented = RpThe.draw /\ rpScan.shown = RpThe.draw /\ rpScan.next = RpThe.draw
      /\ RpThe.draw \in {0, 1}
  BY <1>1, <1>2, RpTheFlips DEF RpObj
<1>8. rpGui' # -1 => rpGui' = o.draw
  <2>1. rpGui # -1 => rpGui = RpThe.draw
    BY <1>1, RpTheFlips
  <2>2. rpGui # -1 => rpCall.op \in {"refresh", "framebuffers"}
    BY <1>1 DEF RpInv, RpCalls
  <2> QED BY <1>1, <1>4, <1>7, <2>1, <2>2
<1>9. rpCall'.step # "idle" /\ rpCall'.op \notin {"refresh", "framebuffers"} => rpGui' = -1
  BY <1>1, <1>6 DEF RpInv, RpCalls
<1>10. /\ rpMem' \in [{0, 1} -> [RpCells -> RpColors \cup {0}]]
       /\ \A c \in RpCells : rpMem'[0][c] = rpMem'[1][c]
  <2>. DEFINE p == RpThe.presented
              line == [c \in RpCells |-> IF RpIn(c, RpThe.dirty) THEN rpMem[p][c] ELSE rpMem[1 - p][c]]
  <2>1. p \in {0, 1} /\ 1 - p \in {0, 1} /\ p # 1 - p
    BY <1>2 DEF RpObj
  <2>. HIDE DEF p
  <2>2. rpMem \in [{0, 1} -> [RpCells -> RpColors \cup {0}]]
    BY DEF RpInv, RpTypes
  <2>3. rpMem' = [rpMem EXCEPT ![1 - p] = line]
    BY <1>1, <2>1, <2>2 DEF RpSynced, p
  <2>4. line \in [RpCells -> RpColors \cup {0}]
    BY <2>1, <2>2
  <2>5. rpMem'[p] = rpMem[p] /\ rpMem'[1 - p] = line
    BY <2>1, <2>2, <2>3
  <2>6. \A c \in RpCells : rpMem[0][c] # rpMem[1][c] => RpIn(c, RpThe.dirty)
    BY <1>1, RpTheFlips
  <2>7. \A c \in RpCells : line[c] = rpMem[p][c]
    BY <2>1, <2>6
  <2>. HIDE DEF line
  <2>8. \A c \in RpCells : rpMem'[0][c] = rpMem'[1][c]
    BY <2>1, <2>5, <2>7
  <2> QED BY <2>2, <2>3, <2>4, <2>8
<1>11. RpTypes'
  <2>1. rpObjs' \in Seq(RpObj)
    BY <1>2, <1>3, <1>5 DEF RpInv, RpTypes
  <2>2. rpGui' \in {-1, 0, 1}
    BY <1>3, <1>8 DEF RpObj
  <2> QED BY <1>1, <1>6, <1>10, <2>1, <2>2 DEF RpInv, RpTypes
<1>12. rpScan'.shown = 1 - o.draw /\ rpScan'.next = 1 - o.draw
  BY <1>1, <1>4, <1>7
<1> QED BY <1>1, <1>3, <1>4, <1>5, <1>6, <1>8, <1>9, <1>10, <1>11, <1>12, RpOneStep

\* No frame was counted in time: painting stays on the buffer promoted.
LEMMA RpTimeoutStep ==
    ASSUME RpInv, RpTimesOut
    PROVE  RpInv'
<1>. DEFINE o == [RpThe EXCEPT !.pending = FALSE]
<1>1. /\ rpCall.step \in {"settle", "wait"} /\ RpThe.pending
      /\ rpDropped' = TRUE /\ rpGui' = -1
      /\ rpCall.step = "settle" => RpSettled
      /\ rpCall.step = "wait" => RpReturns
      /\ UNCHANGED <<rpIdf, rpHost, rpScan, rpMoved, rpMem>>
  BY DEF RpTimesOut
<1>2. RpThe \in RpObj /\ RpThe = rpObjs[rpCall.obj] /\ rpCall.obj \in DOMAIN rpObjs
  BY <1>1, RpTheLives
<1>3. o \in RpObj
  BY <1>2 DEF RpObj
<1>4. /\ o.panel = RpThe.panel /\ o.deinited = RpThe.deinited /\ o.pending = FALSE
      /\ o.draw = RpThe.draw /\ o.dirty = RpThe.dirty
  BY <1>2 DEF RpObj
<1>5. rpObjs' = [rpObjs EXCEPT ![rpCall.obj] = o]
  BY <1>2 DEF RpTimesOut, RpInv, RpTypes, RpObj
<1>. HIDE DEF o
<1>6. /\ rpCall'.step \in {"promote", "paint", "idle"}
      /\ rpCall'.step = "promote" => rpCall'.op \in {"refresh", "present"}
      /\ rpCall'.step # "idle" => rpCall'.op = rpCall.op /\ rpCall'.obj = rpCall.obj
      /\ rpCall' \in [op : {"none", "paint", "refresh", "present", "wait", "framebuffers"},
                   step : {"idle", "settle", "promote", "count", "wait", "paint"},
                   obj : Int, rect : RpRectType, color : RpColors \cup {0}]
  <2>1. CASE rpCall.step = "settle"
    BY <1>1, <2>1, RpSettles
  <2>2. CASE rpCall.step = "wait"
    BY <1>1, <2>2, RpGoesOn DEF RpReturns, RpIdle
  <2> QED BY <1>1, <2>1, <2>2
<1>7. RpTypes'
  <2>1. rpObjs' \in Seq(RpObj)
    BY <1>2, <1>3, <1>5 DEF RpInv, RpTypes
  <2> QED BY <1>1, <1>6, <2>1 DEF RpInv, RpTypes
<1>8. rpScan'.next = o.draw
  BY <1>1, <1>4, RpTheFlips
<1>9. \A c \in RpCells : rpMem'[0][c] # rpMem'[1][c] => RpIn(c, o.dirty)
  BY <1>1, <1>4, RpTheFlips
<1> QED BY <1>1, <1>3, <1>4, <1>5, <1>6, <1>7, <1>8, <1>9, RpOneStep

\* The buffer painted is promoted, ...
LEMMA RpPromoteStep ==
    ASSUME RpInv, RpPromote
    PROVE  RpInv'
<1>1. /\ rpCall.step = "promote" /\ RpAt("count")
      /\ rpScan' = [rpScan EXCEPT !.next = RpThe.draw]
      /\ UNCHANGED <<rpIdf, rpHost, rpMoved, rpMem, rpObjs, rpDropped, rpGui>>
  BY DEF RpPromote
<1>2. RpThe \in RpObj /\ rpObjs' = [rpObjs EXCEPT ![rpCall.obj] = RpThe]
  BY <1>1, RpTheLives, RpSameObjs
<1>3. ~RpThe.pending /\ rpCall.op \in {"refresh", "present"}
  BY <1>1 DEF RpInv, RpCalls
<1>4. rpCall'.step = "count" /\ rpCall'.op = rpCall.op /\ rpCall'.obj = rpCall.obj
  BY <1>1 DEF RpAt, RpInv, RpTypes
<1>5. rpScan'.next = RpThe.draw /\ rpScan' \in [shown : {0, 1}, next : {0, 1}]
  BY <1>1, <1>2 DEF RpInv, RpTypes, RpObj
<1>6. RpTypes'
  BY <1>1, <1>5, RpGoesOn DEF RpInv, RpTypes
<1>7. rpCall'.op \notin {"refresh", "framebuffers"} => rpGui' = -1
  BY <1>1, <1>4 DEF RpInv, RpCalls
<1> QED BY <1>1, <1>2, <1>3, <1>4, <1>5, <1>6, <1>7, RpTheFlips, RpOneStep

\* ... and from here on a frame that is counted shows it.
LEMMA RpCountStep ==
    ASSUME RpInv, RpCount
    PROVE  RpInv'
<1>. DEFINE o == [RpThe EXCEPT !.pending = TRUE, !.presented = RpThe.draw]
<1>1. /\ rpCall.step = "count" /\ rpMoved' = FALSE
      /\ IF rpCall.op = "refresh" THEN RpAt("wait") ELSE RpReturns
      /\ UNCHANGED <<rpIdf, rpHost, rpScan, rpMem, rpDropped, rpGui>>
  BY DEF RpCount
<1>2. RpThe \in RpObj /\ RpThe = rpObjs[rpCall.obj] /\ rpCall.obj \in DOMAIN rpObjs
  BY <1>1, RpTheLives
<1>3. o \in RpObj
  BY <1>2 DEF RpObj
<1>4. /\ o.panel = RpThe.panel /\ o.deinited = RpThe.deinited /\ o.pending = TRUE
      /\ o.draw = RpThe.draw /\ o.presented = RpThe.draw /\ o.dirty = RpThe.dirty
  BY <1>2 DEF RpObj
<1>5. rpObjs' = [rpObjs EXCEPT ![rpCall.obj] = o]
  BY <1>2 DEF RpCount, RpInv, RpTypes, RpObj
<1>. HIDE DEF o
<1>6. /\ rpCall'.step \in {"wait", "idle"}
      /\ rpCall'.step = "wait" => rpCall.op = "refresh" /\ rpCall'.op = rpCall.op /\ rpCall'.obj = rpCall.obj
      /\ rpCall.op = "refresh" => rpCall'.step = "wait"
  BY <1>1 DEF RpAt, RpReturns, RpIdle, RpInv, RpTypes
<1>7. RpTypes'
  <2>1. rpObjs' \in Seq(RpObj)
    BY <1>2, <1>3, <1>5 DEF RpInv, RpTypes
  <2> QED BY <1>1, <2>1, RpGoesOn DEF RpInv, RpTypes
<1>8. rpGui # -1 => rpCall.op = "refresh" /\ rpGui = o.draw
  BY <1>1, <1>4, RpTheFlips DEF RpInv, RpCalls
<1>9. rpScan'.next = o.draw
  BY <1>1, <1>4, RpTheFlips
<1>10. \A c \in RpCells : rpMem'[0][c] # rpMem'[1][c] => RpIn(c, o.dirty)
  BY <1>1, <1>4, RpTheFlips
<1> QED BY <1>1, <1>3, <1>4, <1>5, <1>6, <1>7, <1>8, <1>9, <1>10, RpOneStep

\* A rectangle is painted, and remembered.
LEMMA RpPaintStep ==
    ASSUME RpInv, RpPaint
    PROVE  RpInv'
<1>. DEFINE o == [RpThe EXCEPT !.dirty = RpUnion(RpThe.dirty, rpCall.rect)]
            line == [c \in RpCells |-> IF RpIn(c, rpCall.rect) THEN rpCall.color
                                                              ELSE rpMem[RpThe.draw][c]]
<1>1. /\ rpCall.step = "paint" /\ RpReturns
      /\ UNCHANGED <<rpIdf, rpHost, rpScan, rpMoved, rpDropped, rpGui>>
  BY DEF RpPaint
<1>2. RpThe \in RpObj /\ RpThe = rpObjs[rpCall.obj] /\ rpCall.obj \in DOMAIN rpObjs
  BY <1>1, RpTheLives
<1>3. rpCall.rect \in RpRectType /\ rpCall.color \in RpColors \cup {0} /\ RpThe.dirty \in RpRectType
      /\ RpThe.draw \in {0, 1}
  BY <1>2 DEF RpInv, RpTypes, RpObj
<1>4. o \in RpObj
  <2>1. RpUnion(RpThe.dirty, rpCall.rect) \in RpRectType
    BY <1>3 DEF RpUnion, RpRectType
  <2> QED BY <1>2, <2>1 DEF RpObj
<1>5. /\ o.panel = RpThe.panel /\ o.deinited = RpThe.deinited /\ o.pending = RpThe.pending
      /\ o.draw = RpThe.draw /\ o.presented = RpThe.presented
      /\ o.dirty = RpUnion(RpThe.dirty, rpCall.rect)
  BY <1>2 DEF RpObj
<1>6. rpObjs' = [rpObjs EXCEPT ![rpCall.obj] = o]
  BY <1>2 DEF RpPaint, RpInv, RpTypes, RpObj
<1>. HIDE DEF o
<1>7. rpMem \in [{0, 1} -> [RpCells -> RpColors \cup {0}]]
  BY DEF RpInv, RpTypes
<1>8. rpMem' = [rpMem EXCEPT ![RpThe.draw] = line]
  BY <1>3, <1>7 DEF RpPaint
<1>9. line \in [RpCells -> RpColors \cup {0}]
  BY <1>3, <1>7
<1>10. \A c \in RpCells : rpMem'[0][c] # rpMem'[1][c] => RpIn(c, o.dirty)
  <2>. SUFFICES ASSUME NEW c \in RpCells, ~RpIn(c, o.dirty)
                PROVE  rpMem'[0][c] = rpMem'[1][c]
    OBVIOUS
  <2>1. ~RpIn(c, RpThe.dirty) /\ ~RpIn(c, rpCall.rect)
    BY <1>3, <1>5, RpCovers
  <2>2. rpMem[0][c] = rpMem[1][c]
    BY <1>1, <2>1, RpTheFlips
  <2>3. line[c] = rpMem[RpThe.draw][c]
    BY <2>1
  <2>. HIDE DEF line
  <2> QED BY <1>3, <1>7, <1>8, <2>2, <2>3
<1>. HIDE DEF line
<1>11. rpCall'.step = "idle"
  BY <1>1 DEF RpReturns, RpIdle
<1>12. RpTypes'
  <2>1. rpObjs' \in Seq(RpObj)
    BY <1>2, <1>4, <1>6 DEF RpInv, RpTypes
  <2>2. rpMem' \in [{0, 1} -> [RpCells -> RpColors \cup {0}]]
    BY <1>7, <1>8, <1>9
  <2> QED BY <1>1, <2>1, <2>2, RpGoesOn DEF RpInv, RpTypes
<1> QED BY <1>1, <1>4, <1>5, <1>6, <1>10, <1>11, <1>12, RpTheFlips, RpOneStep

\* Every step keeps the invariant, where a program uses no object it replaced.
LEMMA RpStep ==
    ASSUME RpInv, RpKeepsOld = FALSE, [RpNext]_rpVars
    PROVE  RpInv'
<1>1. CASE UNCHANGED rpVars
  BY <1>1 DEF rpVars, RpInv, RpTypes, RpOneLives, RpCalls, RpFlips, RpAgree, RpLive, RpThe
<1>2. ASSUME NEW n \in DOMAIN rpObjs, NEW op \in {"paint", "refresh", "present", "wait", "framebuffers"},
             NEW r \in RpRects \cup {RpNoRect}, NEW k \in RpColors \cup {0}, RpBegin(n, op, r, k)
      PROVE  RpInv'
  BY <1>2, RpBeginStep, RpRectsTyped
<1> QED BY <1>1, <1>2, RpWrapStep, RpMakeStep, RpDeinitStep, RpResetStep, RpNothingStep, RpFinishStep,
     RpTimeoutStep, RpPromoteStep, RpCountStep, RpPaintStep DEF RpNext

\* What the invariant is for.
LEMMA RpInvSafe == RpInv => RpSafe
<1>. SUFFICES ASSUME RpInv PROVE RpSafe
  OBVIOUS
<1>1. RpPanelIsThere
  BY RpTheLives DEF RpPanelIsThere
<1>2. RpHostIsThere
  BY DEF RpInv, RpOneLives, RpHostIsThere, RpLive
<1>3. rpHost # 0 => /\ rpHost \in DOMAIN rpObjs /\ RpLive(rpHost) /\ rpObjs[rpHost].draw \in {0, 1}
  <2>1. rpHost # 0 => rpHost \in DOMAIN rpObjs /\ RpLive(rpHost)
    BY DEF RpInv, RpOneLives, RpLive
  <2>2. \A n \in DOMAIN rpObjs : rpObjs[n] \in RpObj
    BY DEF RpInv, RpTypes
  <2> QED BY <2>1, <2>2 DEF RpObj
<1>4. RpOffScreen
  <2>1. rpCall.step = "paint" /\ ~rpDropped => RpThe.draw \notin {rpScan.shown, rpScan.next}
    <3>. SUFFICES ASSUME rpCall.step = "paint", ~rpDropped
                  PROVE  RpThe.draw \notin {rpScan.shown, rpScan.next}
      OBVIOUS
    <3>1. ~RpThe.pending /\ RpThe.draw \in {0, 1}
      BY RpTheLives DEF RpInv, RpCalls, RpObj
    <3> QED BY <3>1, RpTheFlips
  <2>2. rpCall.step = "idle" /\ rpGui # -1 /\ ~rpDropped => rpGui \notin {rpScan.shown, rpScan.next}
    <3>. SUFFICES ASSUME rpCall.step = "idle", rpGui # -1, ~rpDropped
                  PROVE  rpGui \notin {rpScan.shown, rpScan.next}
      OBVIOUS
    <3>1. rpHost # 0
      BY DEF RpInv, RpOneLives
    <3> QED BY <1>3, <3>1 DEF RpInv, RpFlips
  <2> QED BY <2>1, <2>2 DEF RpOffScreen
<1>5. RpShowsNewest
  <2>. SUFFICES ASSUME rpCall.step = "idle", rpHost # 0, ~rpDropped,
                       NEW n \in DOMAIN rpObjs, rpObjs[n].panel = rpHost, ~rpObjs[n].pending
                PROVE  rpScan.shown = 1 - rpObjs[n].draw
    BY DEF RpShowsNewest
  <2>1. RpLive(n)
    BY DEF RpInv, RpOneLives
  <2> QED BY <2>1 DEF RpInv, RpFlips
<1> QED BY <1>1, <1>2, <1>4, <1>5 DEF RpSafe, RpInv

\* The dot-clock panel: painting stays off the screen unless a flip was given up,
\* the two buffers agree outside what the object remembers, a flip that ended shows
\* the newest picture, and a call has its panel. For every size, any rectangles and
\* any number of constructions, of a program that uses no object it has replaced.
THEOREM RpPaintsOffScreen ==
    ASSUME RpKeepsOld = FALSE
    PROVE  RpSpec => []RpSafe
<1>1. RpInv /\ [RpNext]_rpVars => RpInv'
  BY RpStep
<1> QED BY <1>1, RpInitInv, RpInvSafe, PTL DEF RpSpec

-----------------------------------------------------------------------------
(***************************************************************************)
(* The MIPI DSI host, for a program that keeps to its newest objects.      *)
(* Inductive is that ESP-IDF's bus is the newest Bus object's, and its     *)
(* panel and frame buffer are of one construction.                         *)
(***************************************************************************)

DpFields == {"ldo", "bus", "io", "panel", "buf"}
DpObjects == Seq([id : Nat \ {0}, deinited : BOOLEAN])

\* What ESP-IDF has is mirrored, and nothing went wrong.
DpClean(s) == s.idf \in [DpFields -> Nat] /\ s.host = s.idf /\ s.wrong = {}

\* A bus is the newest object's; a frame buffer is its panel's.
DpWhole(idf, buses) ==
    /\ idf["bus"] # 0 => Len(buses) > 0 /\ idf["bus"] = buses[Len(buses)].id
    /\ idf["buf"] # 0 => idf["panel"] = idf["buf"]

DpInv ==
    /\ dpIdf \in [DpFields -> Nat] /\ dpHost = dpIdf /\ dpWrong = {}
    /\ dpMade \in Nat /\ dpBuses \in DpObjects /\ dpDisplays \in DpObjects
    /\ DpWhole(dpIdf, dpBuses)

\* What was given is nothing but what was given up.
DpWithout(s, r, gone) ==
    /\ DpClean(r)
    /\ \A f \in DpFields : r.idf[f] = IF f \in gone THEN 0 ELSE s.idf[f]

\* A handle is given up, the bus when nothing is on it.
LEMMA DpDrops ==
    ASSUME NEW s, DpClean(s), NEW what \in DpFields,
           what = "bus" => s.idf["panel"] = 0 /\ s.idf["io"] = 0
    PROVE  DpWithout(s, DpDrop(s, what), {what})
<1>1. CASE s.host[what] = 0
  BY <1>1 DEF DpDrop, DpClean, DpWithout
<1>2. CASE s.host[what] # 0
  <2>1. PICK r : r = DpDrop(s, what)
    OBVIOUS
  <2>2. ~(what = "bus" /\ s.host["bus"] # 0 /\ (s.idf["panel"] # 0 \/ s.idf["io"] # 0))
    OBVIOUS
  <2>3. r = [idf |-> [s.idf EXCEPT ![what] = 0], host |-> [s.host EXCEPT ![what] = 0],
             wrong |-> s.wrong]
    BY <1>2, <2>1, <2>2 DEF DpDrop
  <2>4. /\ r.idf = [s.idf EXCEPT ![what] = 0] /\ r.host = [s.host EXCEPT ![what] = 0]
        /\ r.wrong = s.wrong
    BY <2>3
  <2>5. r.idf \in [DpFields -> Nat] /\ r.host = r.idf /\ r.wrong = {}
    BY <2>4 DEF DpClean
  <2>6. \A f \in DpFields : r.idf[f] = IF f \in {what} THEN 0 ELSE s.idf[f]
    BY <2>4 DEF DpClean
  <2> QED BY <2>1, <2>5, <2>6 DEF DpClean, DpWithout
<1> QED BY <1>1, <1>2

\* One that is not there is asked for.
LEMMA DpAcquires ==
    ASSUME NEW s, DpClean(s), NEW what \in DpFields, s.idf[what] = 0, NEW n \in Nat
    PROVE  /\ DpClean(DpAcquire(s, what, n))
           /\ \A f \in DpFields :
                DpAcquire(s, what, n).idf[f] = IF f = what THEN n ELSE s.idf[f]
<1>1. PICK r : r = DpAcquire(s, what, n)
  OBVIOUS
<1>2. r = [idf |-> [s.idf EXCEPT ![what] = n], host |-> [s.host EXCEPT ![what] = n],
           wrong |-> s.wrong \cup {}]
  BY <1>1 DEF DpAcquire
<1>3. /\ r.idf = [s.idf EXCEPT ![what] = n] /\ r.host = [s.host EXCEPT ![what] = n]
      /\ r.wrong = s.wrong
  BY <1>2
<1>4. r.idf \in [DpFields -> Nat] /\ r.host = r.idf /\ r.wrong = {}
  BY <1>3 DEF DpClean
<1>5. \A f \in DpFields : r.idf[f] = IF f = what THEN n ELSE s.idf[f]
  BY <1>3 DEF DpClean
<1> QED BY <1>1, <1>4, <1>5 DEF DpClean

\* One handle after another.
LEMMA DpBoth ==
    ASSUME NEW s, NEW r, NEW q, NEW a, NEW b, DpWithout(s, r, a), DpWithout(r, q, b)
    PROVE  DpWithout(s, q, a \cup b)
BY DEF DpWithout

\* A display is given up, and a host.
LEMMA DpEnds ==
    ASSUME NEW s, DpClean(s)
    PROVE  /\ DpWithout(s, DpDisplayEnded(s), {"panel", "io", "buf"})
           /\ DpWithout(s, DpTorn(s), DpFields)
<1>0. {"panel", "io", "buf", "bus", "ldo"} = DpFields
  BY DEF DpFields
<1>1. PICK a, b, c, d, e : /\ a = DpDrop(s, "panel") /\ b = DpDrop(a, "io") /\ c = DpDrop(b, "buf")
                           /\ d = DpDrop(c, "bus") /\ e = DpDrop(d, "ldo")
  OBVIOUS
<1>2. DpWithout(s, a, {"panel"})
  BY <1>0, <1>1, DpDrops
<1>3. DpWithout(a, b, {"io"})
  BY <1>0, <1>1, <1>2, DpDrops DEF DpWithout
<1>4. DpWithout(b, c, {"buf"})
  BY <1>0, <1>1, <1>3, DpDrops DEF DpWithout
<1>5. DpWithout(s, b, {"panel"} \cup {"io"})
  BY <1>2, <1>3, DpBoth
<1>6. DpWithout(s, c, ({"panel"} \cup {"io"}) \cup {"buf"})
  BY <1>4, <1>5, DpBoth
<1>7. c.idf["panel"] = 0 /\ c.idf["io"] = 0 /\ DpClean(c)
  BY <1>0, <1>6 DEF DpWithout
<1>8. DpWithout(c, d, {"bus"})
  BY <1>0, <1>1, <1>7, DpDrops
<1>9. DpWithout(d, e, {"ldo"})
  BY <1>0, <1>1, <1>8, DpDrops DEF DpWithout
<1>10. DpWithout(s, d, (({"panel"} \cup {"io"}) \cup {"buf"}) \cup {"bus"})
  BY <1>6, <1>8, DpBoth
<1>11. DpWithout(s, e, ((({"panel"} \cup {"io"}) \cup {"buf"}) \cup {"bus"}) \cup {"ldo"})
  BY <1>9, <1>10, DpBoth
<1>12. DpDisplayEnded(s) = c /\ DpTorn(s) = e
  BY <1>1 DEF DpDisplayEnded, DpTorn
<1>13. /\ ({"panel"} \cup {"io"}) \cup {"buf"} = {"panel", "io", "buf"}
       /\ ((({"panel"} \cup {"io"}) \cup {"buf"}) \cup {"bus"}) \cup {"ldo"} = DpFields
  BY <1>0
<1> QED BY <1>6, <1>11, <1>12, <1>13

\* A display is built, as far as nothing fails.
LEMMA DpBuilds ==
    ASSUME NEW s, DpClean(s), s.idf["panel"] = 0, s.idf["io"] = 0, s.idf["buf"] = 0,
           NEW n \in Nat \ {0}, NEW fails \in DpSteps \cup {"none"}
    PROVE  /\ DpClean(DpBuilt(s, fails, n))
           /\ DpBuilt(s, fails, n).idf["bus"] = s.idf["bus"]
           /\ DpBuilt(s, fails, n).idf["buf"] # 0 =>
                DpBuilt(s, fails, n).idf["panel"] = DpBuilt(s, fails, n).idf["buf"]
<1>0. {"panel", "io", "buf", "bus"} \subseteq DpFields
  BY DEF DpFields
<1>1. PICK a, b, c, d :
        /\ a = (IF fails = "io" THEN s ELSE DpAcquire(s, "io", n))
        /\ b = (IF fails \in {"io", "sequence", "panel"} THEN a ELSE DpAcquire(a, "panel", n))
        /\ c = DpDisplayEnded(b) /\ d = DpAcquire(b, "buf", n)
  OBVIOUS
<1>2. DpClean(a) /\ a.idf["panel"] = 0 /\ a.idf["buf"] = 0 /\ a.idf["bus"] = s.idf["bus"]
  BY <1>0, <1>1, DpAcquires
<1>3. DpClean(b) /\ b.idf["buf"] = 0 /\ b.idf["bus"] = s.idf["bus"]
  BY <1>0, <1>1, <1>2, DpAcquires
<1>4. fails \in {"show", "none"} => b.idf["panel"] = n
  BY <1>0, <1>1, <1>2, DpAcquires
<1>5. DpClean(c) /\ c.idf["buf"] = 0 /\ c.idf["bus"] = s.idf["bus"]
  BY <1>0, <1>1, <1>3, DpEnds DEF DpWithout
<1>6. /\ DpClean(d) /\ d.idf["buf"] = n /\ d.idf["panel"] = b.idf["panel"]
      /\ d.idf["bus"] = s.idf["bus"]
  BY <1>0, <1>1, <1>3, DpAcquires
<1>7. DpBuilt(s, fails, n) = CASE fails = "buf" -> c
                               [] fails \in {"show", "none"} -> d
                               [] OTHER -> b
  BY <1>1 DEF DpBuilt
<1> QED BY <1>3, <1>4, <1>5, <1>6, <1>7

\* A number of lines rounded up is a number of lines, and no less.
LEMMA DpRoundsUp ==
    ASSUME NEW n \in Nat
    PROVE  DpUp(n) \in Nat /\ n <= DpUp(n) /\ (n \div DpLine) * DpLine \in 0 .. n
<1>1. DpLine \in Nat \ {0}
  BY DpAssumption
<1>2. PICK a, q : a = n + DpLine - 1 /\ q = a \div DpLine
  OBVIOUS
<1>3. a \in Nat /\ q \in Nat
  BY <1>1, <1>2
<1>4. DpLine * q <= a /\ a < DpLine * q + DpLine
  BY <1>1, <1>2, <1>3
<1>5. DpUp(n) = q * DpLine
  BY <1>2 DEF DpUp
<1>6. q * DpLine \in Nat /\ q * DpLine = DpLine * q
  BY <1>1, <1>3
<1>7. PICK p : p = n \div DpLine
  OBVIOUS
<1>8. p \in Nat /\ DpLine * p <= n
  BY <1>1, <1>7
<1>9. p * DpLine \in Nat /\ p * DpLine = DpLine * p
  BY <1>1, <1>8
<1> QED BY <1>1, <1>2, <1>3, <1>4, <1>5, <1>6, <1>7, <1>8, <1>9

\* The lines that are synced have the rows, and are the buffer's.
LEMMA DpSyncs ==
    ASSUME NEW y \in 0 .. DpHeight - 1, NEW h \in 1 .. DpHeight, y + h <= DpHeight
    PROVE  DpBytes(y, h) \subseteq DpSynced(y, h) /\ DpSynced(y, h) \subseteq 0 .. DpUp(DpLen) - 1
<1>1. DpRow \in Nat \ {0} /\ DpHeight \in Nat \ {0}
  BY DpAssumption
<1>2. PICK from, end, len : from = y * DpRow /\ end = (y + h) * DpRow /\ len = DpLen
  OBVIOUS
<1>3. from \in Nat /\ end \in Nat /\ len \in Nat /\ end <= len
  <2>1. y \in Nat /\ y + h \in Nat /\ DpHeight - (y + h) \in Nat
    BY <1>1
  <2>2. (DpHeight - (y + h)) * DpRow \in Nat
    BY <1>1, <2>1
  <2>3. DpRow * DpHeight = (DpHeight - (y + h)) * DpRow + (y + h) * DpRow
    BY <1>1, <2>1
  <2>4. from \in Nat /\ end \in Nat /\ len \in Nat
    BY <1>1, <1>2, <2>1 DEF DpLen
  <2>5. len = (DpHeight - (y + h)) * DpRow + end
    BY <1>2, <2>3 DEF DpLen
  <2> QED BY <2>2, <2>4, <2>5
<1>4. PICK low, up, all : low = (from \div DpLine) * DpLine /\ up = DpUp(end) /\ all = DpUp(len)
  OBVIOUS
<1>5. /\ low \in 0 .. from /\ up \in Nat /\ end <= up /\ all \in Nat /\ len <= all
  BY <1>3, <1>4, DpRoundsUp
<1>6. DpBytes(y, h) = from .. end - 1
  BY <1>2 DEF DpBytes
<1>7. DpSynced(y, h) = low .. (IF up > len THEN all ELSE up) - 1
  BY <1>2, <1>4 DEF DpSynced
<1>8. DpUp(DpLen) = all
  BY <1>2, <1>4
<1> QED BY <1>3, <1>5, <1>6, <1>7, <1>8

\* An object more, the newest.
LEMMA DpOneMore ==
    ASSUME NEW objs \in DpObjects, NEW n \in Nat \ {0}
    PROVE  LET more == Append(objs, [id |-> n, deinited |-> FALSE])
           IN  more \in DpObjects /\ Len(more) > 0 /\ more[Len(more)].id = n
<1>1. [id |-> n, deinited |-> FALSE] \in [id : Nat \ {0}, deinited : BOOLEAN]
  OBVIOUS
<1>2. PICK S : S = [id : Nat \ {0}, deinited : BOOLEAN]
  OBVIOUS
<1>3. PICK a : a = [id |-> n, deinited |-> FALSE]
  OBVIOUS
<1>4. objs \in Seq(S) /\ a \in S /\ a.id = n
  BY <1>1, <1>2, <1>3 DEF DpObjects
<1>5. Append(objs, a) \in Seq(S) /\ Len(Append(objs, a)) = Len(objs) + 1
      /\ Append(objs, a)[Len(objs) + 1] = a /\ Len(objs) \in Nat
  BY <1>4, AppendProperties, LenProperties
<1> QED BY <1>2, <1>3, <1>4, <1>5 DEF DpObjects

\* An object's end is its own.
LEMMA DpOneEnds ==
    ASSUME NEW objs \in DpObjects, NEW o \in DOMAIN objs
    PROVE  /\ [objs EXCEPT ![o].deinited = TRUE] \in DpObjects
           /\ objs[o].id \in Nat \ {0}
<1>1. PICK S : S = [id : Nat \ {0}, deinited : BOOLEAN]
  OBVIOUS
<1>2. objs \in Seq(S) /\ objs[o] \in S
  BY <1>1, ElementOfSeq, LenProperties DEF DpObjects
<1>3. PICK a : a = [objs[o] EXCEPT !.deinited = TRUE]
  OBVIOUS
<1>4. a \in S /\ objs[o].id \in Nat \ {0}
  BY <1>1, <1>2, <1>3
<1>5. [objs EXCEPT ![o] = a] \in Seq(S)
  BY <1>2, <1>4, ExceptSeq
<1>6. [objs EXCEPT ![o].deinited = TRUE] = [objs EXCEPT ![o] = a]
  BY <1>3
<1> QED BY <1>1, <1>4, <1>5, <1>6 DEF DpObjects

\* The state, as what the operators take.
LEMMA DpNowIs ==
    /\ DpNow.idf = dpIdf /\ DpNow.host = dpHost /\ DpNow.wrong = dpWrong
    /\ DpInv => DpClean(DpNow)
BY DEF DpNow, DpInv, DpClean

\* What gives up the host leaves it nothing.
LEMMA DpTears ==
    ASSUME DpInv, NEW s, s = DpTorn(DpNow)
    PROVE  DpClean(s) /\ \A f \in DpFields : s.idf[f] = 0
BY DpNowIs, DpEnds DEF DpWithout

\* It is kept by what the objects do,
LEMMA DpObjectsStep ==
    ASSUME ~DpStale, DpInv,
           \/ \E f \in {"none", "ldo", "bus"} : DpMakeBus(f)
           \/ \E b \in DOMAIN dpBuses, f \in DpSteps \cup {"none"} : DpMakeDisplay(b, f)
           \/ \E b \in DOMAIN dpBuses : DpBusDeinit(b)
           \/ \E d \in DOMAIN dpDisplays : DpDisplayDeinit(d)
           \/ DpSoftReset
    PROVE  DpInv'
<1>0. /\ DpFields = {"ldo", "bus", "io", "panel", "buf"} /\ dpMade \in Nat
      /\ dpBuses \in DpObjects /\ dpDisplays \in DpObjects /\ dpHost = dpIdf /\ dpWrong = {}
      /\ DpWhole(dpIdf, dpBuses) /\ DpClean(DpNow)
  BY DpNowIs DEF DpFields, DpInv
<1>1. PICK t : t = DpTorn(DpNow)
  OBVIOUS
<1>2. DpClean(t) /\ t.idf["ldo"] = 0 /\ t.idf["bus"] = 0 /\ t.idf["buf"] = 0
  BY <1>0, <1>1, DpTears
<1>3. ASSUME NEW f \in {"none", "ldo", "bus"}, DpMakeBus(f) PROVE DpInv'
  <2>1. PICK n, p, s : /\ n = dpMade + 1 /\ p = (IF f = "ldo" THEN t ELSE DpAcquire(t, "ldo", n))
                       /\ s = (IF f = "none" THEN DpAcquire(p, "bus", n) ELSE p)
    OBVIOUS
  <2>2. n \in Nat \ {0} /\ n \in Nat
    BY <1>0, <2>1
  <2>3. DpClean(p) /\ p.idf["bus"] = 0 /\ p.idf["buf"] = 0
    BY <1>0, <1>2, <2>1, <2>2, DpAcquires
  <2>4. DpClean(s) /\ s.idf["bus"] = (IF f = "none" THEN n ELSE 0) /\ s.idf["buf"] = 0
    BY <1>0, <2>1, <2>2, <2>3, DpAcquires
  <2>5. /\ dpIdf' = s.idf /\ dpHost' = s.host /\ dpWrong' = s.wrong /\ dpMade' = n
        /\ dpBuses' = (IF f = "none" THEN Append(dpBuses, [id |-> n, deinited |-> FALSE])
                       ELSE dpBuses)
        /\ dpDisplays' = dpDisplays
    BY <1>1, <1>3, <2>1 DEF DpMakeBus, DpBecomes
  <2>6. dpBuses' \in DpObjects /\ (f = "none" => Len(dpBuses') > 0 /\ dpBuses'[Len(dpBuses')].id = n)
    BY <1>0, <2>2, <2>5, DpOneMore
  <2>7. DpWhole(dpIdf', dpBuses')
    BY <2>4, <2>5, <2>6 DEF DpWhole
  <2> QED BY <1>0, <2>2, <2>4, <2>5, <2>6, <2>7 DEF DpInv, DpClean
<1>4. ASSUME NEW b \in DOMAIN dpBuses, NEW f \in DpSteps \cup {"none"}, DpMakeDisplay(b, f)
      PROVE  DpInv'
  <2>1. PICK n, e, s : n = dpMade + 1 /\ e = DpDisplayEnded(DpNow) /\ s = DpBuilt(e, f, n)
    OBVIOUS
  <2>2. n \in Nat \ {0}
    BY <1>0, <2>1
  <2>3. /\ DpClean(e) /\ e.idf["panel"] = 0 /\ e.idf["io"] = 0 /\ e.idf["buf"] = 0
        /\ e.idf["bus"] = dpIdf["bus"]
    BY <1>0, <2>1, DpEnds, DpNowIs DEF DpWithout
  <2>4. /\ DpClean(s) /\ s.idf["bus"] = dpIdf["bus"]
        /\ s.idf["buf"] # 0 => s.idf["panel"] = s.idf["buf"]
    BY <2>1, <2>2, <2>3, DpBuilds
  <2>5. /\ dpIdf' = s.idf /\ dpHost' = s.host /\ dpWrong' = DpUse(s.wrong, "bus", dpBuses[b].id)
        /\ dpMade' = n /\ dpBuses' = dpBuses
        /\ dpDisplays' = (IF f = "none" THEN Append(dpDisplays, [id |-> n, deinited |-> FALSE])
                          ELSE dpDisplays)
    BY <1>4, <2>1 DEF DpMakeDisplay
  <2>6. dpHost["bus"] # 0 /\ b = Len(dpBuses)
    BY <1>4 DEF DpMakeDisplay, DpBusOk
  <2>7. dpIdf["bus"] = dpBuses[b].id
    BY <1>0, <2>6 DEF DpWhole
  <2>8. dpWrong' = {}
    BY <2>4, <2>5, <2>7 DEF DpUse, DpClean
  <2>9. dpDisplays' \in DpObjects
    BY <1>0, <2>2, <2>5, DpOneMore
  <2>10. DpWhole(dpIdf', dpBuses')
    BY <1>0, <2>4, <2>5 DEF DpWhole
  <2> QED BY <1>0, <2>2, <2>4, <2>5, <2>8, <2>9, <2>10 DEF DpInv, DpClean
<1>5. ASSUME NEW b \in DOMAIN dpBuses, DpBusDeinit(b) PROVE DpInv'
  <2>1. /\ dpIdf' = t.idf /\ dpHost' = t.host /\ dpWrong' = t.wrong
        /\ dpBuses' = [dpBuses EXCEPT ![b].deinited = TRUE] /\ UNCHANGED <<dpDisplays, dpMade>>
    BY <1>1, <1>5 DEF DpBusDeinit, DpBecomes
  <2>2. dpBuses' \in DpObjects
    BY <1>0, <2>1, DpOneEnds
  <2>3. DpWhole(dpIdf', dpBuses')
    BY <1>2, <2>1 DEF DpWhole
  <2> QED BY <1>0, <1>2, <2>1, <2>2, <2>3 DEF DpInv, DpClean
<1>6. ASSUME NEW d \in DOMAIN dpDisplays, DpDisplayDeinit(d) PROVE DpInv'
  <2>1. PICK e : e = DpDisplayEnded(DpNow)
    OBVIOUS
  <2>2. /\ dpIdf' = e.idf /\ dpHost' = e.host /\ dpWrong' = e.wrong
        /\ dpDisplays' = [dpDisplays EXCEPT ![d].deinited = TRUE] /\ UNCHANGED <<dpBuses, dpMade>>
    BY <1>6, <2>1 DEF DpDisplayDeinit, DpBecomes
  <2>3. DpClean(e) /\ e.idf["buf"] = 0 /\ e.idf["bus"] = dpIdf["bus"]
    BY <1>0, <2>1, DpEnds, DpNowIs DEF DpWithout
  <2>4. dpDisplays' \in DpObjects
    BY <1>0, <2>2, DpOneEnds
  <2>5. DpWhole(dpIdf', dpBuses')
    BY <1>0, <2>2, <2>3 DEF DpWhole
  <2> QED BY <1>0, <2>2, <2>3, <2>4, <2>5 DEF DpInv, DpClean
<1>7. ASSUME DpSoftReset PROVE DpInv'
  <2>1. /\ dpIdf' = t.idf /\ dpHost' = t.host /\ dpWrong' = t.wrong
        /\ dpBuses' = <<>> /\ dpDisplays' = <<>> /\ dpMade' = dpMade
    BY <1>1, <1>7 DEF DpSoftReset, DpBecomes
  <2>2. <<>> \in DpObjects
    BY DEF DpObjects
  <2>3. DpWhole(dpIdf', dpBuses')
    BY <1>2, <2>1 DEF DpWhole
  <2> QED BY <1>0, <1>2, <2>1, <2>2, <2>3 DEF DpInv, DpClean
<1> QED BY <1>3, <1>4, <1>5, <1>6, <1>7

\* and by what paints.
LEMMA DpPaintsStep ==
    ASSUME ~DpStale, DpInv,
           \/ \E d \in DOMAIN dpDisplays, y \in 0 .. DpHeight - 1 : DpWrite(d, y)
           \/ \E d \in DOMAIN dpDisplays, y \in 0 .. DpHeight - 1, h \in 1 .. DpHeight, p \in BOOLEAN :
                  DpRows(d, y, h, p)
    PROVE  DpInv'
<1>0. dpDisplays \in DpObjects /\ dpHost = dpIdf /\ dpWrong = {} /\ DpWhole(dpIdf, dpBuses)
  BY DEF DpInv
<1>1. ASSUME NEW d \in DOMAIN dpDisplays, DpUsable(d)
      PROVE  dpIdf["buf"] = dpDisplays[d].id /\ dpIdf["panel"] = dpDisplays[d].id
  <2>1. dpDisplays[d].id \in Nat \ {0}
    BY <1>0, DpOneEnds
  <2>2. dpHost["buf"] = dpDisplays[d].id
    BY <1>1 DEF DpUsable
  <2> QED BY <1>0, <2>1, <2>2 DEF DpWhole
<1>2. ASSUME dpWrong' = {}, UNCHANGED <<dpIdf, dpHost, dpBuses, dpDisplays, dpMade>>
      PROVE  DpInv'
  BY <1>2 DEF DpInv, DpWhole
<1>3. ASSUME NEW d \in DOMAIN dpDisplays, NEW y \in 0 .. DpHeight - 1, DpWrite(d, y) PROVE DpInv'
  <2>1. DpUsable(d) /\ dpWrong' = DpUse(dpWrong, "buf", dpDisplays[d].id)
        /\ UNCHANGED <<dpIdf, dpHost, dpBuses, dpDisplays, dpMade>>
    BY <1>3 DEF DpWrite
  <2>2. dpWrong' = {}
    BY <1>0, <1>1, <2>1 DEF DpUse
  <2> QED BY <1>2, <2>1, <2>2
<1>4. ASSUME NEW d \in DOMAIN dpDisplays, NEW y \in 0 .. DpHeight - 1, NEW h \in 1 .. DpHeight,
             NEW p \in BOOLEAN, DpRows(d, y, h, p)
      PROVE  DpInv'
  <2>1. PICK w, wrote : /\ w = DpUse(dpWrong, "buf", dpDisplays[d].id)
                        /\ wrote = (IF p THEN dpDirty ELSE dpDirty \cup DpBytes(y, h))
    OBVIOUS
  <2>2. /\ DpUsable(d) /\ y + h <= DpHeight /\ dpDirty' = wrote \ DpSynced(y, h)
        /\ dpWrong' = (IF p THEN DpUse(w, "panel", dpDisplays[d].id) ELSE w)
                \cup (IF DpBytes(y, h) \cap dpDirty' # {} THEN {"unseen"} ELSE {})
                \cup (IF DpSynced(y, h) \subseteq 0 .. DpUp(DpLen) - 1 THEN {} ELSE {"beyond"})
        /\ UNCHANGED <<dpIdf, dpHost, dpBuses, dpDisplays, dpMade>>
    BY <1>4, <2>1 DEF DpRows
  <2>3. w = {} /\ DpUse(w, "panel", dpDisplays[d].id) = {}
    BY <1>0, <1>1, <2>1, <2>2 DEF DpUse
  <2>4. DpBytes(y, h) \cap dpDirty' = {} /\ DpSynced(y, h) \subseteq 0 .. DpUp(DpLen) - 1
    BY <2>2, DpSyncs
  <2>5. dpWrong' = {}
    BY <2>2, <2>3, <2>4
  <2> QED BY <1>2, <2>2, <2>5
<1> QED BY <1>3, <1>4

\* What ESP-IDF has is known wherever a constructor failed, nothing is taken twice, the bus goes
\* last, and what a call has synced is seen, for any panel and cache line. A program uses the newest Bus
\* and Display it made. (mod_mipidsi.c)
THEOREM DpKeepsTheHost == ~DpStale => (DpSpec => []DpSafe)
<1>. SUFFICES ASSUME ~DpStale PROVE DpSpec => []DpSafe
  OBVIOUS
<1>1. DpInit => DpInv
  <2>1. <<>> \in DpObjects
    BY DEF DpObjects
  <2>2. DpNothing \in [DpFields -> Nat] /\ DpNothing["bus"] = 0 /\ DpNothing["buf"] = 0
    BY DEF DpNothing, DpFields
  <2> QED BY <2>1, <2>2 DEF DpInit, DpInv, DpWhole
<1>2. DpInv /\ [DpNext]_dpVars => DpInv'
  <2>. SUFFICES ASSUME DpInv, [DpNext]_dpVars PROVE DpInv'
    OBVIOUS
  <2>1. CASE UNCHANGED dpVars
    BY <2>1 DEF dpVars, DpInv, DpWhole
  <2>2. CASE DpNext
    BY <2>2, DpObjectsStep, DpPaintsStep DEF DpNext
  <2> QED BY <2>1, <2>2
<1>3. DpInv => DpSafe
  BY DEF DpInv, DpSafe, DpMirrored, DpNeverWrong
<1> QED BY <1>1, <1>2, <1>3, PTL DEF DpSpec

-----------------------------------------------------------------------------
(***************************************************************************)
(* The DVI scanout, for a program that keeps the object that is showing.   *)
(* Inductive is that whatever runs is of the object that is active, at a   *)
(* command of its list that is not the last, and that a stop in hand has   *)
(* put out what it has passed.                                             *)
(***************************************************************************)

\* What a mode is.
LEMMA PvModeIs ==
    ASSUME NEW m \in PvModes
    PROVE  /\ {m.sync, m.back, m.active, m.front} \subseteq Nat \ {0}
           /\ m.words \in {2, 4} /\ m.scale \in Nat \ {0} /\ m.active % m.scale = 0
<1>1. PICK s \in PvScales :
        m = [sync |-> PvSync, back |-> PvBack, active |-> PvLines, front |-> PvFront,
             scale |-> s, words |-> IF s > 1 THEN 4 ELSE 2]
  BY DEF PvModes
<1>2. /\ m.sync = PvSync /\ m.back = PvBack /\ m.active = PvLines /\ m.front = PvFront
      /\ m.scale = s /\ m.words = IF s > 1 THEN 4 ELSE 2
  BY <1>1
<1> QED BY <1>2, PvAssumption

\* The active lines before a line.
PvBefore(m, line) ==
    IF line <= m.sync + m.back THEN 0
    ELSE IF line <= m.sync + m.back + m.active THEN line - (m.sync + m.back)
    ELSE m.active

\* Where a line's commands begin, in numbers.
LEMMA PvLineAtIs ==
    ASSUME NEW m \in PvModes, NEW line \in Nat
    PROVE  PvLineAt(m, line) = (line + PvBefore(m, line)) * m.words
<1>1. {m.sync, m.back, m.active, m.front} \subseteq Nat \ {0}
  BY PvModeIs
<1>2. PICK a, b, low, up : /\ a = m.sync + m.back /\ b = m.sync + m.back + m.active
                           /\ low = a /\ up = (IF line <= b THEN line - 1 ELSE b - 1)
  OBVIOUS
<1>3. a \in Nat /\ b \in Nat /\ low \in Int /\ up \in Int /\ b = a + m.active /\ a < b
  BY <1>1, <1>2
<1>4. {l \in 0 .. line - 1 : PvActive(m, l)} = low .. up
  <2>1. \A l \in 0 .. line - 1 : PvActive(m, l) <=> a <= l /\ l < b
    BY <1>2 DEF PvActive
  <2>2. \A l : l \in low .. up <=> l \in 0 .. line - 1 /\ a <= l /\ l < b
    BY <1>2, <1>3
  <2> QED BY <2>1, <2>2
<1>5. Cardinality(low .. up) = IF low > up THEN 0 ELSE up - low + 1
  BY <1>3, FS_Interval
<1>6. PvBefore(m, line) = IF low > up THEN 0 ELSE up - low + 1
  BY <1>1, <1>2, <1>3 DEF PvBefore
<1> QED BY <1>4, <1>5, <1>6 DEF PvLineAt

\* Commands there are before the last.
PvCommands(m) == PvTotal(m) + m.active

\* The DMA is at one of them.
PvOn(m, word) == \E k \in 0 .. PvCommands(m) - 1 : word = k * m.words

\* It is in the list, and its row is one of the frame buffer's.
LEMMA PvReadsRow ==
    ASSUME NEW m \in PvModes, NEW word, PvOn(m, word)
    PROVE  /\ word + m.words <= PvListWords(m)
           /\ PvPixels(m, word) =>
                PvRow(m, PvLineOf(m, word)) \in 0 .. (m.active \div m.scale) - 1
<1>1. /\ {m.sync, m.back, m.active, m.front} \subseteq Nat \ {0}
      /\ m.words \in {2, 4} /\ m.scale \in Nat \ {0} /\ m.active % m.scale = 0
  BY PvModeIs
<1>2. PICK k \in 0 .. PvCommands(m) - 1 : word = k * m.words
  BY DEF PvOn
<1>3. PICK a, t : a = m.sync + m.back /\ t = PvTotal(m)
  OBVIOUS
<1>4. a \in Nat /\ t \in Nat /\ t = a + m.active + m.front /\ k \in 0 .. t + m.active - 1
  BY <1>1, <1>3 DEF PvTotal, PvCommands
<1>5. word + m.words <= PvListWords(m)
  <2>1. PvListWords(m) = (t + m.active + 1) * m.words
    BY <1>1, <1>3, <1>4 DEF PvListWords
  <2>2. (k + 1) * m.words <= (t + m.active + 1) * m.words
    BY <1>1, <1>4
  <2>3. word + m.words = (k + 1) * m.words
    <3>1. PICK w \in {2, 4} : w = m.words
      BY <1>1
    <3>2. PICK j \in Int : j = k
      BY <1>4
    <3>3. word = j * w
      BY <1>2, <3>1, <3>2
    <3>4. j * w + w = (j + 1) * w
      BY <3>1, <3>2
    <3> QED BY <3>1, <3>2, <3>3, <3>4
  <2> QED BY <2>1, <2>2, <2>3
<1>6. \E l \in 0 .. t : /\ PvLineAt(m, l) <= word
                        /\ l = t \/ word < PvLineAt(m, l + 1)
  <2>1. PICK l : l = IF k < a THEN k ELSE IF k < a + 2 * m.active THEN a + (k - a) \div 2
                     ELSE k - m.active
    OBVIOUS
  <2>2. l \in 0 .. t /\ l + PvBefore(m, l) <= k /\ k < (l + 1) + PvBefore(m, l + 1)
    <3>1. CASE k < a
      BY <1>1, <1>3, <1>4, <2>1, <3>1 DEF PvBefore
    <3>2. CASE k >= a /\ k < a + 2 * m.active
      <4>1. PICK h : h = (k - a) \div 2
        OBVIOUS
      <4>2. h \in Nat /\ 2 * h <= k - a /\ k - a < 2 * h + 2
        BY <1>1, <1>4, <3>2, <4>1
      <4>3. l = a + h /\ h < m.active
        BY <1>1, <1>4, <2>1, <3>2, <4>1, <4>2
      <4>4. PvBefore(m, l) = h /\ PvBefore(m, l + 1) = h + 1
        BY <1>1, <1>3, <1>4, <4>2, <4>3 DEF PvBefore
      <4> QED BY <1>1, <1>4, <4>2, <4>3, <4>4
    <3>3. CASE k >= a + 2 * m.active
      BY <1>1, <1>3, <1>4, <2>1, <3>3 DEF PvBefore
    <3> QED BY <1>1, <1>4, <3>1, <3>2, <3>3
  <2>3. PICK p, q : p = l + PvBefore(m, l) /\ q = (l + 1) + PvBefore(m, l + 1)
    OBVIOUS
  <2>4. p \in Nat /\ q \in Nat /\ p <= k /\ k < q /\ l \in Nat
    BY <1>1, <1>4, <2>2, <2>3 DEF PvBefore
  <2>5. p * m.words <= k * m.words /\ k * m.words < q * m.words
    BY <1>1, <1>4, <2>4
  <2>6. PvLineAt(m, l) = p * m.words /\ PvLineAt(m, l + 1) = q * m.words
    BY <2>3, <2>4, PvLineAtIs
  <2> QED BY <1>2, <2>2, <2>5, <2>6
<1>7. PvLineOf(m, word) \in 0 .. t
  BY <1>3, <1>6 DEF PvLineOf
<1>8. ASSUME PvPixels(m, word)
      PROVE  PvRow(m, PvLineOf(m, word)) \in 0 .. (m.active \div m.scale) - 1
  <2>1. PICK l : l = PvLineOf(m, word)
    OBVIOUS
  <2>2. l \in Nat /\ a <= l /\ l < a + m.active
    BY <1>1, <1>3, <1>4, <1>7, <1>8, <2>1 DEF PvPixels, PvActive
  <2>3. PICK x, q, s, A : x = l - a /\ q = (l - a) \div m.scale /\ s = m.scale /\ A = m.active
    OBVIOUS
  <2>4. PICK n : n = A \div s
    OBVIOUS
  <2>5. s \in Nat \ {0} /\ A \in Nat /\ x \in Nat /\ x < A /\ A % s = 0
    BY <1>1, <1>4, <2>2, <2>3
  <2>6. A = s * n + (A % s) /\ n \in Nat
    BY <2>4, <2>5
  <2>7. q \in Nat /\ s * q <= x
    BY <2>3, <2>5
  <2>8. s * q < s * n
    BY <2>5, <2>6, <2>7
  <2>9. q < n
    <3>1. SUFFICES ASSUME q >= n PROVE FALSE
      BY <2>6, <2>7
    <3>2. PICK d \in Nat : q = n + d
      BY <2>6, <2>7, <3>1
    <3>3. s * q = s * n + s * d /\ s * d \in Nat /\ s * n \in Nat
      BY <2>5, <2>6, <3>2
    <3> QED BY <2>8, <3>3
  <2>10. PvRow(m, l) = q
    BY <1>3, <2>3 DEF PvRow
  <2> QED BY <2>1, <2>3, <2>4, <2>6, <2>7, <2>9, <2>10
<1> QED BY <1>5, <1>8

\* The first command is one before the last, and so is the next but at the end.
LEMMA PvGoesOn ==
    ASSUME NEW m \in PvModes
    PROVE  /\ PvOn(m, 0)
           /\ \A word : PvOn(m, word) /\ ~PvEnd(m, word + m.words) => PvOn(m, word + m.words)
<1>1. {m.sync, m.back, m.active, m.front} \subseteq Nat \ {0} /\ m.words \in {2, 4}
  BY PvModeIs
<1>2. PICK c : c = PvCommands(m)
  OBVIOUS
<1>3. c \in Nat \ {0} /\ PvTotal(m) \in Nat /\ PvLineAt(m, PvTotal(m)) = c * m.words
  <2>1. PvTotal(m) \in Nat /\ PvTotal(m) > m.sync + m.back + m.active
    BY <1>1 DEF PvTotal
  <2>2. PvBefore(m, PvTotal(m)) = m.active
    BY <1>1, <2>1 DEF PvBefore
  <2>3. PvLineAt(m, PvTotal(m)) = (PvTotal(m) + m.active) * m.words
    BY <2>1, <2>2, PvLineAtIs
  <2> QED BY <1>1, <1>2, <2>1, <2>3 DEF PvCommands
<1>4. PvOn(m, 0)
  <2>1. 0 \in 0 .. c - 1 /\ 0 = 0 * m.words
    BY <1>1, <1>3
  <2> QED BY <1>2, <2>1 DEF PvOn
<1>5. ASSUME NEW word, PvOn(m, word), ~PvEnd(m, word + m.words) PROVE PvOn(m, word + m.words)
  <2>1. PICK k \in 0 .. c - 1 : word = k * m.words
    BY <1>2, <1>5 DEF PvOn
  <2>2. word + m.words = (k + 1) * m.words
    BY <1>1, <1>3, <2>1
  <2>3. k + 1 # c
    BY <1>3, <1>5, <2>2 DEF PvEnd
  <2>4. k + 1 \in 0 .. c - 1
    BY <1>3, <2>3
  <2> QED BY <1>2, <2>2, <2>4 DEF PvOn
<1> QED BY <1>4, <1>5

PvObjects == Seq([mode : PvModes, mem : BOOLEAN])

\* An object has a mode of those there are.
LEMMA PvHasMode ==
    ASSUME pvObjs \in PvObjects, NEW x \in DOMAIN pvObjs
    PROVE  x # 0 /\ pvObjs[x].mode \in PvModes
<1>1. PICK S : S = [mode : PvModes, mem : BOOLEAN]
  OBVIOUS
<1>2. pvObjs \in Seq(S)
  BY <1>1 DEF PvObjects
<1>3. x \in 1 .. Len(pvObjs)
  BY <1>2, LenProperties
<1>4. pvObjs[x] \in S
  BY <1>2, <1>3, ElementOfSeq
<1>5. pvObjs[x].mode \in PvModes
  BY <1>1, <1>4
<1>6. x # 0
  BY <1>2, <1>3, LenProperties
<1> QED BY <1>5, <1>6

PvSteps == {"none", "pixel", "command", "stopped"}

\* What is live is an object's, whose memory is there, and has two channels of its own.
PvLives ==
    pvHw.live =>
        /\ pvHw.active \in DOMAIN pvObjs /\ pvObjs[pvHw.active].mem
        /\ pvStop.step # "stopped"
        /\ pvStop.step = "none" => /\ {pvHw.pixel, pvHw.command} \subseteq pvClaimed \ pvOthers
                                   /\ pvHw.pixel # pvHw.command

\* What runs is live, and no stop has passed it.
PvRuns ==
    /\ pvDma.busy \/ pvIrq => pvHw.live /\ pvStop.step \in {"none", "pixel"}
    /\ pvDma.busy => pvDma.obj = pvHw.active /\ PvOn(pvObjs[pvDma.obj].mode, pvDma.word)

\* A stop is for an object, or for all.
PvStops ==
    /\ pvStop.step \in PvSteps
    /\ pvStop.step = "none" => pvStop = PvRest
    /\ pvStop.step # "none" /\ pvStop.then # "reset" => pvStop.obj \in DOMAIN pvObjs

PvInv ==
    /\ pvObjs \in PvObjects /\ pvDma.busy \in BOOLEAN /\ pvIrq \in BOOLEAN
    /\ pvHw.live \in BOOLEAN
    /\ pvDma = [on |-> pvDma.on, busy |-> pvDma.busy, obj |-> pvDma.obj, word |-> pvDma.word]
    /\ pvStop = [step |-> pvStop.step, then |-> pvStop.then, obj |-> pvStop.obj]
    /\ PvLives /\ PvRuns /\ PvStops

\* What runs is where it may be.
LEMMA PvAgrees == PvInv => PvSafe
<1>. SUFFICES ASSUME PvInv PROVE PvSafe
  OBVIOUS
<1>1. PvReadsOwn
  <2>. SUFFICES ASSUME pvDma.busy
                PROVE  LET o == pvObjs[pvDma.obj] IN
                       /\ o.mem /\ pvDma.word + o.mode.words <= PvListWords(o.mode)
                       /\ PvPixels(o.mode, pvDma.word) =>
                              PvRow(o.mode, PvLineOf(o.mode, pvDma.word)) \in
                                  0 .. (o.mode.active \div o.mode.scale) - 1
    BY DEF PvReadsOwn
  <2>1. PICK o, m : o = pvObjs[pvDma.obj] /\ m = o.mode
    OBVIOUS
  <2>2. pvHw.live /\ pvDma.obj = pvHw.active /\ PvOn(m, pvDma.word)
    BY <2>1 DEF PvInv, PvRuns
  <2>3. pvDma.obj \in DOMAIN pvObjs /\ o.mem
    BY <2>1, <2>2 DEF PvInv, PvLives
  <2>4. m \in PvModes
    BY <2>1, <2>3, PvHasMode DEF PvInv
  <2> QED BY <2>1, <2>2, <2>3, <2>4, PvReadsRow
<1>2. PvStopped
  BY DEF PvInv, PvRuns, PvStopped
<1>3. PvOwns
  BY DEF PvInv, PvLives, PvOwns
<1> QED BY <1>1, <1>2, <1>3 DEF PvSafe

\* The hardware's steps, and the core's in a stop.
LEMMA PvHardware ==
    ASSUME PvInv, PvNextCommand \/ PvFrameEnds \/ PvStopPixel \/ PvStopRest
    PROVE  PvInv'
<1>1. CASE PvNextCommand
  <2>1. PICK o, m : o = pvObjs[pvDma.obj] /\ m = o.mode
    OBVIOUS
  <2>2. /\ pvDma.busy /\ pvDma' = [pvDma EXCEPT !.word = pvDma.word + m.words,
                                               !.busy = ~PvEnd(m, pvDma.word + m.words)]
        /\ pvIrq' = PvEnd(m, pvDma.word + m.words)
        /\ UNCHANGED <<pvObjs, pvHw, pvClaimed, pvStop, pvOthers>>
    BY <1>1, <2>1 DEF PvNextCommand
  <2>3. /\ pvHw.live /\ pvStop.step \in {"none", "pixel"} /\ pvDma.obj = pvHw.active
        /\ PvOn(m, pvDma.word)
    BY <2>1, <2>2 DEF PvInv, PvRuns
  <2>4. m \in PvModes
    <3>1. pvDma.obj \in DOMAIN pvObjs
      BY <2>3 DEF PvInv, PvLives
    <3> QED BY <2>1, <3>1, PvHasMode DEF PvInv
  <2>5. PICK w, e : w = pvDma.word + m.words /\ e = PvEnd(m, w)
    OBVIOUS
  <2>6. ~e => PvOn(m, w)
    BY <2>3, <2>4, <2>5, PvGoesOn
  <2>7. e \in BOOLEAN
    BY <2>5 DEF PvEnd
  <2>8. /\ pvDma'.busy = ~e /\ pvDma'.word = w /\ pvDma'.obj = pvDma.obj /\ pvIrq' = e
        /\ pvDma' = [on |-> pvDma'.on, busy |-> pvDma'.busy, obj |-> pvDma'.obj,
                     word |-> pvDma'.word]
    BY <2>2, <2>5, <2>7 DEF PvInv
  <2>9. PvLives' /\ PvStops'
    BY <2>2 DEF PvInv, PvLives, PvStops
  <2>10. PvRuns'
    BY <2>1, <2>2, <2>3, <2>6, <2>7, <2>8 DEF PvRuns
  <2> QED BY <2>2, <2>7, <2>8, <2>9, <2>10 DEF PvInv
<1>2. CASE PvFrameEnds
  <2>1. /\ pvIrq /\ pvIrq' = FALSE
        /\ pvDma' = IF pvHw.active = 0 THEN pvDma
                    ELSE [pvDma EXCEPT !.busy = TRUE, !.obj = pvHw.active, !.word = 0]
        /\ UNCHANGED <<pvObjs, pvHw, pvClaimed, pvStop, pvOthers>>
    BY <1>2 DEF PvFrameEnds
  <2>2. /\ pvHw.live /\ pvStop.step \in {"none", "pixel"} /\ pvHw.active \in DOMAIN pvObjs
    BY <2>1 DEF PvInv, PvRuns, PvLives
  <2>3. pvObjs[pvHw.active].mode \in PvModes /\ pvHw.active # 0
    BY <2>2, PvHasMode DEF PvInv
  <2>4. PvOn(pvObjs[pvHw.active].mode, 0)
    BY <2>3, PvGoesOn
  <2>5. /\ pvDma'.busy = TRUE /\ pvDma'.word = 0 /\ pvDma'.obj = pvHw.active
        /\ pvDma' = [on |-> pvDma'.on, busy |-> pvDma'.busy, obj |-> pvDma'.obj,
                     word |-> pvDma'.word]
    BY <2>1, <2>3 DEF PvInv
  <2>6. PvLives' /\ PvStops'
    BY <2>1 DEF PvInv, PvLives, PvStops
  <2>7. PvRuns'
    BY <2>1, <2>2, <2>4, <2>5 DEF PvRuns
  <2> QED BY <2>1, <2>5, <2>6, <2>7 DEF PvInv
<1>3. CASE PvStopPixel
  <2>1. /\ ~pvIrq /\ pvStop.step = "pixel" /\ pvDma' = PvNoDma
        /\ pvStop' = [pvStop EXCEPT !.step = "command"]
        /\ UNCHANGED <<pvObjs, pvHw, pvIrq, pvOthers>>
    BY <1>3 DEF PvStopPixel
  <2>2. /\ pvStop'.step = "command" /\ pvStop'.then = pvStop.then /\ pvStop'.obj = pvStop.obj
        /\ pvStop' = [step |-> pvStop'.step, then |-> pvStop'.then, obj |-> pvStop'.obj]
    BY <2>1 DEF PvInv
  <2>3. /\ pvDma'.busy = FALSE
        /\ pvDma' = [on |-> pvDma'.on, busy |-> pvDma'.busy, obj |-> pvDma'.obj,
                     word |-> pvDma'.word]
    BY <2>1 DEF PvNoDma
  <2>4. PvLives' /\ PvStops' /\ PvRuns'
    BY <2>1, <2>2, <2>3 DEF PvInv, PvLives, PvStops, PvRuns, PvSteps
  <2> QED BY <2>1, <2>2, <2>3, <2>4 DEF PvInv
<1>4. CASE PvStopRest
  <2>1. /\ ~pvIrq /\ pvStop.step = "command" /\ pvHw' = PvOff
        /\ pvStop' = [pvStop EXCEPT !.step = "stopped"]
        /\ UNCHANGED <<pvObjs, pvDma, pvIrq, pvOthers>>
    BY <1>4 DEF PvStopRest
  <2>2. /\ pvStop'.step = "stopped" /\ pvStop'.then = pvStop.then /\ pvStop'.obj = pvStop.obj
        /\ pvStop' = [step |-> pvStop'.step, then |-> pvStop'.then, obj |-> pvStop'.obj]
    BY <2>1 DEF PvInv
  <2>3. pvHw'.live = FALSE /\ ~pvDma.busy
    BY <2>1 DEF PvOff, PvInv, PvRuns
  <2>4. PvLives' /\ PvStops' /\ PvRuns'
    BY <2>1, <2>2, <2>3 DEF PvInv, PvLives, PvStops, PvRuns, PvSteps
  <2> QED BY <2>1, <2>2, <2>3, <2>4 DEF PvInv
<1> QED BY <1>1, <1>2, <1>3, <1>4

\* A stop that begins finds nothing live, or its channels.
LEMMA PvBegins ==
    ASSUME PvInv, PvIdle, NEW then \in {"make", "deinit", "reset"}, NEW obj,
           PvStopBegins(then, obj), pvObjs' \in PvObjects,
           then # "reset" => obj \in DOMAIN pvObjs',
           \A o \in DOMAIN pvObjs : o \in DOMAIN pvObjs' /\ pvObjs'[o] = pvObjs[o],
           UNCHANGED <<pvHw, pvClaimed, pvDma, pvIrq, pvOthers>>
    PROVE  PvInv'
<1>1. pvStop.step = "none" /\ ~pvIrq
  BY DEF PvIdle, PvRest
<1>2. /\ pvStop'.step = (IF pvHw.live THEN "pixel" ELSE "stopped")
      /\ pvStop'.then = then /\ pvStop'.obj = obj
      /\ pvStop' = [step |-> pvStop'.step, then |-> pvStop'.then, obj |-> pvStop'.obj]
  BY DEF PvStopBegins
<1>3. PvStops'
  BY <1>2 DEF PvStops, PvSteps
<1>4. PvLives'
  BY <1>1, <1>2 DEF PvInv, PvLives
<1>5. PvRuns'
  <2>1. pvDma.busy => /\ pvHw.live /\ pvDma.obj = pvHw.active
                      /\ PvOn(pvObjs[pvDma.obj].mode, pvDma.word)
    BY DEF PvInv, PvRuns
  <2>2. pvHw.live => pvHw.active \in DOMAIN pvObjs
    BY DEF PvInv, PvLives
  <2> QED BY <1>1, <1>2, <2>1, <2>2 DEF PvRuns
<1> QED BY <1>2, <1>3, <1>4, <1>5 DEF PvInv

\* Where a stop has ended, nothing runs, and what was not live is freed.
LEMMA PvFrees ==
    ASSUME PvInv, pvStop.step = "stopped", pvStop' = PvRest, pvObjs' \in PvObjects,
           UNCHANGED <<pvHw, pvDma, pvIrq>>
    PROVE  PvInv'
<1>1. ~pvHw.live /\ ~pvDma.busy /\ ~pvIrq
  BY DEF PvInv, PvLives, PvRuns
<1>2. /\ pvStop'.step = "none"
      /\ pvStop' = [step |-> pvStop'.step, then |-> pvStop'.then, obj |-> pvStop'.obj]
  BY DEF PvRest
<1>3. PvLives' /\ PvRuns' /\ PvStops'
  BY <1>1, <1>2 DEF PvLives, PvRuns, PvStops, PvSteps
<1> QED BY <1>1, <1>2, <1>3 DEF PvInv

\* Memory that comes or goes leaves the objects what they are.
LEMMA PvOneChanges ==
    ASSUME NEW objs \in PvObjects, NEW o \in DOMAIN objs, NEW mem \in BOOLEAN
    PROVE  /\ [objs EXCEPT ![o].mem = mem] \in PvObjects
           /\ DOMAIN [objs EXCEPT ![o].mem = mem] = DOMAIN objs
           /\ [objs EXCEPT ![o].mem = mem][o].mem = mem
           /\ [objs EXCEPT ![o].mem = mem][o].mode = objs[o].mode
           /\ objs[o].mode \in PvModes
           /\ \A p \in DOMAIN objs : p # o => [objs EXCEPT ![o].mem = mem][p] = objs[p]
<1>1. PICK S : S = [mode : PvModes, mem : BOOLEAN]
  OBVIOUS
<1>2. objs \in Seq(S) /\ objs[o] \in S
  BY <1>1, ElementOfSeq, LenProperties DEF PvObjects
<1>3. PICK a : a = [objs[o] EXCEPT !.mem = mem]
  OBVIOUS
<1>4. a \in S /\ a.mem = mem /\ a.mode = objs[o].mode /\ objs[o].mode \in PvModes
  BY <1>1, <1>2, <1>3
<1>5. [objs EXCEPT ![o] = a] \in Seq(S)
  BY <1>2, <1>4, ExceptSeq
<1>6. [objs EXCEPT ![o].mem = mem] = [objs EXCEPT ![o] = a]
  BY <1>3
<1>7. [objs EXCEPT ![o].mem = mem][o] = a
  BY <1>6
<1> QED BY <1>1, <1>4, <1>5, <1>6, <1>7 DEF PvObjects

\* The object's calls, and the collector.
LEMMA PvCalls ==
    ASSUME PvKeeps, PvInv,
           \/ \E m \in PvModes : PvMake(m)
           \/ PvMakeFails \/ PvNoChannels \/ PvStarts \/ PvDeinitFrees \/ PvSoftReset \/ PvSwept
           \/ \E o \in DOMAIN pvObjs : PvDeinit(o) \/ PvCollect(o)
    PROVE  PvInv'
<1>0. pvObjs \in PvObjects
  BY DEF PvInv
<1>1. ASSUME NEW m \in PvModes, PvMake(m) PROVE PvInv'
  <2>1. PICK a, S : a = [mode |-> m, mem |-> FALSE] /\ S = [mode : PvModes, mem : BOOLEAN]
    OBVIOUS
  <2>2. pvObjs \in Seq(S) /\ a \in S
    BY <1>0, <2>1 DEF PvObjects
  <2>3. pvObjs' = Append(pvObjs, a) /\ PvIdle /\ PvStopBegins("make", Len(pvObjs) + 1)
        /\ UNCHANGED <<pvHw, pvClaimed, pvDma, pvIrq, pvOthers>>
    BY <1>1, <2>1 DEF PvMake
  <2>4. /\ pvObjs' \in Seq(S) /\ Len(pvObjs') = Len(pvObjs) + 1 /\ Len(pvObjs) \in Nat
        /\ \A o \in 1 .. Len(pvObjs) : pvObjs'[o] = pvObjs[o]
    BY <2>2, <2>3, AppendProperties, LenProperties
  <2>5. DOMAIN pvObjs = 1 .. Len(pvObjs) /\ DOMAIN pvObjs' = 1 .. Len(pvObjs')
    BY <2>2, <2>4, LenProperties
  <2>6. /\ Len(pvObjs) + 1 \in DOMAIN pvObjs'
        /\ \A o \in DOMAIN pvObjs : o \in DOMAIN pvObjs' /\ pvObjs'[o] = pvObjs[o]
    BY <2>4, <2>5
  <2>7. pvObjs' \in PvObjects
    BY <2>1, <2>4 DEF PvObjects
  <2> QED BY <2>3, <2>6, <2>7, PvBegins
<1>2. CASE PvMakeFails \/ PvNoChannels
  <2>1. /\ pvStop.step = "stopped" /\ pvStop' = PvRest /\ UNCHANGED <<pvObjs, pvHw, pvDma, pvIrq>>
    BY <1>2 DEF PvMakeFails, PvNoChannels
  <2> QED BY <1>0, <2>1, PvFrees
<1>3. CASE PvStarts
  <2>1. PICK p \in PvFree, c \in PvFree :
          /\ p < c /\ pvClaimed' = pvClaimed \cup {p, c}
          /\ pvHw' = [live |-> TRUE, pixel |-> p, command |-> c, active |-> pvStop.obj]
    BY <1>3 DEF PvStarts
  <2>2. /\ pvStop.step = "stopped" /\ pvStop.then = "make"
        /\ pvObjs' = [pvObjs EXCEPT ![pvStop.obj].mem = TRUE]
        /\ pvDma' = [on |-> TRUE, busy |-> TRUE, obj |-> pvStop.obj, word |-> 0]
        /\ pvStop' = PvRest /\ UNCHANGED <<pvIrq, pvOthers>>
    BY <1>3 DEF PvStarts
  <2>3. pvStop.obj \in DOMAIN pvObjs /\ ~pvIrq
    BY <2>2 DEF PvInv, PvStops, PvRuns
  <2>4. PICK o : o = pvStop.obj
    OBVIOUS
  <2>5. /\ pvObjs' \in PvObjects /\ o \in DOMAIN pvObjs' /\ pvObjs'[o].mem
        /\ pvObjs'[o].mode \in PvModes
    BY <1>0, <2>2, <2>3, <2>4, PvOneChanges
  <2>6. PvOn(pvObjs'[o].mode, 0)
    BY <2>5, PvGoesOn
  <2>7. /\ pvHw'.live = TRUE /\ pvHw'.pixel = p /\ pvHw'.command = c /\ pvHw'.active = o
        /\ pvDma'.busy = TRUE /\ pvDma'.obj = o /\ pvDma'.word = 0 /\ pvDma'.on = TRUE
        /\ pvStop'.step = "none"
        /\ pvStop' = [step |-> pvStop'.step, then |-> pvStop'.then, obj |-> pvStop'.obj]
    BY <2>1, <2>2, <2>4 DEF PvRest
  <2>8. p # c /\ {p, c} \subseteq pvClaimed' \ pvOthers'
    BY <2>1, <2>2, PvAssumption DEF PvFree
  <2>9. PvLives'
    BY <2>5, <2>7, <2>8 DEF PvLives
  <2>10. PvRuns' /\ PvStops'
    BY <2>2, <2>6, <2>7 DEF PvRuns, PvStops, PvSteps
  <2>11. pvDma' = [on |-> pvDma'.on, busy |-> pvDma'.busy, obj |-> pvDma'.obj,
                   word |-> pvDma'.word]
    BY <2>2
  <2> QED BY <2>2, <2>3, <2>5, <2>7, <2>9, <2>10, <2>11 DEF PvInv
<1>4. CASE PvDeinitFrees
  <2>1. /\ pvStop.step = "stopped" /\ pvStop.then = "deinit" /\ pvStop' = PvRest
        /\ pvObjs' = [pvObjs EXCEPT ![pvStop.obj].mem = FALSE] /\ UNCHANGED <<pvHw, pvDma, pvIrq>>
    BY <1>4 DEF PvDeinitFrees
  <2>2. pvStop.obj \in DOMAIN pvObjs
    BY <2>1 DEF PvInv, PvStops
  <2>3. pvObjs' \in PvObjects
    BY <1>0, <2>1, <2>2, PvOneChanges
  <2> QED BY <2>1, <2>3, PvFrees
<1>5. CASE PvSoftReset
  BY <1>0, <1>5, PvBegins DEF PvSoftReset
<1>6. CASE PvSwept
  <2>1. /\ pvStop.step = "stopped" /\ pvStop' = PvRest /\ UNCHANGED <<pvHw, pvDma, pvIrq>>
        /\ pvObjs' = [o \in DOMAIN pvObjs |-> [pvObjs[o] EXCEPT !.mem = FALSE]]
    BY <1>6 DEF PvSwept
  <2>2. PICK S, n : S = [mode : PvModes, mem : BOOLEAN] /\ n = Len(pvObjs)
    OBVIOUS
  <2>3. n \in Nat /\ DOMAIN pvObjs = 1 .. n /\ \A o \in 1 .. n : pvObjs[o] \in S
    BY <1>0, <2>2, ElementOfSeq, LenProperties DEF PvObjects
  <2>4. \A o \in 1 .. n : [pvObjs[o] EXCEPT !.mem = FALSE] \in S
    BY <2>2, <2>3
  <2>5. pvObjs' \in [1 .. n -> S]
    BY <2>1, <2>3, <2>4
  <2>6. pvObjs' \in Seq(S)
    BY <2>3, <2>5, SeqDef
  <2>7. pvObjs' \in PvObjects
    BY <2>2, <2>6 DEF PvObjects
  <2> QED BY <2>1, <2>7, PvFrees
<1>7. ASSUME NEW o \in DOMAIN pvObjs, PvDeinit(o) PROVE PvInv'
  BY <1>0, <1>7, PvBegins DEF PvDeinit
<1>8. ASSUME NEW o \in DOMAIN pvObjs, PvCollect(o) PROVE PvInv'
  <2>1. /\ PvIdle /\ o # pvHw.active /\ pvObjs' = [pvObjs EXCEPT ![o].mem = FALSE]
        /\ UNCHANGED <<pvHw, pvClaimed, pvDma, pvIrq, pvStop, pvOthers>>
    BY <1>8 DEF PvCollect
  <2>2. /\ pvObjs' \in PvObjects /\ DOMAIN pvObjs' = DOMAIN pvObjs
        /\ \A q \in DOMAIN pvObjs : q # o => pvObjs'[q] = pvObjs[q]
    BY <1>0, <2>1, PvOneChanges
  <2>3. pvHw.live => pvHw.active \in DOMAIN pvObjs /\ pvObjs'[pvHw.active] = pvObjs[pvHw.active]
    BY <2>1, <2>2 DEF PvInv, PvLives
  <2>4. PvLives'
    BY <2>1, <2>2, <2>3 DEF PvInv, PvLives
  <2>5. PvRuns'
    BY <2>1, <2>3 DEF PvInv, PvRuns
  <2>6. PvStops'
    BY <2>1, <2>2 DEF PvInv, PvStops
  <2> QED BY <2>1, <2>2, <2>4, <2>5, <2>6 DEF PvInv
<1> QED BY <1>1, <1>2, <1>3, <1>4, <1>5, <1>6, <1>7, <1>8

\* The DMA walks a list and reads rows that are there, whatever step a construction or an end is
\* at; once stopped nothing runs; and both channels are its own: for any lines, scales and channels,
\* and a program that keeps the object that is showing. (picodvi_rp2350.c)
THEOREM PvReadsWhatIsThere == PvKeeps => (PvSpec => []PvSafe)
<1>. SUFFICES ASSUME PvKeeps PROVE PvSpec => []PvSafe
  OBVIOUS
<1>1. PvInit => PvInv
  <2>1. <<>> \in PvObjects
    BY DEF PvObjects
  <2>. SUFFICES ASSUME PvInit PROVE PvInv
    OBVIOUS
  <2>2. pvObjs \in PvObjects /\ pvIrq = FALSE
    BY <2>1 DEF PvInit
  <2>3. /\ pvHw.live = FALSE
        /\ pvDma.busy = FALSE
        /\ pvDma = [on |-> pvDma.on, busy |-> pvDma.busy, obj |-> pvDma.obj, word |-> pvDma.word]
    BY DEF PvInit, PvOff, PvNoDma
  <2>4. /\ pvStop = PvRest /\ pvStop.step = "none"
        /\ pvStop = [step |-> pvStop.step, then |-> pvStop.then, obj |-> pvStop.obj]
    BY DEF PvInit, PvRest
  <2>5. PvLives /\ PvRuns
    BY <2>2, <2>3 DEF PvLives, PvRuns
  <2>6. PvStops
    BY <2>4 DEF PvStops, PvSteps
  <2> QED BY <2>2, <2>3, <2>4, <2>5, <2>6 DEF PvInv
<1>2. PvInv /\ [PvNext]_pvVars => PvInv'
  <2>. SUFFICES ASSUME PvInv, [PvNext]_pvVars PROVE PvInv'
    OBVIOUS
  <2>1. CASE UNCHANGED pvVars
    BY <2>1 DEF pvVars, PvInv, PvLives, PvRuns, PvStops
  <2>2. CASE PvNext
    BY <2>2, PvHardware, PvCalls DEF PvNext
  <2> QED BY <2>1, <2>2
<1> QED BY <1>1, <1>2, PvAgrees, PTL DEF PvSpec

-----------------------------------------------------------------------------
(***************************************************************************)
(* The quad SPI bus, for any commands and any length of pixels. Inductive  *)
(* is that what the panel is still to be told is what is queued and then   *)
(* what the call in hand has still to say, in that order.                  *)
(***************************************************************************)

QbCmds == QbAll \cup {QbNone, "DISPOFF", "SLPIN"}
QbDatas == Nat \X Nat
QbWords == {"param", "copy", "tx", "drain", "all", "rest", "begin", "hold", "clear", "end", "gone"}
QbItems == [do : QbWords, cmd : QbCmds, data : QbDatas]
QbTold == [cmd : QbCmds, data : QbDatas]

\* The steps that tell the panel something.
QbTelling == {"param", "copy", "tx"}

\* What is said in the steps of a script is due, in that order: a count of what
\* is said before each step.
QbCountsIn(do, due, c) ==
    /\ c \in [0 .. Len(do) -> 0 .. Len(due)] /\ c[0] = 0 /\ c[Len(do)] = Len(due)
    /\ \A j, k \in 0 .. Len(do) : j <= k => c[j] <= c[k]
    /\ \A k \in 1 .. Len(do) :
           IF do[k].do \in QbTelling
           THEN c[k] = c[k - 1] + 1 /\ due[c[k]] = [cmd |-> do[k].cmd, data |-> do[k].data]
           ELSE c[k] = c[k - 1]
QbSays(do, due) ==
    do \in Seq(QbItems) /\ due \in Seq(QbTold) /\ \E c : QbCountsIn(do, due, c)

\* Nothing to do says nothing.
LEMMA QbSaysNothing ==
    /\ QbSays(<<>>, <<>>)
    /\ \A due : QbSays(<<>>, due) => due = <<>>
<1>1. <<>> \in Seq(QbItems) /\ <<>> \in Seq(QbTold) /\ Len(<<>>) = 0
  BY LenProperties
<1>2. QbSays(<<>>, <<>>)
  <2>1. QbCountsIn(<<>>, <<>>, [k \in 0 .. 0 |-> 0])
    BY <1>1 DEF QbCountsIn
  <2> QED BY <1>1, <2>1 DEF QbSays
<1>3. ASSUME NEW due, QbSays(<<>>, due) PROVE due = <<>>
  <2>1. due \in Seq(QbTold) /\ Len(due) = 0
    BY <1>1, <1>3 DEF QbSays, QbCountsIn
  <2> QED BY <2>1, EmptySeq
<1> QED BY <1>2, <1>3

\* One step.
LEMMA QbSaysOne ==
    ASSUME NEW i \in QbItems
    PROVE  /\ i.do \in QbTelling => QbSays(<<i>>, <<[cmd |-> i.cmd, data |-> i.data]>>)
           /\ i.do \notin QbTelling => QbSays(<<i>>, <<>>)
<1>1. <<i>> \in Seq(QbItems) /\ Len(<<i>>) = 1 /\ <<i>>[1] = i
  OBVIOUS
<1>2. PICK t : t = [cmd |-> i.cmd, data |-> i.data]
  OBVIOUS
<1>3. t \in QbTold
  BY <1>2 DEF QbItems, QbTold
<1>4. /\ <<t>> \in Seq(QbTold) /\ Len(<<t>>) = 1 /\ <<t>>[1] = t
      /\ <<>> \in Seq(QbTold) /\ Len(<<>>) = 0
  BY <1>3
<1>5. ASSUME i.do \in QbTelling PROVE QbSays(<<i>>, <<t>>)
  <2>1. QbCountsIn(<<i>>, <<t>>, [k \in 0 .. 1 |-> k])
    BY <1>1, <1>2, <1>4, <1>5 DEF QbCountsIn
  <2> QED BY <1>1, <1>4, <2>1 DEF QbSays
<1>6. ASSUME i.do \notin QbTelling PROVE QbSays(<<i>>, <<>>)
  <2>1. QbCountsIn(<<i>>, <<>>, [k \in 0 .. 1 |-> 0])
    BY <1>1, <1>4, <1>6 DEF QbCountsIn
  <2> QED BY <1>1, <1>4, <2>1 DEF QbSays
<1> QED BY <1>2, <1>5, <1>6

\* One script after another says the one's after the other's.
LEMMA QbSaysBoth ==
    ASSUME NEW do, NEW due, NEW on, NEW dueOn, QbSays(do, due), QbSays(on, dueOn)
    PROVE  QbSays(do \o on, due \o dueOn)
<1>1. /\ do \in Seq(QbItems) /\ on \in Seq(QbItems) /\ due \in Seq(QbTold) /\ dueOn \in Seq(QbTold)
      /\ Len(do) \in Nat /\ Len(on) \in Nat /\ Len(due) \in Nat /\ Len(dueOn) \in Nat
  BY LenProperties DEF QbSays
<1>2. PICK b, d : QbCountsIn(do, due, b) /\ QbCountsIn(on, dueOn, d)
  BY DEF QbSays
<1>3. /\ do \o on \in Seq(QbItems) /\ Len(do \o on) = Len(do) + Len(on)
      /\ \A k \in 1 .. Len(do) + Len(on) :
             (do \o on)[k] = IF k <= Len(do) THEN do[k] ELSE on[k - Len(do)]
  BY <1>1, ConcatProperties
<1>4. /\ due \o dueOn \in Seq(QbTold) /\ Len(due \o dueOn) = Len(due) + Len(dueOn)
      /\ \A k \in 1 .. Len(due) + Len(dueOn) :
             (due \o dueOn)[k] = IF k <= Len(due) THEN due[k] ELSE dueOn[k - Len(due)]
  BY <1>1, ConcatProperties
<1>5. PICK c : c = [k \in 0 .. Len(do) + Len(on) |->
                        IF k <= Len(do) THEN b[k] ELSE Len(due) + d[k - Len(do)]]
  OBVIOUS
<1>6. PICK l, m, x, y : l = Len(do) /\ m = Len(on) /\ x = Len(due) /\ y = Len(dueOn)
  OBVIOUS
<1>7. /\ l \in Nat /\ m \in Nat /\ x \in Nat /\ y \in Nat
      /\ b \in [0 .. l -> 0 .. x] /\ b[0] = 0 /\ b[l] = x
      /\ d \in [0 .. m -> 0 .. y] /\ d[0] = 0 /\ d[m] = y
      /\ \A j, k \in 0 .. l : j <= k => b[j] <= b[k]
      /\ \A j, k \in 0 .. m : j <= k => d[j] <= d[k]
  BY <1>1, <1>2, <1>6 DEF QbCountsIn
<1>8. c = [k \in 0 .. l + m |-> IF k <= l THEN b[k] ELSE x + d[k - l]]
  BY <1>5, <1>6
<1>9. c \in [0 .. l + m -> 0 .. x + y] /\ c[0] = 0 /\ c[l + m] = x + y
  <2>1. ASSUME NEW k \in 0 .. l + m PROVE c[k] \in 0 .. x + y
    <3>1. CASE k <= l
      <4>1. c[k] = b[k] /\ b[k] \in 0 .. x
        BY <1>7, <1>8, <3>1
      <4> QED BY <1>7, <4>1
    <3>2. CASE ~(k <= l)
      <4>1. k - l \in 0 .. m
        BY <1>7, <3>2
      <4>2. c[k] = x + d[k - l] /\ d[k - l] \in 0 .. y
        BY <1>7, <1>8, <3>2, <4>1
      <4> QED BY <1>7, <4>2
    <3> QED BY <3>1, <3>2
  <2>2. c[0] = 0
    BY <1>7, <1>8
  <2>3. c[l + m] = x + y
    <3>1. CASE m = 0
      BY <1>7, <1>8, <3>1
    <3>2. CASE m # 0
      <4>1. l + m \in 0 .. l + m /\ ~(l + m <= l) /\ (l + m) - l = m
        BY <1>7, <3>2
      <4> QED BY <1>7, <1>8, <4>1
    <3> QED BY <3>1, <3>2
  <2> QED BY <1>8, <2>1, <2>2, <2>3
<1>10. ASSUME NEW k \in 1 .. l + m
       PROVE  IF (do \o on)[k].do \in QbTelling
              THEN /\ c[k] = c[k - 1] + 1
                   /\ (due \o dueOn)[c[k]] = [cmd |-> (do \o on)[k].cmd, data |-> (do \o on)[k].data]
              ELSE c[k] = c[k - 1]
  <2>1. CASE k <= l
    <3>1. k \in 1 .. l /\ k - 1 \in 0 .. l /\ (do \o on)[k] = do[k]
      BY <1>3, <1>6, <1>7, <2>1
    <3>2. c[k] = b[k] /\ c[k - 1] = b[k - 1] /\ b[k] \in 0 .. x /\ b[k - 1] \in 0 .. x
      BY <1>7, <1>8, <2>1, <3>1
    <3>3. IF do[k].do \in QbTelling
          THEN b[k] = b[k - 1] + 1 /\ due[b[k]] = [cmd |-> do[k].cmd, data |-> do[k].data]
          ELSE b[k] = b[k - 1]
      BY <1>2, <1>6, <3>1 DEF QbCountsIn
    <3>4. b[k] # 0 => (due \o dueOn)[b[k]] = due[b[k]]
      BY <1>4, <1>6, <1>7, <3>2
    <3>5. CASE do[k].do \in QbTelling
      <4>1. /\ b[k] = b[k - 1] + 1 /\ b[k] # 0
            /\ due[b[k]] = [cmd |-> do[k].cmd, data |-> do[k].data]
        BY <1>7, <3>2, <3>3, <3>5
      <4>2. (due \o dueOn)[c[k]] = [cmd |-> do[k].cmd, data |-> do[k].data]
        BY <3>2, <3>4, <4>1
      <4>3. c[k] = c[k - 1] + 1
        BY <3>2, <4>1
      <4> QED BY <3>1, <3>5, <4>2, <4>3
    <3>6. CASE do[k].do \notin QbTelling
      BY <3>1, <3>2, <3>3, <3>6
    <3> QED BY <3>5, <3>6
  <2>2. CASE ~(k <= l)
    <3>1. PICK j : j = k - l
      OBVIOUS
    <3>2. /\ j \in 1 .. m /\ j - 1 \in 0 .. m /\ (do \o on)[k] = on[j]
          /\ k - 1 \in 0 .. l + m /\ (k - 1) - l = j - 1
      BY <1>3, <1>6, <1>7, <2>2, <3>1
    <3>3. c[k] = x + d[j] /\ d[j] \in 0 .. y /\ d[j - 1] \in 0 .. y
      BY <1>7, <1>8, <2>2, <3>1, <3>2
    <3>4. c[k - 1] = x + d[j - 1]
      <4>1. CASE k - 1 <= l
        <5>1. k - 1 = l /\ j = 1
          BY <1>7, <2>2, <3>1, <4>1
        <5> QED BY <1>7, <1>8, <3>2, <5>1
      <4>2. CASE ~(k - 1 <= l)
        BY <1>8, <3>2, <4>2
      <4> QED BY <4>1, <4>2
    <3>5. IF on[j].do \in QbTelling
          THEN d[j] = d[j - 1] + 1 /\ dueOn[d[j]] = [cmd |-> on[j].cmd, data |-> on[j].data]
          ELSE d[j] = d[j - 1]
      BY <1>2, <1>6, <3>2 DEF QbCountsIn
    <3>6. d[j] # 0 => (due \o dueOn)[x + d[j]] = dueOn[d[j]]
      <4>1. SUFFICES ASSUME d[j] # 0 PROVE (due \o dueOn)[x + d[j]] = dueOn[d[j]]
        OBVIOUS
      <4>2. PICK e : e = d[j]
        OBVIOUS
      <4>3. x + e \in 1 .. x + y /\ ~(x + e <= x) /\ (x + e) - x = e
        BY <1>7, <3>3, <4>1, <4>2
      <4> QED BY <1>4, <1>6, <4>2, <4>3
    <3>7. CASE on[j].do \in QbTelling
      <4>1. /\ d[j] = d[j - 1] + 1 /\ d[j] # 0
            /\ dueOn[d[j]] = [cmd |-> on[j].cmd, data |-> on[j].data]
        BY <1>7, <3>3, <3>5, <3>7
      <4>2. (due \o dueOn)[c[k]] = [cmd |-> on[j].cmd, data |-> on[j].data]
        BY <3>3, <3>6, <4>1
      <4>3. c[k] = c[k - 1] + 1
        BY <1>7, <3>3, <3>4, <4>1
      <4> QED BY <3>2, <3>7, <4>2, <4>3
    <3>8. CASE on[j].do \notin QbTelling
      <4>1. c[k] = c[k - 1]
        BY <3>3, <3>4, <3>5, <3>8
      <4> QED BY <3>2, <3>8, <4>1
    <3> QED BY <3>7, <3>8
  <2> QED BY <2>1, <2>2
<1>11. ASSUME NEW j \in 0 .. l + m, NEW k \in 0 .. l + m, j <= k PROVE c[j] <= c[k]
  <2>1. CASE k <= l
    BY <1>7, <1>8, <1>11, <2>1
  <2>2. CASE ~(k <= l) /\ j <= l
    <3>1. k - l \in 0 .. m
      BY <1>7, <2>2
    <3>2. c[j] = b[j] /\ b[j] \in 0 .. x /\ c[k] = x + d[k - l] /\ d[k - l] \in 0 .. y
      BY <1>7, <1>8, <2>2, <3>1
    <3> QED BY <1>7, <3>2
  <2>3. CASE ~(j <= l)
    <3>1. ~(k <= l) /\ k - l \in 0 .. m /\ j - l \in 0 .. m /\ j - l <= k - l
      BY <1>7, <1>11, <2>3
    <3>2. /\ c[j] = x + d[j - l] /\ d[j - l] \in 0 .. y /\ c[k] = x + d[k - l]
          /\ d[k - l] \in 0 .. y /\ d[j - l] <= d[k - l]
      BY <1>7, <1>8, <2>3, <3>1
    <3> QED BY <1>7, <3>2
  <2> QED BY <2>1, <2>2, <2>3
<1>12. QbCountsIn(do \o on, due \o dueOn, c)
  BY <1>3, <1>4, <1>6, <1>9, <1>10, <1>11 DEF QbCountsIn
<1> QED BY <1>3, <1>4, <1>12 DEF QbSays

\* A step done: what it said was due first, and the rest is said after it.
LEMMA QbSaysNext ==
    ASSUME NEW do, NEW due, QbSays(do, due), do # <<>>
    PROVE  /\ Head(do).do \in QbTelling =>
                  /\ due # <<>> /\ Head(due) = [cmd |-> Head(do).cmd, data |-> Head(do).data]
                  /\ due = <<[cmd |-> Head(do).cmd, data |-> Head(do).data]>> \o Tail(due)
                  /\ QbSays(Tail(do), Tail(due))
           /\ Head(do).do \notin QbTelling => QbSays(Tail(do), due)
<1>1. PICK c : QbCountsIn(do, due, c)
  BY DEF QbSays
<1>2. /\ do \in Seq(QbItems) /\ due \in Seq(QbTold) /\ Len(do) \in Nat /\ Len(due) \in Nat
      /\ Len(do) # 0
  BY LenProperties, EmptySeq DEF QbSays
<1>3. /\ Head(do) = do[1] /\ Tail(do) \in Seq(QbItems) /\ Len(Tail(do)) = Len(do) - 1
      /\ \A k \in 1 .. Len(do) - 1 : Tail(do)[k] = do[k + 1]
  <2>1. Head(do) = do[1] /\ do # <<>>
    BY <1>2
  <2> QED BY <1>2, <2>1, HeadTailProperties
<1>4. PICK l, x : l = Len(do) /\ x = Len(due)
  OBVIOUS
<1>5. /\ l \in Nat \ {0} /\ x \in Nat /\ c \in [0 .. l -> 0 .. x] /\ c[0] = 0 /\ c[l] = x
      /\ \A j, k \in 0 .. l : j <= k => c[j] <= c[k]
      /\ \A k \in 1 .. l :
             IF do[k].do \in QbTelling
             THEN c[k] = c[k - 1] + 1 /\ due[c[k]] = [cmd |-> do[k].cmd, data |-> do[k].data]
             ELSE c[k] = c[k - 1]
  BY <1>1, <1>2, <1>4 DEF QbCountsIn
<1>6. ASSUME Head(do).do \notin QbTelling PROVE QbSays(Tail(do), due)
  <2>1. PICK d : d = [k \in 0 .. l - 1 |-> c[k + 1]]
    OBVIOUS
  <2>2. d \in [0 .. l - 1 -> 0 .. x] /\ d[l - 1] = x
    BY <1>5, <2>1
  <2>3. c[1] = c[0]
    <3>1. 1 \in 1 .. l /\ 1 - 1 = 0
      BY <1>5
    <3> QED BY <1>3, <1>5, <1>6, <3>1
  <2>4. d[0] = 0
    BY <1>5, <2>1, <2>3
  <2>5. ASSUME NEW k \in 1 .. l - 1
        PROVE  IF Tail(do)[k].do \in QbTelling
               THEN d[k] = d[k - 1] + 1
                    /\ due[d[k]] = [cmd |-> Tail(do)[k].cmd, data |-> Tail(do)[k].data]
               ELSE d[k] = d[k - 1]
    <3>1. k + 1 \in 1 .. l /\ (k + 1) - 1 = k /\ k \in 0 .. l - 1 /\ k - 1 \in 0 .. l - 1
      BY <1>5
    <3>2. d[k] = c[k + 1] /\ d[k - 1] = c[k] /\ Tail(do)[k] = do[k + 1]
      BY <1>3, <1>4, <1>5, <2>1, <3>1
    <3>3. IF do[k + 1].do \in QbTelling
          THEN c[k + 1] = c[k] + 1
               /\ due[c[k + 1]] = [cmd |-> do[k + 1].cmd, data |-> do[k + 1].data]
          ELSE c[k + 1] = c[k]
      BY <1>5, <3>1
    <3> QED BY <3>2, <3>3
  <2>6. ASSUME NEW j \in 0 .. l - 1, NEW k \in 0 .. l - 1, j <= k PROVE d[j] <= d[k]
    <3>1. j + 1 \in 0 .. l /\ k + 1 \in 0 .. l /\ j + 1 <= k + 1
      BY <1>5, <2>6
    <3>2. c[j + 1] <= c[k + 1]
      BY <1>5, <3>1
    <3> QED BY <2>1, <3>2
  <2>7. QbCountsIn(Tail(do), due, d)
    BY <1>3, <1>4, <2>2, <2>4, <2>5, <2>6 DEF QbCountsIn
  <2> QED BY <1>2, <1>3, <2>7 DEF QbSays
<1>7. ASSUME Head(do).do \in QbTelling
      PROVE  /\ due # <<>> /\ Head(due) = [cmd |-> Head(do).cmd, data |-> Head(do).data]
             /\ due = <<[cmd |-> Head(do).cmd, data |-> Head(do).data]>> \o Tail(due)
             /\ QbSays(Tail(do), Tail(due))
  <2>1. c[1] = 1 /\ due[1] = [cmd |-> Head(do).cmd, data |-> Head(do).data]
    <3>1. 1 \in 1 .. l /\ 1 - 1 = 0
      BY <1>5
    <3>2. c[1] = c[0] + 1 /\ due[c[1]] = [cmd |-> do[1].cmd, data |-> do[1].data]
      BY <1>3, <1>5, <1>7, <3>1
    <3> QED BY <1>3, <1>5, <3>2
  <2>2. x \in Nat \ {0}
    BY <1>5, <2>1
  <2>3. due # <<>>
    BY <1>4, <2>2, LenProperties
  <2>4. /\ Head(due) = due[1] /\ Tail(due) \in Seq(QbTold) /\ Len(Tail(due)) = x - 1
        /\ \A k \in 1 .. x - 1 : Tail(due)[k] = due[k + 1]
        /\ due = <<Head(due)>> \o Tail(due)
    <3>1. /\ Tail(due) \in Seq(QbTold) /\ Len(Tail(due)) = x - 1
          /\ \A k \in 1 .. Len(Tail(due)) : Tail(due)[k] = due[k + 1]
      BY <1>2, <1>4, <2>3, HeadTailProperties
    <3>2. Head(due) = due[1] /\ Head(due) \in QbTold
      BY <1>2, <2>3, HeadTailProperties
    <3>3. due = <<Head(due)>> \o Tail(due)
      BY <1>2, <2>3
    <3> QED BY <3>1, <3>2, <3>3
  <2>5. PICK d : d = [k \in 0 .. l - 1 |-> c[k + 1] - 1]
    OBVIOUS
  <2>6. \A k \in 0 .. l - 1 : d[k] = c[k + 1] - 1 /\ c[k + 1] \in 1 .. x
    <3>1. ASSUME NEW k \in 0 .. l - 1 PROVE c[k + 1] \in 1 .. x
      <4>1. 1 \in 0 .. l /\ k + 1 \in 0 .. l /\ 1 <= k + 1
        BY <1>5
      <4>2. c[1] <= c[k + 1] /\ c[k + 1] \in 0 .. x
        BY <1>5, <4>1
      <4> QED BY <1>5, <2>1, <4>2
    <3> QED BY <2>5, <3>1
  <2>7. d \in [0 .. l - 1 -> 0 .. x - 1] /\ d[0] = 0 /\ d[l - 1] = x - 1
    <3>1. \A k \in 0 .. l - 1 : d[k] \in 0 .. x - 1
      BY <1>5, <2>6
    <3>2. d[0] = 0 /\ d[l - 1] = x - 1
      BY <1>5, <2>1, <2>6
    <3> QED BY <2>5, <3>1, <3>2
  <2>8. ASSUME NEW j \in 0 .. l - 1, NEW k \in 0 .. l - 1, j <= k PROVE d[j] <= d[k]
    <3>1. j + 1 \in 0 .. l /\ k + 1 \in 0 .. l /\ j + 1 <= k + 1
      BY <1>5, <2>8
    <3>2. c[j + 1] <= c[k + 1]
      BY <1>5, <3>1
    <3> QED BY <1>5, <2>6, <3>2
  <2>9. ASSUME NEW k \in 1 .. l - 1
        PROVE  IF Tail(do)[k].do \in QbTelling
               THEN d[k] = d[k - 1] + 1
                    /\ Tail(due)[d[k]] = [cmd |-> Tail(do)[k].cmd, data |-> Tail(do)[k].data]
               ELSE d[k] = d[k - 1]
    <3>1. k + 1 \in 1 .. l /\ (k + 1) - 1 = k /\ k \in 0 .. l - 1 /\ k - 1 \in 0 .. l - 1
          /\ (k - 1) + 1 = k
      BY <1>5
    <3>2. /\ d[k] = c[k + 1] - 1 /\ d[k - 1] = c[k] - 1 /\ Tail(do)[k] = do[k + 1]
          /\ c[k + 1] \in 1 .. x /\ c[k] \in 1 .. x
      BY <1>3, <1>4, <2>6, <3>1
    <3>3. CASE do[k + 1].do \in QbTelling
      <4>1. /\ c[k + 1] = c[k] + 1
            /\ due[c[k + 1]] = [cmd |-> do[k + 1].cmd, data |-> do[k + 1].data]
        BY <1>5, <3>1, <3>3
      <4>2. PICK e : e = d[k]
        OBVIOUS
      <4>3. e \in 1 .. x - 1 /\ e + 1 = c[k + 1]
        BY <1>5, <3>2, <4>1, <4>2
      <4>4. Tail(due)[e] = due[e + 1]
        BY <2>4, <4>3
      <4>5. d[k] = d[k - 1] + 1
        BY <1>5, <3>2, <4>1
      <4> QED BY <3>2, <3>3, <4>1, <4>2, <4>3, <4>4, <4>5
    <3>4. CASE do[k + 1].do \notin QbTelling
      <4>1. c[k + 1] = c[k]
        BY <1>5, <3>1, <3>4
      <4> QED BY <3>2, <3>4, <4>1
    <3> QED BY <3>3, <3>4
  <2>10. QbCountsIn(Tail(do), Tail(due), d)
    BY <1>3, <1>4, <2>4, <2>7, <2>8, <2>9 DEF QbCountsIn
  <2>11. QbSays(Tail(do), Tail(due))
    BY <1>3, <2>4, <2>10 DEF QbSays
  <2> QED BY <2>1, <2>3, <2>4, <2>11
<1> QED BY <1>6, <1>7

\* A part of a script: what it says, and of which steps it is made.
QbPlain == {"param", "copy", "drain", "all", "rest", "hold", "clear"}
QbPart(s, due, words) == QbSays(s, due) /\ \A k \in 1 .. Len(s) : s[k].do \in words

\* Parts make a part.
LEMMA QbPartBoth ==
    ASSUME NEW s, NEW due, NEW t, NEW dueT, NEW words, QbPart(s, due, words), QbPart(t, dueT, words)
    PROVE  QbPart(s \o t, due \o dueT, words)
<1>1. /\ s \in Seq(QbItems) /\ t \in Seq(QbItems) /\ Len(s) \in Nat /\ Len(t) \in Nat
      /\ Len(s \o t) = Len(s) + Len(t)
      /\ \A k \in 1 .. Len(s) + Len(t) :
             (s \o t)[k] = IF k <= Len(s) THEN s[k] ELSE t[k - Len(s)]
  BY LenProperties, ConcatProperties DEF QbPart, QbSays
<1>2. QbSays(s \o t, due \o dueT)
  BY QbSaysBoth DEF QbPart
<1>3. ASSUME NEW k \in 1 .. Len(s \o t) PROVE (s \o t)[k].do \in words
  <2>1. CASE k <= Len(s)
    BY <1>1, <2>1 DEF QbPart
  <2>2. CASE ~(k <= Len(s))
    <3>1. k - Len(s) \in 1 .. Len(t)
      BY <1>1, <2>2
    <3> QED BY <1>1, <2>2, <3>1 DEF QbPart
  <2> QED BY <2>1, <2>2
<1> QED BY <1>2, <1>3 DEF QbPart

\* Steps that tell nothing.
LEMMA QbSilent ==
    ASSUME NEW s \in Seq(QbItems), NEW words, words \cap QbTelling = {},
           \A k \in 1 .. Len(s) : s[k].do \in words
    PROVE  QbPart(s, <<>>, words)
<1>1. Len(s) \in Nat /\ <<>> \in Seq(QbTold) /\ Len(<<>>) = 0
  BY LenProperties
<1>2. \A k \in 1 .. Len(s) : s[k].do \notin QbTelling
  OBVIOUS
<1>3. QbCountsIn(s, <<>>, [k \in 0 .. Len(s) |-> 0])
  BY <1>1, <1>2 DEF QbCountsIn
<1> QED BY <1>1, <1>3 DEF QbPart, QbSays

\* More steps are allowed than there are.
LEMMA QbPartMore ==
    ASSUME NEW s, NEW due, NEW words, NEW more, QbPart(s, due, words), words \subseteq more
    PROVE  QbPart(s, due, more)
BY DEF QbPart

\* The steps a script is made of.
LEMMA QbItemsAre ==
    /\ \A what \in QbWords : QbDoes(what) \in QbItems /\ QbDoes(what).do = what
    /\ \A cmd \in QbCmds, data \in QbDatas :
           /\ QbParam(cmd, data) \in QbItems
           /\ QbParam(cmd, data) = [do |-> "param", cmd |-> cmd, data |-> data]
    /\ \A cmd \in QbCmds : LET hold == [QbDoes("hold") EXCEPT !.cmd = cmd] IN
           hold \in QbItems /\ hold.do = "hold"
    /\ QbNoData \in QbDatas
BY DEF QbDoes, QbParam, QbItems, QbWords, QbCmds, QbDatas, QbNoData, QbNone

\* The command that was held is told first.
LEMMA QbFlushSays ==
    ASSUME qbPending \in QbCmds
    PROVE  /\ QbPart(QbFlush, QbHeldOne, QbPlain) /\ QbPart(QbFlushed, QbHeldOne, QbPlain)
           /\ QbHeldOne \in Seq(QbTold)
<1>1. CASE qbPending = QbNone
  <2>1. QbFlush = <<>> /\ QbFlushed = <<>> /\ QbHeldOne = <<>>
    BY <1>1 DEF QbFlush, QbFlushed, QbHeldOne
  <2>2. QbPart(<<>>, <<>>, QbPlain)
    BY QbSaysNothing, LenProperties DEF QbPart
  <2> QED BY <2>1, <2>2
<1>2. CASE qbPending # QbNone
  <2>1. PICK i, j, t : /\ i = QbParam(qbPending, QbNoData) /\ j = QbDoes("clear")
                       /\ t = [cmd |-> qbPending, data |-> QbNoData]
    OBVIOUS
  <2>2. /\ QbFlush = <<i>> /\ QbFlushed = <<i>> \o <<j>> /\ QbHeldOne = <<t>>
    BY <1>2, <2>1 DEF QbFlush, QbFlushed, QbHeldOne, QbAlone
  <2>3. /\ i \in QbItems /\ i = [do |-> "param", cmd |-> qbPending, data |-> QbNoData]
        /\ j \in QbItems /\ j.do = "clear"
    BY <2>1, QbItemsAre DEF QbWords
  <2>4. i.do = "param" /\ t = [cmd |-> i.cmd, data |-> i.data]
    BY <2>1, <2>3
  <2>5. QbSays(<<i>>, <<t>>) /\ QbSays(<<j>>, <<>>)
    BY <2>3, <2>4, QbSaysOne DEF QbTelling
  <2>6. QbPart(<<i>>, <<t>>, QbPlain) /\ QbPart(<<j>>, <<>>, QbPlain)
    BY <2>3, <2>4, <2>5 DEF QbPart, QbPlain
  <2>7. t \in QbTold /\ <<t>> \in Seq(QbTold) /\ <<t>> \o <<>> = <<t>>
    BY <2>1, QbItemsAre DEF QbTold
  <2> QED BY <2>2, <2>6, <2>7, QbPartBoth
<1> QED BY <1>1, <1>2

\* The chunks of pixels are told in order, the first under the command given.
LEMMA QbColorSays ==
    ASSUME NEW cmd \in QbCmds, NEW chunks \in Nat, qbTurn \in {0, 1}
    PROVE  QbPart(QbColor(cmd, chunks),
                  [k \in 1 .. chunks |-> [cmd |-> IF k = 1 THEN cmd ELSE "RAMWRC",
                                          data |-> <<qbTurn, k>>]], QbPlain)
<1>1. PICK s, m : /\ s = [k \in 1 .. chunks |-> [do |-> "copy", data |-> <<qbTurn, k>>,
                                                 cmd |-> IF k = 1 THEN cmd ELSE "RAMWRC"]]
                  /\ m = [k \in 1 .. chunks |-> [cmd |-> IF k = 1 THEN cmd ELSE "RAMWRC",
                                                 data |-> <<qbTurn, k>>]]
  OBVIOUS
<1>2. \A k \in 1 .. chunks : /\ s[k] \in QbItems /\ s[k].do = "copy" /\ m[k] \in QbTold
                             /\ m[k] = [cmd |-> s[k].cmd, data |-> s[k].data]
  <2>. SUFFICES ASSUME NEW k \in 1 .. chunks
                PROVE  /\ s[k] \in QbItems /\ s[k].do = "copy" /\ m[k] \in QbTold
                       /\ m[k] = [cmd |-> s[k].cmd, data |-> s[k].data]
    OBVIOUS
  <2>1. PICK c, d : c = (IF k = 1 THEN cmd ELSE "RAMWRC") /\ d = <<qbTurn, k>>
    OBVIOUS
  <2>2. c \in QbCmds /\ d \in QbDatas
    BY <2>1 DEF QbCmds, QbAll, QbPixels, QbDatas
  <2>3. s[k] = [do |-> "copy", data |-> d, cmd |-> c] /\ m[k] = [cmd |-> c, data |-> d]
    BY <1>1, <2>1
  <2> QED BY <2>2, <2>3 DEF QbItems, QbTold, QbWords
<1>3. s \in Seq(QbItems) /\ Len(s) = chunks /\ m \in Seq(QbTold) /\ Len(m) = chunks
  <2>1. s \in [1 .. chunks -> QbItems] /\ m \in [1 .. chunks -> QbTold]
    BY <1>1, <1>2
  <2> QED BY <2>1, IsASeq, LenProperties
<1>4. QbCountsIn(s, m, [k \in 0 .. chunks |-> k])
  BY <1>2, <1>3 DEF QbCountsIn, QbTelling
<1>5. QbPart(s, m, QbPlain)
  BY <1>2, <1>3, <1>4 DEF QbPart, QbSays, QbPlain
<1>6. QbPart(<<QbDoes("drain")>>, <<>>, QbPlain)
  <2>1. PICK i : i = QbDoes("drain")
    OBVIOUS
  <2>2. i \in QbItems /\ i.do = "drain"
    BY <2>1, QbItemsAre DEF QbWords
  <2>3. QbSays(<<i>>, <<>>)
    BY <2>2, QbSaysOne DEF QbTelling
  <2>4. QbPart(<<i>>, <<>>, QbPlain)
    BY <2>2, <2>3 DEF QbPart, QbPlain
  <2> QED BY <2>1, <2>4
<1>7. QbPart(<<QbDoes("drain")>> \o s, <<>> \o m, QbPlain)
  BY <1>5, <1>6, QbPartBoth
<1>8. <<>> \o m = m
  BY <1>3
<1> QED BY <1>1, <1>7, <1>8 DEF QbColor

\* What a command's data says.
LEMMA QbDataSays ==
    ASSUME NEW cmd \in QbCmds, NEW chunks \in Nat, qbTurn \in {0, 1}
    PROVE  QbPart(QbData(cmd, chunks), QbMeant(cmd, chunks), QbPlain)
<1>1. CASE cmd \in QbPixels /\ chunks > 0
  BY <1>1, QbColorSays DEF QbData, QbMeant
<1>2. CASE ~(cmd \in QbPixels /\ chunks > 0)
  <2>1. PICK i, d : d = <<qbTurn, chunks>> /\ i = QbParam(cmd, d)
    OBVIOUS
  <2>2. d \in QbDatas
    BY <2>1 DEF QbDatas
  <2>3. i \in QbItems /\ i = [do |-> "param", cmd |-> cmd, data |-> d]
    BY <2>1, <2>2, QbItemsAre
  <2>4. QbData(cmd, chunks) = <<i>> /\ QbMeant(cmd, chunks) = <<[cmd |-> cmd, data |-> d]>>
    BY <1>2, <2>1 DEF QbData, QbMeant
  <2>5. i.do = "param" /\ [cmd |-> cmd, data |-> d] = [cmd |-> i.cmd, data |-> i.data]
    BY <2>3
  <2>6. QbSays(<<i>>, <<[cmd |-> cmd, data |-> d]>>)
    BY <2>3, <2>5, QbSaysOne DEF QbTelling
  <2> QED BY <2>3, <2>4, <2>5, <2>6 DEF QbPart, QbPlain
<1> QED BY <1>1, <1>2

\* What a call has still to do: a transfer is the first thing, a transaction is
\* ended last, and a bus is given up at the end, after a command of its own.
QbShaped(do) ==
    /\ do \in Seq(QbItems)
    /\ \A k \in 1 .. Len(do) : do[k].do = "tx" => k = 1
    /\ \A k \in 1 .. Len(do) :
           do[k].do = "gone" => k = Len(do) /\ (k > 1 => do[k - 1].do = "param")
    /\ \A k \in 1 .. Len(do) : do[k].do = "begin" => do[Len(do)].do = "end"

\* A script of plain steps.
LEMMA QbPlainShaped ==
    ASSUME NEW do, NEW due, QbPart(do, due, QbPlain)
    PROVE  QbShaped(do) /\ \A k \in 1 .. Len(do) : do[k].do \notin {"tx", "gone"}
BY DEF QbPart, QbSays, QbPlain, QbShaped

\* A script that begins and ends a transaction.
LEMMA QbWholeShaped ==
    ASSUME NEW s, NEW due, QbPart(s, due, QbPlain \cup {"begin"}),
           NEW t \in Seq(QbItems), Len(t) = 2, t[1].do = "clear", t[2].do = "end"
    PROVE  /\ QbShaped(s \o t)
           /\ \A k \in 1 .. Len(s \o t) : (s \o t)[k].do # "tx" /\ (k = 1 => (s \o t)[k].do # "gone")
<1>1. /\ s \in Seq(QbItems) /\ Len(s) \in Nat /\ Len(s \o t) = Len(s) + 2
      /\ s \o t \in Seq(QbItems)
      /\ \A k \in 1 .. Len(s) + 2 : (s \o t)[k] = IF k <= Len(s) THEN s[k] ELSE t[k - Len(s)]
  <2>1. s \in Seq(QbItems) /\ Len(s) \in Nat
    BY LenProperties DEF QbPart, QbSays
  <2>2. /\ s \o t \in Seq(QbItems) /\ Len(s \o t) = Len(s) + Len(t)
        /\ \A k \in 1 .. Len(s) + Len(t) :
               (s \o t)[k] = IF k <= Len(s) THEN s[k] ELSE t[k - Len(s)]
    BY <2>1, ConcatProperties
  <2> QED BY <2>1, <2>2
<1>2. \A k \in 1 .. Len(s) : s[k].do \in QbPlain \cup {"begin"}
  BY DEF QbPart
<1>3. PICK l, do : l = Len(s) /\ do = s \o t
  OBVIOUS
<1>4. /\ \A k \in 1 .. l : do[k].do \in QbPlain \cup {"begin"}
      /\ do[l + 1].do = "clear" /\ do[l + 2].do = "end" /\ Len(do) = l + 2 /\ l \in Nat
  <2>1. (l + 1) - l = 1 /\ (l + 2) - l = 2 /\ ~(l + 1 <= l) /\ ~(l + 2 <= l) /\ l \in Nat
    BY <1>1, <1>3
  <2>2. l + 1 \in 1 .. l + 2 /\ l + 2 \in 1 .. l + 2
    BY <2>1
  <2>3. do[l + 1] = t[1] /\ do[l + 2] = t[2]
    BY <1>1, <1>3, <2>1, <2>2
  <2>4. \A k \in 1 .. l : do[k] = s[k]
    BY <1>1, <1>3
  <2> QED BY <1>1, <1>2, <1>3, <2>3, <2>4
<1>5. ASSUME NEW k \in 1 .. Len(do) PROVE do[k].do \notin {"tx", "gone"}
  <2>1. k \in 1 .. l \/ k = l + 1 \/ k = l + 2
    BY <1>4
  <2> QED BY <1>4, <2>1 DEF QbPlain
<1> QED BY <1>1, <1>3, <1>4, <1>5 DEF QbShaped

\* A script that gives up the bus.
LEMMA QbEndShaped ==
    ASSUME NEW s, NEW due, QbPart(s, due, QbPlain), NEW t \in Seq(QbItems), Len(t) = 3,
           t[1].do = "param", t[2].do = "param", t[3].do = "gone"
    PROVE  /\ QbShaped(s \o t)
           /\ \A k \in 1 .. Len(s \o t) : (s \o t)[k].do # "tx" /\ (k = 1 => (s \o t)[k].do # "gone")
<1>1. /\ s \in Seq(QbItems) /\ Len(s) \in Nat /\ Len(s \o t) = Len(s) + 3
      /\ s \o t \in Seq(QbItems)
      /\ \A k \in 1 .. Len(s) + 3 : (s \o t)[k] = IF k <= Len(s) THEN s[k] ELSE t[k - Len(s)]
  <2>1. s \in Seq(QbItems) /\ Len(s) \in Nat
    BY LenProperties DEF QbPart, QbSays
  <2>2. /\ s \o t \in Seq(QbItems) /\ Len(s \o t) = Len(s) + Len(t)
        /\ \A k \in 1 .. Len(s) + Len(t) :
               (s \o t)[k] = IF k <= Len(s) THEN s[k] ELSE t[k - Len(s)]
    BY <2>1, ConcatProperties
  <2> QED BY <2>1, <2>2
<1>2. \A k \in 1 .. Len(s) : s[k].do \in QbPlain
  BY DEF QbPart
<1>3. PICK l, do : l = Len(s) /\ do = s \o t
  OBVIOUS
<1>4. /\ \A k \in 1 .. l : do[k].do \in QbPlain
      /\ do[l + 1].do = "param" /\ do[l + 2].do = "param" /\ do[l + 3].do = "gone"
      /\ Len(do) = l + 3 /\ l \in Nat
  <2>1. /\ (l + 1) - l = 1 /\ (l + 2) - l = 2 /\ (l + 3) - l = 3 /\ l \in Nat
        /\ ~(l + 1 <= l) /\ ~(l + 2 <= l) /\ ~(l + 3 <= l)
    BY <1>1, <1>3
  <2>2. l + 1 \in 1 .. l + 3 /\ l + 2 \in 1 .. l + 3 /\ l + 3 \in 1 .. l + 3
    BY <2>1
  <2>3. do[l + 1] = t[1] /\ do[l + 2] = t[2] /\ do[l + 3] = t[3]
    BY <1>1, <1>3, <2>1, <2>2
  <2>4. \A k \in 1 .. l : do[k] = s[k]
    BY <1>1, <1>3
  <2> QED BY <1>1, <1>2, <1>3, <2>3, <2>4
<1>5. ASSUME NEW k \in 1 .. Len(do)
      PROVE  do[k].do \notin {"tx", "begin"} /\ (do[k].do = "gone" => k = l + 3)
  <2>1. k \in 1 .. l \/ k = l + 1 \/ k = l + 2 \/ k = l + 3
    BY <1>4
  <2> QED BY <1>4, <2>1 DEF QbPlain
<1>6. (l + 3) - 1 = l + 2
  BY <1>4
<1> QED BY <1>1, <1>3, <1>4, <1>5, <1>6 DEF QbShaped

\* Each call's script has a shape, and says what the call means.
QbScript(do, due) ==
    /\ QbShaped(do) /\ QbSays(do, due)
    /\ \A k \in 1 .. Len(do) : do[k].do # "tx" /\ (k = 1 => do[k].do # "gone")

\* send()
LEMMA QbSendSays ==
    ASSUME qbPending \in QbCmds, qbTurn \in {0, 1}, NEW cmd \in QbAll, NEW chunks \in Nat
    PROVE  QbScript(QbFlushed \o <<QbDoes("begin"), [QbDoes("hold") EXCEPT !.cmd = cmd]>>
                    \o QbData(cmd, chunks) \o <<QbDoes("clear"), QbDoes("end")>>,
                    QbHeldOne \o QbMeant(cmd, chunks))
<1>1. PICK W : W = QbPlain \cup {"begin"}
  OBVIOUS
<1>2. cmd \in QbCmds
  BY DEF QbCmds
<1>3. PICK h, t, d, m, f, o :
          /\ h = <<QbDoes("begin"), [QbDoes("hold") EXCEPT !.cmd = cmd]>>
          /\ t = <<QbDoes("clear"), QbDoes("end")>>
          /\ d = QbData(cmd, chunks) /\ m = QbMeant(cmd, chunks)
          /\ f = QbFlushed /\ o = QbHeldOne
  OBVIOUS
<1>4. QbPart(f, o, W) /\ QbPart(d, m, W)
  BY <1>1, <1>2, <1>3, QbFlushSays, QbDataSays, QbPartMore
<1>5. /\ h \in Seq(QbItems) /\ Len(h) = 2 /\ h[1].do = "begin" /\ h[2].do = "hold"
      /\ t \in Seq(QbItems) /\ Len(t) = 2 /\ t[1].do = "clear" /\ t[2].do = "end"
  <2>1. PICK a, b, x, y : /\ a = QbDoes("begin") /\ b = [QbDoes("hold") EXCEPT !.cmd = cmd]
                          /\ x = QbDoes("clear") /\ y = QbDoes("end")
    OBVIOUS
  <2>2. /\ a \in QbItems /\ a.do = "begin" /\ b \in QbItems /\ b.do = "hold"
        /\ x \in QbItems /\ x.do = "clear" /\ y \in QbItems /\ y.do = "end"
    BY <1>2, <2>1, QbItemsAre DEF QbWords
  <2>3. h = <<a, b>> /\ t = <<x, y>>
    BY <1>3, <2>1
  <2> QED BY <2>2, <2>3
<1>6. QbPart(h, <<>>, W)
  <2>1. QbPart(h, <<>>, {"begin", "hold"})
    <3>1. \A k \in 1 .. Len(h) : h[k].do \in {"begin", "hold"}
      BY <1>5
    <3>2. {"begin", "hold"} \cap QbTelling = {}
      BY DEF QbTelling
    <3> QED BY <1>5, <3>1, <3>2, QbSilent
  <2> QED BY <1>1, <2>1, QbPartMore DEF QbPlain
<1>7. QbPart((f \o h) \o d, (o \o <<>>) \o m, W)
  BY <1>4, <1>6, QbPartBoth
<1>8. QbSays(t, <<>>)
  <2>1. \A k \in 1 .. Len(t) : t[k].do \in {"clear", "end"}
    BY <1>5
  <2>2. {"clear", "end"} \cap QbTelling = {}
    BY DEF QbTelling
  <2> QED BY <1>5, <2>1, <2>2, QbSilent DEF QbPart
<1>9. /\ QbShaped(((f \o h) \o d) \o t)
      /\ \A k \in 1 .. Len(((f \o h) \o d) \o t) :
             LET do == ((f \o h) \o d) \o t IN do[k].do # "tx" /\ (k = 1 => do[k].do # "gone")
  BY <1>1, <1>5, <1>7, QbWholeShaped
<1>10. QbSays(((f \o h) \o d) \o t, ((o \o <<>>) \o m) \o <<>>)
  BY <1>7, <1>8, QbSaysBoth DEF QbPart
<1>11. o \in Seq(QbTold) /\ m \in Seq(QbTold) /\ o \o m \in Seq(QbTold)
  BY <1>4, ConcatProperties DEF QbPart, QbSays
<1>12. ((o \o <<>>) \o m) \o <<>> = o \o m
  BY <1>11, ConcatEmptySeq
<1> QED BY <1>3, <1>9, <1>10, <1>12 DEF QbScript

\* write_command()
LEMMA QbWriteCommandSays ==
    ASSUME qbPending \in QbCmds, NEW cmd \in QbAll
    PROVE  QbScript(QbFlush \o <<[QbDoes("hold") EXCEPT !.cmd = cmd]>>, QbHeldOne)
<1>1. PICK i : i = [QbDoes("hold") EXCEPT !.cmd = cmd]
  OBVIOUS
<1>2. i \in QbItems /\ i.do = "hold"
  BY <1>1, QbItemsAre DEF QbCmds
<1>3. QbPart(<<i>>, <<>>, QbPlain)
  <2>1. QbSays(<<i>>, <<>>)
    BY <1>2, QbSaysOne DEF QbTelling
  <2> QED BY <1>2, <2>1 DEF QbPart, QbPlain
<1>4. QbPart(QbFlush \o <<i>>, QbHeldOne \o <<>>, QbPlain)
  BY <1>3, QbFlushSays, QbPartBoth
<1>5. QbHeldOne \o <<>> = QbHeldOne
  BY QbFlushSays, ConcatEmptySeq
<1> QED BY <1>1, <1>4, <1>5, QbPlainShaped DEF QbScript, QbPart

\* write_data()
LEMMA QbWriteDataSays ==
    ASSUME qbPending \in QbCmds, qbTurn \in {0, 1}, NEW chunks \in Nat
    PROVE  QbScript(QbData(qbPending, chunks)
                    \o (IF qbPending \in QbPixels /\ chunks > 0 THEN <<QbDoes("all")>> ELSE <<>>)
                    \o <<QbDoes("clear")>>, QbMeant(qbPending, chunks))
<1>1. PICK d, m, a, c :
          /\ d = QbData(qbPending, chunks) /\ m = QbMeant(qbPending, chunks)
          /\ a = (IF qbPending \in QbPixels /\ chunks > 0 THEN <<QbDoes("all")>> ELSE <<>>)
          /\ c = <<QbDoes("clear")>>
  OBVIOUS
<1>2. QbPart(d, m, QbPlain)
  BY <1>1, QbDataSays
<1>3. QbPart(<<>>, <<>>, QbPlain)
  BY QbSaysNothing, LenProperties DEF QbPart
<1>4. ASSUME NEW what \in {"all", "clear"} PROVE QbPart(<<QbDoes(what)>>, <<>>, QbPlain)
  <2>1. PICK i : i = QbDoes(what)
    OBVIOUS
  <2>2. i \in QbItems /\ i.do = what
    BY <2>1, QbItemsAre DEF QbWords
  <2>3. QbSays(<<i>>, <<>>)
    BY <2>2, QbSaysOne DEF QbTelling
  <2>4. QbPart(<<i>>, <<>>, QbPlain)
    BY <2>2, <2>3 DEF QbPart, QbPlain
  <2> QED BY <2>1, <2>4
<1>5. QbPart(a, <<>>, QbPlain) /\ QbPart(c, <<>>, QbPlain)
  BY <1>1, <1>3, <1>4
<1>6. QbPart((d \o a) \o c, (m \o <<>>) \o <<>>, QbPlain)
  BY <1>2, <1>5, QbPartBoth
<1>7. (m \o <<>>) \o <<>> = m
  BY <1>2, ConcatEmptySeq DEF QbPart, QbSays
<1> QED BY <1>1, <1>6, <1>7, QbPlainShaped DEF QbScript, QbPart

\* deinit()
LEMMA QbDeinitSays ==
    ASSUME qbPending \in QbCmds
    PROVE  QbScript(<<QbDoes("rest")>> \o QbFlushed
                    \o <<QbParam("DISPOFF", QbNoData), QbParam("SLPIN", QbNoData), QbDoes("gone")>>,
                    QbHeldOne \o <<QbAlone("DISPOFF"), QbAlone("SLPIN")>>)
<1>1. PICK r, a, b, g, x, y :
          /\ r = QbDoes("rest") /\ g = QbDoes("gone")
          /\ a = QbParam("DISPOFF", QbNoData) /\ b = QbParam("SLPIN", QbNoData)
          /\ x = QbAlone("DISPOFF") /\ y = QbAlone("SLPIN")
  OBVIOUS
<1>2. /\ r \in QbItems /\ r.do = "rest" /\ g \in QbItems /\ g.do = "gone"
      /\ a \in QbItems /\ a.do = "param" /\ b \in QbItems /\ b.do = "param"
      /\ x = [cmd |-> a.cmd, data |-> a.data] /\ y = [cmd |-> b.cmd, data |-> b.data]
      /\ x \in QbTold /\ y \in QbTold
  <2>1. "DISPOFF" \in QbCmds /\ "SLPIN" \in QbCmds
    BY DEF QbCmds
  <2>2. /\ a \in QbItems /\ a = [do |-> "param", cmd |-> "DISPOFF", data |-> QbNoData]
        /\ b \in QbItems /\ b = [do |-> "param", cmd |-> "SLPIN", data |-> QbNoData]
    BY <1>1, <2>1, QbItemsAre
  <2>3. x \in QbTold /\ y \in QbTold
    BY <1>1, <2>1, QbItemsAre DEF QbAlone, QbTold
  <2>4. r \in QbItems /\ r.do = "rest" /\ g \in QbItems /\ g.do = "gone"
    BY <1>1, QbItemsAre DEF QbWords
  <2>5. x = [cmd |-> a.cmd, data |-> a.data] /\ y = [cmd |-> b.cmd, data |-> b.data]
    BY <1>1, <2>2 DEF QbAlone
  <2> QED BY <2>2, <2>3, <2>4, <2>5
<1>3. QbPart(<<r>>, <<>>, QbPlain)
  <2>1. QbSays(<<r>>, <<>>)
    BY <1>2, QbSaysOne DEF QbTelling
  <2> QED BY <1>2, <2>1 DEF QbPart, QbPlain
<1>4. QbPart(<<r>> \o QbFlushed, <<>> \o QbHeldOne, QbPlain)
  BY <1>3, QbFlushSays, QbPartBoth
<1>5. /\ <<a, b, g>> \in Seq(QbItems) /\ Len(<<a, b, g>>) = 3
      /\ <<a, b, g>>[1] = a /\ <<a, b, g>>[2] = b /\ <<a, b, g>>[3] = g
      /\ <<x, y>> \in Seq(QbTold) /\ Len(<<x, y>>) = 2 /\ <<x, y>>[1] = x /\ <<x, y>>[2] = y
  BY <1>2
<1>6. QbSays(<<a, b, g>>, <<x, y>>)
  <2>1. PICK c : c = [k \in 0 .. 3 |-> IF k = 3 THEN 2 ELSE k]
    OBVIOUS
  <2>2. /\ c \in [0 .. 3 -> 0 .. 2] /\ c[0] = 0 /\ c[1] = 1 /\ c[2] = 2 /\ c[3] = 2
        /\ \A j, k \in 0 .. 3 : j <= k => c[j] <= c[k]
    BY <2>1
  <2>3. ASSUME NEW k \in 1 .. 3
        PROVE  IF <<a, b, g>>[k].do \in QbTelling
               THEN /\ c[k] = c[k - 1] + 1
                    /\ <<x, y>>[c[k]] = [cmd |-> <<a, b, g>>[k].cmd, data |-> <<a, b, g>>[k].data]
               ELSE c[k] = c[k - 1]
    <3>1. CASE k = 1
      BY <1>2, <1>5, <2>2, <3>1 DEF QbTelling
    <3>2. CASE k = 2
      BY <1>2, <1>5, <2>2, <3>2 DEF QbTelling
    <3>3. CASE k = 3
      BY <1>2, <1>5, <2>2, <3>3 DEF QbTelling
    <3> QED BY <3>1, <3>2, <3>3
  <2>4. QbCountsIn(<<a, b, g>>, <<x, y>>, c)
    BY <1>5, <2>2, <2>3 DEF QbCountsIn
  <2> QED BY <1>5, <2>4 DEF QbSays
<1>7. <<>> \o QbHeldOne = QbHeldOne
  BY QbFlushSays, ConcatEmptySeq
<1>8. /\ QbShaped((<<r>> \o QbFlushed) \o <<a, b, g>>)
      /\ \A k \in 1 .. Len((<<r>> \o QbFlushed) \o <<a, b, g>>) :
             LET do == (<<r>> \o QbFlushed) \o <<a, b, g>>
             IN  do[k].do # "tx" /\ (k = 1 => do[k].do # "gone")
  BY <1>2, <1>4, <1>5, QbEndShaped
<1>9. QbSays((<<r>> \o QbFlushed) \o <<a, b, g>>, QbHeldOne \o <<x, y>>)
  BY <1>4, <1>6, <1>7, QbSaysBoth DEF QbPart
<1> QED BY <1>1, <1>8, <1>9 DEF QbScript

\* What is queued, as the panel will be told it.
QbOut ==
    IF qbQueue = <<>> THEN <<>>
    ELSE <<[cmd |-> Head(qbQueue).cmd, data |-> qbBuf[Head(qbQueue).buf]]>>

QbTyped ==
    /\ qbPending \in QbCmds /\ qbTurn \in {0, 1} /\ qbActive \in {0, 1} /\ qbIn \in BOOLEAN
    /\ qbInflight \in 0 .. 2 /\ qbSem \in Nat /\ qbBuf \in [{0, 1} -> QbDatas]

\* At most one transfer is queued, from the buffer that is not filled next.
QbQueued ==
    /\ qbQueue = <<>> \/ \E cmd \in QbCmds : qbQueue = <<[cmd |-> cmd, buf |-> 1 - qbActive]>>
    /\ qbQueue # <<>> => qbObj = "live"

\* A call has a bus; a transfer in hand has its data in the buffer, and room; a
\* bus is given up when nothing is queued.
QbCalled ==
    /\ QbShaped(qbDo) /\ (qbDo # <<>> => qbObj = "live")
    /\ QbAt({"tx"}) => qbBuf[qbActive] = Head(qbDo).data /\ qbInflight < 2
    /\ QbAt({"gone"}) => qbQueue = <<>>
    /\ qbIn => qbDo # <<>> /\ qbDo[Len(qbDo)].do = "end"

\* What is due is what is queued and what the call in hand says.
QbDueIs == \E due : QbSays(qbDo, due) /\ qbDue = QbOut \o due

\* Once a transfer does not end, nothing is told any more.
QbInv ==
    /\ qbGood = TRUE /\ qbDead \in BOOLEAN
    /\ IF qbDead THEN qbQueue # <<>>
       ELSE QbTyped /\ QbQueued /\ QbCalled /\ QbCounts /\ QbDueIs

\* It is what is promised.
LEMMA QbAgrees == QbInv => QbSafe
<1>. SUFFICES ASSUME QbInv PROVE QbSafe
  OBVIOUS
<1>1. CASE qbDead
  BY <1>1 DEF QbInv, QbSafe, QbSaid, QbCounts, QbHeld, QbFree
<1>2. CASE ~qbDead
  <2>1. QbQueued /\ QbCalled /\ QbCounts /\ QbDueIs /\ qbGood
    BY <1>2 DEF QbInv
  <2>2. ASSUME QbIdle, qbQueue = <<>> PROVE qbDue = <<>>
    <3>1. PICK due : QbSays(<<>>, due) /\ qbDue = <<>> \o due
      BY <2>1, <2>2 DEF QbDueIs, QbOut, QbIdle
    <3>2. due = <<>>
      BY <3>1, QbSaysNothing
    <3> QED BY <3>1, <3>2
  <2> QED BY <2>1, <2>2 DEF QbSafe, QbSaid, QbHeld, QbFree, QbQueued, QbCalled, QbIdle
<1> QED BY <1>1, <1>2 DEF QbInv

\* What is next in the call in hand, and what is left after it.
LEMMA QbNextIs ==
    ASSUME QbCalled, qbDo # <<>>
    PROVE  /\ Head(qbDo) \in QbItems /\ Tail(qbDo) \in Seq(QbItems) /\ QbShaped(Tail(qbDo))
           /\ Head(qbDo) = qbDo[1] /\ Len(qbDo) \in Nat \ {0} /\ Len(Tail(qbDo)) = Len(qbDo) - 1
           /\ \A k \in 1 .. Len(qbDo) - 1 : Tail(qbDo)[k] = qbDo[k + 1]
           /\ Tail(qbDo) # <<>> => Head(Tail(qbDo)).do # "tx"
           /\ Tail(qbDo) # <<>> /\ Head(Tail(qbDo)).do = "gone" => Head(qbDo).do = "param"
           /\ Head(qbDo).do = "begin" \/ (qbDo[Len(qbDo)].do = "end" /\ Head(qbDo).do # "end") =>
                  Tail(qbDo) # <<>> /\ Tail(qbDo)[Len(Tail(qbDo))].do = "end"
           /\ Head(qbDo).do = "gone" => Tail(qbDo) = <<>>
<1>1. qbDo \in Seq(QbItems) /\ QbShaped(qbDo)
  BY DEF QbCalled, QbShaped
<1>2. PICK do, n : do = qbDo /\ n = Len(do)
  OBVIOUS
<1>3. /\ n \in Nat \ {0} /\ do \in Seq(QbItems) /\ do # <<>>
      /\ Head(do) \in QbItems /\ Tail(do) \in Seq(QbItems) /\ Len(Tail(do)) = n - 1
      /\ \A k \in 1 .. n - 1 : Tail(do)[k] = do[k + 1]
  BY <1>1, <1>2, HeadTailProperties, EmptySeq
<1>4. Head(do) = do[1]
  BY <1>3
<1>5. /\ \A k \in 1 .. n : do[k].do = "tx" => k = 1
      /\ \A k \in 1 .. n : do[k].do = "gone" => k = n /\ (k > 1 => do[k - 1].do = "param")
      /\ \A k \in 1 .. n : do[k].do = "begin" => do[n].do = "end"
  BY <1>1, <1>2 DEF QbShaped
<1>6. PICK t : t = Tail(do)
  OBVIOUS
<1>7. \A k \in 1 .. n - 1 : k + 1 \in 1 .. n /\ t[k] = do[k + 1] /\ (k + 1) - 1 = k
  BY <1>3, <1>6
<1>8. QbShaped(t)
  <2>1. \A k \in 1 .. n - 1 : t[k].do # "tx"
    BY <1>3, <1>5, <1>7
  <2>2. ASSUME NEW k \in 1 .. n - 1, t[k].do = "gone"
        PROVE  k = n - 1 /\ (k > 1 => t[k - 1].do = "param")
    <3>1. k + 1 = n /\ do[k].do = "param"
      BY <1>3, <1>5, <1>7, <2>2
    <3>2. k > 1 => k - 1 \in 1 .. n - 1 /\ (k - 1) + 1 = k
      BY <1>3
    <3>3. k > 1 => t[k - 1] = do[k]
      BY <1>7, <3>2
    <3> QED BY <1>3, <3>1, <3>3
  <2>3. ASSUME NEW k \in 1 .. n - 1, t[k].do = "begin" PROVE t[n - 1].do = "end"
    <3>1. do[n].do = "end"
      BY <1>5, <1>7, <2>3
    <3>2. n - 1 \in 1 .. n - 1 /\ (n - 1) + 1 = n
      BY <1>3
    <3>3. t[n - 1] = do[n]
      BY <1>7, <3>2
    <3> QED BY <3>1, <3>3
  <2> QED BY <1>3, <1>6, <2>1, <2>2, <2>3 DEF QbShaped
<1>9. t # <<>> => n - 1 \in 1 .. n - 1 /\ 1 \in 1 .. n - 1 /\ Head(t) = t[1]
  BY <1>3, <1>6, EmptySeq
<1>10. t # <<>> => Head(t).do # "tx" /\ (Head(t).do = "gone" => do[1].do = "param")
  <2>. SUFFICES ASSUME t # <<>>
                PROVE  Head(t).do # "tx" /\ (Head(t).do = "gone" => do[1].do = "param")
    OBVIOUS
  <2>1. 1 + 1 \in 1 .. n /\ t[1] = do[1 + 1] /\ (1 + 1) - 1 = 1 /\ 1 + 1 > 1
    BY <1>7, <1>9
  <2> QED BY <1>5, <1>9, <2>1
<1>11. ASSUME do[1].do = "begin" \/ (do[n].do = "end" /\ do[1].do # "end")
       PROVE  t # <<>> /\ t[n - 1].do = "end"
  <2>1. 1 \in 1 .. n
    BY <1>3
  <2>2. do[n].do = "end" /\ do[1].do # "end"
    BY <1>5, <1>11, <2>1
  <2>3. n # 1
    BY <2>2
  <2>4. n - 1 \in 1 .. n - 1 /\ (n - 1) + 1 = n
    BY <1>3, <2>3
  <2>5. t[n - 1] = do[n]
    BY <1>7, <2>4
  <2>6. t # <<>>
    <3>1. Len(t) = n - 1 /\ n - 1 # 0 /\ Len(<<>>) = 0
      BY <1>3, <1>6, <2>4
    <3> QED BY <3>1
  <2> QED BY <2>2, <2>5, <2>6
<1>12. do[1].do = "gone" => t = <<>>
  <2>. SUFFICES ASSUME do[1].do = "gone" PROVE t = <<>>
    OBVIOUS
  <2>1. 1 \in 1 .. n
    BY <1>3
  <2>2. n = 1
    BY <1>5, <2>1
  <2> QED BY <1>3, <1>6, <2>2, EmptySeq
<1> QED BY <1>2, <1>3, <1>4, <1>6, <1>8, <1>10, <1>11, <1>12

\* A call begins.
LEMMA QbStartsKeeps ==
    ASSUME QbInv, ~qbDead, NEW script, NEW then, NEW meant, QbScript(script, meant),
           QbStarts(script, then, meant)
    PROVE  QbInv'
<1>1. /\ qbDo = <<>> /\ qbObj = "live" /\ script # <<>> /\ qbDo' = script /\ qbDue' = qbDue \o meant
      /\ qbTurn' = 1 - qbTurn
      /\ UNCHANGED <<qbObj, qbPending, qbIn, qbActive, qbInflight, qbSem, qbBuf, qbQueue,
                     qbDead, qbGood>>
  BY DEF QbStarts, QbIdle, QbTransfers
<1>2. QbTyped /\ QbQueued /\ QbCalled /\ QbCounts /\ QbDueIs /\ qbGood = TRUE
  BY DEF QbInv
<1>3. QbTyped' /\ QbQueued'
  BY <1>1, <1>2 DEF QbTyped, QbQueued
<1>4. QbCalled'
  <2>1. script \in Seq(QbItems) /\ Len(script) \in Nat \ {0}
    BY <1>1, EmptySeq DEF QbScript, QbShaped
  <2>2. Head(script) = script[1] /\ 1 \in 1 .. Len(script)
    BY <2>1
  <2>3. Head(script).do \notin {"tx", "gone"}
    BY <2>2 DEF QbScript
  <2>4. ~qbIn
    BY <1>1, <1>2 DEF QbCalled
  <2> QED BY <1>1, <2>3, <2>4 DEF QbCalled, QbAt, QbScript
<1>5. QbCounts'
  <2>1. ~QbAt({"gone"})
    BY <1>1 DEF QbAt
  <2> QED BY <1>1, <1>2, <2>1 DEF QbCounts
<1>6. QbDueIs'
  <2>1. PICK due : QbSays(<<>>, due) /\ qbDue = QbOut \o due
    BY <1>1, <1>2 DEF QbDueIs
  <2>2. due = <<>>
    BY <2>1, QbSaysNothing
  <2>3. QbOut \in Seq(QbTold) /\ QbOut' = QbOut
    <3>1. CASE qbQueue = <<>>
      BY <1>1, <3>1 DEF QbOut
    <3>2. CASE qbQueue # <<>>
      <4>1. PICK cmd \in QbCmds : qbQueue = <<[cmd |-> cmd, buf |-> 1 - qbActive]>>
        BY <1>2, <3>2 DEF QbQueued
      <4>2. Head(qbQueue) = [cmd |-> cmd, buf |-> 1 - qbActive]
        BY <4>1
      <4>3. qbBuf[1 - qbActive] \in QbDatas
        BY <1>2 DEF QbTyped
      <4>4. PICK t : t = [cmd |-> Head(qbQueue).cmd, data |-> qbBuf[Head(qbQueue).buf]]
        OBVIOUS
      <4>5. t \in QbTold
        BY <4>2, <4>3, <4>4 DEF QbTold
      <4>6. QbOut = <<t>>
        BY <3>2, <4>4 DEF QbOut
      <4> QED BY <1>1, <4>5, <4>6 DEF QbOut
    <3> QED BY <3>1, <3>2
  <2>4. qbDue = QbOut
    BY <2>1, <2>2, <2>3, ConcatEmptySeq
  <2> QED BY <1>1, <2>3, <2>4 DEF QbDueIs, QbScript
<1> QED BY <1>1, <1>2, <1>3, <1>4, <1>5, <1>6 DEF QbInv

\* What is left to do once a step is done.
LEMMA QbPopCalled ==
    ASSUME QbCalled, qbDo # <<>>, qbDo' = Tail(qbDo), qbObj' = qbObj,
           Head(qbDo).do = "param" => qbQueue' = <<>>,
           qbIn' => Head(qbDo).do = "begin" \/ (qbIn /\ Head(qbDo).do # "end")
    PROVE  QbCalled'
<1>1. PICK t, i : t = Tail(qbDo) /\ i = Head(qbDo)
  OBVIOUS
<1>2. /\ QbShaped(t) /\ (t # <<>> => Head(t).do # "tx")
      /\ t # <<>> /\ Head(t).do = "gone" => i.do = "param"
      /\ i.do = "begin" \/ (qbDo[Len(qbDo)].do = "end" /\ i.do # "end") =>
             t # <<>> /\ t[Len(t)].do = "end"
  BY <1>1, QbNextIs
<1>3. qbIn' => t # <<>> /\ t[Len(t)].do = "end"
  BY <1>1, <1>2 DEF QbCalled
<1>4. qbObj' = "live"
  BY DEF QbCalled
<1>5. ~QbAt({"tx"})' /\ (QbAt({"gone"})' => qbQueue' = <<>>)
  BY <1>1, <1>2 DEF QbAt
<1> QED BY <1>1, <1>2, <1>3, <1>4, <1>5 DEF QbCalled

\* A step that tells nothing leaves what is due.
LEMMA QbSilentDue ==
    ASSUME QbDueIs, qbDo # <<>>, qbDo' = Tail(qbDo), Head(qbDo).do \notin QbTelling,
           UNCHANGED <<qbBuf, qbQueue, qbDue>>
    PROVE  QbDueIs'
<1>1. PICK due : QbSays(qbDo, due) /\ qbDue = QbOut \o due
  BY DEF QbDueIs
<1>2. QbSays(Tail(qbDo), due)
  BY <1>1, QbSaysNext
<1>3. QbOut' = QbOut
  BY DEF QbOut
<1> QED BY <1>1, <1>2, <1>3 DEF QbDueIs

\* A step that tells something tells what is due first, with nothing queued.
LEMMA QbToldDue ==
    ASSUME QbDueIs, QbCalled, qbDo # <<>>, Head(qbDo).do \in QbTelling, qbQueue = <<>>
    PROVE  \E due : /\ QbSays(Tail(qbDo), due) /\ qbDue # <<>>
                    /\ Head(qbDue) = [cmd |-> Head(qbDo).cmd, data |-> Head(qbDo).data]
                    /\ Tail(qbDue) = due
                    /\ qbDue = <<[cmd |-> Head(qbDo).cmd, data |-> Head(qbDo).data]>> \o due
<1>1. PICK due : QbSays(qbDo, due) /\ qbDue = <<>> \o due
  BY DEF QbDueIs, QbOut
<1>2. due \in Seq(QbTold)
  BY <1>1 DEF QbSays
<1>3. qbDue = due
  BY <1>1, <1>2, ConcatEmptySeq
<1> QED BY <1>1, <1>3, QbSaysNext

\* Every step of a bus whose transfers end, or that has just given up on one.
LEMMA QbSteps ==
    ASSUME QbInv, ~qbDead, ~QbErrs, ~QbLate, QbNext
    PROVE  QbInv'
<1>. USE DEF QbPanel, QbTransfers
<1>0. /\ QbTyped /\ QbQueued /\ QbCalled /\ QbCounts /\ QbDueIs /\ qbGood = TRUE
  BY DEF QbInv
<1>a. ASSUME NEW what, QbAt(what) PROVE qbDo # <<>> /\ Head(qbDo).do \in what /\ qbObj = "live"
  BY <1>0, <1>a DEF QbAt, QbCalled
<1>1. ASSUME NEW cmd \in QbAll, NEW chunks \in 0 .. QbChunks, QbSend(cmd, chunks) PROVE QbInv'
  BY <1>0, <1>1, QbSendSays, QbStartsKeeps DEF QbSend, QbTyped
<1>2. ASSUME NEW cmd \in QbAll, QbWriteCommand(cmd) PROVE QbInv'
  BY <1>0, <1>2, QbWriteCommandSays, QbStartsKeeps DEF QbWriteCommand, QbTyped
<1>3. ASSUME NEW chunks \in 0 .. QbChunks, QbWriteData(chunks) PROVE QbInv'
  BY <1>0, <1>3, QbWriteDataSays, QbStartsKeeps DEF QbWriteData, QbTyped
<1>4. ASSUME NEW then \in {"stay", "make", "reset"}, QbDeinit(then) PROVE QbInv'
  BY <1>0, <1>4, QbDeinitSays, QbStartsKeeps DEF QbDeinit, QbTyped
<1>5. ASSUME QbMake \/ QbGone PROVE QbInv'
  <2>1. /\ qbQueue = <<>> /\ qbDo' = <<>>
        /\ \E obj : QbFresh(obj)
        /\ UNCHANGED <<qbQueue, qbTurn, qbDead, qbDue, qbGood>>
    <3>1. CASE QbMake
      BY <1>0, <3>1 DEF QbMake, QbIdle, QbQueued
    <3>2. CASE QbGone
      BY <1>0, <3>2 DEF QbGone, QbCalled, QbAt
    <3> QED BY <1>5, <3>1, <3>2
  <2>2. PICK obj : QbFresh(obj)
    BY <2>1
  <2>3. /\ qbPending' = QbNone /\ qbIn' = FALSE /\ qbActive' = 0 /\ qbInflight' = 0 /\ qbSem' = 0
        /\ qbBuf' = [b \in {0, 1} |-> QbNoData]
    BY <2>2 DEF QbFresh
  <2>4. QbTyped'
    <3>1. QbNoData \in QbDatas /\ QbNone \in QbCmds
      BY QbItemsAre DEF QbCmds
    <3>2. qbBuf' \in [{0, 1} -> QbDatas]
      BY <2>3, <3>1
    <3>3. qbTurn' \in {0, 1}
      BY <1>0, <2>1 DEF QbTyped
    <3>4. qbInflight' \in 0 .. 2 /\ qbSem' \in Nat /\ qbActive' \in {0, 1}
      BY <2>3
    <3>5. qbPending' \in QbCmds /\ qbIn' \in BOOLEAN
      BY <2>3, <3>1, Zenon
    <3> QED BY <3>2, <3>3, <3>4, <3>5 DEF QbTyped
  <2>5. QbQueued' /\ QbCounts'
    BY <2>1, <2>3 DEF QbQueued, QbCounts
  <2>6. QbCalled'
    BY <2>1, <2>3, LenProperties DEF QbCalled, QbShaped, QbAt
  <2>7. QbDueIs'
    <3>2. PICK due : QbSays(qbDo, due) /\ qbDue = <<>> \o due
      BY <1>0, <2>1 DEF QbDueIs, QbOut
    <3>3. due = <<>>
      <4>1. CASE qbDo = <<>>
        BY <3>2, <4>1, QbSaysNothing
      <4>2. CASE qbDo # <<>>
        <5>1. Head(qbDo).do = "gone"
          BY <1>5, <4>2 DEF QbMake, QbGone, QbIdle
        <5>2. Tail(qbDo) = <<>>
          BY <1>0, <4>2, <5>1, QbNextIs
        <5>3. QbSays(Tail(qbDo), due)
          BY <3>2, <4>2, <5>1, QbSaysNext DEF QbTelling
        <5> QED BY <5>2, <5>3, QbSaysNothing
      <4> QED BY <4>1, <4>2
    <3>4. qbDue' = <<>> /\ QbOut' = <<>>
      BY <2>1, <3>2, <3>3 DEF QbOut
    <3> QED BY <2>1, <3>4, QbSaysNothing DEF QbDueIs
  <2> QED BY <1>0, <2>1, <2>4, <2>5, <2>6, <2>7 DEF QbInv
<1>6. ASSUME QbWaits PROVE /\ qbDo # <<>> /\ Head(qbDo).do \in {"param", "copy", "all", "rest", "begin"}
                           /\ qbObj = "live" /\ ~QbAt({"gone"}) /\ qbInflight > 0
                           /\ qbInflight = Len(qbQueue) + qbSem
  <2>1. qbDo # <<>> /\ Head(qbDo).do \in {"param", "copy", "all", "rest", "begin"} /\ qbInflight > 0
    BY <1>0, <1>6 DEF QbWaits, QbAt, QbTyped
  <2>2. qbObj = "live" /\ ~QbAt({"gone"})
    BY <1>0, <2>1 DEF QbCalled, QbAt
  <2> QED BY <1>0, <2>1, <2>2 DEF QbCounts
<1>b. Len(qbQueue) \in {0, 1} /\ (Len(qbQueue) = 0 <=> qbQueue = <<>>)
  <2>1. CASE qbQueue = <<>>
    BY <2>1
  <2>2. CASE qbQueue # <<>>
    BY <1>0, <2>2 DEF QbQueued
  <2> QED BY <2>1, <2>2
<1>7. ASSUME QbWaitOne PROVE QbInv'
  <2>1. /\ QbWaits /\ qbSem > 0 /\ qbSem' = qbSem - 1 /\ qbInflight' = qbInflight - 1
        /\ UNCHANGED <<qbObj, qbThen, qbTurn, qbDo, qbPending, qbIn, qbActive, qbBuf, qbQueue,
                       qbDead, qbDue, qbGood>>
    BY <1>7 DEF QbWaitOne, QbStays
  <2>2. QbTyped'
    BY <1>0, <1>6, <2>1 DEF QbTyped
  <2>3. QbCounts'
    BY <1>0, <1>6, <1>b, <2>1 DEF QbCounts, QbTyped
  <2>4. QbCalled'
    BY <1>0, <2>1, <1>6 DEF QbCalled, QbAt, QbTyped
  <2> QED BY <1>0, <2>1, <2>2, <2>3, <2>4 DEF QbInv, QbQueued, QbDueIs, QbOut
<1>8. ASSUME QbTimesOut PROVE QbInv'
  <2>1. QbWaits /\ qbSem = 0 /\ qbDead' = TRUE /\ qbQueue' = qbQueue /\ qbGood' = qbGood
    BY <1>8 DEF QbTimesOut
  <2>2. qbQueue # <<>>
    BY <1>0, <1>6, <1>b, <2>1 DEF QbTyped
  <2> QED BY <1>0, <2>1, <2>2 DEF QbInv
<1>9. ASSUME QbParamGoes PROVE QbInv'
  <2>1. /\ QbAt({"param"}) /\ qbQueue = <<>>
        /\ QbTells([cmd |-> Head(qbDo).cmd, data |-> Head(qbDo).data])
        /\ qbDo' = Tail(qbDo)
        /\ UNCHANGED <<qbObj, qbThen, qbTurn, qbPending, qbIn, qbActive, qbInflight, qbSem, qbBuf,
                       qbQueue, qbDead>>
    BY <1>9 DEF QbParamGoes, QbPops
  <2>2. qbDo # <<>> /\ Head(qbDo).do = "param"
    BY <2>1 DEF QbAt
  <2>3. PICK due : /\ QbSays(Tail(qbDo), due) /\ qbDue # <<>>
                   /\ Head(qbDue) = [cmd |-> Head(qbDo).cmd, data |-> Head(qbDo).data]
                   /\ Tail(qbDue) = due
    BY <1>0, <2>1, <2>2, QbToldDue DEF QbTelling
  <2>4. qbGood' = TRUE /\ qbDue' = due
    BY <1>0, <2>1, <2>3 DEF QbTells
  <2>5. due = <<>> \o due
    BY <2>3, ConcatEmptySeq DEF QbSays
  <2>6. QbDueIs'
    BY <2>1, <2>3, <2>4, <2>5 DEF QbDueIs, QbOut
  <2>7. QbCalled'
    BY <1>0, <2>1, <2>2, QbPopCalled
  <2>8. QbCounts'
    BY <1>0, <2>1, <2>2 DEF QbCounts, QbAt
  <2> QED BY <1>0, <2>1, <2>4, <2>6, <2>7, <2>8 DEF QbInv, QbTyped, QbQueued
<1>10. ASSUME QbCopies PROVE QbInv'
  <2>1. PICK i, t, d : i = Head(qbDo) /\ t = [i EXCEPT !.do = "tx"] /\ d = i.data
    OBVIOUS
  <2>2. /\ qbDo # <<>> /\ i.do = "copy" /\ ~QbWaits
        /\ qbBuf' = [qbBuf EXCEPT ![qbActive] = d] /\ qbDo' = <<t>> \o Tail(qbDo)
        /\ UNCHANGED <<qbObj, qbThen, qbTurn, qbPending, qbIn, qbActive, qbInflight, qbSem,
                       qbQueue, qbDead, qbDue, qbGood>>
    BY <1>10, <2>1 DEF QbCopies, QbAt
  <2>3. /\ i \in QbItems /\ Tail(qbDo) \in Seq(QbItems) /\ i = qbDo[1]
        /\ Len(qbDo) \in Nat \ {0} /\ Len(Tail(qbDo)) = Len(qbDo) - 1
        /\ \A k \in 1 .. Len(qbDo) - 1 : Tail(qbDo)[k] = qbDo[k + 1]
    BY <1>0, <2>1, <2>2, QbNextIs
  <2>4. t \in QbItems /\ t.do = "tx" /\ t.data = d /\ t.cmd = i.cmd /\ d \in QbDatas
    BY <2>1, <2>3 DEF QbItems, QbWords
  <2>5. PICK n, do, on : n = Len(qbDo) /\ do = qbDo /\ on = qbDo'
    OBVIOUS
  <2>6. /\ on \in Seq(QbItems) /\ Len(on) = n /\ n \in Nat \ {0} /\ on[1] = t
        /\ \A k \in 2 .. n : on[k] = do[k]
        /\ on # <<>> /\ Head(on) = t
    <3>1. <<t>> \in Seq(QbItems) /\ Len(<<t>>) = 1 /\ <<t>>[1] = t
      BY <2>4
    <3>2. /\ on \in Seq(QbItems) /\ Len(on) = 1 + (n - 1)
          /\ \A k \in 1 .. 1 + (n - 1) : on[k] = IF k <= 1 THEN <<t>>[k] ELSE Tail(qbDo)[k - 1]
      BY <2>2, <2>3, <2>5, <3>1, ConcatProperties
    <3>3. on[1] = t
      BY <2>3, <2>5, <3>1, <3>2
    <3>4. ASSUME NEW k \in 2 .. n PROVE on[k] = do[k]
      <4>1. k - 1 \in 1 .. n - 1 /\ (k - 1) + 1 = k /\ ~(k <= 1) /\ k \in 1 .. 1 + (n - 1)
        BY <2>3, <2>5
      <4> QED BY <2>3, <2>5, <3>2, <4>1
    <3>5. on # <<>>
      BY <2>3, <2>5, <3>2
    <3>6. Head(on) = on[1]
      BY <3>2, <3>5
    <3> QED BY <2>3, <2>5, <3>2, <3>3, <3>4, <3>5, <3>6
  <2>7. QbTyped'
    BY <1>0, <2>2, <2>4 DEF QbTyped
  <2>8. QbQueued' /\ QbOut' = QbOut
    <3>1. QbQueued'
      BY <1>0, <2>2 DEF QbQueued
    <3>2. ASSUME qbQueue # <<>> PROVE qbBuf'[Head(qbQueue).buf] = qbBuf[Head(qbQueue).buf]
      <4>1. Head(qbQueue).buf = 1 - qbActive
        BY <1>0, <3>2 DEF QbQueued
      <4>2. 1 - qbActive \in {0, 1} /\ 1 - qbActive # qbActive
        BY <1>0 DEF QbTyped
      <4> QED BY <1>0, <2>2, <4>1, <4>2 DEF QbTyped
    <3> QED BY <2>2, <3>1, <3>2 DEF QbOut
  <2>9. QbDueIs'
    <3>1. PICK due : QbSays(do, due) /\ qbDue = QbOut \o due
      BY <1>0, <2>5 DEF QbDueIs
    <3>2. PICK c : QbCountsIn(do, due, c)
      BY <3>1 DEF QbSays
    <3>3. \A k \in 1 .. n : /\ on[k].do \in QbTelling <=> do[k].do \in QbTelling
                            /\ on[k].cmd = do[k].cmd /\ on[k].data = do[k].data
      <4>1. \A k \in 1 .. n : k = 1 \/ k \in 2 .. n
        BY <2>6
      <4>2. on[1].cmd = do[1].cmd /\ on[1].data = do[1].data
        BY <2>1, <2>3, <2>4, <2>5, <2>6
      <4>3. on[1].do \in QbTelling /\ do[1].do \in QbTelling
        BY <2>2, <2>3, <2>4, <2>5, <2>6 DEF QbTelling
      <4> QED BY <2>6, <4>1, <4>2, <4>3
    <3>4. QbCountsIn(on, due, c)
      BY <2>5, <2>6, <3>2, <3>3 DEF QbCountsIn
    <3>5. QbSays(on, due)
      BY <2>6, <3>1, <3>4 DEF QbSays
    <3> QED BY <2>2, <2>5, <2>8, <3>1, <3>5 DEF QbDueIs
  <2>10. QbCalled'
    <3>1. /\ \A k \in 1 .. n : do[k].do = "tx" => k = 1
          /\ \A k \in 1 .. n : do[k].do = "gone" => k = n /\ (k > 1 => do[k - 1].do = "param")
          /\ \A k \in 1 .. n : do[k].do = "begin" => do[n].do = "end"
      BY <1>0, <2>5 DEF QbCalled, QbShaped
    <3>2. \A k \in 1 .. n : on[k].do = "tx" => k = 1
      BY <2>6, <3>1
    <3>3. ASSUME NEW k \in 1 .. n, on[k].do = "gone"
          PROVE  k = n /\ (k > 1 => on[k - 1].do = "param")
      <4>1. k \in 2 .. n
        BY <2>4, <2>6, <3>3
      <4>2. k = n /\ do[k - 1].do = "param"
        BY <2>6, <3>1, <3>3, <4>1
      <4>3. k - 1 # 1
        BY <2>2, <2>3, <2>5, <4>2
      <4>4. k - 1 \in 2 .. n
        BY <2>6, <4>1, <4>3
      <4> QED BY <2>6, <4>2, <4>4
    <3>4. n \in 1 .. n /\ (n = 1 \/ n \in 2 .. n)
      BY <2>6
    <3>5. do[n].do = "end" => on[n].do = "end"
      <4>1. do[n].do = "end" => n # 1
        BY <2>2, <2>3, <2>5
      <4> QED BY <2>6, <3>4, <4>1
    <3>6. ASSUME NEW k \in 1 .. n, on[k].do = "begin" PROVE on[n].do = "end"
      <4>1. k \in 2 .. n
        BY <2>4, <2>6, <3>6
      <4> QED BY <2>6, <3>1, <3>5, <3>6, <4>1
    <3>7. QbShaped(on)
      BY <2>6, <3>2, <3>3, <3>6 DEF QbShaped
    <3>8. qbInflight < 2
      BY <1>0, <2>1, <2>2 DEF QbWaits, QbAt, QbTyped
    <3>9. qbBuf'[qbActive] = d
      BY <1>0, <2>2 DEF QbTyped
    <3>10. QbAt({"tx"})' => qbBuf'[qbActive'] = Head(on).data /\ qbInflight' < 2
      BY <2>2, <2>4, <2>6, <3>8, <3>9
    <3>11. ~QbAt({"gone"})'
      BY <2>4, <2>5, <2>6 DEF QbAt
    <3>12. qbIn' => on # <<>> /\ on[Len(on)].do = "end"
      BY <1>0, <2>2, <2>5, <2>6, <3>5 DEF QbCalled
    <3>13. qbObj' = "live"
      BY <1>0, <2>2 DEF QbCalled
    <3> QED BY <2>5, <3>7, <3>10, <3>11, <3>12, <3>13 DEF QbCalled
  <2>11. QbCounts'
    <3>1. ~QbAt({"gone"})
      BY <2>1, <2>2 DEF QbAt
    <3> QED BY <1>0, <2>2, <3>1 DEF QbCounts
  <2> QED BY <1>0, <2>2, <2>7, <2>8, <2>9, <2>10, <2>11 DEF QbInv
<1>11. ASSUME QbQueues PROVE QbInv'
  <2>1. PICK i : i = Head(qbDo)
    OBVIOUS
  <2>2. /\ QbAt({"tx"}) /\ qbDo # <<>> /\ i.do = "tx" /\ qbQueue = <<>>
        /\ qbQueue' = <<[cmd |-> i.cmd, buf |-> qbActive]>>
        /\ qbInflight' = qbInflight + 1 /\ qbActive' = 1 - qbActive /\ qbDo' = Tail(qbDo)
        /\ UNCHANGED <<qbObj, qbThen, qbTurn, qbPending, qbIn, qbSem, qbBuf, qbDead, qbDue, qbGood>>
    BY <1>11, <2>1 DEF QbQueues, QbAt, QbPops
  <2>3. qbBuf[qbActive] = i.data /\ qbInflight < 2 /\ qbObj = "live"
    BY <1>0, <2>1, <2>2 DEF QbCalled
  <2>4. i.cmd \in QbCmds
    BY <1>0, <2>1, <2>2, QbNextIs DEF QbItems
  <2>5. QbTyped'
    BY <1>0, <2>2, <2>3 DEF QbTyped
  <2>6. QbQueued'
    <3>1. qbActive = 1 - qbActive'
      BY <1>0, <2>2 DEF QbTyped
    <3> QED BY <2>2, <2>3, <2>4, <3>1 DEF QbQueued
  <2>7. QbCalled'
    BY <1>0, <2>1, <2>2, QbPopCalled
  <2>8. QbCounts'
    <3>1. ~QbAt({"gone"}) /\ Len(qbQueue) = 0 /\ Len(qbQueue') = 1
      BY <2>1, <2>2 DEF QbAt
    <3> QED BY <1>0, <2>2, <2>3, <3>1 DEF QbCounts, QbTyped
  <2>9. QbDueIs'
    <3>1. PICK due : /\ QbSays(Tail(qbDo), due)
                     /\ qbDue = <<[cmd |-> i.cmd, data |-> i.data]>> \o due
      BY <1>0, <2>1, <2>2, QbToldDue DEF QbTelling
    <3>2. QbOut' = <<[cmd |-> i.cmd, data |-> i.data]>>
      <4>1. /\ qbQueue' # <<>> /\ Head(qbQueue') = [cmd |-> i.cmd, buf |-> qbActive]
            /\ Head(qbQueue').cmd = i.cmd /\ Head(qbQueue').buf = qbActive
        BY <2>2
      <4>2. qbBuf'[Head(qbQueue').buf] = i.data
        BY <2>2, <2>3, <4>1
      <4> QED BY <4>1, <4>2 DEF QbOut
    <3> QED BY <2>2, <3>1, <3>2 DEF QbDueIs
  <2> QED BY <1>0, <2>2, <2>5, <2>6, <2>7, <2>8, <2>9 DEF QbInv
<1>12. ASSUME QbFails PROVE QbInv'
  <2>1. /\ qbQueue = <<>> /\ ~\E k \in DOMAIN qbDo : qbDo[k].do = "end"
        /\ qbInflight' = 0 /\ qbSem' = 0 /\ qbDo' = <<>> /\ qbDue' = <<>>
        /\ UNCHANGED <<qbObj, qbThen, qbTurn, qbPending, qbIn, qbActive, qbBuf, qbQueue, qbDead, qbGood>>
    BY <1>12 DEF QbFails
  <2>2. ~qbIn
    <3>1. ASSUME qbDo # <<>> PROVE Len(qbDo) \in DOMAIN qbDo
      <4>1. qbDo \in Seq(QbItems) /\ Len(qbDo) \in Nat \ {0}
        BY <1>0, <3>1, EmptySeq DEF QbCalled, QbShaped
      <4> QED BY <4>1
    <3> QED BY <1>0, <2>1, <3>1 DEF QbCalled
  <2>3. QbTyped'
    BY <1>0, <2>1 DEF QbTyped
  <2>4. QbQueued' /\ QbCounts'
    BY <2>1 DEF QbQueued, QbCounts
  <2>5. QbCalled'
    BY <2>1, <2>2, LenProperties DEF QbCalled, QbShaped, QbAt
  <2>6. QbDueIs'
    <3>1. QbOut' = <<>>
      BY <2>1 DEF QbOut
    <3> QED BY <2>1, <3>1, QbSaysNothing DEF QbDueIs
  <2> QED BY <1>0, <2>1, <2>3, <2>4, <2>5, <2>6 DEF QbInv
<1>c. ASSUME qbDo # <<>>, Head(qbDo).do \notin QbTelling \cup {"gone", "tx"}, qbDo' = Tail(qbDo),
             qbIn' => Head(qbDo).do = "begin" \/ (qbIn /\ Head(qbDo).do # "end"),
             qbSem' = qbSem \/ (qbInflight = 0 /\ qbSem' = 0),
             qbPending' \in QbCmds, qbIn' \in BOOLEAN,
             UNCHANGED <<qbObj, qbThen, qbTurn, qbActive, qbInflight, qbBuf, qbQueue, qbDead, qbDue,
                         qbGood>>
      PROVE  QbInv'
  <2>1. QbTyped'
    BY <1>0, <1>c DEF QbTyped
  <2>2. QbCounts'
    <3>1. ~QbAt({"gone"})
      BY <1>c DEF QbAt
    <3>2. Len(qbQueue) \in Nat
      BY <1>b
    <3> QED BY <1>0, <1>c, <3>1, <3>2 DEF QbCounts, QbTyped
  <2>3. QbCalled'
    BY <1>0, <1>c, QbPopCalled DEF QbTelling
  <2>4. QbDueIs'
    BY <1>0, <1>c, QbSilentDue
  <2> QED BY <1>0, <1>c, <2>1, <2>2, <2>3, <2>4 DEF QbInv, QbQueued
<1>13. ASSUME QbDrain \/ QbRest \/ QbBegin \/ QbHold \/ QbEnd PROVE QbInv'
  <2>1. ASSUME qbDo # <<>> PROVE Head(qbDo).cmd \in QbCmds
    BY <1>0, <2>1, QbNextIs DEF QbItems
  <2>2. CASE QbDrain
    <3>1. /\ qbDo # <<>> /\ Head(qbDo).do = "drain" /\ qbDo' = Tail(qbDo)
          /\ qbSem' = (IF qbInflight = 0 THEN 0 ELSE qbSem)
          /\ UNCHANGED <<qbObj, qbThen, qbTurn, qbPending, qbIn, qbActive, qbInflight, qbBuf,
                         qbQueue, qbDead, qbDue, qbGood>>
      BY <2>2 DEF QbDrain, QbAt, QbPops
    <3> QED BY <1>0, <1>c, <3>1 DEF QbTelling, QbTyped
  <2>3. CASE QbRest
    <3>1. /\ qbDo # <<>> /\ Head(qbDo).do \in {"all", "rest"} /\ qbDo' = Tail(qbDo)
          /\ UNCHANGED <<qbObj, qbThen, qbTurn, qbPending, qbIn, qbActive, qbInflight, qbSem, qbBuf,
                         qbQueue, qbDead, qbDue, qbGood>>
      BY <2>3 DEF QbRest, QbAt, QbPops
    <3> QED BY <1>0, <1>c, <3>1 DEF QbTelling, QbTyped
  <2>4. CASE QbBegin
    <3>1. /\ qbDo # <<>> /\ Head(qbDo).do = "begin" /\ qbDo' = Tail(qbDo) /\ qbIn' = TRUE
          /\ UNCHANGED <<qbObj, qbThen, qbTurn, qbPending, qbActive, qbInflight, qbSem, qbBuf,
                         qbQueue, qbDead, qbDue, qbGood>>
      BY <2>4 DEF QbBegin, QbAt, QbPops
    <3> QED BY <1>0, <1>c, <3>1 DEF QbTelling, QbTyped
  <2>5. CASE QbHold
    <3>1. /\ qbDo # <<>> /\ Head(qbDo).do \in {"hold", "clear"} /\ qbDo' = Tail(qbDo)
          /\ qbPending' = Head(qbDo).cmd
          /\ UNCHANGED <<qbObj, qbThen, qbTurn, qbIn, qbActive, qbInflight, qbSem, qbBuf,
                         qbQueue, qbDead, qbDue, qbGood>>
      BY <2>5 DEF QbHold, QbAt, QbPops
    <3> QED BY <1>0, <1>c, <2>1, <3>1 DEF QbTelling, QbTyped
  <2>6. CASE QbEnd
    <3>1. /\ qbDo # <<>> /\ Head(qbDo).do = "end" /\ qbDo' = Tail(qbDo) /\ qbIn' = FALSE
          /\ UNCHANGED <<qbObj, qbThen, qbTurn, qbPending, qbActive, qbInflight, qbSem, qbBuf,
                         qbQueue, qbDead, qbDue, qbGood>>
      BY <2>6 DEF QbEnd, QbAt, QbPops
    <3> QED BY <1>0, <1>c, <3>1 DEF QbTelling, QbTyped
  <2> QED BY <1>13, <2>2, <2>3, <2>4, <2>5, <2>6
<1>14. ASSUME QbDone PROVE QbInv'
  <2>1. PICK o : o = [cmd |-> Head(qbQueue).cmd, data |-> qbBuf[Head(qbQueue).buf]]
    OBVIOUS
  <2>2. /\ qbQueue # <<>> /\ QbTells(o) /\ qbQueue' = Tail(qbQueue)
        /\ qbSem' = (IF qbSem = 2 THEN 2 ELSE qbSem + 1)
        /\ UNCHANGED <<qbObj, qbThen, qbTurn, qbDo, qbPending, qbIn, qbActive, qbInflight, qbBuf,
                       qbDead>>
    BY <1>14, <2>1 DEF QbDone, QbStays
  <2>3. Len(qbQueue) = 1 /\ qbQueue' = <<>> /\ Len(qbQueue') = 0 /\ qbObj = "live"
    BY <1>0, <2>2, SMTT(30) DEF QbQueued
  <2>4. PICK due : QbSays(qbDo, due) /\ qbDue = <<o>> \o due
    BY <1>0, <2>1, <2>2 DEF QbDueIs, QbOut
  <2>5. due \in Seq(QbTold)
    BY <2>4 DEF QbSays
  <2>6. qbDue # <<>> /\ Head(qbDue) = o /\ Tail(qbDue) = due
    <3>1. o \in QbTold
      <4>1. PICK cmd \in QbCmds : qbQueue = <<[cmd |-> cmd, buf |-> 1 - qbActive]>>
        BY <1>0, <2>2 DEF QbQueued
      <4>2. Head(qbQueue) = [cmd |-> cmd, buf |-> 1 - qbActive]
        BY <4>1
      <4>3. qbBuf[1 - qbActive] \in QbDatas
        BY <1>0 DEF QbTyped
      <4> QED BY <2>1, <4>2, <4>3 DEF QbTold
    <3> QED BY <2>4, <2>5, <3>1
  <2>7. qbGood' = TRUE /\ qbDue' = due /\ due = <<>> \o due
    BY <1>0, <2>2, <2>5, <2>6, ConcatEmptySeq DEF QbTells
  <2>8. QbDueIs'
    BY <2>2, <2>3, <2>4, <2>7 DEF QbDueIs, QbOut
  <2>9. QbTyped'
    BY <1>0, <2>2 DEF QbTyped
  <2>10. QbQueued'
    BY <2>3 DEF QbQueued
  <2>11. QbCalled'
    BY <1>0, <2>2, <2>3 DEF QbCalled, QbAt
  <2>12. QbCounts'
    <3>1. ~QbAt({"gone"})
      BY <1>0, <2>2 DEF QbCalled
    <3>2. qbInflight = 1 + qbSem /\ qbSem \in Nat /\ qbInflight \in 0 .. 2
      BY <1>0, <2>2, <2>3, <3>1 DEF QbCounts, QbTyped
    <3>3. qbInflight = qbSem'
      BY <2>2, <3>2
    <3>4. qbInflight' = qbInflight /\ Len(qbQueue') = 0
      BY <2>2, <2>3
    <3>5. Len(qbQueue') + qbSem' = qbSem'
      <4>1. qbSem' \in Nat
        BY <3>2, <3>3
      <4>2. PICK n, m : n = Len(qbQueue') /\ m = qbSem'
        OBVIOUS
      <4>3. n = 0 /\ m \in Nat
        BY <3>4, <4>1, <4>2
      <4>4. n + m = m
        BY <4>3
      <4> QED BY <4>2, <4>4
    <3>6. qbInflight' = Len(qbQueue') + qbSem'
      BY <3>3, <3>4, <3>5
    <3> QED BY <3>6 DEF QbCounts
  <2> QED BY <1>0, <2>2, <2>7, <2>8, <2>9, <2>10, <2>11, <2>12 DEF QbInv
<1> QED BY <1>1, <1>2, <1>3, <1>4, <1>5, <1>7, <1>8, <1>9, <1>10, <1>11, <1>12, <1>13, <1>14 DEF QbNext

\* Once a transfer does not end.
LEMMA QbDeadSteps ==
    ASSUME QbInv, qbDead, ~QbLate, QbNext
    PROVE  QbInv'
<1>1. qbQueue # <<>> /\ qbGood = TRUE /\ qbDead = TRUE
  BY DEF QbInv
<1>2. qbQueue' = qbQueue /\ qbGood' = qbGood /\ qbDead' = TRUE
  BY <1>1 DEF QbNext, QbSend, QbWriteCommand, QbWriteData, QbDeinit, QbStarts, QbMake, QbGone,
     QbWaitOne, QbTimesOut, QbParamGoes, QbCopies, QbQueues, QbFails, QbDrain, QbRest, QbBegin,
     QbHold, QbEnd, QbDone, QbTransfers, QbPanel
<1> QED BY <1>1, <1>2 DEF QbInv

\* The panel is told what the calls say, once and in that order; what is counted
\* as out is; nothing is queued for a bus that is gone, and no transaction is
\* left open: for any commands and lengths, where no transfer of send() fails
\* and what took more than its second does not end after it. (mod_qspibus.c)
THEOREM QbTellsInOrder == ~QbErrs /\ ~QbLate => (QbSpec => []QbSafe)
<1>. SUFFICES ASSUME ~QbErrs, ~QbLate PROVE QbSpec => []QbSafe
  OBVIOUS
<1>1. QbInit => QbInv
  <2>. SUFFICES ASSUME QbInit PROVE QbInv
    OBVIOUS
  <2>1. /\ qbObj = "none" /\ qbPending = QbNone /\ qbIn = FALSE /\ qbActive = 0
        /\ qbInflight = 0 /\ qbSem = 0 /\ qbBuf = [b \in {0, 1} |-> QbNoData] /\ qbQueue = <<>>
        /\ qbDo = <<>> /\ qbTurn = 0 /\ qbDead = FALSE /\ qbDue = <<>> /\ qbGood = TRUE
    BY DEF QbInit
  <2>2. QbTyped
    BY <2>1, QbItemsAre DEF QbTyped, QbCmds
  <2>3. QbQueued /\ QbCounts
    BY <2>1 DEF QbQueued, QbCounts
  <2>4. QbCalled
    BY <2>1, LenProperties DEF QbCalled, QbShaped, QbAt
  <2>5. QbDueIs
    BY <2>1, QbSaysNothing DEF QbDueIs, QbOut
  <2> QED BY <2>1, <2>2, <2>3, <2>4, <2>5 DEF QbInv
<1>2. QbInv /\ [QbNext]_qbVars => QbInv'
  <2>. SUFFICES ASSUME QbInv, [QbNext]_qbVars PROVE QbInv'
    OBVIOUS
  <2>1. CASE UNCHANGED qbVars
    BY <2>1 DEF qbVars, QbInv, QbTyped, QbQueued, QbCalled, QbCounts, QbDueIs, QbOut, QbAt
  <2>2. CASE QbNext
    BY <2>2, QbSteps, QbDeadSteps
  <2> QED BY <2>1, <2>2
<1> QED BY <1>1, <1>2, QbAgrees, PTL DEF QbSpec

-----------------------------------------------------------------------------
(***************************************************************************)
(* The matrix by its core and its interrupt, for any number of matrices,   *)
(* address lines and bit planes. Inductive is what the core is from one    *)
(* step of a construction, a refresh or an end to the next, what the       *)
(* interrupt will latch, and on which row's lines.                         *)
(***************************************************************************)

RmBlocks == RmObjs \X {"pins", "screen"}

\* What an object is.
RmObjects ==
    [made : BOOLEAN, held : BOOLEAN, gone : BOOLEAN, started : BOOLEAN, double : BOOLEAN,
     copy : SUBSET RmBlocks, pix : [1 .. 2 -> Nat], draw : {1, 2}, scan : {1, 2},
     view : {0, 1, 2}, drawn : Nat, shown : Nat]

\* What the core, the panel and the program's place are made of.
RmTyped ==
    /\ rmAvail \in BOOLEAN /\ rmHost \in BOOLEAN /\ rmActive \in BOOLEAN
    /\ rmObj \in [RmObjs -> RmObjects]
    /\ \A o \in RmObjs : rmObj[o].held \/ rmObj[o].started => rmObj[o].made
    /\ rmCore = [pins |-> rmCore.pins, screen |-> rmCore.screen, owner |-> rmCore.owner,
                 double |-> rmCore.double, swap |-> rmCore.swap, buf |-> rmCore.buf,
                 plane |-> rmCore.plane, row |-> rmCore.row, prev |-> rmCore.prev,
                 bufs |-> rmCore.bufs]
    /\ rmCore.double \in BOOLEAN /\ rmCore.swap \in BOOLEAN /\ rmCore.buf \in {0, 1}
    /\ rmCore.plane \in 0 .. RmPlanes - 1 /\ rmCore.bufs \in [1 .. 2 -> Int]
    /\ rmPanel = [addr |-> rmPanel.addr, shift |-> rmPanel.shift, lit |-> rmPanel.lit,
                  weight |-> rmPanel.weight]
    /\ rmPc = [op |-> rmPc.op, at |-> rmPc.at, o |-> rmPc.o]

\* The core has its screen: it is somebody's, who has published it or is about to.
RmUp == rmCore.screen # RmNone
RmCoreUp ==
    RmUp =>
        /\ rmCore.owner \in RmObjs
        /\ {rmCore.pins, rmCore.screen} \subseteq rmHeap
        /\ {rmCore.pins, rmCore.screen} \subseteq RmBlocks
        /\ rmActive /\ rmTimer = IF rmPc.at = "free" THEN "held" ELSE "running"
        /\ ~rmHost => rmPc.op = "make" /\ rmPc.at \in {"convert", "torn", "swap", "done"}
        /\ rmHost => /\ rmObj[rmCore.owner].made /\ rmObj[rmCore.owner].started
                     /\ rmObj[rmCore.owner].held
                     /\ {rmCore.pins, rmCore.screen} \subseteq rmObj[rmCore.owner].copy

\* It has none: nothing is lit, and nobody who published a matrix owns it.
RmCoreDown ==
    ~RmUp =>
        /\ rmPanel = RmDark /\ rmTimer # "running" /\ rmHost = FALSE
        /\ rmCore.owner = RmNone => ~rmCore.double /\ rmCore.pins = RmNone
        /\ rmCore.owner # RmNone => rmCore.owner \in RmObjs /\ ~rmObj[rmCore.owner].started

\* Where the program is.
RmPlaces ==
    /\ rmPc.op = "idle" => rmPc = RmIdle
    /\ rmPc.at \in {"stop", "free", "init", "begin", "convert", "torn", "swap", "done"}
    /\ rmPc.at \in {"stop", "free"} =>
           /\ RmUp /\ rmHost /\ rmPc.op \in {"make", "deinit", "reset"}
           /\ rmPc.op # "reset" => rmPc.o \in RmObjs
           /\ rmPc.op = "make" => rmObj[rmPc.o].made /\ ~rmObj[rmPc.o].started
    /\ rmPc.at \in {"init", "begin"} =>
           /\ ~RmUp /\ rmPc.op = "make" /\ rmPc.o \in RmObjs
           /\ rmObj[rmPc.o].made /\ ~rmObj[rmPc.o].started
    /\ rmPc.at = "begin" =>
           /\ rmCore.owner = rmPc.o /\ rmCore.pins \in rmHeap \cap RmBlocks /\ rmActive
           /\ rmCore.bufs = <<0, 0>> /\ rmCore.buf = 0
    /\ rmPc.op # "idle" /\ rmPc.at \in {"convert", "torn", "swap", "done"} =>
           /\ rmPc.op \in {"make", "refresh"} /\ rmPc.o \in RmObjs /\ rmObj[rmPc.o].made
           /\ RmUp => rmCore.owner = rmPc.o
           /\ ~RmUp => ~rmCore.double
           /\ rmPc.op = "make" => RmUp /\ ~rmHost

\* The buffers: what is on show is whole, and what was drawn is in the one it is to be in.
RmBuffers ==
    /\ rmCore.swap => rmPc.at = "swap" /\ RmUp /\ rmCore.double
    /\ ~rmCore.double => rmCore.buf = 0
    /\ rmCore.double => rmCore.bufs[rmCore.buf + 1] # -1
    /\ rmPc.at = "swap" /\ RmUp /\ rmCore.swap => rmCore.bufs[2 - rmCore.buf] = RmDrawn(rmPc.o)
    /\ rmPc.op # "idle" /\ rmPc.at \in {"swap", "done"} /\ RmUp /\ ~rmCore.swap =>
           rmCore.bufs[rmCore.buf + 1] = RmDrawn(rmPc.o)

\* What is in the shift registers, what is lit, and the lines the address is on.
RmShown ==
    /\ rmPanel.shift # RmNone =>
           /\ rmPanel.shift.row = rmCore.row /\ rmPanel.shift.plane = rmCore.plane
           /\ rmCore.double => rmPanel.shift.frame # -1
    /\ rmPanel.lit # RmNone =>
           /\ rmPanel.addr = RmBits(rmPanel.lit.row) /\ rmPanel.weight = rmPanel.lit.plane
           /\ rmCore.double => rmPanel.lit.frame # -1
    /\ RmUp => IF rmCore.plane = 0 THEN rmPanel.addr = RmBits(rmCore.prev)
               ELSE \/ rmCore.prev = rmCore.row /\ rmPanel.addr = RmBits(rmCore.row)
                    \/ /\ rmPanel.shift = RmNone /\ rmPanel.addr = RmBits(rmCore.prev)
                       /\ rmCore.plane = RmPlanes - 1

RmInv == /\ RmTyped /\ RmCoreUp /\ RmCoreDown /\ RmPlaces /\ RmBuffers /\ RmShown
         /\ RmScansLatest

\* It is what is promised.
LEMMA RmAgrees == RmInv => RmSafe
<1>. SUFFICES ASSUME RmInv PROVE RmSafe
  OBVIOUS
<1>1. RmReadsHeld
  BY DEF RmInv, RmCoreUp, RmCoreDown, RmReadsHeld
<1>2. RmFreesOnce
  BY DEF RmInv, RmCoreUp, RmPlaces, RmFreesOnce
<1>3. RmOwnRow /\ RmNeverTorn
  BY DEF RmInv, RmShown, RmOwnRow, RmNeverTorn
<1>4. RmServed
  BY DEF RmInv, RmCoreUp, RmBuffers, RmServed
<1>5. RmShowsDrawn
  BY DEF RmInv, RmBuffers, RmShowsDrawn, RmUp
<1>6. RmReadsOwn
  <2>. SUFFICES ASSUME rmPc.at \in {"torn", "swap"}, rmCore.screen # RmNone
                PROVE  RmSize(rmCore.owner) <= RmSize(rmPc.o)
    BY DEF RmReadsOwn
  <2>1. rmPc.op # "idle"
    BY DEF RmInv, RmPlaces, RmIdle
  <2>2. rmCore.owner = rmPc.o
    BY <2>1 DEF RmInv, RmPlaces, RmUp
  <2> QED BY <2>2 DEF RmSize
<1> QED BY <1>1, <1>2, <1>3, <1>4, <1>5, <1>6 DEF RmSafe, RmInv

\* It holds at the start.
LEMMA RmBegins == RmInit => RmInv
<1>. SUFFICES ASSUME RmInit PROVE RmInv
  OBVIOUS
<1>1. <<0, 0>> \in [1 .. 2 -> Nat] /\ <<0, 0>> \in [1 .. 2 -> Int]
  OBVIOUS
<1>2. /\ rmAvail \in BOOLEAN /\ rmObj = [o \in RmObjs |-> RmUnmade]
      /\ rmCore = RmZero /\ rmHost = FALSE /\ rmActive = FALSE /\ rmTimer = "none"
      /\ rmPanel = RmDark /\ rmPc = RmIdle
  BY DEF RmInit
<1>3. RmUnmade \in RmObjects
  BY <1>1 DEF RmUnmade, RmObjects
<1>4. /\ rmCore.screen = RmNone /\ rmCore.pins = RmNone /\ rmCore.owner = RmNone
      /\ rmCore.double = FALSE /\ rmCore.swap = FALSE /\ rmCore.buf = 0 /\ rmCore.plane = 0
      /\ rmCore.bufs = <<0, 0>>
      /\ rmCore = [pins |-> rmCore.pins, screen |-> rmCore.screen, owner |-> rmCore.owner,
                   double |-> rmCore.double, swap |-> rmCore.swap, buf |-> rmCore.buf,
                   plane |-> rmCore.plane, row |-> rmCore.row, prev |-> rmCore.prev,
                   bufs |-> rmCore.bufs]
  BY <1>2 DEF RmZero
<1>5. RmTyped
  <2>1. /\ rmObj \in [RmObjs -> RmObjects]
        /\ \A o \in RmObjs : rmObj[o].held \/ rmObj[o].started => rmObj[o].made
    BY <1>2, <1>3 DEF RmUnmade
  <2>2. rmCore.buf \in {0, 1} /\ rmCore.plane \in 0 .. RmPlanes - 1 /\ rmCore.bufs \in [1 .. 2 -> Int]
    BY <1>1, <1>4, RmAssumption
  <2>3. /\ rmAvail \in BOOLEAN /\ rmHost \in BOOLEAN /\ rmActive \in BOOLEAN
        /\ rmCore.double \in BOOLEAN /\ rmCore.swap \in BOOLEAN
    BY <1>2, <1>4
  <2>4. /\ rmPanel = [addr |-> rmPanel.addr, shift |-> rmPanel.shift, lit |-> rmPanel.lit,
                      weight |-> rmPanel.weight]
        /\ rmPc = [op |-> rmPc.op, at |-> rmPc.at, o |-> rmPc.o]
    BY <1>2 DEF RmDark, RmIdle
  <2> QED BY <1>4, <2>1, <2>2, <2>3, <2>4 DEF RmTyped
<1>6. ~RmUp
  BY <1>4 DEF RmUp
<1>7. RmCoreUp /\ RmCoreDown
  BY <1>2, <1>4, <1>6 DEF RmCoreUp, RmCoreDown
<1>8. RmPlaces
  BY <1>2 DEF RmPlaces, RmIdle
<1>9. RmBuffers /\ RmShown
  BY <1>2, <1>4, <1>6 DEF RmBuffers, RmShown, RmDark, RmIdle
<1>10. RmScansLatest
  BY <1>2 DEF RmScansLatest, RmUnmade
<1> QED BY <1>5, <1>7, <1>8, <1>9, <1>10 DEF RmInv

\* The interrupt.
LEMMA RmInterrupt ==
    ASSUME RmInv, RmRowHandler
    PROVE  RmInv'
<1>0. /\ RmTyped /\ RmCoreUp /\ RmCoreDown /\ RmPlaces /\ RmBuffers /\ RmShown /\ RmScansLatest
      /\ RmPlanes \in Nat \ {0}
  BY RmAssumption DEF RmInv
<1>1. PICK p, row, ends : /\ p = rmCore.plane + 1
                          /\ row = IF p < RmPlanes THEN rmCore.row ELSE (rmCore.row + 1) % RmRowPairs
                          /\ ends = (p = RmPlanes /\ row = 0)
  OBVIOUS
<1>2. /\ rmTimer = "running" /\ rmActive
      /\ rmCore' = [rmCore EXCEPT !.plane = p % RmPlanes, !.row = row,
                                  !.prev = IF rmCore.plane = 0 THEN rmCore.row ELSE rmCore.prev,
                                  !.buf = IF ends /\ rmCore.swap THEN 1 - rmCore.buf ELSE rmCore.buf,
                                  !.swap = rmCore.swap /\ ~ends]
      /\ rmPanel' = [RmLatch EXCEPT !.shift = [row |-> rmCore'.row, plane |-> rmCore'.plane,
                                               frame |-> rmCore'.bufs[rmCore'.buf + 1]]]
      /\ UNCHANGED <<rmAvail, rmObj, rmHost, rmActive, rmTimer, rmHeap, rmPc>>
  BY <1>1 DEF RmRowHandler, RmAdvance
<1>3. RmUp
  BY <1>0, <1>2 DEF RmCoreDown
<1>4. ends \in BOOLEAN
  BY <1>1
<1>5. /\ rmCore'.pins = rmCore.pins /\ rmCore'.screen = rmCore.screen
      /\ rmCore'.owner = rmCore.owner /\ rmCore'.double = rmCore.double
      /\ rmCore'.bufs = rmCore.bufs /\ rmCore'.plane = p % RmPlanes /\ rmCore'.row = row
      /\ rmCore'.prev = (IF rmCore.plane = 0 THEN rmCore.row ELSE rmCore.prev)
      /\ rmCore'.buf = (IF ends /\ rmCore.swap THEN 1 - rmCore.buf ELSE rmCore.buf)
      /\ rmCore'.swap = (rmCore.swap /\ ~ends)
      /\ rmCore' = [pins |-> rmCore'.pins, screen |-> rmCore'.screen, owner |-> rmCore'.owner,
                    double |-> rmCore'.double, swap |-> rmCore'.swap, buf |-> rmCore'.buf,
                    plane |-> rmCore'.plane, row |-> rmCore'.row, prev |-> rmCore'.prev,
                    bufs |-> rmCore'.bufs]
  BY <1>0, <1>2 DEF RmTyped
<1>6. PICK moved : moved = RmXor(RmBits(rmCore.row), RmBits(rmCore.prev))
  OBVIOUS
<1>7. /\ rmPanel'.lit = rmPanel.shift /\ rmPanel'.weight = rmCore.plane
      /\ rmPanel'.addr = (IF rmCore.plane = 0 THEN RmXor(rmPanel.addr, moved) ELSE rmPanel.addr)
      /\ rmPanel'.shift = [row |-> rmCore'.row, plane |-> rmCore'.plane,
                           frame |-> rmCore'.bufs[rmCore'.buf + 1]]
      /\ rmPanel' = [addr |-> rmPanel'.addr, shift |-> rmPanel'.shift, lit |-> rmPanel'.lit,
                     weight |-> rmPanel'.weight]
  BY <1>0, <1>2, <1>6 DEF RmLatch, RmTyped
<1>8. /\ p % RmPlanes \in 0 .. RmPlanes - 1
      /\ p % RmPlanes = 0 <=> p = RmPlanes
      /\ p < RmPlanes => p % RmPlanes = p
      /\ p \in 1 .. RmPlanes /\ p = rmCore.plane + 1
  <2>1. p \in 1 .. RmPlanes
    BY <1>0, <1>1 DEF RmTyped
  <2>2. CASE p = RmPlanes
    BY <1>0, <1>1, <2>1, <2>2
  <2>3. CASE p < RmPlanes
    BY <1>0, <1>1, <2>1, <2>3
  <2> QED BY <1>0, <1>1, <2>1, <2>2, <2>3
<1>9. RmTyped'
  <2>1. rmCore'.buf \in {0, 1} /\ rmCore'.plane \in 0 .. RmPlanes - 1 /\ rmCore'.bufs \in [1 .. 2 -> Int]
    BY <1>0, <1>5, <1>8 DEF RmTyped
  <2>2. rmCore'.double \in BOOLEAN /\ rmCore'.swap \in BOOLEAN
    BY <1>0, <1>4, <1>5 DEF RmTyped
  <2> QED BY <1>0, <1>2, <1>5, <1>7, <2>1, <2>2 DEF RmTyped
<1>10. RmCoreUp' /\ RmCoreDown'
  <2>1. RmUp'
    BY <1>3, <1>5 DEF RmUp
  <2> QED BY <1>0, <1>2, <1>3, <1>5, <2>1 DEF RmCoreUp, RmCoreDown
<1>11. RmPlaces'
  <2>1. RmUp'
    BY <1>3, <1>5 DEF RmUp
  <2>2. rmPc.at \notin {"init", "begin"}
    BY <1>0, <1>3 DEF RmPlaces
  <2> QED BY <1>0, <1>2, <1>3, <1>5, <2>1, <2>2 DEF RmPlaces
<1>12. RmBuffers'
  <2>1. RmUp'
    BY <1>3, <1>5 DEF RmUp
  <2>2. RmDrawn(rmPc.o)' = RmDrawn(rmPc.o)
    BY <1>2 DEF RmDrawn
  <2>3. CASE ends /\ rmCore.swap
    <3>1. /\ rmPc.at = "swap" /\ rmCore.double /\ rmCore'.swap = FALSE /\ rmCore'.buf = 1 - rmCore.buf
          /\ rmCore.bufs[2 - rmCore.buf] = RmDrawn(rmPc.o)
      BY <1>0, <1>3, <1>5, <2>3 DEF RmBuffers
    <3>2. rmCore'.buf + 1 = 2 - rmCore.buf
      BY <1>0, <3>1 DEF RmTyped
    <3>3. rmPc.op # "idle"
      BY <1>0, <3>1 DEF RmPlaces, RmIdle
    <3>4. RmDrawn(rmPc.o) \in Nat
      <4>1. rmPc.o \in RmObjs
        BY <1>0, <3>1, <3>3 DEF RmPlaces
      <4>2. rmObj[rmPc.o] \in RmObjects
        BY <1>0, <4>1 DEF RmTyped
      <4> QED BY <4>2 DEF RmDrawn, RmObjects
    <3>5. rmCore'.bufs[rmCore'.buf + 1] = RmDrawn(rmPc.o)
      BY <1>5, <3>1, <3>2
    <3>6. rmCore'.bufs[rmCore'.buf + 1] # -1
      BY <3>4, <3>5
    <3> QED BY <1>2, <1>5, <2>1, <2>2, <3>1, <3>5, <3>6 DEF RmBuffers
  <2>4. CASE ~(ends /\ rmCore.swap)
    <3>1. rmCore'.buf = rmCore.buf /\ (rmCore'.swap <=> rmCore.swap)
      BY <1>0, <1>4, <1>5, <2>4 DEF RmTyped
    <3> QED BY <1>0, <1>2, <1>3, <1>5, <2>1, <2>2, <3>1 DEF RmBuffers
  <2> QED BY <2>3, <2>4
<1>13. RmShown'
  <2>1. /\ rmPanel'.shift.row = rmCore'.row /\ rmPanel'.shift.plane = rmCore'.plane
        /\ rmPanel'.shift.frame = rmCore'.bufs[rmCore'.buf + 1]
    BY <1>7
  <2>2. rmCore'.double => rmPanel'.shift.frame # -1
    BY <1>12, <2>1 DEF RmBuffers
  <2>3. rmCore.plane = 0 => rmPanel'.addr = RmBits(rmCore.row)
    <3>. SUFFICES ASSUME rmCore.plane = 0 PROVE rmPanel'.addr = RmBits(rmCore.row)
      OBVIOUS
    <3>1. rmPanel.addr = RmBits(rmCore.prev)
      BY <1>0, <1>3 DEF RmShown
    <3> QED BY <1>6, <1>7, <3>1 DEF RmXor
  <2>4. rmPanel.shift # RmNone =>
            /\ rmPanel'.addr = RmBits(rmPanel'.lit.row) /\ rmPanel'.weight = rmPanel'.lit.plane
            /\ rmCore'.double => rmPanel'.lit.frame # -1
    <3>. SUFFICES ASSUME rmPanel.shift # RmNone
                  PROVE  /\ rmPanel'.addr = RmBits(rmPanel.shift.row)
                         /\ rmCore.plane = rmPanel.shift.plane
                         /\ rmCore.double => rmPanel.shift.frame # -1
      BY <1>5, <1>7
    <3>1. /\ rmPanel.shift.row = rmCore.row /\ rmPanel.shift.plane = rmCore.plane
          /\ rmCore.double => rmPanel.shift.frame # -1
      BY <1>0 DEF RmShown
    <3>2. rmCore.plane # 0 => rmPanel'.addr = RmBits(rmCore.row)
      BY <1>0, <1>3, <1>7 DEF RmShown
    <3> QED BY <2>3, <3>1, <3>2
  <2>6. rmCore'.plane # 0 => rmCore'.row = rmCore.row
    <3>1. p # RmPlanes => p < RmPlanes
      BY <1>0, <1>8
    <3>2. p < RmPlanes => row = rmCore.row
      BY <1>1
    <3>3. rmCore'.plane # 0 => p # RmPlanes
      BY <1>5, <1>8
    <3> QED BY <1>5, <3>1, <3>2, <3>3
  <2>7. CASE rmCore.plane = 0
    <3>1. rmCore'.prev = rmCore.row /\ rmPanel'.addr = RmBits(rmCore.row)
      BY <1>5, <2>3, <2>7
    <3>2. rmPanel'.addr = RmBits(rmCore'.prev)
      BY <3>1
    <3>3. rmCore'.plane # 0 => rmCore'.prev = rmCore'.row /\ rmPanel'.addr = RmBits(rmCore'.row)
      BY <2>6, <3>1
    <3> QED BY <1>7, <2>1, <2>2, <2>4, <3>2, <3>3 DEF RmShown
  <2>8. CASE rmCore.plane # 0
    <3>1. rmPanel'.addr = rmPanel.addr /\ rmCore'.prev = rmCore.prev
      BY <1>5, <1>7, <2>8
    <3>2. \/ rmCore.prev = rmCore.row /\ rmPanel.addr = RmBits(rmCore.row)
          \/ rmPanel.addr = RmBits(rmCore.prev) /\ rmCore.plane = RmPlanes - 1
      BY <1>0, <1>3, <2>8 DEF RmShown
    <3>3. rmPanel'.addr = RmBits(rmCore'.prev)
      BY <3>1, <3>2
    <3>4. rmCore.plane = RmPlanes - 1 => rmCore'.plane = 0
      <4>1. rmCore.plane = RmPlanes - 1 => p = RmPlanes
        BY <1>0, <1>8
      <4> QED BY <1>5, <1>8, <4>1
    <3>5. rmCore'.plane # 0 => rmCore'.prev = rmCore'.row /\ rmPanel'.addr = RmBits(rmCore'.row)
      BY <2>6, <3>1, <3>2, <3>4
    <3> QED BY <1>7, <2>1, <2>2, <2>4, <3>3, <3>5 DEF RmShown
  <2> QED BY <2>7, <2>8
<1>14. RmScansLatest'
  BY <1>0, <1>2 DEF RmScansLatest
<1> QED BY <1>9, <1>10, <1>11, <1>12, <1>13, <1>14 DEF RmInv

\* A matrix that is made.
LEMMA RmMakes ==
    ASSUME RmInv, NEW o \in RmObjs, NEW double \in BOOLEAN, RmMake(o, double)
    PROVE  RmInv'
<1>0. RmTyped /\ RmCoreUp /\ RmCoreDown /\ RmPlaces /\ RmBuffers /\ RmShown /\ RmScansLatest
  BY DEF RmInv
<1>1. rmPc = RmIdle /\ rmPc.op = "idle" /\ rmPc.at = "done"
  BY <1>0 DEF RmMake, RmPlaces, RmIdle
<1>2. /\ ~rmObj[o].made
      /\ rmObj' = [rmObj EXCEPT ![o] =
             [RmUnmade EXCEPT !.made = TRUE, !.held = ~rmAvail, !.double = double,
                              !.scan = IF double THEN 2 ELSE 1]]
      /\ rmPc' = IF ~rmAvail THEN RmIdle
                 ELSE [op |-> "make", at |-> IF rmHost THEN "stop" ELSE "init", o |-> o]
      /\ UNCHANGED <<rmAvail, rmCore, rmHost, rmActive, rmTimer, rmHeap, rmPanel>>
  BY DEF RmMake, RmGoes
<1>3. RmUp <=> rmHost
  BY <1>0, <1>1 DEF RmCoreUp, RmCoreDown, RmTyped
<1>4. /\ rmObj'[o].made /\ ~rmObj'[o].started /\ rmObj'[o].pix = <<0, 0>> /\ rmObj'[o].draw = 1
      /\ rmObj'[o].drawn = 0
      /\ \A x \in RmObjs \ {o} : rmObj'[x] = rmObj[x]
      /\ rmObj' \in [RmObjs -> RmObjects]
  <2>1. <<0, 0>> \in [1 .. 2 -> Nat]
    OBVIOUS
  <2>2. [RmUnmade EXCEPT !.made = TRUE, !.held = ~rmAvail, !.double = double,
                         !.scan = IF double THEN 2 ELSE 1] \in RmObjects
    BY <1>0, <2>1 DEF RmUnmade, RmObjects, RmTyped
  <2> QED BY <1>0, <1>2, <2>2 DEF RmTyped, RmUnmade
<1>5. RmTyped'
  <2>1. rmPc' = [op |-> rmPc'.op, at |-> rmPc'.at, o |-> rmPc'.o]
    BY <1>2 DEF RmIdle
  <2>2. \A x \in RmObjs : rmObj'[x].held \/ rmObj'[x].started => rmObj'[x].made
    BY <1>0, <1>4 DEF RmTyped
  <2> QED BY <1>0, <1>2, <1>4, <2>1, <2>2 DEF RmTyped
<1>6. rmPc'.at \in {"done", "stop", "init"}
  BY <1>2 DEF RmIdle
<1>7. RmUp' <=> RmUp
  BY <1>2 DEF RmUp
<1>8. RmCoreUp'
  <2>. SUFFICES ASSUME RmUp PROVE RmCoreUp'
    BY <1>7 DEF RmCoreUp
  <2>1. rmHost /\ rmCore.owner \in RmObjs /\ rmObj[rmCore.owner].made
    BY <1>0, <1>3 DEF RmCoreUp
  <2>2. rmObj'[rmCore.owner] = rmObj[rmCore.owner]
    BY <1>2, <1>4, <2>1
  <2>3. rmTimer = "running"
    BY <1>0, <1>1 DEF RmCoreUp
  <2> QED BY <1>0, <1>2, <1>6, <2>1, <2>2, <2>3 DEF RmCoreUp
<1>9. RmCoreDown'
  BY <1>0, <1>2, <1>4, <1>7 DEF RmCoreDown
<1>10. RmPlaces'
  BY <1>2, <1>3, <1>4, <1>7 DEF RmPlaces, RmIdle
<1>11. RmBuffers'
  <2>1. ~rmCore.swap
    BY <1>0, <1>1 DEF RmBuffers
  <2>2. rmPc'.op # "idle" => rmPc'.at \in {"stop", "init"}
    BY <1>2 DEF RmIdle
  <2> QED BY <1>0, <1>2, <1>6, <1>7, <2>1, <2>2 DEF RmBuffers
<1>12. RmShown'
  BY <1>0, <1>2, <1>7 DEF RmShown
<1>13. RmScansLatest'
  <2>1. rmObj'[o].pix[rmObj'[o].draw] = rmObj'[o].drawn
    BY <1>4
  <2> QED BY <1>0, <1>2, <1>4, <2>1 DEF RmScansLatest
<1> QED BY <1>5, <1>8, <1>9, <1>10, <1>11, <1>12, <1>13 DEF RmInv

\* A construction that raises, or gets its pins.
LEMMA RmInits ==
    ASSUME RmInv, RmInitFails \/ RmInitOk
    PROVE  RmInv'
<1>0. RmTyped /\ RmCoreUp /\ RmCoreDown /\ RmPlaces /\ RmBuffers /\ RmShown /\ RmScansLatest
  BY DEF RmInv
<1>1. /\ rmPc.at = "init" /\ ~RmUp /\ rmPc.op = "make" /\ rmPc.o \in RmObjs
      /\ rmObj[rmPc.o].made /\ ~rmObj[rmPc.o].started /\ rmPanel = RmDark /\ rmHost = FALSE
      /\ rmTimer # "running"
  BY <1>0 DEF RmInitFails, RmInitOk, RmPlaces, RmCoreDown
<1>2. /\ ~rmCore.swap
      /\ UNCHANGED <<rmAvail, rmObj, rmHost, rmPanel>>
  BY <1>0, <1>1 DEF RmBuffers, RmInitFails, RmInitOk
<1>3. rmObj[rmPc.o].double \in BOOLEAN
  <2>1. rmObj[rmPc.o] \in RmObjects
    BY <1>0, <1>1 DEF RmTyped
  <2> QED BY <2>1 DEF RmObjects
<1>4. \/ rmCore' = rmCore
      \/ /\ rmCore' = [pins |-> rmCore'.pins, screen |-> RmNone, owner |-> rmPc.o,
                       double |-> rmObj[rmPc.o].double, swap |-> FALSE, buf |-> 0, plane |-> 0,
                       row |-> 0, prev |-> 0, bufs |-> <<0, 0>>]
  BY DEF RmInitFails, RmInitOk, RmInited, RmZero
<1>5. RmTyped'
  <2>1. <<0, 0>> \in [1 .. 2 -> Int] /\ 0 \in 0 .. RmPlanes - 1
    BY RmAssumption
  <2>2. rmPc' = [op |-> rmPc'.op, at |-> rmPc'.at, o |-> rmPc'.o]
    BY DEF RmInitFails, RmInitOk, RmGoes, RmIdle
  <2>3. rmActive' \in BOOLEAN
    BY <1>0 DEF RmInitFails, RmInitOk, RmTyped
  <2>4. CASE rmCore' = rmCore
    BY <1>0, <1>2, <2>2, <2>3, <2>4 DEF RmTyped
  <2>5. CASE rmCore' # rmCore
    <3>1. /\ rmCore'.double = rmObj[rmPc.o].double /\ rmCore'.swap = FALSE
          /\ rmCore'.buf = 0 /\ rmCore'.plane = 0 /\ rmCore'.bufs = <<0, 0>>
          /\ rmCore' = [pins |-> rmCore'.pins, screen |-> rmCore'.screen, owner |-> rmCore'.owner,
                        double |-> rmCore'.double, swap |-> rmCore'.swap, buf |-> rmCore'.buf,
                        plane |-> rmCore'.plane, row |-> rmCore'.row, prev |-> rmCore'.prev,
                        bufs |-> rmCore'.bufs]
      BY <1>4, <2>5
    <3> QED BY <1>0, <1>2, <1>3, <2>1, <2>2, <2>3, <3>1 DEF RmTyped
  <2> QED BY <2>4, <2>5
<1>6. /\ ~RmUp' /\ ~rmCore'.swap
      /\ ~rmCore'.double => rmCore'.buf = 0
      /\ rmCore'.double => rmCore'.bufs[rmCore'.buf + 1] # -1
  BY <1>0, <1>1, <1>2, <1>4 DEF RmUp, RmBuffers
<1>7. RmBuffers' /\ RmShown' /\ RmScansLatest' /\ RmCoreUp'
  BY <1>0, <1>1, <1>2, <1>6 DEF RmBuffers, RmShown, RmScansLatest, RmCoreUp, RmDark
<1>8. (rmCore'.owner # RmNone /\ rmCore'.owner = rmPc.o) \/ rmCore' = rmCore
  BY <1>1, <1>4, RmAssumption
<1>9. rmTimer' # "running"
  BY <1>1 DEF RmInitFails, RmInitOk
<1>10. RmCoreDown'
  BY <1>0, <1>1, <1>2, <1>8, <1>9 DEF RmCoreDown, RmUp
<1>11. RmPlaces'
  <2>1. CASE RmInitFails
    BY <2>1 DEF RmPlaces, RmInitFails, RmIdle
  <2>2. CASE RmInitOk
    <3>1. /\ rmPc' = [op |-> "make", at |-> "begin", o |-> rmPc.o]
          /\ rmCore'.owner = rmPc.o /\ rmCore'.pins = <<rmPc.o, "pins">> /\ rmActive'
          /\ rmCore'.bufs = <<0, 0>> /\ rmCore'.buf = 0
          /\ rmHeap' = rmHeap \cup {<<rmPc.o, "pins">>}
      BY <2>2 DEF RmInitOk, RmGoes, RmInited, RmZero
    <3>2. <<rmPc.o, "pins">> \in RmBlocks
      BY <1>1 DEF RmBlocks
    <3> QED BY <1>1, <1>2, <1>6, <3>1, <3>2 DEF RmPlaces
  <2> QED BY <2>1, <2>2
<1> QED BY <1>5, <1>7, <1>10, <1>11 DEF RmInv

\* A construction that raises, or gets its screen and starts.
LEMMA RmBegun ==
    ASSUME RmInv, RmBeginFails \/ RmBeginOk
    PROVE  RmInv'
<1>0. RmTyped /\ RmCoreUp /\ RmCoreDown /\ RmPlaces /\ RmBuffers /\ RmShown /\ RmScansLatest
  BY DEF RmInv
<1>1. /\ rmPc.at = "begin" /\ ~RmUp /\ rmPc.op = "make" /\ rmPc.o \in RmObjs
      /\ rmObj[rmPc.o].made /\ ~rmObj[rmPc.o].started /\ rmPanel = RmDark /\ rmHost = FALSE
      /\ rmCore.owner = rmPc.o /\ rmCore.pins \in rmHeap \cap RmBlocks /\ rmActive
      /\ rmCore.bufs = <<0, 0>> /\ rmCore.buf = 0
  BY <1>0 DEF RmBeginFails, RmBeginOk, RmPlaces, RmCoreDown
<1>2. ~rmCore.swap /\ UNCHANGED <<rmAvail, rmObj, rmHost>>
  BY <1>0, <1>1 DEF RmBuffers, RmBeginFails, RmBeginOk
<1>3. RmScansLatest'
  BY <1>0, <1>2 DEF RmScansLatest
<1>4. CASE RmBeginFails
  <2>1. /\ rmPc' = RmIdle /\ rmTimer' = "none" /\ rmActive' = FALSE
        /\ UNCHANGED <<rmCore, rmPanel>>
    BY <1>4 DEF RmBeginFails
  <2>2. ~RmUp'
    BY <1>1, <2>1 DEF RmUp
  <2>3. RmTyped'
    BY <1>0, <1>2, <2>1 DEF RmTyped, RmIdle
  <2>4. RmPlaces'
    BY <2>1 DEF RmPlaces, RmIdle
  <2>5. RmCoreUp' /\ RmCoreDown'
    BY <1>0, <1>1, <1>2, <2>1, <2>2 DEF RmCoreUp, RmCoreDown
  <2>6. RmBuffers' /\ RmShown'
    BY <1>0, <1>1, <1>2, <2>1, <2>2 DEF RmBuffers, RmShown, RmIdle
  <2> QED BY <1>3, <2>3, <2>4, <2>5, <2>6 DEF RmInv
<1>5. CASE RmBeginOk
  <2>1. /\ rmPc' = [op |-> "make", at |-> "convert", o |-> rmPc.o]
        /\ rmCore' = [pins |-> rmCore.pins, screen |-> <<rmPc.o, "screen">>, owner |-> rmCore.owner,
                      double |-> rmCore.double, swap |-> rmCore.swap, buf |-> rmCore.buf,
                      plane |-> RmPlanes - 1, row |-> RmRowPairs - 1, prev |-> RmRowPairs - 2,
                      bufs |-> rmCore.bufs]
        /\ rmHeap' = rmHeap \cup {<<rmPc.o, "screen">>}
        /\ rmTimer' = "running" /\ rmActive' = rmActive
        /\ rmPanel' = [addr |-> RmBits(RmRowPairs - 2), shift |-> RmNone, lit |-> RmNone,
                       weight |-> 0]
    <3>1. rmCore' = [rmCore EXCEPT !.screen = <<rmPc.o, "screen">>, !.plane = RmPlanes - 1,
                                   !.row = RmRowPairs - 1, !.prev = RmRowPairs - 2]
      BY <1>5 DEF RmBeginOk
    <3> QED BY <1>0, <1>5, <3>1 DEF RmBeginOk, RmGoes, RmDark, RmTyped
  <2>2. <<rmPc.o, "screen">> \in RmBlocks /\ <<rmPc.o, "screen">> # RmNone
    BY <1>1, RmAssumption DEF RmBlocks
  <2>3. RmUp'
    BY <2>1, <2>2 DEF RmUp
  <2>4. RmTyped'
    <3>1. RmPlanes - 1 \in 0 .. RmPlanes - 1
      BY RmAssumption
    <3>2. rmCore.buf \in {0, 1} /\ rmCore.bufs \in [1 .. 2 -> Int] /\ rmCore.double \in BOOLEAN
          /\ rmCore.swap \in BOOLEAN
      BY <1>0 DEF RmTyped
    <3>3. /\ rmCore'.double = rmCore.double /\ rmCore'.swap = rmCore.swap
          /\ rmCore'.buf = rmCore.buf /\ rmCore'.plane = RmPlanes - 1 /\ rmCore'.bufs = rmCore.bufs
          /\ rmCore' = [pins |-> rmCore'.pins, screen |-> rmCore'.screen, owner |-> rmCore'.owner,
                        double |-> rmCore'.double, swap |-> rmCore'.swap, buf |-> rmCore'.buf,
                        plane |-> rmCore'.plane, row |-> rmCore'.row, prev |-> rmCore'.prev,
                        bufs |-> rmCore'.bufs]
          /\ rmPc' = [op |-> rmPc'.op, at |-> rmPc'.at, o |-> rmPc'.o]
          /\ rmPanel' = [addr |-> rmPanel'.addr, shift |-> rmPanel'.shift, lit |-> rmPanel'.lit,
                         weight |-> rmPanel'.weight]
      BY <2>1
    <3> QED BY <1>0, <1>2, <2>1, <3>1, <3>2, <3>3 DEF RmTyped
  <2>5. RmPlaces'
    BY <1>1, <1>2, <2>1, <2>3 DEF RmPlaces
  <2>6. RmCoreUp' /\ RmCoreDown'
    BY <1>1, <1>2, <2>1, <2>2, <2>3 DEF RmCoreUp, RmCoreDown
  <2>7. RmBuffers'
    <3>1. rmCore'.bufs[rmCore'.buf + 1] # -1
      BY <1>1, <2>1
    <3> QED BY <1>1, <1>2, <2>1, <3>1 DEF RmBuffers
  <2>8. RmShown'
    BY <2>1 DEF RmShown
  <2> QED BY <1>3, <2>4, <2>5, <2>6, <2>7, <2>8 DEF RmInv
<1> QED BY <1>4, <1>5

\* A construction that ends: the matrix is its object's.
LEMMA RmPublishes ==
    ASSUME RmInv, RmPublish
    PROVE  RmInv'
<1>0. RmTyped /\ RmCoreUp /\ RmCoreDown /\ RmPlaces /\ RmBuffers /\ RmShown /\ RmScansLatest
  BY DEF RmInv
<1>1. /\ rmPc.op = "make" /\ rmPc.at = "done" /\ rmPc' = RmIdle
      /\ rmObj' = [rmObj EXCEPT ![rmPc.o].started = TRUE, ![rmPc.o].held = TRUE,
                                ![rmPc.o].copy = {rmCore.pins, rmCore.screen}]
      /\ rmHost' = TRUE
      /\ UNCHANGED <<rmAvail, rmCore, rmActive, rmTimer, rmHeap, rmPanel>>
  BY DEF RmPublish
<1>2. rmPc.o \in RmObjs /\ rmObj[rmPc.o].made /\ RmUp /\ rmCore.owner = rmPc.o
  BY <1>0, <1>1 DEF RmPlaces
<1>3. /\ rmObj' \in [RmObjs -> RmObjects]
      /\ rmObj'[rmPc.o].made /\ rmObj'[rmPc.o].started /\ rmObj'[rmPc.o].held
      /\ rmObj'[rmPc.o].copy = {rmCore.pins, rmCore.screen}
      /\ \A x \in RmObjs \ {rmPc.o} : rmObj'[x] = rmObj[x]
      /\ \A x \in RmObjs : /\ rmObj'[x].pix = rmObj[x].pix /\ rmObj'[x].draw = rmObj[x].draw
                           /\ rmObj'[x].drawn = rmObj[x].drawn /\ rmObj'[x].made = rmObj[x].made
  <2>1. rmObj[rmPc.o] \in RmObjects
    BY <1>0, <1>2 DEF RmTyped
  <2>2. rmObj' = [rmObj EXCEPT ![rmPc.o] = [rmObj[rmPc.o] EXCEPT !.started = TRUE, !.held = TRUE,
                                                !.copy = {rmCore.pins, rmCore.screen}]]
    BY <1>0, <1>1, <1>2 DEF RmTyped
  <2>3. {rmCore.pins, rmCore.screen} \in SUBSET RmBlocks
    BY <1>0, <1>2 DEF RmCoreUp
  <2>4. [rmObj[rmPc.o] EXCEPT !.started = TRUE, !.held = TRUE,
                              !.copy = {rmCore.pins, rmCore.screen}] \in RmObjects
    BY <2>1, <2>3 DEF RmObjects
  <2> QED BY <1>0, <1>2, <2>1, <2>2, <2>4 DEF RmTyped, RmObjects
<1>4. RmTyped'
  <2>1. \A x \in RmObjs : rmObj'[x].held \/ rmObj'[x].started => rmObj'[x].made
    BY <1>0, <1>3 DEF RmTyped
  <2> QED BY <1>0, <1>1, <1>3, <2>1 DEF RmTyped, RmIdle
<1>5. RmUp'
  BY <1>1, <1>2 DEF RmUp
<1>6. rmTimer = "running"
  BY <1>0, <1>1, <1>2 DEF RmCoreUp
<1>7. RmCoreUp' /\ RmCoreDown'
  BY <1>0, <1>1, <1>2, <1>3, <1>5, <1>6 DEF RmCoreUp, RmCoreDown, RmIdle
<1>8. RmPlaces'
  BY <1>1 DEF RmPlaces, RmIdle
<1>9. RmBuffers' /\ RmShown'
  BY <1>0, <1>1, <1>2, <1>5 DEF RmBuffers, RmShown, RmIdle
<1>10. RmScansLatest'
  BY <1>0, <1>1, <1>3 DEF RmScansLatest
<1> QED BY <1>4, <1>7, <1>8, <1>9, <1>10 DEF RmInv

\* A stop: the timer first.
LEMMA RmStops ==
    ASSUME RmInv, RmStopTimer
    PROVE  RmInv'
<1>0. RmTyped /\ RmCoreUp /\ RmCoreDown /\ RmPlaces /\ RmBuffers /\ RmShown /\ RmScansLatest
  BY DEF RmInv
<1>1. /\ rmPc.at = "stop" /\ rmTimer' = "held" /\ rmActive' = TRUE
      /\ rmPc' = [op |-> rmPc.op, at |-> "free", o |-> rmPc.o]
      /\ UNCHANGED <<rmAvail, rmObj, rmCore, rmHost, rmHeap, rmPanel>>
  BY DEF RmStopTimer, RmGoes
<1>2. RmUp /\ RmUp'
  BY <1>0, <1>1 DEF RmPlaces, RmUp
<1>3. RmTyped'
  BY <1>0, <1>1 DEF RmTyped
<1>4. RmCoreUp' /\ RmCoreDown'
  <2>1. rmHost
    BY <1>0, <1>1 DEF RmPlaces
  <2> QED BY <1>0, <1>1, <1>2, <2>1 DEF RmCoreUp, RmCoreDown
<1>5. RmPlaces'
  <2>1. rmPc.op \in {"make", "deinit", "reset"} /\ rmHost
    BY <1>0, <1>1 DEF RmPlaces
  <2> QED BY <1>0, <1>1, <1>2, <2>1 DEF RmPlaces
<1>6. RmBuffers' /\ RmShown' /\ RmScansLatest'
  BY <1>0, <1>1, <1>2 DEF RmBuffers, RmShown, RmScansLatest
<1> QED BY <1>3, <1>4, <1>5, <1>6 DEF RmInv

\* A core that is cleared is nobody's.
LEMMA RmCleared ==
    ASSUME RmInv, rmCore' = RmZero, rmHost' = FALSE, rmActive' = FALSE, rmTimer' = "none",
           rmPanel' = RmDark, rmAvail' = rmAvail,
           rmPc' = [op |-> rmPc'.op, at |-> rmPc'.at, o |-> rmPc'.o], RmPlaces', RmScansLatest',
           rmObj' \in [RmObjs -> RmObjects],
           \A o \in RmObjs : rmObj'[o].held \/ rmObj'[o].started => rmObj'[o].made,
           rmPc'.at \in {"done", "init"}
    PROVE  RmInv'
<1>1. /\ rmCore'.screen = RmNone /\ rmCore'.pins = RmNone /\ rmCore'.owner = RmNone
      /\ rmCore'.double = FALSE /\ rmCore'.swap = FALSE /\ rmCore'.buf = 0 /\ rmCore'.plane = 0
      /\ rmCore'.bufs = <<0, 0>>
      /\ rmCore' = [pins |-> rmCore'.pins, screen |-> rmCore'.screen, owner |-> rmCore'.owner,
                    double |-> rmCore'.double, swap |-> rmCore'.swap, buf |-> rmCore'.buf,
                    plane |-> rmCore'.plane, row |-> rmCore'.row, prev |-> rmCore'.prev,
                    bufs |-> rmCore'.bufs]
  BY DEF RmZero
<1>2. ~RmUp'
  BY <1>1 DEF RmUp
<1>3. RmTyped'
  <2>1. <<0, 0>> \in [1 .. 2 -> Int] /\ 0 \in 0 .. RmPlanes - 1
    BY RmAssumption
  <2>2. rmAvail \in BOOLEAN
    BY DEF RmInv, RmTyped
  <2>3. rmPanel' = [addr |-> rmPanel'.addr, shift |-> rmPanel'.shift, lit |-> rmPanel'.lit,
                    weight |-> rmPanel'.weight]
    BY DEF RmDark
  <2>4. rmCore'.buf \in {0, 1} /\ rmCore'.plane \in 0 .. RmPlanes - 1 /\ rmCore'.bufs \in [1 .. 2 -> Int]
    BY <1>1, <2>1
  <2> QED BY <1>1, <2>2, <2>3, <2>4 DEF RmTyped
<1>4. RmCoreUp' /\ RmCoreDown'
  BY <1>1, <1>2 DEF RmCoreUp, RmCoreDown
<1>5. RmBuffers' /\ RmShown'
  BY <1>1, <1>2 DEF RmBuffers, RmShown, RmDark
<1> QED BY <1>3, <1>4, <1>5 DEF RmInv

\* The end of a stop, under a constructor, a deinit() or a soft reset.
LEMMA RmFrees ==
    ASSUME RmInv, RmFreesOld \/ RmFreesOwn \/ RmFreesAll
    PROVE  RmInv'
<1>0. RmTyped /\ RmCoreUp /\ RmCoreDown /\ RmPlaces /\ RmBuffers /\ RmShown /\ RmScansLatest
  BY DEF RmInv
<1>1. /\ rmPc.at = "free"
      /\ rmPc.op # "reset" => rmPc.o \in RmObjs
      /\ rmPc.op = "make" => rmObj[rmPc.o].made /\ ~rmObj[rmPc.o].started
  BY <1>0 DEF RmFreesOld, RmFreesOwn, RmFreesAll, RmPlaces
<1>2. /\ rmCore' = RmZero /\ rmHost' = FALSE /\ rmActive' = FALSE /\ rmTimer' = "none"
      /\ rmPanel' = RmDark /\ rmAvail' = rmAvail
  BY DEF RmFreesOld, RmFreesOwn, RmFreesAll, RmReleased
<1>3. ~RmUp'
  BY <1>2 DEF RmUp, RmZero
<1>4. CASE RmFreesOld
  <2>1. rmPc' = [op |-> "make", at |-> "init", o |-> rmPc.o] /\ rmObj' = rmObj /\ rmPc.op = "make"
    BY <1>4 DEF RmFreesOld, RmGoes
  <2>2. RmPlaces'
    BY <1>1, <1>3, <2>1 DEF RmPlaces
  <2>3. /\ rmObj' \in [RmObjs -> RmObjects] /\ RmScansLatest'
        /\ \A o \in RmObjs : rmObj'[o].held \/ rmObj'[o].started => rmObj'[o].made
        /\ rmPc' = [op |-> rmPc'.op, at |-> rmPc'.at, o |-> rmPc'.o] /\ rmPc'.at = "init"
    BY <1>0, <1>2, <2>1 DEF RmTyped, RmScansLatest
  <2> QED BY <1>2, <2>2, <2>3, RmCleared
<1>5. CASE RmFreesOwn
  <2>1. /\ rmPc' = RmIdle /\ rmPc.o \in RmObjs
        /\ rmObj' = [rmObj EXCEPT ![rmPc.o].started = FALSE, ![rmPc.o].gone = TRUE]
    BY <1>1, <1>5 DEF RmFreesOwn
  <2>2. RmPlaces'
    BY <2>1 DEF RmPlaces, RmIdle
  <2>3. /\ rmObj' \in [RmObjs -> RmObjects]
        /\ \A x \in RmObjs : /\ rmObj'[x].pix = rmObj[x].pix /\ rmObj'[x].draw = rmObj[x].draw
                             /\ rmObj'[x].drawn = rmObj[x].drawn /\ rmObj'[x].made = rmObj[x].made
                             /\ rmObj'[x].held = rmObj[x].held
                             /\ rmObj'[x].started => rmObj[x].started
    <3>1. rmObj[rmPc.o] \in RmObjects
      BY <1>0, <2>1 DEF RmTyped
    <3>2. rmObj' = [rmObj EXCEPT ![rmPc.o] = [rmObj[rmPc.o] EXCEPT !.started = FALSE, !.gone = TRUE]]
      BY <1>0, <2>1 DEF RmTyped
    <3>3. [rmObj[rmPc.o] EXCEPT !.started = FALSE, !.gone = TRUE] \in RmObjects
      BY <3>1 DEF RmObjects
    <3>4. rmObj' \in [RmObjs -> RmObjects]
      BY <1>0, <2>1, <3>2, <3>3 DEF RmTyped
    <3>5. /\ rmObj'[rmPc.o] = [rmObj[rmPc.o] EXCEPT !.started = FALSE, !.gone = TRUE]
          /\ \A x \in RmObjs \ {rmPc.o} : rmObj'[x] = rmObj[x]
      BY <1>0, <2>1, <3>2 DEF RmTyped
    <3>6. LET n == rmObj'[rmPc.o]
              s == rmObj[rmPc.o]
          IN  n.pix = s.pix /\ n.draw = s.draw /\ n.drawn = s.drawn /\ n.made = s.made
              /\ n.held = s.held /\ ~n.started
      BY <3>1, <3>5 DEF RmObjects
    <3> QED BY <3>4, <3>5, <3>6
  <2>4. RmScansLatest'
    BY <1>0, <1>2, <2>3 DEF RmScansLatest
  <2>5. \A o \in RmObjs : rmObj'[o].held \/ rmObj'[o].started => rmObj'[o].made
    BY <1>0, <2>3 DEF RmTyped
  <2>6. rmPc' = [op |-> rmPc'.op, at |-> rmPc'.at, o |-> rmPc'.o] /\ rmPc'.at = "done"
    BY <2>1 DEF RmIdle
  <2> QED BY <1>2, <2>2, <2>3, <2>4, <2>5, <2>6, RmCleared
<1>6. CASE RmFreesAll
  <2>1. /\ rmPc' = RmIdle
        /\ rmObj' = [o \in RmObjs |-> [rmObj[o] EXCEPT !.held = FALSE, !.copy = {}, !.view = 0]]
    BY <1>6 DEF RmFreesAll, RmSwept
  <2>2. RmPlaces'
    BY <2>1 DEF RmPlaces, RmIdle
  <2>3. /\ rmObj' \in [RmObjs -> RmObjects]
        /\ \A x \in RmObjs : /\ rmObj'[x].pix = rmObj[x].pix /\ rmObj'[x].draw = rmObj[x].draw
                             /\ rmObj'[x].drawn = rmObj[x].drawn /\ rmObj'[x].made = rmObj[x].made
                             /\ ~rmObj'[x].held
                             /\ rmObj'[x].started = rmObj[x].started
    <3>1. \A x \in RmObjs :
              /\ rmObj[x] \in RmObjects
              /\ rmObj'[x] = [rmObj[x] EXCEPT !.held = FALSE, !.copy = {}, !.view = 0]
      BY <1>0, <2>1 DEF RmTyped
    <3>2. \A s \in RmObjects : [s EXCEPT !.held = FALSE, !.copy = {}, !.view = 0] \in RmObjects
      BY DEF RmObjects
    <3> QED BY <2>1, <3>1, <3>2, ZenonT(60) DEF RmObjects
  <2>4. RmScansLatest'
    BY <1>0, <1>2, <2>3 DEF RmScansLatest
  <2>5. \A o \in RmObjs : rmObj'[o].held \/ rmObj'[o].started => rmObj'[o].made
    BY <1>0, <2>3 DEF RmTyped
  <2>6. rmPc' = [op |-> rmPc'.op, at |-> rmPc'.at, o |-> rmPc'.o] /\ rmPc'.at = "done"
    BY <2>1 DEF RmIdle
  <2> QED BY <1>2, <2>2, <2>3, <2>4, <2>5, <2>6, RmCleared
<1> QED BY <1>4, <1>5, <1>6

\* A step of the program or the collector that leaves the core and its timer
\* alone, and goes between calls, is the invariant's as far as it keeps what the
\* owner of the matrix has.
LEMMA RmBetween ==
    ASSUME RmInv, rmPc.op = "idle", rmPc'.op = "idle" => rmPc' = RmIdle,
           UNCHANGED <<rmAvail, rmCore, rmHost, rmActive, rmTimer, rmPanel>>,
           rmObj' \in [RmObjs -> RmObjects],
           \A o \in RmObjs : /\ rmObj'[o].made = rmObj[o].made
                             /\ rmObj'[o].started => rmObj[o].started
                             /\ rmObj'[o].held => rmObj[o].held
                             /\ rmObj'[o].pix[rmObj'[o].draw] = rmObj'[o].drawn
                                \/ ~rmObj[o].made \/ rmAvail,
           RmUp => /\ rmObj'[rmCore.owner].started /\ rmObj'[rmCore.owner].held
                   /\ rmObj'[rmCore.owner].copy = rmObj[rmCore.owner].copy
                   /\ {rmCore.pins, rmCore.screen} \subseteq rmHeap',
           rmPc' = [op |-> rmPc'.op, at |-> rmPc'.at, o |-> rmPc'.o], RmPlaces',
           rmPc'.at \in {"done", "stop", "convert"}, rmPc'.op # "idle" => rmPc'.at # "done"
    PROVE  RmInv'
<1>0. RmTyped /\ RmCoreUp /\ RmCoreDown /\ RmPlaces /\ RmBuffers /\ RmShown /\ RmScansLatest
  BY DEF RmInv
<1>1. rmPc.at = "done"
  BY <1>0 DEF RmPlaces, RmIdle
<1>2. RmUp' <=> RmUp
  BY DEF RmUp
<1>3. RmTyped'
  <2>1. \A o \in RmObjs : rmObj'[o].held \/ rmObj'[o].started => rmObj'[o].made
    BY <1>0 DEF RmTyped
  <2> QED BY <1>0, <2>1 DEF RmTyped
<1>4. RmCoreUp'
  <2>. SUFFICES ASSUME RmUp PROVE RmCoreUp'
    BY <1>2 DEF RmCoreUp
  <2>1. rmHost /\ rmTimer = "running" /\ rmCore.owner \in RmObjs
    BY <1>0, <1>1 DEF RmCoreUp, RmTyped
  <2>2. rmObj'[rmCore.owner].made
    BY <1>0, <2>1 DEF RmCoreUp
  <2> QED BY <1>0, <2>1, <2>2 DEF RmCoreUp
<1>5. RmCoreDown'
  BY <1>0, <1>2 DEF RmCoreDown
<1>6. RmBuffers'
  <2>1. ~rmCore.swap
    BY <1>0, <1>1 DEF RmBuffers
  <2> QED BY <1>0, <1>2, <2>1 DEF RmBuffers
<1>7. RmShown'
  BY <1>0, <1>2 DEF RmShown
<1>8. RmScansLatest'
  BY DEF RmScansLatest
<1> QED BY <1>3, <1>4, <1>5, <1>6, <1>7, <1>8 DEF RmInv

\* What is between calls.
LEMMA RmAtRest ==
    ASSUME RmInv, rmPc.op = "idle"
    PROVE  /\ rmPc = RmIdle /\ (RmUp <=> rmHost)
           /\ RmUp => /\ rmCore.owner \in RmObjs /\ rmObj[rmCore.owner].made
                      /\ rmObj[rmCore.owner].started /\ rmObj[rmCore.owner].held
                      /\ {rmCore.pins, rmCore.screen} \subseteq rmObj[rmCore.owner].copy
                      /\ {rmCore.pins, rmCore.screen} \subseteq rmHeap
                      /\ rmCore.pins # RmNone
           /\ \A o \in RmObjs : rmAvail \/ ~rmObj[o].made \/ rmObj[o].pix[rmObj[o].draw] = rmObj[o].drawn
           /\ \A o \in RmObjs : rmObj[o] \in RmObjects
           /\ rmObj \in [RmObjs -> RmObjects]
           /\ \A o \in RmObjs : rmObj[o].held \/ rmObj[o].started => rmObj[o].made
<1>0. RmTyped /\ RmCoreUp /\ RmCoreDown /\ RmPlaces /\ RmScansLatest
  BY DEF RmInv
<1>1. rmPc = RmIdle
  BY <1>0 DEF RmPlaces
<1>2. RmUp <=> rmHost
  BY <1>0 DEF RmCoreUp, RmCoreDown, RmTyped
<1>3. RmUp => rmCore.pins # RmNone
  BY <1>0, RmAssumption DEF RmCoreUp, RmBlocks
<1>4. /\ \A o \in RmObjs : rmObj[o] \in RmObjects
      /\ rmObj \in [RmObjs -> RmObjects]
      /\ \A o \in RmObjs : rmObj[o].held \/ rmObj[o].started => rmObj[o].made
  BY <1>0 DEF RmTyped
<1>5. \A o \in RmObjs : rmAvail \/ ~rmObj[o].made \/ rmObj[o].pix[rmObj[o].draw] = rmObj[o].drawn
  BY <1>0 DEF RmScansLatest
<1> QED BY <1>0, <1>1, <1>2, <1>3, <1>4, <1>5 DEF RmCoreUp

\* A refresh begins.
LEMMA RmRefreshes ==
    ASSUME RmInv, ~RmOld, NEW o \in RmObjs, RmRefresh(o)
    PROVE  RmInv'
<1>1. /\ rmPc.op = "idle" /\ rmObj[o].held /\ rmObj[o].started /\ rmCore.owner \in {o, RmNone}
      /\ rmPc' = [op |-> "refresh", at |-> "convert", o |-> o]
      /\ UNCHANGED <<rmAvail, rmObj, rmCore, rmHost, rmActive, rmTimer, rmHeap, rmPanel>>
  BY DEF RmRefresh, RmUsable, RmGoes
<1>2. RmUp' <=> RmUp
  BY <1>1 DEF RmUp
<1>3. ~RmUp => ~rmCore.double
  BY <1>1 DEF RmInv, RmCoreDown
<1>4. RmUp => rmCore.owner = o
  BY <1>1, RmAtRest, RmAssumption
<1>5. RmPlaces'
  BY <1>1, <1>2, <1>3, <1>4, RmAtRest DEF RmPlaces
<1>6. /\ rmPc' = [op |-> rmPc'.op, at |-> rmPc'.at, o |-> rmPc'.o]
      /\ rmPc'.op # "idle" /\ rmPc'.at = "convert"
  BY <1>1
<1> QED BY <1>1, <1>5, <1>6, RmAtRest, RmBetween

\* A scan without Protomatter.
LEMMA RmScans ==
    ASSUME RmInv, NEW o \in RmObjs, RmScan(o)
    PROVE  RmInv'
<1>1. /\ rmPc.op = "idle" /\ rmObj[o].held /\ ~rmObj[o].started
      /\ rmObj' = [rmObj EXCEPT ![o].pix[rmObj[o].scan] = RmDrawn(o), ![o].shown = RmDrawn(o),
                                ![o].draw = rmObj[o].scan, ![o].scan = rmObj[o].draw]
      /\ UNCHANGED <<rmAvail, rmCore, rmHost, rmActive, rmTimer, rmHeap, rmPanel, rmPc>>
  BY DEF RmScan, RmUsable
<1>2. rmObj[o] \in RmObjects /\ rmObj \in [RmObjs -> RmObjects] /\ rmPc = RmIdle
  BY <1>1, RmAtRest
<1>3. PICK s : s = [rmObj[o] EXCEPT !.pix = [rmObj[o].pix EXCEPT ![rmObj[o].scan] = RmDrawn(o)],
                                    !.shown = RmDrawn(o), !.draw = rmObj[o].scan,
                                    !.scan = rmObj[o].draw]
  OBVIOUS
<1>4. rmObj' = [rmObj EXCEPT ![o] = s]
  BY <1>1, <1>2, <1>3
<1>5. /\ rmObj[o].pix \in [1 .. 2 -> Nat] /\ rmObj[o].scan \in {1, 2} /\ rmObj[o].draw \in {1, 2}
      /\ RmDrawn(o) \in Nat
  BY <1>2 DEF RmObjects, RmDrawn
<1>6. /\ s \in RmObjects /\ s.made = rmObj[o].made /\ s.started = rmObj[o].started
      /\ s.held = rmObj[o].held /\ s.copy = rmObj[o].copy /\ s.drawn = rmObj[o].drawn
      /\ s.pix = [rmObj[o].pix EXCEPT ![rmObj[o].scan] = RmDrawn(o)] /\ s.draw = rmObj[o].scan
  <2>1. [rmObj[o].pix EXCEPT ![rmObj[o].scan] = RmDrawn(o)] \in [1 .. 2 -> Nat]
    BY <1>5
  <2> QED BY <1>2, <1>3, <1>5, <2>1 DEF RmObjects
<1>7. s.pix[s.draw] = rmObj[o].pix[rmObj[o].draw]
  BY <1>5, <1>6 DEF RmDrawn
<1>8. /\ rmObj' \in [RmObjs -> RmObjects] /\ rmObj'[o] = s
      /\ \A x \in RmObjs \ {o} : rmObj'[x] = rmObj[x]
  BY <1>2, <1>4, <1>6
<1>9. RmPlaces'
  BY <1>1, <1>2 DEF RmPlaces, RmIdle
<1>10. \A x \in RmObjs : /\ rmObj'[x].made = rmObj[x].made
                         /\ rmObj'[x].started = rmObj[x].started
                         /\ rmObj'[x].held = rmObj[x].held
                         /\ rmObj'[x].copy = rmObj[x].copy
                         /\ rmObj'[x].pix[rmObj'[x].draw] = rmObj'[x].drawn
                            \/ ~rmObj[x].made \/ rmAvail
  BY <1>1, <1>6, <1>7, <1>8, RmAtRest
<1>11. /\ rmPc' = [op |-> rmPc'.op, at |-> rmPc'.at, o |-> rmPc'.o]
       /\ rmPc' = RmIdle /\ rmPc'.op = "idle" /\ rmPc'.at = "done"
  BY <1>1, <1>2 DEF RmIdle
<1> QED BY <1>1, <1>8, <1>9, <1>10, <1>11, RmAtRest, RmBetween

\* The program draws.
LEMMA RmDraw ==
    ASSUME RmInv, NEW o \in RmObjs, RmFillRect(o)
    PROVE  RmInv'
<1>1. /\ rmPc.op = "idle" /\ rmObj[o].held
      /\ rmObj' = [rmObj EXCEPT ![o].drawn = rmObj[o].drawn + 1,
                                ![o].pix[rmObj[o].draw] = rmObj[o].drawn + 1]
      /\ UNCHANGED <<rmAvail, rmCore, rmHost, rmActive, rmTimer, rmHeap, rmPanel, rmPc>>
  BY DEF RmFillRect, RmDrawsTo, RmUsable
<1>2. rmObj[o] \in RmObjects /\ rmObj \in [RmObjs -> RmObjects] /\ rmPc = RmIdle
  BY <1>1, RmAtRest
<1>3. PICK s : s = [rmObj[o] EXCEPT !.drawn = rmObj[o].drawn + 1,
                        !.pix = [rmObj[o].pix EXCEPT ![rmObj[o].draw] = rmObj[o].drawn + 1]]
  OBVIOUS
<1>4. rmObj' = [rmObj EXCEPT ![o] = s]
  BY <1>1, <1>2, <1>3
<1>5. /\ rmObj[o].pix \in [1 .. 2 -> Nat] /\ rmObj[o].draw \in {1, 2}
      /\ rmObj[o].drawn + 1 \in Nat
  BY <1>2 DEF RmObjects
<1>6. /\ s \in RmObjects /\ s.made = rmObj[o].made /\ s.started = rmObj[o].started
      /\ s.held = rmObj[o].held /\ s.copy = rmObj[o].copy /\ s.drawn = rmObj[o].drawn + 1
      /\ s.pix = [rmObj[o].pix EXCEPT ![rmObj[o].draw] = rmObj[o].drawn + 1]
      /\ s.draw = rmObj[o].draw
  <2>1. [rmObj[o].pix EXCEPT ![rmObj[o].draw] = rmObj[o].drawn + 1] \in [1 .. 2 -> Nat]
    BY <1>5
  <2> QED BY <1>2, <1>3, <1>5, <2>1 DEF RmObjects
<1>7. s.pix[s.draw] = s.drawn
  BY <1>5, <1>6
<1>8. /\ rmObj' \in [RmObjs -> RmObjects] /\ rmObj'[o] = s
      /\ \A x \in RmObjs \ {o} : rmObj'[x] = rmObj[x]
  BY <1>2, <1>4, <1>6
<1>9. RmPlaces'
  BY <1>1, <1>2 DEF RmPlaces, RmIdle
<1>10. \A x \in RmObjs : /\ rmObj'[x].made = rmObj[x].made
                         /\ rmObj'[x].started = rmObj[x].started
                         /\ rmObj'[x].held = rmObj[x].held
                         /\ rmObj'[x].copy = rmObj[x].copy
                         /\ rmObj'[x].pix[rmObj'[x].draw] = rmObj'[x].drawn
                            \/ ~rmObj[x].made \/ rmAvail
  BY <1>1, <1>6, <1>7, <1>8, RmAtRest
<1>11. /\ rmPc' = [op |-> rmPc'.op, at |-> rmPc'.at, o |-> rmPc'.o]
       /\ rmPc' = RmIdle /\ rmPc'.op = "idle" /\ rmPc'.at = "done"
  BY <1>1, <1>2 DEF RmIdle
<1> QED BY <1>1, <1>8, <1>9, <1>10, <1>11, RmAtRest, RmBetween

\* deinit(), of the newest matrix.
LEMMA RmDeinits ==
    ASSUME RmInv, ~RmOld, NEW o \in RmObjs, RmDeinit(o)
    PROVE  RmInv'
<1>1. /\ rmPc.op = "idle" /\ rmObj[o].held
      /\ rmCore.owner \in {o, RmNone} \/ rmCore.screen # RmNone
      /\ UNCHANGED <<rmAvail, rmCore, rmHost, rmActive, rmTimer, rmHeap, rmPanel>>
  BY DEF RmDeinit, RmUsable
<1>2. /\ rmObj[o] \in RmObjects /\ rmObj \in [RmObjs -> RmObjects] /\ rmPc = RmIdle
      /\ RmUp <=> rmHost
      /\ RmUp => rmCore.pins # RmNone
  BY <1>1, RmAtRest
<1>3. RmUp' <=> RmUp
  BY <1>1 DEF RmUp
<1>4. CASE rmObj[o].started /\ rmCore.pins # RmNone
  <2>1. rmPc' = [op |-> "deinit", at |-> "stop", o |-> o] /\ rmObj' = rmObj
    BY <1>4 DEF RmDeinit, RmGoes
  <2>2. RmUp /\ rmHost
    <3>1. rmCore.owner \in {o, RmNone} \/ RmUp
      BY <1>1 DEF RmUp
    <3>2. ~RmUp => rmCore.owner # RmNone /\ rmCore.owner # o
      BY <1>4 DEF RmInv, RmCoreDown
    <3> QED BY <1>2, <3>1, <3>2
  <2>3. RmPlaces'
    BY <1>1, <1>3, <2>1, <2>2 DEF RmPlaces
  <2>4. /\ rmPc' = [op |-> rmPc'.op, at |-> rmPc'.at, o |-> rmPc'.o]
        /\ rmPc'.op # "idle" /\ rmPc'.at = "stop"
    BY <2>1
  <2> QED BY <1>1, <2>1, <2>3, <2>4, RmAtRest, RmBetween
<1>5. CASE ~(rmObj[o].started /\ rmCore.pins # RmNone)
  <2>1. /\ rmPc' = rmPc
        /\ rmObj' = [rmObj EXCEPT ![o].started = FALSE, ![o].gone = TRUE]
    BY <1>5 DEF RmDeinit
  <2>2. PICK s : s = [rmObj[o] EXCEPT !.started = FALSE, !.gone = TRUE]
    OBVIOUS
  <2>3. rmObj' = [rmObj EXCEPT ![o] = s]
    BY <1>2, <2>1, <2>2
  <2>4. /\ s \in RmObjects /\ s.made = rmObj[o].made /\ s.started = FALSE
        /\ s.held = rmObj[o].held /\ s.copy = rmObj[o].copy /\ s.drawn = rmObj[o].drawn
        /\ s.pix = rmObj[o].pix /\ s.draw = rmObj[o].draw
    BY <1>2, <2>2 DEF RmObjects
  <2>5. /\ rmObj' \in [RmObjs -> RmObjects] /\ rmObj'[o] = s
        /\ \A x \in RmObjs \ {o} : rmObj'[x] = rmObj[x]
    BY <1>2, <2>3, <2>4
  <2>6. RmPlaces'
    BY <1>2, <2>1 DEF RmPlaces, RmIdle
  <2>7. RmUp => rmCore.owner # o
    BY <1>1, <1>2, <1>5, RmAtRest
  <2>8. \A x \in RmObjs : /\ rmObj'[x].made = rmObj[x].made
                          /\ rmObj'[x].started => rmObj[x].started
                          /\ rmObj'[x].held = rmObj[x].held
                          /\ rmObj'[x].copy = rmObj[x].copy
                          /\ rmObj'[x].pix[rmObj'[x].draw] = rmObj'[x].drawn
                             \/ ~rmObj[x].made \/ rmAvail
    <3>1. \A x \in RmObjs : /\ rmObj'[x].made = rmObj[x].made
                            /\ rmObj'[x].started => rmObj[x].started
                            /\ rmObj'[x].held = rmObj[x].held
                            /\ rmObj'[x].copy = rmObj[x].copy
                            /\ rmObj'[x].pix = rmObj[x].pix /\ rmObj'[x].draw = rmObj[x].draw
                            /\ rmObj'[x].drawn = rmObj[x].drawn
      BY <2>4, <2>5
    <3>2. \A x \in RmObjs : rmObj[x].pix[rmObj[x].draw] = rmObj[x].drawn
                            \/ ~rmObj[x].made \/ rmAvail
      BY <1>1, RmAtRest
    <3> QED BY <3>1, <3>2
  <2>9. /\ rmPc' = [op |-> rmPc'.op, at |-> rmPc'.at, o |-> rmPc'.o]
        /\ rmPc' = RmIdle /\ rmPc'.op = "idle" /\ rmPc'.at = "done"
    BY <1>2, <2>1 DEF RmIdle
  <2>10. RmUp => /\ rmObj'[rmCore.owner].started /\ rmObj'[rmCore.owner].held
                 /\ rmObj'[rmCore.owner].copy = rmObj[rmCore.owner].copy
                 /\ {rmCore.pins, rmCore.screen} \subseteq rmHeap'
    BY <1>1, <2>5, <2>7, RmAtRest
  <2> QED BY <1>1, <2>5, <2>6, <2>8, <2>9, <2>10, RmBetween
<1> QED BY <1>4, <1>5

\* A soft reset; a matrix that runs is stopped first.
LEMMA RmResets ==
    ASSUME RmInv, RmSoftReset
    PROVE  RmInv'
<1>1. /\ rmPc.op = "idle"
      /\ UNCHANGED <<rmAvail, rmCore, rmHost, rmActive, rmTimer, rmPanel>>
  BY DEF RmSoftReset
<1>2. RmUp' <=> RmUp
  BY <1>1 DEF RmUp
<1>3. CASE rmHost
  <2>1. rmPc' = [op |-> "reset", at |-> "stop", o |-> RmNone] /\ rmObj' = rmObj /\ rmHeap' = rmHeap
    BY <1>3 DEF RmSoftReset, RmGoes
  <2>2. RmUp
    BY <1>1, <1>3, RmAtRest
  <2>3. RmPlaces'
    BY <1>1, <1>2, <1>3, <2>1, <2>2 DEF RmPlaces
  <2>4. /\ rmPc' = [op |-> rmPc'.op, at |-> rmPc'.at, o |-> rmPc'.o]
        /\ rmPc'.op # "idle" /\ rmPc'.at = "stop"
    BY <2>1
  <2> QED BY <1>1, <2>1, <2>3, <2>4, RmAtRest, RmBetween
<1>4. CASE ~rmHost
  <2>1. /\ rmPc' = rmPc
        /\ rmObj' = [o \in RmObjs |-> [rmObj[o] EXCEPT !.held = FALSE, !.copy = {}, !.view = 0]]
    BY <1>4 DEF RmSoftReset, RmSwept
  <2>2. ~RmUp /\ rmPc = RmIdle
    BY <1>1, <1>4, RmAtRest
  <2>3. RmPlaces'
    BY <2>1, <2>2 DEF RmPlaces, RmIdle
  <2>4. \A x \in RmObjs :
            /\ rmObj[x] \in RmObjects
            /\ rmObj'[x] = [rmObj[x] EXCEPT !.held = FALSE, !.copy = {}, !.view = 0]
    BY <1>1, <2>1, RmAtRest
  <2>5. \A s \in RmObjects :
            LET n == [s EXCEPT !.held = FALSE, !.copy = {}, !.view = 0]
            IN  /\ n \in RmObjects /\ n.made = s.made /\ n.started = s.started /\ ~n.held
                /\ n.pix = s.pix /\ n.draw = s.draw /\ n.drawn = s.drawn
    BY DEF RmObjects
  <2>6. \A x \in RmObjs : /\ rmObj'[x] \in RmObjects
                          /\ rmObj'[x].made = rmObj[x].made
                          /\ rmObj'[x].started = rmObj[x].started
                          /\ ~rmObj'[x].held
                          /\ rmObj'[x].pix = rmObj[x].pix /\ rmObj'[x].draw = rmObj[x].draw
                          /\ rmObj'[x].drawn = rmObj[x].drawn
    BY <2>4, <2>5, ZenonT(60)
  <2>7. rmObj' \in [RmObjs -> RmObjects]
    BY <2>1, <2>6
  <2>8. \A x \in RmObjs : rmObj'[x].pix[rmObj'[x].draw] = rmObj'[x].drawn
                          \/ ~rmObj[x].made \/ rmAvail
    BY <1>1, <2>6, RmAtRest
  <2>9. /\ rmPc' = [op |-> rmPc'.op, at |-> rmPc'.at, o |-> rmPc'.o]
        /\ rmPc' = RmIdle /\ rmPc'.op = "idle" /\ rmPc'.at = "done"
    BY <2>1, <2>2 DEF RmIdle
  <2> QED BY <1>1, <2>2, <2>3, <2>6, <2>7, <2>8, <2>9, RmBetween
<1> QED BY <1>3, <1>4

\* An object is dropped, and the collector runs.
LEMMA RmForgets ==
    ASSUME RmInv, RmKeeps, ~RmGcNow, RmCollect \/ \E o \in RmObjs : RmDrop(o)
    PROVE  RmInv'
<1>1. CASE RmCollect
  <2>1. /\ rmPc.op = "idle"
        /\ rmHeap' = rmHeap \cap UNION {rmObj[o].copy : o \in {x \in RmObjs : rmObj[x].held}}
        /\ UNCHANGED <<rmAvail, rmObj, rmCore, rmHost, rmActive, rmTimer, rmPanel, rmPc>>
    BY <1>1 DEF RmCollect
  <2>2. RmUp => {rmCore.pins, rmCore.screen} \subseteq rmHeap'
    <3>. SUFFICES ASSUME RmUp, NEW b \in {rmCore.pins, rmCore.screen} PROVE b \in rmHeap'
      OBVIOUS
    <3>1. /\ rmCore.owner \in RmObjs /\ rmObj[rmCore.owner].held /\ b \in rmHeap
          /\ b \in rmObj[rmCore.owner].copy
      BY <2>1, RmAtRest
    <3>2. rmObj[rmCore.owner].copy \in {rmObj[o].copy : o \in {x \in RmObjs : rmObj[x].held}}
      BY <3>1
    <3> QED BY <2>1, <3>1, <3>2
  <2>3. rmPc = RmIdle
    BY <2>1, RmAtRest
  <2>4. RmPlaces'
    BY <2>1, <2>3 DEF RmPlaces, RmIdle
  <2>5. /\ rmPc' = [op |-> rmPc'.op, at |-> rmPc'.at, o |-> rmPc'.o]
        /\ rmPc' = RmIdle /\ rmPc'.op = "idle" /\ rmPc'.at = "done"
    BY <2>1, <2>3 DEF RmIdle
  <2> QED BY <2>1, <2>2, <2>4, <2>5, RmAtRest, RmBetween
<1>2. ASSUME NEW o \in RmObjs, RmDrop(o)
      PROVE  RmInv'
  <2>1. /\ rmPc.op = "idle" /\ rmObj[o].held /\ ~(rmHost /\ rmCore.owner = o)
        /\ rmObj' = [rmObj EXCEPT ![o].held = FALSE]
        /\ UNCHANGED <<rmAvail, rmCore, rmHost, rmActive, rmTimer, rmHeap, rmPanel, rmPc>>
    BY <1>2 DEF RmDrop
  <2>2. rmObj[o] \in RmObjects /\ rmObj \in [RmObjs -> RmObjects] /\ rmPc = RmIdle
    BY <2>1, RmAtRest
  <2>3. PICK s : s = [rmObj[o] EXCEPT !.held = FALSE]
    OBVIOUS
  <2>4. rmObj' = [rmObj EXCEPT ![o] = s]
    BY <2>1, <2>2, <2>3
  <2>5. /\ s \in RmObjects /\ s.made = rmObj[o].made /\ s.started = rmObj[o].started
        /\ s.held = FALSE /\ s.copy = rmObj[o].copy /\ s.drawn = rmObj[o].drawn
        /\ s.pix = rmObj[o].pix /\ s.draw = rmObj[o].draw
    BY <2>2, <2>3 DEF RmObjects
  <2>6. /\ rmObj' \in [RmObjs -> RmObjects] /\ rmObj'[o] = s
        /\ \A x \in RmObjs \ {o} : rmObj'[x] = rmObj[x]
    BY <2>2, <2>4, <2>5
  <2>7. RmPlaces'
    BY <2>1, <2>2 DEF RmPlaces, RmIdle
  <2>8. RmUp => rmCore.owner # o
    BY <2>1, RmAtRest
  <2>9. \A x \in RmObjs : /\ rmObj'[x].made = rmObj[x].made
                          /\ rmObj'[x].started = rmObj[x].started
                          /\ rmObj'[x].held => rmObj[x].held
                          /\ rmObj'[x].copy = rmObj[x].copy
                          /\ rmObj'[x].pix[rmObj'[x].draw] = rmObj'[x].drawn
                             \/ ~rmObj[x].made \/ rmAvail
    BY <2>1, <2>5, <2>6, RmAtRest
  <2>10. RmUp => /\ rmObj'[rmCore.owner].started /\ rmObj'[rmCore.owner].held
                 /\ rmObj'[rmCore.owner].copy = rmObj[rmCore.owner].copy
                 /\ {rmCore.pins, rmCore.screen} \subseteq rmHeap'
    BY <2>1, <2>6, <2>8, RmAtRest
  <2>11. /\ rmPc' = [op |-> rmPc'.op, at |-> rmPc'.at, o |-> rmPc'.o]
         /\ rmPc' = RmIdle /\ rmPc'.op = "idle" /\ rmPc'.at = "done"
    BY <2>1, <2>2 DEF RmIdle
  <2> QED BY <2>1, <2>6, <2>7, <2>9, <2>10, <2>11, RmBetween
<1> QED BY <1>1, <1>2

\* A frame is converted, and the swap waited for.
LEMMA RmConverts ==
    ASSUME RmInv, RmConvertBegins \/ RmConvertEnds
    PROVE  RmInv'
<1>0. RmTyped /\ RmCoreUp /\ RmCoreDown /\ RmPlaces /\ RmBuffers /\ RmShown /\ RmScansLatest
  BY DEF RmInv
<1>1. /\ rmPc.at \in {"convert", "torn"}
      /\ UNCHANGED <<rmAvail, rmObj, rmHost, rmActive, rmTimer, rmHeap, rmPanel>>
  BY DEF RmConvertBegins, RmConvertEnds
<1>2. /\ rmPc.op \in {"make", "refresh"} /\ rmPc.o \in RmObjs /\ rmObj[rmPc.o].made
      /\ RmUp => rmCore.owner = rmPc.o
      /\ ~RmUp => ~rmCore.double
      /\ rmPc.op = "make" => RmUp /\ ~rmHost
      /\ ~rmCore.swap
  BY <1>0, <1>1 DEF RmPlaces, RmBuffers, RmIdle
<1>3. PICK t : t = RmTarget
  OBVIOUS
<1>4. /\ t \in {1, 2} /\ rmCore.buf + 1 \in {1, 2}
      /\ rmCore.double => t = 2 - rmCore.buf /\ t # rmCore.buf + 1
      /\ ~rmCore.double => t = rmCore.buf + 1
      /\ rmCore.bufs \in [1 .. 2 -> Int]
  BY <1>0, <1>3 DEF RmTyped, RmTarget, RmBuffers
<1>5. PICK d : d = RmDrawn(rmPc.o) /\ d \in Nat
  <2>1. rmObj[rmPc.o] \in RmObjects
    BY <1>0, <1>2 DEF RmTyped
  <2> QED BY <2>1 DEF RmDrawn, RmObjects
<1>6. PICK v \in Int, to \in {"torn", "swap"}, w \in BOOLEAN, b \in {rmCore'.bufs} :
          /\ rmPc' = [op |-> rmPc.op, at |-> to, o |-> rmPc.o]
          /\ b = [rmCore.bufs EXCEPT ![t] = v]
          /\ rmCore'.pins = rmCore.pins /\ rmCore'.screen = rmCore.screen
          /\ rmCore'.owner = rmCore.owner /\ rmCore'.double = rmCore.double
          /\ rmCore'.buf = rmCore.buf /\ rmCore'.plane = rmCore.plane
          /\ rmCore'.row = rmCore.row /\ rmCore'.prev = rmCore.prev
          /\ rmCore'.bufs = b /\ rmCore'.swap = w
          /\ rmCore' = [pins |-> rmCore'.pins, screen |-> rmCore'.screen, owner |-> rmCore'.owner,
                        double |-> rmCore'.double, swap |-> rmCore'.swap, buf |-> rmCore'.buf,
                        plane |-> rmCore'.plane, row |-> rmCore'.row, prev |-> rmCore'.prev,
                        bufs |-> rmCore'.bufs]
          /\ to = "torn" => ~w
          /\ to = "swap" => /\ w = rmCore.double
                            /\ RmUp => v = d
  <2>1. CASE RmConvertBegins
    <3>1. rmPc' = [op |-> rmPc.op, at |-> "torn", o |-> rmPc.o]
      BY <2>1 DEF RmConvertBegins, RmGoes
    <3>2. CASE RmUp
      <4>1. rmCore' = [rmCore EXCEPT !.bufs = [rmCore.bufs EXCEPT ![t] = -1]]
        BY <1>0, <1>3, <2>1, <3>2 DEF RmConvertBegins, RmUp, RmTyped
      <4> QED BY <1>0, <1>2, <3>1, <4>1, SMTT(30) DEF RmTyped
    <3>3. CASE ~RmUp
      <4>1. rmCore' = rmCore /\ rmCore.bufs = [rmCore.bufs EXCEPT ![t] = rmCore.bufs[t]]
        BY <1>4, <2>1, <3>3 DEF RmConvertBegins, RmUp
      <4>2. rmCore.bufs[t] \in Int
        BY <1>4
      <4> QED BY <1>0, <1>2, <3>1, <4>1, <4>2 DEF RmTyped
    <3> QED BY <3>2, <3>3
  <2>2. CASE RmConvertEnds
    <3>1. rmPc' = [op |-> rmPc.op, at |-> "swap", o |-> rmPc.o]
      BY <2>2 DEF RmConvertEnds, RmGoes
    <3>2. PICK v : v = (IF rmCore.screen = RmNone THEN rmCore.bufs[t] ELSE d)
      OBVIOUS
    <3>3. v \in Int /\ (RmUp => v = d)
      BY <1>4, <1>5, <3>2 DEF RmUp
    <3>4. rmCore' = [rmCore EXCEPT !.bufs = [rmCore.bufs EXCEPT ![t] = v], !.swap = rmCore.double]
      BY <1>0, <1>3, <1>5, <2>2, <3>2 DEF RmConvertEnds, RmTyped
    <3>5. rmCore.double \in BOOLEAN
      BY <1>0 DEF RmTyped
    <3> QED BY <1>0, <3>1, <3>3, <3>4, <3>5 DEF RmTyped
  <2> QED BY <2>1, <2>2
<1>7. rmPc'.op = rmPc.op /\ rmPc'.at = to /\ rmPc'.o = rmPc.o
  BY <1>6
<1>8. RmUp' <=> RmUp
  BY <1>6 DEF RmUp
<1>9. /\ b \in [1 .. 2 -> Int] /\ b[t] = v
      /\ rmCore.double => b[rmCore.buf + 1] = rmCore.bufs[rmCore.buf + 1] /\ b[2 - rmCore.buf] = v
      /\ ~rmCore.double => b[rmCore.buf + 1] = v
  BY <1>4, <1>6
<1>10. RmTyped'
  <2>1. rmPc' = [op |-> rmPc'.op, at |-> rmPc'.at, o |-> rmPc'.o]
    BY <1>6, <1>7
  <2> QED BY <1>0, <1>1, <1>6, <1>9, <2>1 DEF RmTyped
<1>11. RmCoreUp' /\ RmCoreDown'
  BY <1>0, <1>1, <1>2, <1>6, <1>7, <1>8 DEF RmCoreUp, RmCoreDown
<1>12. RmPlaces'
  BY <1>1, <1>2, <1>6, <1>7, <1>8 DEF RmPlaces
<1>13. RmBuffers'
  <2>1. RmDrawn(rmPc.o)' = d
    BY <1>1, <1>5, <1>7 DEF RmDrawn
  <2>2. rmCore'.swap => to = "swap" /\ rmCore.double /\ RmUp
    BY <1>2, <1>6
  <2>3. rmCore'.double => rmCore'.bufs[rmCore'.buf + 1] # -1
    BY <1>0, <1>6, <1>9 DEF RmBuffers
  <2>4. rmCore'.swap => rmCore'.bufs[2 - rmCore'.buf] = d
    BY <1>6, <1>9, <2>2
  <2>5. to = "swap" /\ RmUp /\ ~rmCore'.swap => rmCore'.bufs[rmCore'.buf + 1] = d
    BY <1>0, <1>6, <1>9 DEF RmTyped
  <2>6. ~rmCore'.double => rmCore'.buf = 0
    BY <1>0, <1>6 DEF RmBuffers
  <2> QED BY <1>6, <1>7, <1>8, <2>1, <2>2, <2>3, <2>4, <2>5, <2>6 DEF RmBuffers
<1>14. RmShown'
  BY <1>0, <1>1, <1>6, <1>8 DEF RmShown
<1>15. RmScansLatest'
  BY <1>0, <1>1 DEF RmScansLatest
<1> QED BY <1>10, <1>11, <1>12, <1>13, <1>14, <1>15 DEF RmInv

\* The wait for the swap ends, and so does refresh().
LEMMA RmWaits ==
    ASSUME RmInv, RmSwapped \/ RmRefreshed
    PROVE  RmInv'
<1>0. RmTyped /\ RmCoreUp /\ RmCoreDown /\ RmPlaces /\ RmBuffers /\ RmShown /\ RmScansLatest
  BY DEF RmInv
<1>1. UNCHANGED <<rmAvail, rmObj, rmCore, rmHost, rmActive, rmTimer, rmHeap, rmPanel>>
  BY DEF RmSwapped, RmRefreshed
<1>2. RmUp' <=> RmUp
  BY <1>1 DEF RmUp
<1>3. RmShown' /\ RmScansLatest' /\ RmCoreDown'
  BY <1>0, <1>1, <1>2 DEF RmShown, RmScansLatest, RmCoreDown
<1>4. CASE RmSwapped
  <2>1. rmPc.at = "swap" /\ ~rmCore.swap /\ rmPc' = [op |-> rmPc.op, at |-> "done", o |-> rmPc.o]
    BY <1>4 DEF RmSwapped, RmGoes
  <2>2. rmPc.op # "idle"
    BY <1>0, <2>1 DEF RmPlaces, RmIdle
  <2>3. RmTyped'
    BY <1>0, <1>1, <2>1 DEF RmTyped
  <2>4. RmCoreUp'
    BY <1>0, <1>1, <1>2, <2>1 DEF RmCoreUp
  <2>5. RmPlaces'
    BY <1>0, <1>1, <1>2, <2>1, <2>2 DEF RmPlaces
  <2>6. RmBuffers'
    BY <1>0, <1>1, <1>2, <2>1, <2>2 DEF RmBuffers, RmDrawn
  <2> QED BY <1>3, <2>3, <2>4, <2>5, <2>6 DEF RmInv
<1>5. CASE RmRefreshed
  <2>1. rmPc.op = "refresh" /\ rmPc.at = "done" /\ rmPc' = RmIdle
    BY <1>5 DEF RmRefreshed
  <2>2. RmTyped'
    BY <1>0, <1>1, <2>1 DEF RmTyped, RmIdle
  <2>3. RmCoreUp'
    BY <1>0, <1>1, <1>2, <2>1 DEF RmCoreUp, RmTyped, RmIdle
  <2>4. RmPlaces'
    BY <2>1 DEF RmPlaces, RmIdle
  <2>5. RmBuffers'
    BY <1>0, <1>1, <1>2, <2>1 DEF RmBuffers, RmIdle
  <2> QED BY <1>3, <2>2, <2>3, <2>4, <2>5 DEF RmInv
<1> QED BY <1>4, <1>5

\* Every step keeps it.
LEMMA RmSteps ==
    ASSUME RmInv, RmKeeps, ~RmGcNow, ~RmOld, ~RmViews, [RmNext]_rmVars
    PROVE  RmInv'
<1>1. CASE UNCHANGED rmVars
  BY <1>1 DEF rmVars, RmInv, RmTyped, RmCoreUp, RmCoreDown, RmPlaces, RmBuffers, RmShown,
              RmScansLatest, RmUp, RmDrawn
<1>2. CASE RmRowHandler
  BY <1>2, RmInterrupt
<1>3. CASE RmStopTimer
  BY <1>3, RmStops
<1>4. CASE RmFreesOld \/ RmFreesOwn \/ RmFreesAll
  BY <1>4, RmFrees
<1>5. CASE RmInitFails \/ RmInitOk
  BY <1>5, RmInits
<1>6. CASE RmBeginFails \/ RmBeginOk
  BY <1>6, RmBegun
<1>7. CASE RmPublish
  BY <1>7, RmPublishes
<1>8. CASE RmConvertBegins \/ RmConvertEnds
  BY <1>8, RmConverts
<1>9. CASE RmSwapped \/ RmRefreshed
  BY <1>9, RmWaits
<1>10. CASE RmSoftReset
  BY <1>10, RmResets
<1>11. CASE RmCollect
  BY <1>11, RmForgets
<1>12. ASSUME NEW o \in RmObjs,
              \/ \E d \in BOOLEAN : RmMake(o, d)
              \/ RmRefresh(o) \/ RmScan(o) \/ RmFillRect(o) \/ RmThroughView(o)
              \/ RmGetBuffer(o) \/ RmDeinit(o) \/ RmDrop(o)
       PROVE  RmInv'
  <2>1. ~RmThroughView(o) /\ ~RmGetBuffer(o)
    BY DEF RmThroughView, RmGetBuffer
  <2>2. CASE RmRefresh(o) \/ RmDeinit(o)
    BY <2>2, RmRefreshes, RmDeinits
  <2>3. CASE RmScan(o) \/ RmFillRect(o)
    BY <2>3, RmScans, RmDraw
  <2>4. CASE RmDrop(o)
    BY <2>4, RmForgets
  <2>5. CASE \E d \in BOOLEAN : RmMake(o, d)
    BY <2>5, RmMakes
  <2> QED BY <1>12, <2>1, <2>2, <2>3, <2>4, <2>5
<1> QED BY <1>1, <1>2, <1>3, <1>4, <1>5, <1>6, <1>7, <1>8, <1>9, <1>10, <1>11, <1>12 DEF RmNext

\* Where the collector does not run in a construction, the program keeps the
\* matrix that runs and uses no older one, and draws in no buffer it kept:
\* the interrupt reads what is allocated, nothing is freed twice, what is lit is
\* on its own row for its plane's time and no half of a frame, and refresh()
\* returns with what was drawn.
THEOREM RmKeepsTheMatrix ==
    RmKeeps /\ ~RmGcNow /\ ~RmOld /\ ~RmViews => (RmSpec => []RmSafe)
<1>. SUFFICES ASSUME RmKeeps, ~RmGcNow, ~RmOld, ~RmViews
              PROVE  RmSpec => []RmSafe
  OBVIOUS
<1>1. RmInit => RmInv
  BY RmBegins
<1>2. RmInv /\ [RmNext]_rmVars => RmInv'
  BY RmSteps
<1> QED BY <1>1, <1>2, RmAgrees, PTL DEF RmSpec

-----------------------------------------------------------------------------
(***************************************************************************)
(* The buses that send as they are asked, for any bytes and any depth of   *)
(* the FIFO. Inductive is that what the panel has taken, and then what is  *)
(* on its way or still to be put, is what the call is to say, and that     *)
(* what is claimed is what the statics name.                               *)
(***************************************************************************)

PbB == PbBytes \cup {PbNoCommand}
PbTold == [dc : {0, 1}, byte : PbB]
PbPlaces == {"idle", "cmd", "data", "cmdPuts", "dataPuts", "waits", "end", "said"}
PbPuts == {"cmdPuts", "dataPuts"}

\* Bytes as the panel takes them under a level of D/C.
PbAs(dc, bytes) == [k \in DOMAIN bytes |-> [dc |-> dc, byte |-> bytes[k]]]

\* What a call is to say, and what of it is still to be taken.
PbCmdSaid == IF pbCall.cmd = PbNoCommand THEN <<>> ELSE <<[dc |-> 0, byte |-> pbCall.cmd]>>
PbWhole == PbCmdSaid \o PbAs(1, pbCall.data)
PbOnWay == pbOsr \o (pbFifo \o pbCall.left)
PbLeft ==
    CASE pbCall.at = "cmd" -> PbWhole
      [] pbCall.at = "data" -> PbAs(1, pbCall.data)
      [] pbCall.at = "cmdPuts" -> PbAs(0, PbOnWay) \o PbAs(1, pbCall.data)
      [] pbCall.at = "dataPuts" -> PbAs(1, PbOnWay)
      [] pbCall.at = "waits" -> IF pbDone THEN <<>> ELSE PbAs(1, pbCall.data)
      [] OTHER -> <<>>

PbTyped ==
    /\ pbObjs \in Seq({"live", "deinited", "none"})
    /\ pbCall = [at |-> pbCall.at, obj |-> pbCall.obj, cmd |-> pbCall.cmd, data |-> pbCall.data,
                 left |-> pbCall.left]
    /\ pbCall.at \in PbPlaces /\ pbCall.cmd \in PbB
    /\ {pbCall.data, pbCall.left, pbFifo, pbOsr, pbDma} \subseteq Seq(PbB)
    /\ pbPins = [cs |-> pbPins.cs, dc |-> pbPins.dc, high |-> pbPins.high]
    /\ pbDone \in BOOLEAN

\* What is claimed is what the statics name, and a call's object has it.
PbClaims ==
    /\ pbHw \subseteq {pbHost} /\ (pbHost = 0 \/ pbHost \in pbHw)
    /\ pbCall.at # "idle" /\ pbPort # "samd" => pbCall.obj \in pbHw

\* What is on its way is this call's, on the port that carries so.
PbCarried ==
    /\ pbCall.at \notin PbPuts => pbFifo = <<>> /\ pbOsr = <<>> /\ pbCall.left = <<>>
    /\ pbCall.at \in PbPuts => pbPort = "rp2"
    /\ pbCall.at = "waits" => pbPort = "esp32" /\ pbDma = IF pbDone THEN <<>> ELSE pbCall.data
    /\ pbDone => pbCall.at = "waits"
    /\ pbDma # <<>> => pbPort = "esp32"
    /\ pbCall.at \in {"end", "said"} /\ pbCall.data # <<>> => pbDma = <<>>
    /\ pbCall.at # "idle" => pbTuned
    /\ pbCall.at \notin {"idle", "said"} /\ pbPort # "esp32" => pbPins.cs
    /\ pbCall.at = "cmdPuts" => pbPins.dc = 0
    /\ pbCall.at = "dataPuts" => pbPins.dc = 1
    /\ pbCall.at = "cmd" => pbCall.cmd # PbNoCommand

\* Taken and to be taken, it is what the call is to say. (Where bytes are not
\* coded: with no D/C pin, or through the SAMD's pins.)
PbAddsUp ==
    PbPlain => /\ pbSeen \in Seq(PbTold)
               /\ pbCall.at = "idle" => pbSeen = <<>>
               /\ pbCall.at # "idle" => pbSeen \o PbLeft = PbWhole

PbInv == PbTyped /\ PbClaims /\ PbCarried /\ PbAddsUp

\* It is what is promised.
LEMMA PbAgrees == PbInv => PbSafe
<1>. SUFFICES ASSUME PbInv PROVE PbSafe
  OBVIOUS
<1>1. PbOurs
  BY DEF PbInv, PbCarried, PbOurs, PbPuts
<1>2. PbHeld /\ PbBacked
  BY DEF PbInv, PbClaims, PbHeld, PbBacked
<1>3. PbPlain => PbSaid
  <2>. SUFFICES ASSUME PbPlain, pbCall.at = "said" PROVE pbSeen = PbWhole
    BY DEF PbSaid, PbWhole, PbCmdSaid, PbAs
  <2>1. pbSeen \o <<>> = PbWhole /\ pbSeen \in Seq(PbTold)
    BY DEF PbInv, PbAddsUp, PbLeft
  <2> QED BY <2>1, ConcatEmptySeq
<1> QED BY <1>1, <1>2, <1>3 DEF PbSafe

\* Bytes taken are a sequence of as many.
LEMMA PbAsIs ==
    ASSUME NEW dc \in {0, 1}, NEW s \in Seq(PbB)
    PROVE  PbAs(dc, s) \in Seq(PbTold) /\ Len(PbAs(dc, s)) = Len(s) /\ DOMAIN PbAs(dc, s) = DOMAIN s
<1>1. DOMAIN s = 1 .. Len(s) /\ Len(s) \in Nat /\ \A k \in 1 .. Len(s) : s[k] \in PbB
  BY LenProperties
<1>2. \A k \in 1 .. Len(s) : [dc |-> dc, byte |-> s[k]] \in PbTold
  BY <1>1 DEF PbTold
<1> QED BY <1>1, <1>2 DEF PbAs

\* Taken one after the other, they are taken in that order.
LEMMA PbAsJoins ==
    ASSUME NEW dc \in {0, 1}, NEW s \in Seq(PbB), NEW t \in Seq(PbB)
    PROVE  PbAs(dc, s \o t) = PbAs(dc, s) \o PbAs(dc, t)
<1>1. /\ s \o t \in Seq(PbB) /\ Len(s \o t) = Len(s) + Len(t)
      /\ \A i \in 1 .. Len(s) + Len(t) : (s \o t)[i] = IF i <= Len(s) THEN s[i] ELSE t[i - Len(s)]
  BY ConcatProperties
<1>2. /\ PbAs(dc, s) \in Seq(PbTold) /\ Len(PbAs(dc, s)) = Len(s)
      /\ PbAs(dc, t) \in Seq(PbTold) /\ Len(PbAs(dc, t)) = Len(t)
      /\ PbAs(dc, s \o t) \in Seq(PbTold) /\ Len(PbAs(dc, s \o t)) = Len(s) + Len(t)
  BY <1>1, PbAsIs
<1>3. /\ PbAs(dc, s) \o PbAs(dc, t) \in Seq(PbTold)
      /\ Len(PbAs(dc, s) \o PbAs(dc, t)) = Len(s) + Len(t)
      /\ \A i \in 1 .. Len(s) + Len(t) :
             (PbAs(dc, s) \o PbAs(dc, t))[i] =
                 IF i <= Len(s) THEN PbAs(dc, s)[i] ELSE PbAs(dc, t)[i - Len(s)]
  <2>1. PICK u, v : u = PbAs(dc, s) /\ v = PbAs(dc, t)
    OBVIOUS
  <2>2. u \in Seq(PbTold) /\ v \in Seq(PbTold)
    BY <1>2, <2>1
  <2>3. /\ u \o v \in Seq(PbTold) /\ Len(u \o v) = Len(u) + Len(v)
        /\ \A i \in 1 .. Len(u) + Len(v) : (u \o v)[i] = IF i <= Len(u) THEN u[i] ELSE v[i - Len(u)]
    BY <2>2, ConcatProperties
  <2> QED BY <1>2, <2>1, <2>2, <2>3
<1>4. Len(s) \in Nat /\ Len(t) \in Nat /\ DOMAIN s = 1 .. Len(s) /\ DOMAIN t = 1 .. Len(t)
      /\ DOMAIN (s \o t) = 1 .. Len(s) + Len(t)
  BY <1>1, LenProperties
<1>5. ASSUME NEW i \in 1 .. Len(s) + Len(t)
      PROVE  PbAs(dc, s \o t)[i] = (PbAs(dc, s) \o PbAs(dc, t))[i]
  <2>1. PbAs(dc, s \o t)[i] = [dc |-> dc, byte |-> (s \o t)[i]]
    BY <1>4 DEF PbAs
  <2>2. CASE i <= Len(s)
    BY <1>1, <1>3, <1>4, <2>1, <2>2 DEF PbAs
  <2>3. CASE i > Len(s)
    <3>1. i - Len(s) \in 1 .. Len(t) /\ ~(i <= Len(s))
      BY <1>4, <2>3
    <3>2. PbAs(dc, t)[i - Len(s)] = [dc |-> dc, byte |-> t[i - Len(s)]]
      BY <1>4, <3>1 DEF PbAs
    <3> QED BY <1>1, <1>3, <2>1, <3>1, <3>2
  <2>4. i <= Len(s) \/ i > Len(s)
    BY <1>4
  <2> QED BY <2>2, <2>3, <2>4
<1> QED BY <1>2, <1>3, <1>5, SeqEqual

\* Nothing, and a single byte.
LEMMA PbAsFew ==
    ASSUME NEW dc \in {0, 1}
    PROVE  /\ PbAs(dc, <<>>) = <<>>
           /\ \A c \in PbB : <<c>> \in Seq(PbB) /\ PbAs(dc, <<c>>) = <<[dc |-> dc, byte |-> c]>>
<1>1. PbAs(dc, <<>>) = <<>>
  BY DEF PbAs
<1>2. ASSUME NEW c \in PbB PROVE <<c>> \in Seq(PbB) /\ PbAs(dc, <<c>>) = <<[dc |-> dc, byte |-> c]>>
  <2>1. <<c>> \in Seq(PbB) /\ Len(<<c>>) = 1 /\ <<c>>[1] = c /\ DOMAIN <<c>> = 1 .. 1
    OBVIOUS
  <2>2. [dc |-> dc, byte |-> c] \in PbTold
    BY DEF PbTold
  <2>3. PbAs(dc, <<c>>) \in Seq(PbTold) /\ Len(PbAs(dc, <<c>>)) = 1
    BY <2>1, PbAsIs
  <2>4. PbAs(dc, <<c>>)[1] = [dc |-> dc, byte |-> c]
    BY <2>1 DEF PbAs
  <2>5. /\ <<[dc |-> dc, byte |-> c]>> \in Seq(PbTold) /\ Len(<<[dc |-> dc, byte |-> c]>>) = 1
        /\ <<[dc |-> dc, byte |-> c]>>[1] = [dc |-> dc, byte |-> c]
    BY <2>2
  <2>6. \A i \in 1 .. Len(PbAs(dc, <<c>>)) : PbAs(dc, <<c>>)[i] = <<[dc |-> dc, byte |-> c]>>[i]
    <3>. SUFFICES ASSUME NEW i \in 1 .. 1 PROVE PbAs(dc, <<c>>)[i] = <<[dc |-> dc, byte |-> c]>>[i]
      BY <2>3
    <3>1. i = 1
      OBVIOUS
    <3> QED BY <2>4, <2>5, <3>1
  <2> QED BY <2>1, <2>3, <2>5, <2>6, SeqEqual
<1> QED BY <1>1, <1>2

\* What is to be said is sequences of what can be taken.
LEMMA PbWholeIs ==
    ASSUME PbTyped
    PROVE  /\ PbCmdSaid \in Seq(PbTold) /\ PbAs(1, pbCall.data) \in Seq(PbTold)
           /\ PbWhole \in Seq(PbTold)
           /\ PbOnWay \in Seq(PbB) /\ PbAs(0, PbOnWay) \in Seq(PbTold)
           /\ PbAs(1, PbOnWay) \in Seq(PbTold)
           /\ pbCall.cmd # PbNoCommand => PbCmdSaid = PbAs(0, <<pbCall.cmd>>)
<1>1. pbCall.cmd \in PbB /\ {pbCall.data, pbCall.left, pbFifo, pbOsr} \subseteq Seq(PbB)
  BY DEF PbTyped
<1>2. PbAs(1, pbCall.data) \in Seq(PbTold)
  BY <1>1, PbAsIs
<1>3. PbAs(0, <<pbCall.cmd>>) = <<[dc |-> 0, byte |-> pbCall.cmd]>>
      /\ PbAs(0, <<pbCall.cmd>>) \in Seq(PbTold)
  BY <1>1, PbAsFew, PbAsIs
<1>4. PbCmdSaid \in Seq(PbTold)
  BY <1>3, EmptySeq DEF PbCmdSaid
<1>5. pbFifo \o pbCall.left \in Seq(PbB)
  BY <1>1, ConcatProperties
<1>6. PbOnWay \in Seq(PbB)
  BY <1>1, <1>5, ConcatProperties DEF PbOnWay
<1> QED BY <1>2, <1>3, <1>4, <1>6, PbAsIs, ConcatProperties DEF PbWhole, PbCmdSaid

\* It holds at the start.
LEMMA PbBegins == PbInit => PbInv
<1>. SUFFICES ASSUME PbInit PROVE PbInv
  OBVIOUS
<1>1. /\ pbObjs = <<>> /\ pbHw = {} /\ pbHost = 0 /\ pbCall = PbIdle
      /\ pbPins = [cs |-> FALSE, dc |-> 0, high |-> {}] /\ pbTuned = TRUE
      /\ pbFifo = <<>> /\ pbOsr = <<>> /\ pbDma = <<>> /\ pbDone = FALSE /\ pbSeen = <<>>
  BY DEF PbInit
<1>2. /\ pbCall.at = "idle" /\ pbCall.cmd = PbNoCommand /\ pbCall.data = <<>>
      /\ pbCall.left = <<>>
      /\ pbCall = [at |-> pbCall.at, obj |-> pbCall.obj, cmd |-> pbCall.cmd, data |-> pbCall.data,
                   left |-> pbCall.left]
  BY <1>1 DEF PbIdle
<1>3. PbTyped
  <2>1. pbCall.cmd \in PbB /\ pbCall.at \in PbPlaces
    BY <1>2 DEF PbB, PbPlaces
  <2>2. /\ {pbCall.data, pbCall.left, pbFifo, pbOsr, pbDma} \subseteq Seq(PbB)
        /\ pbObjs \in Seq({"live", "deinited", "none"})
    BY <1>1, <1>2, EmptySeq
  <2>3. pbPins = [cs |-> pbPins.cs, dc |-> pbPins.dc, high |-> pbPins.high] /\ pbDone \in BOOLEAN
    BY <1>1
  <2> QED BY <1>2, <2>1, <2>2, <2>3 DEF PbTyped
<1>4. PbClaims /\ PbCarried
  BY <1>1, <1>2 DEF PbClaims, PbCarried, PbPuts
<1>5. PbAddsUp
  BY <1>1, <1>2 DEF PbAddsUp
<1> QED BY <1>3, <1>4, <1>5 DEF PbInv

\* A step between calls that sends nothing.
LEMMA PbBetween ==
    ASSUME PbInv, pbCall = PbIdle, UNCHANGED <<pbPort, pbCall, pbFifo, pbOsr, pbDma, pbSeen>>,
           pbObjs' \in Seq({"live", "deinited", "none"}), pbDone' = FALSE,
           pbPins' = [cs |-> pbPins'.cs, dc |-> pbPins'.dc, high |-> pbPins'.high],
           pbHw' \subseteq {pbHost'}, pbHost' = 0 \/ pbHost' \in pbHw'
    PROVE  PbInv'
<1>1. pbCall.at = "idle"
  BY DEF PbIdle
<1>2. PbTyped'
  BY DEF PbInv, PbTyped
<1>3. PbClaims'
  BY <1>1 DEF PbClaims
<1>4. PbCarried'
  BY <1>1 DEF PbInv, PbCarried, PbPuts
<1>5. PbAddsUp'
  BY <1>1 DEF PbInv, PbAddsUp, PbPlain
<1> QED BY <1>2, <1>3, <1>4, <1>5 DEF PbInv

\* Constructions and ends.
LEMMA PbHolds ==
    ASSUME PbInv, ~PbLeaky,
           \/ PbMake \/ PbSoftReset \/ PbOthers
           \/ \E stage \in PbFailures : PbMakeFails(stage)
           \/ \E o \in DOMAIN pbObjs : PbDeinit(o)
    PROVE  PbInv'
<1>1. /\ pbCall = PbIdle /\ UNCHANGED <<pbPort, pbCall, pbFifo, pbOsr, pbDma, pbSeen>>
      /\ pbPins' = pbPins \/ PbMake
  BY DEF PbMake, PbSoftReset, PbOthers, PbMakeFails, PbDeinit, PbGivesUp, PbOwned, PbWire
<1>2. /\ pbObjs \in Seq({"live", "deinited", "none"}) /\ pbDone = FALSE
      /\ pbHw \subseteq {pbHost}
      /\ pbHost = 0 \/ pbHost \in pbHw
      /\ pbPins = [cs |-> pbPins.cs, dc |-> pbPins.dc, high |-> pbPins.high]
  <2>1. pbCall.at # "waits"
    BY <1>1 DEF PbIdle
  <2> QED BY <2>1 DEF PbInv, PbTyped, PbClaims, PbCarried
<1>3. PbTorn = {}
  BY <1>2 DEF PbTorn
<1>4. \A o : PbToldOf(o) \in Seq({"live", "deinited", "none"})
  <2>1. DOMAIN pbObjs = 1 .. Len(pbObjs) /\ Len(pbObjs) \in Nat
        /\ \A p \in 1 .. Len(pbObjs) : pbObjs[p] \in {"live", "deinited", "none"}
    BY <1>2, LenProperties
  <2> QED BY <2>1 DEF PbToldOf
<1>5. pbPins' = [cs |-> pbPins'.cs, dc |-> pbPins'.dc, high |-> pbPins'.high]
  BY <1>1, <1>2 DEF PbMake
<1>6. CASE PbMake
  <2>1. pbObjs' \in Seq({"live", "deinited", "none"})
    BY <1>4, <1>6 DEF PbMake
  <2>2. pbHw' \subseteq {pbHost'} /\ (pbHost' = 0 \/ pbHost' \in pbHw') /\ pbDone' = FALSE
    BY <1>2, <1>3, <1>6 DEF PbMake
  <2> QED BY <1>1, <1>5, <2>1, <2>2, PbBetween
<1>7. CASE PbSoftReset \/ \E o \in DOMAIN pbObjs : PbDeinit(o)
  <2>1. [o \in DOMAIN pbObjs |-> "none"] \in Seq({"live", "deinited", "none"})
    <3>1. DOMAIN pbObjs = 1 .. Len(pbObjs) /\ Len(pbObjs) \in Nat
      BY <1>2, LenProperties
    <3> QED BY <3>1
  <2>2. /\ pbHw' = {} /\ pbHost' = 0 /\ pbDone' = FALSE
        /\ pbObjs' \in Seq({"live", "deinited", "none"})
    BY <1>2, <1>3, <1>4, <1>7, <2>1 DEF PbSoftReset, PbDeinit, PbWire
  <2> QED BY <1>1, <1>5, <2>2, PbBetween
<1>8. CASE PbOthers
  <2>1. UNCHANGED <<pbObjs, pbHw, pbHost, pbDone>>
    BY <1>8 DEF PbOthers, PbOwned
  <2> QED BY <1>1, <1>2, <1>5, <2>1, PbBetween
<1>9. ASSUME NEW stage \in PbFailures, PbMakeFails(stage) PROVE PbInv'
  <2>1. stage \notin PbForgets
    BY <1>9 DEF PbMakeFails
  <2>2. pbObjs' \in Seq({"live", "deinited", "none"})
    BY <1>4, <1>9 DEF PbMakeFails
  <2>3. pbHw' \subseteq {pbHost'} /\ (pbHost' = 0 \/ pbHost' \in pbHw') /\ pbDone' = FALSE
    BY <1>2, <1>3, <1>9, <2>1 DEF PbMakeFails
  <2> QED BY <1>1, <1>5, <2>2, <2>3, PbBetween
<1> QED BY <1>6, <1>7, <1>8, <1>9

\* A call that begins has all of it to say.
LEMMA PbSends ==
    ASSUME PbInv, ~PbOld, NEW o \in DOMAIN pbObjs, NEW cmd \in PbBytes \cup {PbNoCommand},
           NEW data \in Seq(PbBytes), PbSend(o, cmd, data)
    PROVE  PbInv'
<1>0. PbTyped /\ PbClaims /\ PbCarried /\ PbAddsUp
  BY DEF PbInv
<1>1. PICK at : at = IF cmd # PbNoCommand THEN "cmd" ELSE IF data # <<>> THEN "data" ELSE "end"
  OBVIOUS
<1>2. /\ pbCall.at = "idle" /\ PbHas(o)
      /\ pbCall' = [at |-> at, obj |-> o, cmd |-> cmd, data |-> data, left |-> <<>>]
      /\ pbTuned' = TRUE /\ pbPins' = [pbPins EXCEPT !.cs = (pbPort # "esp32")]
      /\ UNCHANGED <<pbPort, pbObjs, pbHw, pbHost, pbFifo, pbOsr, pbDma, pbDone, pbSeen>>
  BY <1>1 DEF PbSend, PbIdle, PbOwned
<1>3. /\ pbCall'.at = at /\ pbCall'.obj = o /\ pbCall'.cmd = cmd /\ pbCall'.data = data
      /\ pbCall'.left = <<>> /\ pbPins'.cs = (pbPort # "esp32")
      /\ pbCall' = [at |-> pbCall'.at, obj |-> pbCall'.obj, cmd |-> pbCall'.cmd,
                    data |-> pbCall'.data, left |-> pbCall'.left]
      /\ pbPins' = [cs |-> pbPins'.cs, dc |-> pbPins'.dc, high |-> pbPins'.high]
  BY <1>0, <1>2 DEF PbTyped
<1>4. data \in Seq(PbB) /\ cmd \in PbB /\ at \in {"cmd", "data", "end"}
  BY <1>1, SeqMonotonic DEF PbB
<1>5. PbTyped'
  <2>1. pbCall'.at \in PbPlaces
    BY <1>3, <1>4 DEF PbPlaces
  <2>2. {pbCall'.data, pbCall'.left, pbFifo', pbOsr', pbDma'} \subseteq Seq(PbB)
    BY <1>0, <1>2, <1>3, <1>4, EmptySeq DEF PbTyped
  <2> QED BY <1>0, <1>2, <1>3, <1>4, <2>1, <2>2 DEF PbTyped
<1>6. PbClaims'
  <2>1. pbPort # "samd" => o \in pbHw
    <3>1. 0 \notin DOMAIN pbObjs
      <4>1. DOMAIN pbObjs = 1 .. Len(pbObjs)
        BY <1>0, LenProperties DEF PbTyped
      <4> QED BY <4>1
    <3>2. pbPort # "samd" => o = pbHost
      BY <1>2 DEF PbHas
    <3> QED BY <1>0, <3>1, <3>2 DEF PbClaims
  <2> QED BY <1>0, <1>2, <1>3, <2>1 DEF PbClaims
<1>7. PbCarried'
  BY <1>0, <1>1, <1>2, <1>3, <1>4 DEF PbCarried, PbPuts
<1>8. PbAddsUp'
  <2>. SUFFICES ASSUME PbPlain
                PROVE  pbSeen' \in Seq(PbTold) /\ pbSeen' \o PbLeft' = PbWhole'
    BY <1>2, <1>3, <1>4 DEF PbAddsUp, PbPlain
  <2>1. pbSeen' = <<>>
    BY <1>0, <1>2 DEF PbAddsUp
  <2>2. /\ PbWhole' \in Seq(PbTold) /\ PbAs(1, data) \in Seq(PbTold)
        /\ PbWhole' = PbCmdSaid' \o PbAs(1, data)
    <3>1. PbCmdSaid' \in Seq(PbTold)
      <4>1. [dc |-> 0, byte |-> cmd] \in PbTold
        BY <1>4 DEF PbTold
      <4>2. <<[dc |-> 0, byte |-> cmd]>> \in Seq(PbTold)
        BY <4>1
      <4> QED BY <1>3, <4>2, EmptySeq DEF PbCmdSaid
    <3>2. PbAs(1, data) \in Seq(PbTold)
      BY <1>4, PbAsIs
    <3> QED BY <1>3, <3>1, <3>2, ConcatProperties DEF PbWhole, PbAs
  <2>3. CASE at = "cmd"
    <3>1. PbLeft' = PbWhole'
      BY <1>3, <2>3 DEF PbLeft
    <3> QED BY <2>1, <2>2, <3>1, ConcatEmptySeq, EmptySeq
  <2>4. CASE at # "cmd"
    <3>1. PbCmdSaid' = <<>>
      BY <1>1, <1>3, <2>4 DEF PbCmdSaid
    <3>2. PbWhole' = PbAs(1, data)
      BY <2>2, <3>1, ConcatEmptySeq
    <3>3. PbLeft' = PbAs(1, data)
      <4>1. at = "end" => data = <<>>
        BY <1>1
      <4>2. at = "end" => PbAs(1, data) = <<>>
        BY <4>1, PbAsFew
      <4> QED BY <1>3, <1>4, <2>4, <4>2 DEF PbLeft, PbAs
    <3> QED BY <2>1, <2>2, <3>2, <3>3, ConcatEmptySeq, EmptySeq
  <2> QED BY <2>3, <2>4, <1>4
<1> QED BY <1>5, <1>6, <1>7, <1>8 DEF PbInv

\* A step that leaves what is claimed and what the call says, and goes from one
\* place of a call to another, or ends it.
LEMMA PbSameCall ==
    ASSUME PbInv, pbCall.at # "idle", UNCHANGED <<pbPort, pbObjs, pbHw, pbHost>>,
           {pbFifo', pbOsr', pbDma'} \subseteq Seq(PbB), pbDone' \in BOOLEAN,
           pbPins' = [cs |-> pbPins'.cs, dc |-> pbPins'.dc, high |-> pbPins'.high],
           NEW at \in PbPlaces, NEW left \in Seq(PbB),
           pbCall' = [pbCall EXCEPT !.at = at, !.left = left] \/ (pbCall' = PbIdle /\ at = "idle")
    PROVE  /\ PbTyped' /\ PbClaims' /\ pbCall'.at = at
           /\ pbCall' # PbIdle => /\ pbCall'.left = left /\ pbCall'.cmd = pbCall.cmd
                                  /\ pbCall'.data = pbCall.data
                                  /\ PbWhole' = PbWhole /\ PbCmdSaid' = PbCmdSaid
           /\ pbCall' = PbIdle => pbCall'.left = <<>>
<1>0. PbTyped /\ PbClaims
  BY DEF PbInv
<1>1. CASE pbCall' = [pbCall EXCEPT !.at = at, !.left = left]
  <2>1. /\ pbCall'.at = at /\ pbCall'.left = left /\ pbCall'.cmd = pbCall.cmd
        /\ pbCall'.data = pbCall.data /\ pbCall'.obj = pbCall.obj
        /\ pbCall' = [at |-> pbCall'.at, obj |-> pbCall'.obj, cmd |-> pbCall'.cmd,
                      data |-> pbCall'.data, left |-> pbCall'.left]
    BY <1>0, <1>1 DEF PbTyped
  <2>2. PbTyped'
    BY <1>0, <2>1 DEF PbTyped
  <2>3. PbClaims'
    BY <1>0, <2>1 DEF PbClaims
  <2>4. PbWhole' = PbWhole /\ PbCmdSaid' = PbCmdSaid
    BY <2>1 DEF PbWhole, PbCmdSaid, PbAs
  <2>5. pbCall' = PbIdle => pbCall'.left = <<>>
    BY DEF PbIdle
  <2> QED BY <2>1, <2>2, <2>3, <2>4, <2>5
<1>2. CASE pbCall' = PbIdle /\ at = "idle"
  <2>1. /\ pbCall'.at = "idle" /\ pbCall'.left = <<>> /\ pbCall'.cmd = PbNoCommand
        /\ pbCall'.data = <<>>
        /\ pbCall' = [at |-> pbCall'.at, obj |-> pbCall'.obj, cmd |-> pbCall'.cmd,
                      data |-> pbCall'.data, left |-> pbCall'.left]
    BY <1>2 DEF PbIdle
  <2>2. /\ pbCall'.cmd \in PbB /\ pbCall'.at \in PbPlaces
        /\ {pbCall'.data, pbCall'.left} \subseteq Seq(PbB)
    BY <2>1, EmptySeq DEF PbB, PbPlaces
  <2>3. PbTyped'
    BY <1>0, <2>1, <2>2 DEF PbTyped
  <2>4. PbClaims'
    BY <1>0, <2>1 DEF PbClaims
  <2> QED BY <1>2, <2>1, <2>3, <2>4
<1> QED BY <1>1, <1>2

\* A call ends: it returns, raises, or waits no longer.
LEMMA PbCallEnds ==
    ASSUME PbInv, PbRaises \/ PbTimesOut \/ PbReturns
    PROVE  PbInv'
<1>0. PbTyped /\ PbClaims /\ PbCarried /\ PbAddsUp
  BY DEF PbInv
<1>1. /\ pbCall.at \in {"cmd", "data", "waits", "said"} /\ ~pbDone
      /\ pbCall' = PbIdle /\ pbSeen' = <<>>
      /\ UNCHANGED <<pbPort, pbObjs, pbHw, pbHost, pbPins, pbTuned, pbFifo, pbOsr, pbDma, pbDone>>
  BY <1>0 DEF PbRaises, PbTimesOut, PbReturns, PbOwned, PbCarried
<1>2. "idle" \in PbPlaces /\ <<>> \in Seq(PbB) /\ pbCall'.left = <<>> /\ pbCall'.at = "idle"
  BY <1>1, EmptySeq DEF PbPlaces, PbIdle
<1>3. /\ {pbFifo', pbOsr', pbDma'} \subseteq Seq(PbB) /\ pbDone' \in BOOLEAN
      /\ pbPins' = [cs |-> pbPins'.cs, dc |-> pbPins'.dc, high |-> pbPins'.high]
  BY <1>0, <1>1 DEF PbTyped
<1>4. PbTyped' /\ PbClaims'
  BY <1>1, <1>2, <1>3, PbSameCall
<1>5. PbCarried'
  BY <1>0, <1>1, <1>2 DEF PbCarried, PbPuts
<1>6. PbAddsUp'
  BY <1>1, <1>2, EmptySeq DEF PbAddsUp, PbPlain
<1> QED BY <1>4, <1>5, <1>6 DEF PbInv

\* What a call has taken and has still to say adds up.
LEMMA PbSums ==
    ASSUME PbInv, pbCall.at # "idle", PbPlain
    PROVE  pbSeen \in Seq(PbTold) /\ pbSeen \o PbLeft = PbWhole
BY DEF PbInv, PbAddsUp

\* A write that is out when it returns; what the panel took is all of it.
LEMMA PbWritten ==
    ASSUME PbInv, PbWrites
    PROVE  PbInv'
<1>0. PbTyped /\ PbClaims /\ PbCarried /\ PbAddsUp
  BY DEF PbInv
<1>1. PICK to : to = IF pbCall.at \in {"cmd", "cmdPuts"} /\ pbCall.data # <<>> THEN "data" ELSE "end"
  OBVIOUS
<1>2. /\ pbCall.at \in {"cmd", "data"} /\ pbPort # "rp2"
      /\ pbCall.at = "data" => pbPort # "esp32"
      /\ pbCall' = [pbCall EXCEPT !.at = to]
      /\ pbPins'.cs = pbPins.cs
      /\ pbPins' = [cs |-> pbPins'.cs, dc |-> pbPins'.dc, high |-> pbPins'.high]
      /\ UNCHANGED <<pbPort, pbObjs, pbHw, pbHost, pbTuned, pbFifo, pbOsr, pbDma, pbDone>>
  BY <1>0, <1>1 DEF PbWrites, PbGoesOn, PbOn, PbOwned, PbTyped
<1>3. /\ to \in PbPlaces /\ pbCall.left \in Seq(PbB) /\ pbCall.left = <<>>
      /\ pbCall' = [pbCall EXCEPT !.at = to, !.left = pbCall.left]
      /\ {pbFifo', pbOsr', pbDma'} \subseteq Seq(PbB) /\ pbDone' \in BOOLEAN
      /\ to # "idle"
  <2>1. pbCall' = [pbCall EXCEPT !.at = to, !.left = pbCall.left]
    BY <1>0, <1>2 DEF PbTyped
  <2> QED BY <1>0, <1>1, <1>2, <2>1 DEF PbTyped, PbCarried, PbPlaces, PbPuts
<1>4. PbTyped' /\ PbClaims' /\ pbCall'.at = to
  BY <1>2, <1>3, PbSameCall
<1>5. pbCall' # PbIdle
  BY <1>3, <1>4 DEF PbIdle
<1>6. /\ pbCall'.left = <<>> /\ pbCall'.data = pbCall.data /\ PbWhole' = PbWhole
      /\ pbCall'.cmd = pbCall.cmd
  BY <1>2, <1>3, <1>5, PbSameCall
<1>7. PbCarried'
  <2>1. to = "end" /\ pbCall.data # <<>> => pbDma = <<>>
    BY <1>0, <1>1, <1>2 DEF PbCarried
  <2>2. to \in {"data", "end"} /\ ~pbDone
    BY <1>0, <1>1, <1>2 DEF PbCarried
  <2> QED BY <1>0, <1>2, <1>4, <1>6, <2>1, <2>2 DEF PbCarried, PbPuts
<1>8. PbAddsUp'
  <2>. SUFFICES ASSUME PbPlain PROVE pbSeen' \in Seq(PbTold) /\ pbSeen' \o PbLeft' = PbWhole'
    BY <1>2, <1>3, <1>4 DEF PbAddsUp, PbPlain
  <2>1. pbSeen \in Seq(PbTold) /\ pbSeen \o PbLeft = PbWhole
    BY <1>2, PbSums
  <2>2. pbSeen' = pbSeen \o PbAs(PbDc, PbNow)
    <3>1. pbTuned /\ (pbPins.cs \/ pbPort = "esp32")
      BY <1>0, <1>2 DEF PbCarried
    <3>2. CASE pbPort \in {"spi", "mimxrt"}
      <4>1. PbTakes(PbDc, PbNow)
        BY <3>1, <3>2 DEF PbWrites
      <4> QED BY <3>1, <4>1 DEF PbTakes, PbAs
    <3>3. CASE pbPort \notin {"spi", "mimxrt"}
      <4>1. pbCall.at = "cmd" /\ PbTakes(0, PbNow)
        BY <3>3 DEF PbWrites, PbPlain
      <4> QED BY <3>1, <4>1 DEF PbTakes, PbAs, PbDc
    <3> QED BY <3>2, <3>3
  <2>3. CASE pbCall.at = "cmd"
    <3>1. PbDc = 0 /\ PbNow = <<pbCall.cmd>> /\ pbCall.cmd # PbNoCommand /\ PbLeft = PbWhole
      BY <1>0, <2>3 DEF PbDc, PbNow, PbCarried, PbLeft
    <3>2. pbSeen' = pbSeen \o PbCmdSaid
      BY <1>0, <2>2, <3>1, PbWholeIs
    <3>3. pbSeen = <<>>
      BY <1>0, <2>1, <3>1, PbWholeIs, ConcatEqualIffEmpty
    <3>4. pbSeen' = PbCmdSaid /\ PbCmdSaid \in Seq(PbTold)
      BY <1>0, <3>2, <3>3, PbWholeIs, ConcatEmptySeq
    <3>5. PbLeft' = PbAs(1, pbCall.data)
      <4>1. to = "end" => pbCall.data = <<>>
        BY <1>1, <2>3
      <4>2. pbCall.data = <<>> => PbAs(1, pbCall.data) = <<>>
        BY PbAsFew
      <4>3. to \in {"data", "end"}
        BY <1>1
      <4>4. PbLeft' = IF to = "data" THEN PbAs(1, pbCall.data) ELSE <<>>
        BY <1>4, <1>6, <4>3 DEF PbLeft, PbAs
      <4> QED BY <4>1, <4>2, <4>3, <4>4
    <3> QED BY <1>6, <3>4, <3>5 DEF PbWhole
  <2>4. CASE pbCall.at = "data"
    <3>1. PbDc = 1 /\ PbNow = pbCall.data /\ PbLeft = PbAs(1, pbCall.data)
      BY <2>4 DEF PbDc, PbNow, PbLeft
    <3>2. pbSeen' = PbWhole
      BY <2>1, <2>2, <3>1
    <3>3. to = "end"
      BY <1>1, <2>4
    <3>4. PbLeft' = <<>>
      BY <1>4, <3>3 DEF PbLeft
    <3> QED BY <1>0, <1>6, <3>2, <3>4, PbWholeIs, ConcatEmptySeq
  <2> QED BY <1>2, <2>3, <2>4
<1> QED BY <1>4, <1>7, <1>8 DEF PbInv

\* esp_lcd's transfer is queued, ends, and is waited for.
LEMMA PbTransferred ==
    ASSUME PbInv, ~PbLate, PbQueues \/ PbDmaEnds \/ PbWaited
    PROVE  PbInv'
<1>0. PbTyped /\ PbClaims /\ PbCarried /\ PbAddsUp
  BY DEF PbInv
<1>2. pbCall.left \in Seq(PbB) /\ "waits" \in PbPlaces /\ "end" \in PbPlaces
  BY <1>0 DEF PbTyped, PbPlaces
<1>3. CASE PbQueues
  <2>1. /\ pbPort = "esp32" /\ pbCall.at = "data" /\ pbDma' = pbCall.data
        /\ pbCall' = [pbCall EXCEPT !.at = "waits"]
        /\ UNCHANGED <<pbPort, pbObjs, pbHw, pbHost, pbPins, pbTuned, pbFifo, pbOsr, pbDone, pbSeen>>
    BY <1>3 DEF PbQueues, PbOn, PbOwned
  <2>2. /\ pbCall' = [pbCall EXCEPT !.at = "waits", !.left = pbCall.left]
        /\ {pbFifo', pbOsr', pbDma'} \subseteq Seq(PbB) /\ pbDone' \in BOOLEAN
        /\ pbPins' = [cs |-> pbPins'.cs, dc |-> pbPins'.dc, high |-> pbPins'.high]
    BY <1>0, <2>1 DEF PbTyped
  <2>3. PbTyped' /\ PbClaims' /\ pbCall'.at = "waits"
    BY <1>2, <2>1, <2>2, PbSameCall
  <2>4. pbCall' # PbIdle
    BY <2>3 DEF PbIdle
  <2>5. /\ pbCall'.left = pbCall.left /\ pbCall'.data = pbCall.data /\ PbWhole' = PbWhole
    BY <1>2, <2>1, <2>2, <2>4, PbSameCall
  <2>6. PbCarried'
    BY <1>0, <2>1, <2>3, <2>5 DEF PbCarried, PbPuts
  <2>7. PbLeft' = PbLeft
    <3>1. ~pbDone'
      BY <1>0, <2>1 DEF PbCarried
    <3> QED BY <2>1, <2>3, <2>5, <3>1 DEF PbLeft, PbAs
  <2>8. PbAddsUp'
    BY <1>0, <2>1, <2>3, <2>5, <2>7 DEF PbAddsUp, PbPlain
  <2> QED BY <2>3, <2>6, <2>8 DEF PbInv
<1>4. CASE PbDmaEnds
  <2>1. /\ pbCall.at = "waits" /\ pbDma # <<>> /\ pbDma' = <<>> /\ pbDone' = TRUE
        /\ PbTakes(1, pbDma)
        /\ UNCHANGED <<pbPort, pbObjs, pbHw, pbHost, pbCall, pbPins, pbTuned, pbFifo, pbOsr>>
    BY <1>4 DEF PbDmaEnds, PbOwned
  <2>2. pbPort = "esp32" /\ ~pbDone /\ pbDma = pbCall.data
    BY <1>0, <2>1 DEF PbCarried
  <2>3. /\ pbCall' = [pbCall EXCEPT !.at = "waits", !.left = pbCall.left]
        /\ {pbFifo', pbOsr', pbDma'} \subseteq Seq(PbB) /\ pbDone' \in BOOLEAN
        /\ pbPins' = [cs |-> pbPins'.cs, dc |-> pbPins'.dc, high |-> pbPins'.high]
    BY <1>0, <2>1, EmptySeq DEF PbTyped
  <2>4. PbTyped' /\ PbClaims'
    BY <1>2, <2>1, <2>3, PbSameCall
  <2>5. PbCarried'
    BY <1>0, <2>1, <2>2 DEF PbCarried, PbPuts
  <2>6. PbAddsUp'
    <3>1. PbPlain
      BY <2>2 DEF PbPlain
    <3>2. pbSeen \in Seq(PbTold) /\ pbSeen \o PbLeft = PbWhole
      BY <2>1, <3>1, PbSums
    <3>3. PbLeft = PbAs(1, pbCall.data) /\ PbLeft' = <<>>
      BY <2>1, <2>2 DEF PbLeft
    <3>4. pbSeen' = pbSeen \o PbAs(1, pbCall.data)
      BY <2>1, <2>2 DEF PbTakes, PbAs
    <3>5. PbWhole' = PbWhole
      BY <2>1 DEF PbWhole, PbCmdSaid, PbAs
    <3>6. pbSeen' = PbWhole /\ PbWhole \in Seq(PbTold)
      BY <1>0, <3>2, <3>3, <3>4, PbWholeIs
    <3> QED BY <2>1, <3>3, <3>5, <3>6, ConcatEmptySeq DEF PbAddsUp
  <2> QED BY <2>4, <2>5, <2>6 DEF PbInv
<1>5. CASE PbWaited
  <2>1. /\ pbCall.at = "waits" /\ pbDone /\ pbDone' = FALSE
        /\ pbCall' = [pbCall EXCEPT !.at = "end"]
        /\ UNCHANGED <<pbPort, pbObjs, pbHw, pbHost, pbPins, pbTuned, pbFifo, pbOsr, pbDma, pbSeen>>
    BY <1>5 DEF PbWaited, PbOn, PbOwned
  <2>2. /\ pbCall' = [pbCall EXCEPT !.at = "end", !.left = pbCall.left]
        /\ {pbFifo', pbOsr', pbDma'} \subseteq Seq(PbB) /\ pbDone' \in BOOLEAN
        /\ pbPins' = [cs |-> pbPins'.cs, dc |-> pbPins'.dc, high |-> pbPins'.high]
    BY <1>0, <2>1 DEF PbTyped
  <2>3. PbTyped' /\ PbClaims' /\ pbCall'.at = "end"
    BY <1>2, <2>1, <2>2, PbSameCall
  <2>4. pbCall' # PbIdle
    BY <2>3 DEF PbIdle
  <2>5. /\ pbCall'.left = pbCall.left /\ pbCall'.data = pbCall.data /\ PbWhole' = PbWhole
    BY <1>2, <2>1, <2>2, <2>4, PbSameCall
  <2>6. PbCarried'
    BY <1>0, <2>1, <2>3, <2>5 DEF PbCarried, PbPuts
  <2>7. PbLeft' = PbLeft
    BY <2>1, <2>3 DEF PbLeft
  <2>8. PbAddsUp'
    BY <1>0, <2>1, <2>3, <2>5, <2>7 DEF PbAddsUp, PbPlain
  <2> QED BY <2>3, <2>6, <2>8 DEF PbInv
<1> QED BY <1>3, <1>4, <1>5

\* The PIO takes a write over, is filled and drained, and clocks it out.
LEMMA PbPiped ==
    ASSUME PbInv, PbTransfers \/ PbPut \/ PbPull \/ PbOut
    PROVE  PbInv'
<1>0. PbTyped /\ PbClaims /\ PbCarried /\ PbAddsUp
  BY DEF PbInv
<1>1. CASE PbTransfers
  <2>1. PICK to : to = IF pbCall.at = "cmd" THEN "cmdPuts" ELSE "dataPuts"
    OBVIOUS
  <2>2. /\ pbPort = "rp2" /\ pbCall.at \in {"cmd", "data"} /\ pbFifo' = <<>>
        /\ pbPins' = [pbPins EXCEPT !.dc = PbDc]
        /\ pbCall' = [pbCall EXCEPT !.at = to, !.left = PbNow]
        /\ UNCHANGED <<pbPort, pbObjs, pbHw, pbHost, pbTuned, pbOsr, pbDma, pbDone, pbSeen>>
    BY <1>0, <1>1, <2>1 DEF PbTransfers, PbOwned, PbTyped
  <2>3. PbNow \in Seq(PbB) /\ to \in PbPuts /\ to \in PbPlaces
    BY <1>0, <2>1, PbAsFew DEF PbNow, PbTyped, PbPuts, PbPlaces
  <2>4. /\ {pbFifo', pbOsr', pbDma'} \subseteq Seq(PbB) /\ pbDone' \in BOOLEAN
        /\ pbPins' = [cs |-> pbPins'.cs, dc |-> pbPins'.dc, high |-> pbPins'.high]
        /\ pbPins'.dc = PbDc /\ pbPins'.cs = pbPins.cs
    BY <1>0, <2>2, EmptySeq DEF PbTyped
  <2>5. PbTyped' /\ PbClaims' /\ pbCall'.at = to
    BY <2>2, <2>3, <2>4, PbSameCall
  <2>6. pbCall' # PbIdle
    BY <2>1, <2>5 DEF PbIdle
  <2>7. /\ pbCall'.left = PbNow /\ pbCall'.data = pbCall.data /\ PbWhole' = PbWhole
        /\ pbCall'.cmd = pbCall.cmd
    BY <2>2, <2>3, <2>4, <2>6, PbSameCall
  <2>8. pbOsr = <<>> /\ pbDma = <<>> /\ ~pbDone /\ pbTuned /\ pbPins.cs
    BY <1>0, <2>2 DEF PbCarried, PbPuts
  <2>9. PbCarried'
    BY <2>1, <2>2, <2>3, <2>4, <2>5, <2>8 DEF PbCarried, PbPuts, PbDc
  <2>10. PbLeft' = PbLeft
    <3>1. PbOnWay' = PbNow
      BY <2>2, <2>3, <2>7, <2>8, ConcatEmptySeq DEF PbOnWay
    <3>2. CASE pbCall.at = "cmd"
      <4>1. PbNow = <<pbCall.cmd>> /\ pbCall.cmd # PbNoCommand /\ PbLeft = PbWhole
        BY <1>0, <3>2 DEF PbNow, PbCarried, PbLeft
      <4>2. PbLeft' = PbAs(0, <<pbCall.cmd>>) \o PbAs(1, pbCall.data)
        BY <2>1, <2>5, <2>7, <3>1, <3>2, <4>1 DEF PbLeft, PbAs
      <4> QED BY <1>0, <4>1, <4>2, PbWholeIs DEF PbWhole
    <3>3. CASE pbCall.at = "data"
      <4>1. PbNow = pbCall.data /\ PbLeft = PbAs(1, pbCall.data)
        BY <3>3 DEF PbNow, PbLeft
      <4> QED BY <2>1, <2>5, <3>1, <3>3, <4>1 DEF PbLeft, PbAs
    <3> QED BY <2>2, <3>2, <3>3
  <2>11. PbAddsUp'
    <3>1. pbCall.at # "idle" /\ pbCall'.at # "idle"
      BY <2>1, <2>2, <2>5
    <3> QED BY <1>0, <2>2, <2>7, <2>10, <3>1 DEF PbAddsUp, PbPlain
  <2> QED BY <2>5, <2>9, <2>11 DEF PbInv
<1>2. CASE PbPut \/ PbPull
  <2>1. /\ pbCall.at \in PbPuts
        /\ UNCHANGED <<pbPort, pbObjs, pbHw, pbHost, pbPins, pbTuned, pbDma, pbDone, pbSeen>>
    BY <1>0, <1>2 DEF PbPut, PbPull, PbOwned, PbCarried
  <2>2. PICK left : /\ left = IF PbPut THEN Tail(pbCall.left) ELSE pbCall.left
    OBVIOUS
  <2>3. /\ left \in Seq(PbB) /\ {pbFifo', pbOsr', pbDma'} \subseteq Seq(PbB)
        /\ pbCall' = [pbCall EXCEPT !.at = pbCall.at, !.left = left]
        /\ pbOsr' \o (pbFifo' \o left) = PbOnWay
    <3>. DEFINE f == pbFifo  l == pbCall.left
    <3>1. f \in Seq(PbB) /\ l \in Seq(PbB) /\ pbOsr \in Seq(PbB) /\ pbDma \in Seq(PbB)
      BY <1>0 DEF PbTyped
    <3>2. CASE PbPut
      <4>1. l # <<>> /\ pbFifo' = Append(f, Head(l)) /\ left = Tail(l) /\ pbOsr' = pbOsr
            /\ pbCall' = [pbCall EXCEPT !.left = Tail(l)]
        BY <2>2, <3>2 DEF PbPut
      <4>2. Head(l) \in PbB /\ Tail(l) \in Seq(PbB) /\ Append(f, Head(l)) \in Seq(PbB)
        BY <3>1, <4>1, HeadTailProperties, AppendProperties
      <4>3. Append(f, Head(l)) \o Tail(l) = f \o l
        <5>1. PICK h \in PbB, t \in Seq(PbB) : h = Head(l) /\ t = Tail(l)
          BY <4>2
        <5>2. <<h>> \in Seq(PbB) /\ Append(f, h) = f \o <<h>>
          BY <3>1, <5>1, AppendIsConcat
        <5>3. <<h>> \o t = l
          BY <3>1, <4>1, <5>1
        <5>4. PICK g \in Seq(PbB), k \in Seq(PbB) : g = f /\ k = <<h>>
          BY <3>1, <5>2
        <5>5. (g \o k) \o t = g \o (k \o t)
          <6>1. g \in Seq(PbB) /\ k \in Seq(PbB) /\ t \in Seq(PbB)
            BY <5>1, <5>4
          <6> QED BY <6>1, ConcatAssociative
        <5> QED BY <5>1, <5>2, <5>3, <5>4, <5>5
      <4>4. pbCall' = [pbCall EXCEPT !.at = pbCall.at, !.left = left]
        BY <1>0, <4>1 DEF PbTyped
      <4> QED BY <2>1, <3>1, <4>1, <4>2, <4>3, <4>4 DEF PbOnWay
    <3>3. CASE PbPull /\ ~PbPut
      <4>1. f # <<>> /\ pbOsr = <<>> /\ pbOsr' = <<Head(f)>> /\ pbFifo' = Tail(f) /\ left = l
            /\ pbCall' = pbCall
        BY <2>2, <3>3 DEF PbPull
      <4>2. Head(f) \in PbB /\ Tail(f) \in Seq(PbB) /\ <<Head(f)>> \in Seq(PbB)
        BY <3>1, <4>1, HeadTailProperties
      <4>3. <<Head(f)>> \o Tail(f) = f
        BY <3>1, <4>1, <4>2
      <4>4. <<Head(f)>> \o (Tail(f) \o l) = (<<Head(f)>> \o Tail(f)) \o l
        BY <3>1, <4>2, ConcatAssociative, SMTT(30)
      <4>5. <<>> \o (f \o l) = f \o l
        BY <3>1, ConcatProperties, ConcatEmptySeq
      <4>6. pbCall' = [pbCall EXCEPT !.at = pbCall.at, !.left = left]
        BY <1>0, <4>1 DEF PbTyped
      <4> QED BY <2>1, <3>1, <4>1, <4>2, <4>3, <4>4, <4>5, <4>6 DEF PbOnWay
    <3> QED BY <1>2, <3>2, <3>3
  <2>4. /\ pbCall.at # "idle" /\ pbCall.at \in PbPlaces /\ pbDone' \in BOOLEAN
        /\ pbPins' = [cs |-> pbPins'.cs, dc |-> pbPins'.dc, high |-> pbPins'.high]
    BY <1>0, <2>1 DEF PbTyped, PbPuts, PbPlaces
  <2>5. PbTyped' /\ PbClaims' /\ pbCall'.at = pbCall.at
    BY <2>1, <2>3, <2>4, PbSameCall
  <2>6. pbCall' # PbIdle
    BY <2>4, <2>5 DEF PbIdle
  <2>7. /\ pbCall'.left = left /\ pbCall'.data = pbCall.data /\ PbWhole' = PbWhole
        /\ pbCall'.cmd = pbCall.cmd
    BY <2>1, <2>3, <2>4, <2>6, PbSameCall
  <2>8. PbCarried'
    BY <1>0, <2>1, <2>5, <2>7 DEF PbCarried, PbPuts
  <2>9. PbOnWay' = PbOnWay
    BY <2>3, <2>7 DEF PbOnWay
  <2>10. PbLeft' = PbLeft
    BY <2>1, <2>5, <2>7, <2>9 DEF PbLeft, PbAs, PbPuts
  <2>11. PbAddsUp'
    BY <1>0, <2>1, <2>4, <2>5, <2>7, <2>10 DEF PbAddsUp, PbPlain
  <2> QED BY <2>5, <2>8, <2>11 DEF PbInv
<1>3. CASE PbOut
  <2>1. /\ pbCall.at \in PbPuts /\ pbPort = "rp2" /\ pbPins.cs /\ pbOsr' = <<>>
        /\ PbTakes(pbPins.dc, pbOsr)
        /\ UNCHANGED <<pbPort, pbObjs, pbHw, pbHost, pbCall, pbPins, pbTuned, pbFifo, pbDma, pbDone>>
    BY <1>0, <1>3 DEF PbOut, PbOwned, PbCarried, PbPuts
  <2>2. /\ pbCall.at # "idle" /\ pbCall.at \in PbPlaces /\ pbDone' \in BOOLEAN
        /\ pbPins' = [cs |-> pbPins'.cs, dc |-> pbPins'.dc, high |-> pbPins'.high]
        /\ pbCall' = [pbCall EXCEPT !.at = pbCall.at, !.left = pbCall.left]
        /\ {pbFifo', pbOsr', pbDma'} \subseteq Seq(PbB) /\ pbCall.left \in Seq(PbB)
    BY <1>0, <2>1, EmptySeq DEF PbTyped, PbPuts, PbPlaces
  <2>3. PbTyped' /\ PbClaims'
    BY <2>1, <2>2, PbSameCall
  <2>4. PbCarried'
    BY <1>0, <2>1 DEF PbCarried, PbPuts
  <2>5. PbAddsUp'
    <3>1. PbPlain
      BY <2>1 DEF PbPlain
    <3>2. pbSeen \in Seq(PbTold) /\ pbSeen \o PbLeft = PbWhole
      BY <2>2, <3>1, PbSums
    <3>3. PICK dc \in {0, 1} : dc = pbPins.dc
      BY <1>0, <2>1 DEF PbCarried, PbPuts
    <3>4. PICK rest \in Seq(PbB) : rest = pbFifo \o pbCall.left
      BY <1>0, ConcatProperties DEF PbTyped
    <3>5. pbOsr \in Seq(PbB) /\ PbOnWay = pbOsr \o rest /\ PbOnWay' = <<>> \o rest
      BY <1>0, <2>1, <3>4 DEF PbTyped, PbOnWay
    <3>6. PbOnWay' = rest
      BY <3>5, ConcatEmptySeq
    <3>7. PICK u \in Seq(PbTold), v \in Seq(PbTold) :
              u = PbAs(dc, pbOsr) /\ v = PbAs(dc, rest) /\ PbAs(dc, PbOnWay) = u \o v
      BY <3>5, PbAsIs, PbAsJoins
    <3>8. pbSeen' = pbSeen \o u
      BY <2>1, <3>3, <3>7 DEF PbTakes, PbAs
    <3>9. pbSeen' \in Seq(PbTold)
      BY <3>2, <3>7, <3>8, ConcatProperties
    <3>10. PICK w \in Seq(PbTold) : w = PbAs(1, pbCall.data)
      BY <1>0, PbWholeIs
    <3>11. (pbSeen \o u) \o v = pbSeen \o (u \o v)
      <4>1. pbSeen \in Seq(PbTold) /\ u \in Seq(PbTold) /\ v \in Seq(PbTold)
        BY <3>2, <3>7
      <4> QED BY <4>1, ConcatAssociative
    <3>12. PbWhole' = PbWhole
      BY <2>1 DEF PbWhole, PbCmdSaid, PbAs
    <3>13. CASE pbCall.at = "cmdPuts"
      <4>1. dc = 0
        BY <1>0, <3>3, <3>13 DEF PbCarried
      <4>2. PbLeft = (u \o v) \o w /\ PbLeft' = v \o w
        BY <2>1, <3>6, <3>7, <3>10, <3>13, <4>1 DEF PbLeft, PbAs
      <4>3. (u \o v) \o w = u \o (v \o w) /\ v \o w \in Seq(PbTold)
        BY <3>7, <3>10, ConcatAssociative, ConcatProperties
      <4>4. (pbSeen \o u) \o (v \o w) = pbSeen \o (u \o (v \o w))
        <5>1. PICK x \in Seq(PbTold) : x = v \o w
          BY <4>3
        <5>2. pbSeen \in Seq(PbTold) /\ u \in Seq(PbTold) /\ x \in Seq(PbTold)
          BY <3>2, <3>7, <5>1
        <5>3. (pbSeen \o u) \o x = pbSeen \o (u \o x)
          BY <5>2, ConcatAssociative
        <5> QED BY <5>1, <5>3
      <4> QED BY <2>1, <2>2, <3>2, <3>8, <3>9, <3>12, <4>2, <4>3, <4>4 DEF PbAddsUp
    <3>14. CASE pbCall.at = "dataPuts"
      <4>1. dc = 1
        BY <1>0, <3>3, <3>14 DEF PbCarried
      <4>2. PbLeft = u \o v /\ PbLeft' = v
        BY <2>1, <3>6, <3>7, <3>14, <4>1 DEF PbLeft, PbAs
      <4> QED BY <2>1, <2>2, <3>2, <3>8, <3>9, <3>11, <3>12, <4>2 DEF PbAddsUp
    <3> QED BY <2>1, <3>13, <3>14 DEF PbPuts
  <2> QED BY <2>3, <2>4, <2>5 DEF PbInv
<1> QED BY <1>1, <1>2, <1>3

\* The PIO is drained, and the call goes on; or it has said it all.
LEMMA PbGoes ==
    ASSUME PbInv, ~PbSlow, PbDrained \/ PbEnds
    PROVE  PbInv'
<1>0. PbTyped /\ PbClaims /\ PbCarried /\ PbAddsUp
  BY DEF PbInv
<1>1. PICK to : to = IF PbDrained
                     THEN IF pbCall.at \in {"cmd", "cmdPuts"} /\ pbCall.data # <<>> THEN "data" ELSE "end"
                     ELSE "said"
  OBVIOUS
<1>2. /\ pbCall.at \in PbPuts \cup {"end"}
      /\ PbDrained <=> pbCall.at \in PbPuts
      /\ pbCall' = [pbCall EXCEPT !.at = to]
      /\ PbDrained => pbPins' = pbPins /\ pbCall.left = <<>> /\ pbFifo = <<>> /\ pbOsr = <<>>
      /\ UNCHANGED <<pbPort, pbObjs, pbHw, pbHost, pbTuned, pbFifo, pbOsr, pbDma, pbDone, pbSeen>>
      /\ pbPins' = [cs |-> pbPins'.cs, dc |-> pbPins'.dc, high |-> pbPins'.high]
  <2>1. CASE PbDrained
    BY <1>0, <1>1, <2>1 DEF PbDrained, PbGoesOn, PbOn, PbOwned, PbWire, PbPuts, PbTyped
  <2>2. CASE PbEnds /\ ~PbDrained
    BY <1>0, <1>1, <2>2 DEF PbEnds, PbOn, PbOwned, PbPuts, PbTyped
  <2> QED BY <2>1, <2>2
<1>3. /\ pbCall.left \in Seq(PbB) /\ to \in PbPlaces /\ to \in {"data", "end", "said"}
      /\ pbCall' = [pbCall EXCEPT !.at = to, !.left = pbCall.left]
      /\ {pbFifo', pbOsr', pbDma'} \subseteq Seq(PbB) /\ pbDone' \in BOOLEAN
      /\ pbCall.at # "idle"
  <2>1. pbCall' = [pbCall EXCEPT !.at = to, !.left = pbCall.left]
    BY <1>0, <1>2 DEF PbTyped
  <2> QED BY <1>0, <1>1, <1>2, <2>1 DEF PbTyped, PbPlaces, PbPuts
<1>4. PbTyped' /\ PbClaims' /\ pbCall'.at = to
  BY <1>2, <1>3, PbSameCall
<1>5. pbCall' # PbIdle
  BY <1>3, <1>4 DEF PbIdle
<1>6. /\ pbCall'.left = pbCall.left /\ pbCall'.data = pbCall.data /\ PbWhole' = PbWhole
      /\ pbCall'.cmd = pbCall.cmd
  BY <1>2, <1>3, <1>5, PbSameCall
<1>7. PbCarried'
  <2>1. ~pbDone
    BY <1>0, <1>2 DEF PbCarried, PbPuts
  <2>2. pbCall.data # <<>> => pbDma = <<>>
    BY <1>0, <1>2 DEF PbCarried, PbPuts
  <2>3. pbFifo = <<>> /\ pbOsr = <<>> /\ pbCall.left = <<>>
    BY <1>0, <1>2 DEF PbCarried, PbPuts
  <2>4. to # "said" /\ pbPort # "esp32" => pbPins'.cs
    <3>1. to # "said" => PbDrained
      BY <1>1
    <3>2. PbDrained => pbPort # "esp32" /\ pbPins' = pbPins /\ pbCall.at \notin {"idle", "said"}
      BY <1>0, <1>2 DEF PbCarried, PbPuts
    <3> QED BY <1>0, <3>1, <3>2 DEF PbCarried
  <2> QED BY <1>0, <1>2, <1>3, <1>4, <1>6, <2>1, <2>2, <2>3, <2>4 DEF PbCarried, PbPuts
<1>8. PbLeft' = PbLeft
  <2>1. CASE pbCall.at = "end"
    <3>1. to = "said"
      BY <1>1, <1>2, <2>1 DEF PbPuts
    <3> QED BY <1>4, <2>1, <3>1 DEF PbLeft
  <2>2. CASE pbCall.at \in PbPuts
    <3>1. PbOnWay = <<>> /\ PbDrained
      <4>1. <<>> \o (<<>> \o <<>>) = <<>>
        BY EmptySeq, ConcatEmptySeq
      <4> QED BY <1>2, <2>2, <4>1 DEF PbOnWay
    <3>2. PbAs(0, PbOnWay) = <<>> /\ PbAs(1, PbOnWay) = <<>>
      BY <3>1, PbAsFew
    <3>3. PbLeft' = IF to = "data" THEN PbAs(1, pbCall.data) ELSE <<>>
      BY <1>3, <1>4, <1>6 DEF PbLeft, PbAs
    <3>4. CASE pbCall.at = "cmdPuts"
      <4>1. PbLeft = PbAs(1, pbCall.data)
        BY <1>0, <3>2, <3>4, PbWholeIs, ConcatEmptySeq DEF PbLeft
      <4>2. to # "data" => PbAs(1, pbCall.data) = <<>>
        BY <1>1, <3>1, <3>4, PbAsFew
      <4> QED BY <3>3, <4>1, <4>2
    <3>5. CASE pbCall.at = "dataPuts"
      <4>1. PbLeft = <<>> /\ to = "end"
        BY <1>1, <3>1, <3>2, <3>5 DEF PbLeft
      <4> QED BY <3>3, <4>1
    <3> QED BY <2>2, <3>4, <3>5 DEF PbPuts
  <2> QED BY <1>2, <2>1, <2>2
<1>9. PbAddsUp'
  BY <1>0, <1>2, <1>3, <1>4, <1>6, <1>8 DEF PbAddsUp, PbPlain
<1> QED BY <1>4, <1>7, <1>9 DEF PbInv

\* Every step keeps it.
LEMMA PbSteps ==
    ASSUME PbInv, ~PbSlow, ~PbLate, ~PbLeaky, ~PbOld, [PbNext]_pbVars
    PROVE  PbInv'
<1>1. CASE UNCHANGED pbVars
  BY <1>1, ZenonT(60) DEF pbVars, PbInv, PbTyped, PbClaims, PbCarried, PbAddsUp, PbPlain, PbLeft, PbWhole,
              PbCmdSaid, PbOnWay, PbAs
<1>2. CASE \/ PbMake \/ PbSoftReset \/ PbOthers
           \/ \E stage \in PbFailures : PbMakeFails(stage)
           \/ \E o \in DOMAIN pbObjs : PbDeinit(o)
  BY <1>2, PbHolds
<1>3. ASSUME NEW o \in DOMAIN pbObjs, NEW cmd \in PbBytes \cup {PbNoCommand}, NEW len \in PbLens,
             NEW data \in [1 .. len -> PbBytes], PbSend(o, cmd, data)
      PROVE  PbInv'
  <2>1. len \in Nat
    BY PbAssumption
  <2>2. data \in Seq(PbBytes)
    BY <2>1
  <2> QED BY <1>3, <2>2, PbSends
<1>4. CASE PbWrites
  BY <1>4, PbWritten
<1>5. CASE PbRaises \/ PbTimesOut \/ PbReturns
  BY <1>5, PbCallEnds
<1>6. CASE PbQueues \/ PbDmaEnds \/ PbWaited
  BY <1>6, PbTransferred
<1>7. CASE PbTransfers \/ PbPut \/ PbPull \/ PbOut
  BY <1>7, PbPiped
<1>8. CASE PbDrained \/ PbEnds
  BY <1>8, PbGoes
<1> QED BY <1>1, <1>2, <1>3, <1>4, <1>5, <1>6, <1>7, <1>8 DEF PbNext

\* Where the PIO keeps up, a transfer ends in its second, no construction fails
\* past its claim and a program uses its newest bus: when send() returns the panel
\* has taken the command and the data, once each and in order; what is queued is
\* the send's that waits for it; and what is claimed can be given up.
LEMMA PbHoldsOn ==
    ~PbSlow /\ ~PbLate /\ ~PbLeaky /\ ~PbOld => (PbSpec => []PbSafe)
<1>. SUFFICES ASSUME ~PbSlow, ~PbLate, ~PbLeaky, ~PbOld PROVE PbSpec => []PbSafe
  OBVIOUS
<1>1. PbInit => PbInv
  BY PbBegins
<1>2. PbInv /\ [PbNext]_pbVars => PbInv'
  BY PbSteps
<1> QED BY <1>1, <1>2, PbAgrees, PTL DEF PbSpec

-----------------------------------------------------------------------------
\* Each display's hardware and each bus as its object has it: nothing is lost, taken twice
\* or read once freed, what is lit is what was drawn, what is on screen is not painted, and
\* a panel takes what it is told, in order. So long as a program keeps and uses its newest
\* display and bus, the collector does not run in a matrix's construction, no bus's fails
\* past its claim, and transfers end in time and well. (mod_dotclockframebuffer.c,
\* mod_mipidsi.c, picodvi_rp2350.c, mod_rgbmatrix.c, mod_spibus.c, mod_i80bus.c,
\* mod_qspibus.c)
THEOREM PanelsKeepTheirHardware ==
    ASSUME RpKeepsOld = FALSE, ~DpStale, PvKeeps, RmKeeps, ~RmGcNow, ~RmOld, ~RmViews,
           ~PbSlow, ~PbLate, ~PbLeaky, ~PbOld, ~QbErrs, ~QbLate
    PROVE  RpSpec /\ DpSpec /\ PvSpec /\ RmSpec /\ PbSpec /\ QbSpec => []PanelsSafe
<1>1. (RpSpec => []RpSafe) /\ (DpSpec => []DpSafe) /\ (PvSpec => []PvSafe)
  BY RpPaintsOffScreen, DpKeepsTheHost, PvReadsWhatIsThere
<1>2. RmSpec => []RmSafe
  BY RmKeepsTheMatrix
<1>3. (PbSpec => []PbSafe) /\ (QbSpec => []QbSafe)
  BY PbHoldsOn, QbTellsInOrder
<1>4. RpSafe /\ DpSafe /\ PvSafe /\ RmSafe /\ PbSafe /\ QbSafe => PanelsSafe
  BY DEF PanelsSafe
<1> QED BY <1>1, <1>2, <1>3, <1>4, PTL
=============================================================================
