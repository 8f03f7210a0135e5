---------------------------- MODULE MdnsWindows -----------------------------
(***************************************************************************)
(* mdns on Windows: the memory the program and Windows' DNS-SD service     *)
(* share. Windows calls back on a thread of its own: once for each         *)
(* registration and withdrawal it took, once for each resolve, and for a   *)
(* browse until it is cancelled. Advertising and find() share nothing, and *)
(* a behaviour is of one of them.                                          *)
(* External: Windows.                                                      *)
(***************************************************************************)
EXTENDS Naturals, Sequences, FiniteSets

CONSTANTS
    MwTypes,    \* service types
    MwSlots,    \* 1 .. MDNS_MAX_SERVICES
    MwRegs,     \* what calloc gives for a registration, each once
    MwHits,     \* instances a browse may find
    MwNone,
    MwLate,     \* whether a registration may take more than publish()'s 5 s
    MwBreak,    \* whether Ctrl-C may come while a name change waits
    MwRefuses,  \* whether a changed name may be one Windows makes nothing of
    MwCalls,    \* bound: calls of the program
    MwDrops     \* bound: resolves answered and not yet let go

ASSUME MwAssumption ==
    /\ Cardinality(MwSlots) \in Nat /\ MwSlots = 1 .. Cardinality(MwSlots)
    /\ {MwCalls, MwDrops} \subseteq Nat /\ MwNone \notin MwRegs
    /\ {MwLate, MwBreak, MwRefuses} \subseteq BOOLEAN

VARIABLES
    mwHalf,     \* "services" or "find"
    mwLive,     \* whether the Server is
    mwReg,      \* each reg_t: mem, type, done, failed (status), req (its context)
    mwOwed,     \* the calls back Windows owes to each
    mwSlot,     \* g.regs
    mwTodo,     \* what is left of the program's call, a step at a time
    mwRefs,     \* the browse_t's refs
    mwMem,      \* and its memory: "unused", "held", "freed"
    mwHolds,    \* find() and the browse: which has yet to let go of it
    mwFound, mwResolved, mwResolving,   \* its hits
    mwFlight,   \* the resolves Windows has
    mwDrops,    \* calls back that have left the critical section
    mwCount     \* calls so far

mwServices == <<mwLive, mwReg, mwOwed, mwSlot, mwTodo>>
mwHitVars == <<mwFound, mwResolved, mwResolving, mwFlight>>
mwFinds == <<mwRefs, mwMem, mwHolds, mwHitVars, mwDrops>>
mwVars == <<mwHalf, mwServices, mwFinds, mwCount>>

MwCallbacks == {"register", "deregister"}
MwUnused == [mem |-> "unused", type |-> MwNone, done |-> FALSE, failed |-> FALSE,
             req |-> MwNone]

MwInit ==
    /\ mwHalf \in {"services", "find"}
    /\ mwLive = FALSE /\ mwReg = [r \in MwRegs |-> MwUnused]
    /\ mwOwed = [r \in MwRegs |-> [c \in MwCallbacks |-> 0]]
    /\ mwSlot = [s \in MwSlots |-> MwNone]
    /\ mwTodo = <<>>
    /\ mwRefs = 0 /\ mwMem = "unused" /\ mwHolds = {}
    /\ mwFound = {} /\ mwResolved = {} /\ mwResolving = {} /\ mwFlight = {}
    /\ mwDrops = 0 /\ mwCount = 0

MwCall == mwTodo = <<>> /\ mwCount < MwCalls /\ mwCount' = mwCount + 1
-----------------------------------------------------------------------------
\* Advertising. A call is the steps it has left; an exception drops them.

MwWithdraw(r) == <<<<"withdraw", r>>, <<"withdrawn", r>>>>
MwPublish(call, r) == <<<<"publish", r, call>>, <<"published", r, call>>>>

MwUsed == {s \in MwSlots : mwSlot[s] # MwNone}
MwOwn(type) == {s \in MwUsed : mwReg[mwSlot[s]].type = type}
MwLowest(S) == CHOOSE s \in S : \A t \in S : s <= t

\* mdns_port_construct: the slots of the Server before, whatever they hold.
MwConstruct ==
    /\ mwHalf = "services" /\ ~mwLive /\ MwCall
    /\ mwLive' = TRUE /\ mwSlot' = [s \in MwSlots |-> MwNone]
    /\ UNCHANGED <<mwHalf, mwReg, mwOwed, mwTodo, mwFinds>>

\* mdns_port_advertise: the service's own slot is emptied, or a free one taken.
MwAdvertise(type, r) ==
    /\ mwLive /\ MwCall /\ mwReg[r].mem = "unused"
    /\ mwReg' = [mwReg EXCEPT ![r].mem = "held", ![r].type = type]
    /\ \/ \E s \in MwOwn(type) :
            /\ mwSlot' = [mwSlot EXCEPT ![s] = MwNone]
            /\ mwTodo' = MwWithdraw(mwSlot[s]) \o MwPublish("advertise", r)
                         \o <<<<"place", r, s>>>>
       \/ /\ MwOwn(type) = {} /\ MwSlots # MwUsed /\ UNCHANGED mwSlot
          /\ mwTodo' = MwPublish("advertise", r)
                       \o <<<<"place", r, MwLowest(MwSlots \ MwUsed)>>>>
    /\ UNCHANGED <<mwHalf, mwLive, mwOwed, mwFinds>>

\* mdns_port_set_instance_name: republish_all() goes over the slots.
MwRename ==
    /\ mwLive /\ MwCall /\ MwUsed # {}
    /\ mwTodo' = [s \in MwSlots |-> <<"renew", s>>]
    /\ UNCHANGED <<mwHalf, mwLive, mwReg, mwOwed, mwSlot, mwFinds>>

\* One of them: withdrawn, and a copy of it published, which names r's request
\* until publish() writes its own.
MwRenew(fresh) ==
    /\ mwTodo # <<>> /\ mwTodo[1][1] = "renew"
    /\ LET s == mwTodo[1][2]
           r == mwSlot[s]
       IN  IF r = MwNone
           THEN mwTodo' = Tail(mwTodo) /\ UNCHANGED mwReg
           ELSE /\ mwReg[fresh].mem = "unused"
                /\ mwReg' = [mwReg EXCEPT ![fresh] = mwReg[r]]
                /\ mwTodo' = MwWithdraw(r) \o <<<<"place", fresh, s>>>>
                             \o MwPublish("rename", fresh) \o Tail(mwTodo)
    /\ UNCHANGED <<mwHalf, mwLive, mwOwed, mwSlot, mwFinds, mwCount>>

\* mdns_port_deinit.
MwDeinit ==
    /\ mwLive /\ MwCall /\ mwLive' = FALSE
    /\ mwTodo' = [s \in MwSlots |-> <<"drop", s>>]
    /\ UNCHANGED <<mwHalf, mwReg, mwOwed, mwSlot, mwFinds>>

MwDrop ==
    /\ mwTodo # <<>> /\ mwTodo[1][1] = "drop"
    /\ LET s == mwTodo[1][2] IN
       /\ mwTodo' = (IF s \in MwUsed THEN MwWithdraw(mwSlot[s]) ELSE <<>>) \o Tail(mwTodo)
       /\ mwSlot' = [mwSlot EXCEPT ![s] = MwNone]
    /\ UNCHANGED <<mwHalf, mwLive, mwReg, mwOwed, mwFinds, mwCount>>

\* withdraw(): Windows takes the request and owes a call back, or refuses it.
MwAsksBack ==
    /\ mwTodo # <<>> /\ mwTodo[1][1] = "withdraw"
    /\ LET r == mwTodo[1][2] IN
       /\ mwReg' = [mwReg EXCEPT ![r].done = FALSE]
       /\ \/ mwOwed' = [mwOwed EXCEPT ![mwReg[r].req]["deregister"] = @ + 1]
          \/ UNCHANGED mwOwed
    /\ mwTodo' = Tail(mwTodo)
    /\ UNCHANGED <<mwHalf, mwLive, mwSlot, mwFinds, mwCount>>

\* Mutant: freed when the wait is over.
MwMayFreeAlways(r) == TRUE

\* After the wait: freed when Windows has called, otherwise left to it.
MwMayFree(r) == mwReg[r].done

MwWithdrawn ==
    /\ mwTodo # <<>> /\ mwTodo[1][1] = "withdrawn"
    /\ LET r == mwTodo[1][2] IN
       mwReg' = [mwReg EXCEPT ![r].mem = IF MwMayFree(r) THEN "freed" ELSE "left"]
    /\ mwTodo' = Tail(mwTodo)
    /\ UNCHANGED <<mwHalf, mwLive, mwOwed, mwSlot, mwFinds, mwCount>>

\* What an exception in publish() leaves: advertise() frees the registration
\* when Windows is done with it, and a name change leaves it in its slot.
MwRaises(r, call) ==
    /\ mwTodo' = <<>>
    /\ mwReg' = [mwReg EXCEPT ![r].mem =
          IF call = "rename" THEN "held" ELSE IF mwReg[r].done THEN "freed" ELSE "left"]

\* publish(): Windows makes nothing of the name, refuses, or takes the request.
MwPublishes ==
    /\ mwTodo # <<>> /\ mwTodo[1][1] = "publish"
    /\ LET r == mwTodo[1][2]
           call == mwTodo[1][3]
           own == [mwReg[r] EXCEPT !.req = r, !.done = FALSE, !.failed = FALSE]
       IN  \/ /\ call = "rename" => MwRefuses
              /\ MwRaises(r, call) /\ UNCHANGED mwOwed
           \/ /\ mwTodo' = <<>> /\ UNCHANGED mwOwed
              /\ mwReg' = [mwReg EXCEPT ![r] =
                    [own EXCEPT !.mem = IF call = "rename" THEN "held" ELSE "left"]]
           \/ /\ mwReg' = [mwReg EXCEPT ![r] = own] /\ mwTodo' = Tail(mwTodo)
              /\ mwOwed' = [mwOwed EXCEPT ![r]["register"] = @ + 1]
    /\ UNCHANGED <<mwHalf, mwLive, mwSlot, mwFinds, mwCount>>

MwPublished ==
    /\ mwTodo # <<>> /\ mwTodo[1][1] = "published"
    /\ LET r == mwTodo[1][2] IN
       /\ mwReg[r].done \/ MwLate
       /\ IF mwReg[r].done /\ mwReg[r].failed
          THEN MwRaises(r, mwTodo[1][3])
          ELSE mwTodo' = Tail(mwTodo) /\ UNCHANGED mwReg
    /\ UNCHANGED <<mwHalf, mwLive, mwOwed, mwSlot, mwFinds, mwCount>>

MwPlace ==
    /\ mwTodo # <<>> /\ mwTodo[1][1] = "place"
    /\ mwSlot' = [mwSlot EXCEPT ![mwTodo[1][3]] = mwTodo[1][2]]
    /\ mwTodo' = Tail(mwTodo)
    /\ UNCHANGED <<mwHalf, mwLive, mwReg, mwOwed, mwFinds, mwCount>>

\* mp_handle_pending() raises in wait_for(): what the call held is left, but
\* advertise() frees what Windows is done with.
MwHeldBack == {mwTodo[i][2] : i \in {j \in 1 .. Len(mwTodo) :
                   mwTodo[j][1] \in {"withdrawn", "published", "place"}}}
MwRenaming == \E i \in 1 .. Len(mwTodo) :
    mwTodo[i][1] = "published" /\ mwTodo[i][3] = "rename"
MwCtrlC ==
    /\ mwTodo # <<>> /\ mwTodo[1][1] \in {"withdrawn", "published"}
    /\ MwRenaming => MwBreak
    /\ mwTodo' = <<>>
    /\ mwReg' = [r \in MwRegs |->
          IF r \notin MwHeldBack \/ \E s \in MwUsed : mwSlot[s] = r THEN mwReg[r]
          ELSE [mwReg[r] EXCEPT !.mem =
                  IF mwTodo[1][1] = "published" /\ mwReg[r].done THEN "freed" ELSE "left"]]
    /\ UNCHANGED <<mwHalf, mwLive, mwOwed, mwSlot, mwFinds, mwCount>>

\* register_done(), for either: it writes to the registration.
MwRegisterDone(r, c) ==
    /\ mwOwed[r][c] > 0 /\ mwOwed' = [mwOwed EXCEPT ![r][c] = @ - 1]
    /\ \E failed \in BOOLEAN :
         mwReg' = [mwReg EXCEPT ![r].done = TRUE, ![r].failed = failed]
    /\ UNCHANGED <<mwHalf, mwLive, mwSlot, mwTodo, mwFinds, mwCount>>
-----------------------------------------------------------------------------
\* find(): the browse_t is counted, one for find() and one for each request.

MwRelease(holds, flight, drops) ==
    /\ mwRefs' = mwRefs - 1
    /\ mwMem' = IF mwRefs = 1 THEN "freed" ELSE mwMem
    /\ mwHolds' = holds /\ mwFlight' = flight /\ mwDrops' = drops

\* The browse is taken, or both references go and find() raises.
MwFindBegins ==
    /\ mwHalf = "find" /\ mwMem = "unused" /\ MwCall
    /\ \/ mwMem' = "held" /\ mwRefs' = 2 /\ mwHolds' = {"find", "browse"}
       \/ mwMem' = "freed" /\ mwRefs' = 0 /\ UNCHANGED mwHolds
    /\ UNCHANGED <<mwHalf, mwServices, mwHitVars, mwDrops>>

\* One round of find(), in the critical section: each hit that is neither
\* resolved nor being resolved is asked for; one refused is given up, and one
\* there is no memory for is left to the next round.
MwToAsk == mwFound \ (mwResolved \cup mwResolving)
MwRound(asked, refused) ==
    /\ "find" \in mwHolds /\ asked \cup refused # {}
    /\ asked \subseteq MwToAsk /\ refused \subseteq MwToAsk \ asked
    /\ mwRefs' = mwRefs + Cardinality(asked)
    /\ mwFlight' = mwFlight \cup asked /\ mwResolving' = mwResolving \cup asked
    /\ mwResolved' = mwResolved \cup refused
    /\ UNCHANGED <<mwHalf, mwServices, mwMem, mwHolds, mwFound, mwDrops, mwCount>>

\* Time is up, or Ctrl-C: the requests are cancelled, which only hastens their
\* calls back, and find() lets go.
MwFindEnds ==
    /\ "find" \in mwHolds /\ MwRelease(mwHolds \ {"find"}, mwFlight, mwDrops)
    /\ UNCHANGED <<mwHalf, mwServices, mwFound, mwResolved, mwResolving, mwCount>>

\* browse_cb(): an answer, perhaps with the address in it; or the browse's end.
MwBrowseCb(h, address) ==
    /\ "browse" \in mwHolds
    /\ mwFound' = mwFound \cup {h}
    /\ mwResolved' = IF address THEN mwResolved \cup {h} ELSE mwResolved
    /\ UNCHANGED <<mwHalf, mwServices, mwRefs, mwMem, mwHolds, mwResolving, mwFlight,
                   mwDrops, mwCount>>

MwBrowseEnds ==
    /\ "browse" \in mwHolds /\ MwRelease(mwHolds \ {"browse"}, mwFlight, mwDrops)
    /\ UNCHANGED <<mwHalf, mwServices, mwFound, mwResolved, mwResolving, mwCount>>

\* resolve_cb(): in the critical section, and then it lets go.
MwResolveCb(h, ok) ==
    /\ h \in mwFlight /\ mwDrops < MwDrops /\ mwFlight' = mwFlight \ {h} /\ mwDrops' = mwDrops + 1
    /\ mwResolved' = IF ok THEN mwResolved \cup {h} ELSE mwResolved
    /\ mwResolving' = mwResolving \ {h}
    /\ UNCHANGED <<mwHalf, mwServices, mwRefs, mwMem, mwHolds, mwFound, mwCount>>

MwResolveLetsGo ==
    /\ mwDrops > 0 /\ MwRelease(mwHolds, mwFlight, mwDrops - 1)
    /\ UNCHANGED <<mwHalf, mwServices, mwFound, mwResolved, mwResolving, mwCount>>

MwNext ==
    \/ MwConstruct
    \/ \E type \in MwTypes, r \in MwRegs : MwAdvertise(type, r)
    \/ MwRename \/ (\E r \in MwRegs : MwRenew(r)) \/ MwDeinit \/ MwDrop
    \/ MwAsksBack \/ MwWithdrawn \/ MwPublishes \/ MwPublished \/ MwPlace \/ MwCtrlC
    \/ \E r \in MwRegs, c \in MwCallbacks : MwRegisterDone(r, c)
    \/ MwFindBegins \/ MwFindEnds
    \/ \E asked, refused \in SUBSET MwHits : MwRound(asked, refused)
    \/ \E h \in MwHits, yes \in BOOLEAN : MwBrowseCb(h, yes) \/ MwResolveCb(h, yes)
    \/ MwBrowseEnds \/ MwResolveLetsGo

MwSpec == MwInit /\ [][MwNext]_mwVars
-----------------------------------------------------------------------------
\* A registration Windows will call back on is not freed, and one in a slot is
\* there, with the request that names it: what a withdrawal hands to Windows.
MwFreedUnused ==
    /\ \A r \in MwRegs : mwReg[r].mem = "freed" => \A c \in MwCallbacks : mwOwed[r][c] = 0
    /\ mwTodo = <<>> => \A s \in MwUsed : mwReg[mwSlot[s]].mem = "held"
                                    /\ mwReg[mwSlot[s]].req = mwSlot[s]

\* No service has two slots, between calls.
MwOneEach == mwTodo = <<>> => \A type \in MwTypes : Cardinality(MwOwn(type)) <= 1

\* The browse is there for as long as any of its holders, and no longer.
MwCounted ==
    /\ mwRefs = Cardinality(mwHolds) + Cardinality(mwFlight) + mwDrops
    /\ mwMem = "held" <=> mwRefs > 0

\* A hit's one request is with Windows while the hit says so, and never twice.
MwOneRequest == mwResolving = mwFlight

\* mdns_windows.c: nothing Windows still holds is freed, by a withdrawal, a
\* name change, Ctrl-C or find()'s end, and nothing is asked for twice.
MwSafe == MwFreedUnused /\ MwOneEach /\ MwCounted /\ MwOneRequest
=============================================================================
