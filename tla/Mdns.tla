------------------------------- MODULE Mdns --------------------------------
(***************************************************************************)
(* mdns on unix (mdns_posix.c under mod_mdns.c): the responder, a thread   *)
(* on port 5353 that announces the Server's services and answers for them, *)
(* and find(), which asks from that port while the thread gathers for it.  *)
(* What the interpreter does with the lock is one step; find() lets the    *)
(* GIL go, so any other call may run inside it. External: who has 5353,    *)
(* the packets that come, and a listener that hears all that is sent.      *)
(***************************************************************************)
EXTENDS Naturals, FiniteSets

CONSTANTS
    MdTypes, MdPorts,   \* service types with their protocols; ports
    MdHosts, MdInsts,   \* host and instance names
    MdSlots,            \* MDNS_MAX_SERVICES of them
    MdBig,              \* services with long TXT records that PKT_MAX has room for
    MdFinders,          \* Python threads that may find()
    MdNone,
    MdCalls, MdPackets  \* bounds: calls of the API; packets and signals that come

ASSUME MdAssumption ==
    /\ MdHosts # {} /\ MdInsts # {}
    /\ MdNone \notin MdFinders
    /\ MdNone \notin [type : MdTypes, port : MdPorts, big : BOOLEAN]

VARIABLES
    mdUp,       \* mdns_active: there is a live Server
    mdPy,       \* the interpreter: "idle", or in responder_stop "stops", "wakes", "joins"
    mdRun,      \* g.running
    mdThread,   \* the thread: at "none", "top", "polls", "timed", "ready" or
                \* "exited"; whether it waits for an announcement; what it woke to
    mdPipe,     \* a wake-up is in the pipe
    mdSvc,      \* g.svcs
    mdName,     \* [host, inst]
    mdLeft,     \* announce_left
    mdCollect,  \* whose records g.collect points to
    mdFind,     \* every finder: its place, whether from 5353, the records it has
    mdHeard,    \* the listener's cache
    mdMuted,    \* history: a message was too long to send
    mdStarved,  \* history: ask() found no memory
    mdCount     \* calls, packets and signals so far

mdVars == <<mdUp, mdPy, mdRun, mdThread, mdPipe, mdSvc, mdName, mdLeft,
            mdCollect, mdFind, mdHeard, mdMuted, mdStarved, mdCount>>

\* What gethostname() names them.
MdComputers == CHOOSE n \in [host : MdHosts, inst : MdInsts] : TRUE

MdService == [type : MdTypes, port : MdPorts, big : BOOLEAN]
MdUsed(svc) == {s \in MdSlots : svc[s] # MdNone}
MdLive == mdThread.at # "none"     \* thread_live, and g.fd with it

\* What the records of a service tell a listener.
MdRecords(svc, name, which) ==
    {[type |-> svc[s].type, inst |-> name.inst, host |-> name.host,
      port |-> svc[s].port] : s \in MdUsed(svc) \cap which}

MdSame(r, q) == r.type = q.type /\ r.inst = q.inst

\* build_announce: all the records asked for in one message, or none of them.
MdFits(svc, which) == Cardinality({s \in MdUsed(svc) \cap which : svc[s].big}) <= MdBig

\* announce_locked: a unique record replaces what the listener had of its name.
MdAnnounced(heard, svc, name) ==
    LET said == MdRecords(svc, name, MdSlots)
    IN  IF ~MdLive \/ ~MdFits(svc, MdSlots) THEN heard
        ELSE {r \in heard : \A q \in said : ~MdSame(r, q)} \cup said

\* goodbye_locked(-1)
MdGoodbye(heard, svc, name) ==
    IF ~MdLive \/ ~MdFits(svc, MdSlots) THEN heard
    ELSE {r \in heard : \A q \in MdRecords(svc, name, MdSlots) : ~MdSame(r, q)}

MdAt(place) == [at |-> place, waits |-> FALSE, woken |-> FALSE, packet |-> "none"]

MdInit ==
    /\ mdUp = FALSE /\ mdPy = "idle" /\ mdRun = FALSE /\ mdPipe = FALSE
    /\ mdThread = MdAt("none")
    /\ mdSvc = [s \in MdSlots |-> MdNone]
    /\ mdName = MdComputers
    /\ mdLeft = 0 /\ mdCollect = MdNone
    /\ mdFind = [f \in MdFinders |-> [at |-> "idle", shared |-> FALSE, recs |-> {}]]
    /\ mdHeard = {} /\ mdMuted = FALSE /\ mdStarved = FALSE
    /\ mdCount = [calls |-> 0, packets |-> 0]

MdCall ==
    /\ mdPy = "idle" /\ mdCount.calls < MdCalls
    /\ mdCount' = [mdCount EXCEPT !.calls = @ + 1]

\* responder_start: nothing when the thread is there; it may not get 5353.
MdStarts(ok) ==
    IF MdLive \/ ~ok THEN UNCHANGED <<mdThread, mdRun, mdPipe>>
    ELSE /\ mdThread' = MdAt("top")
         /\ mdRun' = TRUE /\ mdPipe' = FALSE

\* wake_thread
MdWakes == mdPipe' = MdLive

\* Server(): one at a time; its names come from the computer's.
MdConstruct(ok) ==
    /\ MdCall /\ ~mdUp /\ mdUp' = TRUE
    /\ mdName' = MdComputers
    /\ mdSvc' = [s \in MdSlots |-> MdNone] /\ mdLeft' = 0
    /\ MdStarts(ok)
    /\ UNCHANGED <<mdPy, mdCollect, mdFind, mdHeard, mdMuted, mdStarved>>

\* deinit(), or the finaliser: goodbye to all, then responder_stop.
MdDeinit ==
    /\ MdCall /\ mdUp /\ mdUp' = FALSE
    /\ mdHeard' = MdGoodbye(mdHeard, mdSvc, mdName)
    /\ mdMuted' = (mdMuted \/ ~MdFits(mdSvc, MdSlots))
    /\ mdSvc' = [s \in MdSlots |-> MdNone] /\ mdLeft' = 0
    /\ mdPy' = IF MdLive THEN "stops" ELSE "idle"
    /\ UNCHANGED <<mdRun, mdThread, mdPipe, mdName, mdCollect, mdFind, mdStarved>>

\* Mutant: the wake-up goes first.
MdStopWakesFirst ==
    \/ /\ mdPy = "stops" /\ mdPipe' = TRUE /\ mdPy' = "wakes" /\ UNCHANGED mdRun
    \/ /\ mdPy = "wakes" /\ mdRun' = FALSE /\ mdPy' = "joins" /\ UNCHANGED mdPipe

\* responder_stop tells the thread, then wakes it.
MdStop ==
    \/ /\ mdPy = "stops" /\ mdRun' = FALSE /\ mdPy' = "wakes" /\ UNCHANGED mdPipe
    \/ /\ mdPy = "wakes" /\ mdPipe' = TRUE /\ mdPy' = "joins" /\ UNCHANGED mdRun

MdStopping ==
    MdStop /\ UNCHANGED <<mdUp, mdStarved, mdThread, mdSvc, mdName, mdLeft, mdCollect,
                          mdFind, mdHeard, mdMuted, mdCount>>

\* pthread_join comes back, and the socket and the pipe are closed.
MdJoined ==
    /\ mdPy = "joins" /\ mdThread.at = "exited"
    /\ mdPy' = "idle" /\ mdPipe' = FALSE
    /\ mdThread' = MdAt("none")
    /\ UNCHANGED <<mdUp, mdStarved, mdRun, mdSvc, mdName, mdLeft, mdCollect, mdFind,
                   mdHeard, mdMuted, mdCount>>

\* What follows every change: two announcements left, one at once, and the wake-up.
MdChanged(heard, svc, name) ==
    /\ mdLeft' = 2
    /\ mdHeard' = MdAnnounced(heard, svc, name)
    /\ MdWakes

MdSetHostname(h) ==
    /\ MdCall /\ mdUp
    /\ mdName' = [mdName EXCEPT !.host = h]
    /\ MdChanged(mdHeard, mdSvc, mdName')
    /\ mdMuted' = (mdMuted \/ ~MdFits(mdSvc, MdSlots))
    /\ UNCHANGED <<mdUp, mdStarved, mdPy, mdRun, mdThread, mdSvc, mdCollect, mdFind>>

\* Mutant: goodbye is said in the new name.
MdFarewellLate(heard, svc, old, new) == MdGoodbye(heard, svc, new)

\* The old instance names go before the new one comes.
MdFarewell(heard, svc, old, new) == MdGoodbye(heard, svc, old)

MdSetInstanceName(i) ==
    /\ MdCall /\ mdUp
    /\ mdName' = [mdName EXCEPT !.inst = i]
    /\ MdChanged(MdFarewell(mdHeard, mdSvc, mdName, mdName'), mdSvc, mdName')
    /\ mdMuted' = (mdMuted \/ ~MdFits(mdSvc, MdSlots))
    /\ UNCHANGED <<mdUp, mdStarved, mdPy, mdRun, mdThread, mdSvc, mdCollect, mdFind>>

\* A type's own slot, or a free one; none is an error, and changes nothing.
MdSlotFor(type) ==
    LET own == {s \in MdUsed(mdSvc) : mdSvc[s].type = type}
    IN  IF own # {} THEN own ELSE MdSlots \ MdUsed(mdSvc)

\* advertise_service() on a thread that runs; with none it starts one first,
\* and MdAdvertiseStarts is the call that had to.
MdAdvertise(v) ==
    /\ MdCall /\ mdUp /\ MdLive
    /\ \E s \in MdSlotFor(v.type) : mdSvc' = [mdSvc EXCEPT ![s] = v]
    /\ MdChanged(mdHeard, mdSvc', mdName)
    /\ mdMuted' = (mdMuted \/ ~MdFits(mdSvc', MdSlots))
    /\ UNCHANGED <<mdUp, mdStarved, mdPy, mdRun, mdThread, mdName, mdCollect, mdFind>>

\* 5353 has come free since the constructor. (Otherwise EADDRINUSE.)
MdAdvertiseStarts ==
    /\ mdPy = "idle" /\ mdUp /\ ~MdLive
    /\ MdStarts(TRUE)
    /\ UNCHANGED <<mdUp, mdStarved, mdPy, mdSvc, mdName, mdLeft, mdCollect, mdFind,
                   mdHeard, mdMuted, mdCount>>
-----------------------------------------------------------------------------
\* responder_thread

\* It looks at `running`, and with the lock at announce_left.
MdTop ==
    /\ mdThread.at = "top"
    /\ mdThread' = IF mdRun THEN [MdAt("polls") EXCEPT !.waits = mdLeft > 0]
                   ELSE MdAt("exited")
    /\ UNCHANGED <<mdUp, mdStarved, mdPy, mdRun, mdPipe, mdSvc, mdName, mdLeft, mdCollect,
                   mdFind, mdHeard, mdMuted, mdCount>>

\* poll() comes back, and `running` is looked at again.
MdPolled(to) ==
    /\ mdThread.at = "polls"
    /\ mdThread' = IF mdRun THEN to ELSE MdAt("exited")
    /\ UNCHANGED <<mdUp, mdStarved, mdPy, mdRun, mdPipe, mdSvc, mdName, mdLeft, mdCollect,
                   mdFind, mdHeard, mdMuted>>

MdTimeout ==
    /\ mdThread.waits /\ ~mdPipe
    /\ MdPolled(MdAt("timed")) /\ UNCHANGED mdCount

MdWoken ==
    /\ mdPipe
    /\ MdPolled([MdAt("ready") EXCEPT !.woken = TRUE])
    /\ UNCHANGED mdCount

MdPacket(kind) ==
    /\ mdCount.packets < MdPackets
    /\ MdPolled([MdAt("ready") EXCEPT !.woken = mdPipe, !.packet = kind])
    /\ mdCount' = [mdCount EXCEPT !.packets = @ + 1]

\* A signal ends the poll.
MdInterrupted ==
    /\ mdCount.packets < MdPackets
    /\ MdPolled(MdAt("top"))
    /\ mdCount' = [mdCount EXCEPT !.packets = @ + 1]

\* A second without news: announce, if that is still to be done.
MdRepeat ==
    /\ mdThread.at = "timed" /\ mdThread' = MdAt("top")
    /\ IF mdLeft > 0
       THEN /\ mdLeft' = mdLeft - 1
            /\ mdHeard' = MdAnnounced(mdHeard, mdSvc, mdName)
            /\ mdMuted' = (mdMuted \/ ~MdFits(mdSvc, MdSlots))
       ELSE UNCHANGED <<mdLeft, mdHeard, mdMuted>>
    /\ UNCHANGED <<mdUp, mdStarved, mdPy, mdRun, mdPipe, mdSvc, mdName, mdCollect, mdFind, mdCount>>

\* take_records: the kinds of records a message adds to what find() looks for.
MdMessage == SUBSET {"ptr", "srv", "a"}

\* handle_query: of a question about a service the listener hears the answer;
\* one from another port than 5353 is answered there.
MdAnswered(s) ==
    LET said == MdRecords(mdSvc, mdName, {s})
    IN  {r \in mdHeard : \A q \in said : ~MdSame(r, q)} \cup said

\* The wake-up is drained; a response goes to whoever gathers, a query is answered.
MdHandle ==
    /\ mdThread.at = "ready" /\ mdThread' = MdAt("top")
    /\ mdPipe' = IF mdThread.woken THEN FALSE ELSE mdPipe
    /\ \/ /\ mdThread.packet \in {"none", "legacy"} /\ UNCHANGED <<mdFind, mdHeard>>
       \/ /\ mdThread.packet = "response"
          /\ IF mdCollect = MdNone THEN UNCHANGED mdFind
             ELSE \E recs \in MdMessage :
                    mdFind' = [mdFind EXCEPT ![mdCollect].recs = @ \cup recs]
          /\ UNCHANGED mdHeard
       \/ /\ mdThread.packet = "query"
          /\ \E s \in MdSlots : mdHeard' = MdAnswered(s)
          /\ UNCHANGED mdFind
    /\ UNCHANGED <<mdUp, mdStarved, mdPy, mdRun, mdSvc, mdName, mdLeft, mdCollect, mdMuted, mdCount>>
-----------------------------------------------------------------------------
\* find()

MdFindStep == UNCHANGED <<mdUp, mdPy, mdRun, mdThread, mdPipe, mdSvc, mdName, mdLeft,
                          mdHeard, mdMuted>>

MdOthers(f) == IF mdFind[f].shared THEN MdNone ELSE mdCollect

\* The first question, from 5353 when the responder has it.
MdFindBegins(f) ==
    /\ MdCall /\ mdUp /\ mdFind[f].at = "idle"
    /\ mdFind' = [mdFind EXCEPT ![f] = [at |-> "asks", shared |-> MdLive, recs |-> {}]]
    /\ mdCollect' = IF MdLive THEN f ELSE mdCollect
    /\ MdFindStep /\ UNCHANGED mdStarved

\* A spare port's own socket hears what is sent back to it.
MdFindHears(f) ==
    /\ mdFind[f].at \in {"asks", "asksAgain"} /\ ~mdFind[f].shared
    /\ \E recs \in MdMessage :
         mdFind' = [mdFind EXCEPT ![f].recs = @ \cup recs]
    /\ MdFindStep /\ UNCHANGED <<mdStarved, mdCollect, mdCount>>

\* The time is up: ask_stop, and the records are read.
MdAskStops(f) ==
    /\ mdPy = "idle" /\ mdFind[f].at \in {"asks", "asksAgain"}
    /\ mdFind' = [mdFind EXCEPT ![f].at = IF @ = "asks" THEN "reads" ELSE "ends"]
    /\ mdCollect' = MdOthers(f)
    /\ MdFindStep /\ UNCHANGED <<mdStarved, mdCount>>

\* ask() had no memory for a message, and returned as it was.
MdAskStarves(f) ==
    /\ mdPy = "idle" /\ mdFind[f].at \in {"asks", "asksAgain"}
    /\ mdFind' = [mdFind EXCEPT ![f].at = IF @ = "asks" THEN "reads" ELSE "ends"]
    /\ mdStarved' = TRUE
    /\ MdFindStep /\ UNCHANGED <<mdCollect, mdCount>>

\* Instances are there whose port or address is not: ask for those.
MdFindAgain(f) ==
    /\ mdPy = "idle" /\ mdFind[f].at = "reads"
    /\ IF "ptr" \in mdFind[f].recs /\ ~({"srv", "a"} \subseteq mdFind[f].recs)
       THEN /\ mdFind' = [mdFind EXCEPT ![f].at = "asksAgain"]
            /\ mdCollect' = IF mdFind[f].shared THEN f ELSE mdCollect
       ELSE /\ mdFind' = [mdFind EXCEPT ![f].at = "ends"]
            /\ UNCHANGED mdCollect
    /\ MdFindStep /\ UNCHANGED <<mdStarved, mdCount>>

\* The results are made of the records, and these are freed.
MdFindEnds(f) ==
    /\ mdPy = "idle" /\ mdFind[f].at = "ends"
    /\ mdFind' = [mdFind EXCEPT ![f] = [at |-> "idle", shared |-> FALSE, recs |-> {}]]
    /\ MdFindStep /\ UNCHANGED <<mdStarved, mdCollect, mdCount>>

\* Ctrl-C: ask_stop before the exception goes on.
MdFindRaises(f) ==
    /\ mdPy = "idle" /\ mdFind[f].at \in {"asks", "asksAgain"}
    /\ mdFind' = [mdFind EXCEPT ![f] = [at |-> "idle", shared |-> FALSE, recs |-> {}]]
    /\ mdCollect' = MdOthers(f)
    /\ MdFindStep /\ UNCHANGED <<mdStarved, mdCount>>

MdFinding(f) ==
    \/ MdFindBegins(f) \/ MdFindHears(f) \/ MdAskStops(f) \/ MdAskStarves(f)
    \/ MdFindAgain(f) \/ MdFindEnds(f) \/ MdFindRaises(f)

MdThreadStep == MdTop \/ MdTimeout \/ MdWoken \/ MdRepeat \/ MdHandle

MdNext ==
    \/ \E ok \in BOOLEAN : MdConstruct(ok)
    \/ MdDeinit \/ MdStopping \/ MdJoined \/ MdAdvertiseStarts
    \/ \E h \in MdHosts : MdSetHostname(h)
    \/ \E i \in MdInsts : MdSetInstanceName(i)
    \/ \E v \in MdService : MdAdvertise(v)
    \/ MdThreadStep \/ MdInterrupted
    \/ \E kind \in {"response", "query", "legacy"} : MdPacket(kind)
    \/ \E f \in MdFinders : MdFinding(f)

\* The thread runs, a poll with a wake-up comes back, and one that waits for a
\* second does once nothing comes.
MdFairness == WF_mdVars(MdThreadStep) /\ WF_mdVars(MdStopping) /\ WF_mdVars(MdJoined)

MdSpec == MdInit /\ [][MdNext]_mdVars /\ MdFairness
-----------------------------------------------------------------------------
\* The listener knows the services there are, each with the host and port it
\* has, and none that is gone or has another name now; but for messages that
\* were too long to send. (set_hostname, set_instance_name, advertise, deinit)
MdToldAll == mdMuted \/ mdHeard = MdRecords(mdSvc, mdName, MdSlots)

\* "The thread stops adding to q's records, so they can be read without the
\* lock": it adds to those of a find() that gathers, and no other. (ask_stop)
MdAddsOnlyThere ==
    mdCollect # MdNone
      => mdFind[mdCollect].at \in {"asks", "asksAgain"} /\ mdFind[mdCollect].shared

\* So it does, unless ask() found no memory for a message, and returned past
\* ask_stop: then the thread adds to records that find() reads and frees.
MdAddsToGatherer == mdStarved \/ MdAddsOnlyThere

\* A Server that is gone left no thread, no service and nothing to announce.
MdLeavesNothing ==
    ~mdUp => /\ MdUsed(mdSvc) = {} /\ mdLeft = 0
             /\ MdLive => mdPy # "idle"

\* What is told, who is gathered for, and what stays, between any two steps.
MdSafe == MdToldAll /\ MdAddsToGatherer /\ MdLeavesNothing

\* deinit() comes back, whatever the thread was at; and a change is announced
\* to its last time, once no packet comes for long enough, or superseded.
\* (responder_stop; wake_thread after every change)
MdEnds ==
    /\ (mdPy = "stops") ~> (mdPy = "idle")
    /\ (mdLeft > 0 /\ MdLive) ~> (mdLeft = 0)

\* What comes while one find() gathers from 5353 is gathered for it. (Not when
\* two threads find at once: the first to end stops the gathering of both.)
MdGathers ==
    \A f \in MdFinders :
      (mdFind[f].at \in {"asks", "asksAgain"} /\ mdFind[f].shared) => mdCollect = f

\* "It announces a service [...] when it appears or changes and says goodbye
\* (TTL 0) when it goes": not when the services' TXT records are together longer
\* than PKT_MAX, which eight of TXT_MAX are.
MdToldAlways == mdHeard = MdRecords(mdSvc, mdName, MdSlots)
=============================================================================
