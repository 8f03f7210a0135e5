------------------------------- MODULE PumpPort -------------------------------
(***************************************************************************)
(* What _audioif.c gives the audio engine to run its pump on: a recursive  *)
(* lock, a wait that a wake ends, a pace, and the thread itself, on the    *)
(* ESP32, Windows or POSIX. External: the engine (audiodsp), whose pump    *)
(* takes the lock for a block, waits for room in the output ring and while *)
(* it is parked, and paces itself; and whose interpreter side makes control *)
(* calls, drains the ring, parks, unparks, and stops.                      *)
(***************************************************************************)
EXTENDS Naturals

CONSTANTS
    PpEarlyStop,    \* whether stop() may come while the pump paces for the first time
    PpNobody,
    PpStarts, PpCalls   \* bounds: threads started, calls of the interpreter

ASSUME PpAssumption ==
    /\ PpEarlyStop \in BOOLEAN /\ PpNobody \notin {"pump", "interp"}
    /\ PpStarts \in Nat /\ PpCalls \in Nat

VARIABLES
    ppDriver,   \* "esp32", "win32" or "pthread"
    ppAt,       \* each thread's place: see the actions
    ppMutex,    \* [state, built, owner, depth]: audiopump_mutex_state, how often
                \* it was built, who holds it and how deep
    ppWake,     \* a notification, a set event, or audiopump_wake_signals
    ppTimer,    \* audiopump_pace_timer and audiopump_pace_owner
    ppFull, ppPark, ppStop, \* what the pump waits on: the ring is full; park; stop
    ppCount     \* [starts, calls]

ppVars == <<ppDriver, ppAt, ppMutex, ppWake, ppTimer, ppFull, ppPark, ppStop, ppCount>>

PpThreads == {"pump", "interp"}

PpInit ==
    /\ ppDriver \in {"esp32", "win32", "pthread"}
    /\ ppAt = [pump |-> "none", interp |-> "idle"]
    /\ ppMutex = [state |-> 0, built |-> 0, owner |-> PpNobody, depth |-> 0]
    /\ ppWake = FALSE
    /\ ppTimer = [made |-> FALSE, owner |-> PpNobody]
    /\ ppFull = FALSE /\ ppPark = FALSE /\ ppStop = FALSE
    /\ ppCount = [starts |-> 0, calls |-> 0]

PpGoes(t, from, to) == ppAt[t] = from /\ ppAt' = [ppAt EXCEPT ![t] = to]
PpWaitsSame == UNCHANGED <<ppWake, ppTimer, ppFull, ppPark, ppStop>>
-----------------------------------------------------------------------------
\* The lock

\* Mutant: whoever finds no lock makes one.
PpToBuildLazily == ppMutex.state # 2

\* The compare-exchange: the first comer builds it.
PpToBuild == ppMutex.state = 0

\* audiopump_lock_ensure; pthread_once does the same.
PpEnsure(t) ==
    /\ \/ ppMutex.state = 2 /\ PpGoes(t, "ensures", "takes") /\ UNCHANGED ppMutex
       \/ /\ PpToBuild /\ PpGoes(t, "ensures", "builds")
          /\ ppMutex' = [ppMutex EXCEPT !.state = 1]
    /\ PpWaitsSame /\ UNCHANGED <<ppDriver, ppCount>>

PpBuild(t) ==
    /\ PpGoes(t, "builds", "takes")
    /\ ppMutex' = [state |-> 2, built |-> ppMutex.built + 1, owner |-> PpNobody, depth |-> 0]
    /\ PpWaitsSame /\ UNCHANGED <<ppDriver, ppCount>>

PpTake(t) ==
    /\ ppMutex.owner \in {PpNobody, t}
    /\ PpGoes(t, "takes", "inside")
    /\ ppMutex' = [ppMutex EXCEPT !.owner = t, !.depth = @ + 1]
    /\ PpWaitsSame /\ UNCHANGED <<ppDriver, ppCount>>

\* A helper that locks again, by a thread that is inside.
PpNest(t) ==
    /\ ppMutex.depth = 1 /\ PpGoes(t, "inside", "ensures")
    /\ PpWaitsSame /\ UNCHANGED <<ppDriver, ppMutex, ppCount>>

\* Back in the outer call, which gives it too.
PpGive(t) ==
    /\ \/ ppMutex.depth = 2 /\ PpGoes(t, "inside", "leaves")
       \/ /\ ppMutex.depth = 1
          /\ \E from \in {"inside", "leaves"} :
               PpGoes(t, from, IF t = "pump" THEN "made" ELSE "idle")
    /\ ppMutex' = [ppMutex EXCEPT !.depth = @ - 1,
                                  !.owner = IF ppMutex.depth = 2 THEN @ ELSE PpNobody]
    /\ PpWaitsSame /\ UNCHANGED <<ppDriver, ppCount>>

PpLock(t) == PpEnsure(t) \/ PpBuild(t) \/ PpTake(t) \/ PpNest(t) \/ PpGive(t)
-----------------------------------------------------------------------------
\* The waits

PpPlaces == {"ring", "park"}
PpSpins(place) == IF place = "ring" THEN "ring spins" ELSE "park spins"
PpInWait(place) == IF place = "ring" THEN "ring waits" ELSE "park waits"
PpBack(place) == IF place = "ring" THEN "ring returns" ELSE "park returns"

PpToldToWait(place) == (IF place = "ring" THEN ppFull ELSE ppPark) /\ ~ppStop

\* The engine's "while (...) park_spin()", for room and then while parked.
PpLooks(place, next) ==
    /\ PpGoes("pump", place, IF PpToldToWait(place) THEN PpSpins(place) ELSE next)
    /\ PpWaitsSame /\ UNCHANGED <<ppDriver, ppMutex, ppCount>>

\* audiopump_park_spin begins its wait. On POSIX, under the mutex, and not when
\* a wake has come; the others' object is looked at by the wait itself.
PpWaits(place) ==
    /\ IF ppDriver = "pthread" /\ ppWake
       THEN PpGoes("pump", PpSpins(place), place) /\ ppWake' = FALSE
       ELSE PpGoes("pump", PpSpins(place), PpInWait(place)) /\ UNCHANGED ppWake
    /\ UNCHANGED <<ppDriver, ppMutex, ppTimer, ppFull, ppPark, ppStop, ppCount>>

\* A notification or an event ends the wait and is taken; so does the ceiling.
PpWaitEnds(place) ==
    /\ ppDriver # "pthread" /\ PpGoes("pump", PpInWait(place), place)
    /\ ppWake' = FALSE
    /\ UNCHANGED <<ppDriver, ppMutex, ppTimer, ppFull, ppPark, ppStop, ppCount>>

\* The condition's ceiling, or its signal having come, leads back to the mutex.
PpCeiling(place) ==
    /\ ppDriver = "pthread" /\ PpGoes("pump", PpInWait(place), PpBack(place))
    /\ PpWaitsSame /\ UNCHANGED <<ppDriver, ppMutex, ppCount>>

PpReturns(place) ==
    /\ PpGoes("pump", PpBack(place), place) /\ ppWake' = FALSE
    /\ UNCHANGED <<ppDriver, ppMutex, ppTimer, ppFull, ppPark, ppStop, ppCount>>

\* Mutant: only a wait that has begun is woken.
PpKeptForWaiter == ppAt.pump \in {"ring waits", "park waits"}

\* A wake is kept for a wait that is to come; the ESP32 and Windows need a
\* thread to keep it for.
PpKept == ppDriver = "pthread" \/ ppAt.pump # "none"

\* audiopump_thread_wake, by the interpreter; a condition's waiter is sent on.
PpWakes(from, to) ==
    /\ ppAt.interp = from
    /\ ppWake' = (ppWake \/ PpKept)
    /\ ppAt' = [interp |-> to,
                pump |-> CASE ppDriver = "pthread" /\ ppAt.pump = "ring waits" -> "ring returns"
                           [] ppDriver = "pthread" /\ ppAt.pump = "park waits" -> "park returns"
                           [] OTHER -> ppAt.pump]
    /\ UNCHANGED <<ppDriver, ppMutex, ppTimer, ppFull, ppPark, ppStop, ppCount>>
-----------------------------------------------------------------------------
\* The pace: audiopump_sleep_us, whose timer on Windows is its maker's.

PpPaceDone(t) == IF t = "pump" THEN "top" ELSE "stopping"

PpSleep(t) ==
    /\ \/ ppDriver # "win32" /\ PpGoes(t, "paces", PpPaceDone(t))
       \/ /\ ppDriver = "win32"
          /\ PpGoes(t, "paces", IF ppTimer.made THEN "picks" ELSE "creates")
    /\ PpWaitsSame /\ UNCHANGED <<ppDriver, ppMutex, ppCount>>

PpCreate(t) ==
    /\ \/ PpGoes(t, "creates", "owns") /\ ppTimer' = [ppTimer EXCEPT !.made = TRUE]
       \/ PpGoes(t, "owns", "picks") /\ ppTimer' = [ppTimer EXCEPT !.owner = t]
    /\ UNCHANGED <<ppDriver, ppMutex, ppWake, ppFull, ppPark, ppStop, ppCount>>

\* The owner waits on the timer, anybody else sleeps and spins.
PpPick(t) ==
    /\ PpGoes(t, "picks", IF ppTimer.owner = t THEN "on timer" ELSE "spins")
    /\ PpWaitsSame /\ UNCHANGED <<ppDriver, ppMutex, ppCount>>

PpPaced(t) ==
    /\ \E from \in {"on timer", "spins"} : PpGoes(t, from, PpPaceDone(t))
    /\ PpWaitsSame /\ UNCHANGED <<ppDriver, ppMutex, ppCount>>

PpPace(t) == PpSleep(t) \/ PpCreate(t) \/ PpPick(t) \/ PpPaced(t)
-----------------------------------------------------------------------------
\* The thread

PpCall == ppAt.interp = "idle" /\ ppCount.calls < PpCalls

\* audiopump_thread_start: the wake's object is there before the thread.
PpStart ==
    /\ ppAt.interp = "idle" /\ ppAt.pump = "none"
    /\ ppCount.starts < PpStarts /\ ppCount' = [ppCount EXCEPT !.starts = @ + 1]
    /\ ppAt' = [ppAt EXCEPT !.pump = "top"]
    /\ ppWake' = (ppDriver = "pthread" /\ ppWake)
    /\ ppFull' = FALSE /\ ppPark' = FALSE /\ ppStop' = FALSE
    /\ UNCHANGED <<ppDriver, ppMutex, ppTimer>>

\* The pump's own loop: a block under the lock, which may fill the ring.
PpTop ==
    /\ PpGoes("pump", "top", IF ppStop THEN "ended" ELSE "ensures")
    /\ PpWaitsSame /\ UNCHANGED <<ppDriver, ppMutex, ppCount>>

PpMade ==
    /\ PpGoes("pump", "made", "ring") /\ ppFull' \in {ppFull, TRUE}
    /\ UNCHANGED <<ppDriver, ppMutex, ppWake, ppTimer, ppPark, ppStop, ppCount>>

\* Control calls: under the lock; park; and what ends a wait, before the wake.
PpControl ==
    /\ PpCall /\ ppCount' = [ppCount EXCEPT !.calls = @ + 1]
    /\ \/ PpGoes("interp", "idle", "ensures") /\ UNCHANGED <<ppFull, ppPark>>
       \/ PpGoes("interp", "idle", "wakes") /\ ppPark' \in BOOLEAN /\ UNCHANGED ppFull
       \/ PpGoes("interp", "idle", "wakes") /\ ppFull' = FALSE /\ UNCHANGED ppPark
    /\ UNCHANGED <<ppDriver, ppMutex, ppWake, ppTimer, ppStop>>

\* stop(): told, woken, and then looked at every ten milliseconds.
PpStops ==
    /\ ppAt.pump # "none" /\ PpGoes("interp", "idle", "stops")
    /\ ppStop' = TRUE
    /\ UNCHANGED <<ppDriver, ppMutex, ppWake, ppTimer, ppFull, ppPark, ppCount>>

PpStopWaits ==
    /\ ppAt.pump # "ended" /\ PpGoes("interp", "stopping", "paces")
    /\ PpEarlyStop \/ ppDriver # "win32" \/ ppTimer.owner # PpNobody
    /\ PpWaitsSame /\ UNCHANGED <<ppDriver, ppMutex, ppCount>>

\* audiopump_driver_teardown closes the timer and the event.
PpTeardown ==
    /\ ppTimer' = [made |-> FALSE, owner |-> PpNobody]
    /\ ppWake' = (ppDriver = "pthread" /\ ppWake)

\* It has ended: audiopump_thread_release joins or deletes it.
PpRelease ==
    /\ ppAt.interp = "stopping" /\ ppAt.pump = "ended"
    /\ ppAt' = [pump |-> "none", interp |-> "idle"]
    /\ PpTeardown
    /\ UNCHANGED <<ppDriver, ppMutex, ppFull, ppPark, ppStop, ppCount>>

PpPump ==
    \/ PpTop \/ PpLock("pump") \/ PpMade
    \/ PpLooks("ring", "park") \/ PpLooks("park", "paces")
    \/ \E place \in PpPlaces : PpWaits(place) \/ PpReturns(place)
    \/ PpPace("pump")

PpInterp ==
    \/ PpLock("interp") \/ PpPace("interp")
    \/ PpWakes("wakes", "idle") \/ PpWakes("stops", "stopping")
    \/ PpStopWaits \/ PpRelease

PpNext ==
    \/ PpPump \/ PpInterp \/ PpStart \/ PpControl \/ PpStops
    \/ \E place \in PpPlaces : PpWaitEnds(place) \/ PpCeiling(place)

\* Both threads run, and a wait with its wake there ends; no ceiling is counted on.
PpFairness ==
    /\ WF_ppVars(PpPump) /\ WF_ppVars(PpInterp)
    /\ WF_ppVars(ppWake /\ \E place \in PpPlaces : PpWaitEnds(place))

PpSpec == PpInit /\ [][PpNext]_ppVars /\ PpFairness
-----------------------------------------------------------------------------
\* The lock is built once, whoever comes first, and has one thread inside.
\* (audiopump_lock_ensure)
PpExclusive ==
    /\ ppMutex.built <= 1
    /\ \E t \in PpThreads : ppAt[t] \notin {"inside", "leaves"}
    /\ (ppMutex.depth > 0) = (ppMutex.owner # PpNobody)

\* "A wake which arrives BEFORE the wait is RETAINED": a pump that waits though
\* nothing says so any more has its wake there, or about to come, and needs no
\* ceiling. (audiopump_park_spin, audiopump_thread_wake)
PpNoLostWake ==
    \A place \in PpPlaces :
      /\ ppAt.pump = PpInWait(place) /\ ~PpToldToWait(place)
      /\ ppAt.interp \notin {"wakes", "stops"}
      => ppWake /\ ppDriver # "pthread"

\* "ONE timer, and therefore one thread may wait on it." Not when the first two
\* paces make it at once, so the run keeps stop() from the first.
PpOneWaits == ~(ppAt.pump = "on timer" /\ ppAt.interp = "on timer")

\* Two threads, one lock, one wake and one timer.
PpSafe == PpExclusive /\ PpNoLostWake /\ PpOneWaits

\* stop() comes back, wherever the pump was, and without a ceiling.
PpStopEnds == (ppAt.interp = "stops") ~> (ppAt.interp = "idle")
=============================================================================
