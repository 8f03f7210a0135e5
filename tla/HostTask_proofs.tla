--------------------------- MODULE HostTask_proofs ---------------------------
(***************************************************************************)
(* What the library demands of the host task, for any number of devices    *)
(* and transfers. TaskSafe is not inductive: that no device is open when   *)
(* the client deregisters, and that nothing is left of a session that a    *)
(* later one would find, rest on where the task and the one caller can be  *)
(* at the same time (HtPlaces), on when a device can be open (HtOpen), on  *)
(* what a call that waits knows of its transfer (HtCall), and on what is   *)
(* left when the task ends unwedged (HtLeft).                              *)
(***************************************************************************)
EXTENDS HostTask, FiniteSetTheorems, TLAPS

\* A call of the program's that waits for its transfer, or has just stopped waiting.
InCall == {"waiting", "woken", "late"}
\* The task is taking the host down.
InTeardown == {"tear", "retire", "drain", "deregister", "await", "release", "last", "hung"}

\* The task has a handle while there is one; only a host that runs has a call in
\* progress; and no teardown begins before the host is told to stop.
HtPlaces ==
    /\ handle = (task # "none")
    /\ api \in InCall => running /\ task = "loop"
    /\ task \in InTeardown => ~running /\ tearing_down
    /\ task = "loop" => install_result = "ok"
    /\ client => task \in {"up", "loop", "tear", "retire", "drain", "deregister"}

\* A device is open while the host runs, or while it is being stopped, until the
\* close loop has passed; and one that is gone is one that is still open.
HtOpen ==
    /\ slots # {} => \/ task = "loop" /\ running
                     \/ api = "stopping" /\ task \in {"loop", "tear", "retire"}
    /\ \A d \in Devs : lib[d] = "gone" => d \in slots

\* The call in progress has a transfer of its own, which the library has until the
\* callback wakes the call; the other transfers it has were abandoned, and counted.
HtCall ==
    /\ abandoned = Cardinality(tagged)
    /\ api \in InCall => cur \in alloc \ tagged
    /\ api \in {"waiting", "late"} => (ctrl_busy <=> WithLibrary(cur))
    /\ api \notin {"waiting", "late"} => ~ctrl_busy
    /\ (api = "waiting" /\ ctrl_done) \/ api = "woken" => ~WithLibrary(cur)
    /\ \A x \in Xfers : WithLibrary(x) =>
           x \in alloc /\ (x \in tagged \/ (x = cur /\ api \in {"waiting", "late"}))

\* Nothing is held when the library is asked to go; and a task that ended unwedged
\* left nothing that the next one would find.
HtLeft ==
    /\ task = "last" => Held = {}
    /\ task \in {"none", "install", "refused", "exit"} /\ ~wedged => ~installed /\ tagged = {}
    /\ task = "install" => ~wedged

\* The inductive invariant.
HtInv == TypeOK /\ HtPlaces /\ HtOpen /\ HtCall /\ HtLeft

-----------------------------------------------------------------------------
\* The steps of Next, one by one.
LEMMA HtSteps ==
    ASSUME [Next]_vars
    PROVE  \/ StartAtOnce \/ Start \/ StartEnds \/ WaitEnds \/ Answered \/ Abandon
           \/ Stop \/ StopEnds \/ Install \/ Verdict \/ LoopEnds \/ RetireEnds \/ TearEnds
           \/ DrainEnds \/ Deregister \/ AwaitEnds \/ Hang \/ ReleaseEnds \/ Last \/ Exit
           \/ \E d \in Devs, x \in Xfers : Ctrl(d, x)
           \/ \E d \in Devs : \/ TearClose(d) \/ TearRetire(d) \/ NewDev(d) \/ DevGone(d)
                              \/ Enumerate(d) \/ Disconnect(d) \/ Plug(d)
           \/ \E x \in Xfers : Callback(x) \/ Answer(x)
           \/ UNCHANGED vars
<1>1. CASE Api
  BY <1>1 DEF Api
<1>2. CASE Task
  BY <1>2 DEF Task
<1>3. CASE Client \/ Devices \/ Library
  BY <1>3 DEF Client, Devices, Library
<1> QED BY <1>1, <1>2, <1>3 DEF Next

\* The table of open devices is finite, and one device more or less is one row.
LEMMA HtRows ==
    ASSUME TypeOK, NEW d \in Devs
    PROVE  /\ IsFiniteSet(slots)
           /\ Cardinality(slots \ {d}) <= MaxDevs
           /\ Cardinality(slots) < MaxDevs => Cardinality(slots \cup {d}) <= MaxDevs
<1>1. IsFiniteSet(slots) /\ Cardinality(slots) \in Nat
  BY HostTaskAssumption, FS_Subset, FS_CardinalityType DEF TypeOK
<1>2. Cardinality(slots \ {d}) = IF d \in slots THEN Cardinality(slots) - 1 ELSE Cardinality(slots)
  BY <1>1, FS_RemoveElement
<1>3. Cardinality(slots \cup {d}) = IF d \in slots THEN Cardinality(slots) ELSE Cardinality(slots) + 1
  BY <1>1, FS_AddElement
<1> QED BY <1>1, <1>2, <1>3, HostTaskAssumption DEF TypeOK

\* The abandoned transfers are counted.
LEMMA HtTags ==
    ASSUME TypeOK, abandoned = Cardinality(tagged)
    PROVE  /\ IsFiniteSet(tagged) /\ abandoned \in Nat
           /\ abandoned = 0 <=> tagged = {}
           /\ \A x : x \notin tagged => Cardinality(tagged \cup {x}) = abandoned + 1
           /\ \A x : x \in tagged => Cardinality(tagged \ {x}) = abandoned - 1
<1>1. IsFiniteSet(tagged) /\ Cardinality(tagged) \in Nat
  <2>1. tagged \subseteq Xfers
    BY DEF TypeOK
  <2> QED BY <2>1, HostTaskAssumption, FS_Subset, FS_CardinalityType
<1>2. Cardinality(tagged) = 0 <=> tagged = {}
  BY <1>1, FS_EmptySet
<1>3. \A x : x \notin tagged => Cardinality(tagged \cup {x}) = Cardinality(tagged) + 1
  BY <1>1, FS_AddElement
<1>4. \A x : x \in tagged => Cardinality(tagged \ {x}) = Cardinality(tagged) - 1
  BY <1>1, FS_RemoveElement
<1> QED BY <1>1, <1>2, <1>3, <1>4

-----------------------------------------------------------------------------
\* The types, variable by variable.
HtWords ==
    /\ install_result \in {"pending", "ok", "failed"}
    /\ task \in {"none", "install", "up", "refused", "loop", "tear", "retire", "drain",
                 "deregister", "await", "release", "last", "hung", "exit"}
    /\ victim \in Devs \cup {None}
    /\ api \in {"idle", "starting", "waiting", "woken", "late", "stopping"}

\* The flags.
HtFlags ==
    /\ handle \in BOOLEAN /\ running \in BOOLEAN /\ tearing_down \in BOOLEAN
    /\ wedged \in BOOLEAN /\ host_running \in BOOLEAN
    /\ installed \in BOOLEAN /\ client \in BOOLEAN /\ powered \in BOOLEAN
    /\ ctrl_busy \in BOOLEAN /\ ctrl_done \in BOOLEAN

\* The devices' table.
HtRowsOK == slots \subseteq Devs /\ Cardinality(slots) <= MaxDevs
\* The transfers there are.
HtSetsOK ==
    /\ cur \in Xfers \cup {None}
    /\ alloc \subseteq Xfers /\ tagged \subseteq alloc /\ abandoned \in Nat

\* What the library knows.
HtLibOK ==
    /\ lib \in [Devs -> {"absent", "enumerating", "ready", "gone"}]
    /\ events \subseteq {"new", "gone"} \X Devs
    /\ plugged \subseteq Devs
    /\ where \in [Xfers -> {"none", "ep0", "done"}]
    /\ target \in [Xfers -> Devs \cup {None}]

\* TypeOK is its parts.
LEMMA HtTypes == TypeOK <=> HtWords /\ HtFlags /\ HtRowsOK /\ HtSetsOK /\ HtLibOK
BY DEF TypeOK, HtWords, HtFlags, HtRowsOK, HtSetsOK, HtLibOK

\* Every step keeps the words.
LEMMA HtWordsKept ==
    ASSUME HtWords, [Next]_vars
    PROVE  HtWords'
<1>1. CASE StartAtOnce
  BY <1>1, HostTaskAssumption DEF StartAtOnce, sessionVars, ctrlVars, libVars, HtWords
<1>2. CASE Start
  BY <1>2, HostTaskAssumption DEF Start, sessionVars, ctrlVars, libVars, HtWords
<1>3. CASE StartEnds
  BY <1>3, HostTaskAssumption DEF StartEnds, sessionVars, ctrlVars, libVars, HtWords
<1>4. ASSUME NEW d \in Devs, NEW x \in Xfers, Ctrl(d, x) PROVE HtWords'
  BY <1>4, HostTaskAssumption DEF Ctrl, sessionVars, ctrlVars, libVars, HtWords
<1>5. CASE WaitEnds
  BY <1>5, HostTaskAssumption DEF WaitEnds, sessionVars, ctrlVars, libVars, HtWords
<1>6. CASE Answered
  BY <1>6, HostTaskAssumption DEF Answered, sessionVars, ctrlVars, libVars, HtWords
<1>7. CASE Abandon
  BY <1>7, HostTaskAssumption DEF Abandon, sessionVars, ctrlVars, libVars, HtWords
<1>8. CASE Stop
  BY <1>8, HostTaskAssumption DEF Stop, sessionVars, ctrlVars, libVars, HtWords
<1>9. CASE StopEnds
  BY <1>9, HostTaskAssumption DEF StopEnds, sessionVars, ctrlVars, libVars, HtWords
<1>10. CASE Install
  BY <1>10, HostTaskAssumption DEF Install, GoTo, sessionVars, ctrlVars, libVars, HtWords
<1>11. CASE Verdict
  BY <1>11, HostTaskAssumption DEF Verdict, GoTo, sessionVars, ctrlVars, libVars, HtWords
<1>12. CASE LoopEnds
  BY <1>12, HostTaskAssumption DEF LoopEnds, GoTo, sessionVars, ctrlVars, libVars, HtWords
<1>13. ASSUME NEW d \in Devs, TearClose(d) PROVE HtWords'
  BY <1>13, HostTaskAssumption DEF TearClose, Close, sessionVars, ctrlVars, libVars, HtWords
<1>14. ASSUME NEW d \in Devs, TearRetire(d) PROVE HtWords'
  BY <1>14, HostTaskAssumption DEF TearRetire, sessionVars, ctrlVars, libVars, HtWords
<1>15. CASE RetireEnds
  BY <1>15, HostTaskAssumption DEF RetireEnds, Close, sessionVars, ctrlVars, libVars, HtWords
<1>16. CASE TearEnds
  BY <1>16, HostTaskAssumption DEF TearEnds, GoTo, sessionVars, ctrlVars, libVars, HtWords
<1>17. CASE DrainEnds
  BY <1>17, HostTaskAssumption DEF DrainEnds, GoTo, sessionVars, ctrlVars, libVars, HtWords
<1>18. CASE Deregister
  BY <1>18, HostTaskAssumption DEF Deregister, GoTo, sessionVars, ctrlVars, libVars, HtWords
<1>19. CASE AwaitEnds
  BY <1>19, HostTaskAssumption DEF AwaitEnds, GoTo, sessionVars, ctrlVars, libVars, HtWords
<1>20. CASE Hang
  BY <1>20, HostTaskAssumption DEF Hang, GoTo, sessionVars, ctrlVars, libVars, HtWords
<1>21. CASE ReleaseEnds
  BY <1>21, HostTaskAssumption DEF ReleaseEnds, GoTo, sessionVars, ctrlVars, libVars, HtWords
<1>22. CASE Last
  BY <1>22, HostTaskAssumption DEF Last, GoTo, Uninstall, sessionVars, ctrlVars, libVars, HtWords
<1>23. CASE Exit
  BY <1>23, HostTaskAssumption DEF Exit, GoTo, sessionVars, ctrlVars, libVars, HtWords
<1>24. ASSUME NEW x \in Xfers, Callback(x) PROVE HtWords'
  BY <1>24, HostTaskAssumption DEF Callback, ClientPumped, sessionVars, ctrlVars, libVars, HtWords
<1>25. ASSUME NEW d \in Devs, NewDev(d) PROVE HtWords'
  BY <1>25, HostTaskAssumption DEF NewDev, ClientPumped, sessionVars, ctrlVars, libVars, HtWords
<1>26. ASSUME NEW d \in Devs, DevGone(d) PROVE HtWords'
  BY <1>26, HostTaskAssumption DEF DevGone, ClientPumped, Close, sessionVars, ctrlVars, libVars, HtWords
<1>27. ASSUME NEW d \in Devs, Enumerate(d) PROVE HtWords'
  BY <1>27, HostTaskAssumption DEF Enumerate, LibPumped, libOnly, sessionVars, ctrlVars, libVars, HtWords
<1>28. ASSUME NEW d \in Devs, Disconnect(d) PROVE HtWords'
  BY <1>28, HostTaskAssumption DEF Disconnect, LibPumped, libOnly, sessionVars, ctrlVars, libVars, HtWords
<1>29. ASSUME NEW x \in Xfers, Answer(x) PROVE HtWords'
  BY <1>29, HostTaskAssumption DEF Answer, libOnly, sessionVars, ctrlVars, libVars, HtWords
<1>30. ASSUME NEW d \in Devs, Plug(d) PROVE HtWords'
  BY <1>30, HostTaskAssumption DEF Plug, sessionVars, ctrlVars, libVars, HtWords
<1>31. CASE UNCHANGED vars
  BY <1>31, HostTaskAssumption DEF vars, sessionVars, ctrlVars, libVars, HtWords
<1> QED BY HtSteps, <1>1, <1>2, <1>3, <1>4, <1>5, <1>6, <1>7, <1>8, <1>9, <1>10, <1>11, <1>12, <1>13, <1>14, <1>15, <1>16, <1>17, <1>18, <1>19, <1>20, <1>21, <1>22, <1>23, <1>24, <1>25, <1>26, <1>27, <1>28, <1>29, <1>30, <1>31

\* Every step keeps the flags.
LEMMA HtFlagsKept ==
    ASSUME HtFlags, [Next]_vars
    PROVE  HtFlags'
<1>1. CASE StartAtOnce
  BY <1>1 DEF StartAtOnce, sessionVars, ctrlVars, libVars, HtFlags, Held
<1>2. CASE Start
  BY <1>2 DEF Start, sessionVars, ctrlVars, libVars, HtFlags, Held
<1>3. CASE StartEnds
  BY <1>3 DEF StartEnds, sessionVars, ctrlVars, libVars, HtFlags, Held
<1>4. ASSUME NEW d \in Devs, NEW x \in Xfers, Ctrl(d, x) PROVE HtFlags'
  BY <1>4 DEF Ctrl, sessionVars, ctrlVars, libVars, HtFlags, Held
<1>5. CASE WaitEnds
  BY <1>5 DEF WaitEnds, sessionVars, ctrlVars, libVars, HtFlags, Held
<1>6. CASE Answered
  BY <1>6 DEF Answered, sessionVars, ctrlVars, libVars, HtFlags, Held
<1>7. CASE Abandon
  BY <1>7 DEF Abandon, sessionVars, ctrlVars, libVars, HtFlags, Held
<1>8. CASE Stop
  BY <1>8 DEF Stop, sessionVars, ctrlVars, libVars, HtFlags, Held
<1>9. CASE StopEnds
  BY <1>9 DEF StopEnds, sessionVars, ctrlVars, libVars, HtFlags, Held
<1>10. CASE Install
  BY <1>10 DEF Install, GoTo, sessionVars, ctrlVars, libVars, HtFlags, Held
<1>11. CASE Verdict
  BY <1>11 DEF Verdict, GoTo, sessionVars, ctrlVars, libVars, HtFlags, Held
<1>12. CASE LoopEnds
  BY <1>12 DEF LoopEnds, GoTo, sessionVars, ctrlVars, libVars, HtFlags, Held
<1>13. ASSUME NEW d \in Devs, TearClose(d) PROVE HtFlags'
  BY <1>13 DEF TearClose, Close, sessionVars, ctrlVars, libVars, HtFlags, Held
<1>14. ASSUME NEW d \in Devs, TearRetire(d) PROVE HtFlags'
  BY <1>14 DEF TearRetire, sessionVars, ctrlVars, libVars, HtFlags, Held
<1>15. CASE RetireEnds
  BY <1>15 DEF RetireEnds, Close, sessionVars, ctrlVars, libVars, HtFlags, Held
<1>16. CASE TearEnds
  BY <1>16 DEF TearEnds, GoTo, sessionVars, ctrlVars, libVars, HtFlags, Held
<1>17. CASE DrainEnds
  BY <1>17 DEF DrainEnds, GoTo, sessionVars, ctrlVars, libVars, HtFlags, Held
<1>18. CASE Deregister
  BY <1>18 DEF Deregister, GoTo, sessionVars, ctrlVars, libVars, HtFlags, Held
<1>19. CASE AwaitEnds
  BY <1>19 DEF AwaitEnds, GoTo, sessionVars, ctrlVars, libVars, HtFlags, Held
<1>20. CASE Hang
  BY <1>20 DEF Hang, GoTo, sessionVars, ctrlVars, libVars, HtFlags, Held
<1>21. CASE ReleaseEnds
  BY <1>21 DEF ReleaseEnds, GoTo, sessionVars, ctrlVars, libVars, HtFlags, Held
<1>22. CASE Last
  BY <1>22 DEF Last, GoTo, Uninstall, sessionVars, ctrlVars, libVars, HtFlags, Held
<1>23. CASE Exit
  BY <1>23 DEF Exit, GoTo, sessionVars, ctrlVars, libVars, HtFlags, Held
<1>24. ASSUME NEW x \in Xfers, Callback(x) PROVE HtFlags'
  BY <1>24 DEF Callback, ClientPumped, sessionVars, ctrlVars, libVars, HtFlags, Held
<1>25. ASSUME NEW d \in Devs, NewDev(d) PROVE HtFlags'
  BY <1>25 DEF NewDev, ClientPumped, sessionVars, ctrlVars, libVars, HtFlags, Held
<1>26. ASSUME NEW d \in Devs, DevGone(d) PROVE HtFlags'
  BY <1>26 DEF DevGone, ClientPumped, Close, sessionVars, ctrlVars, libVars, HtFlags, Held
<1>27. ASSUME NEW d \in Devs, Enumerate(d) PROVE HtFlags'
  BY <1>27 DEF Enumerate, LibPumped, libOnly, sessionVars, ctrlVars, libVars, HtFlags, Held
<1>28. ASSUME NEW d \in Devs, Disconnect(d) PROVE HtFlags'
  BY <1>28 DEF Disconnect, LibPumped, libOnly, sessionVars, ctrlVars, libVars, HtFlags, Held
<1>29. ASSUME NEW x \in Xfers, Answer(x) PROVE HtFlags'
  BY <1>29 DEF Answer, libOnly, sessionVars, ctrlVars, libVars, HtFlags, Held
<1>30. ASSUME NEW d \in Devs, Plug(d) PROVE HtFlags'
  BY <1>30 DEF Plug, sessionVars, ctrlVars, libVars, HtFlags, Held
<1>31. CASE UNCHANGED vars
  BY <1>31 DEF vars, sessionVars, ctrlVars, libVars, HtFlags, Held
<1> QED BY HtSteps, <1>1, <1>2, <1>3, <1>4, <1>5, <1>6, <1>7, <1>8, <1>9, <1>10, <1>11, <1>12, <1>13, <1>14, <1>15, <1>16, <1>17, <1>18, <1>19, <1>20, <1>21, <1>22, <1>23, <1>24, <1>25, <1>26, <1>27, <1>28, <1>29, <1>30, <1>31

\* Every step keeps the table of devices within its rows.
LEMMA HtRowsKept ==
    ASSUME TypeOK, [Next]_vars
    PROVE  HtRowsOK'
<1>1. CASE StartAtOnce
  BY <1>1, HtTypes DEF StartAtOnce, sessionVars, ctrlVars, libVars, HtRowsOK
<1>2. CASE Start
  BY <1>2, HtTypes DEF Start, sessionVars, ctrlVars, libVars, HtRowsOK
<1>3. CASE StartEnds
  BY <1>3, HtTypes DEF StartEnds, sessionVars, ctrlVars, libVars, HtRowsOK
<1>4. ASSUME NEW d \in Devs, NEW x \in Xfers, Ctrl(d, x) PROVE HtRowsOK'
  BY <1>4, HtTypes DEF Ctrl, sessionVars, ctrlVars, libVars, HtRowsOK
<1>5. CASE WaitEnds
  BY <1>5, HtTypes DEF WaitEnds, sessionVars, ctrlVars, libVars, HtRowsOK
<1>6. CASE Answered
  BY <1>6, HtTypes DEF Answered, sessionVars, ctrlVars, libVars, HtRowsOK
<1>7. CASE Abandon
  BY <1>7, HtTypes DEF Abandon, sessionVars, ctrlVars, libVars, HtRowsOK
<1>8. CASE Stop
  BY <1>8, HtTypes DEF Stop, sessionVars, ctrlVars, libVars, HtRowsOK
<1>9. CASE StopEnds
  BY <1>9, HtTypes DEF StopEnds, sessionVars, ctrlVars, libVars, HtRowsOK
<1>10. CASE Install
  BY <1>10, HtTypes DEF Install, GoTo, sessionVars, ctrlVars, libVars, HtRowsOK
<1>11. CASE Verdict
  BY <1>11, HtTypes DEF Verdict, GoTo, sessionVars, ctrlVars, libVars, HtRowsOK
<1>12. CASE LoopEnds
  BY <1>12, HtTypes DEF LoopEnds, GoTo, sessionVars, ctrlVars, libVars, HtRowsOK
<1>13. ASSUME NEW d \in Devs, TearClose(d) PROVE HtRowsOK'
  BY <1>13, HtRows, HtTypes DEF TearClose, Close, HtRowsOK
<1>14. ASSUME NEW d \in Devs, TearRetire(d) PROVE HtRowsOK'
  BY <1>14, HtTypes DEF TearRetire, sessionVars, ctrlVars, libVars, HtRowsOK
<1>15. CASE RetireEnds
  <2>1. CASE victim \in slots
    <3>1. victim \in Devs
      BY <2>1 DEF TypeOK
    <3> QED BY <1>15, <2>1, <3>1, HtRows, HtTypes DEF RetireEnds, Close, HtRowsOK
  <2>2. CASE victim \notin slots
    BY <1>15, <2>2, HtTypes DEF RetireEnds, HtRowsOK
  <2> QED BY <2>1, <2>2
<1>16. CASE TearEnds
  BY <1>16, HtTypes DEF TearEnds, GoTo, sessionVars, ctrlVars, libVars, HtRowsOK
<1>17. CASE DrainEnds
  BY <1>17, HtTypes DEF DrainEnds, GoTo, sessionVars, ctrlVars, libVars, HtRowsOK
<1>18. CASE Deregister
  BY <1>18, HtTypes DEF Deregister, GoTo, sessionVars, ctrlVars, libVars, HtRowsOK
<1>19. CASE AwaitEnds
  BY <1>19, HtTypes DEF AwaitEnds, GoTo, sessionVars, ctrlVars, libVars, HtRowsOK
<1>20. CASE Hang
  BY <1>20, HtTypes DEF Hang, GoTo, sessionVars, ctrlVars, libVars, HtRowsOK
<1>21. CASE ReleaseEnds
  BY <1>21, HtTypes DEF ReleaseEnds, GoTo, sessionVars, ctrlVars, libVars, HtRowsOK
<1>22. CASE Last
  BY <1>22, HtTypes DEF Last, GoTo, Uninstall, sessionVars, ctrlVars, libVars, HtRowsOK
<1>23. CASE Exit
  BY <1>23, HtTypes DEF Exit, GoTo, sessionVars, ctrlVars, libVars, HtRowsOK
<1>24. ASSUME NEW x \in Xfers, Callback(x) PROVE HtRowsOK'
  BY <1>24, HtTypes DEF Callback, ClientPumped, sessionVars, ctrlVars, libVars, HtRowsOK
<1>25. ASSUME NEW d \in Devs, NewDev(d) PROVE HtRowsOK'
  BY <1>25, HtRows, HtTypes DEF NewDev, HtRowsOK
<1>26. ASSUME NEW d \in Devs, DevGone(d) PROVE HtRowsOK'
  BY <1>26, HtRows, HtTypes DEF DevGone, Close, HtRowsOK
<1>27. ASSUME NEW d \in Devs, Enumerate(d) PROVE HtRowsOK'
  BY <1>27, HtTypes DEF Enumerate, LibPumped, libOnly, sessionVars, ctrlVars, libVars, HtRowsOK
<1>28. ASSUME NEW d \in Devs, Disconnect(d) PROVE HtRowsOK'
  BY <1>28, HtTypes DEF Disconnect, LibPumped, libOnly, sessionVars, ctrlVars, libVars, HtRowsOK
<1>29. ASSUME NEW x \in Xfers, Answer(x) PROVE HtRowsOK'
  BY <1>29, HtTypes DEF Answer, libOnly, sessionVars, ctrlVars, libVars, HtRowsOK
<1>30. ASSUME NEW d \in Devs, Plug(d) PROVE HtRowsOK'
  BY <1>30, HtTypes DEF Plug, sessionVars, ctrlVars, libVars, HtRowsOK
<1>31. CASE UNCHANGED vars
  BY <1>31, HtTypes DEF vars, sessionVars, ctrlVars, libVars, HtRowsOK
<1> QED BY HtSteps, <1>1, <1>2, <1>3, <1>4, <1>5, <1>6, <1>7, <1>8, <1>9, <1>10, <1>11, <1>12, <1>13, <1>14, <1>15, <1>16, <1>17, <1>18, <1>19, <1>20, <1>21, <1>22, <1>23, <1>24, <1>25, <1>26, <1>27, <1>28, <1>29, <1>30, <1>31

\* Every step keeps the sets of transfers.
LEMMA HtSetsKept ==
    ASSUME TypeOK, HtCall, [Next]_vars
    PROVE  HtSetsOK'
<1>1. CASE StartAtOnce
  BY <1>1, HtTypes DEF StartAtOnce, sessionVars, ctrlVars, libVars, HtSetsOK
<1>2. CASE Start
  BY <1>2, HtTypes DEF Start, sessionVars, ctrlVars, libVars, HtSetsOK
<1>3. CASE StartEnds
  BY <1>3, HtTypes DEF StartEnds, sessionVars, ctrlVars, libVars, HtSetsOK
<1>4. ASSUME NEW d \in Devs, NEW x \in Xfers, Ctrl(d, x) PROVE HtSetsOK'
  BY <1>4, HtTypes DEF Ctrl, sessionVars, ctrlVars, libVars, HtSetsOK
<1>5. CASE WaitEnds
  BY <1>5, HtTypes DEF WaitEnds, sessionVars, ctrlVars, libVars, HtSetsOK
<1>6. CASE Answered
  BY <1>6, HtTypes, HostTaskAssumption DEF Answered, sessionVars, libVars, HtSetsOK, HtCall, InCall
<1>7. CASE Abandon
  BY <1>7, HtTypes DEF Abandon, sessionVars, libVars, HtSetsOK, HtCall, InCall
<1>8. CASE Stop
  BY <1>8, HtTypes DEF Stop, sessionVars, ctrlVars, libVars, HtSetsOK
<1>9. CASE StopEnds
  BY <1>9, HtTypes DEF StopEnds, sessionVars, ctrlVars, libVars, HtSetsOK
<1>10. CASE Install
  BY <1>10, HtTypes DEF Install, GoTo, sessionVars, ctrlVars, libVars, HtSetsOK
<1>11. CASE Verdict
  BY <1>11, HtTypes DEF Verdict, GoTo, sessionVars, ctrlVars, libVars, HtSetsOK
<1>12. CASE LoopEnds
  BY <1>12, HtTypes DEF LoopEnds, GoTo, sessionVars, ctrlVars, libVars, HtSetsOK
<1>13. ASSUME NEW d \in Devs, TearClose(d) PROVE HtSetsOK'
  BY <1>13, HtTypes DEF TearClose, Close, sessionVars, ctrlVars, libVars, HtSetsOK
<1>14. ASSUME NEW d \in Devs, TearRetire(d) PROVE HtSetsOK'
  BY <1>14, HtTypes DEF TearRetire, sessionVars, ctrlVars, libVars, HtSetsOK
<1>15. CASE RetireEnds
  BY <1>15, HtTypes DEF RetireEnds, Close, sessionVars, ctrlVars, libVars, HtSetsOK
<1>16. CASE TearEnds
  BY <1>16, HtTypes DEF TearEnds, GoTo, sessionVars, ctrlVars, libVars, HtSetsOK
<1>17. CASE DrainEnds
  BY <1>17, HtTypes DEF DrainEnds, GoTo, sessionVars, ctrlVars, libVars, HtSetsOK
<1>18. CASE Deregister
  BY <1>18, HtTypes DEF Deregister, GoTo, sessionVars, ctrlVars, libVars, HtSetsOK
<1>19. CASE AwaitEnds
  BY <1>19, HtTypes DEF AwaitEnds, GoTo, sessionVars, ctrlVars, libVars, HtSetsOK
<1>20. CASE Hang
  BY <1>20, HtTypes DEF Hang, GoTo, sessionVars, ctrlVars, libVars, HtSetsOK
<1>21. CASE ReleaseEnds
  BY <1>21, HtTypes DEF ReleaseEnds, GoTo, sessionVars, ctrlVars, libVars, HtSetsOK
<1>22. CASE Last
  BY <1>22, HtTypes DEF Last, GoTo, Uninstall, sessionVars, ctrlVars, libVars, HtSetsOK
<1>23. CASE Exit
  BY <1>23, HtTypes DEF Exit, GoTo, sessionVars, ctrlVars, libVars, HtSetsOK
<1>24. ASSUME NEW x \in Xfers, Callback(x) PROVE HtSetsOK'
  <2>1. CASE x \in tagged
    <3>1. abandoned - 1 \in Nat
      <4>1. abandoned \in Nat /\ abandoned # 0
        BY <2>1, HtTags DEF HtCall
      <4> QED BY <4>1
    <3> QED BY <1>24, <2>1, <3>1, HtTypes DEF Callback, HtSetsOK
  <2>2. CASE x \notin tagged
    BY <1>24, <2>2, HtTypes DEF Callback, HtSetsOK
  <2> QED BY <2>1, <2>2
<1>25. ASSUME NEW d \in Devs, NewDev(d) PROVE HtSetsOK'
  BY <1>25, HtTypes DEF NewDev, ClientPumped, sessionVars, ctrlVars, libVars, HtSetsOK
<1>26. ASSUME NEW d \in Devs, DevGone(d) PROVE HtSetsOK'
  BY <1>26, HtTypes DEF DevGone, ClientPumped, Close, sessionVars, ctrlVars, libVars, HtSetsOK
<1>27. ASSUME NEW d \in Devs, Enumerate(d) PROVE HtSetsOK'
  BY <1>27, HtTypes DEF Enumerate, LibPumped, libOnly, sessionVars, ctrlVars, libVars, HtSetsOK
<1>28. ASSUME NEW d \in Devs, Disconnect(d) PROVE HtSetsOK'
  BY <1>28, HtTypes DEF Disconnect, LibPumped, libOnly, sessionVars, ctrlVars, libVars, HtSetsOK
<1>29. ASSUME NEW x \in Xfers, Answer(x) PROVE HtSetsOK'
  BY <1>29, HtTypes DEF Answer, libOnly, sessionVars, ctrlVars, libVars, HtSetsOK
<1>30. ASSUME NEW d \in Devs, Plug(d) PROVE HtSetsOK'
  BY <1>30, HtTypes DEF Plug, sessionVars, ctrlVars, libVars, HtSetsOK
<1>31. CASE UNCHANGED vars
  BY <1>31, HtTypes DEF vars, sessionVars, ctrlVars, libVars, HtSetsOK
<1> QED BY HtSteps, <1>1, <1>2, <1>3, <1>4, <1>5, <1>6, <1>7, <1>8, <1>9, <1>10, <1>11, <1>12, <1>13, <1>14, <1>15, <1>16, <1>17, <1>18, <1>19, <1>20, <1>21, <1>22, <1>23, <1>24, <1>25, <1>26, <1>27, <1>28, <1>29, <1>30, <1>31

\* Every step keeps the library.
LEMMA HtLibKept ==
    ASSUME TypeOK, [Next]_vars
    PROVE  HtLibOK'
<1>1. CASE StartAtOnce
  BY <1>1, HtTypes DEF StartAtOnce, sessionVars, ctrlVars, libVars, HtLibOK
<1>2. CASE Start
  BY <1>2, HtTypes DEF Start, sessionVars, ctrlVars, libVars, HtLibOK
<1>3. CASE StartEnds
  BY <1>3, HtTypes DEF StartEnds, sessionVars, ctrlVars, libVars, HtLibOK
<1>4. ASSUME NEW d \in Devs, NEW x \in Xfers, Ctrl(d, x) PROVE HtLibOK'
  BY <1>4, HtTypes DEF Ctrl, sessionVars, ctrlVars, libVars, HtLibOK
<1>5. CASE WaitEnds
  BY <1>5, HtTypes DEF WaitEnds, sessionVars, ctrlVars, libVars, HtLibOK
<1>6. CASE Answered
  BY <1>6, HtTypes DEF Answered, sessionVars, ctrlVars, libVars, HtLibOK
<1>7. CASE Abandon
  BY <1>7, HtTypes DEF Abandon, sessionVars, ctrlVars, libVars, HtLibOK
<1>8. CASE Stop
  BY <1>8, HtTypes DEF Stop, sessionVars, ctrlVars, libVars, HtLibOK
<1>9. CASE StopEnds
  BY <1>9, HtTypes DEF StopEnds, sessionVars, ctrlVars, libVars, HtLibOK
<1>10. CASE Install
  BY <1>10, HtTypes DEF Install, GoTo, sessionVars, ctrlVars, libVars, HtLibOK
<1>11. CASE Verdict
  BY <1>11, HtTypes DEF Verdict, GoTo, sessionVars, ctrlVars, libVars, HtLibOK
<1>12. CASE LoopEnds
  BY <1>12, HtTypes DEF LoopEnds, GoTo, sessionVars, ctrlVars, libVars, HtLibOK
<1>13. ASSUME NEW d \in Devs, TearClose(d) PROVE HtLibOK'
  BY <1>13, HtTypes DEF TearClose, Close, sessionVars, ctrlVars, libVars, HtLibOK
<1>14. ASSUME NEW d \in Devs, TearRetire(d) PROVE HtLibOK'
  BY <1>14, HtTypes DEF TearRetire, sessionVars, ctrlVars, libVars, HtLibOK
<1>15. CASE RetireEnds
  BY <1>15, HtTypes DEF RetireEnds, Close, sessionVars, ctrlVars, libVars, HtLibOK
<1>16. CASE TearEnds
  BY <1>16, HtTypes DEF TearEnds, GoTo, sessionVars, ctrlVars, libVars, HtLibOK
<1>17. CASE DrainEnds
  BY <1>17, HtTypes DEF DrainEnds, GoTo, sessionVars, ctrlVars, libVars, HtLibOK
<1>18. CASE Deregister
  BY <1>18, HtTypes DEF Deregister, GoTo, sessionVars, ctrlVars, libVars, HtLibOK
<1>19. CASE AwaitEnds
  BY <1>19, HtTypes DEF AwaitEnds, GoTo, sessionVars, ctrlVars, libVars, HtLibOK
<1>20. CASE Hang
  BY <1>20, HtTypes DEF Hang, GoTo, sessionVars, ctrlVars, libVars, HtLibOK
<1>21. CASE ReleaseEnds
  BY <1>21, HtTypes DEF ReleaseEnds, GoTo, sessionVars, ctrlVars, libVars, HtLibOK
<1>22. CASE Last
  BY <1>22, HtTypes DEF Last, GoTo, Uninstall, sessionVars, ctrlVars, libVars, HtLibOK
<1>23. CASE Exit
  BY <1>23, HtTypes DEF Exit, GoTo, sessionVars, ctrlVars, libVars, HtLibOK
<1>24. ASSUME NEW x \in Xfers, Callback(x) PROVE HtLibOK'
  BY <1>24, HtTypes DEF Callback, ClientPumped, sessionVars, ctrlVars, libVars, HtLibOK
<1>25. ASSUME NEW d \in Devs, NewDev(d) PROVE HtLibOK'
  BY <1>25, HtTypes DEF NewDev, ClientPumped, sessionVars, ctrlVars, libVars, HtLibOK
<1>26. ASSUME NEW d \in Devs, DevGone(d) PROVE HtLibOK'
  BY <1>26, HtTypes DEF DevGone, ClientPumped, Close, sessionVars, ctrlVars, libVars, HtLibOK
<1>27. ASSUME NEW d \in Devs, Enumerate(d) PROVE HtLibOK'
  BY <1>27, HtTypes DEF Enumerate, LibPumped, libOnly, sessionVars, ctrlVars, libVars, HtLibOK
<1>28. ASSUME NEW d \in Devs, Disconnect(d) PROVE HtLibOK'
  BY <1>28, HtTypes DEF Disconnect, LibPumped, libOnly, sessionVars, ctrlVars, libVars, HtLibOK
<1>29. ASSUME NEW x \in Xfers, Answer(x) PROVE HtLibOK'
  BY <1>29, HtTypes DEF Answer, libOnly, sessionVars, ctrlVars, libVars, HtLibOK
<1>30. ASSUME NEW d \in Devs, Plug(d) PROVE HtLibOK'
  BY <1>30, HtTypes DEF Plug, sessionVars, ctrlVars, libVars, HtLibOK
<1>31. CASE UNCHANGED vars
  BY <1>31, HtTypes DEF vars, sessionVars, ctrlVars, libVars, HtLibOK
<1> QED BY HtSteps, <1>1, <1>2, <1>3, <1>4, <1>5, <1>6, <1>7, <1>8, <1>9, <1>10, <1>11, <1>12, <1>13, <1>14, <1>15, <1>16, <1>17, <1>18, <1>19, <1>20, <1>21, <1>22, <1>23, <1>24, <1>25, <1>26, <1>27, <1>28, <1>29, <1>30, <1>31

-----------------------------------------------------------------------------

\* Every step keeps where the task and the caller can be at once.
LEMMA HtPlacesKept ==
    ASSUME HtInv, [Next]_vars
    PROVE  HtPlaces'
<1>1. CASE StartAtOnce
  BY <1>1 DEF StartAtOnce, sessionVars, ctrlVars, libVars, HtInv, TypeOK, HtPlaces, HtOpen, InCall, InTeardown
<1>2. CASE Start
  BY <1>2 DEF Start, sessionVars, ctrlVars, libVars, HtInv, TypeOK, HtPlaces, HtOpen, InCall, InTeardown
<1>3. CASE StartEnds
  BY <1>3 DEF StartEnds, sessionVars, ctrlVars, libVars, HtInv, TypeOK, HtPlaces, HtOpen, InCall, InTeardown
<1>4. ASSUME NEW d \in Devs, NEW x \in Xfers, Ctrl(d, x) PROVE HtPlaces'
  BY <1>4 DEF Ctrl, sessionVars, ctrlVars, libVars, HtInv, TypeOK, HtPlaces, HtOpen, InCall, InTeardown
<1>5. CASE WaitEnds
  BY <1>5 DEF WaitEnds, sessionVars, ctrlVars, libVars, HtInv, TypeOK, HtPlaces, HtOpen, InCall, InTeardown
<1>6. CASE Answered
  BY <1>6 DEF Answered, sessionVars, ctrlVars, libVars, HtInv, TypeOK, HtPlaces, HtOpen, InCall, InTeardown
<1>7. CASE Abandon
  BY <1>7 DEF Abandon, sessionVars, ctrlVars, libVars, HtInv, TypeOK, HtPlaces, HtOpen, InCall, InTeardown
<1>8. CASE Stop
  BY <1>8 DEF Stop, sessionVars, ctrlVars, libVars, HtInv, TypeOK, HtPlaces, HtOpen, InCall, InTeardown
<1>9. CASE StopEnds
  BY <1>9 DEF StopEnds, sessionVars, ctrlVars, libVars, HtInv, TypeOK, HtPlaces, HtOpen, InCall, InTeardown
<1>10. CASE Install
  BY <1>10 DEF Install, GoTo, sessionVars, ctrlVars, libVars, HtInv, TypeOK, HtPlaces, HtOpen, InCall, InTeardown
<1>11. CASE Verdict
  BY <1>11 DEF Verdict, GoTo, sessionVars, ctrlVars, libVars, HtInv, TypeOK, HtPlaces, HtOpen, InCall, InTeardown
<1>12. CASE LoopEnds
  BY <1>12 DEF LoopEnds, GoTo, sessionVars, ctrlVars, libVars, HtInv, TypeOK, HtPlaces, HtOpen, InCall, InTeardown
<1>13. ASSUME NEW d \in Devs, TearClose(d) PROVE HtPlaces'
  BY <1>13 DEF TearClose, Close, sessionVars, ctrlVars, libVars, HtInv, TypeOK, HtPlaces, HtOpen, InCall, InTeardown
<1>14. ASSUME NEW d \in Devs, TearRetire(d) PROVE HtPlaces'
  BY <1>14 DEF TearRetire, sessionVars, ctrlVars, libVars, HtInv, TypeOK, HtPlaces, HtOpen, InCall, InTeardown
<1>15. CASE RetireEnds
  BY <1>15 DEF RetireEnds, Close, sessionVars, ctrlVars, libVars, HtInv, TypeOK, HtPlaces, HtOpen, InCall, InTeardown
<1>16. CASE TearEnds
  BY <1>16 DEF TearEnds, GoTo, sessionVars, ctrlVars, libVars, HtInv, TypeOK, HtPlaces, HtOpen, InCall, InTeardown
<1>17. CASE DrainEnds
  BY <1>17 DEF DrainEnds, GoTo, sessionVars, ctrlVars, libVars, HtInv, TypeOK, HtPlaces, HtOpen, InCall, InTeardown
<1>18. CASE Deregister
  BY <1>18 DEF Deregister, GoTo, sessionVars, ctrlVars, libVars, HtInv, TypeOK, HtPlaces, HtOpen, InCall, InTeardown
<1>19. CASE AwaitEnds
  BY <1>19 DEF AwaitEnds, GoTo, sessionVars, ctrlVars, libVars, HtInv, TypeOK, HtPlaces, HtOpen, InCall, InTeardown
<1>20. CASE Hang
  BY <1>20 DEF Hang, GoTo, sessionVars, ctrlVars, libVars, HtInv, TypeOK, HtPlaces, HtOpen, InCall, InTeardown
<1>21. CASE ReleaseEnds
  BY <1>21 DEF ReleaseEnds, GoTo, sessionVars, ctrlVars, libVars, HtInv, TypeOK, HtPlaces, HtOpen, InCall, InTeardown
<1>22. CASE Last
  BY <1>22 DEF Last, GoTo, Uninstall, sessionVars, ctrlVars, libVars, HtInv, TypeOK, HtPlaces, HtOpen, InCall, InTeardown
<1>23. CASE Exit
  BY <1>23 DEF Exit, GoTo, sessionVars, ctrlVars, libVars, HtInv, TypeOK, HtPlaces, HtOpen, InCall, InTeardown
<1>24. ASSUME NEW x \in Xfers, Callback(x) PROVE HtPlaces'
  BY <1>24 DEF Callback, ClientPumped, sessionVars, ctrlVars, libVars, HtInv, TypeOK, HtPlaces, HtOpen, InCall, InTeardown
<1>25. ASSUME NEW d \in Devs, NewDev(d) PROVE HtPlaces'
  BY <1>25 DEF NewDev, ClientPumped, sessionVars, ctrlVars, libVars, HtInv, TypeOK, HtPlaces, HtOpen, InCall, InTeardown
<1>26. ASSUME NEW d \in Devs, DevGone(d) PROVE HtPlaces'
  BY <1>26 DEF DevGone, ClientPumped, Close, sessionVars, ctrlVars, libVars, HtInv, TypeOK, HtPlaces, HtOpen, InCall, InTeardown
<1>27. ASSUME NEW d \in Devs, Enumerate(d) PROVE HtPlaces'
  BY <1>27 DEF Enumerate, LibPumped, libOnly, sessionVars, ctrlVars, libVars, HtInv, TypeOK, HtPlaces, HtOpen, InCall, InTeardown
<1>28. ASSUME NEW d \in Devs, Disconnect(d) PROVE HtPlaces'
  BY <1>28 DEF Disconnect, LibPumped, libOnly, sessionVars, ctrlVars, libVars, HtInv, TypeOK, HtPlaces, HtOpen, InCall, InTeardown
<1>29. ASSUME NEW x \in Xfers, Answer(x) PROVE HtPlaces'
  BY <1>29 DEF Answer, libOnly, sessionVars, ctrlVars, libVars, HtInv, TypeOK, HtPlaces, HtOpen, InCall, InTeardown
<1>30. ASSUME NEW d \in Devs, Plug(d) PROVE HtPlaces'
  BY <1>30 DEF Plug, sessionVars, ctrlVars, libVars, HtInv, TypeOK, HtPlaces, HtOpen, InCall, InTeardown
<1>31. CASE UNCHANGED vars
  BY <1>31 DEF vars, sessionVars, ctrlVars, libVars, HtInv, TypeOK, HtPlaces, HtOpen, InCall, InTeardown
<1> QED BY HtSteps, <1>1, <1>2, <1>3, <1>4, <1>5, <1>6, <1>7, <1>8, <1>9, <1>10, <1>11, <1>12, <1>13, <1>14, <1>15, <1>16, <1>17, <1>18, <1>19, <1>20, <1>21, <1>22, <1>23, <1>24, <1>25, <1>26, <1>27, <1>28, <1>29, <1>30, <1>31

\* Every step keeps when a device can be open.
LEMMA HtOpenKept ==
    ASSUME HtInv, [Next]_vars
    PROVE  HtOpen'
<1>1. CASE StartAtOnce
  BY <1>1 DEF StartAtOnce, sessionVars, ctrlVars, libVars, HtInv, TypeOK, HtPlaces, HtOpen, InCall, InTeardown
<1>2. CASE Start
  BY <1>2 DEF Start, sessionVars, ctrlVars, libVars, HtInv, TypeOK, HtPlaces, HtOpen, InCall, InTeardown
<1>3. CASE StartEnds
  BY <1>3 DEF StartEnds, sessionVars, ctrlVars, libVars, HtInv, TypeOK, HtPlaces, HtOpen, InCall, InTeardown
<1>4. ASSUME NEW d \in Devs, NEW x \in Xfers, Ctrl(d, x) PROVE HtOpen'
  BY <1>4 DEF Ctrl, sessionVars, ctrlVars, libVars, HtInv, TypeOK, HtPlaces, HtOpen, InCall, InTeardown
<1>5. CASE WaitEnds
  BY <1>5 DEF WaitEnds, sessionVars, ctrlVars, libVars, HtInv, TypeOK, HtPlaces, HtOpen, InCall, InTeardown
<1>6. CASE Answered
  BY <1>6 DEF Answered, sessionVars, ctrlVars, libVars, HtInv, TypeOK, HtPlaces, HtOpen, InCall, InTeardown
<1>7. CASE Abandon
  BY <1>7 DEF Abandon, sessionVars, ctrlVars, libVars, HtInv, TypeOK, HtPlaces, HtOpen, InCall, InTeardown
<1>8. CASE Stop
  BY <1>8 DEF Stop, sessionVars, ctrlVars, libVars, HtInv, TypeOK, HtPlaces, HtOpen, InCall, InTeardown
<1>9. CASE StopEnds
  BY <1>9 DEF StopEnds, sessionVars, ctrlVars, libVars, HtInv, TypeOK, HtPlaces, HtOpen, InCall, InTeardown
<1>10. CASE Install
  BY <1>10 DEF Install, GoTo, sessionVars, ctrlVars, libVars, HtInv, TypeOK, HtPlaces, HtOpen, InCall, InTeardown
<1>11. CASE Verdict
  BY <1>11 DEF Verdict, GoTo, sessionVars, ctrlVars, libVars, HtInv, TypeOK, HtPlaces, HtOpen, InCall, InTeardown
<1>12. CASE LoopEnds
  BY <1>12 DEF LoopEnds, GoTo, sessionVars, ctrlVars, libVars, HtInv, TypeOK, HtPlaces, HtOpen, InCall, InTeardown
<1>13. ASSUME NEW d \in Devs, TearClose(d) PROVE HtOpen'
  BY <1>13 DEF TearClose, Close, sessionVars, ctrlVars, libVars, HtInv, TypeOK, HtPlaces, HtOpen, InCall, InTeardown
<1>14. ASSUME NEW d \in Devs, TearRetire(d) PROVE HtOpen'
  BY <1>14 DEF TearRetire, sessionVars, ctrlVars, libVars, HtInv, TypeOK, HtPlaces, HtOpen, InCall, InTeardown
<1>15. CASE RetireEnds
  BY <1>15 DEF RetireEnds, Close, sessionVars, ctrlVars, libVars, HtInv, TypeOK, HtPlaces, HtOpen, InCall, InTeardown
<1>16. CASE TearEnds
  BY <1>16 DEF TearEnds, GoTo, sessionVars, ctrlVars, libVars, HtInv, TypeOK, HtPlaces, HtOpen, InCall, InTeardown
<1>17. CASE DrainEnds
  BY <1>17 DEF DrainEnds, GoTo, sessionVars, ctrlVars, libVars, HtInv, TypeOK, HtPlaces, HtOpen, InCall, InTeardown
<1>18. CASE Deregister
  BY <1>18 DEF Deregister, GoTo, sessionVars, ctrlVars, libVars, HtInv, TypeOK, HtPlaces, HtOpen, InCall, InTeardown
<1>19. CASE AwaitEnds
  BY <1>19 DEF AwaitEnds, GoTo, sessionVars, ctrlVars, libVars, HtInv, TypeOK, HtPlaces, HtOpen, InCall, InTeardown
<1>20. CASE Hang
  BY <1>20 DEF Hang, GoTo, sessionVars, ctrlVars, libVars, HtInv, TypeOK, HtPlaces, HtOpen, InCall, InTeardown
<1>21. CASE ReleaseEnds
  BY <1>21 DEF ReleaseEnds, GoTo, sessionVars, ctrlVars, libVars, HtInv, TypeOK, HtPlaces, HtOpen, InCall, InTeardown
<1>22. CASE Last
  BY <1>22 DEF Last, GoTo, Uninstall, sessionVars, ctrlVars, libVars, HtInv, TypeOK, HtPlaces, HtOpen, InCall, InTeardown
<1>23. CASE Exit
  BY <1>23 DEF Exit, GoTo, sessionVars, ctrlVars, libVars, HtInv, TypeOK, HtPlaces, HtOpen, InCall, InTeardown
<1>24. ASSUME NEW x \in Xfers, Callback(x) PROVE HtOpen'
  BY <1>24 DEF Callback, ClientPumped, sessionVars, ctrlVars, libVars, HtInv, TypeOK, HtPlaces, HtOpen, InCall, InTeardown
<1>25. ASSUME NEW d \in Devs, NewDev(d) PROVE HtOpen'
  BY <1>25 DEF NewDev, ClientPumped, sessionVars, ctrlVars, libVars, HtInv, TypeOK, HtPlaces, HtOpen, InCall, InTeardown
<1>26. ASSUME NEW d \in Devs, DevGone(d) PROVE HtOpen'
  BY <1>26 DEF DevGone, ClientPumped, Close, sessionVars, ctrlVars, libVars, HtInv, TypeOK, HtPlaces, HtOpen, InCall, InTeardown
<1>27. ASSUME NEW d \in Devs, Enumerate(d) PROVE HtOpen'
  BY <1>27 DEF Enumerate, LibPumped, libOnly, sessionVars, ctrlVars, libVars, HtInv, TypeOK, HtPlaces, HtOpen, InCall, InTeardown
<1>28. ASSUME NEW d \in Devs, Disconnect(d) PROVE HtOpen'
  BY <1>28 DEF Disconnect, LibPumped, libOnly, sessionVars, ctrlVars, libVars, HtInv, TypeOK, HtPlaces, HtOpen, InCall, InTeardown
<1>29. ASSUME NEW x \in Xfers, Answer(x) PROVE HtOpen'
  BY <1>29 DEF Answer, libOnly, sessionVars, ctrlVars, libVars, HtInv, TypeOK, HtPlaces, HtOpen, InCall, InTeardown
<1>30. ASSUME NEW d \in Devs, Plug(d) PROVE HtOpen'
  BY <1>30 DEF Plug, sessionVars, ctrlVars, libVars, HtInv, TypeOK, HtPlaces, HtOpen, InCall, InTeardown
<1>31. CASE UNCHANGED vars
  BY <1>31 DEF vars, sessionVars, ctrlVars, libVars, HtInv, TypeOK, HtPlaces, HtOpen, InCall, InTeardown
<1> QED BY HtSteps, <1>1, <1>2, <1>3, <1>4, <1>5, <1>6, <1>7, <1>8, <1>9, <1>10, <1>11, <1>12, <1>13, <1>14, <1>15, <1>16, <1>17, <1>18, <1>19, <1>20, <1>21, <1>22, <1>23, <1>24, <1>25, <1>26, <1>27, <1>28, <1>29, <1>30, <1>31

\* Every step keeps what a call knows of its transfer.
LEMMA HtCallKept ==
    ASSUME HtInv, [Next]_vars
    PROVE  HtCall'
<1>1. CASE StartAtOnce
  BY <1>1, HostTaskAssumption DEF StartAtOnce, sessionVars, ctrlVars, libVars, HtInv, TypeOK, HtPlaces, HtOpen, HtCall, InCall, WithLibrary
<1>2. CASE Start
  BY <1>2, HostTaskAssumption DEF Start, sessionVars, ctrlVars, libVars, HtInv, TypeOK, HtPlaces, HtOpen, HtCall, InCall, WithLibrary
<1>3. CASE StartEnds
  BY <1>3, HostTaskAssumption DEF StartEnds, sessionVars, ctrlVars, libVars, HtInv, TypeOK, HtPlaces, HtOpen, HtCall, InCall, WithLibrary
<1>4. ASSUME NEW d \in Devs, NEW x \in Xfers, Ctrl(d, x) PROVE HtCall'
  BY <1>4, HostTaskAssumption DEF Ctrl, sessionVars, ctrlVars, libVars, HtInv, TypeOK, HtPlaces, HtOpen, HtCall, InCall, WithLibrary
<1>5. CASE WaitEnds
  BY <1>5, HostTaskAssumption DEF WaitEnds, sessionVars, ctrlVars, libVars, HtInv, TypeOK, HtPlaces, HtOpen, HtCall, InCall, WithLibrary
<1>6. CASE Answered
  BY <1>6, HostTaskAssumption DEF Answered, sessionVars, ctrlVars, libVars, HtInv, TypeOK, HtPlaces, HtOpen, HtCall, InCall, WithLibrary
<1>7. CASE Abandon
  <2>1. cur \in alloc \ tagged /\ cur \in Xfers /\ api = "late"
    BY <1>7, HostTaskAssumption DEF Abandon, HtInv, HtCall, InCall, TypeOK
  <2>2. /\ abandoned' = abandoned + 1 /\ tagged' = tagged \cup {cur} /\ api' = "idle"
        /\ ~ctrl_busy' /\ alloc' = alloc /\ where' = where
    BY <1>7 DEF Abandon, libVars
  <2>3. abandoned' = Cardinality(tagged')
    BY <2>1, <2>2, HtTags DEF HtInv, HtCall
  <2>4. \A x \in Xfers : WithLibrary(x)' => x \in alloc' /\ x \in tagged'
    BY <2>1, <2>2 DEF HtInv, HtCall, WithLibrary
  <2> QED BY <2>2, <2>3, <2>4 DEF HtCall, InCall
<1>8. CASE Stop
  BY <1>8, HostTaskAssumption DEF Stop, sessionVars, ctrlVars, libVars, HtInv, TypeOK, HtPlaces, HtOpen, HtCall, InCall, WithLibrary
<1>9. CASE StopEnds
  BY <1>9, HostTaskAssumption DEF StopEnds, sessionVars, ctrlVars, libVars, HtInv, TypeOK, HtPlaces, HtOpen, HtCall, InCall, WithLibrary
<1>10. CASE Install
  BY <1>10, HostTaskAssumption DEF Install, GoTo, sessionVars, ctrlVars, libVars, HtInv, TypeOK, HtPlaces, HtOpen, HtCall, InCall, WithLibrary
<1>11. CASE Verdict
  BY <1>11, HostTaskAssumption DEF Verdict, GoTo, sessionVars, ctrlVars, libVars, HtInv, TypeOK, HtPlaces, HtOpen, HtCall, InCall, WithLibrary
<1>12. CASE LoopEnds
  BY <1>12, HostTaskAssumption DEF LoopEnds, GoTo, sessionVars, ctrlVars, libVars, HtInv, TypeOK, HtPlaces, HtOpen, HtCall, InCall, WithLibrary
<1>13. ASSUME NEW d \in Devs, TearClose(d) PROVE HtCall'
  BY <1>13, HostTaskAssumption DEF TearClose, Close, sessionVars, ctrlVars, libVars, HtInv, TypeOK, HtPlaces, HtOpen, HtCall, InCall, WithLibrary
<1>14. ASSUME NEW d \in Devs, TearRetire(d) PROVE HtCall'
  BY <1>14, HostTaskAssumption DEF TearRetire, sessionVars, ctrlVars, libVars, HtInv, TypeOK, HtPlaces, HtOpen, HtCall, InCall, WithLibrary
<1>15. CASE RetireEnds
  BY <1>15, HostTaskAssumption DEF RetireEnds, Close, sessionVars, ctrlVars, libVars, HtInv, TypeOK, HtPlaces, HtOpen, HtCall, InCall, WithLibrary
<1>16. CASE TearEnds
  BY <1>16, HostTaskAssumption DEF TearEnds, GoTo, sessionVars, ctrlVars, libVars, HtInv, TypeOK, HtPlaces, HtOpen, HtCall, InCall, WithLibrary
<1>17. CASE DrainEnds
  BY <1>17, HostTaskAssumption DEF DrainEnds, GoTo, sessionVars, ctrlVars, libVars, HtInv, TypeOK, HtPlaces, HtOpen, HtCall, InCall, WithLibrary
<1>18. CASE Deregister
  BY <1>18, HostTaskAssumption DEF Deregister, GoTo, sessionVars, ctrlVars, libVars, HtInv, TypeOK, HtPlaces, HtOpen, HtCall, InCall, WithLibrary
<1>19. CASE AwaitEnds
  BY <1>19, HostTaskAssumption DEF AwaitEnds, GoTo, sessionVars, ctrlVars, libVars, HtInv, TypeOK, HtPlaces, HtOpen, HtCall, InCall, WithLibrary
<1>20. CASE Hang
  BY <1>20, HostTaskAssumption DEF Hang, GoTo, sessionVars, ctrlVars, libVars, HtInv, TypeOK, HtPlaces, HtOpen, HtCall, InCall, WithLibrary
<1>21. CASE ReleaseEnds
  BY <1>21, HostTaskAssumption DEF ReleaseEnds, GoTo, sessionVars, ctrlVars, libVars, HtInv, TypeOK, HtPlaces, HtOpen, HtCall, InCall, WithLibrary
<1>22. CASE Last
  BY <1>22, HostTaskAssumption DEF Last, GoTo, Uninstall, sessionVars, ctrlVars, libVars, HtInv, TypeOK, HtPlaces, HtOpen, HtCall, InCall, WithLibrary
<1>23. CASE Exit
  BY <1>23, HostTaskAssumption DEF Exit, GoTo, sessionVars, ctrlVars, libVars, HtInv, TypeOK, HtPlaces, HtOpen, HtCall, InCall, WithLibrary
<1>24. ASSUME NEW x \in Xfers, Callback(x) PROVE HtCall'
  <2>1. /\ where[x] = "done" /\ where' = [where EXCEPT ![x] = "none"]
        /\ api' = api /\ cur' = cur
    BY <1>24 DEF Callback, sessionVars
  <2>2. WithLibrary(x) /\ ~WithLibrary(x)' /\ \A y \in Xfers : y # x => (WithLibrary(y)' <=> WithLibrary(y))
    BY <2>1 DEF WithLibrary, HtInv, TypeOK
  <2>3. CASE x \in tagged
    <3>1. /\ tagged' = tagged \ {x} /\ abandoned' = abandoned - 1 /\ alloc' = alloc \ {x}
          /\ ctrl_busy' = ctrl_busy /\ ctrl_done' = ctrl_done
      BY <1>24, <2>3 DEF Callback
    <3>2. abandoned' = Cardinality(tagged')
      BY <2>3, <3>1, HtTags DEF HtInv, HtCall
    <3>3. api \in InCall => cur # x /\ cur \in Xfers /\ (WithLibrary(cur)' <=> WithLibrary(cur))
      <4> SUFFICES ASSUME api \in InCall PROVE cur # x /\ cur \in Xfers /\ (WithLibrary(cur)' <=> WithLibrary(cur))
        OBVIOUS
      <4>1. cur \in alloc \ tagged /\ cur \in Xfers
        BY DEF HtInv, HtCall, TypeOK
      <4> QED BY <2>1, <2>2, <2>3, <4>1 DEF WithLibrary
    <3> QED BY <2>1, <2>2, <2>3, <3>1, <3>2, <3>3 DEF HtInv, HtCall, InCall
  <2>4. CASE x \notin tagged
    <3>1. /\ tagged' = tagged /\ abandoned' = abandoned /\ alloc' = alloc
          /\ ~ctrl_busy' /\ ctrl_done'
      BY <1>24, <2>4 DEF Callback
    <3>2. x = cur /\ api \in {"waiting", "late"}
      BY <2>2, <2>4 DEF HtInv, HtCall
    <3>3. ~WithLibrary(cur)'
      BY <2>1, <2>2, <3>2 DEF WithLibrary
    <3> QED BY <2>1, <2>2, <3>1, <3>2, <3>3 DEF HtInv, HtCall, InCall
  <2> QED BY <2>3, <2>4
<1>25. ASSUME NEW d \in Devs, NewDev(d) PROVE HtCall'
  BY <1>25, HostTaskAssumption DEF NewDev, ClientPumped, sessionVars, ctrlVars, libVars, HtInv, TypeOK, HtPlaces, HtOpen, HtCall, InCall, WithLibrary
<1>26. ASSUME NEW d \in Devs, DevGone(d) PROVE HtCall'
  BY <1>26, HostTaskAssumption DEF DevGone, ClientPumped, Close, sessionVars, ctrlVars, libVars, HtInv, TypeOK, HtPlaces, HtOpen, HtCall, InCall, WithLibrary
<1>27. ASSUME NEW d \in Devs, Enumerate(d) PROVE HtCall'
  BY <1>27, HostTaskAssumption DEF Enumerate, LibPumped, libOnly, sessionVars, ctrlVars, libVars, HtInv, TypeOK, HtPlaces, HtOpen, HtCall, InCall, WithLibrary
<1>28. ASSUME NEW d \in Devs, Disconnect(d) PROVE HtCall'
  BY <1>28, HostTaskAssumption DEF Disconnect, LibPumped, libOnly, sessionVars, ctrlVars, libVars, HtInv, TypeOK, HtPlaces, HtOpen, HtCall, InCall, WithLibrary
<1>29. ASSUME NEW x \in Xfers, Answer(x) PROVE HtCall'
  BY <1>29, HostTaskAssumption DEF Answer, libOnly, sessionVars, ctrlVars, libVars, HtInv, TypeOK, HtPlaces, HtOpen, HtCall, InCall, WithLibrary
<1>30. ASSUME NEW d \in Devs, Plug(d) PROVE HtCall'
  BY <1>30, HostTaskAssumption DEF Plug, sessionVars, ctrlVars, libVars, HtInv, TypeOK, HtPlaces, HtOpen, HtCall, InCall, WithLibrary
<1>31. CASE UNCHANGED vars
  BY <1>31, HostTaskAssumption DEF vars, sessionVars, ctrlVars, libVars, HtInv, TypeOK, HtPlaces, HtOpen, HtCall, InCall, WithLibrary
<1> QED BY HtSteps, <1>1, <1>2, <1>3, <1>4, <1>5, <1>6, <1>7, <1>8, <1>9, <1>10, <1>11, <1>12, <1>13, <1>14, <1>15, <1>16, <1>17, <1>18, <1>19, <1>20, <1>21, <1>22, <1>23, <1>24, <1>25, <1>26, <1>27, <1>28, <1>29, <1>30, <1>31

\* Every step keeps what is left between sessions.
LEMMA HtLeftKept ==
    ASSUME HtInv, [Next]_vars
    PROVE  HtLeft'
<1>1. CASE StartAtOnce
  BY <1>1, HtTags DEF StartAtOnce, sessionVars, ctrlVars, libVars, HtInv, TypeOK, HtPlaces, HtOpen, HtCall, HtLeft, InCall, InTeardown, Held
<1>2. CASE Start
  BY <1>2, HtTags DEF Start, sessionVars, ctrlVars, libVars, HtInv, TypeOK, HtPlaces, HtOpen, HtCall, HtLeft, InCall, InTeardown, Held
<1>3. CASE StartEnds
  BY <1>3, HtTags DEF StartEnds, sessionVars, ctrlVars, libVars, HtInv, TypeOK, HtPlaces, HtOpen, HtCall, HtLeft, InCall, InTeardown, Held
<1>4. ASSUME NEW d \in Devs, NEW x \in Xfers, Ctrl(d, x) PROVE HtLeft'
  BY <1>4, HtTags DEF Ctrl, sessionVars, ctrlVars, libVars, HtInv, TypeOK, HtPlaces, HtOpen, HtCall, HtLeft, InCall, InTeardown, Held
<1>5. CASE WaitEnds
  BY <1>5, HtTags DEF WaitEnds, sessionVars, ctrlVars, libVars, HtInv, TypeOK, HtPlaces, HtOpen, HtCall, HtLeft, InCall, InTeardown, Held
<1>6. CASE Answered
  BY <1>6, HtTags DEF Answered, sessionVars, ctrlVars, libVars, HtInv, TypeOK, HtPlaces, HtOpen, HtCall, HtLeft, InCall, InTeardown, Held
<1>7. CASE Abandon
  BY <1>7, HtTags DEF Abandon, sessionVars, ctrlVars, libVars, HtInv, TypeOK, HtPlaces, HtOpen, HtCall, HtLeft, InCall, InTeardown, Held
<1>8. CASE Stop
  BY <1>8, HtTags DEF Stop, sessionVars, ctrlVars, libVars, HtInv, TypeOK, HtPlaces, HtOpen, HtCall, HtLeft, InCall, InTeardown, Held
<1>9. CASE StopEnds
  BY <1>9, HtTags DEF StopEnds, sessionVars, ctrlVars, libVars, HtInv, TypeOK, HtPlaces, HtOpen, HtCall, HtLeft, InCall, InTeardown, Held
<1>10. CASE Install
  BY <1>10, HtTags DEF Install, GoTo, sessionVars, ctrlVars, libVars, HtInv, TypeOK, HtPlaces, HtOpen, HtCall, HtLeft, InCall, InTeardown, Held
<1>11. CASE Verdict
  BY <1>11, HtTags DEF Verdict, GoTo, sessionVars, ctrlVars, libVars, HtInv, TypeOK, HtPlaces, HtOpen, HtCall, HtLeft, InCall, InTeardown, Held
<1>12. CASE LoopEnds
  BY <1>12, HtTags DEF LoopEnds, GoTo, sessionVars, ctrlVars, libVars, HtInv, TypeOK, HtPlaces, HtOpen, HtCall, HtLeft, InCall, InTeardown, Held
<1>13. ASSUME NEW d \in Devs, TearClose(d) PROVE HtLeft'
  BY <1>13, HtTags DEF TearClose, Close, sessionVars, ctrlVars, libVars, HtInv, TypeOK, HtPlaces, HtOpen, HtCall, HtLeft, InCall, InTeardown, Held
<1>14. ASSUME NEW d \in Devs, TearRetire(d) PROVE HtLeft'
  BY <1>14, HtTags DEF TearRetire, sessionVars, ctrlVars, libVars, HtInv, TypeOK, HtPlaces, HtOpen, HtCall, HtLeft, InCall, InTeardown, Held
<1>15. CASE RetireEnds
  BY <1>15, HtTags DEF RetireEnds, Close, sessionVars, ctrlVars, libVars, HtInv, TypeOK, HtPlaces, HtOpen, HtCall, HtLeft, InCall, InTeardown, Held
<1>16. CASE TearEnds
  BY <1>16, HtTags DEF TearEnds, GoTo, sessionVars, ctrlVars, libVars, HtInv, TypeOK, HtPlaces, HtOpen, HtCall, HtLeft, InCall, InTeardown, Held
<1>17. CASE DrainEnds
  BY <1>17, HtTags DEF DrainEnds, GoTo, sessionVars, ctrlVars, libVars, HtInv, TypeOK, HtPlaces, HtOpen, HtCall, HtLeft, InCall, InTeardown, Held
<1>18. CASE Deregister
  BY <1>18, HtTags DEF Deregister, GoTo, sessionVars, ctrlVars, libVars, HtInv, TypeOK, HtPlaces, HtOpen, HtCall, HtLeft, InCall, InTeardown, Held
<1>19. CASE AwaitEnds
  BY <1>19, HtTags DEF AwaitEnds, GoTo, sessionVars, ctrlVars, libVars, HtInv, TypeOK, HtPlaces, HtOpen, HtCall, HtLeft, InCall, InTeardown, Held
<1>20. CASE Hang
  BY <1>20, HtTags DEF Hang, GoTo, sessionVars, ctrlVars, libVars, HtInv, TypeOK, HtPlaces, HtOpen, HtCall, HtLeft, InCall, InTeardown, Held
<1>21. CASE ReleaseEnds
  BY <1>21, HtTags DEF ReleaseEnds, GoTo, sessionVars, ctrlVars, libVars, HtInv, TypeOK, HtPlaces, HtOpen, HtCall, HtLeft, InCall, InTeardown, Held
<1>22. CASE Last
  <2>1. Held = {} /\ task' = "exit" /\ tagged' = tagged
    BY <1>22 DEF Last, GoTo, ctrlVars, HtInv, HtLeft
  <2>2. CASE abandoned > 0
    BY <1>22, <2>1, <2>2 DEF Last, HtLeft
  <2>3. CASE ~(abandoned > 0)
    <3>1. tagged = {}
      BY <2>3, HtTags DEF HtInv, HtCall
    <3>2. \A x \in Xfers : where[x] = "none"
      BY <1>22, <3>1 DEF Last, HtInv, HtPlaces, HtCall, InCall, WithLibrary
    <3>3. ~installed' \/ wedged'
      BY <1>22, <2>1, <2>3, <3>2 DEF Last, Uninstall
    <3> QED BY <2>1, <3>1, <3>3 DEF HtLeft
  <2> QED BY <2>2, <2>3
<1>23. CASE Exit
  BY <1>23, HtTags DEF Exit, GoTo, sessionVars, ctrlVars, libVars, HtInv, TypeOK, HtPlaces, HtOpen, HtCall, HtLeft, InCall, InTeardown, Held
<1>24. ASSUME NEW x \in Xfers, Callback(x) PROVE HtLeft'
  BY <1>24, HtTags DEF Callback, ClientPumped, sessionVars, ctrlVars, libVars, HtInv, TypeOK, HtPlaces, HtOpen, HtCall, HtLeft, InCall, InTeardown, Held
<1>25. ASSUME NEW d \in Devs, NewDev(d) PROVE HtLeft'
  BY <1>25, HtTags DEF NewDev, ClientPumped, sessionVars, ctrlVars, libVars, HtInv, TypeOK, HtPlaces, HtOpen, HtCall, HtLeft, InCall, InTeardown, Held
<1>26. ASSUME NEW d \in Devs, DevGone(d) PROVE HtLeft'
  BY <1>26, HtTags DEF DevGone, ClientPumped, Close, sessionVars, ctrlVars, libVars, HtInv, TypeOK, HtPlaces, HtOpen, HtCall, HtLeft, InCall, InTeardown, Held
<1>27. ASSUME NEW d \in Devs, Enumerate(d) PROVE HtLeft'
  BY <1>27, HtTags DEF Enumerate, LibPumped, libOnly, sessionVars, ctrlVars, libVars, HtInv, TypeOK, HtPlaces, HtOpen, HtCall, HtLeft, InCall, InTeardown, Held
<1>28. ASSUME NEW d \in Devs, Disconnect(d) PROVE HtLeft'
  BY <1>28, HtTags DEF Disconnect, LibPumped, libOnly, sessionVars, ctrlVars, libVars, HtInv, TypeOK, HtPlaces, HtOpen, HtCall, HtLeft, InCall, InTeardown, Held
<1>29. ASSUME NEW x \in Xfers, Answer(x) PROVE HtLeft'
  BY <1>29, HtTags DEF Answer, libOnly, sessionVars, ctrlVars, libVars, HtInv, TypeOK, HtPlaces, HtOpen, HtCall, HtLeft, InCall, InTeardown, Held
<1>30. ASSUME NEW d \in Devs, Plug(d) PROVE HtLeft'
  BY <1>30, HtTags DEF Plug, sessionVars, ctrlVars, libVars, HtInv, TypeOK, HtPlaces, HtOpen, HtCall, HtLeft, InCall, InTeardown, Held
<1>31. CASE UNCHANGED vars
  BY <1>31, HtTags DEF vars, sessionVars, ctrlVars, libVars, HtInv, TypeOK, HtPlaces, HtOpen, HtCall, HtLeft, InCall, InTeardown, Held
<1> QED BY HtSteps, <1>1, <1>2, <1>3, <1>4, <1>5, <1>6, <1>7, <1>8, <1>9, <1>10, <1>11, <1>12, <1>13, <1>14, <1>15, <1>16, <1>17, <1>18, <1>19, <1>20, <1>21, <1>22, <1>23, <1>24, <1>25, <1>26, <1>27, <1>28, <1>29, <1>30, <1>31

\* The invariant holds before the host is started.
LEMMA HtStarts == Init => HtInv
<1> SUFFICES ASSUME Init PROVE HtInv
  OBVIOUS
<1>1. TypeOK
  <2>1. Cardinality(slots) <= MaxDevs
    BY HostTaskAssumption, FS_EmptySet DEF Init
  <2> QED BY <2>1 DEF Init, TypeOK
<1>2. HtPlaces /\ HtOpen /\ HtLeft
  BY DEF Init, HtPlaces, HtOpen, HtLeft, InCall, InTeardown
<1>3. HtCall
  BY FS_EmptySet DEF Init, HtCall, InCall, WithLibrary
<1> QED BY <1>1, <1>2, <1>3 DEF HtInv

\* A step that leaves everything leaves the invariant.
LEMMA HtStays ==
    ASSUME HtInv, [Next]_vars
    PROVE  HtInv'
<1>1. TypeOK /\ HtCall /\ HtWords /\ HtFlags
  BY HtTypes DEF HtInv
<1>2. HtWords' /\ HtFlags' /\ HtRowsOK' /\ HtSetsOK' /\ HtLibOK'
  BY <1>1, HtWordsKept, HtFlagsKept, HtRowsKept, HtSetsKept, HtLibKept
<1>3. TypeOK'
  BY <1>2, HtTypes, PTL
<1>4. HtPlaces' /\ HtOpen' /\ HtCall' /\ HtLeft'
  BY HtPlacesKept, HtOpenKept, HtCallKept, HtLeftKept
<1> QED BY <1>3, <1>4 DEF HtInv

\* What IDF's host library demands of its client holds for any devices and any
\* transfers, whatever is plugged, answered late or given up on: no device is open
\* when the client deregisters, each session finds the library uninstalled or is
\* refused, no transfer the library has is freed, and no call is told the answer
\* to another's. (usbhost_host.c's task, usbhost_host_xfer.c)
THEOREM HostTaskSafe == Spec => []TaskSafe
<1>1. Init => HtInv
  BY HtStarts
<1>2. HtInv /\ [Next]_vars => HtInv'
  BY HtStays
<1>3. HtInv => TaskSafe
  <2> SUFFICES ASSUME HtInv PROVE TaskSafe
    OBVIOUS
  <2>1. TypeOK
    BY DEF HtInv
  <2>2. DeregisterIsClean
    BY DEF HtInv, HtPlaces, HtOpen, InTeardown, DeregisterIsClean, Held
  <2>3. FreshInstall
    BY DEF HtInv, HtPlaces, HtOpen, HtLeft, FreshInstall
  <2>4. LibraryOwnsLiveTransfers
    BY DEF HtInv, HtCall, LibraryOwnsLiveTransfers
  <2>5. AnswerIsOurs
    BY DEF HtInv, HtCall, InCall, AnswerIsOurs
  <2> QED BY <2>1, <2>2, <2>3, <2>4, <2>5 DEF TaskSafe
<1> QED BY <1>1, <1>2, <1>3, PTL DEF Spec
==============================================================================
