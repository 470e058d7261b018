------------------------- MODULE GameSession_proofs -------------------------
(***************************************************************************)
(* What holds of a session of GameSession for any number of games, changes   *)
(* and failures: the request for a state, the memory of the core, the wake-  *)
(* up and the save on the card.                                             *)
(***************************************************************************)
EXTENDS GameSession, TLAPS

Launching == {"evict", "load", "reserve", "boot", "rom", "restore", "resume"}
Leaving == {"join", "persist", "unload", "rearm"}
Gone == {"unload", "rearm"}

-----------------------------------------------------------------------------
(* The inductive invariant, in parts.                                      *)

\* Where the main thread can be in each mode.
Control ==
  /\ mode = "Starting" <=> pc \in Launching
  /\ pc \in {"timer", "reap", "opening"} => mode = "Running"
  /\ pc = "saving" => mode = "Menu"
  /\ pc \in Leaving => mode \in {"Running", "Menu", "Failed"}

\* A request belongs to the game that fades in, or to the restart; the session
\* holds it for its own game.
Requests ==
  /\ loadSlot \in {NoGame, game}
  /\ slot \in {NoGame, IF pending = NoGame THEN relaunch ELSE pending}
  /\ pending # NoGame => mode = "Home"

\* Which part of the core exists at each step.
Stages ==
  /\ romLoaded => core = "rom" /\ pc \notin Launching \cup Gone
  /\ mode \in {"Running", "Menu"} /\ pc \notin Gone => romLoaded
  /\ mode \in {"Home", "Exiting"} \/ pc \in {"evict", "load", "rearm"} => core = "none"
  /\ pc = "reserve" => core \in {"none", "loaded"}
  /\ pc = "boot" => core = "loaded"
  /\ pc = "rom" => core = "initialized"
  /\ pc \in {"restore", "resume"} => core = "rom"

\* The arena and the heap around it.
Memory ==
  /\ core \in {"initialized", "rom"} => arena = 1 /\ session /\ evicted
  /\ pc \in {"load", "reserve"} => arena = 0 /\ ~ready /\ evicted
  /\ pc = "boot" => arena = 1 /\ session /\ evicted
  /\ evicted => (ready <=> arena = 1)
  /\ mode \in {"Home", "Exiting"} /\ pc # "off" => ~evicted

\* The writer works for the game that runs.
Writer ==
  writer = "running" => romLoaded /\ snap.of = game /\ pc # "persist"

\* The save on the card is no newer than the snapshot being written, and that
\* no newer than the SRAM.
Saves ==
  /\ restored /\ (romLoaded \/ pc = "resume") => card[game] <= ram
  /\ writer = "running" => snap.at <= ram
  /\ writer = "running" /\ restored => card[game] <= snap.at
  /\ ram <= time /\ \A g \in Games : card[g] <= time

\* What the core reported is no newer than its SRAM and, without a failure, on
\* the card or on its way there; nothing was reported before the game ran.
Reports ==
  /\ reported <= ram
  /\ ~romLoaded /\ mode # "Exiting" /\ pc \notin Gone => reported = 0
  /\ romLoaded /\ restored /\ faults = 0 =>
       \/ card[game] >= reported \/ pc = "reap"
       \/ writer = "running" /\ snap.at >= reported
  /\ ReportedIsKept

\* The turn in which the console woke up is the last in which the game ran.
Wake ==
  /\ unasked <= 2
  /\ unasked # 0 => events # {}
  /\ unasked = 2 => pc \notin Launching \cup {"update"}

\* Outside Home there is a game.
Players == mode # "Home" => game \in Games

\* Sound is on where a game runs, off from its menu's opening to its end.
Sound ==
  /\ mode = "Running" /\ pc \notin Leaving \cup {"opening"} => audible /\ deferred
  /\ mode \in {"Menu", "Exiting"} \/ pc \in Leaving \cup {"opening"} => ~audible

IInv == TypeOK /\ Control /\ Requests /\ Stages /\ Memory /\ Writer /\ Saves
        /\ Reports /\ Wake /\ Players /\ Sound

LEMMA InitInvariant == Init => IInv
<1> SUFFICES ASSUME Init PROVE IInv
  OBVIOUS
<1>1. /\ {session, romLoaded, ready, evicted, restoring} \subseteq BOOLEAN
      /\ {audible, deferred, quit, restored} \subseteq BOOLEAN
  BY Zenon DEF Init
<1>2. snap = [of |-> NoGame, at |-> 0]
  BY DEF Init, NoSnap
<1>3. TypeOK
  BY <1>1, <1>2, SessionAssumption DEF Init, TypeOK, Time
<1> QED
  BY <1>2, <1>3, SessionAssumption
  DEF Init, IInv, Control, Requests, Stages, Memory, Writer, Saves, Reports,
      ReportedIsKept, Wake, Players, Sound, Launching, Leaving, Gone

LEMMA StepInvariant == IInv /\ [Next]_vars => IInv'
<1> SUFFICES ASSUME IInv, [Next]_vars PROVE IInv'
  OBVIOUS
<1> USE SessionAssumption DEF IInv, TypeOK, Control, Requests, Stages, Memory, Writer, Saves,
    Reports, ReportedIsKept, Wake, Players, Sound, Launching, Leaving, Gone, Time, NoSnap,
    home, launched, machine, sram, memory, saving, output, outside,
    Works, Fails, Changed
<1>1. CASE Launch
  BY <1>1 DEF Launch, AtHome, HomeFrame, LaunchGame, SlotForLaunch
<1>2. CASE LaunchNative
  <2>1. audible' \in BOOLEAN
    BY <1>2, Zenon DEF LaunchNative, AtHome, HomeFrame
  <2> QED
    BY <1>2, <2>1 DEF LaunchNative, AtHome, HomeFrame
<1>3. CASE Relaunch
  BY <1>3 DEF Relaunch, AtHome, HomeFrame, LaunchGame, SlotForLaunch
<1>4. CASE Enter
  BY <1>4 DEF Enter, LaunchFails
<1>5. CASE EnterHome
  BY <1>5 DEF EnterHome
<1>6. CASE Evict
  <2>1. evicted' \in BOOLEAN /\ ready' \in BOOLEAN
    BY <1>6, Zenon DEF Evict, Starting, Release
  <2> QED
    BY <1>6, <2>1 DEF Evict, Starting, Release
<1>7. CASE LoadCore
  BY <1>7 DEF LoadCore, Starting
<1>8. CASE Reserve
  <2>1. ready' \in BOOLEAN /\ session' \in BOOLEAN
    BY <1>8, Zenon DEF Reserve, Starting, LaunchFails
  <2> QED
    BY <1>8, <2>1 DEF Reserve, Starting, LaunchFails
<1>9. CASE InitializeCore
  BY <1>9 DEF InitializeCore, Starting, LaunchFails
<1>10. CASE LoadRom
  BY <1>10 DEF LoadRom, Starting, LaunchFails
<1>11. CASE LoadPersistent
  <2>1. restored' \in BOOLEAN
    BY <1>11, Zenon DEF LoadPersistent, Starting
  <2> QED
    BY <1>11, <2>1 DEF LoadPersistent, Starting
<1>12. CASE BeginPlay
  BY <1>12 DEF BeginPlay, Starting
<1>13. CASE RunFrames
  BY <1>13 DEF RunFrames, InGame
<1>14. CASE FlushTimer
  BY <1>14 DEF FlushTimer, InGame, AskDirty
<1>15. CASE QueueSram
  BY <1>15 DEF QueueSram, InGame
<1>16. CASE PressMenu
  BY <1>16 DEF PressMenu, InGame
<1>17. CASE OpenMenu
  BY <1>17 DEF OpenMenu, InGame, JoinWriter, AskDirty, SavePersistent
<1>18. CASE ResumeGame
  BY <1>18 DEF ResumeGame, InGame, InMenu
<1>19. CASE BeginSaveState
  BY <1>19 DEF BeginSaveState, InGame, InMenu
<1>20. CASE EndSaveState
  <2>1. restoring' \in BOOLEAN /\ audible' \in BOOLEAN /\ deferred' \in BOOLEAN
    BY <1>20, Zenon DEF EndSaveState, Restart, BeginTeardown
  <2> QED
    BY <1>20, <2>1 DEF EndSaveState, Restart, BeginTeardown
<1>21. CASE ColdRestart
  BY <1>21 DEF ColdRestart, InMenu, Restart, BeginTeardown
<1>22. CASE Leave
  <2>1. restoring' \in BOOLEAN /\ audible' \in BOOLEAN /\ deferred' \in BOOLEAN
    BY <1>22, Zenon DEF Leave, BeginTeardown
  <2> QED
    BY <1>22, <2>1 DEF Leave, BeginTeardown
<1>23. CASE FinishSram
  BY <1>23 DEF FinishSram, TearingDown, JoinWriter
<1>24. CASE Persist
  <2>1. romLoaded' \in BOOLEAN
    BY <1>24, Zenon DEF Persist, TearingDown, SavePersistent
  <2> QED
    BY <1>24, <2>1 DEF Persist, TearingDown, SavePersistent
<1>25. CASE UnloadCore
  <2>1. session' \in BOOLEAN
    BY <1>25, Zenon DEF UnloadCore, TearingDown
  <2> QED
    BY <1>25, <2>1 DEF UnloadCore, TearingDown
<1>26. CASE RestoreFrontend
  <2>1. evicted' \in BOOLEAN /\ ready' \in BOOLEAN
    BY <1>26, Zenon DEF RestoreFrontend, TearingDown
  <2> QED
    BY <1>26, <2>1 DEF RestoreFrontend, TearingDown
<1>27. CASE Poll
  <2>1. audible' \in BOOLEAN
    BY <1>27, Zenon DEF Poll, Frontend
  <2> QED
    BY <1>27, <2>1 DEF Poll, Frontend
<1>28. CASE Shutdown
  <2>1. restoring' \in BOOLEAN /\ audible' \in BOOLEAN /\ deferred' \in BOOLEAN
    BY <1>28, Zenon DEF Shutdown, Frontend, BeginTeardown
  <2> QED
    BY <1>28, <2>1 DEF Shutdown, Frontend, BeginTeardown
<1>29. CASE Idle
  BY <1>29 DEF Idle, Frontend
<1>30. CASE Draw
  BY <1>30 DEF Draw, Frontend
<1>31. CASE WriteSnapshot
  BY <1>31 DEF WriteSnapshot
<1>32. CASE Suspending
  BY <1>32 DEF Suspending, Frontend
<1>33. CASE Resumed
  BY <1>33 DEF Resumed, Frontend
<1>34. CASE Quit
  BY <1>34 DEF Quit, Frontend
<1>35. CASE UNCHANGED vars
  BY <1>35 DEF vars
<1> QED
  BY <1>1, <1>2, <1>3, <1>4, <1>5, <1>6, <1>7, <1>8, <1>9, <1>10,
     <1>11, <1>12, <1>13, <1>14, <1>15, <1>16, <1>17, <1>18, <1>19, <1>20,
     <1>21, <1>22, <1>23, <1>24, <1>25, <1>26, <1>27, <1>28, <1>29, <1>30,
     <1>31, <1>32, <1>33, <1>34, <1>35
  DEF Next, Main, HomeStep, StartStep, PlayStep, MenuStep, TeardownStep, Off

LEMMA Invariant == Spec => []IInv
BY InitInvariant, StepInvariant, PTL DEF Spec

-----------------------------------------------------------------------------
(* Theorems.                                                               *)

\* Every state of the session is well typed.
THEOREM TypeCorrect == Spec => []TypeOK
BY Invariant, PTL DEF IInv

\* The core has its arena and heap as long as it may run, and the writer's
\* snapshot the session it was taken in (game_session.cpp:550-552).
THEOREM MemorySafe == Spec => []MemoryOutlivesUsers
<1>1. IInv => MemoryOutlivesUsers
  BY DEF IInv, Memory, Writer, Stages, MemoryOutlivesUsers
<1> QED
  BY Invariant, <1>1, PTL

\* A state that was asked for reaches its own game or none
\* (game_session.cpp:210-211).
THEOREM RequestsReach == Spec => []SlotReachesItsGame
<1>1. IInv => SlotReachesItsGame
  BY DEF IInv, Requests, SlotReachesItsGame, AtHome
<1> QED
  BY Invariant, <1>1, PTL

\* No game plays on past the turn in which the console woke up
\* (game_session.cpp:489).
THEOREM WakeSafe == Spec => []NoPlayAfterWake
BY Invariant, PTL DEF IInv, Wake, NoPlayAfterWake

\* Audio and the logger follow the scene (game_session.cpp:460-461, 903-904).
THEOREM SoundCorrect == Spec => []SoundFollowsPlay
<1>1. IInv => SoundFollowsPlay
  BY DEF IInv, Sound, Leaving, SoundFollowsPlay
<1> QED
  BY Invariant, <1>1, PTL

\* What sram_dirty told of once is on the card when the game has been left,
\* although one call failed (rs_libretro_shim.cpp:863).
THEOREM ReportsKept == Spec => []ReportedIsKept
BY Invariant, PTL DEF IInv, Reports

\* No step replaces a save by an older one (game_session.cpp:536-538).
THEOREM SavesGrow == Spec => NewestSaveKept
<1> DEFINE Kept == \A g \in Games : card'[g] >= card[g] \/ ~restored
<1>1. ASSUME IInv, [Next]_vars PROVE [Kept]_vars
  <2> USE <1>1 DEF IInv, TypeOK, Time
  <2>1. ASSUME UNCHANGED card PROVE Kept
    BY <2>1, SessionAssumption
  <2>2. CASE WriteSnapshot
    BY <2>2, SessionAssumption DEF WriteSnapshot, Writer, Saves, Works, Fails
  <2>3. CASE OpenMenu
    <3>1. romLoaded
      BY <2>3 DEF OpenMenu, Control, Stages, Gone
    <3> QED
      BY <2>3, <3>1, SessionAssumption DEF OpenMenu, SavePersistent, Saves, Works, Fails
  <2>4. CASE Persist
    BY <2>4, SessionAssumption DEF Persist, TearingDown, SavePersistent, Saves, Works, Fails
  <2>5. CASE HomeStep \/ StartStep
    <3>1. UNCHANGED card
      BY <2>5 DEF HomeStep, StartStep, Launch, LaunchNative, Relaunch, Enter, EnterHome,
        HomeFrame, Starting, Evict, LoadCore, Reserve, InitializeCore, LoadRom,
        LoadPersistent, BeginPlay, saving
    <3> QED
      BY <2>1, <3>1
  <2>6. CASE RunFrames \/ FlushTimer \/ QueueSram \/ PressMenu \/ MenuStep
    <3>1. UNCHANGED card
      BY <2>6 DEF RunFrames, FlushTimer, QueueSram, PressMenu, MenuStep, ResumeGame,
        BeginSaveState, EndSaveState, ColdRestart, Leave, saving
    <3> QED
      BY <2>1, <3>1
  <2>7. CASE FinishSram \/ UnloadCore \/ RestoreFrontend
    <3>1. UNCHANGED card
      BY <2>7 DEF FinishSram, UnloadCore, RestoreFrontend, saving
    <3> QED
      BY <2>1, <3>1
  <2>8. CASE Poll \/ Shutdown \/ Idle \/ Draw \/ Suspending \/ Resumed \/ Quit
    <3>1. UNCHANGED card
      BY <2>8 DEF Poll, Shutdown, Idle, Draw, Suspending, Resumed, Quit, Frontend, saving
    <3> QED
      BY <2>1, <3>1
  <2> QED
    BY <2>2, <2>3, <2>4, <2>5, <2>6, <2>7, <2>8
    DEF Next, Main, PlayStep, TeardownStep, Off
<1> QED
  BY Invariant, <1>1, PTL DEF Spec, NewestSaveKept

=============================================================================
