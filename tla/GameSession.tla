------------------------------ MODULE GameSession ------------------------------
(***************************************************************************)
(* One application run: Home, the games launched from it (game_session.cpp  *)
(* on core_manager.cpp and the arena), the power and HOME-button callbacks   *)
(* and the background SRAM writer.                                          *)
(*                                                                         *)
(* The main thread walks App::run: poll (power events), update, draw; the   *)
(* handlers startCore and teardown are walked step by step (pc), because    *)
(* their order is what protects the save file and the core's memory and     *)
(* because a callback or the writer may run between any two of their steps. *)
(* The contents of the SRAM is the time it was produced: 0 is what a core    *)
(* starts with, and every later change takes the next number.               *)
(***************************************************************************)
EXTENDS Naturals

CONSTANTS Games, NoGame,
          MaxTime,     \* bound: changes of the SRAM in a behaviour
          MaxFaults    \* bound: calls that fail in a behaviour

ASSUME SessionAssumption ==
  /\ NoGame \notin Games
  /\ MaxTime \in Nat \ {0} /\ MaxFaults \in Nat

VARIABLES
  pc,           \* where the main thread is
  mode,         \* the scene: Home, or GameSession::m_state
  game,         \* m_game
  pending,      \* the game of a GameSession that fades in (App::m_pending)
  relaunch,     \* HomeSnapshot::relaunchHash
  slot,         \* the game whose state HomeSnapshot::loadStateSlot asks for
  loadSlot,     \* the same of m_loadSlot
  policy,       \* when SRAM is flushed: autosave and the FrogGBA exception
  core,         \* CoreManager and EmulatorCore
  session,      \* m_coreSessionStarted: the core heap's block table is in use
  romLoaded,    \* m_romLoaded
  ram, reported,\* the core's SRAM, and its contents when sram_dirty last asked
  arena,        \* arena reservations the process holds
  ready,        \* m_arenaReady
  evicted,      \* m_frontendEvicted
  restoring,    \* teardown's argument restoreFrontend
  writer, snap, \* m_sramThread and m_sramSnapshot
  card,         \* sram.bin of every game
  audible,      \* audio is not paused
  deferred,     \* the logger does not write to the Memory Stick
  events, quit, \* power::s_events and g_exitRequested
  unasked,      \* history: updates of play since the console slept, plus one
  restored,     \* history: this launch restored the SRAM
  time, faults  \* history: the last number given out, failures so far

home == <<pending, relaunch, slot>>
launched == <<game, loadSlot, policy>>
machine == <<core, session>>
sram == <<ram, reported, time>>
memory == <<arena, ready, evicted>>
saving == <<writer, snap, card>>
output == <<audible, deferred>>
outside == <<events, quit, unasked>>
vars == <<pc, mode, home, launched, machine, romLoaded, sram, memory, restoring,
          saving, output, outside, restored, faults>>

Time == 0 .. MaxTime
NoSnap == [of |-> NoGame, at |-> 0]

TypeOK ==
  /\ pc \in {"poll", "update", "timer", "draw", "off",
             "evict", "load", "reserve", "boot", "rom", "restore", "resume",
             "opening", "reap", "saving", "join", "persist", "unload", "rearm"}
  /\ mode \in {"Home", "Starting", "Running", "Menu", "Failed", "Exiting"}
  /\ {game, pending, relaunch, slot, loadSlot, snap.of} \subseteq Games \cup {NoGame}
  /\ policy \in {"off", "periodic", "paused"}
  /\ core \in {"none", "loaded", "initialized", "rom"}
  /\ {session, romLoaded, ready, evicted, restoring, audible, deferred, quit, restored}
       \subseteq BOOLEAN
  /\ {ram, reported, snap.at, time} \subseteq Time
  /\ arena \in {0, 1}
  /\ writer \in {"none", "running", "done"}
  /\ card \in [Games -> Time]
  /\ events \subseteq {"suspending", "resumed"}
  /\ unasked \in 0 .. 3
  /\ faults \in 0 .. MaxFaults

Init ==
  /\ pc = "poll" /\ mode = "Home"
  /\ game = NoGame /\ pending = NoGame /\ relaunch = NoGame
  /\ slot = NoGame /\ loadSlot = NoGame
  /\ policy = "off" /\ core = "none" /\ session = FALSE /\ romLoaded = FALSE
  /\ ram = 0 /\ reported = 0 /\ time = 1
  /\ arena = 1 /\ ready = TRUE /\ evicted = FALSE /\ restoring = FALSE
  /\ writer = "none" /\ snap = NoSnap
  /\ card \in [Games -> {0, 1}]
  /\ audible = FALSE /\ deferred = FALSE
  /\ events = {} /\ quit = FALSE
  /\ unasked = 0 /\ restored = TRUE /\ faults = 0

\* A call that can fail succeeds, or fails while the bound allows.
Works == UNCHANGED faults
Fails == faults < MaxFaults /\ faults' = faults + 1

Changed == time < MaxTime /\ time' = time + 1 /\ ram' = time + 1

-----------------------------------------------------------------------------
(* Home.                                                                   *)

AtHome == pc = "update" /\ mode = "Home" /\ pending = NoGame
HomeFrame == UNCHANGED <<mode, launched, machine, romLoaded, sram, memory, restoring,
                         saving, deferred, outside, restored>>

\* App::launchGame: the preflight passes and the session starts to fade in, or
\* the launch is refused.
LaunchGame(g) ==
  /\ pc' = "draw"
  /\ \/ Works /\ pending' = g
     \/ Fails /\ UNCHANGED pending

\* A request for a state that goes with a launch is withdrawn when it is refused.
SlotForLaunch(g) == slot' = IF pending' = NoGame THEN NoGame ELSE g

\* From a list, or from Save States.
Launch ==
  /\ AtHome /\ relaunch = NoGame
  /\ \E g \in Games :
       LaunchGame(g) /\ (UNCHANGED slot \/ SlotForLaunch(g))
  /\ HomeFrame /\ UNCHANGED <<audible, relaunch>>

\* A native emulator replaces the process, or could not be started.
LaunchNative ==
  /\ AtHome /\ relaunch = NoGame
  /\ \/ Works /\ pc' = "off" /\ audible' = FALSE
     \/ Fails /\ pc' = "draw" /\ audible' = TRUE
  /\ HomeFrame /\ UNCHANGED home

\* "Apply & Restart": back into the game, if it and its core are still there.
Relaunch ==
  /\ AtHome /\ relaunch # NoGame
  /\ relaunch' = NoGame
  /\ \/ LaunchGame(relaunch) /\ SlotForLaunch(slot)
     \/ Fails /\ pc' = "draw" /\ slot' = NoGame /\ UNCHANGED pending
  /\ HomeFrame /\ UNCHANGED audible

-----------------------------------------------------------------------------
(* startCore, in its order.                                                *)

\* enter() reports failure; the partial launch is undone by teardown.
LaunchFails == Fails /\ mode' = "Failed" /\ pc' = "update"

\* Mutant: the request is consumed only by a launch that gets to the load.
EnterKeepsSlot ==
  /\ pc = "update" /\ mode = "Home" /\ pending # NoGame
  /\ game' = pending /\ pending' = NoGame
  /\ loadSlot' = slot /\ UNCHANGED slot
  /\ policy' \in {"off", "periodic", "paused"}
  /\ \/ Works /\ mode' = "Starting" /\ pc' = "evict"
     \/ LaunchFails
  /\ UNCHANGED <<relaunch, machine, romLoaded, sram, memory, restoring, saving,
                 output, outside, restored>>

\* The fade is over.  The request for a state is consumed first; the settings
\* are read and the core is looked up while the frontend is intact.
Enter ==
  /\ pc = "update" /\ mode = "Home" /\ pending # NoGame
  /\ game' = pending /\ pending' = NoGame
  /\ loadSlot' = slot /\ slot' = NoGame
  /\ policy' \in {"off", "periodic", "paused"}
  /\ \/ Works /\ mode' = "Starting" /\ pc' = "evict"
     \/ LaunchFails
  /\ UNCHANGED <<relaunch, machine, romLoaded, sram, memory, restoring, saving,
                 output, outside, restored>>

Starting(here) ==
  /\ pc = here
  /\ UNCHANGED <<home, restoring, saving, outside>>

\* Mutant: the frontend's reservation is kept through the load.
ReleaseNothing == UNCHANGED arena

\* mem::shutdown() frees the reservation there is.
Release == arena' = 0

\* app.evictForCore(), mem::shutdown().
Evict ==
  /\ Starting("evict")
  /\ evicted' = TRUE /\ Release /\ ready' = FALSE
  /\ pc' = "load"
  /\ UNCHANGED <<mode, launched, machine, romLoaded, sram, output, restored, faults>>

LoadCore ==
  /\ Starting("load")
  /\ \/ Works /\ core' = "loaded"
     \/ Fails /\ core' = "none"
  /\ pc' = "reserve"
  /\ UNCHANGED <<mode, launched, session, romLoaded, sram, memory, output, restored>>

\* mem::init(), and only now the verdict on the load; host::beginCoreSession().
Reserve ==
  /\ Starting("reserve")
  /\ \/ /\ LaunchFails
        /\ UNCHANGED <<arena, ready, session>>
     \/ /\ arena' = arena + 1 /\ ready' = TRUE
        /\ IF core = "none"
           THEN mode' = "Failed" /\ pc' = "update" /\ UNCHANGED session
           ELSE pc' = "boot" /\ session' = TRUE /\ UNCHANGED mode
        /\ Works
  /\ UNCHANGED <<launched, core, romLoaded, sram, evicted, output, restored>>

InitializeCore ==
  /\ Starting("boot")
  /\ \/ Works /\ core' = "initialized" /\ pc' = "rom" /\ UNCHANGED mode
     \/ LaunchFails /\ UNCHANGED core
  /\ UNCHANGED <<launched, session, romLoaded, sram, memory, output, restored>>

\* The ROM is read and the core takes it; its shim notes the SRAM as clean.
LoadRom ==
  /\ Starting("rom")
  /\ \/ Works /\ core' = "rom" /\ ram' = 0 /\ reported' = 0
        /\ pc' = "restore" /\ UNCHANGED mode
     \/ LaunchFails /\ UNCHANGED <<core, ram, reported>>
  /\ UNCHANGED <<launched, session, romLoaded, time, memory, output, restored>>

\* save::loadPersistent(): without a file, or when it cannot be read or does not
\* fit, the game goes on with the core's defaults.
LoadPersistent ==
  /\ Starting("restore")
  /\ \/ Works /\ ram' = card[game] /\ UNCHANGED restored
     \/ Fails /\ restored' = FALSE /\ UNCHANGED ram
  /\ pc' = "resume"
  /\ UNCHANGED <<mode, launched, machine, romLoaded, reported, time, memory, output>>

\* The state that was asked for, then the audio is primed and play begins.
BeginPlay ==
  /\ Starting("resume")
  /\ loadSlot' = NoGame
  /\ \/ UNCHANGED sram
     \/ Changed /\ UNCHANGED reported    \* by the state, or by the frames primed
  /\ romLoaded' = TRUE /\ audible' = TRUE /\ deferred' = TRUE
  /\ mode' = "Running" /\ pc' = "update"
  /\ UNCHANGED <<game, policy, machine, memory, restored, faults>>

-----------------------------------------------------------------------------
(* The background SRAM writer.                                             *)

\* sramWriter(): save::writeSramSnapshot() replaces the file, or fails.
WriteSnapshot ==
  /\ writer = "running"
  /\ \/ Works /\ card' = [card EXCEPT ![snap.of] = snap.at]
     \/ Fails /\ UNCHANGED card
  /\ writer' = "done"
  /\ UNCHANGED <<pc, mode, home, launched, machine, romLoaded, sram, memory,
                 restoring, snap, output, outside, restored>>

\* Mutant: the worker is waited for even when none was started.
JoinWriterAlways == writer = "done" /\ writer' = "none" /\ snap' = NoSnap

\* finishPeriodicSram(): wait for the worker, free its snapshot.
JoinWriter == writer # "running" /\ writer' = "none" /\ snap' = NoSnap

-----------------------------------------------------------------------------
(* The game runs.                                                          *)

InGame ==
  UNCHANGED <<home, launched, machine, memory, restoring, restored>>

\* The frames that are due: the game may change its SRAM.
RunFrames ==
  /\ pc = "update" /\ mode = "Running"
  /\ \/ UNCHANGED sram
     \/ Changed /\ UNCHANGED reported
  /\ unasked' = IF unasked \in {1, 2} THEN unasked + 1 ELSE unasked
  /\ pc' = "timer"
  /\ InGame /\ UNCHANGED <<mode, romLoaded, saving, output, events, quit, faults>>

\* sram_dirty(): changed since it was last asked.
AskDirty == ram # reported /\ reported' = ram

\* The flush interval is over and the core reports a change, or not.
FlushTimer ==
  /\ pc = "timer"
  /\ \/ policy = "periodic" /\ AskDirty /\ pc' = "reap"
     \/ pc' = "draw" /\ UNCHANGED reported
  /\ InGame /\ UNCHANGED <<mode, romLoaded, ram, time, saving, output, outside, faults>>

\* queuePeriodicSram(): reap the previous worker, then snapshot and spawn; no
\* memory or no thread, and there is no worker.
QueueSram ==
  /\ pc = "reap" /\ writer # "running"
  /\ \/ Works /\ writer' = "running" /\ snap' = [of |-> game, at |-> ram]
     \/ Fails /\ writer' = "none" /\ snap' = NoSnap
  /\ pc' = "draw"
  /\ InGame /\ UNCHANGED <<mode, romLoaded, sram, card, output, outside>>

\* The menu combination: audio stops, the log is written out.
PressMenu ==
  /\ pc = "update" /\ mode = "Running"
  /\ audible' = FALSE /\ deferred' = FALSE
  /\ pc' = "opening"
  /\ InGame /\ UNCHANGED <<mode, romLoaded, sram, saving, outside, faults>>

\* savePersistent(): the file takes the SRAM as it is now, or keeps the old one.
SavePersistent ==
  \/ Works /\ card' = [card EXCEPT ![game] = ram]
  \/ Fails /\ UNCHANGED card

\* openMenu(): wait for the worker; FrogGBA's SRAM is flushed here.
OpenMenu ==
  /\ pc = "opening" /\ JoinWriter
  /\ IF policy = "paused" /\ ram # reported
     THEN AskDirty /\ SavePersistent
     ELSE Works /\ UNCHANGED <<reported, card>>
  /\ mode' = "Menu" /\ pc' = "draw" /\ unasked' = 0
  /\ InGame /\ UNCHANGED <<romLoaded, ram, time, output, events, quit>>

-----------------------------------------------------------------------------
(* The pause menu.                                                         *)

InMenu == pc = "update" /\ mode = "Menu"

\* resumeGame(): also after loading a state, a reset or a screenshot.
ResumeGame ==
  /\ InMenu
  /\ \/ UNCHANGED sram
     \/ Changed /\ UNCHANGED reported
  /\ audible' = TRUE /\ deferred' = TRUE
  /\ mode' = "Running" /\ pc' = "draw"
  /\ InGame /\ UNCHANGED <<romLoaded, saving, outside, faults>>

\* saveToSlot() begins.
BeginSaveState ==
  /\ InMenu
  /\ pc' = "saving"
  /\ InGame /\ UNCHANGED <<mode, romLoaded, sram, saving, output, outside, faults>>

\* teardown(restoreFrontend), up to the wait for the worker.
BeginTeardown(back) ==
  /\ restoring' = back
  /\ audible' = FALSE /\ deferred' = FALSE
  /\ pc' = "join"

\* restartWithSettings(): from the state just saved, or cold.
Restart(wanted) == relaunch' = game /\ slot' = wanted /\ BeginTeardown(TRUE)

\* The state is written, or could not be; a restart never follows a failure.
EndSaveState ==
  /\ pc = "saving"
  /\ \/ Works /\ Restart(game)
     \/ /\ Works \/ Fails
        /\ pc' = "draw"
        /\ UNCHANGED <<relaunch, slot, restoring, output>>
  /\ UNCHANGED <<mode, pending, launched, machine, romLoaded, sram, memory, saving,
                 outside, restored>>

ColdRestart ==
  /\ InMenu
  /\ Restart(NoGame)
  /\ UNCHANGED <<mode, pending, launched, machine, romLoaded, sram, memory, saving,
                 outside, restored, faults>>

\* Exit in the menu, or leaving the launch error.
Leave ==
  /\ pc = "update" /\ mode \in {"Menu", "Failed"}
  /\ BeginTeardown(TRUE)
  /\ UNCHANGED <<mode, home, launched, machine, romLoaded, sram, memory, saving,
                 outside, restored, faults>>

-----------------------------------------------------------------------------
(* teardown, in its order.                                                 *)

TearingDown(here) ==
  /\ pc = here
  /\ UNCHANGED <<home, launched, sram, restoring, output, outside, restored>>

\* Mutant: the worker is left behind.
FinishSramForgets ==
  /\ TearingDown("join") /\ pc' = "persist"
  /\ UNCHANGED <<mode, machine, romLoaded, memory, saving, faults>>

FinishSram ==
  /\ TearingDown("join") /\ JoinWriter
  /\ pc' = "persist"
  /\ UNCHANGED <<mode, machine, romLoaded, memory, card, faults>>

\* Mutant: whatever the core holds is saved once its ROM was taken.
PersistAlways ==
  /\ TearingDown("persist")
  /\ IF session
     THEN SavePersistent /\ core' = (IF core = "rom" THEN "initialized" ELSE core)
     ELSE Works /\ UNCHANGED <<core, card>>
  /\ romLoaded' = FALSE
  /\ pc' = "unload"
  /\ UNCHANGED <<mode, session, memory, writer, snap>>

\* Mutant: the exit asks the core whether there is anything to save.
PersistIfDirty ==
  /\ TearingDown("persist")
  /\ IF romLoaded
     THEN /\ core' = "initialized"
          /\ IF ram # reported THEN SavePersistent ELSE Works /\ UNCHANGED card
     ELSE Works /\ UNCHANGED <<core, card>>
  /\ romLoaded' = FALSE
  /\ pc' = "unload"
  /\ UNCHANGED <<mode, session, memory, writer, snap>>

\* Only a launch that completed is saved; unloadROM().
Persist ==
  /\ TearingDown("persist")
  /\ IF romLoaded
     THEN SavePersistent /\ core' = "initialized"
     ELSE Works /\ UNCHANGED <<core, card>>
  /\ romLoaded' = FALSE
  /\ pc' = "unload"
  /\ UNCHANGED <<mode, session, memory, writer, snap>>

\* The core's shutdown() runs and its module goes, then host::endCoreSession().
UnloadCore ==
  /\ TearingDown("unload")
  /\ core' = "none" /\ session' = FALSE
  /\ pc' = "rearm"
  /\ UNCHANGED <<mode, romLoaded, memory, saving, faults>>

\* The arena is taken anew for the frontend and its assets come back.
RestoreFrontend ==
  /\ TearingDown("rearm")
  /\ IF restoring /\ evicted
     THEN /\ evicted' = FALSE
          /\ \/ Works /\ arena' = (IF ready THEN arena ELSE arena + 1) /\ ready' = TRUE
             \/ Fails /\ arena' = (IF ready THEN arena - 1 ELSE arena) /\ ready' = FALSE
     ELSE Works /\ UNCHANGED memory
  /\ mode' = "Exiting"
  /\ pc' = IF restoring THEN "draw" ELSE "off"
  /\ UNCHANGED <<machine, romLoaded, saving>>

\* The new HomeScene has faded in and the session is destroyed.
EnterHome ==
  /\ pc = "update" /\ mode = "Exiting"
  /\ mode' = "Home"
  /\ game' = NoGame /\ loadSlot' = NoGame /\ policy' = "off"
  /\ ram' = 0 /\ reported' = 0 /\ restored' = TRUE /\ ready' = TRUE
  /\ UNCHANGED <<pc, home, machine, romLoaded, time, arena, evicted, restoring,
                 saving, output, outside, faults>>

-----------------------------------------------------------------------------
(* App::run and the callbacks.                                             *)

Frontend == UNCHANGED <<home, launched, machine, romLoaded, sram, memory, saving,
                        restored>>

\* Mutant: only the notice that sleep begins moves the game to its menu.
PollSuspendingOnly ==
  /\ pc = "poll" /\ ~quit
  /\ IF events # {}
     THEN /\ mode' = (IF mode = "Running" /\ "suspending" \in events
                      THEN "Menu" ELSE mode)
          /\ audible' = FALSE
     ELSE UNCHANGED <<mode, audible>>
  /\ unasked' = (IF mode' = "Running" THEN unasked ELSE 0)
  /\ events' = {}
  /\ pc' = "update"
  /\ Frontend /\ UNCHANGED <<restoring, deferred, quit, faults>>

\* One turn begins: power::consumeEvents(), and systemSuspend() or
\* systemResume() of the scene move a running game to its menu.
Poll ==
  /\ pc = "poll" /\ ~quit
  /\ IF events # {}
     THEN /\ mode' = (IF mode = "Running" THEN "Menu" ELSE mode)
          /\ audible' = FALSE
     ELSE UNCHANGED <<mode, audible>>
  /\ unasked' = (IF mode' = "Running" THEN unasked ELSE 0)
  /\ events' = {}
  /\ pc' = "update"
  /\ Frontend /\ UNCHANGED <<restoring, deferred, quit, faults>>

\* The loop ends: App::shutdown() tears the session down, if it is not yet.
Shutdown ==
  /\ pc = "poll" /\ quit
  /\ IF mode \in {"Home", "Exiting"}
     THEN pc' = "off" /\ UNCHANGED <<restoring, output>>
     ELSE BeginTeardown(FALSE)
  /\ Frontend /\ UNCHANGED <<mode, outside, faults>>

\* A turn in which the player does nothing, or a scene fades.
Idle ==
  /\ pc = "update" /\ mode # "Running"
  /\ pc' = "draw"
  /\ Frontend /\ UNCHANGED <<mode, restoring, output, outside, faults>>

\* The frame is drawn; a new layout that gets no texture ends the game.
Draw ==
  /\ pc = "draw"
  /\ \/ Works /\ UNCHANGED mode
     \/ Fails /\ mode \in {"Running", "Menu"} /\ mode' = "Failed"
  /\ pc' = "poll"
  /\ Frontend /\ UNCHANGED <<restoring, output, outside>>

\* The power callback: sleep begins; the console is awake again.
Suspending ==
  /\ pc # "off"
  /\ events' = events \cup {"suspending"}
  /\ Frontend /\ UNCHANGED <<pc, mode, restoring, output, quit, unasked, faults>>

Resumed ==
  /\ pc # "off"
  /\ events' = events \cup {"resumed"}
  /\ unasked' = (IF unasked = 0 THEN 1 ELSE unasked)
  /\ Frontend /\ UNCHANGED <<pc, mode, restoring, output, quit, faults>>

\* The exit callback.
Quit ==
  /\ pc # "off"
  /\ quit' = TRUE
  /\ Frontend /\ UNCHANGED <<pc, mode, restoring, output, events, unasked, faults>>

StartStep == Evict \/ LoadCore \/ Reserve \/ InitializeCore \/ LoadRom
             \/ LoadPersistent \/ BeginPlay
PlayStep == RunFrames \/ FlushTimer \/ QueueSram \/ PressMenu \/ OpenMenu
MenuStep == ResumeGame \/ BeginSaveState \/ EndSaveState \/ ColdRestart \/ Leave
TeardownStep == FinishSram \/ Persist \/ UnloadCore \/ RestoreFrontend
HomeStep == Launch \/ LaunchNative \/ Relaunch \/ Enter \/ EnterHome

Main == HomeStep \/ StartStep \/ PlayStep \/ MenuStep \/ TeardownStep
        \/ Poll \/ Shutdown \/ Idle \/ Draw

Off == pc = "off" /\ UNCHANGED vars

Next == Main \/ WriteSnapshot \/ Suspending \/ Resumed \/ Quit \/ Off

\* Both threads are scheduled: the writer has the main thread's priority and
\* the main thread waits for every vblank.
Spec == Init /\ [][Next]_vars /\ WF_vars(Main) /\ WF_vars(WriteSnapshot)

-----------------------------------------------------------------------------
(* Properties.                                                             *)

\* An older save never replaces a newer one: not by a failed launch with the
\* core's empty SRAM, nor by a snapshot written after the exit's own save
\* (game_session.cpp:536-538, 904-906).  A game whose restore failed is the
\* exception SafeToPersist is about.
NewestSaveKept == [][\A g \in Games : card'[g] >= card[g] \/ ~restored]_vars

\* What a loaded game would save is at least what is on the card
\* (game_session.cpp:428, "only now is it safe to persist SRAM on exit").
SafeToPersist == romLoaded => ram >= card[game]

\* sram_dirty() tells of a change once: what it told of is on the card when the
\* game has been left, although one call failed, be it for the snapshot, the
\* thread, the worker's write or the exit's own (rs_libretro_shim.cpp:863,
\* docs/ARCHITECTURE.md:217).  SafeToPersist speaks of a failed restore.
ReportedIsKept ==
  pc = "unload" /\ restored /\ faults <= 1 => card[game] >= reported

\* A core that may run has its arena and its heap, and so does the writer's
\* snapshot, in the session it was taken in (game_session.cpp:550-552).
MemoryOutlivesUsers ==
  /\ core \in {"initialized", "rom"} => arena = 1 /\ session /\ evicted
  /\ writer = "running" => core = "rom" /\ snap.of = game

\* A state asked for is loaded by the game it belongs to or not at all
\* (game_session.cpp:210-211).
SlotReachesItsGame ==
  /\ loadSlot \in {NoGame, game}
  /\ AtHome => slot \in {NoGame, relaunch}

\* Play that goes on after a sleep ends within the turn that was under way
\* (game_session.cpp:489, "Never continue emulation immediately after wake").
NoPlayAfterWake == unasked <= 2

\* A running game is heard and keeps the logger quiet; in its menu it is silent.
SoundFollowsPlay ==
  pc \in {"poll", "update", "draw"} =>
    /\ mode = "Running" => audible /\ deferred
    /\ mode \in {"Menu", "Exiting"} => ~audible

\* States and screenshots are not written while the SRAM writer is at work
\* (game_session.cpp:904-905).
MenuSavesAlone == pc = "saving" => writer # "running"

\* Leaving a game ends at Home or with the application.
LeavingEnds == pc = "join" ~> pc \in {"poll", "off"}

=============================================================================
