------------------------------- MODULE Frontend -------------------------------
(***************************************************************************)
(* App::run outside a game: the main loop folds in finished scans, pumps   *)
(* the thumbnail cache, updates and draws the scene on screen, while the   *)
(* scanner's thread and the thumbnail worker run.  A game is one scene     *)
(* here: it evicts the frontend, holds the memory, and gives it back; what *)
(* happens in it is GameSession's.                                         *)
(*                                                                         *)
(* A turn goes through the program points of App::update and App::draw,    *)
(* the tail of Home's update being one; a join in it is a point of its     *)
(* own, where the main thread waits.  The game index is its generation: 0  *)
(* while it is empty.                                                      *)
(***************************************************************************)
EXTENDS RomScanner, ThumbCache

CONSTANTS FadeTurns,    \* turns a scene's fade-out lasts
          MaxFaults     \* bound: threads that cannot be had

ASSUME FrontendAssumption == FadeTurns \in Nat \ {0} /\ MaxFaults \in Nat

VARIABLES pc,       \* the main thread's program point
          scene,    \* m_scene
          pending,  \* m_pending, while m_fadingOut
          fade,     \* turns of the fade-out left
          after,    \* what the stop that is being waited for is part of
          core,     \* m_frontendEvicted: a game has the memory
          index,    \* GameIndex::m_generation
          lists,    \* HomeScene::m_lastIndexGen: what its lists point into
          shown,    \* the system whose Library is on screen
          rescan,   \* Snapshot::rescanOnHome
          relaunch, \* Snapshot::relaunchHash is set
          scans,    \* scans started so far, that of the index cache included
          faults    \* failures so far

mainVars == <<pc, scene, pending, fade, after, core, index, lists, shown, rescan,
              relaunch, scans>>
vars == <<scan, cache, mainVars, faults>>

Scene == {"boot", "home", "settings", "game"}
Point == {"fade", "adopt", "thumbs", "scene", "rows", "draw", "stop", "suspend", "ended"}

TypeOK ==
  /\ ScannerTypeOK
  /\ ThumbTypeOK
  /\ pc \in Point
  /\ scene \in Scene
  /\ pending \in Scene \cup {"none"}
  /\ fade \in 0 .. FadeTurns
  /\ after \in {"none", "evict", "native", "exit"}
  /\ core \in BOOLEAN
  /\ index \in Version /\ lists \in Version
  /\ shown \in System \cup {NoSystem}
  /\ rescan \in BOOLEAN /\ relaunch \in BOOLEAN
  /\ scans \in 0 .. MaxIndex
  /\ faults \in 0 .. MaxFaults

Fault == faults < MaxFaults /\ faults' = faults + 1
FaultIf(failed) == IF failed THEN Fault ELSE UNCHANGED faults

\* The outcome of a call on the thumbnail cache that ends in startNext().
Apply(outcomes) ==
  \E o \in outcomes : cache' = o.cache /\ FaultIf(o.failed)

\* start() of the scanner, its thread or the caller's own walk.
CanScan == ~scan.running /\ scans < MaxIndex
StartScan ==
  /\ scans' = scans + 1
  /\ \/ scan' = Started(scan) /\ UNCHANGED faults
     \/ scan' = StartedInline(scan) /\ Fault

-----------------------------------------------------------------------------
(* App::update and App::draw.                                              *)

Init ==
  /\ pc = "fade" /\ scene = "boot" /\ pending = "none" /\ fade = 0 /\ after = "none"
  /\ core = FALSE /\ lists = 0 /\ shown = NoSystem /\ rescan = FALSE
  /\ relaunch = FALSE /\ faults = 0
  /\ \/ /\ index = 0 /\ scans = 1
        /\ scan = Started(IdleScanner) /\ cache = EmptyCache
     \/ /\ index = 1 /\ scans = 1
        /\ scan = IdleScanner /\ cache = StartNext(Rebuild(EmptyCache, 1))

SwitchScene(s) == pending' = s /\ fade' = FadeTurns

\* The scene fade; when it has run out the new scene is entered, before the
\* rest of the turn.
FadeTurn ==
  /\ pc = "fade"
  /\ pending = "none" \/ fade # 1
  /\ fade' = IF pending = "none" THEN 0 ELSE fade - 1
  /\ pc' = "adopt"
  /\ UNCHANGED <<scan, cache, scene, pending, after, core, index, lists, shown,
                 rescan, relaunch, scans, faults>>

Enter(s) ==
  /\ pc = "fade"
  /\ pending = s /\ fade = 1
  /\ scene' = s /\ pending' = "none" /\ fade' = 0

\* HomeScene::enter: the lists are built, the remembered layer is shown, a
\* rescan asked for by a failed launch starts.
EnterHome ==
  /\ Enter("home")
  /\ lists' = index
  /\ shown' \in IF index = 0 THEN {NoSystem} ELSE System \cup {NoSystem}
  /\ rescan' = FALSE
  /\ IF rescan /\ CanScan THEN StartScan ELSE UNCHANGED <<scan, scans, faults>>
  /\ pc' = "adopt"
  /\ UNCHANGED <<cache, after, core, index, relaunch>>

EnterSettings ==
  /\ Enter("settings")
  /\ lists' = 0 /\ shown' = NoSystem
  /\ pc' = "adopt"
  /\ UNCHANGED <<scan, cache, after, core, index, rescan, relaunch, scans, faults>>

\* GameSession::enter, that is startCore(): refused before the eviction, or
\* evicting.
EnterGame ==
  /\ Enter("game")
  /\ lists' = 0 /\ shown' = NoSystem
  /\ \/ pc' = "adopt" /\ UNCHANGED <<scan, after>>
     \/ scan' = StopAsked(scan) /\ pc' = "stop" /\ after' = "evict"
  /\ UNCHANGED <<cache, core, index, rescan, relaunch, scans, faults>>

\* takeResults(): the index is replaced and its thumbnails are rebuilt.
Adopt ==
  /\ pc = "adopt"
  /\ pc' = "thumbs"
  /\ IF scan.done
       THEN /\ scan' = Taken(scan)
            /\ index' = index + 1
            /\ Apply(Spawn(Rebuild(cache, index + 1)))
       ELSE UNCHANGED <<scan, index, cache, faults>>
  /\ UNCHANGED <<scene, pending, fade, after, core, lists, shown, rescan, relaunch, scans>>

\* m_thumbs.update()
PumpThumbs ==
  /\ pc = "thumbs"
  /\ pc' = "scene"
  /\ Apply(Updated(cache))
  /\ UNCHANGED <<scan, scene, pending, fade, after, core, index, lists, shown,
                 rescan, relaunch, scans>>

\* Everything on screen is drawn, a scene that is fading out included; the
\* Library's rows look their pictures up.
Draw ==
  /\ pc = "draw"
  /\ pc' = "fade"
  /\ cache' = IF scene = "home" /\ shown # NoSystem /\ shown = cache.residentSystem
                THEN Shown(cache) ELSE cache
  /\ UNCHANGED <<scan, scene, pending, fade, after, core, index, lists, shown,
                 rescan, relaunch, scans, faults>>

-----------------------------------------------------------------------------
(* The scenes' update, which a fade-out skips.                             *)

Active(s) == pc = "scene" /\ scene = s /\ pending = "none"

SkipScene ==
  /\ pc = "scene" /\ pending # "none"
  /\ pc' = "draw"
  /\ UNCHANGED <<scan, cache, scene, pending, fade, after, core, index, lists,
                 shown, rescan, relaunch, scans, faults>>

LeaveBoot ==
  /\ Active("boot")
  /\ pc' = "draw"
  /\ SwitchScene("home") \/ UNCHANGED <<pending, fade>>
  /\ UNCHANGED <<scan, cache, scene, after, core, index, lists, shown, rescan,
                 relaunch, scans, faults>>

\* Mutant: the lists are not compared with the index.
ListsAsEntered == UNCHANGED lists

\* A finished scan is noticed before anything else is done with the lists.
RefreshLists == lists' = index

\* Library rows on screen ask for their system, last in an update.
Request(s) ==
  IF s = NoSystem THEN UNCHANGED <<cache, faults>>
  ELSE IF Asked(cache, s).queue = cache.queue
    THEN cache' = Asked(cache, s) /\ UNCHANGED faults
    ELSE Apply(Spawn(Asked(cache, s)))

\* Moving about, or nothing; a launch that is refused is nothing here.
Browse ==
  /\ Active("home")
  /\ RefreshLists
  /\ shown' \in IF index = 0 THEN {NoSystem} ELSE System \cup {NoSystem}
  /\ Request(shown')
  /\ relaunch' = FALSE
  /\ pc' = "draw"
  /\ UNCHANGED <<scan, scene, pending, fade, after, core, index, rescan, scans>>

\* Settings opened, or a game of the current index launched in this process.
LeaveHome ==
  /\ Active("home")
  /\ RefreshLists
  /\ SwitchScene("settings") \/ (index # 0 /\ SwitchScene("game"))
  /\ Request(shown)
  /\ relaunch' = FALSE
  /\ pc' = "draw"
  /\ UNCHANGED <<scan, scene, after, core, index, shown, rescan, scans>>

\* The game that asked to be restarted is launched again, or refused, and the
\* rest of the update is skipped.  (If it or its core cannot be found any more,
\* the update goes on as any other.)
Relaunch ==
  /\ Active("home") /\ relaunch
  /\ relaunch' = FALSE
  /\ SwitchScene("game") \/ UNCHANGED <<pending, fade>>
  /\ pc' = "draw"
  /\ UNCHANGED <<scan, cache, scene, after, core, index, lists, shown, rescan,
                 scans, faults>>

\* launchGame() of a native emulator: the scanner is stopped first.
LaunchNative ==
  /\ Active("home")
  /\ index # 0
  /\ RefreshLists
  /\ scan' = StopAsked(scan)
  /\ relaunch' = FALSE
  /\ pc' = "stop" /\ after' = "native"
  /\ UNCHANGED <<cache, scene, pending, fade, core, index, shown, rescan, scans,
                 faults>>

\* The tail of Home's update, after what it began with a start or a stop of the
\* scanner.
AskRows ==
  /\ pc = "rows"
  /\ Request(shown)
  /\ pc' = "draw"
  /\ UNCHANGED <<scan, scene, pending, fade, after, core, index, lists, shown,
                 rescan, relaunch, scans>>

\* The rescan of Settings, of the empty Home screen and of its error notice.
Rescan ==
  /\ Active("settings") \/ Active("home")
  /\ CanScan
  /\ StartScan
  /\ IF scene = "home"
       THEN RefreshLists /\ relaunch' = FALSE /\ pc' = "rows"
       ELSE UNCHANGED <<lists, relaunch>> /\ pc' = "draw"
  /\ UNCHANGED <<cache, scene, pending, fade, after, core, index, shown, rescan>>

Settings ==
  /\ Active("settings")
  /\ SwitchScene("home") \/ UNCHANGED <<pending, fade>>
  /\ pc' = "draw"
  /\ UNCHANGED <<scan, cache, scene, after, core, index, lists, shown, rescan,
                 relaunch, scans, faults>>

\* The game runs, its menu is open, or the failed launch is on screen.
Play ==
  /\ Active("game")
  /\ pc' = "draw"
  /\ UNCHANGED <<scan, cache, scene, pending, fade, after, core, index, lists,
                 shown, rescan, relaunch, scans, faults>>

\* exitToHome(): restoreAfterCore() takes the thumbnails up again if they were
\* evicted.  The failure screen may ask Home for a rescan, the game's menu to be
\* launched again.
LeaveGame ==
  /\ Active("game")
  /\ core' = FALSE
  /\ IF core THEN Apply(Spawn(Rebuild(cache, index))) ELSE UNCHANGED <<cache, faults>>
  /\ SwitchScene("home")
  /\ rescan' \in BOOLEAN /\ relaunch' \in BOOLEAN
  /\ relaunch' => core /\ ~rescan'
  /\ pc' = "draw"
  /\ UNCHANGED <<scan, scene, after, index, lists, shown, scans>>

\* HOME: the main loop ends before a turn.
Exit ==
  /\ pc = "fade"
  /\ scan' = StopAsked(scan)
  /\ pc' = "stop" /\ after' = "exit"
  /\ UNCHANGED <<cache, scene, pending, fade, core, index, lists, shown, rescan,
                 relaunch, scans, faults>>

-----------------------------------------------------------------------------
(* The joins.                                                              *)

\* The scanner has been joined; a native emulator takes the process over or
\* could not be started, anything else goes on to the thumbnail worker.
ScannerStopped ==
  /\ pc = "stop" /\ Joinable(scan)
  /\ scan' = Stopped(scan)
  /\ IF after = "native"
       THEN /\ pc' \in {"rows", "ended"} /\ after' = "none" /\ UNCHANGED cache
       ELSE /\ pc' = "suspend" /\ cache' = SuspendAsked(cache) /\ UNCHANGED after
  /\ UNCHANGED <<scene, pending, fade, core, index, lists, shown, rescan, relaunch, scans, faults>>

ThumbsSuspended ==
  /\ pc = "suspend" /\ WorkerJoinable(cache)
  /\ cache' = Suspended(cache)
  /\ core' = (after = "evict")
  /\ pc' = IF after = "exit" THEN "ended" ELSE "adopt"
  /\ after' = "none"
  /\ UNCHANGED <<scan, scene, pending, fade, index, lists, shown, rescan, relaunch, scans,
                 faults>>

-----------------------------------------------------------------------------

MainThread ==
  \/ FadeTurn \/ EnterHome \/ EnterSettings \/ EnterGame
  \/ Adopt \/ PumpThumbs \/ Draw \/ SkipScene \/ LeaveBoot
  \/ Browse \/ LeaveHome \/ Relaunch \/ LaunchNative \/ AskRows
  \/ Rescan \/ Settings \/ Play \/ LeaveGame
  \/ ScannerStopped \/ ThumbsSuspended

Scanner ==
  /\ pc # "ended"
  /\ ScannerThread
  /\ UNCHANGED <<cache, mainVars, faults>>

Worker ==
  /\ pc # "ended"
  /\ WorkLoad \/ WorkBuild \/ EndBuild
  /\ UNCHANGED <<scan, mainVars, faults>>

Next == MainThread \/ Exit \/ Scanner \/ Worker

\* The main loop turns, and a thread that can run does.
Fairness == WF_vars(MainThread) /\ WF_vars(Scanner) /\ WF_vars(Worker)

Spec == Init /\ [][Next]_vars /\ Fairness

-----------------------------------------------------------------------------
(* Properties.                                                             *)

\* While a core has the memory nothing of the frontend scans, builds, loads or
\* holds pictures, whatever was running or waiting when the game was launched
\* (App::evictForCore; ARCHITECTURE.md:111, the worker "is stopped with the
\* scanner before a core launches").
FrontendQuiet ==
  core => /\ scan.thread = "none" /\ ~scan.done
          /\ cache.worker = "none" /\ cache.queue = <<>>
          /\ ~cache.resident /\ cache.ring = NoSystem

\* The index is replaced only by a scan that went through and that nobody
\* stopped, wherever the request to stop met the two flags of the thread
\* (rom_scanner.cpp:112-134).
StoppedScanUnused == [][index' # index => scan.found = "full" /\ ~scan.stop]_vars

\* A resident set that is taken for current was read after its system's file
\* was last written, except while a build is rewriting the files; and no
\* texture is of a system that is no longer resident (thumb_cache.cpp:150,
\* 204).
PicturesCurrent ==
  /\ cache.residentSystem # NoSystem /\ cache.current
     /\ ~(cache.worker # "none" /\ cache.job.kind = "build")
       => ~cache.older
  /\ cache.ring # NoSystem => cache.ring = cache.residentSystem

\* Lists of an index that is gone are on screen only while Home fades out
\* (home_scene.cpp:1053).
StaleOnlyWhileLeaving ==
  pc = "draw" /\ scene = "home" /\ lists # index => pending # "none"

\* The entries Home draws from are alive (game_index.h:51-54: views "must
\* invalidate on a generation change", entries of an older index dangle).
ViewsAreCurrent == pc = "draw" /\ scene = "home" => lists = index

\* A rebuild that is waiting or at work goes on until it is through, a newer
\* one takes its place, the cache is suspended or no thread can be had
\* (thumb_cache.h:31, "Queue a (re)build of every system's cache file from
\* `index`").
Rebuilding(v) ==
  \/ BuildJob(v) \in Queued(cache, "build")
  \/ cache.worker # "none" /\ cache.job = BuildJob(v)
BuildIsKept ==
  [][\A v \in Version : Rebuilding(v) /\ ~Rebuilding(v)' =>
       \/ cache.worker = "done" /\ cache.job = BuildJob(v)
       \/ \E w \in Version : Rebuilding(w)' /\ w >= v
       \/ pc \in {"stop", "suspend"}
       \/ faults' # faults]_vars

\* A Library that stays on screen gets its system's pictures, whatever else
\* the worker was asked for and whichever calls failed.
ThumbsArrive ==
  \A s \in System :
    <>[](pc # "ended" /\ scene = "home" /\ pending = "none" /\ shown = s)
      => <>[](cache.residentSystem = s /\ cache.current)

\* A scan that was started reaches the index, unless somebody stops it.
ScanArrives ==
  \A v \in Version :
    (scan.thread # "none" /\ index = v) ~> (index # v \/ pc \in {"stop", "ended"})

=============================================================================
