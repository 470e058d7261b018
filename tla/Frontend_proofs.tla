---------------------------- MODULE Frontend_proofs ----------------------------
(***************************************************************************)
(* Proofs about Frontend for any number of systems, index versions, fade    *)
(* turns and faults: types are kept, the frontend is quiet while a core has the   *)
(* memory, pictures are current, no stopped scan is used, and stale lists   *)
(* are on screen only while Home fades out.  The thumbnail cache is a       *)
(* record, and each call of ThumbCache an operator on it; the lemmas say of *)
(* each call what the main loop's steps need to know of it.                 *)
(***************************************************************************)
EXTENDS Frontend, SequenceTheorems, TLAPS

-----------------------------------------------------------------------------
(* The calls on the thumbnail cache.                                       *)

\* A record with the cache's fields, whatever their values.
Shaped(c) ==
  c \in [worker : {c.worker}, at : {c.at}, job : {c.job}, queue : {c.queue},
         stop : {c.stop}, want : {c.want}, loaded : {c.loaded}, resident : {c.resident},
         ring : {c.ring}, residentSystem : {c.residentSystem}, current : {c.current},
         older : {c.older}]

Building(c) == c.worker # "none" /\ c.job.kind = "build"

\* PicturesCurrent.
Truthful(c) ==
  /\ c.residentSystem # NoSystem /\ c.current /\ ~Building(c) => ~c.older
  /\ c.ring # NoSystem => c.ring = c.residentSystem

Good(c) == Shaped(c) /\ Truthful(c)

\* Only what the cache is asked for changes.
OnlyAsked(c, d) ==
  /\ Shaped(d)
  /\ d.worker = c.worker /\ d.job = c.job /\ d.loaded = c.loaded
  /\ d.residentSystem = c.residentSystem /\ d.resident = c.resident
  /\ d.ring = c.ring /\ d.current = c.current /\ d.older = c.older

LEMMA OnlyAskedGood ==
  ASSUME NEW c, NEW d, Good(c), OnlyAsked(c, d)
  PROVE  Good(d)
BY DEF Good, OnlyAsked, Truthful, Building

LEMMA AskingAsks ==
  ASSUME NEW c, Shaped(c)
  PROVE  /\ \A v : OnlyAsked(c, Rebuild(c, v))
         /\ \A s : OnlyAsked(c, Asked(c, s))
         /\ OnlyAsked(c, AskAgain(c))
         /\ OnlyAsked(c, SuspendAsked(c))
<1>1. \A s : OnlyAsked(c, Asked(c, s))
  BY DEF Shaped, OnlyAsked, Asked
<1>2. \A v : OnlyAsked(c, Rebuild(c, v))
  BY DEF Shaped, OnlyAsked, Rebuild
<1>3. OnlyAsked(c, AskAgain(c))
  BY <1>1 DEF Shaped, OnlyAsked, AskAgain
<1>4. OnlyAsked(c, SuspendAsked(c))
  BY DEF Shaped, OnlyAsked, SuspendAsked
<1> QED
  BY <1>1, <1>2, <1>3, <1>4

\* The calls that drop or replace what is resident, field by field.
LEMMA Replacements ==
  ASSUME NEW c, Shaped(c)
  PROVE  /\ LET d == DropResident(c) IN
              /\ Shaped(d)
              /\ d.worker = c.worker /\ d.job = c.job /\ d.queue = c.queue
              /\ d.loaded = c.loaded /\ d.resident = FALSE /\ d.ring = NoSystem
              /\ d.residentSystem = NoSystem /\ d.current = TRUE /\ d.older = FALSE
         /\ LET d == AdoptLoad(c) IN
              /\ Shaped(d)
              /\ d.worker = "none" /\ d.resident = c.loaded /\ d.ring = NoSystem
              /\ d.residentSystem = c.job.system /\ d.older = FALSE
         /\ LET d == Suspended(c) IN
              /\ Shaped(d)
              /\ d.worker = "none" /\ d.queue = <<>> /\ d.resident = FALSE /\ d.ring = NoSystem
              /\ d.residentSystem = NoSystem
<1>1. \A k : Shaped(k) =>
        LET d == DropResident(k) IN
          /\ Shaped(d)
          /\ d.worker = k.worker /\ d.job = k.job /\ d.queue = k.queue
          /\ d.loaded = k.loaded /\ d.resident = FALSE /\ d.ring = NoSystem
          /\ d.residentSystem = NoSystem /\ d.current = TRUE /\ d.older = FALSE
  BY DEF DropResident, Shaped
<1> DEFINE e == DropResident(c)
<1>2. Shaped(e)
  BY <1>1
<1> HIDE DEF e
<1>3. LET d == [e EXCEPT !.worker = "none", !.loaded = FALSE, !.job = NoJob,
                         !.resident = c.loaded, !.residentSystem = c.job.system,
                         !.current = TRUE]
      IN /\ Shaped(d)
         /\ d.worker = "none" /\ d.resident = c.loaded /\ d.ring = e.ring
         /\ d.residentSystem = c.job.system /\ d.older = e.older
  BY <1>2 DEF Shaped
<1>4. LET d == [e EXCEPT !.worker = "none", !.stop = FALSE, !.loaded = FALSE,
                         !.queue = <<>>, !.job = NoJob]
      IN /\ Shaped(d)
         /\ d.worker = "none" /\ d.queue = <<>> /\ d.resident = e.resident
         /\ d.ring = e.ring /\ d.residentSystem = e.residentSystem
  BY <1>2 DEF Shaped
<1> QED
  BY <1>1, <1>3, <1>4 DEF e, AdoptLoad, Suspended

LEMMA SpawnGood ==
  ASSUME NEW c, Good(c), NEW o \in Spawn(c)
  PROVE  Good(o.cache) /\ (~CanStart(c) => o.cache = c)
<1>1. o = Outcome(StartNext(c), FALSE) \/ (CanStart(c) /\ o = Outcome(SpawnFailed(c), TRUE))
  BY DEF Spawn
<1>2. o.cache = StartNext(c) \/ (CanStart(c) /\ o.cache = SpawnFailed(c))
  BY <1>1 DEF Outcome
<1>3. CASE ~CanStart(c)
  BY <1>2, <1>3 DEF StartNext
<1>4. CASE CanStart(c)
  BY <1>2, <1>4
  DEF CanStart, StartNext, SpawnFailed, Good, Shaped, Truthful, Building, NoJob, LoadJob
<1> QED
  BY <1>3, <1>4

LEMMA UpdatedGood ==
  ASSUME NEW c, Good(c), NEW o \in Updated(c)
  PROVE  /\ Good(o.cache)
         /\ c.worker = "none" /\ c.queue = <<>> => o.cache = c
<1> DEFINE landed == Landed(c)
           again == AskAgain(landed)
<1>1. CASE c.worker # "done"
  BY <1>1, SpawnGood DEF Updated, CanStart
<1>2. CASE c.worker = "done" /\ c.job.kind = "load"
  <2>1. Good(AdoptLoad(c))
    BY <1>2, Replacements DEF Good, Shaped, Truthful, Building
  <2> QED
    BY <1>2, <2>1, SpawnGood DEF Updated
<1>3. CASE c.worker = "done" /\ c.job.kind # "load"
  <2>1. /\ Good(landed) /\ landed.worker = "none"
        /\ landed.residentSystem = NoSystem \/ ~landed.current
    <3>1. /\ Shaped(landed) /\ landed.worker = "none" /\ landed.job = c.job
          /\ landed.ring = c.ring /\ landed.resident = c.resident
          /\ landed.residentSystem = c.residentSystem /\ landed.older = c.older
          /\ landed.current = (c.residentSystem = NoSystem)
      BY DEF Landed, Good, Shaped
    <3>2. landed.residentSystem = NoSystem \/ ~landed.current
      BY <3>1, Zenon
    <3> HIDE DEF landed
    <3> QED
      BY <3>1, <3>2 DEF Good, Truthful, Building
  <2>2. /\ Good(again) /\ again.worker = "none"
        /\ again.residentSystem = NoSystem \/ ~again.current
    BY <2>1, AskingAsks, OnlyAskedGood DEF Good, OnlyAsked
  <2>3. CASE again.queue = landed.queue
    <3>1. Good(ForgetJob(again))
      BY <2>2 DEF ForgetJob, Good, Shaped, Truthful, Building
    <3>2. o \in Spawn(ForgetJob(again))
      BY <1>3, <2>3 DEF Updated
    <3> QED
      BY <1>3, <3>1, <3>2, SpawnGood
  <2>4. CASE again.queue # landed.queue
    <3>1. PICK p \in Spawn(again) : o = Outcome(ForgetJob(p.cache), p.failed)
      BY <1>3, <2>4 DEF Updated
    <3>2. o.cache = ForgetJob(p.cache)
      BY <3>1 DEF Outcome
    <3>3. p.cache = StartNext(again) \/ p.cache = SpawnFailed(again)
      BY DEF Spawn, Outcome
    <3>4. Good(p.cache)
      BY <2>2, SpawnGood
    <3>5. /\ p.cache.worker \in {"none", "busy"}
          /\ p.cache.residentSystem = again.residentSystem
          /\ p.cache.current = again.current
      BY <2>2, <3>3 DEF StartNext, SpawnFailed, Good, Shaped
    <3> HIDE DEF again, landed
    <3> QED
      BY <1>3, <2>2, <3>2, <3>4, <3>5 DEF ForgetJob, Good, Shaped, Truthful, Building
  <2> QED
    BY <2>3, <2>4
<1> QED
  BY <1>1, <1>2, <1>3

LEMMA ShownGood ==
  ASSUME NEW c, Good(c)
  PROVE  Good(Shown(c))
BY DEF Shown, Good, Shaped, Truthful, Building

LEMMA SuspendedGood ==
  ASSUME NEW c, Shaped(c)
  PROVE  /\ Good(Suspended(c))
         /\ Suspended(c).worker = "none" /\ Suspended(c).queue = <<>>
         /\ ~Suspended(c).resident /\ Suspended(c).ring = NoSystem
BY Replacements DEF Good, Shaped, Truthful, Building

-----------------------------------------------------------------------------
(* The inductive invariant.                                                *)

CacheInv == Good(cache)

\* FrontendQuiet, and that it is the scene of the game that keeps it so.
QuietInv ==
  core => /\ scene = "game" /\ pending = "none"
          /\ scan.thread = "none" /\ ~scan.done
          /\ cache.worker = "none" /\ cache.queue = <<>>
          /\ ~cache.resident /\ cache.ring = NoSystem

\* What a join that is being waited for is part of.
JoinInv ==
  /\ after # "none" => pc \in {"stop", "suspend"}
  /\ pc = "stop" => after \in {"evict", "native", "exit"}
  /\ after = "evict" => scene = "game" /\ pending = "none"
  /\ pc = "rows" => scene = "home"
  /\ pc = "suspend" => after \in {"evict", "exit"} /\ scan.thread = "none" /\ ~scan.done
  /\ pc = "stop" /\ after = "native" => scene = "home" /\ pending = "none" /\ lists = index

\* The two flags of the thread: done stands for a whole walk, and beside a
\* request to stop only as long as the main thread waits for the join.
FlagsInv ==
  /\ scan.done => scan.found = "full" /\ (scan.stop => pc = "stop")
  /\ scan.thread = "set_done" => scan.found = "full" \/ scan.stop
  /\ scan.thread \in {"walk", "set_done"} => ~scan.done

\* A game that asked to be restarted was running, so nothing scans until Home
\* has launched it again.
RelaunchInv ==
  relaunch =>
    /\ ~rescan
    /\ scan.thread = "none" /\ ~scan.done
    /\ \/ scene = "game" /\ pending = "home"
       \/ /\ scene = "home" /\ pending = "none" /\ lists = index
          /\ pc \in {"adopt", "thumbs", "scene"}

\* What Home draws unless it is leaving.
ListsInv ==
  pc \in {"rows", "draw"} /\ scene = "home" /\ pending = "none" => lists = index

IInv == ScannerTypeOK /\ CacheInv /\ QuietInv /\ JoinInv /\ FlagsInv
        /\ RelaunchInv /\ ListsInv

LEMMA InitInv == Init => IInv
<1> SUFFICES ASSUME Init
             PROVE  IInv
  OBVIOUS
<1>1. Good(EmptyCache)
  BY DEF EmptyCache, Good, Shaped, Truthful, Building, NoSystem
<1>2. Good(Rebuild(EmptyCache, 1))
  BY <1>1, AskingAsks, OnlyAskedGood DEF Good
<1>3. Good(StartNext(Rebuild(EmptyCache, 1)))
  <2>1. Outcome(StartNext(Rebuild(EmptyCache, 1)), FALSE) \in Spawn(Rebuild(EmptyCache, 1))
    BY DEF Spawn
  <2> QED
    BY <1>2, <2>1, SpawnGood DEF Outcome
<1>4. CacheInv
  BY <1>1, <1>3 DEF Init, CacheInv
<1>5. ScannerTypeOK /\ FlagsInv
  <2>1. scan = Started(IdleScanner) \/ scan = IdleScanner
    BY DEF Init
  <2>2. CASE scan = Started(IdleScanner)
    BY <2>2 DEF Started, IdleScanner, ScannerTypeOK, FlagsInv
  <2>3. CASE scan = IdleScanner
    BY <2>3 DEF IdleScanner, ScannerTypeOK, FlagsInv
  <2> QED
    BY <2>1, <2>2, <2>3
<1>6. QuietInv /\ JoinInv /\ RelaunchInv /\ ListsInv
  BY DEF Init, QuietInv, JoinInv, RelaunchInv, ListsInv
<1> QED
  BY <1>4, <1>5, <1>6 DEF IInv

\* Every call the main loop makes leaves the pictures as true as they were.
LEMMA CacheKept == IInv /\ [Next]_vars => CacheInv'
<1> SUFFICES ASSUME IInv, [Next]_vars
             PROVE  CacheInv'
  OBVIOUS
<1>1. Good(cache) /\ Shaped(cache)
  BY DEF IInv, CacheInv, Good
<1>2. CASE UNCHANGED cache
  BY <1>1, <1>2 DEF CacheInv, Good, Shaped, Truthful, Building
<1>3. ASSUME NEW c, Good(c), Apply(Spawn(c))
      PROVE  CacheInv'
  BY <1>3, SpawnGood DEF Apply, CacheInv, Good, Shaped, Truthful, Building
<1>4. \A v : Good(Rebuild(cache, v))
  BY <1>1, AskingAsks, OnlyAskedGood
<1>5. \A s : Good(Asked(cache, s))
  BY <1>1, AskingAsks, OnlyAskedGood
<1>6. CASE Adopt
  BY <1>2, <1>3, <1>4, <1>6 DEF Adopt
<1>7. CASE PumpThumbs
  <2>1. PICK o \in Updated(cache) : cache' = o.cache
    BY <1>7 DEF PumpThumbs, Apply
  <2> QED
    BY <1>1, <2>1, UpdatedGood DEF CacheInv, Good, Shaped, Truthful, Building
<1>8. CASE Draw
  BY <1>1, <1>2, <1>8, ShownGood DEF Draw, CacheInv, Good, Shaped, Truthful, Building
<1>9. ASSUME NEW s, Request(s)
      PROVE  CacheInv'
  BY <1>2, <1>3, <1>5, <1>9 DEF Request, CacheInv, Good, Shaped, Truthful, Building
<1>10. CASE Browse
  BY <1>9, <1>10 DEF Browse
<1>11. CASE LeaveHome \/ AskRows
  BY <1>9, <1>11 DEF LeaveHome, AskRows
<1>12. CASE LeaveGame
  BY <1>2, <1>3, <1>4, <1>12 DEF LeaveGame
<1>13. CASE ScannerStopped
  <2>1. Good(SuspendAsked(cache))
    BY <1>1, AskingAsks, OnlyAskedGood
  <2> QED
    BY <1>2, <1>13, <2>1 DEF ScannerStopped, CacheInv, Good, Shaped, Truthful, Building
<1>14. CASE ThumbsSuspended
  BY <1>1, <1>14, SuspendedGood
  DEF ThumbsSuspended, CacheInv, Good, Shaped, Truthful, Building
<1>15. CASE Worker
  <2>1. CASE EndBuild
    BY <1>1, <2>1 DEF EndBuild, CacheInv, Good, Shaped, Truthful, Building
  <2>2. CASE WorkLoad
    BY <1>1, <2>2 DEF WorkLoad, CacheInv, Good, Shaped, Truthful, Building
  <2>3. CASE WorkBuild
    BY <1>1, <2>3 DEF WorkBuild, CacheInv, Good, Shaped, Truthful, Building
  <2> QED
    BY <1>15, <2>1, <2>2, <2>3 DEF Worker
<1>16. CASE \/ FadeTurn \/ EnterHome \/ EnterSettings \/ EnterGame \/ SkipScene \/ LeaveBoot
            \/ Relaunch \/ LaunchNative \/ Rescan \/ Settings \/ Play \/ Exit \/ Scanner
  BY <1>2, <1>16
  DEF FadeTurn, EnterHome, EnterSettings, EnterGame, SkipScene, LeaveBoot, Relaunch,
      LaunchNative, Rescan, Settings, Play, Exit, Scanner
<1> QED
  BY <1>2, <1>6, <1>7, <1>8, <1>10, <1>11, <1>12, <1>13, <1>14, <1>15, <1>16
  DEF Next, MainThread, vars

\* The scanner's steps and calls.
LEMMA FlagsKept == IInv /\ [Next]_vars => ScannerTypeOK' /\ FlagsInv'
<1> SUFFICES ASSUME IInv, [Next]_vars
             PROVE  ScannerTypeOK' /\ FlagsInv'
  OBVIOUS
<1> USE DEF IInv, ScannerTypeOK, FlagsInv
<1>1. CASE UNCHANGED scan /\ (pc = "stop" => pc' = "stop")
  BY <1>1
<1>2. CASE StartScan /\ pc # "stop"
  <2>1. CASE scan' = Started(scan)
    BY <2>1 DEF Started
  <2>2. CASE scan' = StartedInline(scan)
    BY <2>2 DEF StartedInline
  <2> QED
    BY <1>2, <2>1, <2>2 DEF StartScan
<1>3. CASE FadeTurn \/ EnterHome \/ EnterSettings
  BY <1>1, <1>2, <1>3 DEF FadeTurn, EnterHome, EnterSettings, Enter
<1>4. CASE Adopt
  BY <1>1, <1>4 DEF Adopt, Taken
<1>5. CASE Rescan
  BY <1>2, <1>5 DEF Rescan, Active
<1>6. CASE LaunchNative \/ Exit
  BY <1>6 DEF LaunchNative, Exit, StopAsked
<1>7. CASE EnterGame
  <2>1. CASE UNCHANGED scan
    BY <1>1, <1>7, <2>1 DEF EnterGame, Enter
  <2>2. CASE scan' = StopAsked(scan) /\ pc' = "stop"
    BY <2>2 DEF StopAsked
  <2> QED
    BY <1>7, <2>1, <2>2 DEF EnterGame
<1>8. CASE ScannerStopped
  BY <1>8 DEF ScannerStopped, Stopped
<1>9. CASE Scanner
  <2>1. pc' = pc
    BY <1>9 DEF Scanner, mainVars
  <2>2. CASE Walk
    BY <2>1, <2>2 DEF Walk
  <2>3. CASE SetDone
    BY <2>1, <2>3 DEF SetDone
  <2>4. CASE ClearRunning
    BY <2>1, <2>4 DEF ClearRunning
  <2> QED
    BY <1>9, <2>2, <2>3, <2>4 DEF Scanner, ScannerThread
<1>10. CASE ThumbsSuspended
  BY <1>1, <1>10 DEF ThumbsSuspended
<1>11. CASE \/ PumpThumbs \/ Draw \/ SkipScene \/ LeaveBoot \/ Browse \/ LeaveHome \/ Relaunch
            \/ AskRows \/ Settings \/ Play \/ LeaveGame \/ Worker \/ UNCHANGED vars
  BY <1>1, <1>11
  DEF PumpThumbs, Draw, SkipScene, LeaveBoot, Browse, LeaveHome, Relaunch, AskRows, Settings,
      Play, LeaveGame, Worker, Active, vars, mainVars
<1> QED
  BY <1>3, <1>4, <1>5, <1>6, <1>7, <1>8, <1>9, <1>10, <1>11 DEF Next, MainThread

LEMMA QuietKept == IInv /\ [Next]_vars => QuietInv'
<1> SUFFICES ASSUME IInv, [Next]_vars
             PROVE  QuietInv'
  OBVIOUS
<1> USE DEF QuietInv
<1>1. CASE UNCHANGED core /\ ~core
  BY <1>1
<1>2. CASE UNCHANGED <<core, scene, pending, scan, cache>>
  BY <1>2 DEF IInv
<1>3. ASSUME core
      PROVE  /\ scene = "game" /\ pending = "none"
             /\ scan.thread = "none" /\ ~scan.done
             /\ cache.worker = "none" /\ cache.queue = <<>>
             /\ ~cache.resident /\ cache.ring = NoSystem
  BY <1>3 DEF IInv
<1>4. Good(cache) /\ Shaped(cache)
  BY DEF IInv, CacheInv, Good
<1>5. CASE FadeTurn \/ Adopt \/ Draw \/ LeaveBoot \/ Rescan \/ Settings \/ SkipScene
  BY <1>1, <1>2, <1>3, <1>5
  DEF FadeTurn, Adopt, Draw, LeaveBoot, Rescan, Settings, SkipScene, Active
<1>15. CASE EnterHome \/ EnterSettings \/ EnterGame
  BY <1>1, <1>3, <1>15 DEF EnterHome, EnterSettings, EnterGame, Enter
<1>6. CASE Browse \/ LeaveHome \/ Relaunch \/ LaunchNative \/ AskRows
  BY <1>1, <1>3, <1>6
  DEF Browse, LeaveHome, Relaunch, LaunchNative, AskRows, Active, IInv, JoinInv
<1>7. CASE PumpThumbs
  <2>1. PICK o \in Updated(cache) : cache' = o.cache
    BY <1>7 DEF PumpThumbs, Apply
  <2>2. core => cache' = cache
    BY <1>3, <1>4, <2>1, UpdatedGood
  <2> QED
    BY <1>1, <1>2, <1>7, <2>2 DEF PumpThumbs
<1>8. CASE LeaveGame
  BY <1>8 DEF LeaveGame
<1>9. CASE Play
  BY <1>2, <1>9 DEF Play
<1>10. CASE ScannerStopped
  <2>1. core => scan'.thread = "none" /\ ~scan'.done
    BY <1>10 DEF ScannerStopped, Stopped, IInv, ScannerTypeOK
  <2>2. /\ OnlyAsked(cache, SuspendAsked(cache))
        /\ SuspendAsked(cache).queue = cache.queue
    BY <1>4, AskingAsks DEF SuspendAsked, Shaped
  <2> QED
    BY <1>3, <1>10, <2>1, <2>2 DEF ScannerStopped, OnlyAsked
<1>11. CASE ThumbsSuspended
  <2>1. core' => /\ scene = "game" /\ pending = "none"
                 /\ scan.thread = "none" /\ ~scan.done
    BY <1>11 DEF ThumbsSuspended, IInv, JoinInv
  <2> QED
    BY <1>4, <1>11, <2>1, SuspendedGood DEF ThumbsSuspended
<1>12. CASE Exit
  BY <1>1, <1>3, <1>12 DEF Exit, StopAsked, IInv, ScannerTypeOK
<1>13. CASE Scanner
  BY <1>1, <1>3, <1>13
  DEF Scanner, ScannerThread, Walk, SetDone, ClearRunning, mainVars, IInv, ScannerTypeOK
<1>14. CASE Worker
  BY <1>1, <1>3, <1>14 DEF Worker, EndBuild, WorkLoad, WorkBuild, mainVars
<1> QED
  BY <1>2, <1>5, <1>6, <1>7, <1>8, <1>9, <1>10, <1>11, <1>12, <1>13, <1>14, <1>15
  DEF Next, MainThread, vars, mainVars

LEMMA JoinKept == IInv /\ [Next]_vars => JoinInv'
<1> SUFFICES ASSUME IInv, [Next]_vars
             PROVE  JoinInv'
  OBVIOUS
<1> USE DEF IInv, JoinInv
<1>1. CASE UNCHANGED <<scan, pc, after, scene, pending, lists, index>>
  BY <1>1
<1>2. CASE /\ pc \notin {"stop", "suspend"} /\ pc' \notin {"rows", "stop", "suspend"}
           /\ UNCHANGED after
  BY <1>2
<1>3. CASE FadeTurn \/ EnterHome \/ EnterSettings \/ Adopt \/ PumpThumbs \/ Draw \/ SkipScene
  BY <1>2, <1>3
  DEF FadeTurn, EnterHome, EnterSettings, Enter, Adopt, PumpThumbs, Draw, SkipScene
<1>4. CASE LeaveBoot \/ Browse \/ LeaveHome \/ Relaunch \/ AskRows \/ Settings \/ Play
  BY <1>2, <1>4
  DEF LeaveBoot, Browse, LeaveHome, Relaunch, AskRows, Settings, Play, Active
<1>12. CASE Rescan \/ LeaveGame
  BY <1>12 DEF Rescan, LeaveGame, Active
<1>5. CASE LaunchNative
  BY <1>5 DEF LaunchNative, Active, RefreshLists
<1>6. CASE EnterGame
  BY <1>6 DEF EnterGame, Enter
<1>7. CASE Exit
  BY <1>7 DEF Exit
<1>8. CASE ScannerStopped
  <2>1. scan'.thread = "none" /\ ~scan'.done
    BY <1>8 DEF ScannerStopped, Stopped, ScannerTypeOK
  <2> QED
    BY <1>8, <2>1 DEF ScannerStopped
<1>9. CASE ThumbsSuspended
  BY <1>9 DEF ThumbsSuspended
<1>10. CASE Scanner
  BY <1>10 DEF Scanner, ScannerThread, Walk, SetDone, ClearRunning, mainVars
<1>11. CASE Worker \/ UNCHANGED vars
  BY <1>1, <1>11 DEF Worker, vars, mainVars
<1> QED
  BY <1>3, <1>4, <1>5, <1>6, <1>7, <1>8, <1>9, <1>10, <1>11, <1>12 DEF Next, MainThread

LEMMA RelaunchKept == IInv /\ [Next]_vars => RelaunchInv'
<1> SUFFICES ASSUME IInv, [Next]_vars, relaunch'
             PROVE  RelaunchInv'
  BY DEF RelaunchInv
<1> USE DEF RelaunchInv
<1>1. CASE Browse \/ LeaveHome \/ Relaunch \/ LaunchNative
  BY <1>1 DEF Browse, LeaveHome, Relaunch, LaunchNative
<1>2. CASE LeaveGame
  BY <1>2 DEF LeaveGame, Active, SwitchScene, IInv, QuietInv
<1>3. ASSUME UNCHANGED relaunch
      PROVE  /\ ~rescan
             /\ scan.thread = "none" /\ ~scan.done
             /\ \/ scene = "game" /\ pending = "home"
                \/ /\ scene = "home" /\ pending = "none" /\ lists = index
                   /\ pc \in {"adopt", "thumbs", "scene"}
  BY <1>3 DEF IInv
<1>4. CASE FadeTurn \/ Adopt \/ PumpThumbs \/ Draw \/ SkipScene
  BY <1>3, <1>4 DEF FadeTurn, Adopt, PumpThumbs, Draw, SkipScene
<1>5. CASE EnterHome \/ EnterSettings \/ EnterGame
  BY <1>3, <1>5 DEF EnterHome, EnterSettings, EnterGame, Enter
<1>6. CASE LeaveBoot \/ Settings \/ Play \/ Rescan
  BY <1>3, <1>6 DEF LeaveBoot, Settings, Play, Rescan, Active
<1>7. CASE AskRows
  BY <1>3, <1>7 DEF AskRows
<1>8. CASE Exit
  BY <1>3, <1>8 DEF Exit, StopAsked, IInv, ScannerTypeOK
<1>9. CASE ScannerStopped
  <2>1. scan'.thread = "none" /\ ~scan'.done
    BY <1>9 DEF ScannerStopped, Stopped, IInv, ScannerTypeOK
  <2> QED
    BY <1>3, <1>9, <2>1 DEF ScannerStopped
<1>10. CASE ThumbsSuspended
  BY <1>3, <1>10 DEF ThumbsSuspended
<1>11. CASE Scanner
  BY <1>3, <1>11 DEF Scanner, ScannerThread, Walk, SetDone, ClearRunning, mainVars
<1>12. CASE Worker \/ UNCHANGED vars
  BY <1>3, <1>12 DEF Worker, vars, mainVars
<1> QED
  BY <1>1, <1>2, <1>4, <1>5, <1>6, <1>7, <1>8, <1>9, <1>10, <1>11, <1>12
  DEF Next, MainThread

\* Home draws lists it has just compared with the index, or none.
LEMMA ListsKept == IInv /\ [Next]_vars => ListsInv'
<1> SUFFICES ASSUME IInv, [Next]_vars
             PROVE  ListsInv'
  OBVIOUS
<1> USE DEF ListsInv
<1>1. CASE pc' \notin {"rows", "draw"}
  BY <1>1
<1>2. CASE Browse \/ Rescan \/ Settings \/ LeaveBoot \/ Play
  BY <1>2
  DEF Browse, Rescan, Settings, LeaveBoot, Play, Active, RefreshLists, SwitchScene
<1>7. CASE Relaunch \/ AskRows
  BY <1>7 DEF Relaunch, AskRows, Active, SwitchScene, IInv, RelaunchInv
<1>3. CASE SkipScene \/ LeaveHome \/ LeaveGame
  BY <1>3 DEF SkipScene, LeaveHome, LeaveGame, SwitchScene
<1>4. CASE ScannerStopped \/ ThumbsSuspended
  BY <1>4 DEF ScannerStopped, ThumbsSuspended, IInv, JoinInv
<1>5. CASE \/ FadeTurn \/ EnterHome \/ EnterSettings \/ EnterGame \/ Adopt \/ PumpThumbs \/ Draw
           \/ LaunchNative \/ Exit
  BY <1>1, <1>5
  DEF FadeTurn, EnterHome, EnterSettings, EnterGame, Adopt, PumpThumbs, Draw, LaunchNative,
      Exit
<1>6. CASE Scanner \/ Worker \/ UNCHANGED vars
  BY <1>6 DEF Scanner, Worker, vars, mainVars, IInv
<1> QED
  BY <1>2, <1>3, <1>4, <1>5, <1>6, <1>7 DEF Next, MainThread

LEMMA InvKept == IInv /\ [Next]_vars => IInv'
BY CacheKept, QuietKept, JoinKept, FlagsKept, RelaunchKept, ListsKept DEF IInv

LEMMA InvHolds == Spec => []IInv
BY InitInv, InvKept, PTL DEF Spec

-----------------------------------------------------------------------------
(* Type correctness.                                                       *)

\* At most one build and one load wait.
Waiting ==
  {q \in Seq(Job) : Len(q) <= 2 /\ \A i, j \in DOMAIN q : q[i].kind = q[j].kind => i = j}

CacheTypes ==
  [worker : {"none", "busy", "done"}, at : 0 .. NumSystems, job : Job, queue : Waiting,
   stop : BOOLEAN, want : System \cup {NoSystem}, loaded : BOOLEAN, resident : BOOLEAN,
   ring : System \cup {NoSystem}, residentSystem : System \cup {NoSystem},
   current : BOOLEAN, older : BOOLEAN]

\* The sequences of which the n-th is what a filter keeps of the first n jobs.
Kept(q, kind, f) ==
  [n \in 0 .. Len(q) |->
     IF n = 0 THEN <<>>
     ELSE IF q[n].kind = kind THEN f[n - 1] ELSE Append(f[n - 1], q[n])]

LEMMA WithoutIs ==
  ASSUME NEW q, NEW kind, NEW g, g = Kept(q, kind, g)
  PROVE  \E f : f = Kept(q, kind, f) /\ Without(q, kind) = f[Len(q)]
<1> DEFINE f == CHOOSE h : h = Kept(q, kind, h)
<1>1. f = Kept(q, kind, f)
  OBVIOUS
<1>2. Without(q, kind) = f[Len(q)]
  BY DEF Without, Kept
<1> QED
  BY <1>1, <1>2

LEMMA UpToTwo ==
  ASSUME NEW n \in Nat, n <= 2
  PROVE  (n = 0 \/ n = 1 \/ n = 2) /\ (n <= 1 => n = 0 \/ n = 1)
OBVIOUS

LEMMA LenUpToTwo ==
  ASSUME NEW S, NEW q \in Seq(S), Len(q) <= 2
  PROVE  /\ Len(q) = 0 \/ Len(q) = 1 \/ Len(q) = 2
         /\ Len(q) <= 1 => Len(q) = 0 \/ Len(q) = 1
<1>1. Len(q) \in Nat
  BY LenProperties
<1> QED
  BY <1>1, UpToTwo

\* What the filter keeps of a queue of at most two jobs.
LEMMA WithoutOfTwo ==
  ASSUME NEW q \in Seq(Job), Len(q) <= 2, NEW kind
  PROVE  \E one, two :
           /\ one = IF q[1].kind = kind THEN <<>> ELSE Append(<<>>, q[1])
           /\ two = IF q[2].kind = kind THEN one ELSE Append(one, q[2])
           /\ Without(q, kind) = IF Len(q) = 0 THEN <<>> ELSE IF Len(q) = 1 THEN one ELSE two
<1> PICK one, two :
      /\ one = IF q[1].kind = kind THEN <<>> ELSE Append(<<>>, q[1])
      /\ two = IF q[2].kind = kind THEN one ELSE Append(one, q[2])
  OBVIOUS
<1>1. Len(q) = 0 \/ Len(q) = 1 \/ Len(q) = 2
  BY LenUpToTwo
<1> DEFINE g == [n \in 0 .. Len(q) |-> IF n = 0 THEN <<>> ELSE IF n = 1 THEN one ELSE two]
<1>2. g = Kept(q, kind, g)
  <2>1. CASE Len(q) = 0
    BY <2>1 DEF Kept
  <2>2. CASE Len(q) = 1
    BY <2>2 DEF Kept
  <2>3. CASE Len(q) = 2
    BY <2>3 DEF Kept
  <2> QED
    BY <1>1, <2>1, <2>2, <2>3
<1>3. PICK f : f = Kept(q, kind, f) /\ Without(q, kind) = f[Len(q)]
  <2> HIDE DEF g
  <2> QED
    BY <1>2, WithoutIs
<1>4. \A n \in 0 .. Len(q) :
        f[n] = IF n = 0 THEN <<>>
               ELSE IF q[n].kind = kind THEN f[n - 1] ELSE Append(f[n - 1], q[n])
  BY <1>3 DEF Kept
<1>5. f[0] = <<>>
  BY <1>1, <1>4
<1>6. Len(q) # 0 => f[1] = one
  <2>1. Len(q) # 0 => 1 \in 0 .. Len(q) /\ 1 - 1 = 0
    BY <1>1
  <2> QED
    BY <1>1, <1>4, <1>5, <2>1
<1>7. Len(q) = 2 => f[2] = two
  <2>1. Len(q) = 2 => 2 \in 0 .. Len(q) /\ 2 - 1 = 1
    BY <1>1
  <2> QED
    BY <1>4, <1>6, <2>1
<1>8. Without(q, kind) = IF Len(q) = 0 THEN <<>> ELSE IF Len(q) = 1 THEN one ELSE two
  BY <1>1, <1>3, <1>5, <1>6, <1>7
<1> QED
  BY <1>8

\* Of the two jobs there may be the one of the other kind is kept.
LEMMA WithoutType ==
  ASSUME NEW q \in Waiting, NEW kind \in {"build", "load"}
  PROVE  /\ Without(q, kind) \in Seq(Job) /\ Len(Without(q, kind)) <= 1
         /\ \A i \in DOMAIN Without(q, kind) : Without(q, kind)[i].kind # kind
<1>1. q \in Seq(Job) /\ Len(q) <= 2
  BY DEF Waiting
<1>2. \A i \in 1 .. Len(q) : q[i] \in Job
  BY <1>1
<1>3. \A j \in Job : j.kind \in {"build", "load"}
  BY DEF Job, BuildJob, LoadJob
<1>4. Len(q) = 2 => q[1].kind # q[2].kind
  BY <1>1 DEF Waiting
<1>5. PICK one, two :
        /\ one = IF q[1].kind = kind THEN <<>> ELSE Append(<<>>, q[1])
        /\ two = IF q[2].kind = kind THEN one ELSE Append(one, q[2])
        /\ Without(q, kind) = IF Len(q) = 0 THEN <<>> ELSE IF Len(q) = 1 THEN one ELSE two
  BY <1>1, WithoutOfTwo
<1>6. Len(q) = 0 \/ Len(q) = 1 \/ Len(q) = 2
  BY <1>1, LenUpToTwo
<1>8. CASE Len(q) = 0
  BY <1>5, <1>8
<1>9. CASE Len(q) = 1
  BY <1>2, <1>5, <1>9
<1>10. CASE Len(q) = 2
  <2>1. q[1] \in Job /\ q[2] \in Job
    BY <1>2, <1>10
  <2>2. Without(q, kind) = two
    BY <1>5, <1>10
  <2>3. two = IF q[1].kind = kind THEN Append(<<>>, q[2]) ELSE Append(<<>>, q[1])
    BY <1>3, <1>4, <1>5, <1>10, <2>1
  <2> QED
    BY <1>3, <1>4, <1>10, <2>1, <2>2, <2>3
<1> QED
  BY <1>6, <1>8, <1>9, <1>10

LEMMA JobTypes ==
  /\ \A j \in Job : /\ j.kind \in {"build", "load"}
                    /\ j.kind = "load" => j.system \in System
                    /\ j.system \in System \cup {NoSystem}
                    /\ j.from \in Version
  /\ \A v \in Version : BuildJob(v) \in Job /\ BuildJob(v).kind = "build"
  /\ \A s \in System : LoadJob(s) \in Job /\ LoadJob(s).kind = "load"
  /\ NoJob \in Job
<1>1. 0 \in System /\ 0 \in Version
  BY ThumbAssumption DEF System, Version
<1>2. \A v \in Version : BuildJob(v) \in Job /\ BuildJob(v).kind = "build"
  BY DEF Job, BuildJob
<1>3. \A s \in System : LoadJob(s) \in Job /\ LoadJob(s).kind = "load"
  BY DEF Job, LoadJob
<1>4. NoJob \in Job
  BY <1>1, <1>3 DEF NoJob
<1>5. \A j \in Job : \/ \E v \in Version : j = BuildJob(v)
                     \/ \E s \in System : j = LoadJob(s)
  BY DEF Job
<1>6. \A j \in Job : /\ j.kind \in {"build", "load"}
                     /\ j.kind = "load" => j.system \in System
                     /\ j.system \in System \cup {NoSystem}
                     /\ j.from \in Version
  BY <1>1, <1>5 DEF BuildJob, LoadJob
<1> QED
  BY <1>2, <1>3, <1>4, <1>6

\* A job takes the place of the waiting one of its kind.
LEMMA Replaced ==
  ASSUME NEW q \in Waiting, NEW j \in Job
  PROVE  Append(Without(q, j.kind), j) \in Waiting
<1>1. j.kind \in {"build", "load"}
  BY JobTypes
<1> DEFINE w == Without(q, j.kind)
<1>2. /\ w \in Seq(Job) /\ Len(w) <= 1 /\ Len(w) <= 2
      /\ \A i \in DOMAIN w : w[i].kind # j.kind
  <2>1. Len(w) \in Nat
    BY <1>1, WithoutType, LenProperties
  <2> QED
    BY <1>1, <2>1, WithoutType
<1> HIDE DEF w
<1>3. Len(w) \in Nat
  BY <1>2, LenProperties
<1>4. Len(w) = 0 \/ Len(w) = 1
  BY <1>2, LenUpToTwo
<1>5. Append(w, j) \in Seq(Job) /\ Len(Append(w, j)) = Len(w) + 1
  BY <1>2
<1>6. Len(Append(w, j)) <= 2
  BY <1>2, <1>3, <1>5
<1>7. \A a, b \in DOMAIN Append(w, j) : Append(w, j)[a].kind = Append(w, j)[b].kind => a = b
  <2>1. CASE Len(w) = 0
    BY <1>2, <1>5, <2>1
  <2>2. CASE Len(w) = 1
    BY <1>2, <1>5, <2>2
  <2> QED
    BY <1>4, <2>1, <2>2
<1> QED
  BY <1>5, <1>6, <1>7 DEF Waiting, w

LEMMA FirstTaken ==
  ASSUME NEW q \in Waiting, q # <<>>
  PROVE  Head(q) \in Job /\ Tail(q) \in Waiting
<1>1. q \in Seq(Job) /\ Len(q) <= 2
  BY DEF Waiting
<1>2. Len(q) = 1 \/ Len(q) = 2
  BY <1>1, LenUpToTwo
<1>3. Head(q) \in Job /\ Tail(q) \in Seq(Job)
  BY <1>1, <1>2
<1>4. CASE Len(q) = 1
  BY <1>1, <1>3, <1>4 DEF Waiting
<1>5. CASE Len(q) = 2
  BY <1>1, <1>3, <1>5 DEF Waiting
<1> QED
  BY <1>2, <1>3, <1>4, <1>5

\* Every call keeps the cache's types.
LEMMA AskingTypes ==
  ASSUME NEW c \in CacheTypes
  PROVE  /\ \A v \in Version : Rebuild(c, v) \in CacheTypes
         /\ \A s \in System : Asked(c, s) \in CacheTypes
         /\ AskAgain(c) \in CacheTypes
         /\ SuspendAsked(c) \in CacheTypes
<1>1. c.queue \in Waiting /\ c.want \in System \cup {NoSystem}
  BY DEF CacheTypes
<1>2. ASSUME NEW v \in Version
      PROVE  Rebuild(c, v) \in CacheTypes
  <2>1. Append(Without(c.queue, "build"), BuildJob(v)) \in Waiting
    BY <1>1, JobTypes, Replaced
  <2> QED
    BY <2>1 DEF Rebuild, CacheTypes
<1>3. ASSUME NEW s \in System
      PROVE  Asked(c, s) \in CacheTypes
  <2>1. Append(Without(c.queue, "load"), LoadJob(s)) \in Waiting
    BY <1>1, JobTypes, Replaced
  <2> QED
    BY <2>1 DEF Asked, CacheTypes
<1>4. AskAgain(c) \in CacheTypes
  BY <1>1, <1>3 DEF AskAgain
<1>5. SuspendAsked(c) \in CacheTypes
  BY DEF SuspendAsked, CacheTypes
<1> QED
  BY <1>2, <1>3, <1>4, <1>5

LEMMA DroppingTypes ==
  ASSUME NEW c \in CacheTypes
  PROVE  /\ DropResident(c) \in CacheTypes
         /\ AdoptLoad(c) \in CacheTypes
         /\ Suspended(c) \in CacheTypes
         /\ ForgetJob(c) \in CacheTypes
         /\ Shown(c) \in CacheTypes
         /\ Landed(c) \in CacheTypes
<1>1. <<>> \in Waiting
  BY DEF Waiting
<1>2. c.job.system \in System \cup {NoSystem} /\ c.loaded \in BOOLEAN
  BY JobTypes DEF CacheTypes
<1> DEFINE e == DropResident(c)
<1>3. e \in CacheTypes
  BY <1>1 DEF DropResident, CacheTypes
<1> HIDE DEF e
<1>4. [e EXCEPT !.worker = "none", !.loaded = FALSE, !.job = NoJob, !.resident = c.loaded,
                !.residentSystem = c.job.system, !.current = TRUE] \in CacheTypes
  BY <1>1, <1>2, <1>3, JobTypes DEF CacheTypes
<1>5. [e EXCEPT !.worker = "none", !.stop = FALSE, !.loaded = FALSE, !.queue = <<>>,
                !.job = NoJob] \in CacheTypes
  BY <1>1, <1>3, JobTypes DEF CacheTypes
<1>6. ForgetJob(c) \in CacheTypes /\ Shown(c) \in CacheTypes
  BY JobTypes DEF ForgetJob, Shown, CacheTypes
<1>7. Landed(c) \in CacheTypes
  <2>1. (c.residentSystem = NoSystem) \in BOOLEAN
    OBVIOUS
  <2> DEFINE fresh == c.residentSystem = NoSystem
  <2>2. fresh \in BOOLEAN
    BY <2>1
  <2> HIDE DEF fresh
  <2>3. [c EXCEPT !.worker = "none", !.current = fresh] \in CacheTypes
    BY <2>2 DEF CacheTypes
  <2> QED
    BY <2>3 DEF Landed, fresh
<1> QED
  BY <1>3, <1>4, <1>5, <1>6, <1>7 DEF e, AdoptLoad, Suspended

LEMMA SpawnTypes ==
  ASSUME NEW c \in CacheTypes, NEW o \in Spawn(c)
  PROVE  o.cache \in CacheTypes
<1>1. o = Outcome(StartNext(c), FALSE) \/ o = Outcome(SpawnFailed(c), TRUE)
  BY DEF Spawn
<1>2. o.cache = StartNext(c) \/ o.cache = SpawnFailed(c)
  BY <1>1 DEF Outcome
<1>3. StartNext(c) \in CacheTypes
  <2>1. CASE ~CanStart(c)
    BY <2>1 DEF StartNext
  <2>2. CASE CanStart(c)
    <3>1. Head(c.queue) \in Job /\ Tail(c.queue) \in Waiting
      BY <2>2, FirstTaken DEF CanStart, CacheTypes
    <3>2. 0 \in 0 .. NumSystems
      BY ThumbAssumption
    <3> QED
      BY <2>2, <3>1, <3>2 DEF StartNext, CacheTypes
  <2> QED
    BY <2>1, <2>2
<1>4. SpawnFailed(c) \in CacheTypes
  <2>1. <<>> \in Waiting
    BY DEF Waiting
  <2> QED
    BY <2>1, JobTypes DEF SpawnFailed, CacheTypes
<1> QED
  BY <1>2, <1>3, <1>4

LEMMA UpdatedTypes ==
  ASSUME NEW c \in CacheTypes, NEW o \in Updated(c)
  PROVE  o.cache \in CacheTypes
<1> DEFINE again == AskAgain(Landed(c))
<1>1. again \in CacheTypes
  BY DroppingTypes, AskingTypes
<1>2. AdoptLoad(c) \in CacheTypes /\ ForgetJob(again) \in CacheTypes
  BY <1>1, DroppingTypes
<1>3. \/ o \in Spawn(c) \/ o \in Spawn(AdoptLoad(c)) \/ o \in Spawn(ForgetJob(again))
      \/ \E p \in Spawn(again) : o = Outcome(ForgetJob(p.cache), p.failed)
  BY DEF Updated
<1>4. ASSUME NEW p \in Spawn(again), o = Outcome(ForgetJob(p.cache), p.failed)
      PROVE  o.cache \in CacheTypes
  <2>1. p.cache \in CacheTypes
    BY <1>1, SpawnTypes
  <2> QED
    BY <1>4, <2>1, DroppingTypes DEF Outcome
<1> HIDE DEF again
<1> QED
  BY <1>2, <1>3, <1>4, SpawnTypes

\* An index is what an earlier scan has found; the one that is running or whose
\* result waits is not counted in it yet.
CountInv ==
  /\ index <= scans
  /\ scan.thread # "none" \/ scan.done => index < scans

CacheTyped == cache \in CacheTypes

ScreenTyped ==
  /\ pc \in Point
  /\ scene \in Scene
  /\ pending \in Scene \cup {"none"}
  /\ after \in {"none", "evict", "native", "exit"}
  /\ core \in BOOLEAN
  /\ rescan \in BOOLEAN /\ relaunch \in BOOLEAN

\* A fade-out has a turn left.
FadeTyped == fade \in 0 .. FadeTurns /\ (pending # "none" => fade # 0)

ViewsTyped == index \in Version /\ lists \in Version /\ shown \in System \cup {NoSystem}

CountTyped == scans \in 0 .. MaxIndex /\ faults \in 0 .. MaxFaults

TypeInv == /\ CacheTyped /\ ScreenTyped /\ FadeTyped
           /\ ViewsTyped /\ CountTyped /\ CountInv

LEMMA InitTypes == Init => TypeInv
<1> SUFFICES ASSUME Init
             PROVE  TypeInv
  OBVIOUS
<1>1. 0 \in Version /\ 1 \in Version
  BY ThumbAssumption DEF Version
<1>2. EmptyCache \in CacheTypes
  <2>1. <<>> \in Waiting
    BY DEF Waiting
  <2>2. 0 \in 0 .. NumSystems
    BY ThumbAssumption
  <2> QED
    BY <1>1, <2>1, <2>2, JobTypes DEF EmptyCache, CacheTypes
<1>3. StartNext(Rebuild(EmptyCache, 1)) \in CacheTypes
  <2>1. Rebuild(EmptyCache, 1) \in CacheTypes
    BY <1>1, <1>2, AskingTypes
  <2>2. Outcome(StartNext(Rebuild(EmptyCache, 1)), FALSE) \in Spawn(Rebuild(EmptyCache, 1))
    BY DEF Spawn
  <2> QED
    BY <2>1, <2>2, SpawnTypes DEF Outcome
<1>4. CacheTyped
  BY <1>1, <1>2, <1>3 DEF Init, CacheTyped
<1>5. ScreenTyped
  BY DEF Init, ScreenTyped, Point, Scene
<1>6. FadeTyped /\ ViewsTyped /\ CountTyped
  BY <1>1, ThumbAssumption, FrontendAssumption
  DEF Init, FadeTyped, ViewsTyped, CountTyped, Version
<1>7. CountInv
  BY DEF Init, CountInv, IdleScanner
<1> QED
  BY <1>4, <1>5, <1>6, <1>7 DEF TypeInv

\* Nothing is asked of the cache for a version or a system there is not.
LEMMA CacheStaysTyped == TypeInv /\ [Next]_vars => CacheTyped'
<1> SUFFICES ASSUME TypeInv, [Next]_vars
             PROVE  CacheTyped'
  OBVIOUS
<1>1. cache \in CacheTypes
  BY DEF TypeInv, CacheTyped
<1> USE DEF CacheTyped
<1>2. CASE UNCHANGED cache
  BY <1>1, <1>2
<1>3. ASSUME NEW c \in CacheTypes, Apply(Spawn(c))
      PROVE  CacheTyped'
  <2>1. PICK o \in Spawn(c) : cache' = o.cache
    BY <1>3 DEF Apply
  <2> QED
    BY <1>1, <1>3, <2>1, SpawnTypes
<1>4. ASSUME NEW s \in System \cup {NoSystem}, Request(s)
      PROVE  CacheTyped'
  <2>1. s # NoSystem => Asked(cache, s) \in CacheTypes
    BY <1>1, AskingTypes
  <2> QED
    BY <1>1, <1>2, <1>3, <1>4, <2>1 DEF Request
<1>5. CASE Adopt
  <2>1. CASE scan.done
    <3>1. index + 1 \in Version
      BY <2>1, ThumbAssumption DEF TypeInv, CountInv, ViewsTyped, CountTyped, Version
    <3> QED
      BY <1>1, <1>3, <1>5, <2>1, <3>1, AskingTypes DEF Adopt
  <2> QED
    BY <1>2, <1>5, <2>1 DEF Adopt
<1>6. CASE PumpThumbs
  <2>1. PICK o \in Updated(cache) : cache' = o.cache
    BY <1>6 DEF PumpThumbs, Apply
  <2> QED
    BY <1>1, <1>6, <2>1, UpdatedTypes DEF PumpThumbs
<1>7. CASE Draw
  BY <1>1, <1>7, DroppingTypes DEF Draw
<1>8. CASE Browse
  BY <1>4, <1>8 DEF Browse
<1>9. CASE LeaveHome \/ AskRows
  BY <1>4, <1>9 DEF LeaveHome, AskRows, TypeInv, ViewsTyped
<1>10. CASE LeaveGame
  BY <1>1, <1>2, <1>3, <1>10, AskingTypes DEF LeaveGame, TypeInv, ViewsTyped
<1>11. CASE ScannerStopped
  BY <1>1, <1>11, AskingTypes DEF ScannerStopped
<1>12. CASE ThumbsSuspended
  BY <1>1, <1>12, DroppingTypes DEF ThumbsSuspended
<1>13. CASE Worker
  <2>1. CASE EndBuild
    <3>1. 0 \in 0 .. NumSystems
      BY ThumbAssumption
    <3> QED
      BY <1>1, <2>1, <3>1 DEF EndBuild, CacheTypes
  <2>2. CASE WorkLoad
    BY <1>1, <2>2 DEF WorkLoad, CacheTypes
  <2>3. CASE WorkBuild
    <3>1. PICK rewritten \in BOOLEAN :
            cache' = [cache EXCEPT !.at = @ + 1,
                        !.older = @ \/ (rewritten /\ cache.residentSystem = cache.at)]
      BY <2>3 DEF WorkBuild
    <3>2. cache.at + 1 \in 0 .. NumSystems
      BY <1>1, <2>3, ThumbAssumption DEF WorkBuild, CacheTypes
    <3> DEFINE aged == cache.older \/ (rewritten /\ cache.residentSystem = cache.at)
    <3>3. aged \in BOOLEAN
      BY Zenon
    <3> HIDE DEF aged
    <3>4. cache' = [cache EXCEPT !.at = cache.at + 1, !.older = aged]
      BY <3>1, Zenon DEF aged
    <3> QED
      BY <1>1, <3>2, <3>3, <3>4 DEF CacheTypes
  <2> QED
    BY <1>13, <2>1, <2>2, <2>3 DEF Worker
<1>14. CASE \/ FadeTurn \/ EnterHome \/ EnterSettings \/ EnterGame \/ SkipScene \/ LeaveBoot
            \/ Relaunch \/ LaunchNative \/ Rescan \/ Settings
  BY <1>2, <1>14
  DEF FadeTurn, EnterHome, EnterSettings, EnterGame, SkipScene, LeaveBoot, Relaunch,
      LaunchNative, Rescan, Settings
<1>15. CASE Play \/ Exit \/ Scanner \/ UNCHANGED vars
  BY <1>2, <1>15 DEF Play, Exit, Scanner, vars
<1> QED
  BY <1>5, <1>6, <1>7, <1>8, <1>9, <1>10, <1>11, <1>12, <1>13, <1>14, <1>15
  DEF Next, MainThread

LEMMA ScreenStaysTyped == TypeInv /\ [Next]_vars => ScreenTyped'
<1> SUFFICES ASSUME TypeInv, [Next]_vars
             PROVE  ScreenTyped'
  OBVIOUS
<1>1. ScreenTyped
  BY DEF TypeInv
<1> USE DEF ScreenTyped, Point, Scene
<1>2. CASE FadeTurn \/ Adopt \/ PumpThumbs \/ Draw
  BY <1>1, <1>2 DEF FadeTurn, Adopt, PumpThumbs, Draw
<1>7. CASE EnterHome \/ EnterSettings \/ EnterGame
  BY <1>1, <1>7 DEF EnterHome, EnterSettings, EnterGame, Enter
<1>3. CASE SkipScene \/ LeaveBoot \/ Browse \/ LeaveHome \/ LaunchNative \/ Rescan \/ Settings
  BY <1>1, <1>3
  DEF SkipScene, LeaveBoot, Browse, LeaveHome, LaunchNative, Rescan, Settings, SwitchScene
<1>4. CASE Relaunch \/ AskRows \/ Play \/ LeaveGame \/ Exit \/ ScannerStopped
  BY <1>1, <1>4 DEF Relaunch, AskRows, Play, LeaveGame, Exit, ScannerStopped, SwitchScene
<1>5. CASE ThumbsSuspended
  <2>1. (after = "evict") \in BOOLEAN
    BY Zenon
  <2> DEFINE evicting == after = "evict"
  <2>2. evicting \in BOOLEAN
    BY <2>1
  <2> HIDE DEF evicting
  <2>3. core' = evicting
    BY <1>5 DEF ThumbsSuspended, evicting
  <2> QED
    BY <1>1, <1>5, <2>2, <2>3 DEF ThumbsSuspended
<1>6. CASE Scanner \/ Worker \/ UNCHANGED vars
  BY <1>1, <1>6 DEF Scanner, Worker, vars, mainVars
<1> QED
  BY <1>2, <1>3, <1>4, <1>5, <1>6, <1>7 DEF Next, MainThread

LEMMA FadeStaysTyped == TypeInv /\ [Next]_vars => FadeTyped'
<1> SUFFICES ASSUME TypeInv, [Next]_vars
             PROVE  FadeTyped'
  OBVIOUS
<1>1. FadeTyped /\ FadeTurns \in Nat \ {0}
  BY FrontendAssumption DEF TypeInv
<1> USE DEF FadeTyped
<1>2. CASE UNCHANGED <<pending, fade>> \/ \E s : s # "none" /\ SwitchScene(s)
  BY <1>1, <1>2 DEF SwitchScene
<1>3. CASE FadeTurn \/ EnterHome \/ EnterSettings \/ EnterGame
  BY <1>1, <1>3 DEF FadeTurn, EnterHome, EnterSettings, EnterGame, Enter
<1>4. CASE Adopt \/ PumpThumbs \/ Draw \/ SkipScene \/ LeaveBoot \/ Browse \/ LeaveHome
  BY <1>2, <1>4 DEF Adopt, PumpThumbs, Draw, SkipScene, LeaveBoot, Browse, LeaveHome
<1>5. CASE \/ Relaunch \/ LaunchNative \/ AskRows \/ Rescan \/ Settings \/ Play \/ LeaveGame
           \/ Exit
  BY <1>2, <1>5
  DEF Relaunch, LaunchNative, AskRows, Rescan, Settings, Play, LeaveGame, Exit
<1>6. CASE ScannerStopped \/ ThumbsSuspended \/ Scanner \/ Worker \/ UNCHANGED vars
  BY <1>2, <1>6 DEF ScannerStopped, ThumbsSuspended, Scanner, Worker, vars, mainVars
<1> QED
  BY <1>3, <1>4, <1>5, <1>6 DEF Next, MainThread

\* Scans are counted when they start, the index when it is replaced.
LEMMA StartCounts ==
  ASSUME TypeInv, StartScan, CanScan
  PROVE  scans' = scans + 1 /\ scans' \in 0 .. MaxIndex
BY ThumbAssumption DEF TypeInv, CountTyped, StartScan, CanScan

LEMMA CountKept == IInv /\ TypeInv /\ [Next]_vars => CountInv'
<1> SUFFICES ASSUME IInv, TypeInv, [Next]_vars
             PROVE  CountInv'
  OBVIOUS
<1>1. CountInv /\ index \in Nat /\ scans \in Nat /\ ScannerTypeOK
  BY ThumbAssumption DEF TypeInv, ViewsTyped, CountTyped, Version, IInv
<1>2. CASE /\ UNCHANGED <<index, scans>>
           /\ scan'.thread # "none" => scan.thread # "none"
           /\ scan'.done => scan.done
  BY <1>1, <1>2 DEF CountInv
<1>3. CASE UNCHANGED <<index, scans, scan>>
  BY <1>2, <1>3
<1>4. CASE StartScan /\ CanScan /\ UNCHANGED index
  BY <1>1, <1>4, StartCounts DEF CountInv
<1>5. CASE UNCHANGED <<index, scans>> /\ scan' = StopAsked(scan)
  BY <1>1, <1>2, <1>5 DEF StopAsked, ScannerTypeOK
<1>6. CASE Adopt
  <2>1. CASE scan.done
    <3>1. scan'.thread = "none" /\ ~scan'.done
      BY <1>1, <1>6, <2>1 DEF Adopt, Taken, ScannerTypeOK
    <3> QED
      BY <1>1, <1>6, <2>1, <3>1 DEF Adopt, CountInv
  <2> QED
    BY <1>3, <1>6, <2>1 DEF Adopt
<1>7. CASE FadeTurn \/ EnterHome \/ EnterSettings
  BY <1>3, <1>4, <1>7 DEF FadeTurn, EnterHome, EnterSettings
<1>8. CASE Rescan
  BY <1>4, <1>8 DEF Rescan
<1>9. CASE LaunchNative \/ EnterGame \/ Exit
  BY <1>3, <1>5, <1>9 DEF LaunchNative, EnterGame, Exit
<1>10. CASE ScannerStopped
  <2>1. scan'.thread = "none" /\ ~scan'.done
    BY <1>1, <1>10 DEF ScannerStopped, Stopped, ScannerTypeOK
  <2> QED
    BY <1>2, <1>10, <2>1 DEF ScannerStopped
<1>11. CASE Scanner
  <2>1. /\ scan'.thread # "none" => scan.thread # "none"
        /\ scan'.done => scan.done \/ scan.thread = "set_done"
    BY <1>1, <1>11
    DEF Scanner, ScannerThread, Walk, SetDone, ClearRunning, ScannerTypeOK
  <2> QED
    BY <1>1, <1>11, <2>1 DEF Scanner, mainVars, CountInv
<1>12. CASE PumpThumbs \/ Draw \/ SkipScene \/ LeaveBoot \/ Browse \/ LeaveHome \/ Settings
  BY <1>3, <1>12 DEF PumpThumbs, Draw, SkipScene, LeaveBoot, Browse, LeaveHome, Settings
<1>13. CASE \/ Relaunch \/ AskRows \/ Play \/ LeaveGame \/ ThumbsSuspended \/ Worker
            \/ UNCHANGED vars
  BY <1>3, <1>13
  DEF Relaunch, AskRows, Play, LeaveGame, ThumbsSuspended, Worker, vars, mainVars
<1> QED
  BY <1>6, <1>7, <1>8, <1>9, <1>10, <1>11, <1>12, <1>13 DEF Next, MainThread

LEMMA ViewsStayTyped == TypeInv /\ [Next]_vars => ViewsTyped'
<1> SUFFICES ASSUME TypeInv, [Next]_vars
             PROVE  ViewsTyped'
  OBVIOUS
<1>1. ViewsTyped /\ 0 \in Version
  BY ThumbAssumption DEF TypeInv, Version
<1> USE DEF ViewsTyped
<1>2. CASE UNCHANGED <<index, shown>> /\ lists' \in {index, lists}
  BY <1>1, <1>2
<1>3. CASE FadeTurn \/ EnterHome \/ EnterSettings \/ EnterGame
  BY <1>1, <1>3 DEF FadeTurn, EnterHome, EnterSettings, EnterGame
<1>4. CASE Adopt
  <2>1. scan.done => index + 1 \in Version
    BY ThumbAssumption DEF TypeInv, CountInv, CountTyped, Version
  <2> QED
    BY <1>1, <1>4, <2>1 DEF Adopt
<1>5. CASE Browse
  BY <1>1, <1>5 DEF Browse, RefreshLists
<1>6. CASE PumpThumbs \/ Draw \/ SkipScene \/ LeaveBoot \/ LeaveHome \/ LaunchNative
  BY <1>2, <1>6
  DEF PumpThumbs, Draw, SkipScene, LeaveBoot, LeaveHome, LaunchNative, RefreshLists
<1>7. CASE Relaunch \/ AskRows \/ Rescan \/ Settings \/ Play \/ LeaveGame \/ Exit
  BY <1>2, <1>7
  DEF Relaunch, AskRows, Rescan, Settings, Play, LeaveGame, Exit, RefreshLists
<1>8. CASE ScannerStopped \/ ThumbsSuspended \/ Scanner \/ Worker \/ UNCHANGED vars
  BY <1>2, <1>8 DEF ScannerStopped, ThumbsSuspended, Scanner, Worker, vars, mainVars
<1> QED
  BY <1>3, <1>4, <1>5, <1>6, <1>7, <1>8 DEF Next, MainThread

FaultsTyped == faults \in 0 .. MaxFaults

LEMMA FaultsStayTyped == TypeInv /\ [Next]_vars => FaultsTyped'
<1> SUFFICES ASSUME TypeInv, [Next]_vars
             PROVE  FaultsTyped'
  OBVIOUS
<1>1. FaultsTyped
  BY DEF TypeInv, CountTyped, FaultsTyped
<1>2. CASE UNCHANGED faults \/ Fault
  BY <1>1, <1>2, FrontendAssumption DEF Fault, FaultsTyped
<1>3. \A f : FaultIf(f) => UNCHANGED faults \/ Fault
  BY DEF FaultIf
<1>4. \A O : Apply(O) => UNCHANGED faults \/ Fault
  BY <1>3 DEF Apply
<1>5. StartScan => UNCHANGED faults \/ Fault
  BY DEF StartScan
<1>6. \A s : Request(s) => UNCHANGED faults \/ Fault
  BY <1>4 DEF Request
<1>7. CASE EnterHome \/ Adopt \/ PumpThumbs \/ Rescan
  BY <1>2, <1>4, <1>5, <1>7 DEF EnterHome, Adopt, PumpThumbs, Rescan
<1>8. CASE Browse \/ LeaveHome \/ AskRows \/ LeaveGame
  BY <1>2, <1>4, <1>6, <1>8 DEF Browse, LeaveHome, AskRows, LeaveGame
<1>9. CASE \/ FadeTurn \/ EnterSettings \/ EnterGame \/ Draw \/ SkipScene \/ LeaveBoot \/ Relaunch
           \/ LaunchNative \/ Settings \/ Play
  BY <1>2, <1>9
  DEF FadeTurn, EnterSettings, EnterGame, Draw, SkipScene, LeaveBoot, Relaunch, LaunchNative,
      Settings, Play
<1>10. CASE Exit \/ ScannerStopped \/ ThumbsSuspended \/ Scanner \/ UNCHANGED vars
  BY <1>2, <1>10 DEF Exit, ScannerStopped, ThumbsSuspended, Scanner, vars
<1>11. CASE Worker
  BY <1>2, <1>11 DEF Worker
<1> QED
  BY <1>7, <1>8, <1>9, <1>10, <1>11 DEF Next, MainThread

LEMMA CountsStayTyped == TypeInv /\ [Next]_vars => CountTyped'
<1> SUFFICES ASSUME TypeInv, [Next]_vars
             PROVE  CountTyped'
  OBVIOUS
<1>1. CountTyped
  BY DEF TypeInv
<1>2. faults' \in 0 .. MaxFaults
  BY FaultsStayTyped DEF FaultsTyped
<1>3. CASE UNCHANGED scans \/ (CanScan /\ StartScan)
  BY <1>1, <1>2, <1>3, StartCounts DEF CountTyped
<1>4. CASE \/ FadeTurn \/ EnterHome \/ EnterSettings \/ EnterGame \/ Adopt \/ PumpThumbs \/ Draw
           \/ SkipScene \/ LeaveBoot \/ Browse
  BY <1>3, <1>4
  DEF FadeTurn, EnterHome, EnterSettings, EnterGame, Adopt, PumpThumbs, Draw, SkipScene,
      LeaveBoot, Browse
<1>5. CASE LeaveHome \/ Relaunch \/ LaunchNative \/ AskRows \/ Rescan \/ Settings \/ Play
  BY <1>3, <1>5 DEF LeaveHome, Relaunch, LaunchNative, AskRows, Rescan, Settings, Play
<1>6. CASE LeaveGame \/ Exit \/ ScannerStopped \/ ThumbsSuspended
  BY <1>3, <1>6 DEF LeaveGame, Exit, ScannerStopped, ThumbsSuspended
<1>7. CASE Scanner \/ Worker \/ UNCHANGED vars
  BY <1>3, <1>7 DEF Scanner, Worker, vars, mainVars
<1> QED
  BY <1>4, <1>5, <1>6, <1>7 DEF Next, MainThread

LEMMA TypesKept == IInv /\ TypeInv /\ [Next]_vars => TypeInv'
BY CacheStaysTyped, ScreenStaysTyped, FadeStaysTyped, ViewsStayTyped, CountsStayTyped,
   CountKept DEF TypeInv

LEMMA TypesHold == Spec => [](IInv /\ TypeInv)
BY InitInv, InitTypes, InvKept, TypesKept, PTL DEF Spec

-----------------------------------------------------------------------------
(* The theorems.                                                           *)

\* While a core has the memory the frontend neither scans nor builds nor loads
\* nor holds pictures, however many systems there are, however often games are
\* launched and whatever failed before (App::evictForCore).
THEOREM Quiet == Spec => []FrontendQuiet
<1>1. IInv => FrontendQuiet
  BY DEF IInv, QuietInv, FrontendQuiet
<1> QED
  BY InvHolds, <1>1, PTL

\* Pictures taken for current were read after their system's file was last
\* written, through every order of requests, builds, suspensions and failed
\* reads (thumb_cache.cpp).
THEOREM Pictures == Spec => []PicturesCurrent
<1>1. IInv => PicturesCurrent
  BY DEF IInv, CacheInv, Good, Truthful, Building, PicturesCurrent
<1> QED
  BY InvHolds, <1>1, PTL

\* Home draws lists of an index that is gone only while it fades out
\* (home_scene.cpp:1053).
THEOREM StaleLists == Spec => []StaleOnlyWhileLeaving
<1>1. IInv => StaleOnlyWhileLeaving
  BY DEF IInv, ListsInv, StaleOnlyWhileLeaving
<1> QED
  BY InvHolds, <1>1, PTL

\* Only a whole scan that nobody stopped replaces the index, wherever the
\* request to stop meets the two flags (rom_scanner.cpp:112-134).
THEOREM ScanWhole == Spec => StoppedScanUnused
<1>1. IInv /\ [Next]_vars => [index' # index => scan.found = "full" /\ ~scan.stop]_vars
  <2> SUFFICES ASSUME IInv, Next, index' # index
               PROVE  scan.found = "full" /\ ~scan.stop
    BY DEF vars, mainVars
  <2>1. Adopt
    BY DEF Next, MainThread, FadeTurn, EnterHome, EnterSettings, EnterGame, PumpThumbs, Draw,
           SkipScene, LeaveBoot, Browse, LeaveHome, Relaunch, LaunchNative, AskRows, Rescan,
           Settings, Play, LeaveGame, ScannerStopped, ThumbsSuspended, Exit, Scanner, Worker, mainVars
  <2> QED
    BY <2>1 DEF Adopt, IInv, FlagsInv
<1> QED
  BY InvHolds, <1>1, PTL DEF Spec, StoppedScanUnused

\* Every field of the cache and of the main loop keeps its type: at most one
\* build and one load wait, no system or version is asked for that there is
\* not, and no index is counted that no scan has found.
THEOREM TypeCorrect == Spec => []TypeOK
<1>1. IInv /\ TypeInv => TypeOK
  <2> SUFFICES ASSUME IInv, TypeInv
               PROVE  TypeOK
    OBVIOUS
  <2>1. ThumbTypeOK
    <3>1. cache \in CacheTypes
      BY DEF TypeInv, CacheTyped
    <3>2. cache.queue \in Waiting
      BY <3>1 DEF CacheTypes
    <3>3. \A i, j \in DOMAIN cache.queue :
            /\ cache.queue[i] \in Job
            /\ cache.queue[i].kind = cache.queue[j].kind => i = j
      BY <3>2 DEF Waiting
    <3> QED
      BY <3>1, <3>3 DEF ThumbTypeOK, CacheTypes
  <2> QED
    BY <2>1 DEF IInv, TypeInv, ScreenTyped, FadeTyped, ViewsTyped, CountTyped, TypeOK
<1> QED
  BY TypesHold, <1>1, PTL

=============================================================================
