# RetroShell PSP in TLA+

RetroShell is a frontend for emulators on the PlayStation Portable. It scans
ROMs, shows them, loads an emulator core as a kernel module into the memory
that is left, plays its sound and video, and keeps the player's saves on a
Memory Stick that may lose power at any time. These modules model the parts
of it (`src/src/`) in which order, interruption, concurrency and memory decide
whether a save survives or a core runs on memory it owns. Paths below are
relative to the root of the repository.

## The system and its parts

| Part | State | Operations | Hard part |
|---|---|---|---|
| Atomic files (`platform/psp/fs_psp.cpp`) | a file, its `.tmp` and its `.bak` | writeFileAtomic, backup-aware reads, replaceFilePairAtomic, migration of the old root | power loss between two calls, calls that fail |
| Save manager (`runtime/save_manager.cpp`) | sram.bin, rtc, five state slots with previews per game | savePersistent, loadPersistent, saveState, loadState, deletions | two files that belong together, stale backups |
| Audio output (`platform/psp/audio_out.cpp`) | lock-free ring, cursors, flags | push, clear, setPaused, shutdown; the audio thread | two threads without a lock, cursors that wrap |
| Game session (`frontend/game_session.cpp`) | launch/run/menu/failed/exiting, SRAM writer, requests from Home | startCore, teardown, openMenu, systemSuspend, periodic SRAM, restart | order of the steps, a thread and two callbacks in between, failures half-way |
| Application (`frontend/app.cpp`, `main.cpp`, `platform/psp/power.cpp`) | scene, pending scene, power events, exit flag | run, update, launchGame, shutdown; callbacks | callbacks between any two steps |
| Core manager (`frontend/core_manager.cpp`) | module, API, initialised | loadCore, initialize, unloadCore | must precede the release of the arena |
| Core memory (`runtime/arena.cpp`, `runtime/host_services.cpp`) | bump arena, table of blocks | mem::alloc, hostAlloc, hostFree, sessions | 32-bit arithmetic, recycling, a full table |
| Thumbnail cache, ROM scanner, game index (`frontend/database/`) | queue, worker, residency, generation | start, stop, rebuild, requestSystem, update, suspend, takeResults | results that arrive after their request is stale, a launch in the middle |
| Package installer (`frontend/core_package_installer.cpp`) | payload files, manifest, package | installOne, rollback | several files as one transaction |
| Native emulators (`frontend/native_emulator_launcher.cpp`, `native-emulators/sdk/`) | session receipt | launch, return, consume | the two processes share one file |
| Library, configuration (`frontend/database/library.cpp`, `runtime/config.cpp`) | lists, options, dirty flag | toggle, notePlayed, flush, option lookup | memory against file, a save that fails |
| Scenes (`frontend/scenes/`) | the scene, its fade, Home's lists of the index | enter, update, draw, fadeTo, leave | a scene that fades is drawn and not updated |
| Registry, notices, logger, rendering, text, input, metadata, autopilot | | | sequential code, drawing or I/O: not modelled |

How they interact: App::run polls power events, updates the current scene and
draws it, all on the main thread. Home asks App to launch a game; a session
object fades in, evicts the frontend's caches, releases the arena so that the
module loader has room, loads the core, takes the arena again, starts the core
on the host services (memory, files, audio, input), restores its SRAM and
runs. The audio thread drains the ring the core's frames are pushed into. A
short-lived thread writes the SRAM snapshot of the game every ten seconds when
it has changed. The firmware's callbacks only set flags. A restart with new
settings goes through Home by a request left in the Home snapshot. Everything
that is saved goes through writeFileAtomic. Outside a game the ROM scanner's
thread and the thumbnail cache's worker run beside the main thread, which folds
their results in once per turn and stops both before a core takes the memory. A
native emulator replaces the process; all that RetroShell and the emulator share
is a receipt on the card, and the next start begins with it, after the files of
an older release have been taken over and before dropped packages are installed
and cores discovered.

## Modules

| Module | Models | Depends on |
|---|---|---|
| `DurableFile` | what a caller may expect of writeFileAtomic and of removals, up to a number of faults | |
| `AtomicFile` | fs_psp.cpp's protocol of three names, one action per file-system call | instance of `DurableFile` |
| `AtomicFile_proofs` | theorems about `AtomicFile` | |
| `FrameQueue` | what audio_out.h promises: a bounded FIFO with a flush | |
| `AudioRing` | audio_out.cpp at the grain of one atomic access | instance of `FrameQueue` |
| `AudioRing_proofs` | theorems about `AudioRing` | |
| `GameSession` | game_session.cpp, core_manager.cpp, the main loop of app.cpp, the callbacks, the requests of Home | |
| `GameSession_proofs` | theorems about `GameSession` | |
| `Allocator` | what RSHostAPI promises of memory | |
| `HostHeap` | arena.cpp and the block table of host_services.cpp | instance of `Allocator` |
| `HostHeap_proofs` | theorems about `HostHeap` | |
| `RomScanner` | rom_scanner.cpp: the thread, its two flags, the main thread's calls | |
| `ThumbCache` | thumb_cache.cpp: queue, worker, residency | |
| `Frontend` | App::run outside a game: scenes, scans and pictures together | extends `RomScanner`, `ThumbCache` |
| `Frontend_proofs` | theorems about `Frontend` | |
| `Card` | calls that work or fail, and the common bound | |
| `Migration` | the merge of an older release's tree (fs_psp.cpp) | `Card` |
| `PackageSet` | what the installer promises to core discovery | |
| `PackageInstall` | core_package_installer.cpp and replaceFilePairAtomic, one action per call | `Card` |
| `NativeSession` | the receipt of a native emulator, from both sides | `Card` |
| `SaveSlots` | a save-state slot: state, preview, emulator | `Card` |
| `Library` | library.cpp between memory and file | `Card` |
| `Console` | starts of RetroShell one after the other | extends the five above, instance of `PackageSet` |
| `PackageInstall_proofs` | `Console` implements `PackageSet` | |
| `Console_proofs` | the theorems about what the card holds from start to start | extends `PackageInstall_proofs` |
| `Boot_proofs` | the theorems about the course of a start: migration and install | extends `Console_proofs` |

Operators called *Mutant* in the modules change one definition as a plausible
bug would; they are part of no specification, and show that each property can
fail.

### AtomicFile

`disk` holds what is behind the three names; `Torn` is a file whose writing was
interrupted. `pc` is the next file-system call. `writeFileAtomic` is
`BeginWrite`, `WriteTmp` (255-260), `DropBak` (261), `SetAside` (262-266),
`Promote` (267), `Restore` (268-270) and `Cleanup` (272-274). The
two-step removals of the save manager (`deleteAll`, `deleteState`,
`dropPreview`) are `BeginDelete`, `DeleteMain`, `DeleteBak`. Each call may fail,
and `Interrupt` is the loss of power between or during calls; both consume
`MaxFaults`. `Read` is `openReadWithBackup`: the file, or its backup if there is none. That
function falls back on any open that fails, so `ReadsAreWhole` is about `Readings`, which adds
the backup to what may be read; an open that fails beside a file that is there may then give
an older version, which no other property speaks of.

Assumed of the Memory Stick: directory updates reach it in the order of the
calls, and a rename onto an existing name is refused. A file that is torn can
therefore only be the temporary. That the sync calls make this so is not
modelled.

`ImplementsDurableFile` says that through `Read` all this is one file replaced
in one step: after a write returns true a reader finds the new contents, after
false the old, after an interruption one of the two, after a removal nothing,
unless two faults came together. After more faults the file may be lost, or a
removal may uncover an older backup; a *write* still never does, which is
`OldOrNew`.

### AudioRing

Shared variables are the atomics of the file. The audio thread goes through
`LoopTop` (the loop condition and `s_flush.exchange`), `HonourFlush`,
`LoadCursors`, `CopyFrame` per frame, `PublishRead` and `Output`; the main
thread pushes frame by frame (`PushFrame`, `PublishWrite`) and clears
(`BeginClear`, `EndClear` or `ClearTimesOut`). A frame carries the cursor it was
written at and the parity of the clear() calls that had returned, so laps and
games are told apart. `strict` runs add the thread priorities (audio 0x10,
above the main thread): the main thread then only runs while the audio thread is
blocked in sceAudioOutputBlocking. Without it the properties hold under any
scheduling. Interface sounds, samples and the resampler's arithmetic are
left out; whether the resampler is in use decides what a full ring does to the
rest of a push and is kept.

The loads of `s_paused`, `s_read` and `s_write` are one action, because what the
main thread may change between them (more frames, the pause flag) only makes
the loop see an earlier state of the same variables; `s_read` has one writer.

### GameSession

`pc` walks the main thread. `poll`, `update`, `draw` are App::run; the steps of
startCore are `evict`, `load`, `reserve`, `boot`, `rom`, `restore`, `resume`, the
steps of teardown `join`, `persist`, `unload`, `rearm`. `mode` is the scene (Home,
or the state of the session). Callbacks (`Suspending`, `Resumed`, `Quit`) and the
SRAM writer (`WriteSnapshot`) may run between any two of these steps. Each call
that can fail in the code (preflight, registry lookup, module load, arena
reservation, core init, ROM, restore, thread start, file writes, texture
allocation) has a failing branch, bounded by `MaxFaults`.

The contents of the SRAM is a number that grows with every change, so that
"older" can be said; 0 is what a core starts with. `card` is sram.bin per game,
replaced in one step, which is what `AtomicFile` establishes for fewer than two
faults together. `policy` is how SRAM is flushed: not at all while playing
(autosave off), periodically, or in the menu only (FrogGBA).

Left out: the RTC record beside the SRAM, frame pacing and audio recovery,
video options, the settings overlay, the playtime and recents bookkeeping, the
size of memory (`HostHeap` has it), drawing.

### HostHeap

`size`, `cursor` are the arena, `blocks` the table, `rom` the ROM image that is
allocated past the table, `held` what callers were promised and have not given
back. Unsigned arithmetic is modulo `MaxWord + 1`; `Start`, `Fits` and `Bump` are
the lines of mem::alloc. `Recycle` takes the first freed block that is large and
aligned enough, `Extend` the first unused entry. A free of what is not a live
block changes nothing and has no action. A session ends with the core unloaded
and the arena reserved anew, of any size. Alignments are the powers of two a core
asks for (an alignment of 0 stands for 16). The base is aligned as the firmware aligns
partition blocks (`Granule`, 256 bytes), while mem::alloc aligns the offset and accepts up to
4096: what `Allocator` promises is therefore the alignment asked for up to the granule, and the
granule beyond it (`Alignment`). No core asks for more than 64. The run asks for less and for
more than the granule.

`TableApart` also says that the last entry, or the ROM, ends at the cursor (`NothingLost`): since
the table never gives memory back to the arena, a request that is refused because the table is
full or the arena too small must have taken nothing. The mutant `ExtendTakesFirst`, which takes
the bytes before it looks for an entry, breaks it; `FitsWrapped`, the naive test of the end,
breaks the other half of the property.

### RomScanner, ThumbCache, Frontend

A component's fields are one record (`scan`, `cache`), and a call of the main
thread is an operator from a record to the next or to the set of possible ones;
`Frontend` is the main loop that makes the calls. Its program points are those of
App::update and App::draw: `fade` (the scene changes when the fade is over),
`adopt` (takeResults into the index, and a rebuild), `thumbs` (ThumbCache::update),
`scene` (the scene's update, not while it fades), `rows` (the tail of Home's update, which
asks for the Library's pictures, after a start or a stop of the scanner), `draw`; `stop` and
`suspend` are the joins of evictForCore, of a native launch and of the exit, where the main
thread waits. Between any two of them the scanner's thread (`ScannerThread`: walk, set
`done`, clear `running`) and the worker (`WorkBuild` per system, `EndBuild`, `WorkLoad`) move.
A thread that cannot be had is a fault, bounded by `MaxFaults`; a thumbnail file may be missing
or unreadable at any time, without a bound.

A scene is entered in the fade step of the turn (`EnterHome`, `EnterSettings`, `EnterGame`). A
game starts there: GameSession::enter refuses the launch, or evicts and joins, before that turn
adopts and pumps; a refused launch leaves the failure screen, from which the player goes Home
with or without a rescan. A game whose settings ask for a restart sets `relaunch`: Home's next
update launches it again and skips the rest, the refresh of the lists included (`Relaunch`),
which is why `StaleOnlyWhileLeaving` has to hold of it too. A native launch that could not be made and a
rescan go on to `rows`. How often games are launched has no bound.

The index is its generation. Of a resident set the model keeps whether it has pictures and
whether its file has been rewritten since it was read (`older`), and of the ring's textures which
system they are of. A build may rewrite each system's file, remove it or leave it: rebuild() is
never called with `force`, so a file with nothing to add stays as it is, and a write may fail.
The cache's two counters `m_generation` and `m_residentGeneration` are only compared, and are
the boolean `current`. ThumbCache::update is one step: the worker has the main thread's priority
(0x20) and cannot run between the spawn and the end of the call. A game is a scene that holds the
memory (`core`); what happens in it is `GameSession`'s.

### Migration, PackageInstall, NativeSession, SaveSlots, Library, Console

`Console` follows RetroShell from start to start. `stage` is where the program is:
a start migrates (`BootMigrate`), consumes the receipt (`BootReceipt`), installs
(`BootInstall`) and discovers (`BootDiscover`); from Home the user marks and moves
(`Tidy`), deletes a slot, plays in a core (`LaunchGame`, `Playing`, `LeaveGame`,
`QuitGame`), hands the console over (`LaunchNative`, `HandingOver`, `Native`) or leaves
(`Quit`). `PowerCut` is possible in every state and loses what was in memory. All
of it is the main thread; the concurrency is that of cuts and failing calls.

*Migration*: per file of the old tree, what lies in RETROSHELL under its own name
and the ten ".legacy" ones; `TryName`, `CopyContents` and `RemoveOriginal` are
copyLegacyFile and the loop around it. A copy that is under way is `torn`. A
failing stat makes a taken name look free, as in the code. RETROSHELL is there
already, because the package that `Console` installs lies in it; without it the
old tree is moved by one rename.

*PackageInstall*: the files of a package (the manifest last), their `.pkg.bak`,
and the installer's locals: which call comes next (`phase`, `file`), which file
had an old one, which was promoted. A native package goes file by file, a core
and its manifest through replaceFilePairAtomic call by call; `Remove`, `Restore` and
`PutBack` undo.

*NativeSession*: the receipt is one value; the adapter, which removes it before it
renames the next (`RecordRemoves`, `RecordRenames`), leaves it absent in between.
`ending` records how the session really ended, `blind` that a call on the receipt
failed, `gap` that the power went while the adapter had no receipt in place. *SaveSlots*: a `moment` of the
game is what a state and its preview are taken of; a state that was read half and
then rejected leaves the machine `broken`, and the player may save that. `torn`
records a cut between the two files. *Library*: `unsaved` says that memory holds
something library.json does not.

Files that writeFileAtomic keeps are one value here, replaced or not, which is
what `AtomicFile` establishes up to one fault.

## Runs

| Run | Result | Shows |
|---|---|---|
| `atomic_file` | pass | whole reads, never an older version after a write, reported outcomes are true, refinement of `DurableFile`: three contents, three faults |
| `atomic_file_recovery` | violation | two interrupted writes lose a save that was readable |
| `audio_ring` | pass | cursors in order across wrap-around, flush drops what is stale and nothing else, refinement of `FrameQueue`, shutdown ends, after one block at most |
| `audio_prefill` | violation | a flush request outlives the clear() that gave up on it |
| `game_session` | pass | the eight properties below over two games |
| `game_session_menu_saves` | violation | a menu entered by sleep does not wait for the SRAM writer |
| `game_session_safe_persist` | violation | a failed restore is followed by a save of the core's defaults |
| `host_heap` | pass | blocks and ROM apart, refinement of `Allocator` |
| `frontend` | pass | boot, Home, Settings, a game and the exit with scanner and worker in between: the frontend is quiet under a core, pictures and results are current and arrive |
| `frontend_stale_views` | violation | Home is drawn from a replaced index while it fades out |
| `frontend_build_lost` | violation | a queued rebuild is forgotten when another one ends |
| `console` | pass | what starts leave on the card of a package, an older release, a session, a slot and the library, with three failures or power cuts; no start goes round in circles |

Bounds. *AtomicFile*: three values distinguish the old contents, the new and an
even older backup; three faults exceed the two that lose a file. *AudioRing*: a
ring of three frames, blocks of two and pushes of two make the ring run full,
empty and half empty at every phase of the cursors; `Wrap` is two laps, the least
that distinguishes full from empty, and divides like 2^32 by 8192. *GameSession*:
two games make a request or a snapshot reach the wrong one; two changes of the
SRAM give an older and a newer snapshot beside what the card held; two failures
allow one in the launch and another in the teardown or the writer. *HostHeap*:
three blocks fill the table while the ROM lies among them; the word of four bits
is only three above the larger arena, so sums wrap; size 0 and the largest
size are asked for; an alignment of twice the base's is asked for beside smaller ones.

*Frontend*: two systems make the visible one
differ from the one being loaded or built; two versions of the index are an old
and a new one, of which the scan of the boot, or the cache that stands for it, makes the first; a fade of two turns has
one turn in which the scene is drawn but not updated; one fault lets any one thread fail to start. *Console*: three native files are the least with a
first, a middle and a last (the manifest); three faults exceed by two the one
every property tolerates, and by one what makes discovery find a mixed set; two
emulators and two moments tell a slot's owner and an older state apart; of the
older release two files are migrated with four spare names, one more than three
faults can spoil (the code has ten).

Deadlock is checked in every run but those of `Frontend`, whose program ends. The
audio model stops in `Exited`, the session model in `Off`: the process is over.
`Console` never stops, because there is always another start.

### Properties

* `ReadsAreWhole`, `OldOrNew`, `ImplementsDurableFile`: above. `ReportIsTrue`: when writeFileAtomic returns true a reader finds the new contents, whatever happened before; when it returns false he finds the old ones, up to one fault.
* `CursorsOrdered`: the fill level never exceeds the ring, across wrap-around, flushes and drops. `StaleNeverPlayed` and `FlushDropsStaleOnly`: once clear() has returned, acknowledged, no older frame is played, and no newer one is dropped (the latter needs the thread priorities).
* `ImplementsQueue`: blocks are what was pushed, in order, without gap or repeat. `ShutdownAdvances`: while shutdown() waits, every step brings the audio thread nearer to its end, which is `Block + 6` steps away at most (`AudioLeft`); a request that meets a flush, a pause or a block half copied costs no second block.
* `NewestSaveKept`: a save on the card is never replaced by an older one, through failed launches, late snapshots and restarts. `SafeToPersist` is the same promise for a failed restore, and fails.
* `MemoryOutlivesUsers`: a core that may run has arena and heap; a snapshot being written belongs to the game that is loaded.
* `SlotReachesItsGame`: a request to load a state reaches the game it was made for or nobody.
* `NoPlayAfterWake`: after a wake-up at most the rest of the turn that was under way is played. `SoundFollowsPlay` ties the pause flag and the logger to the scene.
* `ReportedIsKept`: sram_dirty tells of a change once; whatever then fails (the snapshot, the thread, the worker's write or the exit's own save), one failure never loses it.
* `TableApart` (with `NothingLost`), `ImplementsAllocator`: above.
* `FrontendQuiet`: while a core has the memory no scan, build, load, queue, resident set or texture of the frontend exists, whatever was under way when the game was launched.
* `PicturesCurrent`: a resident set taken for current was read after its file was last written, and textures are of the resident system, although builds rewrite files and loads read them earlier than they are adopted.
* `StoppedScanUnused`: the index is replaced only by a whole scan, wherever the request to stop met the two flags. `StaleOnlyWhileLeaving`: Home's lists are behind the index only while it fades out; that they are then is the finding `ViewsAreCurrent`.
* `ThumbsArrive`, `ScanArrives`: a Library that stays on screen gets its pictures although requests replace each other, spawns fail and builds lose jobs; a scan that nobody stops reaches the index.
* `ImplementsPackageSet`: discovery finds a package's files all old or all new, up to one fault, and may find a mixture only after two. `PackageIsUsedUp`: starts that keep coming install the package in the end, over whatever was left behind. `PackageGoesInstalled`: the archive goes only when every file of it is in place, after any faults.
* `NothingIsLost`: a file of the older release is in the old tree or whole in the new one, in every state and after any faults. `MigrationEnds`: starts that keep coming empty the old tree, as long as there are more spare names than faults. `BootAdvances`: each step of a start but a power cut lowers `BootRank` (the part of the start, then the files left, then the calls left), so neither taken names nor files that cannot be removed nor an install that is undone keep a start going round; it needs no bound on the faults.
* `NoticeIsTrue`: as long as no call on the receipt failed, a start never reports an early end that was none, wherever the power went, and reports every one that was, except when the power went while the adapter had removed one receipt and not yet renamed the next (`gap`). `PreviewIsTrue`: a slot shows no frame of another state. `LibraryIsKept`: library.json is up to date when the console is given away or the program ends, although one save failed and flush() had cleared its mark.

### Fairness

`ShutdownEnds` assumes that the audio thread goes on (it has the highest priority
of the process and blocks for one block of audio at a time) and that a thread
waiting for its end is woken. `LeavingEnds` assumes that the main thread, which
gives way at every vblank and while it waits, and the SRAM writer, whose work is
a bounded sequence of file-system calls, are both scheduled. Callbacks are not
assumed to come. `ThumbsArrive` and `ScanArrives` assume that the main thread, the
scanner's thread and the worker are scheduled: they have one priority, the main
thread waits for vblanks, and the walks and jobs are bounded. That a user rescans,
launches or leaves is not assumed. `PackageIsUsedUp` and `MigrationEnds` assume that
a start which is not cut short goes on to Home (`Boot`: one bounded sequence of
calls); that starts keep coming is their premise.

## Findings

* `writeFileAtomic` removes `path.bak` before it has a new file in place (fs_psp.cpp:261). After an interrupted write that is the only readable copy.
* A clear() that times out leaves its request set (audio_out.cpp:222): the fire-and-forget flush its comment warns of.
* systemSuspend and systemResume enter the pause menu without finishPeriodicSram() (game_session.cpp:493, 510), which openMenu's comment asks for.
* A failed save::loadPersistent() still sets m_romLoaded (game_session.cpp:409-428), and teardown replaces the save by the core's defaults. An sram.bin of another size, as another emulator for the same system may have written, is enough.

* A scan that finishes while Home fades out replaces the index (app.cpp:403), and Home, drawn but not updated (441, 446), draws from freed entries, against game_index.h:51-54.
* ThumbCache::update asks for the visible system, which may start a queued rebuild with `m_job`, and then resets `m_job` (thumb_cache.cpp:163-165): the worker runs an empty job and the rebuild that thumb_cache.h:31 queues is lost.

Not counted as findings, because no document contradicts them, or only in a word: a native launch
that fails leaves audio un-paused at Home (app.cpp:223), which silences the
interface sounds (app.cpp:358) until a game pauses audio; sram_dirty clears its
mark when asked, so a flush that failed is not tried again before the next
change, or the exit (`ReportedIsKept` is what remains). A scan that a launch stopped
is not started again on the way back, and after a first start the library stays
empty until the user rescans. The adapter removes the receipt before it renames
the new one, so that a power cut in between loses the notice, which
docs/NATIVE_EMULATOR_ADAPTERS.md:98 calls atomic; `NoticeIsTrue` confines the loss to that window. ThumbCache's
`force` is never passed as true. A migration that is cut short while copying
leaves a torn file under the file's own name: the next start takes the name for
taken and puts the whole file beside it as `.legacy`, where no reader looks. A
failed stat of an existing name lets the migration write over what the new
release brought. The settings are read once before the migration (app.cpp:80) and
again after it (126), so only the splash has the wrong theme. A library.json or
an options file that cannot be read is taken for an empty one and replaced by the
next save (library.cpp:34, config.cpp:47).

## Proofs

All theorems hold for every value of the constants that satisfies the named
assumptions (`FileAssumption`, `HeapAssumption`, `SessionAssumption`, `RingAssumption`, `ThumbAssumption`,
`FrontendAssumption`, `CardAssumption`, `MigrationAssumption`, `InstallAssumption`, `SlotAssumption`),
which the runs evaluate. `RingAssumption` wants of `Wrap` a whole number of laps of the ring, two at
least; the code's 2^32 is 2^19 laps of its 8192 frames. Of the files of an older release only that there are finitely
many is assumed (`MigrationAssumption`).

*AtomicFile_proofs.* `OldOrNew` is not inductive: between the calls, what the
backup holds matters. The invariant `IInv` adds four parts to `TypeOK`. `Whole`:
only the temporary is ever torn. `Staged`: from `drop_bak` to `restore` the
temporary is the complete new contents, so promotion never shows a torn file.
`OldIsHeld`: where the contents found at the start of the operation are, call by
call. `FaultCount`: how many faults it takes to reach the places where those
contents may be gone. From it follow `TypeCorrect`, `WholeReads`,
`NothingOlder`, and the step simulation `AbstractStep`, which maps each action to a
step of `DurableFile` or a stutter (`Refinement`). What a second fault may cost is
allowed by `DurableFile`'s `Tolerance`. `ReportInv` adds to `IInv` that a
result is reported only when the operation is over (`ReportsTrue`).

*HostHeap_proofs.* The lemmas on division (`MaskAligned`, `SumAligned`) give what
the masking in mem::alloc computes; `FitsFacts` says that a request that fits
does not wrap, so the cursor moves to the end of the new block. `IInv` adds to
`TypeOK` and `TableApart` that used entries are not empty, that the ROM is below
the cursor, that every held region lies in the live entry, or the ROM, with its
address, that no two regions share an address, and that regions are aligned up to the granule. Recycling, extending, the
ROM, freeing and sessions are one lemma each; together they give `TypeCorrect`,
`ExtentsApart` and, because held regions inherit disjointness from their entries,
`Refinement`.

*GameSession_proofs.* None of the properties is inductive, because each depends
on where the main thread stands. `Control` ties the label to the scene and `Stages`
the label to the part of the core that exists. On them rest `Memory` (arena and
heap are there whenever the core could touch them), `Requests` (a slot belongs to
the game that fades in or to the pending restart), `Writer` (the snapshot is of
the loaded game, and none is left when `persist` begins), `Saves` (what is on the
card is no newer than the snapshot, and that no newer than the SRAM; this is what
makes the two ways of saving commute), `Reports` (without a failure, what was
reported is on the card or on its way there, so that losing it takes a second
one), `Wake` (the turn of a wake-up is the last
the game plays), `Players` and `Sound`. `StepInvariant` takes the actions one by
one; from it follow `MemorySafe`, `RequestsReach`, `WakeSafe`, `SoundCorrect`, `ReportsKept` and
the action property `SavesGrow`.

*AudioRing_proofs.* Cursors are compared modulo `Wrap`, so the lemmas on remainders
and on `Plus` and `Minus` come first: a slot is reached again only after a whole
ring. `IInv` adds to `TypeOK`: `CountInv`, that the fill level never exceeds the ring and
what each thread may count on of the cursors while it is at work (the audio thread's
loaded read cursor is the present one and it takes no more than is buffered, the producer
has room when it publishes); `ThreadInv`, that the audio thread is there until shutdown()
asks it to end and that clear() waits only while it runs; `BlockInv`, that the block is a
copy of the oldest buffered frames; and `FlushInv`, that as long as no clear() gave up, a
request exists only while clear() waits, nothing stale is left outside the flush once it
was taken, and between clears everything is of the present generation. From it follow `TypeCorrect`,
`Ordered`, `NothingStale`, `FreshKept`, and the step simulation of `Refinement`, with each
push, drop, flush and output a step of `FrameQueue`. `ShutdownBounded` needs of it how
much of a block is left to copy, and `JoinInv`: during the join the audio thread has
been told to end.

*Frontend_proofs.* The lemmas say of each call on the cache what the main loop needs
of it (`Good`: it keeps the record's shape and what `Truthful` says of resident sets,
and textures). `IInv` adds the scanner's type; `QuietInv`,
`FrontendQuiet` and that the game's scene keeps it so; `JoinInv`, that what a join waited
for is over; `FlagsInv`, which combinations of the thread, `running` and `done` there are
and what results they stand for; `RelaunchInv`, that nothing scans between a game that asks to
be restarted and Home's launching it, so that the skipped refresh had nothing to do; `ListsInv`,
that Home draws lists of the current index unless it is leaving. `Quiet`, `Pictures`, `ScanWhole` and `StaleLists` follow.
`TypeCorrect` needs more than the shape of the record: that the queue holds at most one
load and one build, because an older one is filtered out before the next is appended
(`WithoutIs` unrolls the filter for the two jobs there can be, `FirstTaken` and `Replaced`
are what a start and a request make of such a queue), and that there are no more
versions of the index than scans were started (`CountInv`), which bounds what the counters
can reach.

*PackageInstall_proofs.* `Normal` says that every file is where the calls made so far
leave it, so all of it can be undone; `Clear`, that nothing lies in the way of the
calls to come, so they go through. Without a fault both hold, and one fault
leaves one of them: if the fault came earlier (a cut, and leftovers in the way),
`Clear` may fail but `Normal` holds again from the leftover state, or the other way
round. `Undoable` describes the way back. Each of the installer's calls is a lemma,
for both kinds of package and any number of files; together with `Standing`, where
an install stands at each stage, they give `Refinement`.

*Console_proofs.* `MigrationInv` adds to `NothingIsLost` that what is still to be done
is in the old tree and that an original is removed only beside a whole copy, also
where a stat fails and a name is written over (`NothingLost`). `SlotInv` is about
the steps between a state and its preview, `ReceiptInv` about what the receipt says
at each point of a session, `LibraryInv` counts the failed saves a change that is
neither in the file nor marked needs. `TypeInv` ties stage, installer and machine
together. They give `PreviewTrue`, `NoticeTrue`, `LibraryKept` and `TypeCorrect`.

*Boot_proofs.* About the loops of a start, with no bound on the faults.
`PlacedInv`: a file that the install is past is the new one, so `clean` and `consume`
are reached only with all of them new (`PackageKept`). For `BootBounded`, `BootRank`
is compared lexicographically: `HandInv` says that the file in hand is one of those
still to do, so finishing or giving it up shrinks a finite set (`OneFileLess`), and
within a file the names only go up (`MigrationAdvances`); in the installer the
replacing calls go forward (`CallsAdvance`), the undoing ones backward
(`UndoAdvances`), and neither returns to an earlier part (`InstallAdvances`).

Only model-checked: the liveness properties (`ShutdownEnds`, `LeavingEnds`, `ThumbsArrive`,
`ScanArrives`, `PackageIsUsedUp`, `MigrationEnds`), which the prover does not reach. For
`ShutdownEnds` the half without fairness is proved: `ShutdownBounded` bounds the steps of
the join, so what is left is that the audio thread is scheduled. `BootBounded` does the
same for one start, which reaches Home unless the power goes; that the package is used
up and the old tree empty after enough of them stays with TLC. Lookups over data
(option precedence, sorting, parsing) would need induction over data and are out of
the prover's reach as well.

## Not modelled

See the table of parts and PROJECT.json. Drawing, text, input and metadata have
no protocol; the emulator cores and the vendored libraries are third-party code
of which only the calls RetroShell sees are used, and they are nearly all of the
repository's lines; the logger and the autopilot do not affect what is stored or
played. The configuration's option lookup (a game's own value, else the
emulator's) is a sequential search without state between calls.

Within what is modelled: one package at a time is installed, its archive is
valid, its metadata records and the removal of an obsolete executable are left
out; a native session is launched only if the package is of that kind, a game of
the package's core only if it is a pair. A receipt's `.bak` needs two failed calls
to be seen and is not modelled; nor is a load of library.json that fails, nor the
clock file beside an SRAM, nor a scan's order of entries, nor folders in the
migration.

## Plan

1. (done) The core: `AtomicFile`, `AudioRing`, `GameSession`, `HostHeap`, with the abstract specifications and the first theorems.
2. (done) `ThumbCache` and `RomScanner`, composed by `Frontend`.
3. (done) `PackageInstall` against `PackageSet`, interrupted at any call and run again at the next start.
4. (done) `NativeSession`, `SaveSlots`, `Library`, `Migration`, composed by `Console`.
5. (done) Proofs about all of them: every invariant and action property of the runs is a theorem, and of the liveness properties the step that bounds the work (`ShutdownBounded`, `BootBounded`).
6. Bounds of the same kind for `LeavingEnds` (the teardown) and `ScanArrives` (the join of a scan).
7. The option lookup as a pure operator against a reference definition; the clock file as the second half of a persistent save; loads that fail in `Library`.
