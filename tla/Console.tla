-------------------------------- MODULE Console --------------------------------
(***************************************************************************)
(* What RetroShell leaves on the Memory Stick from one start to the next.  *)
(* A start takes over what an older release left, consumes the receipt of  *)
(* a native session, installs the dropped package, discovers the core and  *)
(* opens Home; from Home the user marks and moves, hands the console to a  *)
(* native emulator, or plays in a core and saves into a slot.  The power   *)
(* may go between any two calls, and everything that runs here runs on the *)
(* main thread, one thing at a time.                                       *)
(***************************************************************************)
EXTENDS Migration, PackageInstall, NativeSession, SaveSlots, Library

VARIABLES stage,   \* where the program is
          found,   \* what discovery last found of the package's files
          core     \* the emulator of the running game

vars == <<migrationVars, installVars, sessionVars, slotVars, libraryVars, faults, stage, found, core>>

TypeOK ==
  /\ MigrationTypeOK /\ InstallTypeOK /\ SessionTypeOK /\ SlotTypeOK /\ LibraryTypeOK
  /\ faults \in 0 .. MaxFaults
  /\ stage \in {"receipt", "install", "home", "handover", "native", "game", "off"}
  /\ found \in Content \cup {"mixed"}
  /\ core \in Core \cup {Nothing}
  /\ stage # "install" => inst = Idle
  /\ stage = "game" <=> machine # Nothing

Init ==
  /\ MigrationInit /\ InstallInit /\ SessionInit /\ SlotInit /\ LibraryInit
  /\ faults = 0 /\ stage = "receipt" /\ found = dest[1] /\ core = Nothing

-----------------------------------------------------------------------------
(* App::init.                                                              *)

BootMigrate ==
  /\ stage = "receipt"
  /\ MigrationStep
  /\ UNCHANGED <<installVars, sessionVars, slotVars, libraryVars, stage, found, core>>

BootReceipt ==
  /\ stage = "receipt" /\ mig.phase = "done"
  /\ mig' = Waiting
  /\ ConsumeReceipt
  /\ IF dropped THEN BeginInstall ELSE UNCHANGED inst
  /\ stage' = "install"
  /\ UNCHANGED <<there, old, copies, kind, dropped, dest, bak, slotVars, libraryVars, found, core>>

BootInstall ==
  /\ stage = "install"
  /\ InstallStep
  /\ UNCHANGED <<migrationVars, sessionVars, slotVars, libraryVars, stage, found, core>>

\* Mutant: cores are discovered while a package is being installed.
DiscoverEarly ==
  /\ stage = "install"
  /\ found' = Installed
  /\ stage' = "home"
  /\ UNCHANGED <<migrationVars, installVars, sessionVars, slotVars, libraryVars, faults, core>>

\* The installer is through with the package; cores are discovered.
BootDiscover ==
  /\ stage = "install" /\ inst.phase = "idle"
  /\ found' = Installed
  /\ stage' = "home"
  /\ UNCHANGED <<migrationVars, installVars, sessionVars, slotVars, libraryVars, faults, core>>

-----------------------------------------------------------------------------
(* Home.                                                                   *)

AtHome == stage = "home" /\ slotStep = "idle"

\* The user marks, moves about, or leaves for Settings, where Home's flush()
\* is all there is, as in a launch that is refused.
Tidy ==
  /\ AtHome
  /\ Mark \/ Move \/ FlushAnd(FALSE, 0)
  /\ UNCHANGED <<migrationVars, installVars, sessionVars, slotVars, stage, found, core>>

\* Game Details: a slot is deleted.
Delete ==
  /\ stage = "home"
  /\ DeleteState \/ DeletePreview
  /\ UNCHANGED <<migrationVars, installVars, sessionVars, libraryVars, stage, found, core>>

\* launchGame() of a native emulator that was discovered: Home's flush,
\* notePlayed() and save().
LaunchNative ==
  /\ AtHome /\ kind = "native" /\ Discoverable
  /\ FlushAnd(TRUE, 2)
  /\ stage' = "handover"
  /\ UNCHANGED <<migrationVars, installVars, sessionVars, slotVars, found, core>>

\* nativeemu::launch()
HandingOver ==
  /\ stage = "handover"
  /\ \/ WriteReceipt
        /\ stage' = IF session' = "written" THEN "handover" ELSE "home"
     \/ HandOver /\ stage' = "native"
     \/ LaunchRefused /\ stage' = "home"
  /\ UNCHANGED <<migrationVars, installVars, slotVars, libraryVars, found, core>>

\* launchGame() of a core; a game of the package's own core needs it found.
LaunchGame(c) ==
  /\ AtHome /\ kind = "pair" /\ Discoverable
  /\ FlushAnd(FALSE, 0)
  /\ core' = c
  /\ machine' \in Moment
  /\ stage' = "game"
  /\ UNCHANGED <<migrationVars, installVars, sessionVars, state, preview, slotStep, torn, found>>

\* Mutant: leaving flushes what is dirty and saves nothing more.
QuitFlushes ==
  /\ AtHome
  /\ FlushAnd(FALSE, 0)
  /\ stage' = "off"
  /\ UNCHANGED <<migrationVars, installVars, sessionVars, slotVars, found, core>>

\* HOME: HomeScene::shutdown() flushes, App::shutdown() saves.
Quit ==
  /\ AtHome
  /\ FlushAnd(FALSE, 1)
  /\ stage' = "off"
  /\ UNCHANGED <<migrationVars, installVars, sessionVars, slotVars, found, core>>

-----------------------------------------------------------------------------
(* A native emulator, and a game.                                          *)

Native ==
  /\ stage = "native"
  /\ \/ \E e \in Event : RecordRemoves(e)
     \/ RecordRenames
     \/ EndsUnsaid
  /\ UNCHANGED <<migrationVars, installVars, slotVars, libraryVars, stage, found, core>>

Playing ==
  /\ stage = "game"
  /\ SaveState(core) \/ WritePreview \/ DropPreview \/ LoadState(core) \/ PlayOn
  /\ UNCHANGED <<migrationVars, installVars, sessionVars, libraryVars, stage, found, core>>

\* teardown(): addPlaytime() and notePlayed().
LeaveGame ==
  /\ stage = "game" /\ slotStep = "idle"
  /\ dirty' = TRUE /\ Saved(0, TRUE, 1)
  /\ machine' = Nothing /\ core' = Nothing
  /\ stage' = "home"
  /\ UNCHANGED <<migrationVars, installVars, sessionVars, state, preview, slotStep, torn, found>>

\* HOME out of a game: the session is torn down, then App::shutdown() saves.
QuitGame ==
  /\ stage = "game" /\ slotStep = "idle"
  /\ dirty' = TRUE /\ Saved(0, TRUE, 2)
  /\ machine' = Nothing /\ core' = Nothing
  /\ stage' = "off"
  /\ UNCHANGED <<migrationVars, installVars, sessionVars, state, preview, slotStep, torn, found>>

-----------------------------------------------------------------------------

\* The next start; memory is what library.json says.
Start ==
  /\ stage = "off" \/ session = "returning"
  /\ stage' = "receipt" /\ session' = "none"
  /\ unsaved' = FALSE /\ dirty' = FALSE
  /\ UNCHANGED <<migrationVars, installVars, receipt, event, notice, ending, blind, gap, slotVars,
                 faults, found, core>>

\* The power goes, and comes back.
PowerCut ==
  /\ Fault
  /\ stage' = "receipt"
  /\ CutShort /\ CutSlot
  /\ inst' = Idle /\ mig' = Waiting
  /\ unsaved' = FALSE /\ dirty' = FALSE
  /\ core' = Nothing
  /\ UNCHANGED <<there, old, copies, kind, dropped, dest, bak, found>>

Boot == BootMigrate \/ BootReceipt \/ BootInstall \/ BootDiscover

Next ==
  \/ Boot \/ Tidy \/ Delete \/ LaunchNative \/ HandingOver
  \/ \E c \in Core : LaunchGame(c)
  \/ Quit \/ Native \/ Playing \/ LeaveGame \/ QuitGame \/ Start \/ PowerCut

\* A start goes on until Home is on screen.
Spec == Init /\ [][Next]_vars /\ WF_vars(Boot)

-----------------------------------------------------------------------------
(* Properties.                                                             *)

\* Discovery finds the files of a package together, the old ones or the new
\* ones, although the installer renames them one by one and one call may fail
\* or the power go anywhere (ADDING_A_CORE.md:131, "installs the pair
\* transactionally"; core_package_installer.cpp:358).
Set == INSTANCE PackageSet WITH Tolerance <- 1

ImplementsPackageSet == Set!Spec

\* A package is used up only when the whole of it is in place, whatever failed
\* before and however often it was tried (core_package_installer.cpp:413-414,
\* "The original archive is consumed after success").
PackageGoesInstalled ==
  [][dropped /\ ~dropped' => \A f \in FilesOf(kind) : dest[f] = "new"]_vars

\* Nothing that fails, or is cut short, while a package is installed keeps a
\* later start from installing it: if the console is started again and again,
\* the package is used up in the end.
PackageIsUsedUp == []<>(stage = "receipt") => <>[](~dropped)

\* No file of the older release is lost on its way to the new one's folder,
\* whatever fails and however often it is interrupted: it is still in the old
\* folder, or whole in the new one (fs_psp.h:31-33, "user data is merged").
NothingIsLost == \A f \in Legacy : f \in old \/ \E n \in Name : copies[f][n] = "whole"

\* If RetroShell is started again and again the old folder is gone in the end,
\* although every torn copy takes a name for good (fs_psp.cpp:161-175).
MigrationEnds == Spare > MaxFaults => ([]<>(stage = "receipt") => <>[](~there))

\* How far a start is from Home: its stage, the part of the stage's work, the
\* files of the older release to go, and the calls to go for the file in hand.
MigrationPart ==
  CASE mig.phase = "waiting" -> 2 [] mig.phase = "done" -> 0 [] OTHER -> 1
MigrationCalls ==
  CASE mig.phase = "merge"  -> 3 * Spare + 4
    [] mig.phase = "name"   -> 3 * (Spare - mig.name) + 3
    [] mig.phase = "copy"   -> 3 * (Spare - mig.name) + 2
    [] mig.phase = "remove" -> 3 * (Spare - mig.name) + 1
    [] OTHER -> 0

InstallPart ==
  CASE inst.phase = "extract" -> 6
    [] inst.phase \in {"drop", "aside", "promote"} -> 5
    [] inst.phase = "put_back" -> 4
    [] inst.phase \in {"remove", "restore"} -> 3
    [] inst.phase = "clean" -> 2
    [] inst.phase = "consume" -> 1
    [] OTHER -> 0
InstallTurn ==
  CASE inst.phase = "drop" -> 3 [] inst.phase \in {"aside", "remove"} -> 2
    [] inst.phase \in {"promote", "restore"} -> 1 [] OTHER -> 0
InstallCalls ==
  IF inst.phase = "clean" THEN Manifest - inst.file
  ELSE IF kind = "pair" THEN 4 * InstallTurn + 2 - inst.file
  ELSE IF inst.phase \in {"remove", "restore"} THEN 4 * inst.file + InstallTurn
  ELSE 4 * (NumNative - inst.file) + InstallTurn

BootRank ==
  CASE stage = "receipt" -> <<2, MigrationPart, Cardinality(mig.todo), MigrationCalls>>
    [] stage = "install" -> <<1, InstallPart, 0, InstallCalls>>
    [] OTHER -> <<0, 0, 0, 0>>
Starting == stage \in {"receipt", "install"}
Below(a, b) ==
  \E i \in 1 .. 4 : a[i] \in 0 .. b[i] - 1 /\ \A j \in 1 .. i - 1 : a[j] = b[j]

\* Every step of a start brings it nearer to Home, whichever call fails: names
\* that are taken, files that cannot be moved and installs that are taken back
\* cannot keep it going round; only the power can set it back
\* (fs_psp.cpp:157-177, core_package_installer.cpp:367-396).
BootAdvances ==
  [][Starting => Below(BootRank', BootRank) \/ PowerCut]_vars

\* If no call on the receipt failed, a start never speaks of a session that
\* ended as it should, wherever the power went, and always speaks of one that
\* ended early, unless the power went just while the adapter had removed one
\* receipt and not yet renamed the next (native_emulator_launcher.cpp:70,
\* app.cpp:88).
NoticeIsTrue ==
  [][stage = "receipt" /\ stage' = "install" /\ ~blind /\ ~blind' =>
       /\ notice' => ending = "early"
       /\ ending = "early" /\ ~gap => notice']_vars

\* A preview shown for a slot is of the state in it, as long as at most one
\* call failed and the power never went between the two writes
\* (game_session.cpp:1182, "so it never shows a stale frame").
PreviewIsTrue ==
  /\ slotStep = "idle" /\ state # Nothing /\ preview # Nothing
  /\ ~torn /\ faults <= 1
  => preview = state.moment

\* When RetroShell gives the console away or ends, library.json has what the
\* user marked and where the user was, although any one save failed before
\* (app.cpp:209, 275).
LibraryIsKept == stage \in {"handover", "native", "off"} /\ faults <= 1 => ~unsaved

=============================================================================
