---------------------------- MODULE Console_proofs ----------------------------
(***************************************************************************)
(* Proofs about Console for any number of files, faults, emulators and      *)
(* moments: type correctness, that no file of an older release is lost, and *)
(* that what one start leaves on the card of a slot, a native session and   *)
(* the library is true at the next.  That the files of a package are found  *)
(* together is in PackageInstall_proofs, whose invariant and lemmas these   *)
(* proofs use.                                                              *)
(***************************************************************************)
EXTENDS PackageInstall_proofs

-----------------------------------------------------------------------------
(* The files of the older release.                                         *)

\* What is left to be done is still in the old folder, and the file in hand is
\* removed from it only once its copy is whole.
MigrationInv ==
  /\ MigrationTypeOK
  /\ mig.todo \subseteq old
  /\ mig.phase \in {"name", "copy", "remove"} => mig.file \in old
  /\ mig.phase = "remove" => copies[mig.file][mig.name] = "whole"
  /\ NothingIsLost

Listing == [phase : {"waiting", "merge", "done"}, todo : SUBSET Legacy]
Moving == [phase : {"name", "copy", "remove"}, todo : SUBSET Legacy, file : Legacy, name : Name]

LEMMA MovingType ==
  ASSUME MigrationTypeOK, mig.phase \in {"name", "copy", "remove"}
  PROVE  mig \in Moving
BY DEF MigrationTypeOK, Moving

LEMMA MigrationStarts == Init => MigrationInv
<1> SUFFICES ASSUME Init PROVE MigrationInv
  OBVIOUS
<1>1. /\ there \in BOOLEAN /\ old \subseteq Legacy /\ mig \in Listing
      /\ mig.phase = "waiting" /\ mig.todo = {}
  BY DEF Init, MigrationInit, Waiting, Listing
<1>2. PICK released \in SUBSET Legacy :
        copies = [f \in Legacy |-> [n \in Name |->
                    IF f \notin old THEN "whole"
                    ELSE IF n = 0 /\ f \in released THEN "release" ELSE "none"]]
  BY DEF Init, MigrationInit
<1>3. copies \in [Legacy -> [Name -> Copy]]
  BY <1>2 DEF Copy
<1>4. NothingIsLost
  <2>1. 0 \in Name
    BY MigrationAssumption DEF Name
  <2> QED
    BY <1>2, <2>1 DEF NothingIsLost
<1> QED
  BY <1>1, <1>3, <1>4 DEF MigrationInv, MigrationTypeOK, Listing

\* The file goes on to its next name, or is given up for this start.
LEMMA NextNameType ==
  ASSUME mig \in Moving, mig.todo \subseteq old, mig.file \in old, NextName
  PROVE  /\ mig' \in Listing \cup Moving /\ mig'.todo \subseteq mig.todo
         /\ mig'.phase \in {"name", "merge"} /\ (mig'.phase = "name" => mig'.file = mig.file)
<1>1. CASE mig.name \in 1 .. Spare - 1
  <2>1. mig' = [mig EXCEPT !.phase = "name", !.name = @ + 1]
    BY <1>1 DEF NextName
  <2>2. mig.name + 1 \in Name
    BY <1>1, MigrationAssumption DEF Name
  <2> QED
    BY <2>1, <2>2 DEF Moving
<1>2. CASE mig.name \notin 1 .. Spare - 1
  BY <1>2 DEF NextName, Merge, Listing, Moving
<1> QED
  BY <1>1, <1>2

\* A copy is written over nothing but a file that is still in the old folder.
LEMMA HoldingKeeps ==
  ASSUME MigrationInv, NEW f \in old, NEW n \in Name, NEW c \in Copy, Holding(f, n, c),
         UNCHANGED old
  PROVE  copies' \in [Legacy -> [Name -> Copy]] /\ copies'[f][n] = c /\ NothingIsLost'
<1>1. f \in Legacy /\ copies \in [Legacy -> [Name -> Copy]]
  BY DEF MigrationInv, MigrationTypeOK
<1>2. copies' = [copies EXCEPT ![f] = [copies[f] EXCEPT ![n] = c]]
  BY DEF Holding
<1>3. \A g \in Legacy : g # f => copies'[g] = copies[g]
  BY <1>1, <1>2
<1>4. copies'[f] = [copies[f] EXCEPT ![n] = c] /\ copies'[f] \in [Name -> Copy]
  BY <1>1, <1>2
<1> QED
  BY <1>1, <1>2, <1>3, <1>4 DEF MigrationInv, NothingIsLost

LEMMA MigrationStepKeeps ==
  ASSUME MigrationInv, MigrationStep
  PROVE  MigrationInv'
<1>1. /\ there \in BOOLEAN /\ old \subseteq Legacy /\ copies \in [Legacy -> [Name -> Copy]]
      /\ mig \in Listing \cup Moving /\ mig.todo \subseteq old /\ NothingIsLost
  BY DEF MigrationInv, MigrationTypeOK, Listing, Moving
<1>2. mig.phase \in {"name", "copy", "remove"} => mig \in Moving /\ mig.file \in old
  BY MovingType DEF MigrationInv
<1>3. ASSUME UNCHANGED <<old, copies>>, there' \in BOOLEAN, mig' \in Listing,
             mig'.todo \subseteq old
      PROVE  MigrationInv'
  BY <1>1, <1>3 DEF MigrationInv, MigrationTypeOK, NothingIsLost, Listing
<1>4. ASSUME UNCHANGED <<there, old>>, copies' \in [Legacy -> [Name -> Copy]], NothingIsLost',
             mig \in Moving, mig.file \in old, NextName
      PROVE  MigrationInv'
  <2>1. /\ mig' \in Listing \cup Moving /\ mig'.todo \subseteq old
        /\ mig'.phase \in {"name", "merge"} /\ (mig'.phase = "name" => mig'.file \in old)
    BY <1>1, <1>4, NextNameType
  <2> QED
    BY <1>1, <1>4, <2>1 DEF MigrationInv, MigrationTypeOK, Listing, Moving
<1>5. ASSUME UNCHANGED <<there, old, copies>>, mig \in Moving, mig.file \in old, NextName
      PROVE  MigrationInv'
  BY <1>1, <1>4, <1>5 DEF NothingIsLost
<1>6. CASE BeginMigration
  BY <1>1, <1>3, <1>6 DEF BeginMigration, Merge, Listing
<1>7. CASE NextFile
  <2>1. PICK f \in mig.todo :
           mig' = [phase |-> "name", todo |-> mig.todo, file |-> f, name |-> 0]
           \/ Merge(mig.todo \ {f})
    BY <1>7 DEF NextFile
  <2>2. UNCHANGED <<there, old, copies>> /\ f \in old /\ f \in Legacy /\ 0 \in Name
        /\ mig.todo \subseteq Legacy
    BY <1>1, <1>7, MigrationAssumption DEF NextFile, Name
  <2>3. CASE Merge(mig.todo \ {f})
    BY <1>1, <1>3, <2>2, <2>3 DEF Merge, Listing
  <2>4. CASE mig' = [phase |-> "name", todo |-> mig.todo, file |-> f, name |-> 0]
    BY <1>1, <2>2, <2>4 DEF MigrationInv, MigrationTypeOK, NothingIsLost
  <2> QED
    BY <2>1, <2>3, <2>4
<1>8. CASE TryName
  <2>1. mig \in Moving /\ mig.file \in old /\ mig.name \in Name /\ UNCHANGED <<there, old>>
    BY <1>2, <1>8 DEF TryName, Moving
  <2>2. CASE NextName /\ UNCHANGED copies
    BY <1>5, <2>1, <2>2
  <2>3. CASE UNCHANGED copies /\ Spare > 0 /\ mig' = [mig EXCEPT !.name = 1]
    <3>1. mig' \in Moving /\ mig'.phase = "name" /\ mig'.file = mig.file /\ mig'.todo = mig.todo
      BY <1>8, <2>1, <2>3, MigrationAssumption DEF TryName, Moving, Name
    <3> QED
      BY <1>1, <2>1, <2>3, <3>1 DEF MigrationInv, MigrationTypeOK, NothingIsLost, Moving
  <2>4. CASE Holding(mig.file, mig.name, "torn") /\ mig' = [mig EXCEPT !.phase = "copy"]
    <3>1. mig' \in Moving /\ mig'.phase = "copy" /\ mig'.file = mig.file /\ mig'.todo = mig.todo
      BY <2>1, <2>4 DEF Moving
    <3>2. copies' \in [Legacy -> [Name -> Copy]] /\ NothingIsLost'
      BY <2>1, <2>4, HoldingKeeps DEF Copy
    <3> QED
      BY <1>1, <2>1, <3>1, <3>2 DEF MigrationInv, MigrationTypeOK, Moving
  <2> QED
    BY <1>8, <2>2, <2>3, <2>4 DEF TryName
<1>9. CASE CopyContents
  <2>1. mig \in Moving /\ mig.file \in old /\ mig.name \in Name /\ UNCHANGED <<there, old>>
    BY <1>2, <1>9 DEF CopyContents, Moving
  <2>2. CASE Holding(mig.file, mig.name, "whole") /\ mig' = [mig EXCEPT !.phase = "remove"]
    <3>1. /\ mig' \in Moving /\ mig'.phase = "remove" /\ mig'.file = mig.file
          /\ mig'.todo = mig.todo /\ mig'.name = mig.name
      BY <2>1, <2>2 DEF Moving
    <3>2. /\ copies' \in [Legacy -> [Name -> Copy]] /\ NothingIsLost'
          /\ copies'[mig.file][mig.name] = "whole"
      BY <2>1, <2>2, HoldingKeeps DEF Copy
    <3> QED
      BY <1>1, <2>1, <3>1, <3>2 DEF MigrationInv, MigrationTypeOK, Moving
  <2>3. CASE Holding(mig.file, mig.name, "none") /\ NextName
    <3>1. copies' \in [Legacy -> [Name -> Copy]] /\ NothingIsLost'
      BY <2>1, <2>3, HoldingKeeps DEF Copy
    <3> QED
      BY <1>4, <2>1, <2>3, <3>1
  <2>4. CASE UNCHANGED copies /\ NextName
    BY <1>5, <2>1, <2>4
  <2> QED
    BY <1>9, <2>2, <2>3, <2>4 DEF CopyContents
<1>10. CASE RemoveOriginal
  <2>1. /\ mig \in Moving /\ mig.file \in old /\ UNCHANGED <<there, copies>>
        /\ mig.name \in Name /\ copies[mig.file][mig.name] = "whole"
    BY <1>2, <1>10 DEF RemoveOriginal, Moving, MigrationInv
  <2>2. CASE old' = old \ {mig.file} /\ Merge(mig.todo \ {mig.file})
    <3>1. NothingIsLost'
      BY <1>1, <2>1, <2>2 DEF NothingIsLost
    <3> QED
      BY <1>1, <2>1, <2>2, <3>1 DEF MigrationInv, MigrationTypeOK, Merge, Moving
  <2>3. CASE UNCHANGED old /\ NextName
    BY <1>5, <2>1, <2>3
  <2>4. CASE UNCHANGED old /\ Merge(mig.todo \ {mig.file})
    BY <1>1, <1>3, <2>1, <2>4 DEF Merge, Listing, Moving
  <2> QED
    BY <1>10, <2>2, <2>3, <2>4 DEF RemoveOriginal
<1>11. CASE EndMigration
  <2>1. mig \in Listing /\ mig' = [mig EXCEPT !.phase = "done"]
    BY <1>1, <1>11 DEF EndMigration, Moving
  <2>2. mig' \in Listing /\ mig'.todo = mig.todo
    BY <2>1 DEF Listing
  <2>3. there' \in BOOLEAN
    BY <1>1, <1>11, Zenon DEF EndMigration
  <2> QED
    BY <1>1, <1>3, <1>11, <2>2, <2>3 DEF EndMigration
<1> QED
  BY <1>6, <1>7, <1>8, <1>9, <1>10, <1>11 DEF MigrationStep

LEMMA MigrationKeeps == MigrationInv /\ [Next]_vars => MigrationInv'
<1> SUFFICES ASSUME MigrationInv, [Next]_vars PROVE MigrationInv'
  OBVIOUS
<1>1. CASE BootMigrate
  BY <1>1, MigrationStepKeeps DEF BootMigrate
<1>2. CASE UNCHANGED migrationVars
  BY <1>2 DEF migrationVars, MigrationInv, MigrationTypeOK, NothingIsLost
<1>3. CASE BootReceipt \/ PowerCut
  <2>1. UNCHANGED <<there, old, copies>> /\ mig' = [phase |-> "waiting", todo |-> {}]
    BY <1>3 DEF BootReceipt, PowerCut, Waiting
  <2> QED
    BY <2>1 DEF MigrationInv, MigrationTypeOK, NothingIsLost
<1> QED
  BY <1>1, <1>2, <1>3
  DEF Next, Boot, BootInstall, BootDiscover, Tidy, Delete, LaunchNative, HandingOver,
    LaunchGame, Quit, Native, Playing, LeaveGame, QuitGame, Start, vars

LEMMA MigrationInvariant == Spec => []MigrationInv
BY MigrationStarts, MigrationKeeps, PTL DEF Spec

\* No file of the older release is lost, for any number of files, names and
\* faults (fs_psp.h:31-33).
THEOREM NothingLost == Spec => []NothingIsLost
BY MigrationInvariant, PTL DEF MigrationInv

-----------------------------------------------------------------------------
(* Types.                                                                  *)

\* What IInv does not say of them; a game runs in one of the emulators.
TypeInv ==
  /\ SessionTypeOK /\ SlotTypeOK /\ LibraryTypeOK
  /\ stage \in {"receipt", "install", "home", "handover", "native", "game", "off"}
  /\ found \in Content \cup {"mixed"}
  /\ core \in Core \cup {Nothing}
  /\ stage # "install" \/ inst.phase = "idle" => inst = Idle
  /\ stage = "game" <=> machine # Nothing
  /\ stage = "game" => core \in Core

LEMMA TypeInit == Init => TypeInv
<1> SUFFICES ASSUME Init PROVE TypeInv
  OBVIOUS
<1>1. found \in Content /\ inst = Idle
  BY InstallAssumption DEF Init, InstallInit, Content, File
<1> QED
  BY <1>1
  DEF Init, TypeInv, SessionInit, SlotInit, LibraryInit, SessionTypeOK, Event, SlotTypeOK,
    LibraryTypeOK

LEMMA SlotTypes ==
  ASSUME TypeInv,
         SaveState(core) \/ WritePreview \/ DropPreview \/ LoadState(core) \/ PlayOn
           \/ DeleteState \/ DeletePreview,
         stage = "home" \/ stage = "game", stage = "home" => DeleteState \/ DeletePreview
  PROVE  SlotTypeOK' /\ (machine' # Nothing <=> machine # Nothing)
<1> USE SlotAssumption DEF TypeInv, SlotTypeOK, Playable
<1>1. CASE SaveState(core)
  BY <1>1 DEF SaveState
<1>2. CASE WritePreview
  BY <1>2 DEF WritePreview
<1>3. CASE DropPreview
  BY <1>3 DEF DropPreview
<1>4. CASE LoadState(core)
  BY <1>4 DEF LoadState
<1>5. CASE PlayOn
  BY <1>5 DEF PlayOn
<1>6. CASE DeleteState
  BY <1>6 DEF DeleteState
<1>7. CASE DeletePreview
  BY <1>7 DEF DeletePreview
<1> QED
  BY <1>1, <1>2, <1>3, <1>4, <1>5, <1>6, <1>7

LEMMA SessionTypes ==
  ASSUME SessionTypeOK,
         ConsumeReceipt \/ WriteReceipt \/ HandOver \/ LaunchRefused
           \/ (\E e \in Event : RecordRemoves(e)) \/ RecordRenames \/ EndsUnsaid \/ CutShort
  PROVE  SessionTypeOK'
<1> USE DEF SessionTypeOK, Event, ReceiptCall
<1>1. CASE ConsumeReceipt
  <2>1. notice' = (receipt = "open" \/ receipt = "failed") \/ notice' = FALSE
    BY <1>1 DEF ConsumeReceipt
  <2>2. notice' \in BOOLEAN
    BY <2>1, Zenon
  <2> QED
    BY <1>1, <2>2 DEF ConsumeReceipt
<1>2. CASE WriteReceipt
  BY <1>2 DEF WriteReceipt
<1>3. CASE HandOver
  BY <1>3 DEF HandOver
<1>4. CASE LaunchRefused
  BY <1>4 DEF LaunchRefused
<1>5. CASE \E e \in Event : RecordRemoves(e)
  BY <1>5 DEF RecordRemoves
<1>6. CASE RecordRenames
  BY <1>6 DEF RecordRenames
<1>7. CASE EndsUnsaid
  BY <1>7 DEF EndsUnsaid
<1>8. CASE CutShort
  BY <1>8 DEF CutShort
<1> QED
  BY <1>1, <1>2, <1>3, <1>4, <1>5, <1>6, <1>7, <1>8

LEMMA SavedType ==
  ASSUME NEW b, NEW c \in BOOLEAN, NEW a, unsaved \in BOOLEAN, Saved(b, c, a)
  PROVE  unsaved' \in BOOLEAN
BY Zenon DEF Saved

\* The installer has no locals left when it is through.
LEMMA IdleIsIdle ==
  ASSUME InstallTypeOK, inst.file \in Files, InstallStep, inst'.phase = "idle"
  PROVE  inst' = Idle
<1>1. inst \in Locals /\ inst.file \in File
  BY FilesInFile DEF InstallTypeOK, Locals
<1>2. ASSUME NEW i \in Locals, i.phase = inst.phase, i.file = inst.file,
             inst.phase \in Replacing, inst' = NextCall(i)
      PROVE  FALSE
  BY <1>2, NextCallType DEF Replacing
<1>3. ASSUME NEW i \in Locals, inst' = BeginUndo(i) PROVE FALSE
  BY <1>3 DEF BeginUndo, Goto, Locals
<1>4. ASSUME kind' = kind, inst.phase \in {"remove", "restore"}, inst' = NextUndo(inst)
      PROVE  inst' = Idle
  BY <1>4, Retreat
<1>5. CASE Extract \/ Clean \/ Consume
  BY <1>1, <1>5 DEF Extract, Clean, Consume, Goto, Locals
<1>6. CASE DropBackup
  BY <1>1, <1>2, <1>6 DEF DropBackup, Replacing
<1>7. CASE SetAside
  <2> DEFINE had == [inst EXCEPT !.hadOld = @ \cup {inst.file}]
  <2>1. had \in Locals /\ had.phase = inst.phase /\ had.file = inst.file
    BY <1>1 DEF Locals
  <2>2. inst' = NextCall(inst) \/ inst' = NextCall(had) \/ inst' = BeginUndo(had)
    BY <1>7 DEF SetAside
  <2>3. inst.phase \in Replacing
    BY <1>7 DEF SetAside, Replacing
  <2> QED
    BY <1>1, <1>2, <1>3, <2>1, <2>2, <2>3
<1>8. CASE Promote
  <2> DEFINE done == [inst EXCEPT !.promoted = @ \cup {inst.file}]
  <2>1. done \in Locals /\ done.phase = inst.phase /\ done.file = inst.file
    BY <1>1 DEF Locals
  <2>2. inst' = NextCall(done) \/ inst' = Goto(inst, "put_back", inst.file)
        \/ inst' = BeginUndo(inst)
    BY <1>8 DEF Promote
  <2>3. inst.phase \in Replacing
    BY <1>8 DEF Promote, Replacing
  <2>4. inst' # Goto(inst, "put_back", inst.file)
    BY <1>1 DEF Goto, Locals
  <2> QED
    BY <1>1, <1>2, <1>3, <2>1, <2>2, <2>3, <2>4
<1>9. CASE PutBack
  BY <1>1, <1>3, <1>9 DEF PutBack
<1>10. CASE Remove \/ Restore
  BY <1>4, <1>10 DEF Remove, Restore
<1> QED
  BY <1>5, <1>6, <1>7, <1>8, <1>9, <1>10 DEF InstallStep

LEMMA TypeStep == IInv /\ TypeInv /\ [Next]_vars => TypeInv'
<1> SUFFICES ASSUME IInv, TypeInv, [Next]_vars PROVE TypeInv'
  OBVIOUS
<1>1. /\ SessionTypeOK /\ SlotTypeOK /\ LibraryTypeOK
      /\ stage \in {"receipt", "install", "home", "handover", "native", "game", "off"}
      /\ found \in Content \cup {"mixed"} /\ core \in Core \cup {Nothing}
      /\ stage # "install" \/ inst.phase = "idle" => inst = Idle
      /\ stage = "game" <=> machine # Nothing
      /\ stage = "game" => core \in Core
      /\ session # "none" => stage \in {"handover", "native"}
  BY DEF TypeInv, IInv
<1>2. UNCHANGED sessionVars => SessionTypeOK'
  BY <1>1 DEF sessionVars, SessionTypeOK
<1>3. UNCHANGED <<machine, state, preview, slotStep, torn>> => SlotTypeOK'
  BY <1>1 DEF SlotTypeOK
<1>4. UNCHANGED <<unsaved, dirty>> => LibraryTypeOK'
  BY <1>1 DEF LibraryTypeOK
<1>5. ASSUME NEW c \in BOOLEAN, NEW a, FlushAnd(c, a) PROVE LibraryTypeOK'
  <2>1. dirty' = FALSE /\ \E b : Saved(b, c, a)
    BY <1>5, Zenon DEF FlushAnd
  <2>2. unsaved \in BOOLEAN
    BY <1>1 DEF LibraryTypeOK
  <2>3. unsaved' \in BOOLEAN
    BY <2>1, <2>2, SavedType
  <2> QED
    BY <2>1, <2>3, Zenon DEF LibraryTypeOK
<1> USE DEF slotVars, libraryVars, installVars
<1>6. CASE BootReceipt
  <2>1. SessionTypeOK'
    BY <1>1, <1>6, SessionTypes, Zenon DEF BootReceipt
  <2>2. stage' = "install" /\ (inst' = inst \/ inst'.phase = "extract")
    BY <1>6 DEF BootReceipt, BeginInstall, Idle
  <2> QED
    BY <1>1, <1>3, <1>4, <1>6, <2>1, <2>2 DEF BootReceipt, TypeInv
<1>7. CASE BootInstall
  <2>1. inst'.phase = "idle" => inst' = Idle
    BY <1>7, IdleIsIdle DEF BootInstall, IInv
  <2> QED
    BY <1>1, <1>2, <1>3, <1>4, <1>7, <2>1 DEF BootInstall, TypeInv
<1>8. CASE BootDiscover
  <2>1. Installed \in Content \cup {"mixed"}
    BY InstallAssumption DEF IInv, InstallTypeOK, Installed, File
  <2>2. inst = Idle
    BY <1>1, <1>8 DEF BootDiscover
  <2> QED
    BY <1>1, <1>2, <1>3, <1>4, <1>8, <2>1, <2>2 DEF BootDiscover, TypeInv

<1>9. CASE PowerCut
  <2>1. SlotTypeOK' /\ machine' = Nothing
    BY <1>1, <1>9 DEF PowerCut, CutSlot, SlotTypeOK
  <2>2. SessionTypeOK'
    BY <1>1, <1>9, SessionTypes DEF PowerCut
  <2>3. LibraryTypeOK' /\ stage' = "receipt" /\ inst' = Idle /\ found' = found /\ core' = Nothing
    BY <1>9 DEF PowerCut, LibraryTypeOK
  <2> QED
    BY <1>1, <2>1, <2>2, <2>3 DEF TypeInv
<1>10. CASE Tidy
  <2>1. LibraryTypeOK'
    <3>1. unsaved \in BOOLEAN /\ dirty \in BOOLEAN
      BY <1>1 DEF LibraryTypeOK
    <3>2. CASE Mark
      <4>1. unsaved' \in BOOLEAN
        BY <3>1, <3>2, Zenon DEF Mark, Saved
      <4> QED
        BY <3>1, <3>2, <4>1, Zenon DEF Mark, LibraryTypeOK
    <3>3. CASE Move
      BY <3>3, Zenon DEF Move, LibraryTypeOK
    <3> QED
      BY <1>5, <1>10, <3>2, <3>3 DEF Tidy
  <2> QED
    BY <1>1, <1>2, <1>3, <1>10, <2>1 DEF Tidy, AtHome, TypeInv
<1>11. CASE Delete
  <2>1. SlotTypeOK' /\ (machine' # Nothing <=> machine # Nothing)
    BY <1>11, SlotTypes DEF Delete
  <2> QED
    BY <1>1, <1>2, <1>4, <1>11, <2>1 DEF Delete, TypeInv
<1>12. CASE LaunchNative
  BY <1>1, <1>2, <1>3, <1>5, <1>12 DEF LaunchNative, AtHome, TypeInv
<1>13. CASE HandingOver
  <2>1. SessionTypeOK'
    BY <1>1, <1>13, SessionTypes DEF HandingOver
  <2> QED
    BY <1>1, <1>3, <1>4, <1>13, <2>1 DEF HandingOver, TypeInv
<1>14. ASSUME NEW c \in Core, LaunchGame(c) PROVE TypeInv'
  <2>1. SlotTypeOK' /\ machine' # Nothing
    BY <1>1, <1>14, SlotAssumption DEF LaunchGame, SlotTypeOK, Playable
  <2> QED
    BY <1>1, <1>2, <1>5, <1>14, <2>1 DEF LaunchGame, AtHome, TypeInv
<1>15. CASE Quit
  BY <1>1, <1>2, <1>3, <1>5, <1>15 DEF Quit, AtHome, TypeInv
<1>16. CASE Native
  <2>1. SessionTypeOK'
    BY <1>1, <1>16, SessionTypes DEF Native
  <2> QED
    BY <1>1, <1>3, <1>4, <1>16, <2>1 DEF Native, TypeInv
<1>17. CASE Playing
  <2>1. SlotTypeOK' /\ (machine' # Nothing <=> machine # Nothing)
    BY <1>17, SlotTypes DEF Playing
  <2> QED
    BY <1>1, <1>2, <1>4, <1>17, <2>1 DEF Playing, TypeInv
<1>18. CASE LeaveGame \/ QuitGame
  <2>1. SlotTypeOK' /\ machine' = Nothing
    BY <1>1, <1>18 DEF LeaveGame, QuitGame, SlotTypeOK
  <2>2. LibraryTypeOK'
    <3>1. unsaved \in BOOLEAN /\ dirty' = TRUE /\ \E a : Saved(0, TRUE, a)
      BY <1>1, <1>18 DEF LeaveGame, QuitGame, LibraryTypeOK
    <3>2. unsaved' \in BOOLEAN
      BY <3>1, Zenon DEF Saved
    <3> QED
      BY <3>1, <3>2, Zenon DEF LibraryTypeOK
  <2> QED
    BY <1>1, <1>2, <1>18, <2>1, <2>2 DEF LeaveGame, QuitGame, TypeInv
<1>19. CASE Start
  BY <1>1, <1>3, <1>19 DEF Start, TypeInv, SessionTypeOK, LibraryTypeOK
<1>20. CASE BootMigrate
  BY <1>1, <1>2, <1>3, <1>4, <1>20 DEF BootMigrate, TypeInv
<1>21. CASE UNCHANGED vars
  BY <1>1, <1>2, <1>3, <1>4, <1>21 DEF vars, TypeInv
<1> QED
  BY <1>6, <1>7, <1>8, <1>9, <1>10, <1>11, <1>12, <1>13, <1>14, <1>15, <1>16, <1>17, <1>18,
    <1>19, <1>20, <1>21 DEF Next, Boot

LEMMA Typed == Spec => []TypeInv
BY TypeInit, TypeStep, Invariant, PTL DEF Spec

\* Every variable has its type in every state, for any number of files,
\* emulators, moments and faults.
THEOREM TypeCorrect == Spec => []TypeOK
<1>1. IInv /\ TypeInv /\ MigrationInv => TypeOK
  BY DEF IInv, TypeInv, MigrationInv, TypeOK
<1> QED
  BY <1>1, Invariant, Typed, MigrationInvariant, PTL

-----------------------------------------------------------------------------
(* Slots.                                                                  *)

\* While a state is being saved the slot holds the running moment, and a
\* preview has to be dropped only after a failure.
SlotInv ==
  /\ slotStep \in {"preview", "drop"} => state.moment = machine
  /\ slotStep = "drop" => faults >= 1
  /\ /\ slotStep \in {"idle", "delete_preview"} /\ state # Nothing /\ preview # Nothing
     /\ ~torn /\ faults <= 1
     => preview = state.moment

LEMMA FaultsGrow ==
  ASSUME IInv, [Next]_vars
  PROVE  faults' >= faults
<1>1. faults \in Nat
  BY CardAssumption DEF IInv
<1>2. BootInstall => faults' >= faults
  BY InstallTypes DEF BootInstall, IInv
<1>3. Elsewhere => faults' >= faults
  BY ElsewhereSteps
<1>4. BootReceipt \/ BootDiscover \/ PowerCut \/ UNCHANGED vars => faults' >= faults
  BY <1>1 DEF BootReceipt, ConsumeReceipt, ReceiptCall, BootDiscover, PowerCut, NoFault,
    Fault, FaultyCalls, vars
<1>5. BootMigrate => faults' >= faults
  BY MigrationStands
<1> QED
  BY <1>2, <1>3, <1>4, <1>5 DEF Next, Boot, Elsewhere

LEMMA SlotStep == IInv /\ IInv' /\ TypeInv /\ SlotInv /\ [Next]_vars => SlotInv'
<1> SUFFICES ASSUME IInv, IInv', TypeInv, SlotInv, [Next]_vars PROVE SlotInv'
  OBVIOUS
<1>1. faults \in Nat /\ faults' \in Nat /\ slotStep \in {"idle", "preview", "drop", "delete_preview"}
  BY CardAssumption DEF IInv, TypeInv, SlotTypeOK
<1>2. faults' >= faults
  BY FaultsGrow
<1>3. ASSUME UNCHANGED <<state, preview, slotStep, torn>>,
             slotStep = "idle" \/ machine' = machine
      PROVE  SlotInv'
  BY <1>1, <1>2, <1>3 DEF SlotInv
<1> USE DEF NoFault, Fault, FaultyCalls
<1>4. CASE Playing
  <2>1. CASE SaveState(core)
    <3>1. CASE state' = [core |-> core, moment |-> machine] /\ slotStep' = "preview"
      BY <1>1, <2>1, <3>1 DEF SaveState, SlotInv
    <3>2. CASE UNCHANGED <<state, slotStep>>
      BY <1>1, <2>1, <1>3, <3>2 DEF SaveState, SlotInv
    <3> QED
      BY <2>1, <3>1, <3>2 DEF SaveState
  <2>2. CASE WritePreview
    BY <1>1, <2>2 DEF WritePreview, SlotInv
  <2>3. CASE DropPreview
    BY <1>1, <2>3 DEF DropPreview, SlotInv
  <2>4. CASE LoadState(core)
    BY <1>3, <2>4 DEF LoadState
  <2>5. CASE PlayOn
    BY <1>3, <2>5 DEF PlayOn
  <2> QED
    BY <1>4, <2>1, <2>2, <2>3, <2>4, <2>5 DEF Playing
<1>5. CASE Delete
  <2>1. CASE DeleteState
    BY <1>1, <2>1 DEF DeleteState, SlotInv
  <2>2. CASE DeletePreview
    BY <1>1, <2>2 DEF DeletePreview, SlotInv
  <2> QED
    BY <1>5, <2>1, <2>2 DEF Delete
<1>6. CASE PowerCut
  <2>1. /\ faults' = faults + 1 /\ slotStep' = "idle" /\ state' = state
        /\ torn' = (torn \/ slotStep \in {"preview", "drop"})
        /\ slotStep # "preview" => preview' = preview
    BY <1>6 DEF PowerCut, CutSlot
  <2>2. ~torn' => ~torn /\ slotStep \notin {"preview", "drop"}
    BY <2>1, Zenon
  <2> QED
    BY <1>1, <2>1, <2>2 DEF SlotInv
<1>7. CASE Boot \/ Tidy \/ LaunchNative \/ HandingOver \/ Quit \/ Native \/ Start
  BY <1>3, <1>7
  DEF Boot, BootMigrate, BootReceipt, BootInstall, BootDiscover, Tidy, LaunchNative, HandingOver, Quit,
    Native, Start, slotVars
<1>8. CASE (\E c \in Core : LaunchGame(c)) \/ LeaveGame \/ QuitGame
  BY <1>3, <1>8 DEF LaunchGame, LeaveGame, QuitGame, AtHome
<1>9. CASE UNCHANGED vars
  BY <1>3, <1>9 DEF vars, slotVars
<1> QED
  BY <1>4, <1>5, <1>6, <1>7, <1>8, <1>9 DEF Next

\* The preview a slot shows is of the state in it, after at most one failure
\* and no power cut between the two files.
THEOREM PreviewTrue == Spec => []PreviewIsTrue
<1>1. Init => SlotInv
  BY DEF Init, SlotInit, SlotInv
<1>2. IInv /\ IInv' /\ TypeInv /\ SlotInv /\ [Next]_vars => SlotInv'
  BY SlotStep
<1>3. SlotInv => PreviewIsTrue
  BY DEF SlotInv, PreviewIsTrue
<1> QED
  BY <1>1, <1>2, <1>3, Invariant, Typed, PTL DEF Spec

-----------------------------------------------------------------------------
(* Receipts.                                                               *)

\* What the receipt says, unless a call on it failed, is how the session ended,
\* or that it goes on; it is missing after an early end only if the power went
\* while the adapter had none in place.
ReceiptInv ==
  /\ session = "none" /\ stage # "receipt" => ending = "none"
  /\ session \in {"written", "running"} => ending = "none"
  /\ session = "recording" =>
       ending = CASE event = "returned" -> "proper" [] event = "failed" -> "early"
                  [] OTHER -> "none"
  /\ session = "recording" => receipt = "none"
  /\ ~blind /\ session \in {"none", "returning"} =>
       /\ receipt \in {"open", "failed"} => ending = "early"
       /\ ending = "early" /\ ~gap => receipt \in {"open", "failed"}
  /\ ~blind /\ session \in {"written", "running"} => receipt = "open"

LEMMA ReceiptStep == IInv /\ TypeInv /\ ReceiptInv /\ [Next]_vars => ReceiptInv'
<1> SUFFICES ASSUME IInv, TypeInv, ReceiptInv, [Next]_vars PROVE ReceiptInv'
  OBVIOUS
<1>1. /\ session \in {"none", "written", "running", "recording", "returning"}
      /\ event \in Event /\ receipt \in Event \cup {"none"}
      /\ ending \in {"none", "proper", "early"}
      /\ session # "none" => stage \in {"handover", "native"}
  BY DEF IInv, TypeInv, SessionTypeOK
<1> USE DEF Event, ReceiptCall
<1>2. ASSUME UNCHANGED sessionVars, stage # "receipt" \/ stage' = "receipt" PROVE ReceiptInv'
  BY <1>2 DEF sessionVars, ReceiptInv
<1>3. CASE BootReceipt
  BY <1>1, <1>3 DEF BootReceipt, ConsumeReceipt, ReceiptInv
<1>4. CASE HandingOver
  <2>1. CASE WriteReceipt
    BY <1>1, <1>4, <2>1 DEF HandingOver, WriteReceipt, ReceiptInv
  <2>2. CASE HandOver
    BY <1>1, <2>2 DEF HandOver, ReceiptInv
  <2>3. CASE LaunchRefused
    BY <1>1, <2>3 DEF LaunchRefused, ReceiptInv
  <2> QED
    BY <1>4, <2>1, <2>2, <2>3 DEF HandingOver
<1>5. CASE Native
  <2>1. ASSUME NEW e \in Event, RecordRemoves(e) PROVE ReceiptInv'
    BY <1>1, <2>1 DEF RecordRemoves, ReceiptInv
  <2>2. CASE RecordRenames
    BY <1>1, <2>2 DEF RecordRenames, ReceiptInv
  <2>3. CASE EndsUnsaid
    BY <1>1, <2>3 DEF EndsUnsaid, ReceiptInv
  <2> QED
    BY <1>5, <2>1, <2>2, <2>3 DEF Native
<1>6. CASE PowerCut
  BY <1>1, <1>6 DEF PowerCut, CutShort, ReceiptInv
<1>7. CASE Start
  BY <1>1, <1>7 DEF Start, ReceiptInv
<1>8. CASE BootMigrate \/ BootInstall \/ BootDiscover \/ Tidy \/ Delete \/ LaunchNative \/ Quit
           \/ (\E c \in Core : LaunchGame(c)) \/ Playing \/ LeaveGame \/ QuitGame
  BY <1>2, <1>8
  DEF BootMigrate, BootInstall, BootDiscover, Tidy, AtHome, Delete, LaunchNative, Quit, LaunchGame,
    Playing, LeaveGame, QuitGame
<1>9. CASE UNCHANGED vars
  BY <1>2, <1>9 DEF vars
<1> QED
  BY <1>3, <1>4, <1>5, <1>6, <1>7, <1>8, <1>9 DEF Next, Boot

\* A start that no call on the receipt failed says of the session before it
\* that it ended early only when it did, and whenever it did and the power did
\* not go between the adapter's removal and its rename.
THEOREM NoticeTrue == Spec => NoticeIsTrue
<1>1. Init => ReceiptInv
  BY DEF Init, SessionInit, ReceiptInv
<1>2. IInv /\ TypeInv /\ ReceiptInv /\ [Next]_vars => ReceiptInv'
  BY ReceiptStep
<1>3. IInv /\ ReceiptInv /\ [Next]_vars =>
        [stage = "receipt" /\ stage' = "install" /\ ~blind /\ ~blind' =>
           /\ notice' => ending = "early"
           /\ ending = "early" /\ ~gap => notice']_vars
  <2> SUFFICES ASSUME IInv, ReceiptInv, Next, stage = "receipt", stage' = "install",
                      ~blind, ~blind'
               PROVE  /\ notice' => ending = "early"
                      /\ ending = "early" /\ ~gap => notice'
    OBVIOUS
  <2>1. BootReceipt
    BY DEF Next, Boot, BootMigrate, BootInstall, BootDiscover, Tidy, AtHome, Delete, LaunchNative,
      HandingOver, LaunchGame, Quit, Native, Playing, LeaveGame, QuitGame, Start, PowerCut
  <2>2. session = "none" /\ (notice' <=> receipt \in {"open", "failed"})
    BY <2>1 DEF BootReceipt, ConsumeReceipt, ReceiptCall, IInv
  <2> QED
    BY <2>2 DEF ReceiptInv
<1> QED
  BY <1>1, <1>2, <1>3, Invariant, Typed, PTL DEF Spec, NoticeIsTrue

-----------------------------------------------------------------------------
(* The library.                                                            *)

\* What is neither in the file nor marked to be flushed had a failing save.
LibraryInv ==
  /\ unsaved /\ ~dirty => faults >= 1
  /\ LibraryIsKept

\* The file stays behind only if each of the saves that would bring it up to
\* date failed.
LEMMA SavesThatFailed ==
  ASSUME faults \in Nat, NEW b \in Nat, NEW a \in Nat, NEW c, Saved(b, c, a), unsaved'
  PROVE  faults' >= faults + a /\ (c \/ (unsaved /\ faults' >= faults + a + b))
<1>1. PICK failed \in SUBSET (1 .. b + a) :
        /\ FaultyCalls(Cardinality(failed))
        /\ b + 1 .. b + a \subseteq failed
        /\ c \/ (unsaved /\ 1 .. b \subseteq failed)
  BY DEF Saved
<1>2. IsFiniteSet(1 .. b + a)
  BY FS_Interval
<1>3. IsFiniteSet(failed) /\ Cardinality(failed) \in Nat
  BY <1>2, FS_Subset, FS_CardinalityType
<1>4. Cardinality(b + 1 .. b + a) = a /\ Cardinality(1 .. b + a) = a + b
  <2>1. Cardinality(b + 1 .. b + a) = IF b + 1 > b + a THEN 0 ELSE (b + a) - (b + 1) + 1
    BY FS_Interval
  <2>2. Cardinality(1 .. b + a) = IF 1 > b + a THEN 0 ELSE (b + a) - 1 + 1
    BY FS_Interval
  <2> QED
    BY <2>1, <2>2
<1>5. Cardinality(b + 1 .. b + a) <= Cardinality(failed)
  BY <1>1, <1>3, FS_Subset
<1>6. unsaved /\ 1 .. b \subseteq failed => failed = 1 .. b + a
  <2>1. \A n \in 1 .. b + a : n \in 1 .. b \/ n \in b + 1 .. b + a
    OBVIOUS
  <2> QED
    BY <1>1, <2>1
<1> QED
  BY <1>1, <1>3, <1>4, <1>5, <1>6 DEF FaultyCalls

LEMMA LibraryStep == IInv /\ IInv' /\ TypeInv /\ LibraryInv /\ [Next]_vars => LibraryInv'
<1> SUFFICES ASSUME IInv, IInv', TypeInv, LibraryInv, [Next]_vars PROVE LibraryInv'
  OBVIOUS
<1>1. faults \in Nat /\ faults' \in Nat /\ unsaved \in BOOLEAN /\ dirty \in BOOLEAN
  BY CardAssumption DEF IInv, TypeInv, LibraryTypeOK
<1>2. faults' >= faults
  BY FaultsGrow
<1>3. ASSUME UNCHANGED <<unsaved, dirty>>,
             stage' \in {"handover", "native", "off"} => stage \in {"handover", "native", "off"}
      PROVE  LibraryInv'
  BY <1>1, <1>2, <1>3 DEF LibraryInv, LibraryIsKept
<1>4. ASSUME NEW c, NEW a \in Nat, FlushAnd(c, a), unsaved'
      PROVE  faults' >= faults + a /\ (c \/ faults' >= a + 1)
  <2>1. CASE dirty
    <3>1. Saved(1, c, a)
      BY <1>4, <2>1 DEF FlushAnd
    <3> QED
      BY <1>1, <1>4, <3>1, SavesThatFailed
  <2>2. CASE ~dirty
    <3>1. Saved(0, c, a)
      BY <1>4, <2>2 DEF FlushAnd
    <3> QED
      BY <1>1, <1>4, <2>2, <3>1, SavesThatFailed DEF LibraryInv
  <2> QED
    BY <2>1, <2>2

<1>5. CASE Tidy
  <2>1. stage' = stage /\ stage = "home"
    BY <1>5 DEF Tidy, AtHome
  <2>2. unsaved' /\ ~dirty' => faults' >= 1
    <3>1. CASE Mark
      <4>1. Saved(0, TRUE, 1)
        BY <3>1 DEF Mark
      <4>2. unsaved' => faults' >= faults + 1
        BY <1>1, <4>1, SavesThatFailed
      <4> QED
        BY <1>1, <4>2
    <3>2. CASE Move
      BY <3>2 DEF Move
    <3>3. CASE FlushAnd(FALSE, 0)
      <4>1. unsaved' => FALSE \/ faults' >= 0 + 1
        BY <1>4, <3>3
      <4> QED
        BY <4>1
    <3> QED
      BY <1>5, <3>1, <3>2, <3>3 DEF Tidy
  <2> QED
    BY <2>1, <2>2 DEF LibraryInv, LibraryIsKept
<1>6. CASE LaunchNative
  <2>1. unsaved' => faults' >= 2
    <3>1. FlushAnd(TRUE, 2)
      BY <1>6 DEF LaunchNative
    <3>2. unsaved' => faults' >= faults + 2
      BY <1>4, <3>1
    <3> QED
      BY <1>1, <3>2
  <2> QED
    BY <1>1, <2>1 DEF LibraryInv, LibraryIsKept
<1>7. CASE Quit
  <2>1. unsaved' => faults' >= 2
    <3>1. FlushAnd(FALSE, 1)
      BY <1>7 DEF Quit
    <3>2. unsaved' => FALSE \/ faults' >= 1 + 1
      BY <1>4, <3>1
    <3> QED
      BY <3>2
  <2> QED
    BY <1>1, <2>1 DEF LibraryInv, LibraryIsKept
<1>8. ASSUME NEW c \in Core, LaunchGame(c) PROVE LibraryInv'
  <2>1. stage' = "game" /\ (unsaved' => faults' >= 1)
    <3>1. FlushAnd(FALSE, 0) /\ stage' = "game"
      BY <1>8 DEF LaunchGame
    <3>2. unsaved' => FALSE \/ faults' >= 0 + 1
      BY <1>4, <3>1
    <3> QED
      BY <3>1, <3>2
  <2> QED
    BY <2>1 DEF LibraryInv, LibraryIsKept
<1>9. CASE LeaveGame
  BY <1>9 DEF LeaveGame, LibraryInv, LibraryIsKept
<1>10. CASE QuitGame
  <2>1. dirty' = TRUE /\ (unsaved' => faults' >= 2)
    <3>1. Saved(0, TRUE, 2) /\ dirty' = TRUE
      BY <1>10 DEF QuitGame
    <3>2. unsaved' => faults' >= faults + 2
      BY <1>1, <3>1, SavesThatFailed
    <3> QED
      BY <1>1, <3>1, <3>2
  <2> QED
    BY <1>1, <2>1 DEF LibraryInv, LibraryIsKept
<1>11. CASE Start \/ PowerCut
  BY <1>11 DEF Start, PowerCut, LibraryInv, LibraryIsKept
<1>12. CASE Boot \/ Delete \/ HandingOver \/ Native \/ Playing
  BY <1>3, <1>12
  DEF Boot, BootMigrate, BootReceipt, BootInstall, BootDiscover, Delete, HandingOver, Native, Playing,
    libraryVars
<1>13. CASE UNCHANGED vars
  BY <1>3, <1>13 DEF vars, libraryVars
<1> QED
  BY <1>5, <1>6, <1>7, <1>8, <1>9, <1>10, <1>11, <1>12, <1>13 DEF Next

\* Whatever one save fails, library.json is up to date whenever RetroShell has
\* given the console away or ended.
THEOREM LibraryKept == Spec => []LibraryIsKept
<1>1. Init => LibraryInv
  BY DEF Init, LibraryInit, LibraryInv, LibraryIsKept
<1>2. IInv /\ IInv' /\ TypeInv /\ LibraryInv /\ [Next]_vars => LibraryInv'
  BY LibraryStep
<1>3. LibraryInv => LibraryIsKept
  BY DEF LibraryInv
<1> QED
  BY <1>1, <1>2, <1>3, Invariant, Typed, PTL DEF Spec

=============================================================================
