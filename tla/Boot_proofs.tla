------------------------------ MODULE Boot_proofs ------------------------------
(***************************************************************************)
(* Proofs about a start of RetroShell, whichever calls fail in it and       *)
(* however many: a package is used up only when all of it is in place, and  *)
(* every step brings the start nearer to Home.  The invariants here do not  *)
(* count faults; they are about the loops of fs::migrateLegacyRoot and of   *)
(* the package installer.  Types are those of Console_proofs.               *)
(***************************************************************************)
EXTENDS Console_proofs

-----------------------------------------------------------------------------
(* The package.                                                            *)

\* A file that the install is past is the new one.
PlacedInv ==
  /\ inst.phase \in Replacing =>
       \A f \in Files : Past(inst, "promote", f) => dest[f] = "new"
  /\ inst.phase \in {"clean", "consume"} => Settled("new")

LEMMA PlacedElsewhere ==
  ASSUME PlacedInv, UNCHANGED <<kind, dest>>, inst' = inst \/ inst'.phase \in {"idle", "extract"}
  PROVE  PlacedInv'
BY DEF PlacedInv, Replacing, Settled, Files, Past

LEMMA PlacedInstall ==
  ASSUME IInv, PlacedInv, InstallStep
  PROVE  PlacedInv'
<1>1. InstallTypeOK /\ inst.file \in Files /\ faults \in 0 .. MaxFaults
  BY DEF IInv
<1>2. kind' = kind /\ Files' = Files
  BY <1>1, InstallTypes DEF Files
<1>3. inst \in Locals /\ inst.file \in File /\ dest \in [File -> Content]
      /\ Files \subseteq File /\ Files \subseteq Nat
  BY <1>1, FilesInFile DEF InstallTypeOK, Locals
<1>4. CASE inst'.phase \notin Replacing \cup {"clean", "consume"}
  BY <1>4 DEF PlacedInv
<1>5. \A i, f : BeginUndo(i).phase \notin Replacing \cup {"clean", "consume"}
                \/ i \notin Locals
  BY DEF BeginUndo, Goto, Locals, Replacing
<1>6. CASE Extract
  <2>1. CASE inst' = Goto(inst, "drop", 1)
    <3>1. inst'.phase = "drop" /\ inst'.file = 1
      BY <1>3, <2>1 DEF Goto, Locals
    <3>2. \A f \in Files : ~Past(inst, "promote", f)'
      BY <1>3, <3>1, InstallAssumption DEF Past, Rank, Files, FilesOf, File
    <3> QED
      BY <1>2, <3>1, <3>2 DEF PlacedInv
  <2> QED
    BY <1>4, <1>6, <2>1 DEF Extract, Idle, Replacing
<1>7. ASSUME NEW i \in Locals, i.phase = inst.phase, i.file = inst.file, inst' = NextCall(i),
             inst.phase \in Replacing,
             \A f \in Files : f # inst.file => dest'[f] = dest[f],
             inst.phase = "promote" => dest'[inst.file] = "new",
             inst.phase = "drop" => dest' = dest
      PROVE  PlacedInv'
  <2>1. /\ inst'.phase \in Replacing \cup {"clean"}
        /\ inst'.phase \in Replacing =>
             \A p \in Replacing, f \in Files :
               Past(inst, p, f)' <=> Past(inst, p, f) \/ (p = inst.phase /\ f = inst.file)
        /\ inst'.phase = "clean" =>
             \A f \in Files : Past(inst, "promote", f) \/ f = inst.file
    BY <1>1, <1>2, <1>7, Advance
  <2>2. inst.phase # "promote" => ~Past(inst, "promote", inst.file)
    <3>1. inst.file \in Nat
      BY <1>1, <1>3
    <3>2. CASE inst.phase = "drop"
      BY <3>1, <3>2 DEF Past, Rank
    <3>3. CASE inst.phase = "aside"
      BY <3>1, <3>3 DEF Past, Rank
    <3> QED
      BY <1>7, <3>2, <3>3 DEF Replacing
  <2>3. \A f \in Files : Past(inst, "promote", f) /\ f # inst.file => dest'[f] = "new"
    BY <1>7 DEF PlacedInv
  <2>4. inst'.phase = "clean" => inst.phase = "promote"
    BY <1>3, <1>7 DEF NextCall, Goto, Locals, Replacing
  <2>5. inst'.phase \in Replacing =>
          \A f \in Files : Past(inst, "promote", f)' => dest'[f] = "new"
    BY <1>7, <2>1, <2>2, <2>3 DEF Replacing
  <2>6. inst'.phase = "clean" => \A f \in Files : dest'[f] = "new"
    BY <1>7, <2>1, <2>3, <2>4
  <2> QED
    BY <1>2, <2>1, <2>5, <2>6 DEF PlacedInv, Settled, Replacing
<1>8. CASE DropBackup
  BY <1>3, <1>7, <1>8 DEF DropBackup, Replacing
<1>9. CASE SetAside
  <2> DEFINE had == [inst EXCEPT !.hadOld = @ \cup {inst.file}]
  <2>1. had \in Locals /\ had.phase = inst.phase /\ had.file = inst.file
    BY <1>3 DEF Locals
  <2> HIDE DEF had
  <2>2. /\ inst.phase = "aside"
        /\ dest' = dest \/ dest' = [dest EXCEPT ![inst.file] = "none"]
        /\ inst' = NextCall(inst) \/ inst' = NextCall(had) \/ inst' = BeginUndo(had)
    BY <1>9 DEF SetAside, had
  <2>3. \A f \in Files : f # inst.file => dest'[f] = dest[f]
    BY <1>3, <2>2
  <2>4. inst' = BeginUndo(had) => PlacedInv'
    BY <1>4, <1>5, <2>1
  <2> QED
    BY <1>3, <1>7, <2>1, <2>2, <2>3, <2>4 DEF Replacing
<1>10. CASE Promote
  <2> DEFINE done == [inst EXCEPT !.promoted = @ \cup {inst.file}]
  <2>1. done \in Locals /\ done.phase = inst.phase /\ done.file = inst.file
    BY <1>3 DEF Locals
  <2> HIDE DEF done
  <2>2. /\ inst.phase = "promote"
        /\ \/ dest' = [dest EXCEPT ![inst.file] = "new"] /\ inst' = NextCall(done)
           \/ inst' = Goto(inst, "put_back", inst.file)
           \/ inst' = BeginUndo(inst)
    BY <1>10 DEF Promote, done
  <2>3. CASE dest' = [dest EXCEPT ![inst.file] = "new"] /\ inst' = NextCall(done)
    BY <1>3, <1>7, <2>1, <2>2, <2>3 DEF Replacing
  <2>4. CASE inst' = Goto(inst, "put_back", inst.file)
    BY <1>3, <1>4, <2>4 DEF Goto, Locals, Replacing
  <2>5. CASE inst' = BeginUndo(inst)
    BY <1>3, <1>4, <1>5, <2>5
  <2> QED
    BY <2>2, <2>3, <2>4, <2>5
<1>11. CASE PutBack
  BY <1>3, <1>4, <1>5, <1>11 DEF PutBack
<1>12. CASE Remove \/ Restore
  <2>1. inst.phase \in {"remove", "restore"} /\ inst' = NextUndo(inst)
    BY <1>12 DEF Remove, Restore
  <2>2. inst' = Idle \/ inst'.phase \in {"remove", "restore"}
    BY <1>1, <1>2, <2>1, Retreat
  <2> QED
    BY <1>4, <2>2 DEF Idle, Replacing
<1>13. CASE Clean \/ Consume
  <2>1. dest' = dest /\ inst.phase \in {"clean", "consume"}
    BY <1>13 DEF Clean, Consume
  <2>2. inst'.phase \in {"clean", "consume", "idle"}
    <3>1. \A p, f : Goto(inst, p, f).phase = p
      BY <1>3 DEF Goto, Locals
    <3> QED
      BY <1>13, <3>1 DEF Clean, Consume, Idle
  <2> QED
    BY <1>2, <2>1, <2>2 DEF PlacedInv, Settled, Replacing
<1> QED
  BY <1>6, <1>8, <1>9, <1>10, <1>11, <1>12, <1>13 DEF InstallStep

LEMMA PlacedStep == IInv /\ PlacedInv /\ [Next]_vars => PlacedInv'
<1> SUFFICES ASSUME IInv, PlacedInv, [Next]_vars
             PROVE  PlacedInv'
  OBVIOUS
<1>1. CASE BootInstall
  BY <1>1, PlacedInstall DEF BootInstall
<1>2. CASE BootReceipt \/ PowerCut
  <2>1. UNCHANGED <<kind, dest>> /\ (inst' = inst \/ inst'.phase \in {"idle", "extract"})
    BY <1>2 DEF BootReceipt, BeginInstall, PowerCut, Idle
  <2> QED
    BY <2>1, PlacedElsewhere
<1>3. CASE BootMigrate \/ BootDiscover \/ UNCHANGED vars
  BY <1>3, PlacedElsewhere DEF BootMigrate, BootDiscover, vars, installVars
<1>4. CASE Elsewhere
  BY <1>4, ElsewhereSteps, PlacedElsewhere
<1> QED
  BY <1>1, <1>2, <1>3, <1>4 DEF Next, Boot, Elsewhere

LEMMA Placed == Spec => []PlacedInv
<1>1. Init => PlacedInv
  BY DEF Init, InstallInit, Idle, PlacedInv, Replacing
<1> QED
  BY <1>1, PlacedStep, Invariant, PTL DEF Spec

\* The package that lies on the card is used up only once every file of it is
\* in place, however many calls failed and however often the power went, in
\* this start or an earlier one (core_package_installer.cpp:413-414).
THEOREM PackageKept == Spec => PackageGoesInstalled
<1>1. IInv /\ PlacedInv /\ [Next]_vars =>
        [dropped /\ ~dropped' => \A f \in FilesOf(kind) : dest[f] = "new"]_vars
  <2> SUFFICES ASSUME IInv, PlacedInv, Next, dropped, ~dropped'
               PROVE  \A f \in FilesOf(kind) : dest[f] = "new"
    BY DEF vars, installVars
  <2>1. BootInstall
    BY ElsewhereSteps
    DEF Next, Boot, Elsewhere, BootMigrate, BootReceipt, BootDiscover, PowerCut, installVars
  <2>2. Consume
    BY <2>1 DEF BootInstall, InstallStep, Extract, DropBackup, SetAside, Promote, PutBack,
      Remove, Restore, Clean
  <2> QED
    BY <2>2 DEF Consume, PlacedInv, Settled, Files
<1> QED
  BY <1>1, Placed, Invariant, PTL DEF Spec, PackageGoesInstalled

-----------------------------------------------------------------------------
(* The order of the ranks.                                                 *)

LEMMA BelowIs ==
  ASSUME NEW a1, NEW a2, NEW a3, NEW a4, NEW b1, NEW b2, NEW b3, NEW b4,
         \/ a1 \in 0 .. b1 - 1
         \/ a1 = b1 /\ a2 \in 0 .. b2 - 1
         \/ a1 = b1 /\ a2 = b2 /\ a3 \in 0 .. b3 - 1
         \/ a1 = b1 /\ a2 = b2 /\ a3 = b3 /\ a4 \in 0 .. b4 - 1
  PROVE  Below(<<a1, a2, a3, a4>>, <<b1, b2, b3, b4>>)
<1> DEFINE a == <<a1, a2, a3, a4>>
           b == <<b1, b2, b3, b4>>
<1>1. /\ a[1] = a1 /\ a[2] = a2 /\ a[3] = a3 /\ a[4] = a4
      /\ b[1] = b1 /\ b[2] = b2 /\ b[3] = b3 /\ b[4] = b4
  OBVIOUS
<1> HIDE DEF a, b
<1>2. \E i \in 1 .. 4 : a[i] \in 0 .. b[i] - 1 /\ \A j \in 1 .. i - 1 : a[j] = b[j]
  <2>1. CASE a1 \in 0 .. b1 - 1
    BY <1>1, <2>1
  <2>2. CASE a1 = b1 /\ a2 \in 0 .. b2 - 1
    BY <1>1, <2>2
  <2>3. CASE a1 = b1 /\ a2 = b2 /\ a3 \in 0 .. b3 - 1
    BY <1>1, <2>3
  <2>4. CASE a1 = b1 /\ a2 = b2 /\ a3 = b3 /\ a4 \in 0 .. b4 - 1
    BY <1>1, <2>4
  <2> QED
    BY <2>1, <2>2, <2>3, <2>4
<1> QED
  BY <1>2 DEF Below, a, b

-----------------------------------------------------------------------------
(* The migration.                                                          *)

\* The file in hand is one of those that are left to do.
HandInv == mig.phase \in {"name", "copy", "remove"} => mig.file \in mig.todo

LEMMA HandStep == MigrationInv /\ HandInv /\ [Next]_vars => HandInv'
<1> SUFFICES ASSUME MigrationInv, HandInv, [Next]_vars
             PROVE  HandInv'
  OBVIOUS
<1>1. CASE UNCHANGED mig \/ mig'.phase \in {"waiting", "merge", "done"}
  BY <1>1 DEF HandInv
<1>2. \A t : Merge(t) => mig'.phase = "merge"
  BY DEF Merge
<1>3. ASSUME mig.phase \in {"name", "copy", "remove"}, NextName
      PROVE  HandInv'
  <2>1. mig \in Moving
    BY <1>3, MovingType DEF MigrationInv
  <2> QED
    BY <1>1, <1>2, <1>3, <2>1 DEF NextName, HandInv, Moving
<1>4. CASE BootMigrate
  <2>1. CASE BeginMigration
    BY <1>1, <1>2, <2>1 DEF BeginMigration
  <2>2. CASE NextFile
    BY <1>1, <1>2, <2>2 DEF NextFile, HandInv
  <2>3. CASE TryName
    <3>1. mig \in Moving
      BY <2>3, MovingType DEF TryName, MigrationInv
    <3> QED
      BY <1>3, <2>3, <3>1 DEF TryName, HandInv, Moving
  <2>4. CASE CopyContents
    <3>1. mig \in Moving
      BY <2>4, MovingType DEF CopyContents, MigrationInv
    <3> QED
      BY <1>3, <2>4, <3>1 DEF CopyContents, HandInv, Moving
  <2>5. CASE RemoveOriginal
    BY <1>1, <1>2, <1>3, <2>5 DEF RemoveOriginal
  <2>6. CASE EndMigration
    <3>1. mig \in Listing
      BY <2>6 DEF EndMigration, MigrationInv, MigrationTypeOK, Listing
    <3> QED
      BY <1>1, <2>6, <3>1 DEF EndMigration, Listing
  <2> QED
    BY <1>4, <2>1, <2>2, <2>3, <2>4, <2>5, <2>6 DEF BootMigrate, MigrationStep
<1>5. CASE BootReceipt \/ PowerCut
  BY <1>1, <1>5 DEF BootReceipt, PowerCut, Waiting
<1>6. CASE BootInstall \/ BootDiscover \/ Tidy \/ Delete \/ LaunchNative \/ HandingOver
  BY <1>1, <1>6
  DEF BootInstall, BootDiscover, Tidy, Delete, LaunchNative, HandingOver, migrationVars
<1>7. CASE (\E c \in Core : LaunchGame(c)) \/ Quit \/ Native \/ Playing
  BY <1>1, <1>7 DEF LaunchGame, Quit, Native, Playing, migrationVars
<1>8. CASE LeaveGame \/ QuitGame \/ Start \/ UNCHANGED vars
  BY <1>1, <1>8 DEF LeaveGame, QuitGame, Start, vars, migrationVars
<1> QED
  BY <1>4, <1>5, <1>6, <1>7, <1>8 DEF Next, Boot

LEMMA InHand == Spec => []HandInv
<1>1. Init => HandInv
  BY DEF Init, MigrationInit, Waiting, HandInv
<1> QED
  BY <1>1, HandStep, MigrationInvariant, PTL DEF Spec

LEMMA OneFileLess ==
  ASSUME MigrationInv, NEW f \in mig.todo
  PROVE  Cardinality(mig.todo \ {f}) \in 0 .. Cardinality(mig.todo) - 1
<1>1. mig.todo \subseteq Legacy
  BY DEF MigrationInv, MigrationTypeOK
<1>2. IsFiniteSet(mig.todo)
  BY <1>1, MigrationAssumption, FS_Subset
<1>3. /\ IsFiniteSet(mig.todo \ {f})
      /\ Cardinality(mig.todo \ {f}) = Cardinality(mig.todo) - 1
  BY <1>2, FS_RemoveElement
<1>4. Cardinality(mig.todo) \in Nat /\ Cardinality(mig.todo \ {f}) \in Nat
  BY <1>2, <1>3, FS_CardinalityType
<1> QED
  BY <1>3, <1>4

LEMMA MigrationAdvances ==
  ASSUME MigrationInv, HandInv, MigrationStep
  PROVE  \/ MigrationPart' \in 0 .. MigrationPart - 1
         \/ /\ MigrationPart' = MigrationPart
            /\ \/ Cardinality(mig.todo)' \in 0 .. Cardinality(mig.todo) - 1
               \/ /\ Cardinality(mig.todo)' = Cardinality(mig.todo)
                  /\ MigrationCalls' \in 0 .. MigrationCalls - 1
<1>1. Spare \in Nat
  BY MigrationAssumption
<1>2. ASSUME mig.phase \in {"merge", "name", "copy", "remove"}
      PROVE  MigrationPart = 1
  BY <1>2 DEF MigrationPart
<1>3. ASSUME NEW f \in mig.todo, Merge(mig.todo \ {f}),
             mig.phase \in {"merge", "name", "copy", "remove"}
      PROVE  /\ MigrationPart' = MigrationPart
             /\ Cardinality(mig.todo)' \in 0 .. Cardinality(mig.todo) - 1
  <2>1. mig'.todo = mig.todo \ {f} /\ mig'.phase = "merge"
    BY <1>3 DEF Merge
  <2>2. MigrationPart' = 1
    BY <2>1 DEF MigrationPart
  <2> QED
    BY <1>2, <1>3, <2>1, <2>2, OneFileLess
\* The calls that are left once the name n is in hand.
<1> DEFINE Left(p, n) == 3 * (Spare - n) + (IF p = "name" THEN 3 ELSE IF p = "copy" THEN 2 ELSE 1)
<1>4. ASSUME mig.phase \in {"name", "copy", "remove"}
      PROVE  mig \in Moving /\ mig.name \in 0 .. Spare /\ mig.file \in mig.todo
             /\ MigrationCalls = Left(mig.phase, mig.name)
  <2>1. mig \in Moving
    BY <1>4, MovingType DEF MigrationInv
  <2> QED
    BY <1>4, <2>1 DEF Moving, Name, HandInv, MigrationCalls
<1>5. ASSUME mig.phase \in {"merge", "name", "copy", "remove"}, mig'.todo = mig.todo,
             NEW p \in {"name", "copy", "remove"}, NEW n \in 0 .. Spare,
             mig'.phase = p, mig'.name = n, MigrationCalls \in Nat,
             Left(p, n) < MigrationCalls
      PROVE  /\ MigrationPart' = MigrationPart
             /\ Cardinality(mig.todo)' = Cardinality(mig.todo)
             /\ MigrationCalls' \in 0 .. MigrationCalls - 1
  <2>1. MigrationPart' = 1
    BY <1>5 DEF MigrationPart
  <2>2. MigrationCalls' = Left(p, n)
    BY <1>5 DEF MigrationCalls
  <2>3. Left(p, n) \in Nat
    BY <1>1
  <2> HIDE DEF Left
  <2> QED
    BY <1>2, <1>5, <2>1, <2>2, <2>3
<1>6. ASSUME mig.phase \in {"name", "copy", "remove"}, NextName
      PROVE  /\ MigrationPart' = MigrationPart
             /\ \/ Cardinality(mig.todo)' \in 0 .. Cardinality(mig.todo) - 1
                \/ /\ Cardinality(mig.todo)' = Cardinality(mig.todo)
                   /\ MigrationCalls' \in 0 .. MigrationCalls - 1
  <2>1. CASE mig.name \in 1 .. Spare - 1
    <3>1. /\ mig'.phase = "name" /\ mig'.name = mig.name + 1 /\ mig'.todo = mig.todo
      BY <1>4, <1>6, <2>1 DEF NextName, Moving
    <3>2. mig.name + 1 \in 0 .. Spare /\ MigrationCalls = Left(mig.phase, mig.name)
      BY <1>1, <1>4, <1>6, <2>1
    <3>3. Left(mig.phase, mig.name) \in Nat
          /\ Left("name", mig.name + 1) < Left(mig.phase, mig.name)
      BY <1>1, <1>6, <2>1
    <3> HIDE DEF Left
    <3> QED
      BY <1>5, <1>6, <3>1, <3>2, <3>3
  <2>2. CASE mig.name \notin 1 .. Spare - 1
    BY <1>3, <1>4, <1>6, <2>2 DEF NextName
  <2> QED
    BY <2>1, <2>2
<1>7. CASE BeginMigration
  BY <1>7 DEF BeginMigration, Merge, MigrationPart
<1>8. CASE NextFile
  <2>1. PICK f \in mig.todo :
           mig' = [phase |-> "name", todo |-> mig.todo, file |-> f, name |-> 0]
           \/ Merge(mig.todo \ {f})
    BY <1>8 DEF NextFile
  <2>2. mig.phase = "merge" /\ MigrationCalls = 3 * Spare + 4
    BY <1>8 DEF NextFile, MigrationCalls
  <2>3. CASE mig' = [phase |-> "name", todo |-> mig.todo, file |-> f, name |-> 0]
    <3>1. MigrationCalls \in Nat /\ 0 \in 0 .. Spare /\ Left("name", 0) < MigrationCalls
      BY <1>1, <2>2
    <3>2. mig'.phase = "name" /\ mig'.name = 0 /\ mig'.todo = mig.todo
      BY <2>3
    <3> HIDE DEF Left
    <3> QED
      BY <1>5, <2>2, <3>1, <3>2
  <2> QED
    BY <1>3, <2>1, <2>2, <2>3
<1>9. CASE TryName
  <2>1. mig.phase = "name"
    BY <1>9 DEF TryName
  <2>2. CASE Spare > 0 /\ mig.name = 0 /\ mig' = [mig EXCEPT !.name = 1]
    <3>1. mig'.phase = "name" /\ mig'.name = 1 /\ mig'.todo = mig.todo
      BY <1>4, <2>1, <2>2 DEF Moving
    <3>2. /\ MigrationCalls = Left("name", 0) /\ Left("name", 0) \in Nat
          /\ 1 \in 0 .. Spare /\ Left("name", 1) < Left("name", 0)
      BY <1>1, <1>4, <2>1, <2>2
    <3> HIDE DEF Left
    <3> QED
      BY <1>5, <2>1, <3>1, <3>2
  <2>3. CASE mig' = [mig EXCEPT !.phase = "copy"]
    <3>1. mig'.phase = "copy" /\ mig'.name = mig.name /\ mig'.todo = mig.todo
      BY <1>4, <2>1, <2>3 DEF Moving
    <3>2. /\ MigrationCalls = Left("name", mig.name) /\ Left("name", mig.name) \in Nat
          /\ mig.name \in 0 .. Spare /\ Left("copy", mig.name) < Left("name", mig.name)
      BY <1>1, <1>4, <2>1
    <3> HIDE DEF Left
    <3> QED
      BY <1>5, <2>1, <3>1, <3>2
  <2> QED
    BY <1>6, <1>9, <2>1, <2>2, <2>3 DEF TryName
<1>10. CASE CopyContents
  <2>1. mig.phase = "copy"
    BY <1>10 DEF CopyContents
  <2>2. CASE mig' = [mig EXCEPT !.phase = "remove"]
    <3>1. mig'.phase = "remove" /\ mig'.name = mig.name /\ mig'.todo = mig.todo
      BY <1>4, <2>1, <2>2 DEF Moving
    <3>2. /\ MigrationCalls = Left("copy", mig.name) /\ Left("copy", mig.name) \in Nat
          /\ mig.name \in 0 .. Spare /\ Left("remove", mig.name) < Left("copy", mig.name)
      BY <1>1, <1>4, <2>1
    <3> HIDE DEF Left
    <3> QED
      BY <1>5, <2>1, <3>1, <3>2
  <2> QED
    BY <1>6, <1>10, <2>1, <2>2 DEF CopyContents
<1>11. CASE RemoveOriginal
  <2>1. mig.phase = "remove" /\ (NextName \/ Merge(mig.todo \ {mig.file}))
    BY <1>11 DEF RemoveOriginal
  <2> QED
    BY <1>3, <1>4, <1>6, <2>1
<1>12. CASE EndMigration
  <2>1. mig \in Listing /\ mig.phase = "merge"
    BY <1>12 DEF EndMigration, MigrationInv, MigrationTypeOK, Listing
  <2>2. mig'.phase = "done"
    BY <1>12, <2>1 DEF EndMigration, Listing
  <2> QED
    BY <2>1, <2>2 DEF MigrationPart
<1> QED
  BY <1>7, <1>8, <1>9, <1>10, <1>11, <1>12 DEF MigrationStep

-----------------------------------------------------------------------------
(* The installer.                                                          *)

\* InstallPart and InstallCalls as functions of the locals.
PartOf(p) ==
  CASE p = "extract" -> 6 [] p \in Replacing -> 5 [] p = "put_back" -> 4
    [] p \in {"remove", "restore"} -> 3 [] p = "clean" -> 2 [] p = "consume" -> 1
    [] OTHER -> 0
CallsOf(p, f) ==
  LET turn == CASE p = "drop" -> 3 [] p \in {"aside", "remove"} -> 2
                [] p \in {"promote", "restore"} -> 1 [] OTHER -> 0
  IN  IF p = "clean" THEN Manifest - f
      ELSE IF kind = "pair" THEN 4 * turn + 2 - f
      ELSE IF p \in {"remove", "restore"} THEN 4 * f + turn
      ELSE 4 * (NumNative - f) + turn

LEMMA InstallRank ==
  /\ InstallPart = PartOf(inst.phase)
  /\ InstallCalls = CallsOf(inst.phase, inst.file)
  /\ InstallPart' = PartOf(inst'.phase)
  /\ kind' = kind => InstallCalls' = CallsOf(inst'.phase, inst'.file)
<1>1. InstallPart = PartOf(inst.phase)
  BY DEF InstallPart, PartOf, Replacing
<1>2. InstallPart' = PartOf(inst'.phase)
  BY DEF InstallPart, PartOf, Replacing
<1>3. InstallCalls = CallsOf(inst.phase, inst.file)
  BY DEF InstallCalls, InstallTurn, CallsOf
<1>4. ASSUME kind' = kind
      PROVE  InstallCalls' = CallsOf(inst'.phase, inst'.file)
  BY <1>4 DEF InstallCalls, InstallTurn, CallsOf, Manifest
<1> QED
  BY <1>1, <1>2, <1>3, <1>4

\* Nearer(p, f, q, g): the call q on the file g is nearer to the end than p on f.
Nearer(p, f, q, g) ==
  \/ PartOf(q) \in 0 .. PartOf(p) - 1
  \/ PartOf(q) = PartOf(p) /\ CallsOf(q, g) \in 0 .. CallsOf(p, f) - 1

\* The calls of an install, file by file or call by call.
LEMMA CallsAdvance ==
  ASSUME InstallTypeOK, NEW i \in Locals, i.file \in Files, i.phase \in Replacing
  PROVE  Nearer(i.phase, i.file, NextCall(i).phase, NextCall(i).file)
<1>1. i.file \in Nat /\ i.file \in File /\ NumNative \in Nat
  BY FilesInFile, InstallAssumption
<1>2. \A p, f : Goto(i, p, f).phase = p /\ Goto(i, p, f).file = f
  BY DEF Goto, Locals
<1>3. CASE kind = "pair"
  <2>1. i.file = 1 \/ i.file = 2
    BY <1>1, <1>3 DEF Files, FilesOf
  <2>2. CASE i.file = 1
    <3>1. NextCall(i).phase = i.phase /\ NextCall(i).file = 2
      BY <1>2, <1>3, <2>2 DEF NextCall
    <3>2. CallsOf(i.phase, 2) \in 0 .. CallsOf(i.phase, 1) - 1
      BY <1>3 DEF CallsOf, Replacing
    <3> QED
      BY <2>2, <3>1, <3>2 DEF Nearer
  <2>3. CASE i.file = 2
    <3>1. CASE i.phase = "drop"
      <4>1. NextCall(i).phase = "aside" /\ NextCall(i).file = 1
        BY <1>2, <1>3, <2>3, <3>1 DEF NextCall
      <4> QED
        BY <1>3, <2>3, <3>1, <4>1 DEF Nearer, PartOf, CallsOf, Replacing
    <3>2. CASE i.phase = "aside"
      <4>1. NextCall(i).phase = "promote" /\ NextCall(i).file = 1
        BY <1>2, <1>3, <2>3, <3>2 DEF NextCall
      <4> QED
        BY <1>3, <2>3, <3>2, <4>1 DEF Nearer, PartOf, CallsOf, Replacing
    <3>3. CASE i.phase = "promote"
      <4>1. NextCall(i).phase = "clean"
        BY <1>2, <1>3, <2>3, <3>3 DEF NextCall
      <4> QED
        BY <3>3, <4>1 DEF Nearer, PartOf, Replacing
    <3> QED
      BY <3>1, <3>2, <3>3 DEF Replacing
  <2> QED
    BY <2>1, <2>2, <2>3
<1>4. CASE kind # "pair"
  <2>1. i.file \in 1 .. NumNative
    BY <1>1 DEF File
  <2>2. CASE i.phase = "drop"
    <3>1. NextCall(i).phase = "aside" /\ NextCall(i).file = i.file
      BY <1>2, <1>4, <2>2 DEF NextCall
    <3>2. CallsOf("aside", i.file) = 4 * (NumNative - i.file) + 2
      BY <1>4 DEF CallsOf
    <3>3. CallsOf("drop", i.file) = 4 * (NumNative - i.file) + 3
      BY <1>4 DEF CallsOf
    <3> QED
      BY <1>1, <2>1, <2>2, <3>1, <3>2, <3>3 DEF Nearer, PartOf, Replacing
  <2>3. CASE i.phase = "aside"
    <3>1. NextCall(i).phase = "promote" /\ NextCall(i).file = i.file
      BY <1>2, <1>4, <2>3 DEF NextCall
    <3>2. CallsOf("promote", i.file) = 4 * (NumNative - i.file) + 1
      BY <1>4 DEF CallsOf
    <3>3. CallsOf("aside", i.file) = 4 * (NumNative - i.file) + 2
      BY <1>4 DEF CallsOf
    <3> QED
      BY <1>1, <2>1, <2>3, <3>1, <3>2, <3>3 DEF Nearer, PartOf, Replacing
  <2>4. CASE i.phase = "promote" /\ i.file < NumNative
    <3>1. NextCall(i).phase = "drop" /\ NextCall(i).file = i.file + 1
      BY <1>2, <1>4, <2>4 DEF NextCall
    <3>2. CallsOf("promote", i.file) = 4 * (NumNative - i.file) + 1
      BY <1>4 DEF CallsOf
    <3>3. CallsOf("drop", i.file + 1) = 4 * (NumNative - (i.file + 1)) + 3
      BY <1>4 DEF CallsOf
    <3> QED
      BY <1>1, <2>1, <2>4, <3>1, <3>2, <3>3 DEF Nearer, PartOf, Replacing
  <2>5. CASE i.phase = "promote" /\ ~(i.file < NumNative)
    <3>1. NextCall(i).phase = "clean"
      BY <1>2, <1>4, <2>5 DEF NextCall
    <3> QED
      BY <2>5, <3>1 DEF Nearer, PartOf, Replacing
  <2> QED
    BY <2>2, <2>3, <2>4, <2>5 DEF Replacing
<1> QED
  BY <1>3, <1>4

\* The calls of an undo.
LEMMA UndoAdvances ==
  ASSUME InstallTypeOK, inst.file \in Files, inst.phase \in {"remove", "restore"}
  PROVE  Nearer(inst.phase, inst.file, NextUndo(inst).phase, NextUndo(inst).file)
<1>1. inst \in Locals /\ inst.file \in Nat /\ inst.file \in File /\ NumNative \in Nat
  BY FilesInFile, InstallAssumption DEF InstallTypeOK, Locals
<1>2. \A p, f : Goto(inst, p, f).phase = p /\ Goto(inst, p, f).file = f
  BY <1>1 DEF Goto, Locals
<1>3. ASSUME NextUndo(inst) = Idle
      PROVE  Nearer(inst.phase, inst.file, NextUndo(inst).phase, NextUndo(inst).file)
  BY <1>3 DEF Nearer, PartOf, Idle, Replacing
<1>4. CASE kind = "pair"
  <2>1. inst.file = 1 \/ inst.file = 2
    BY <1>1, <1>4 DEF Files, FilesOf
  <2>2. CASE inst.file = 1
    <3>1. NextUndo(inst).phase = inst.phase /\ NextUndo(inst).file = 2
      BY <1>2, <1>4, <2>2 DEF NextUndo
    <3>2. CallsOf(inst.phase, 2) \in 0 .. CallsOf(inst.phase, 1) - 1
      BY <1>4 DEF CallsOf
    <3> QED
      BY <2>2, <3>1, <3>2 DEF Nearer
  <2>3. CASE inst.file = 2 /\ inst.phase = "remove"
    <3>1. NextUndo(inst).phase = "restore" /\ NextUndo(inst).file = 1
      BY <1>2, <1>4, <2>3 DEF NextUndo
    <3> QED
      BY <1>4, <2>3, <3>1 DEF Nearer, PartOf, CallsOf, Replacing
  <2>4. CASE inst.file = 2 /\ inst.phase # "remove"
    BY <1>3, <1>4, <2>4 DEF NextUndo
  <2> QED
    BY <2>1, <2>2, <2>3, <2>4
<1>5. CASE kind # "pair"
  <2>1. inst.file \in 1 .. NumNative
    BY <1>1 DEF File
  <2>2. \A f : /\ CallsOf("remove", f) = 4 * f + 2
               /\ CallsOf("restore", f) = 4 * f + 1
    BY <1>5 DEF CallsOf
  <2>3. PartOf("remove") = 3 /\ PartOf("restore") = 3
    BY DEF PartOf, Replacing
  <2>4. CASE inst.phase = "remove"
    <3>1. NextUndo(inst).phase = "restore" /\ NextUndo(inst).file = inst.file
      BY <1>2, <1>5, <2>4 DEF NextUndo
    <3> QED
      BY <1>1, <2>1, <2>2, <2>3, <2>4, <3>1 DEF Nearer
  <2>5. CASE inst.phase = "restore" /\ inst.file > 1
    <3>1. NextUndo(inst).phase = "remove" /\ NextUndo(inst).file = inst.file - 1
      BY <1>2, <1>5, <2>5 DEF NextUndo
    <3>2. CallsOf("remove", inst.file - 1) \in 0 .. CallsOf("restore", inst.file) - 1
      BY <1>1, <2>1, <2>2, <2>5
    <3> QED
      BY <2>3, <2>5, <3>1, <3>2 DEF Nearer
  <2>6. CASE inst.phase = "restore" /\ ~(inst.file > 1)
    BY <1>3, <1>5, <2>6 DEF NextUndo
  <2> QED
    BY <2>4, <2>5, <2>6
<1> QED
  BY <1>4, <1>5

LEMMA InstallAdvances ==
  ASSUME InstallTypeOK, inst.file \in Files, faults \in 0 .. MaxFaults, InstallStep
  PROVE  \/ InstallPart' \in 0 .. InstallPart - 1
         \/ InstallPart' = InstallPart /\ InstallCalls' \in 0 .. InstallCalls - 1
<1>1. kind' = kind
  BY InstallTypes
<1>2. SUFFICES Nearer(inst.phase, inst.file, inst'.phase, inst'.file)
  BY <1>1, <1>2, InstallRank DEF Nearer
<1>3. inst \in Locals /\ inst.file \in File /\ inst.file \in Nat /\ NumNative \in Nat
  BY FilesInFile, InstallAssumption DEF InstallTypeOK, Locals
<1>4. \A i, p, f : i \in Locals => Goto(i, p, f).phase = p /\ Goto(i, p, f).file = f
  BY DEF Goto, Locals
<1>5. ASSUME NEW i \in Locals, i.phase = inst.phase, i.file = inst.file, inst' = NextCall(i),
             inst.phase \in Replacing
      PROVE  Nearer(inst.phase, inst.file, inst'.phase, inst'.file)
  BY <1>5, CallsAdvance
<1>6. ASSUME NEW i \in Locals, inst' = BeginUndo(i), inst.phase \in Replacing \cup {"put_back"}
      PROVE  Nearer(inst.phase, inst.file, inst'.phase, inst'.file)
  <2>1. inst'.phase = "remove"
    BY <1>4, <1>6 DEF BeginUndo
  <2> QED
    BY <1>6, <2>1 DEF Nearer, PartOf, Replacing
<1>7. CASE Extract
  <2>1. inst.phase = "extract" /\ inst'.phase \in {"drop", "idle"}
    BY <1>3, <1>4, <1>7 DEF Extract, Idle
  <2> QED
    BY <2>1 DEF Nearer, PartOf, Replacing
<1>8. CASE DropBackup
  BY <1>3, <1>5, <1>8 DEF DropBackup, Replacing
<1>9. CASE SetAside
  <2> DEFINE had == [inst EXCEPT !.hadOld = @ \cup {inst.file}]
  <2>1. had \in Locals /\ had.phase = inst.phase /\ had.file = inst.file
    BY <1>3 DEF Locals
  <2>2. inst' = NextCall(inst) \/ inst' = NextCall(had) \/ inst' = BeginUndo(had)
    BY <1>9 DEF SetAside
  <2>3. inst.phase \in Replacing
    BY <1>9 DEF SetAside, Replacing
  <2> HIDE DEF had
  <2> QED
    BY <1>3, <1>5, <1>6, <2>1, <2>2, <2>3
<1>10. CASE Promote
  <2> DEFINE done == [inst EXCEPT !.promoted = @ \cup {inst.file}]
  <2>1. done \in Locals /\ done.phase = inst.phase /\ done.file = inst.file
    BY <1>3 DEF Locals
  <2>2. inst' = NextCall(done) \/ inst' = Goto(inst, "put_back", inst.file)
        \/ inst' = BeginUndo(inst)
    BY <1>10 DEF Promote
  <2>3. inst.phase = "promote" /\ inst.phase \in Replacing
    BY <1>10 DEF Promote, Replacing
  <2> HIDE DEF done
  <2>4. CASE inst' = Goto(inst, "put_back", inst.file)
    <3>1. inst'.phase = "put_back"
      BY <1>3, <1>4, <2>4
    <3> QED
      BY <2>3, <3>1 DEF Nearer, PartOf, Replacing
  <2> QED
    BY <1>3, <1>5, <1>6, <2>1, <2>2, <2>3, <2>4
<1>11. CASE PutBack
  BY <1>3, <1>6, <1>11 DEF PutBack
<1>12. CASE Remove \/ Restore
  BY <1>12, UndoAdvances DEF Remove, Restore
<1>13. CASE Clean
  <2>1. inst.phase = "clean"
    BY <1>13 DEF Clean
  <2>2. CASE inst.file = Manifest
    <3>1. inst'.phase = "consume"
      BY <1>3, <1>4, <1>13, <2>2 DEF Clean
    <3> QED
      BY <2>1, <3>1 DEF Nearer, PartOf, Replacing
  <2>3. CASE inst.file # Manifest
    <3>1. inst'.phase = "clean" /\ inst'.file = inst.file + 1
      BY <1>3, <1>4, <1>13, <2>3 DEF Clean
    <3>2. Manifest \in Nat /\ inst.file \in 1 .. Manifest
      BY InstallAssumption DEF InstallTypeOK, Manifest, Files, FilesOf, File
    <3>3. Manifest - (inst.file + 1) \in 0 .. Manifest - inst.file - 1
      BY <2>3, <3>2
    <3> QED
      BY <2>1, <3>1, <3>3 DEF Nearer, CallsOf
  <2> QED
    BY <2>2, <2>3
<1>14. CASE Consume
  BY <1>14 DEF Consume, Idle, Nearer, PartOf, Replacing
<1> QED
  BY <1>7, <1>8, <1>9, <1>10, <1>11, <1>12, <1>13, <1>14 DEF InstallStep

-----------------------------------------------------------------------------
(* A start.                                                                *)

\* A start is over after a number of calls that the files of the older release,
\* the names there are for one and the files of the package bound, whichever
\* calls fail; only the power can set it back (fs_psp.cpp:157-177,
\* core_package_installer.cpp:367-396).
THEOREM BootBounded == Spec => BootAdvances
<1>1. IInv /\ MigrationInv /\ HandInv /\ [Next]_vars =>
        [Starting => Below(BootRank', BootRank) \/ PowerCut]_vars
  <2> SUFFICES ASSUME IInv, MigrationInv, HandInv, Next, Starting, ~PowerCut
               PROVE  Below(BootRank', BootRank)
    OBVIOUS
  <2>1. stage \in {"receipt", "install"}
    BY DEF Starting
  <2>2. ~Elsewhere
    BY <2>1, ElsewhereSteps
  <2>3. CASE BootMigrate
    <3>1. stage = "receipt" /\ stage' = "receipt"
      BY <2>3 DEF BootMigrate
    <3>2. BootRank = <<2, MigrationPart, Cardinality(mig.todo), MigrationCalls>>
      BY <3>1 DEF BootRank
    <3>3. BootRank' = <<2, MigrationPart', Cardinality(mig.todo)', MigrationCalls'>>
      BY <3>1 DEF BootRank
    <3> QED
      BY <2>3, <3>2, <3>3, MigrationAdvances, BelowIs DEF BootMigrate
  <2>4. CASE BootReceipt
    <3>1. BootRank = <<2, MigrationPart, Cardinality(mig.todo), MigrationCalls>>
      BY <2>4 DEF BootReceipt, BootRank
    <3>2. BootRank' = <<1, InstallPart', 0, InstallCalls'>>
      BY <2>4 DEF BootReceipt, BootRank
    <3>3. 1 \in 0 .. 2 - 1
      OBVIOUS
    <3> QED
      BY <3>1, <3>2, <3>3, BelowIs
  <2>5. CASE BootInstall
    <3>1. stage = "install" /\ stage' = "install"
      BY <2>5 DEF BootInstall
    <3>2. BootRank = <<1, InstallPart, 0, InstallCalls>>
      BY <3>1 DEF BootRank
    <3>3. BootRank' = <<1, InstallPart', 0, InstallCalls'>>
      BY <3>1 DEF BootRank
    <3> QED
      BY <2>5, <3>2, <3>3, InstallAdvances, BelowIs DEF BootInstall, IInv
  <2>6. CASE BootDiscover
    <3>1. BootRank = <<1, InstallPart, 0, InstallCalls>>
      BY <2>6 DEF BootDiscover, BootRank
    <3>2. BootRank' = <<0, 0, 0, 0>>
      BY <2>6 DEF BootDiscover, BootRank
    <3>3. 0 \in 0 .. 1 - 1
      OBVIOUS
    <3> QED
      BY <3>1, <3>2, <3>3, BelowIs
  <2> QED
    BY <2>2, <2>3, <2>4, <2>5, <2>6 DEF Next, Boot, Elsewhere
<1> QED
  BY <1>1, InHand, MigrationInvariant, Invariant, PTL DEF Spec, BootAdvances

=============================================================================
