------------------------- MODULE PackageInstall_proofs -------------------------
(***************************************************************************)
(* A package's files are found together: Console implements PackageSet for *)
(* any number of files and faults.  Up to one fault the argument runs      *)
(* along two descriptions of an install under way.  `Normal`: every file   *)
(* is as the calls before left it, so all of it can be undone.  `Clear`:   *)
(* nothing lies in the way of the next call, so it goes through.  Without  *)
(* a fault both hold; one fault leaves one of them.                        *)
(***************************************************************************)
EXTENDS Console, FiniteSetTheorems, TLAPS

Files == FilesOf(kind)
Settled(c) == \A f \in Files : dest[f] = c

Replacing == {"drop", "aside", "promote"}
Undoing == {"put_back", "remove", "restore"}
Rank(p) == CASE p = "drop" -> 1 [] p = "aside" -> 2 [] p = "promote" -> 3 [] OTHER -> 4

\* The call p on file f has been made.
Past(i, p, f) ==
  IF kind = "pair" THEN Rank(p) < Rank(i.phase) \/ (p = i.phase /\ f < i.file)
  ELSE f < i.file \/ (f = i.file /\ Rank(p) < Rank(i.phase))

\* The file is what it was, set aside, or replaced, and can be put back.
Held(f) == found # "none" /\ f \in inst.hadOld
Untouched(f) == dest[f] = found /\ (Held(f) \/ f \notin inst.hadOld)
Lifted(f) == dest[f] = "none" /\ bak[f] = found /\ Held(f)
Replaced(f) ==
  /\ dest[f] = "new" /\ f \in inst.promoted
  /\ IF f \in inst.hadOld THEN bak[f] = found /\ found # "none" ELSE found = "none"

Normal ==
  \A f \in Files :
    IF Past(inst, "promote", f) THEN Replaced(f)
    ELSE /\ f \notin inst.promoted
         /\ Untouched(f) \/ (Past(inst, "aside", f) /\ Lifted(f))
         /\ ~Past(inst, "aside", f) => f \notin inst.hadOld

Clear ==
  \A f \in Files :
    /\ Past(inst, "drop", f) /\ ~Past(inst, "aside", f) => bak[f] = "none"
    /\ Past(inst, "aside", f) /\ ~Past(inst, "promote", f) => dest[f] = "none"
    /\ Past(inst, "promote", f) => dest[f] = "new"

\* Undoing: what was promoted is removed, then what was set aside goes back.
Removed(f) ==
  /\ inst.phase # "put_back"
  /\ IF kind = "pair" THEN inst.phase = "restore" \/ f < inst.file
     ELSE f > inst.file \/ (f = inst.file /\ inst.phase = "restore")
BackInPlace(f) ==
  /\ inst.phase # "put_back"
  /\ IF kind = "pair" THEN inst.phase = "restore" /\ f < inst.file ELSE f > inst.file
Undoable ==
  \A f \in Files :
    \/ Untouched(f) /\ (Removed(f) \/ f \notin inst.promoted)
    \/ Lifted(f) /\ ~BackInPlace(f) /\ (Removed(f) \/ f \notin inst.promoted)
    \/ Replaced(f) /\ ~Removed(f)

\* Where an install stands, up to one fault.
Standing ==
  /\ stage # "install" =>
       inst.phase = "idle" /\ (Settled(found) \/ (stage = "receipt" /\ faults = 1))
  /\ stage = "install" /\ inst.phase = "idle" => Settled(found) \/ Settled("new")
  /\ inst.phase = "extract" => faults = 1 \/ Settled(found)
  /\ inst.phase \in {"idle", "extract"} => inst.hadOld = {} /\ inst.promoted = {}
  /\ inst.phase \in Replacing =>
       IF faults = 0 THEN Normal /\ Clear ELSE Normal \/ Clear
  /\ inst.phase \in Undoing => faults = 1 /\ Undoable
  /\ inst.phase \in {"clean", "consume"} => Settled("new")
  /\ IF dropped THEN TRUE ELSE inst.phase = "idle" /\ Settled("new")

IInv ==
  /\ InstallTypeOK /\ faults \in 0 .. MaxFaults
  /\ inst.file \in Files
  /\ session # "none" => stage \in {"handover", "native"}
  /\ faults <= 1 => Standing

-----------------------------------------------------------------------------
(* The order of the calls.                                                 *)

Locals == [phase : Phase, file : File, hadOld : SUBSET File, promoted : SUBSET File]
Kept(i, n) == n.hadOld = i.hadOld /\ n.promoted = i.promoted

LEMMA FilesInFile == InstallTypeOK => Files \subseteq File /\ File \subseteq Nat /\ Manifest \in Files
BY InstallAssumption DEF InstallTypeOK, Files, FilesOf, File, Manifest

LEMMA GotoType ==
  ASSUME NEW i \in Locals, NEW p \in Phase, NEW f \in File
  PROVE  Goto(i, p, f) \in Locals /\ Goto(i, p, f).phase = p /\ Goto(i, p, f).file = f
         /\ Kept(i, Goto(i, p, f))
BY DEF Goto, Locals, Kept

LEMMA NextCallType ==
  ASSUME InstallTypeOK, NEW i \in Locals, i.file \in Files, i.phase \in Replacing
  PROVE  LET n == NextCall(i)
         IN n \in Locals /\ n.file \in Files /\ Kept(i, n) /\ n.phase \in Replacing \cup {"clean"}
<1> DEFINE onward == CASE i.phase = "drop" -> "aside" [] i.phase = "aside" -> "promote"
                       [] OTHER -> "clean"
<1>1. onward \in Replacing \cup {"clean"} /\ onward \in Phase
  BY DEF Replacing, Phase
<1>2. i.phase \in Phase /\ Replacing \subseteq Phase /\ "clean" \in Phase
  BY DEF Replacing, Phase
<1>3. i.file \in Nat /\ 1 \in File /\ 2 \in File /\ 1 \in Files /\ i.file \in File
  BY InstallAssumption, FilesInFile DEF File, Files, FilesOf
<1>4. CASE kind = "pair"
  <2>1. NextCall(i) = IF i.file = 1 THEN Goto(i, i.phase, 2) ELSE Goto(i, onward, 1)
    BY <1>4 DEF NextCall
  <2>2. 2 \in Files
    BY <1>4 DEF Files, FilesOf
  <2> HIDE DEF onward
  <2>3. CASE i.file = 1
    BY <2>1, <2>2, <2>3, <1>2, <1>3, GotoType
  <2>4. CASE i.file # 1
    BY <2>1, <2>4, <1>1, <1>3, GotoType
  <2> QED
    BY <2>3, <2>4
<1>5. CASE kind # "pair"
  <2>1. NextCall(i) = IF i.phase # "promote" THEN Goto(i, onward, i.file)
                      ELSE IF i.file < NumNative THEN Goto(i, "drop", i.file + 1)
                      ELSE Goto(i, "clean", 1)
    BY <1>5 DEF NextCall
  <2>2. Files = File
    BY <1>5 DEF Files, FilesOf, InstallTypeOK
  <2>3. i.file < NumNative => i.file + 1 \in File
    BY <1>3, InstallAssumption DEF File
  <2>4. "drop" \in Replacing
    BY DEF Replacing
  <2> HIDE DEF onward
  <2>5. CASE i.phase # "promote"
    BY <2>1, <2>5, <1>1, <1>3, GotoType
  <2>6. CASE i.phase = "promote" /\ i.file < NumNative
    <3>1. NextCall(i) = Goto(i, "drop", i.file + 1)
      BY <2>1, <2>6
    <3>2. i.file + 1 \in File /\ "drop" \in Phase
      BY <2>3, <2>4, <2>6, <1>2
    <3> QED
      BY <3>1, <3>2, <2>2, <2>4, GotoType
  <2>7. CASE i.phase = "promote" /\ ~(i.file < NumNative)
    <3>1. NextCall(i) = Goto(i, "clean", 1)
      BY <2>1, <2>7
    <3>2. Goto(i, "clean", 1) \in Locals /\ Goto(i, "clean", 1).phase = "clean"
          /\ Goto(i, "clean", 1).file = 1 /\ Kept(i, Goto(i, "clean", 1))
      BY <1>2, <1>3, GotoType
    <3> QED
      BY <3>1, <3>2, <1>3
  <2> QED
    BY <2>5, <2>6, <2>7
<1> QED
  BY <1>4, <1>5

\* After a call exactly that call is past; after the last one all are.
LEMMA NextCallPast ==
  ASSUME InstallTypeOK, NEW i \in Locals, i.file \in Files, i.phase \in Replacing,
         NEW p \in Replacing, NEW f \in Files
  PROVE  LET n == NextCall(i)
         IN /\ n.phase \in Replacing =>
                 (Past(n, p, f) <=> Past(i, p, f) \/ (p = i.phase /\ f = i.file))
            /\ n.phase = "clean" => Past(i, p, f) \/ (p = i.phase /\ f = i.file)
<1>1. i.file \in Nat /\ f \in Nat /\ f \in File /\ i.file \in File
  BY FilesInFile
<1>2. CASE kind = "pair"
  <2>1. f \in 1 .. 2 /\ i.file \in 1 .. 2
    BY <1>2 DEF Files, FilesOf
  <2> QED
    BY <1>2, <2>1 DEF NextCall, Past, Rank, Replacing, Goto, Locals
<1>3. CASE kind # "pair"
  BY <1>1, <1>3, InstallAssumption DEF NextCall, Past, Rank, Replacing, Goto, Locals, File
<1> QED
  BY <1>2, <1>3

\* What a step of the installer to the next call does to the calls past.
LEMMA Advance ==
  ASSUME InstallTypeOK, inst.file \in Files, inst.phase \in Replacing, kind' = kind,
         NEW i \in Locals, i.phase = inst.phase, i.file = inst.file, inst' = NextCall(i)
  PROVE  /\ inst' \in Locals /\ inst'.file \in Files /\ Kept(i, inst')
         /\ inst'.phase \in Replacing \cup {"clean"}
         /\ inst'.phase \in Replacing =>
              \A p \in Replacing, f \in Files :
                Past(inst, p, f)' <=> Past(inst, p, f) \/ (p = inst.phase /\ f = inst.file)
         /\ inst'.phase = "clean" =>
              \A f \in Files : Past(inst, "promote", f) \/ f = inst.file
<1>1. inst' \in Locals /\ inst'.file \in Files /\ Kept(i, inst')
      /\ inst'.phase \in Replacing \cup {"clean"}
  BY NextCallType
<1>2. \A p \in Replacing, f \in Files : Past(i, p, f) <=> Past(inst, p, f)
  BY DEF Past
<1>3. \A p \in Replacing, f \in Files : Past(inst, p, f)' <=> Past(NextCall(i), p, f)
  BY DEF Past
<1>4. "promote" \in Replacing
  BY DEF Replacing
<1>5. inst'.phase \in Replacing =>
        \A p \in Replacing, f \in Files :
          Past(inst, p, f)' <=> Past(inst, p, f) \/ (p = inst.phase /\ f = inst.file)
  BY <1>2, <1>3, NextCallPast
<1>6. inst'.phase = "clean" => \A f \in Files : Past(inst, "promote", f) \/ f = inst.file
  BY <1>2, <1>4, NextCallPast
<1> QED
  BY <1>1, <1>5, <1>6

\* The calls of an undo, in its order.
LEMMA Retreat ==
  ASSUME InstallTypeOK, inst.file \in Files, inst.phase \in {"remove", "restore"},
         kind' = kind, inst' = NextUndo(inst), NEW f \in Files
  PROVE  /\ inst' \in Locals /\ inst'.file \in Files
         /\ inst' = Idle \/ (inst'.phase \in {"remove", "restore"} /\ Kept(inst, inst'))
         /\ inst'.phase # "idle" =>
              /\ Removed(f)' <=> Removed(f) \/ (inst.phase = "remove" /\ f = inst.file)
              /\ BackInPlace(f)' <=>
                   BackInPlace(f) \/ (inst.phase = "restore" /\ f = inst.file)
         /\ inst'.phase = "idle" =>
              inst.phase = "restore" /\ (BackInPlace(f) \/ f = inst.file)
         /\ inst.phase = "restore" /\ (BackInPlace(f) \/ f = inst.file) => Removed(f)
<1>1. inst.file \in Nat /\ f \in Nat /\ f \in File /\ inst.file \in File
  BY FilesInFile
<1>2. /\ inst \in Locals /\ 1 \in File /\ 2 \in File
      /\ "remove" \in Phase /\ "restore" \in Phase /\ "idle" \in Phase /\ inst.phase \in Phase
  BY InstallAssumption DEF Phase, Locals, InstallTypeOK, File
<1>3. Idle \in Locals /\ Idle.phase = "idle" /\ Idle.file = 1
  BY <1>2 DEF Idle, Locals
<1>4. 1 \in Files
  BY InstallAssumption DEF Files, FilesOf, File
<1> USE DEF NextUndo, Removed, BackInPlace
<1>5. CASE kind = "pair"
  <2>1. f \in 1 .. 2 /\ inst.file \in 1 .. 2 /\ 2 \in Files
    BY <1>5 DEF Files, FilesOf
  <2>2. CASE inst.file = 1
    <3>1. inst' = Goto(inst, inst.phase, 2)
      BY <1>5, <2>2
    <3>2. inst' \in Locals /\ inst'.phase = inst.phase /\ inst'.file = 2 /\ Kept(inst, inst')
      BY <3>1, <1>2 DEF Goto, Kept, Locals
    <3> QED
      BY <3>2, <1>5, <2>1, <2>2
  <2>3. CASE inst.file # 1 /\ inst.phase = "remove"
    <3>1. inst' = Goto(inst, "restore", 1)
      BY <1>5, <2>3
    <3>2. inst' \in Locals /\ inst'.phase = "restore" /\ inst'.file = 1 /\ Kept(inst, inst')
      BY <3>1, <1>2 DEF Goto, Kept, Locals
    <3> QED
      BY <3>2, <1>4, <1>5, <2>1, <2>3
  <2>4. CASE inst.file # 1 /\ inst.phase = "restore"
    BY <1>3, <1>4, <1>5, <2>1, <2>4
  <2> QED
    BY <2>2, <2>3, <2>4
<1>6. CASE kind # "pair"
  <2>1. Files = File
    BY <1>6 DEF Files, FilesOf, InstallTypeOK
  <2>2. CASE inst.phase = "remove"
    <3>1. inst' = Goto(inst, "restore", inst.file)
      BY <1>6, <2>2
    <3>2. inst' \in Locals /\ inst'.phase = "restore" /\ inst'.file = inst.file
          /\ Kept(inst, inst')
      BY <3>1, <1>1, <1>2 DEF Goto, Kept, Locals
    <3> QED
      BY <3>2, <1>1, <1>6, <2>2
  <2>3. CASE inst.phase = "restore" /\ inst.file > 1
    <3>1. inst.file - 1 \in File
      BY <1>1, <2>3, InstallAssumption DEF File
    <3>2. inst' = Goto(inst, "remove", inst.file - 1)
      BY <1>6, <2>3
    <3>3. inst' \in Locals /\ inst'.phase = "remove" /\ inst'.file = inst.file - 1
          /\ Kept(inst, inst')
      BY <3>1, <3>2, <1>2 DEF Goto, Kept, Locals
    <3> QED
      BY <3>1, <3>3, <1>1, <1>6, <2>1, <2>3
  <2>4. CASE inst.phase = "restore" /\ ~(inst.file > 1)
    <3>1. f = inst.file \/ f > inst.file
      BY <1>1, <2>4, InstallAssumption DEF File
    <3> QED
      BY <3>1, <1>1, <1>3, <1>4, <1>6, <2>4
  <2> QED
    BY <2>2, <2>3, <2>4
<1> QED
  BY <1>5, <1>6

-----------------------------------------------------------------------------
(* Type correctness of the installer.                                      *)

\* What every call of the installer leaves alone, and its types.
LEMMA InstallTypes ==
  ASSUME InstallTypeOK, inst.file \in Files, InstallStep, faults \in 0 .. MaxFaults
  PROVE  /\ kind' = kind /\ InstallTypeOK' /\ (inst.file \in Files)'
         /\ faults' \in 0 .. MaxFaults /\ faults' >= faults
<1>1. /\ inst \in Locals /\ inst.file \in File /\ inst.phase \in Phase
      /\ 1 \in Files /\ 1 \in File /\ Manifest \in Files
  BY FilesInFile, InstallAssumption DEF InstallTypeOK, Locals, Files, FilesOf, File
<1>2. Idle \in Locals /\ Idle.file = 1
  BY <1>1 DEF Idle, Locals, Phase
<1>3. kind' = kind
  BY DEF InstallStep, Extract, DropBackup, SetAside, Promote, PutBack, Remove, Restore,
    Clean, Consume
<1>4. faults' \in 0 .. MaxFaults /\ faults' >= faults
  BY CardAssumption
  DEF InstallStep, Extract, DropBackup, SetAside, Promote, PutBack, Remove, Restore,
    Clean, Consume, NoFault, Fault, FaultyCalls, RefusedOr, Restored
<1>5. dropped' \in BOOLEAN
  BY Zenon DEF InstallStep, Extract, DropBackup, SetAside, Promote, PutBack, Remove, Restore,
    Clean, Consume, InstallTypeOK
<1>6. dest' \in [File -> Content] /\ bak' \in [File -> Content]
  BY <1>1
  DEF InstallStep, Extract, DropBackup, SetAside, Promote, PutBack, Remove, Restore,
    Clean, Consume, Restored, InstallTypeOK, Content
<1>7. ASSUME NEW i \in Locals, i.phase = inst.phase, i.file = inst.file,
             inst.phase \in Replacing, inst' = NextCall(i)
      PROVE  inst' \in Locals /\ inst'.file \in Files
  BY <1>7, NextCallType
<1>8. ASSUME NEW i \in Locals, inst' = BeginUndo(i)
      PROVE  inst' \in Locals /\ inst'.file \in Files
  <2> DEFINE first == IF kind = "pair" THEN 1 ELSE NumNative
  <2>1. first \in Files /\ first \in File /\ "remove" \in Phase
    BY InstallAssumption DEF Files, FilesOf, File, Phase, InstallTypeOK
  <2>2. inst' = Goto(i, "remove", first)
    BY <1>8 DEF BeginUndo
  <2> HIDE DEF first
  <2> QED
    BY <2>1, <2>2 DEF Goto, Locals
<1>9. ASSUME inst.phase \in {"remove", "restore"}, inst' = NextUndo(inst)
      PROVE  inst' \in Locals /\ inst'.file \in Files
  BY <1>1, <1>3, <1>9, Retreat
<1>10. inst' \in Locals /\ inst'.file \in Files
  <2>1. CASE Extract
    BY <2>1, <1>1, <1>2 DEF Extract, Goto, Locals, Phase
  <2>2. CASE DropBackup
    BY <2>2, <1>1, <1>7 DEF DropBackup, Replacing
  <2>3. CASE SetAside
    <3> DEFINE had == [inst EXCEPT !.hadOld = @ \cup {inst.file}]
    <3>1. had \in Locals /\ had.phase = inst.phase /\ had.file = inst.file
      BY <1>1 DEF Locals
    <3>2. inst' = NextCall(inst) \/ inst' = NextCall(had) \/ inst' = BeginUndo(had)
      BY <2>3 DEF SetAside
    <3>3. inst.phase \in Replacing
      BY <2>3 DEF SetAside, Replacing
    <3> QED
      BY <3>1, <3>2, <3>3, <1>1, <1>7, <1>8
  <2>4. CASE Promote
    <3> DEFINE done == [inst EXCEPT !.promoted = @ \cup {inst.file}]
    <3>1. done \in Locals /\ done.phase = inst.phase /\ done.file = inst.file
      BY <1>1 DEF Locals
    <3>2. inst' = NextCall(done) \/ inst' = Goto(inst, "put_back", inst.file)
          \/ inst' = BeginUndo(inst)
      BY <2>4 DEF Promote
    <3>3. inst.phase \in Replacing
      BY <2>4 DEF Promote, Replacing
    <3>4. CASE inst' = Goto(inst, "put_back", inst.file)
      BY <3>4, <1>1 DEF Goto, Locals, Phase
    <3> QED
      BY <3>1, <3>2, <3>3, <3>4, <1>1, <1>7, <1>8
  <2>5. CASE PutBack
    BY <2>5, <1>1, <1>8 DEF PutBack
  <2>6. CASE Remove \/ Restore
    BY <2>6, <1>9 DEF Remove, Restore
  <2>7. CASE Clean
    <3>1. inst.file # Manifest => inst.file + 1 \in Files /\ inst.file + 1 \in File
      BY <1>1, InstallAssumption DEF Manifest, Files, FilesOf, File, InstallTypeOK
    <3> QED
      BY <2>7, <3>1, <1>1 DEF Clean, Goto, Locals, Phase
  <2>8. CASE Consume
    BY <2>8, <1>1, <1>2 DEF Consume
  <2> QED
    BY <2>1, <2>2, <2>3, <2>4, <2>5, <2>6, <2>7, <2>8 DEF InstallStep
<1>11. (inst.file \in Files)'
  BY <1>3, <1>10 DEF Files
<1>12. InstallTypeOK'
  BY <1>3, <1>5, <1>6, <1>10 DEF InstallTypeOK, Locals
<1> QED
  BY <1>3, <1>4, <1>11, <1>12

-----------------------------------------------------------------------------
(* Where each call leads, up to one fault.                                 *)

\* A step of the installer up to the first fault.
Installing ==
  /\ IInv /\ stage = "install" /\ stage' = "install" /\ found' = found
  /\ InstallStep /\ faults' <= 1

LEMMA InstallingFacts ==
  ASSUME Installing
  PROVE  /\ InstallTypeOK /\ inst.file \in Files /\ inst \in Locals /\ inst.file \in File
         /\ dest \in [File -> Content] /\ bak \in [File -> Content]
         /\ Standing /\ faults \in {0, 1} /\ faults' \in {0, 1} /\ faults' >= faults
         /\ kind' = kind /\ Files' = Files /\ Files \subseteq File
<1>1. InstallTypeOK /\ inst.file \in Files /\ inst \in Locals
      /\ dest \in [File -> Content] /\ bak \in [File -> Content]
  BY DEF Installing, IInv, InstallTypeOK, Locals
<1>2. faults \in Nat /\ kind' = kind /\ faults' \in Nat /\ faults' >= faults
  BY <1>1, InstallTypes, CardAssumption DEF Installing, IInv
<1>3. faults \in {0, 1} /\ faults' \in {0, 1} /\ Standing
  BY <1>2 DEF Installing, IInv
<1> QED
  BY <1>1, <1>2, <1>3, FilesInFile DEF Files

LEMMA ExtractStands == Installing /\ Extract => Standing'
<1> SUFFICES ASSUME Installing, Extract PROVE Standing'
  OBVIOUS
<1> USE InstallingFacts
<1>1. inst.phase = "extract" /\ dropped' = dropped /\ dest' = dest /\ bak' = bak
  BY DEF Extract
<1>2. dropped /\ inst.hadOld = {} /\ inst.promoted = {} /\ (faults = 1 \/ Settled(found))
  BY <1>1 DEF Standing
<1>3. CASE inst' = Idle /\ Fault
  <2>1. faults = 0 /\ Settled(found)'
    BY <1>1, <1>2, <1>3 DEF Fault, FaultyCalls, Settled, Installing
  <2> QED
    BY <1>1, <1>2, <1>3, <2>1 DEF Standing, Idle, Replacing, Undoing, Installing
<1>4. CASE inst' = Goto(inst, "drop", 1) /\ NoFault
  <2>1. inst'.phase = "drop" /\ inst'.file = 1 /\ Kept(inst, inst')
    BY <1>4 DEF Goto, Kept, Locals
  <2>2. ASSUME NEW p \in Replacing, NEW f \in Files PROVE ~Past(inst, p, f)'
    <3>1. f \in Nat /\ f >= 1
      BY FilesInFile, InstallAssumption DEF File
    <3> QED
      BY <2>1, <3>1 DEF Past, Rank, Replacing
  <2>3. Clear'
    BY <2>2 DEF Clear, Replacing
  <2>4. faults' = 0 => Normal'
    BY <1>1, <1>2, <1>4, <2>1, <2>2
    DEF Normal, Replacing, NoFault, Settled, Untouched, Kept, Installing
  <2> QED
    BY <1>1, <1>2, <1>4, <2>1, <2>3, <2>4
    DEF Standing, Replacing, Undoing, Installing, NoFault
<1> QED
  BY <1>3, <1>4 DEF Extract

LEMMA ReplacingStands ==
  ASSUME Installing, inst'.phase \in Replacing, dropped',
         faults' = 0 => Normal' /\ Clear', faults' = 1 => Normal' \/ Clear'
  PROVE  Standing'
BY InstallingFacts DEF Standing, Replacing, Undoing, Installing

LEMMA UndoingStands ==
  ASSUME Installing, inst'.phase \in Undoing, dropped', faults' = 1, Undoable'
  PROVE  Standing'
BY InstallingFacts DEF Standing, Replacing, Undoing, Installing

LEMMA CleaningStands ==
  ASSUME Installing, inst'.phase \in {"clean", "consume"}, dropped', Settled("new")'
  PROVE  Standing'
BY InstallingFacts DEF Standing, Replacing, Undoing, Installing

LEMMA IdleStands ==
  ASSUME Installing, inst' = Idle, Settled("new")' \/ (dropped' /\ Settled(found)')
  PROVE  Standing'
BY InstallingFacts DEF Standing, Replacing, Undoing, Installing, Idle

\* The installer is replacing files and goes on to the next call.
LEMMA ReplacingFacts ==
  ASSUME Installing, inst.phase \in Replacing
  PROVE  dropped /\ (faults = 0 => Normal /\ Clear) /\ (faults = 1 => Normal \/ Clear)
BY InstallingFacts DEF Standing, Replacing

LEMMA DropBackupStands == Installing /\ DropBackup => Standing'
<1> SUFFICES ASSUME Installing, DropBackup PROVE Standing'
  OBVIOUS
<1> USE InstallingFacts
<1>1. /\ inst.phase = "drop" /\ inst.phase \in Replacing /\ inst' = NextCall(inst)
      /\ dropped' = dropped /\ dest' = dest
      /\ \A f \in Files : f # inst.file => bak'[f] = bak[f]
  BY DEF DropBackup, Replacing
<1>2. inst'.phase \in Replacing
  BY <1>1 DEF NextCall, Goto, Locals, Replacing
<1>3. /\ Kept(inst, inst')
      /\ \A p \in Replacing, f \in Files :
           Past(inst, p, f)' <=> Past(inst, p, f) \/ (p = "drop" /\ f = inst.file)
  BY <1>1, <1>2, Advance
<1>4. \A f \in Files : /\ Past(inst, "aside", f)' <=> Past(inst, "aside", f)
                       /\ Past(inst, "promote", f)' <=> Past(inst, "promote", f)
                       /\ Past(inst, "drop", f)' <=> Past(inst, "drop", f) \/ f = inst.file
  BY <1>3 DEF Replacing
<1>5. ~Past(inst, "aside", inst.file) /\ ~Past(inst, "promote", inst.file)
  BY <1>1, FilesInFile DEF Past, Rank
<1>6. Normal => Normal'
  <2> SUFFICES ASSUME Normal, NEW f \in Files
               PROVE  (IF Past(inst, "promote", f) THEN Replaced(f)
                       ELSE /\ f \notin inst.promoted
                            /\ Untouched(f) \/ (Past(inst, "aside", f) /\ Lifted(f))
                            /\ ~Past(inst, "aside", f) => f \notin inst.hadOld)'
    BY DEF Normal
  <2> QED
    BY <1>1, <1>3, <1>4, <1>5 DEF Normal, Replaced, Untouched, Lifted, Held, Kept, Installing
<1>7. NoFault /\ Clear => Clear'
  <2> SUFFICES ASSUME Clear, NoFault, NEW f \in Files
               PROVE  (/\ Past(inst, "drop", f) /\ ~Past(inst, "aside", f) => bak[f] = "none"
                       /\ Past(inst, "aside", f) /\ ~Past(inst, "promote", f) => dest[f] = "none"
                       /\ Past(inst, "promote", f) => dest[f] = "new")'
    BY DEF Clear
  <2>1. f = inst.file => bak'[f] = "none"
    BY DEF DropBackup, NoFault, Fault, FaultyCalls
  <2> QED
    BY <2>1, <1>1, <1>4 DEF Clear
<1>8. NoFault \/ (faults = 0 /\ faults' = 1)
  BY DEF DropBackup, NoFault, Fault, FaultyCalls
<1>9. (faults' = 0 => Normal' /\ Clear') /\ (faults' = 1 => Normal' \/ Clear')
  BY <1>1, <1>6, <1>7, <1>8, ReplacingFacts DEF NoFault
<1> QED
  BY <1>1, <1>2, <1>9, ReplacingFacts, ReplacingStands

\* The first failing call is the one that starts an undo, with all as it was.
LEMMA SetAsideStands == Installing /\ SetAside => Standing'
<1> SUFFICES ASSUME Installing, SetAside, NEW g \in Files, g = inst.file PROVE Standing'
  BY InstallingFacts
<1> USE InstallingFacts
<1> DEFINE had == [inst EXCEPT !.hadOld = @ \cup {g}]
<1>1. /\ inst.phase = "aside" /\ inst.phase \in Replacing /\ dropped' = dropped
      /\ \A f \in Files : f # g => dest'[f] = dest[f] /\ bak'[f] = bak[f]
  BY DEF SetAside, Replacing
<1>2. /\ had \in Locals /\ had.phase = inst.phase /\ had.file = g
      /\ had.hadOld = inst.hadOld \cup {g} /\ had.promoted = inst.promoted
  BY DEF Locals
<1>3. Past(inst, "drop", g) /\ ~Past(inst, "aside", g) /\ ~Past(inst, "promote", g)
  BY <1>1, FilesInFile DEF Past, Rank
<1>5. ASSUME NEW i \in {inst, had}, inst' = NextCall(i)
      PROVE  /\ inst'.phase \in Replacing /\ Kept(i, inst')
             /\ \A p \in Replacing, f \in Files :
                  Past(inst, p, f)' <=> Past(inst, p, f) \/ (p = "aside" /\ f = g)
  <2>1. i \in Locals /\ i.phase = inst.phase /\ i.file = g
    BY <1>2
  <2>2. inst'.phase \in Replacing
    BY <1>1, <1>5, <2>1 DEF NextCall, Goto, Locals, Replacing
  <2> QED
    BY <1>1, <1>5, <2>1, <2>2, Advance

<1>6. Normal => dest[g] = found /\ g \notin inst.hadOld /\ g \notin inst.promoted
  BY <1>3 DEF Normal, Untouched
<1>7. ASSUME NEW i \in {inst, had}, inst' = NextCall(i),
             Normal => (Untouched(g) \/ Lifted(g))'
      PROVE  Normal => Normal'
  <2> SUFFICES ASSUME Normal, NEW f \in Files
               PROVE  (IF Past(inst, "promote", f) THEN Replaced(f)
                       ELSE /\ f \notin inst.promoted
                            /\ Untouched(f) \/ (Past(inst, "aside", f) /\ Lifted(f))
                            /\ ~Past(inst, "aside", f) => f \notin inst.hadOld)'
    BY DEF Normal
  <2>1. /\ Past(inst, "aside", f)' <=> Past(inst, "aside", f) \/ f = g
        /\ Past(inst, "promote", f)' <=> Past(inst, "promote", f)
    BY <1>5, <1>7 DEF Replacing
  <2>2. inst'.promoted = inst.promoted /\ (f # g => (f \in inst'.hadOld <=> f \in inst.hadOld))
    BY <1>2, <1>5, <1>7 DEF Kept
  <2>3. CASE f = g
    BY <1>3, <1>6, <1>7, <2>1, <2>2, <2>3 DEF Untouched, Lifted, Held
  <2>4. CASE f # g
    BY <1>1, <2>1, <2>2, <2>4 DEF Normal, Replaced, Untouched, Lifted, Held, Installing
  <2> QED
    BY <2>3, <2>4
<1>8. ASSUME NEW i \in {inst, had}, inst' = NextCall(i), dest'[g] = "none"
      PROVE  Clear => Clear'
  <2> SUFFICES ASSUME Clear, NEW f \in Files
               PROVE  (/\ Past(inst, "drop", f) /\ ~Past(inst, "aside", f) => bak[f] = "none"
                       /\ Past(inst, "aside", f) /\ ~Past(inst, "promote", f) => dest[f] = "none"
                       /\ Past(inst, "promote", f) => dest[f] = "new")'
    BY DEF Clear
  <2>1. /\ Past(inst, "drop", f)' <=> Past(inst, "drop", f)
        /\ Past(inst, "aside", f)' <=> Past(inst, "aside", f) \/ f = g
        /\ Past(inst, "promote", f)' <=> Past(inst, "promote", f)
    BY <1>5, <1>8 DEF Replacing
  <2> QED
    BY <1>1, <1>3, <1>8, <2>1 DEF Clear
<1>9. CASE RefusedOr(dest[g] # "none") /\ inst' = NextCall(inst) /\ UNCHANGED <<dest, bak>>
  <2>1. Normal => Normal'
    <3>1. Kept(inst, inst')
      BY <1>5, <1>9
    <3>2. Normal => Untouched(g)'
      BY <1>6, <1>9, <3>1 DEF Untouched, Held, Kept, Installing
    <3> QED
      BY <1>7, <1>9, <3>2
  <2>2. dest[g] = "none" => (Clear => Clear')
    BY <1>8, <1>9
  <2>3. IF dest[g] = "none" THEN faults' = faults ELSE faults = 0 /\ faults' = 1
    BY <1>9 DEF RefusedOr, NoFault, Fault, FaultyCalls
  <2>4. (faults' = 0 => Normal' /\ Clear') /\ (faults' = 1 => Normal' \/ Clear')
    BY <1>1, <2>1, <2>2, <2>3, ReplacingFacts
  <2> QED
    BY <1>1, <1>5, <1>9, <2>4, ReplacingFacts, ReplacingStands
<1>10. CASE /\ CanRename(dest, bak, g)
            /\ bak' = [bak EXCEPT ![g] = dest[g]] /\ dest' = [dest EXCEPT ![g] = "none"]
            /\ inst' = NextCall(had) /\ NoFault
  <2>1. dest'[g] = "none" /\ bak'[g] = dest[g] /\ dest[g] # "none"
    BY <1>10 DEF CanRename
  <2>2. g \in inst'.hadOld
    BY <1>2, <1>5, <1>10 DEF Kept
  <2>3. Normal => Normal'
    <3>1. Normal => Lifted(g)'
      BY <1>6, <2>1, <2>2 DEF Lifted, Held, Installing
    <3> QED
      BY <1>7, <1>10, <3>1
  <2>4. Clear => Clear'
    BY <1>8, <1>10, <2>1
  <2>5. (faults' = 0 => Normal' /\ Clear') /\ (faults' = 1 => Normal' \/ Clear')
    BY <1>1, <1>10, <2>3, <2>4, ReplacingFacts DEF NoFault
  <2> QED
    BY <1>1, <1>5, <1>10, <2>5, ReplacingFacts, ReplacingStands
<1>11. CASE /\ dest[g] # "none" /\ RefusedOr(bak[g] = "none")
            /\ inst' = BeginUndo(had) /\ UNCHANGED <<dest, bak>>
  <2>1. faults' = 1 /\ (faults = 0 \/ bak[g] # "none")
    <3>1. bak[g] # "none" => ~Clear
      BY <1>3 DEF Clear
    <3>2. IF bak[g] = "none" THEN faults = 0 /\ faults' = 1 ELSE faults' = faults
      BY <1>11 DEF RefusedOr, NoFault, Fault, FaultyCalls
    <3> QED
      BY <3>1, <3>2, <1>1, ReplacingFacts
  <2>2. Normal
    BY <2>1, <1>1, <1>3, ReplacingFacts DEF Clear
  <2>3. inst'.phase = "remove" /\ Kept(had, inst')
        /\ inst'.file = IF kind = "pair" THEN 1 ELSE NumNative
    BY <1>2, <1>11 DEF BeginUndo, Goto, Locals, Kept
  <2>4. ASSUME NEW f \in Files PROVE ~Removed(f)' /\ ~BackInPlace(f)'
    BY <2>3, FilesInFile, InstallAssumption DEF Removed, BackInPlace, File
  <2>5. Undoable'
    <3> SUFFICES ASSUME NEW f \in Files
                 PROVE  (\/ Untouched(f) /\ f \notin inst.promoted
                         \/ Lifted(f) /\ f \notin inst.promoted
                         \/ Replaced(f))'
      BY <2>4 DEF Undoable
    <3>1. /\ inst'.promoted = inst.promoted
          /\ f \in inst'.hadOld <=> f \in inst.hadOld \/ f = g
      BY <1>2, <2>3 DEF Kept
    <3>2. CASE f = g
      BY <1>6, <1>11, <2>2, <3>1, <3>2 DEF Untouched, Held, Installing
    <3>3. CASE f # g
      BY <1>11, <2>2, <3>1, <3>3 DEF Normal, Replaced, Untouched, Lifted, Held, Installing
    <3> QED
      BY <3>2, <3>3
  <2> QED
    BY <1>1, <2>1, <2>3, <2>5, ReplacingFacts, UndoingStands DEF Undoing
<1> QED
  BY <1>9, <1>10, <1>11 DEF SetAside

LEMMA PromoteStands == Installing /\ Promote => Standing'
<1> SUFFICES ASSUME Installing, Promote, NEW g \in Files, g = inst.file PROVE Standing'
  BY InstallingFacts
<1> USE InstallingFacts
<1> DEFINE done == [inst EXCEPT !.promoted = @ \cup {g}]
<1>1. /\ inst.phase = "promote" /\ inst.phase \in Replacing
      /\ dropped' = dropped /\ bak' = bak
      /\ \A f \in Files : f # g => dest'[f] = dest[f]
  BY DEF Promote, Replacing
<1>2. /\ done \in Locals /\ done.phase = inst.phase /\ done.file = g
      /\ done.promoted = inst.promoted \cup {g} /\ done.hadOld = inst.hadOld
  BY DEF Locals
<1>3. Past(inst, "drop", g) /\ Past(inst, "aside", g) /\ ~Past(inst, "promote", g)
  BY <1>1, FilesInFile DEF Past, Rank
<1>4. Normal => (Untouched(g) \/ Lifted(g)) /\ g \notin inst.promoted
  BY <1>3 DEF Normal
<1>5. CASE dest[g] = "none" /\ dest' = [dest EXCEPT ![g] = "new"] /\ inst' = NextCall(done)
           /\ NoFault
  <2>1. /\ dest'[g] = "new" /\ faults' = faults
    BY <1>5 DEF NoFault
  <2>2. /\ Kept(done, inst') /\ inst'.phase \in Replacing \cup {"clean"}
        /\ inst'.phase \in Replacing =>
             \A p \in Replacing, f \in Files :
               Past(inst, p, f)' <=> Past(inst, p, f) \/ (p = "promote" /\ f = g)
        /\ inst'.phase = "clean" => \A f \in Files : Past(inst, "promote", f) \/ f = g
    BY <1>1, <1>2, <1>5, Advance
  <2>3. CASE inst'.phase = "clean"
    <3>1. ASSUME NEW f \in Files, f # g PROVE dest[f] = "new"
      BY <1>1, <2>2, <2>3, <3>1, ReplacingFacts DEF Normal, Clear, Replaced
    <3>2. Settled("new")'
      BY <1>1, <2>1, <3>1 DEF Settled
    <3> QED
      BY <1>1, <2>3, <3>2, ReplacingFacts, CleaningStands
  <2>4. CASE inst'.phase \in Replacing
    <3>1. \A f \in Files : /\ Past(inst, "drop", f)' <=> Past(inst, "drop", f)
                           /\ Past(inst, "aside", f)' <=> Past(inst, "aside", f)
                           /\ Past(inst, "promote", f)' <=> Past(inst, "promote", f) \/ f = g
      BY <2>2, <2>4 DEF Replacing
    <3>2. Normal => Normal'
      <4> SUFFICES ASSUME Normal, NEW f \in Files
                   PROVE  (IF Past(inst, "promote", f) THEN Replaced(f)
                           ELSE /\ f \notin inst.promoted
                                /\ Untouched(f) \/ (Past(inst, "aside", f) /\ Lifted(f))
                                /\ ~Past(inst, "aside", f) => f \notin inst.hadOld)'
        BY DEF Normal
      <4>1. /\ f \in inst'.hadOld <=> f \in inst.hadOld
            /\ f \in inst'.promoted <=> f \in inst.promoted \/ f = g
        BY <1>2, <2>2 DEF Kept
      <4>2. CASE f = g
        <5>1. Replaced(f)'
          BY <1>1, <1>4, <1>5, <2>1, <4>1, <4>2
          DEF Untouched, Lifted, Held, Replaced, Installing
        <5> QED
          BY <3>1, <4>2, <5>1
      <4>3. CASE f # g
        BY <1>1, <3>1, <4>1, <4>3 DEF Normal, Untouched, Lifted, Held, Replaced, Installing
      <4> QED
        BY <4>2, <4>3
    <3>3. Clear => Clear'
      <4> SUFFICES ASSUME Clear, NEW f \in Files
                   PROVE  (/\ Past(inst, "drop", f) /\ ~Past(inst, "aside", f) =>
                                bak[f] = "none"
                           /\ Past(inst, "aside", f) /\ ~Past(inst, "promote", f) =>
                                dest[f] = "none"
                           /\ Past(inst, "promote", f) => dest[f] = "new")'
        BY DEF Clear
      <4> QED
        BY <1>1, <1>3, <2>1, <3>1 DEF Clear
    <3> QED
      BY <1>1, <2>1, <2>4, <3>2, <3>3, ReplacingFacts, ReplacingStands
  <2> QED
    BY <2>2, <2>3, <2>4
<1>6. CASE /\ RefusedOr(dest[g] = "none") /\ dest' = dest
           /\ inst' = IF kind = "native" THEN Goto(inst, "put_back", g) ELSE BeginUndo(inst)
  <2>1. faults' = 1 /\ (faults = 0 \/ dest[g] # "none")
    <3>1. dest[g] # "none" => ~Clear
      BY <1>3 DEF Clear
    <3>2. IF dest[g] = "none" THEN faults = 0 /\ faults' = 1 ELSE faults' = faults
      BY <1>6 DEF RefusedOr, NoFault, Fault, FaultyCalls
    <3> QED
      BY <3>1, <3>2, <1>1, ReplacingFacts
  <2>2. Normal
    BY <2>1, <1>1, <1>3, ReplacingFacts DEF Clear
  <2>3. /\ Kept(inst, inst')
        /\ IF kind = "native" THEN inst'.phase = "put_back"
           ELSE inst'.phase = "remove" /\ inst'.file = 1
    BY <1>6 DEF BeginUndo, Goto, Locals, Kept, InstallTypeOK
  <2>4. ASSUME NEW f \in Files PROVE ~Removed(f)' /\ ~BackInPlace(f)'
    BY <2>3, FilesInFile, InstallAssumption DEF Removed, BackInPlace, File, InstallTypeOK
  <2>5. Undoable'
    <3> SUFFICES ASSUME NEW f \in Files
                 PROVE  (\/ Untouched(f) /\ f \notin inst.promoted
                         \/ Lifted(f) /\ f \notin inst.promoted
                         \/ Replaced(f))'
      BY <2>4 DEF Undoable
    <3> QED
      BY <1>1, <1>6, <2>2, <2>3
      DEF Normal, Replaced, Untouched, Lifted, Held, Kept, Installing
  <2>6. inst'.phase \in Undoing
    BY <2>3 DEF Undoing
  <2> QED
    BY <1>1, <2>1, <2>5, <2>6, ReplacingFacts, UndoingStands
<1> QED
  BY <1>5, <1>6 DEF Promote

\* The installer is taking an install back after the one fault.
LEMMA UndoingFacts ==
  ASSUME Installing, inst.phase \in Undoing
  PROVE  dropped /\ faults = 1 /\ faults' = 1 /\ Undoable /\ ~Fault
<1>1. dropped /\ faults = 1 /\ Undoable
  BY InstallingFacts DEF Standing, Undoing, Replacing
<1> QED
  BY <1>1, InstallingFacts DEF Fault, FaultyCalls

\* What is set aside goes back to its place.
LEMMA RestoredFacts ==
  ASSUME Installing, inst.phase \in Undoing, Restored, NEW g \in Files, g = inst.file
  PROVE  /\ \A f \in Files : f # g => dest'[f] = dest[f] /\ bak'[f] = bak[f]
         /\ Untouched(g) => dest'[g] = dest[g]
         /\ Lifted(g) => dest'[g] = found
<1> USE InstallingFacts
<1>1. /\ g \in inst.hadOld /\ CanRename(bak, dest, g) => dest'[g] = bak[g]
      /\ \/ g \in inst.hadOld /\ CanRename(bak, dest, g)
         \/ dest' = dest /\ bak' = bak
  BY UndoingFacts DEF Restored, RefusedOr
<1>2. \A f \in Files : f # g => dest'[f] = dest[f] /\ bak'[f] = bak[f]
  BY DEF Restored
<1>3. Untouched(g) => dest'[g] = dest[g]
  BY <1>1 DEF Untouched, Held, CanRename
<1>4. Lifted(g) => dest'[g] = found
  BY <1>1 DEF Lifted, Held, CanRename
<1> QED
  BY <1>2, <1>3, <1>4

LEMMA PutBackStands == Installing /\ PutBack => Standing'
<1> SUFFICES ASSUME Installing, PutBack, NEW g \in Files, g = inst.file PROVE Standing'
  BY InstallingFacts
<1> USE InstallingFacts
<1>1. inst.phase = "put_back" /\ inst.phase \in Undoing /\ dropped' = dropped /\ Restored
      /\ inst' = BeginUndo(inst)
  BY DEF PutBack, Undoing
<1>2. inst'.phase = "remove" /\ Kept(inst, inst')
      /\ inst'.file = IF kind = "pair" THEN 1 ELSE NumNative
  BY <1>1 DEF BeginUndo, Goto, Locals, Kept
<1>3. Undoable'
  <2> SUFFICES ASSUME NEW f \in Files
               PROVE  (\/ Untouched(f) /\ (Removed(f) \/ f \notin inst.promoted)
                       \/ Lifted(f) /\ ~BackInPlace(f) /\ (Removed(f) \/ f \notin inst.promoted)
                       \/ Replaced(f) /\ ~Removed(f))'
    BY DEF Undoable
  <2>1. ~Removed(f)' /\ ~BackInPlace(f)'
    BY <1>2, FilesInFile, InstallAssumption DEF Removed, BackInPlace, File
  <2>2. ~Removed(f)
    BY <1>1 DEF Removed
  <2>3. \/ Untouched(f) /\ f \notin inst.promoted
        \/ Lifted(f) /\ f \notin inst.promoted
        \/ Replaced(f)
    BY <1>1, <2>2, UndoingFacts DEF Undoable
  <2>4. CASE f # g
    BY <1>1, <1>2, <2>1, <2>3, <2>4, RestoredFacts
    DEF Untouched, Lifted, Replaced, Held, Kept, Installing
  <2>5. CASE f = g /\ ~Replaced(g)
    <3>1. dest'[g] = found /\ (Held(g) \/ g \notin inst.hadOld)
      BY <1>1, <2>3, <2>5, RestoredFacts DEF Untouched, Lifted
    <3>2. f \notin inst.promoted
      BY <2>3, <2>5
    <3> QED
      BY <1>1, <1>2, <2>1, <2>5, <3>1, <3>2 DEF Untouched, Held, Kept, Installing
  <2>6. CASE f = g /\ Replaced(g)
    <3>1. dest' = dest /\ bak' = bak
      BY <1>1, <2>6, UndoingFacts DEF Restored, CanRename, Replaced, Fault
    <3> QED
      BY <1>2, <2>1, <2>6, <3>1 DEF Replaced, Kept, Installing
  <2> QED
    BY <2>4, <2>5, <2>6
<1> QED
  BY <1>1, <1>2, <1>3, UndoingFacts, UndoingStands DEF Undoing

LEMMA RemoveStands == Installing /\ Remove => Standing'
<1> SUFFICES ASSUME Installing, Remove, NEW g \in Files, g = inst.file PROVE Standing'
  BY InstallingFacts
<1> USE InstallingFacts
<1>1. /\ inst.phase = "remove" /\ inst.phase \in Undoing /\ inst.phase \in {"remove", "restore"}
      /\ dropped' = dropped /\ bak' = bak /\ inst' = NextUndo(inst)
  BY DEF Remove, Undoing
<1>2. dest' = IF g \in inst.promoted THEN [dest EXCEPT ![g] = "none"] ELSE dest
  BY <1>1, UndoingFacts DEF Remove
<1>3. inst'.phase \in {"remove", "restore"} /\ Kept(inst, inst')
  BY <1>1, Retreat DEF Idle
<1>4. Undoable'
  <2> SUFFICES ASSUME NEW f \in Files
               PROVE  (\/ Untouched(f) /\ (Removed(f) \/ f \notin inst.promoted)
                       \/ Lifted(f) /\ ~BackInPlace(f) /\ (Removed(f) \/ f \notin inst.promoted)
                       \/ Replaced(f) /\ ~Removed(f))'
    BY DEF Undoable
  <2>1. (Removed(f)' <=> Removed(f) \/ f = g) /\ (BackInPlace(f)' <=> BackInPlace(f))
    BY <1>1, <1>3, Retreat
  <2>2. \/ Untouched(f) /\ (Removed(f) \/ f \notin inst.promoted)
        \/ Lifted(f) /\ ~BackInPlace(f) /\ (Removed(f) \/ f \notin inst.promoted)
        \/ Replaced(f) /\ ~Removed(f)
    BY <1>1, UndoingFacts DEF Undoable
  <2>3. CASE f # g
    BY <1>1, <1>2, <1>3, <2>1, <2>2, <2>3
    DEF Untouched, Lifted, Replaced, Held, Kept, Installing
  <2>4. CASE f = g
    <3>1. ~Removed(g) /\ ~BackInPlace(g)
      BY <1>1, FilesInFile DEF Removed, BackInPlace, InstallTypeOK
    <3> QED
      BY <1>1, <1>2, <1>3, <2>1, <2>2, <2>4, <3>1
      DEF Untouched, Lifted, Replaced, Held, Kept, Installing
  <2> QED
    BY <2>3, <2>4
<1> QED
  BY <1>1, <1>3, <1>4, UndoingFacts, UndoingStands DEF Undoing

LEMMA RestoreStands == Installing /\ Restore => Standing'
<1> SUFFICES ASSUME Installing, Restore, NEW g \in Files, g = inst.file PROVE Standing'
  BY InstallingFacts
<1> USE InstallingFacts
<1>1. /\ inst.phase = "restore" /\ inst.phase \in Undoing /\ inst.phase \in {"remove", "restore"}
      /\ dropped' = dropped /\ inst' = NextUndo(inst) /\ Restored
  BY DEF Restore, Undoing
<1>2. Removed(g)
  BY <1>1, Retreat
<1>3. dest'[g] = found /\ (Held(g) \/ g \notin inst.hadOld)
  BY <1>1, <1>2, UndoingFacts, RestoredFacts DEF Undoable, Untouched, Lifted
<1>4. CASE inst'.phase = "idle"
  <2>1. inst' = Idle /\ \A f \in Files : BackInPlace(f) \/ f = g
    BY <1>1, <1>4, Retreat
  <2>2. ASSUME NEW f \in Files, f # g PROVE dest'[f] = found
    <3>1. BackInPlace(f) /\ Removed(f)
      BY <1>1, <2>1, <2>2, Retreat
    <3> QED
      BY <1>1, <2>2, <3>1, UndoingFacts, RestoredFacts DEF Undoable, Untouched
  <2>3. Settled(found)'
    BY <1>3, <2>2 DEF Settled, Installing
  <2> QED
    BY <1>1, <2>1, <2>3, UndoingFacts, IdleStands
<1>5. CASE inst'.phase # "idle"
  <2>1. inst'.phase \in {"remove", "restore"} /\ Kept(inst, inst')
    BY <1>1, <1>5, Retreat DEF Idle
  <2>2. Undoable'
    <3> SUFFICES ASSUME NEW f \in Files
                 PROVE  (\/ Untouched(f) /\ (Removed(f) \/ f \notin inst.promoted)
                         \/ Lifted(f) /\ ~BackInPlace(f) /\ (Removed(f) \/ f \notin inst.promoted)
                         \/ Replaced(f) /\ ~Removed(f))'
      BY DEF Undoable
    <3>1. (Removed(f)' <=> Removed(f)) /\ (BackInPlace(f)' <=> BackInPlace(f) \/ f = g)
      BY <1>1, <1>5, Retreat
    <3>2. \/ Untouched(f) /\ (Removed(f) \/ f \notin inst.promoted)
          \/ Lifted(f) /\ ~BackInPlace(f) /\ (Removed(f) \/ f \notin inst.promoted)
          \/ Replaced(f) /\ ~Removed(f)
      BY <1>1, UndoingFacts DEF Undoable
    <3>3. CASE f # g
      BY <1>1, <2>1, <3>1, <3>2, <3>3, RestoredFacts
      DEF Untouched, Lifted, Replaced, Held, Kept, Installing
    <3>4. CASE f = g
      BY <1>2, <1>3, <2>1, <3>1, <3>4 DEF Untouched, Held, Kept, Installing
    <3> QED
      BY <3>3, <3>4
  <2> QED
    BY <1>1, <2>1, <2>2, UndoingFacts, UndoingStands DEF Undoing
<1> QED
  BY <1>4, <1>5

LEMMA CleanStands == Installing /\ Clean => Standing'
<1> SUFFICES ASSUME Installing, Clean PROVE Standing'
  OBVIOUS
<1> USE InstallingFacts
<1>1. inst.phase = "clean" /\ dropped' = dropped /\ dest' = dest
      /\ inst'.phase \in {"clean", "consume"}
  BY DEF Clean, Goto, Locals
<1>2. dropped /\ Settled("new")'
  BY <1>1 DEF Standing, Settled
<1> QED
  BY <1>1, <1>2, CleaningStands

LEMMA ConsumeStands == Installing /\ Consume => Standing'
<1> SUFFICES ASSUME Installing, Consume PROVE Standing'
  OBVIOUS
<1> USE InstallingFacts
<1>1. inst.phase = "consume" /\ inst' = Idle /\ dest' = dest
  BY DEF Consume
<1>2. Settled("new")'
  BY <1>1 DEF Standing, Settled
<1> QED
  BY <1>1, <1>2, IdleStands

-----------------------------------------------------------------------------
(* The invariant.                                                          *)

LEMMA InitInvariant == Init => IInv
<1> SUFFICES ASSUME Init PROVE IInv
  OBVIOUS
<1> USE DEF Init, InstallInit
<1>1. /\ inst.phase = "idle" /\ inst.hadOld = {} /\ inst.promoted = {} /\ inst.file = 1
      /\ inst \in Locals
  BY InstallAssumption DEF Idle, Locals, Phase, File
<1>2. dest \in [File -> Content] /\ bak \in [File -> Content] /\ kind \in {"native", "pair"}
      /\ dropped \in BOOLEAN
  BY DEF Content
<1>3. InstallTypeOK
  BY <1>1, <1>2 DEF InstallTypeOK, Locals
<1>4. Settled(found) /\ 1 \in Files
  BY InstallAssumption DEF Settled, Files, FilesOf, File
<1>5. Standing
  BY <1>1, <1>4 DEF Standing, Replacing, Undoing
<1> QED
  BY <1>1, <1>3, <1>4, <1>5, CardAssumption DEF IInv, SessionInit

\* The calls of save() fail or not: faults grow within their bound.
LEMMA SavedFaults ==
  ASSUME faults \in 0 .. MaxFaults, NEW b \in Nat, NEW a \in Nat, NEW c, Saved(b, c, a)
  PROVE  faults' \in 0 .. MaxFaults /\ faults' >= faults
<1>1. PICK failed \in SUBSET (1 .. b + a) : FaultyCalls(Cardinality(failed))
  BY DEF Saved
<1>2. IsFiniteSet(1 .. b + a)
  BY FS_Interval
<1>3. Cardinality(failed) \in Nat
  BY <1>2, FS_Subset, FS_CardinalityType
<1> QED
  BY <1>1, <1>3, CardAssumption DEF FaultyCalls

\* Discovery finds what all files have in common.
LEMMA SettledIsInstalled ==
  ASSUME InstallTypeOK, NEW c, Settled(c)
  PROVE  Installed = c
<1>1. 1 \in Files /\ 1 \in File
  BY InstallAssumption DEF Files, FilesOf, File
<1> QED
  BY <1>1 DEF Settled, Installed, InstallTypeOK, Files

\* Steps that have nothing to do with an install.
LEMMA ElsewhereStands ==
  ASSUME IInv, UNCHANGED <<kind, dropped, dest, bak, inst, found>>,
         stage \notin {"receipt", "install"}, stage' # "install",
         session' # "none" => stage' \in {"handover", "native"},
         faults' \in 0 .. MaxFaults, faults' >= faults
  PROVE  IInv'
<1>1. InstallTypeOK' /\ Files' = Files /\ (inst.file \in Files)'
  BY DEF IInv, InstallTypeOK, Files
<1>2. faults' <= 1 => Standing
  BY CardAssumption DEF IInv
<1>3. faults' <= 1 => Standing'
  BY <1>1, <1>2 DEF Standing, Settled, Replacing, Undoing
<1> QED
  BY <1>1, <1>3 DEF IInv

Elsewhere ==
  \/ Tidy \/ Delete \/ LaunchNative \/ HandingOver \/ (\E c \in Core : LaunchGame(c))
  \/ Quit \/ Native \/ Playing \/ LeaveGame \/ QuitGame \/ Start

LEMMA ElsewhereSteps ==
  ASSUME IInv, Elsewhere
  PROVE  /\ UNCHANGED <<kind, dropped, dest, bak, inst, found>>
         /\ stage \notin {"receipt", "install"} /\ stage' # "install"
         /\ session' # "none" => stage' \in {"handover", "native"}
         /\ faults' \in 0 .. MaxFaults /\ faults' >= faults
<1>1. faults \in 0 .. MaxFaults /\ (session # "none" => stage \in {"handover", "native"})
  BY DEF IInv
<1>2. ASSUME NEW b \in Nat, NEW a \in Nat, NEW c, Saved(b, c, a)
      PROVE  faults' \in 0 .. MaxFaults /\ faults' >= faults
  BY <1>1, <1>2, SavedFaults
<1>3. ASSUME NEW a \in Nat, NEW c, FlushAnd(c, a)
      PROVE  faults' \in 0 .. MaxFaults /\ faults' >= faults
  <2>1. PICK b \in Nat : Saved(b, c, a)
    <3>1. (IF dirty THEN 1 ELSE 0) \in Nat
      OBVIOUS
    <3> QED
      BY <1>3, <3>1 DEF FlushAnd
  <2> QED
    BY <1>2, <2>1
<1>4. ASSUME NoFault \/ Fault PROVE faults' \in 0 .. MaxFaults /\ faults' >= faults
  BY <1>1, <1>4, CardAssumption DEF NoFault, Fault, FaultyCalls
<1> USE DEF AtHome, installVars, sessionVars
<1>5. CASE Tidy
  <2>1. faults' \in 0 .. MaxFaults /\ faults' >= faults
    BY <1>2, <1>3, <1>4, <1>5 DEF Tidy, Mark, Move
  <2> QED
    BY <1>1, <1>5, <2>1 DEF Tidy
<1>6. CASE Delete
  <2>1. faults' \in 0 .. MaxFaults /\ faults' >= faults
    BY <1>4, <1>6 DEF Delete, DeleteState, DeletePreview
  <2> QED
    BY <1>1, <1>6, <2>1 DEF Delete
<1>7. CASE LaunchNative
  <2>1. faults' \in 0 .. MaxFaults /\ faults' >= faults
    BY <1>3, <1>7 DEF LaunchNative
  <2> QED
    BY <1>1, <1>7, <2>1 DEF LaunchNative
<1>8. CASE HandingOver
  <2>1. faults' \in 0 .. MaxFaults /\ faults' >= faults
    BY <1>4, <1>8
    DEF HandingOver, WriteReceipt, HandOver, LaunchRefused, ReceiptCall, NoFault
  <2> QED
    BY <1>1, <1>8, <2>1 DEF HandingOver, WriteReceipt, HandOver, LaunchRefused
<1>9. CASE \E c \in Core : LaunchGame(c)
  <2>1. faults' \in 0 .. MaxFaults /\ faults' >= faults
    BY <1>3, <1>9 DEF LaunchGame
  <2> QED
    BY <1>1, <1>9, <2>1 DEF LaunchGame
<1>10. CASE Quit
  <2>1. faults' \in 0 .. MaxFaults /\ faults' >= faults
    BY <1>3, <1>10 DEF Quit
  <2> QED
    BY <1>1, <1>10, <2>1 DEF Quit
<1>11. CASE Native
  <2>1. faults' \in 0 .. MaxFaults /\ faults' >= faults
    BY <1>4, <1>11
    DEF Native, RecordRemoves, RecordRenames, EndsUnsaid, ReceiptCall, NoFault
  <2> QED
    BY <1>1, <1>11, <2>1 DEF Native
<1>12. CASE Playing
  <2>1. faults' \in 0 .. MaxFaults /\ faults' >= faults
    BY <1>4, <1>12
    DEF Playing, SaveState, WritePreview, DropPreview, LoadState, PlayOn, NoFault
  <2> QED
    BY <1>1, <1>12, <2>1 DEF Playing
<1>13. CASE LeaveGame \/ QuitGame
  <2>1. faults' \in 0 .. MaxFaults /\ faults' >= faults
    BY <1>2, <1>13 DEF LeaveGame, QuitGame
  <2> QED
    BY <1>1, <1>13, <2>1 DEF LeaveGame, QuitGame
<1>14. CASE Start
  BY <1>1, <1>14 DEF Start
<1> QED
  BY <1>5, <1>6, <1>7, <1>8, <1>9, <1>10, <1>11, <1>12, <1>13, <1>14 DEF Elsewhere

\* The migration counts its failing calls and touches nothing of an install.
LEMMA MigrationStands ==
  ASSUME IInv, BootMigrate
  PROVE  IInv' /\ faults' \in 0 .. MaxFaults /\ faults' >= faults
<1>1. faults \in 0 .. MaxFaults
  BY DEF IInv
<1>2. ASSUME NoFault \/ Fault \/ FaultyCalls(2)
      PROVE  faults' \in 0 .. MaxFaults /\ faults' >= faults
  BY <1>1, <1>2, CardAssumption DEF NoFault, Fault, FaultyCalls
<1>3. faults' \in 0 .. MaxFaults /\ faults' >= faults
  <2>1. MigrationStep
    BY DEF BootMigrate
  <2> QED
    BY <1>2, <2>1, Zenon
    DEF MigrationStep, BeginMigration, NextFile, TryName, CopyContents, RemoveOriginal,
      EndMigration, Fault
<1>4. /\ stage = "receipt" /\ stage' = stage /\ session' = session
      /\ UNCHANGED <<kind, dropped, dest, bak, inst, found>>
  BY DEF BootMigrate, installVars, sessionVars
<1>5. InstallTypeOK' /\ Files' = Files /\ (inst.file \in Files)'
  BY <1>4 DEF IInv, InstallTypeOK, Files
<1>6. ASSUME faults' <= 1 PROVE Standing'
  <2>1. Standing /\ inst.phase = "idle" /\ (faults' = faults \/ faults' = 1)
    BY <1>1, <1>3, <1>4, <1>6, CardAssumption DEF IInv, Standing
  <2> QED
    BY <1>4, <1>5, <2>1 DEF Standing, Settled, Replacing, Undoing
<1> QED
  BY <1>3, <1>4, <1>5, <1>6 DEF IInv

LEMMA StepInvariant == IInv /\ [Next]_vars => IInv'
<1> SUFFICES ASSUME IInv, [Next]_vars PROVE IInv'
  OBVIOUS
<1> USE CardAssumption
<1>1. InstallTypeOK /\ faults \in 0 .. MaxFaults /\ inst.file \in Files
  BY DEF IInv
<1>2. /\ Idle \in Locals /\ Idle.phase = "idle" /\ Idle.file = 1
      /\ Idle.hadOld = {} /\ Idle.promoted = {}
      /\ [Idle EXCEPT !.phase = "extract"] \in Locals
      /\ [Idle EXCEPT !.phase = "extract"].phase = "extract"
      /\ [Idle EXCEPT !.phase = "extract"].file = 1
      /\ [Idle EXCEPT !.phase = "extract"].hadOld = {}
      /\ [Idle EXCEPT !.phase = "extract"].promoted = {}
      /\ 1 \in Files
  BY InstallAssumption DEF Idle, Locals, Phase, File, Files, FilesOf
<1>3. CASE BootInstall
  <2>1. /\ InstallTypeOK' /\ (inst.file \in Files)'
        /\ faults' \in 0 .. MaxFaults /\ faults' >= faults
    BY <1>1, <1>3, InstallTypes DEF BootInstall
  <2>2. session' = session /\ stage' = stage /\ stage = "install" /\ found' = found
    BY <1>3 DEF BootInstall, sessionVars
  <2>3. ASSUME faults' <= 1 PROVE Standing'
    <3>1. Installing
      BY <1>3, <2>2, <2>3 DEF Installing, BootInstall
    <3> QED
      BY <1>3, <3>1, ExtractStands, DropBackupStands, SetAsideStands, PromoteStands,
        PutBackStands, RemoveStands, RestoreStands, CleanStands, ConsumeStands
      DEF BootInstall, InstallStep
  <2> QED
    BY <2>1, <2>2, <2>3 DEF IInv
<1>4. CASE BootReceipt
  <2>1. /\ stage = "receipt" /\ stage' = "install" /\ session' = session /\ session = "none"
        /\ kind' = kind /\ dropped' = dropped /\ dest' = dest /\ bak' = bak /\ found' = found
        /\ inst' = IF dropped THEN [Idle EXCEPT !.phase = "extract"] ELSE inst
    BY <1>4 DEF BootReceipt, ConsumeReceipt, BeginInstall, IInv
  <2>2. faults' \in 0 .. MaxFaults /\ faults' >= faults
    BY <1>1, <1>4 DEF BootReceipt, ConsumeReceipt, ReceiptCall, NoFault, Fault, FaultyCalls
  <2>3. InstallTypeOK' /\ (inst.file \in Files)'
    BY <1>1, <1>2, <2>1 DEF InstallTypeOK, Locals, Files
  <2>4. ASSUME faults' <= 1 PROVE Standing'
    <3>1. Standing /\ faults \in {0, 1} /\ faults' \in {0, 1}
      BY <1>1, <2>2, <2>4 DEF IInv
    <3>2. Settled(found) \/ faults' = 1
      BY <2>1, <2>2, <3>1 DEF Standing
    <3>3. (Settled(found)' <=> Settled(found)) /\ (Settled("new")' <=> Settled("new"))
      BY <2>1 DEF Settled, Files
    <3>4. CASE dropped
      BY <1>2, <2>1, <3>2, <3>3, <3>4 DEF Standing, Replacing, Undoing
    <3>5. CASE ~dropped
      BY <2>1, <3>1, <3>3, <3>5 DEF Standing, Replacing, Undoing
    <3> QED
      BY <3>4, <3>5
  <2> QED
    BY <2>1, <2>2, <2>3, <2>4 DEF IInv
<1>5. CASE BootDiscover
  <2>1. /\ stage = "install" /\ stage' = "home" /\ inst.phase = "idle" /\ inst' = inst
        /\ kind' = kind /\ dropped' = dropped /\ dest' = dest /\ bak' = bak
        /\ faults' = faults /\ session' = session /\ found' = Installed
    BY <1>5 DEF BootDiscover, installVars, sessionVars
  <2>2. InstallTypeOK' /\ (inst.file \in Files)'
    BY <1>1, <2>1 DEF InstallTypeOK, Files
  <2>3. ASSUME faults <= 1 PROVE Standing'
    <3>1. Standing /\ (Settled(found) \/ Settled("new"))
      BY <2>1, <2>3 DEF IInv, Standing
    <3>2. Settled(Installed)
      BY <1>1, <3>1, SettledIsInstalled
    <3>3. Settled(found)' /\ (Settled("new")' <=> Settled("new"))
      BY <2>1, <3>2 DEF Settled, Files
    <3> QED
      BY <2>1, <3>1, <3>3 DEF Standing, Replacing, Undoing
  <2> QED
    BY <1>1, <2>1, <2>2, <2>3 DEF IInv
<1>6. CASE PowerCut
  <2>1. /\ stage' = "receipt" /\ session' = "none" /\ inst' = Idle /\ found' = found
        /\ kind' = kind /\ dropped' = dropped /\ dest' = dest /\ bak' = bak
        /\ faults' = faults + 1 /\ faults' <= MaxFaults
    BY <1>6 DEF PowerCut, CutShort, Fault, FaultyCalls
  <2>2. InstallTypeOK' /\ (inst.file \in Files)' /\ faults' \in 0 .. MaxFaults
    BY <1>1, <1>2, <2>1 DEF InstallTypeOK, Locals, Files
  <2>3. ASSUME faults' <= 1 PROVE Standing'
    <3>1. Standing /\ faults' = 1
      BY <1>1, <2>1, <2>3 DEF IInv
    <3>2. Settled("new")' <=> Settled("new")
      BY <2>1 DEF Settled, Files
    <3> QED
      BY <1>2, <2>1, <3>1, <3>2 DEF Standing, Replacing, Undoing
  <2> QED
    BY <2>1, <2>2, <2>3 DEF IInv
<1>7. ASSUME Elsewhere PROVE IInv'
  BY <1>7, ElsewhereSteps, ElsewhereStands
<1>9. CASE BootMigrate
  BY <1>9, MigrationStands
<1>8. CASE UNCHANGED vars
  BY <1>8 DEF vars, installVars, sessionVars, IInv, InstallTypeOK, Files, Standing, Settled,
    Normal, Clear, Undoable, Past, Replaced, Untouched, Lifted, Held, Removed, BackInPlace
<1> QED
  BY <1>3, <1>4, <1>5, <1>6, <1>7, <1>8, <1>9 DEF Next, Boot, Elsewhere

LEMMA Invariant == Spec => []IInv
BY InitInvariant, StepInvariant, PTL DEF Spec

-----------------------------------------------------------------------------
(* Refinement.                                                             *)

LEMMA AbstractInit == Init => Set!Init
BY InstallAssumption DEF Init, InstallInit, Set!Init, File, FilesOf

\* A discovery is a discovery; any other step fails or does nothing.
LEMMA AbstractStep == IInv /\ [Next]_vars => [Set!Next]_<<found, faults>>
<1> SUFFICES ASSUME IInv, [Next]_vars PROVE [Set!Next]_<<found, faults>>
  OBVIOUS
<1> USE CardAssumption
<1>1. InstallTypeOK /\ faults \in 0 .. MaxFaults /\ inst.file \in Files
  BY DEF IInv
<1>2. ASSUME found' = found, faults' \in 0 .. MaxFaults, faults' >= faults
      PROVE  [Set!Next]_<<found, faults>>
  BY <1>1, <1>2 DEF Set!Next, Set!GoWrong
<1>3. CASE BootDiscover
  <2>1. stage = "install" /\ inst.phase = "idle" /\ faults' = faults /\ found' = Installed
    BY <1>3 DEF BootDiscover
  <2>2. faults <= 1 => Installed \in {found, "new"}
    BY <1>1, <2>1, SettledIsInstalled DEF IInv, Standing
  <2>3. Installed \in {"none", "old", "new", "mixed"}
    BY InstallAssumption DEF IInv, InstallTypeOK, Installed, Content, File
  <2>4. Set!Discover
    BY <2>1, <2>2, <2>3 DEF Set!Discover
  <2> QED
    BY <2>4 DEF Set!Next
<1>4. CASE BootInstall
  BY <1>1, <1>2, <1>4, InstallTypes DEF BootInstall
<1>5. CASE BootReceipt
  BY <1>1, <1>2, <1>5
  DEF BootReceipt, ConsumeReceipt, ReceiptCall, NoFault, Fault, FaultyCalls
<1>6. CASE PowerCut
  BY <1>1, <1>2, <1>6 DEF PowerCut, Fault, FaultyCalls
<1>7. CASE Elsewhere
  BY <1>2, <1>7, ElsewhereSteps
<1>9. CASE BootMigrate
  BY <1>2, <1>9, MigrationStands DEF BootMigrate
<1>8. CASE UNCHANGED vars
  BY <1>8 DEF vars
<1> QED
  BY <1>3, <1>4, <1>5, <1>6, <1>7, <1>8, <1>9 DEF Next, Boot, Elsewhere

\* Whatever single call fails, and wherever the power goes, discovery finds the
\* files of a package all old or all new, for any number of files.
THEOREM Refinement == Spec => ImplementsPackageSet
<1>1. IInv /\ [Next]_vars => [Set!Next]_<<found, faults>>
  BY AbstractStep
<1> QED
  BY <1>1, AbstractInit, Invariant, PTL DEF Spec, ImplementsPackageSet, Set!Spec

=============================================================================
