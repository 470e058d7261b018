---------------------------- MODULE PackageInstall ----------------------------
(***************************************************************************)
(* core_package_installer.cpp installs a package dropped on the card: the  *)
(* files are unpacked beside their destinations and then replaced one by   *)
(* one, old ones set aside as ".pkg.bak", and put back in reverse when a   *)
(* call fails.  A native emulator replaces file by file and its manifest   *)
(* last; a core and its manifest go through fs::replaceFilePairAtomic,     *)
(* which works call by call over both.                                     *)
(*                                                                         *)
(* One action per call.  The archive is valid: one that is not is refused  *)
(* before anything is touched.                                             *)
(***************************************************************************)
EXTENDS Card

CONSTANT NumNative   \* files of a native package, the manifest included

ASSUME InstallAssumption == NumNative \in Nat /\ NumNative >= 2

VARIABLES kind,      \* "native", or "pair" for a core with its manifest
          dropped,   \* the package lies on the card
          dest,      \* the files of the core
          bak,       \* their .pkg.bak
          inst       \* the installer's locals

File == 1 .. NumNative
FilesOf(k) == IF k = "native" THEN File ELSE 1 .. 2
Manifest == IF kind = "native" THEN NumNative ELSE 2

Content == {"none", "old", "new"}

Phase == {"idle", "extract", "drop", "aside", "promote", "put_back", "remove", "restore",
          "clean", "consume"}

InstallTypeOK ==
  /\ kind \in {"native", "pair"}
  /\ dropped \in BOOLEAN
  /\ dest \in [File -> Content] /\ bak \in [File -> Content]
  /\ inst \in [phase : Phase, file : File, hadOld : SUBSET File, promoted : SUBSET File]

installVars == <<kind, dropped, dest, bak, inst>>
Idle == [phase |-> "idle", file |-> 1, hadOld |-> {}, promoted |-> {}]

InstallInit ==
  /\ kind \in {"native", "pair"}
  /\ dropped = TRUE
  /\ \E old \in {"none", "old"} :
       dest = [f \in File |-> IF f \in FilesOf(kind) THEN old ELSE "none"]
  /\ bak = [f \in File |-> "none"]
  /\ inst = Idle

-----------------------------------------------------------------------------
(* The order of the calls, as operators on the installer's locals.         *)

Goto(i, p, f) == [i EXCEPT !.phase = p, !.file = f]

\* Native files are replaced one after the other, a pair call by call.
NextCall(i) ==
  LET onward == CASE i.phase = "drop" -> "aside" [] i.phase = "aside" -> "promote"
                  [] OTHER -> "clean"
  IN IF kind = "pair" THEN IF i.file = 1 THEN Goto(i, i.phase, 2) ELSE Goto(i, onward, 1)
     ELSE IF i.phase # "promote" THEN Goto(i, onward, i.file)
     ELSE IF i.file < NumNative THEN Goto(i, "drop", i.file + 1) ELSE Goto(i, "clean", 1)

\* Mutant: a package whose install was taken back is used up as well.
UndoThenConsume(i) ==
  IF kind = "pair"
    THEN IF i.file = 1 THEN Goto(i, i.phase, 2)
         ELSE Goto(i, IF i.phase = "remove" THEN "restore" ELSE "consume", 1)
    ELSE IF i.phase = "remove" THEN Goto(i, "restore", i.file)
         ELSE IF i.file > 1 THEN Goto(i, "remove", i.file - 1) ELSE Goto(i, "consume", 1)

\* Native files are put back in reverse.
BeginUndo(i) == Goto(i, "remove", IF kind = "pair" THEN 1 ELSE NumNative)
NextUndo(i) ==
  IF kind = "pair"
    THEN IF i.file = 1 THEN Goto(i, i.phase, 2)
         ELSE IF i.phase = "remove" THEN Goto(i, "restore", 1) ELSE Idle
    ELSE IF i.phase = "remove" THEN Goto(i, "restore", i.file)
         ELSE IF i.file > 1 THEN Goto(i, "remove", i.file - 1) ELSE Idle

\* A rename that works, and one that is refused or fails.
CanRename(from, to, f) == from[f] # "none" /\ to[f] = "none"
RefusedOr(possible) == IF possible THEN Fault ELSE NoFault

-----------------------------------------------------------------------------

BeginInstall == inst' = [Idle EXCEPT !.phase = "extract"]

\* Everything is unpacked first; a file that cannot be is the end of it.
Extract ==
  /\ inst.phase = "extract"
  /\ \/ inst' = Goto(inst, "drop", 1) /\ NoFault
     \/ inst' = Idle /\ Fault
  /\ UNCHANGED <<kind, dropped, dest, bak>>

\* Mutant: the backup of an earlier install is left in the way.
KeepBackup ==
  /\ inst.phase = "drop"
  /\ inst' = NextCall(inst) /\ NoFault
  /\ UNCHANGED <<kind, dropped, dest, bak>>

\* The backup of an earlier install goes.
DropBackup ==
  /\ inst.phase = "drop"
  /\ \/ bak' = [bak EXCEPT ![inst.file] = "none"] /\ NoFault
     \/ bak[inst.file] # "none" /\ UNCHANGED bak /\ Fault
  /\ inst' = NextCall(inst)
  /\ UNCHANGED <<kind, dropped, dest>>

\* The old file is set aside, if there is one; a failing stat finds none.
SetAside ==
  /\ inst.phase = "aside"
  /\ LET f == inst.file
         had == [inst EXCEPT !.hadOld = @ \cup {f}]
     IN \/ /\ RefusedOr(dest[f] # "none")
           /\ inst' = NextCall(inst)
           /\ UNCHANGED <<dest, bak>>
        \/ /\ CanRename(dest, bak, f)
           /\ bak' = [bak EXCEPT ![f] = dest[f]] /\ dest' = [dest EXCEPT ![f] = "none"]
           /\ inst' = NextCall(had)
           /\ NoFault
        \/ /\ dest[f] # "none"
           /\ RefusedOr(bak[f] = "none")
           /\ inst' = BeginUndo(had)
           /\ UNCHANGED <<dest, bak>>
  /\ UNCHANGED <<kind, dropped>>

\* The new file takes its place; a native file that cannot has the old one put
\* back at once.
Promote ==
  /\ inst.phase = "promote"
  /\ LET f == inst.file
     IN \/ /\ dest[f] = "none"
           /\ dest' = [dest EXCEPT ![f] = "new"]
           /\ inst' = NextCall([inst EXCEPT !.promoted = @ \cup {f}])
           /\ NoFault
        \/ /\ RefusedOr(dest[f] = "none")
           /\ inst' = IF kind = "native" THEN Goto(inst, "put_back", f) ELSE BeginUndo(inst)
           /\ UNCHANGED dest
  /\ UNCHANGED <<kind, dropped, bak>>

\* The old file goes back to its place, if it was set aside.
Restored ==
  LET f == inst.file
      possible == f \in inst.hadOld /\ CanRename(bak, dest, f)
  IN \/ /\ possible
        /\ dest' = [dest EXCEPT ![f] = bak[f]] /\ bak' = [bak EXCEPT ![f] = "none"]
        /\ NoFault
     \/ RefusedOr(possible) /\ UNCHANGED <<dest, bak>>

PutBack ==
  /\ inst.phase = "put_back"
  /\ Restored
  /\ inst' = BeginUndo(inst)
  /\ UNCHANGED <<kind, dropped>>

\* Mutant: what was promoted is not taken back.
RemoveNothing ==
  /\ inst.phase = "remove"
  /\ inst' = NextUndo(inst) /\ NoFault
  /\ UNCHANGED <<kind, dropped, dest, bak>>

\* A failed install is taken back; the package stays for the next boot.
Remove ==
  /\ inst.phase = "remove"
  /\ \/ /\ dest' = IF inst.file \in inst.promoted
                     THEN [dest EXCEPT ![inst.file] = "none"] ELSE dest
        /\ NoFault
     \/ inst.file \in inst.promoted /\ UNCHANGED dest /\ Fault
  /\ inst' = NextUndo(inst)
  /\ UNCHANGED <<kind, dropped, bak>>

Restore ==
  /\ inst.phase = "restore"
  /\ Restored
  /\ inst' = NextUndo(inst)
  /\ UNCHANGED <<kind, dropped>>

\* The backups go.
Clean ==
  /\ inst.phase = "clean"
  /\ \/ bak' = [bak EXCEPT ![inst.file] = "none"] /\ NoFault
     \/ bak[inst.file] # "none" /\ UNCHANGED bak /\ Fault
  /\ inst' = IF inst.file = Manifest THEN Goto(inst, "consume", 1)
             ELSE Goto(inst, "clean", inst.file + 1)
  /\ UNCHANGED <<kind, dropped, dest>>

\* The package is removed or, failing that, renamed; else it stays.
Consume ==
  /\ inst.phase = "consume"
  /\ \/ dropped' = FALSE /\ (NoFault \/ Fault)
     \/ UNCHANGED dropped /\ FaultyCalls(2)
  /\ inst' = Idle
  /\ UNCHANGED <<kind, dest, bak>>

InstallStep == \/ Extract \/ DropBackup \/ SetAside \/ Promote \/ PutBack \/ Remove
               \/ Restore \/ Clean \/ Consume

-----------------------------------------------------------------------------
(* CoreRegistry::discover: a core with its manifest and its executable.    *)

Discoverable == dest[Manifest] # "none" /\ dest[1] # "none"

Installed ==
  IF \E c \in Content : \A f \in FilesOf(kind) : dest[f] = c THEN dest[1] ELSE "mixed"

=============================================================================
