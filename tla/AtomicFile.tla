------------------------------ MODULE AtomicFile ------------------------------
(***************************************************************************)
(* One path of the Memory Stick as fs_psp.cpp writes and reads it: the     *)
(* file, its ".tmp" and its ".bak".  writeFileAtomic is one action per     *)
(* file-system call, so an interruption (power loss, battery pull, forced  *)
(* shutdown) can fall between any two of them, and any call may fail.  The  *)
(* two-step removal is save_manager.cpp's: the file, then its .bak twin.   *)
(*                                                                         *)
(* The Memory Stick is assumed to apply directory updates in the order of  *)
(* the calls, and to refuse a rename onto an existing name.                *)
(***************************************************************************)
EXTENDS Naturals

CONSTANTS Value,      \* complete file contents
          None,       \* the name does not exist
          Torn,       \* an incompletely written file
          NoOp,       \* no operation is in progress
          MaxFaults   \* bound: interruptions and failed calls together

ASSUME FileAssumption ==
  /\ None \notin Value
  /\ Torn \notin Value
  /\ Torn # None
  /\ NoOp \notin Value \cup {None}
  /\ MaxFaults \in Nat

VARIABLES disk,     \* contents behind the three names
          pc,       \* the next file-system call of the operation in progress
          goal,     \* what the operation, or the last one, stores
          hadOld,   \* writeFileAtomic's local of that name
          result,   \* what the last operation told its caller
          before,   \* history: what a read returned when it started
          faults    \* interruptions and failed calls so far

vars == <<disk, pc, goal, hadOld, result, before, faults>>

Name == {"main", "tmp", "bak"}
Label == {"idle", "write_tmp", "drop_bak", "set_aside", "promote", "restore",
          "cleanup", "del_main", "del_bak"}

TypeOK ==
  /\ disk \in [Name -> Value \cup {None, Torn}]
  /\ pc \in Label
  /\ goal \in Value \cup {None}
  /\ hadOld \in BOOLEAN
  /\ result \in {"none", "true", "false", "removed", "interrupted"}
  /\ before \in Value \cup {None}
  /\ faults \in 0 .. MaxFaults

\* openReadWithBackup while the card serves it: the file, or its backup when
\* the file is absent.
Read == IF disk["main"] # None THEN disk["main"] ELSE disk["bak"]

\* What it may return at all: the backup is also tried when the file is there
\* and its open fails.
Readings == {Read, disk["bak"]}

Init ==
  /\ disk = [n \in Name |-> None]
  /\ pc = "idle"
  /\ goal = None
  /\ hadOld = FALSE
  /\ result = "none"
  /\ before = None
  /\ faults = 0

-----------------------------------------------------------------------------
(* The file system.                                                        *)

Fault == faults < MaxFaults /\ faults' = faults + 1

\* sceIoRemove; a missing name is no change.
Removed(n) == [disk EXCEPT ![n] = None]
RemoveCall(n) ==
  \/ disk' = Removed(n) /\ UNCHANGED faults
  \/ disk[n] # None /\ UNCHANGED disk /\ Fault

\* sceIoRename, and the ways it fails.
Renamed(from, to) == [disk EXCEPT ![to] = disk[from], ![from] = None]
RenameWorks(from, to) ==
  /\ disk[from] # None
  /\ disk[to] = None
  /\ disk' = Renamed(from, to)
  /\ UNCHANGED faults
RenameFails(from, to) ==
  IF disk[from] = None \/ disk[to] # None THEN UNCHANGED faults ELSE Fault

Goto(l) == pc' = l /\ UNCHANGED result
Return(res) == pc' = "idle" /\ result' = res

-----------------------------------------------------------------------------
(* fs::writeFileAtomic                                                     *)

BeginWrite(v) ==
  /\ pc = "idle"
  /\ pc' = "write_tmp"
  /\ goal' = v
  /\ before' = Read
  /\ result' = "none"
  /\ UNCHANGED <<disk, hadOld, faults>>

\* Mutant: the data is written over the file itself, not a temporary.
WriteInPlace ==
  /\ pc = "write_tmp"
  /\ \/ /\ disk' = [disk EXCEPT !["tmp"] = goal, !["main"] = Torn]
        /\ Goto("drop_bak")
        /\ UNCHANGED faults
     \/ /\ disk' = [disk EXCEPT !["main"] = Torn]
        /\ Fault
        /\ Return("false")
  /\ UNCHANGED <<goal, hadOld, before>>

\* The stale temporary goes, the new one is written and synced; when that
\* fails it is removed (or, if the card refuses that too, left torn).
WriteTmp ==
  /\ pc = "write_tmp"
  /\ \/ /\ disk' = [disk EXCEPT !["tmp"] = goal]
        /\ Goto("drop_bak")
        /\ UNCHANGED faults
     \/ /\ \E left \in {None, Torn} : disk' = [disk EXCEPT !["tmp"] = left]
        /\ Fault
        /\ Return("false")
  /\ UNCHANGED <<goal, hadOld, before>>

\* The previous backup goes.
DropBak ==
  /\ pc = "drop_bak"
  /\ RemoveCall("bak")
  /\ Goto("set_aside")
  /\ UNCHANGED <<goal, hadOld, before>>

\* Mutant: a file that cannot be set aside is removed to make way.
SetAsideForces ==
  /\ pc = "set_aside"
  /\ hadOld' = (disk["main"] # None)
  /\ disk' = IF disk["bak"] = None THEN Renamed("main", "bak") ELSE Removed("main")
  /\ Goto("promote")
  /\ UNCHANGED <<goal, before, faults>>

\* exists(path), then rename(path, bak) when it does.  A failing stat reads
\* as absent.
SetAside ==
  /\ pc = "set_aside"
  /\ \/ /\ hadOld' = FALSE
        /\ IF disk["main"] = None THEN UNCHANGED faults ELSE Fault
        /\ Goto("promote")
        /\ UNCHANGED disk
     \/ hadOld' = TRUE /\ RenameWorks("main", "bak") /\ Goto("promote")
     \/ /\ hadOld' = TRUE
        /\ disk["main"] # None
        /\ RenameFails("main", "bak")
        /\ disk' = Removed("tmp")
        /\ Return("false")
  /\ UNCHANGED <<goal, before>>

\* rename(tmp, path): the new contents become visible.
Promote ==
  /\ pc = "promote"
  /\ \/ RenameWorks("tmp", "main") /\ Goto("cleanup")
     \/ RenameFails("tmp", "main") /\ UNCHANGED disk /\ Goto("restore")
  /\ UNCHANGED <<goal, hadOld, before>>

\* Mutant: a failed promotion does not put the old file back.
RestoreNothing ==
  /\ pc = "restore"
  /\ disk' = [n \in Name |-> IF n = "main" THEN disk["main"] ELSE None]
  /\ Return("false")
  /\ UNCHANGED <<goal, hadOld, before, faults>>

\* The promotion failed: put the old file back, drop the temporary.
Restore ==
  /\ pc = "restore"
  /\ \/ ~hadOld /\ disk' = Removed("tmp") /\ UNCHANGED faults
     \/ /\ hadOld
        /\ disk["main"] = None
        /\ disk' = [Renamed("bak", "main") EXCEPT !["tmp"] = None]
        /\ UNCHANGED faults
     \/ hadOld /\ RenameFails("bak", "main") /\ disk' = Removed("tmp")
  /\ Return("false")
  /\ UNCHANGED <<goal, hadOld, before>>

\* Synced; the backup goes and the caller is told the write succeeded.
Cleanup ==
  /\ pc = "cleanup"
  /\ RemoveCall("bak")
  /\ Return("true")
  /\ UNCHANGED <<goal, hadOld, before>>

-----------------------------------------------------------------------------
(* deleteState, deleteAll and dropPreview: the file, then its .bak twin.   *)

BeginDelete ==
  /\ pc = "idle"
  /\ pc' = "del_main"
  /\ goal' = None
  /\ before' = Read
  /\ result' = "none"
  /\ UNCHANGED <<disk, hadOld, faults>>

DeleteMain ==
  /\ pc = "del_main"
  /\ RemoveCall("main")
  /\ Goto("del_bak")
  /\ UNCHANGED <<goal, hadOld, before>>

DeleteBak ==
  /\ pc = "del_bak"
  /\ RemoveCall("bak")
  /\ Return("removed")
  /\ UNCHANGED <<goal, hadOld, before>>

-----------------------------------------------------------------------------

\* The power goes: what is on the card stays, a temporary being written is torn.
Interrupt ==
  /\ pc # "idle"
  /\ Fault
  /\ \/ UNCHANGED disk
     \/ pc = "write_tmp" /\ disk' = [disk EXCEPT !["tmp"] = Torn]
  /\ Return("interrupted")
  /\ UNCHANGED <<goal, hadOld, before>>

WriteStep == WriteTmp \/ DropBak \/ SetAside \/ Promote \/ Restore \/ Cleanup
DeleteStep == DeleteMain \/ DeleteBak

Next ==
  \/ \E v \in Value : BeginWrite(v)
  \/ WriteStep
  \/ BeginDelete
  \/ DeleteStep
  \/ Interrupt

Spec == Init /\ [][Next]_vars

-----------------------------------------------------------------------------
(* Properties.                                                             *)

\* No reader ever gets a partly written file, whatever fails and wherever the
\* power goes, its own open of the file included (fs_psp.cpp:248, the reason
\* for writing a temporary).
ReadsAreWhole == Torn \notin Readings

\* After a write, told to have worked or not or interrupted, a reader finds
\* what was there before, the new contents, or nothing: never an older version
\* out of a stale backup, however many calls failed.
OldOrNew ==
  pc = "idle" /\ goal # None => Read \in {before, goal, None}

\* What the caller is told is what a reader finds: contents that were reported
\* as written are in the file whatever failed on the way, and a write reported
\* as failed has left what was there, if nothing else went wrong before
\* (fs_psp.cpp:248-275, the one boolean the save manager shows to the user).
ReportIsTrue ==
  /\ result = "true" => Read = goal
  /\ result = "false" /\ faults <= 1 => Read = before

\* The file that was readable before a write is still readable, in its old or
\* its new form, once the write is over (fs_psp.h:43-44, "falls back to the
\* last atomic-write backup if the main file is absent"; CHANGELOG.md:386,
\* "Writes use recoverable temporary/backup paths").
SavesAreRecoverable ==
  pc = "idle" /\ goal # None /\ before # None => Read # None

\* The three names and the calls on them implement a file that is replaced in
\* one step, up to one fault.
Abstract == INSTANCE DurableFile WITH
  value <- IF pc = "idle" THEN Read ELSE before,
  pending <- IF pc = "idle" THEN NoOp ELSE goal,
  result <- result,
  faults <- faults,
  Tolerance <- 1

ImplementsDurableFile == Abstract!Spec

=============================================================================
