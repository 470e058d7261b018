-------------------------- MODULE AtomicFile_proofs --------------------------
(***************************************************************************)
(* Proofs about AtomicFile for any set of contents and any bound on faults: *)
(* type correctness, that readers only ever see complete files, that a      *)
(* write leaves the old contents, the new ones or nothing, that its caller  *)
(* is told the truth, and that up to one fault the protocol implements      *)
(* DurableFile.                                                             *)
(***************************************************************************)
EXTENDS AtomicFile, TLAPS

WriteLabel == {"write_tmp", "drop_bak", "set_aside", "promote", "restore",
               "cleanup"}

\* Only the temporary is ever torn.
Whole == disk["main"] # Torn /\ disk["bak"] # Torn

\* The operation in progress, and the temporary it has staged.
Staged ==
  /\ pc \in WriteLabel => goal \in Value
  /\ pc \in {"del_main", "del_bak"} => goal = None
  /\ pc \in {"drop_bak", "set_aside", "promote", "restore"} => disk["tmp"] = goal

\* Where the contents found at the start are, call by call.
OldIsHeld ==
  /\ pc \in {"write_tmp", "drop_bak", "del_main"} => Read = before
  /\ pc \in {"set_aside", "promote", "restore"} => Read \in {before, None}
  /\ pc \in {"promote", "restore"} /\ hadOld =>
       disk["main"] = None /\ disk["bak"] = before
  /\ pc = "cleanup" => disk["main"] = goal
  /\ pc = "del_bak" => disk["main"] \in {before, None}

\* What it takes, in faults, to reach a dangerous place.
FaultCount ==
  /\ faults = 0 /\ disk["bak"] # None =>
       pc = "cleanup" \/ (pc = "promote" /\ hadOld)
  /\ pc \in {"set_aside", "promote"} /\ Read = None /\ before # None => faults >= 1
  /\ pc \in {"promote", "restore"} /\ disk["main"] # None => faults >= 1
  /\ pc = "restore" => faults >= 1
  /\ pc = "restore" /\ Read = None /\ before # None => faults >= 2

\* The inductive invariant.
IInv == TypeOK /\ Whole /\ Staged /\ OldIsHeld /\ FaultCount /\ OldOrNew

LEMMA InitInvariant == Init => IInv
<1> SUFFICES ASSUME Init PROVE IInv
  OBVIOUS
<1>1. disk["main"] = None /\ disk["bak"] = None
  BY DEF Init, Name
<1>2. hadOld \in BOOLEAN
  BY Zenon DEF Init
<1>3. TypeOK
  BY <1>2, FileAssumption DEF Init, TypeOK, Label
<1> QED
  BY <1>1, <1>3, FileAssumption
  DEF Init, IInv, Whole, Staged, OldIsHeld, FaultCount, OldOrNew, Read, WriteLabel

LEMMA StepInvariant == IInv /\ [Next]_vars => IInv'
<1> SUFFICES ASSUME IInv, [Next]_vars PROVE IInv'
  OBVIOUS
<1> USE FileAssumption DEF IInv, TypeOK, Whole, Staged, OldIsHeld, FaultCount,
    OldOrNew, Read, Name, Label, WriteLabel, Fault, Removed, RemoveCall, Renamed,
    RenameWorks, RenameFails, Goto, Return
<1>1. ASSUME NEW v \in Value, BeginWrite(v) PROVE IInv'
  BY <1>1 DEF BeginWrite
<1>2. CASE WriteTmp
  BY <1>2 DEF WriteTmp
<1>3. CASE DropBak
  BY <1>3 DEF DropBak
<1>4. CASE SetAside
  <2>1. CASE hadOld' = FALSE
    <3>1. hadOld' \in BOOLEAN
      BY <2>1, Zenon
    <3> QED
      BY <1>4, <2>1, <3>1 DEF SetAside
  <2>2. CASE hadOld' = TRUE /\ RenameWorks("main", "bak")
    BY <1>4, <2>2 DEF SetAside
  <2>3. CASE hadOld' = TRUE /\ disk' = Removed("tmp")
    BY <1>4, <2>3 DEF SetAside
  <2> QED
    BY <1>4, <2>1, <2>2, <2>3 DEF SetAside
<1>5. CASE Promote
  BY <1>5 DEF Promote
<1>6. CASE Restore
  BY <1>6 DEF Restore
<1>7. CASE Cleanup
  BY <1>7 DEF Cleanup
<1>8. CASE BeginDelete
  BY <1>8 DEF BeginDelete
<1>9. CASE DeleteMain
  BY <1>9 DEF DeleteMain
<1>10. CASE DeleteBak
  BY <1>10 DEF DeleteBak
<1>11. CASE Interrupt
  BY <1>11 DEF Interrupt
<1>12. CASE UNCHANGED vars
  BY <1>12 DEF vars
<1> QED
  BY <1>1, <1>2, <1>3, <1>4, <1>5, <1>6, <1>7, <1>8, <1>9, <1>10, <1>11, <1>12
  DEF Next, WriteStep, DeleteStep

LEMMA Invariant == Spec => []IInv
BY InitInvariant, StepInvariant, PTL DEF Spec

\* Every state of the protocol is well typed.
THEOREM TypeCorrect == Spec => []TypeOK
BY Invariant, PTL DEF IInv

\* fs::readFile and fs::readRange never see a partly written file, whatever
\* fails, their own open included, and wherever the power goes.
THEOREM WholeReads == Spec => []ReadsAreWhole
<1>1. IInv => ReadsAreWhole
  BY FileAssumption DEF IInv, Whole, ReadsAreWhole, Readings, Read
<1> QED
  BY Invariant, <1>1, PTL

\* A write never brings back a version older than the one it replaces.
THEOREM NothingOlder == Spec => []OldOrNew
BY Invariant, PTL DEF IInv

-----------------------------------------------------------------------------
(* What the caller is told.                                                *)

\* A report is given only as the operation ends, and then it is true.
ReportInv == (result \in {"true", "false"} => pc = "idle") /\ ReportIsTrue

LEMMA ReportKept == IInv /\ ReportInv /\ [Next]_vars => ReportInv'
<1> SUFFICES ASSUME IInv, ReportInv, [Next]_vars
             PROVE  ReportInv'
  OBVIOUS
<1> USE FileAssumption DEF ReportInv, ReportIsTrue, Read, Fault, Goto, Return
<1>1. faults \in Nat
  BY DEF IInv, TypeOK
<1>2. ASSUME NEW v, BeginWrite(v) \/ BeginDelete
      PROVE  ReportInv'
  BY <1>2 DEF BeginWrite, BeginDelete
<1>3. CASE WriteTmp
  <2>1. Read = before
    BY <1>3 DEF WriteTmp, IInv, OldIsHeld, WriteLabel
  <2>2. disk'["main"] = disk["main"] /\ disk'["bak"] = disk["bak"]
    BY <1>3 DEF WriteTmp, IInv, TypeOK, Name
  <2> QED
    BY <1>3, <2>1, <2>2 DEF WriteTmp
<1>4. CASE DropBak \/ Promote \/ DeleteMain \/ DeleteBak \/ Interrupt
  BY <1>4 DEF DropBak, Promote, DeleteMain, DeleteBak, Interrupt
<1>5. CASE SetAside
  <2>1. CASE result' = "false"
    <3>1. /\ disk["main"] # None /\ disk' = Removed("tmp") /\ pc' = "idle"
          /\ before' = before
      BY <1>5, <2>1 DEF SetAside, ReportInv
    <3>2. Read = before
      BY <1>5, <3>1 DEF SetAside, IInv, OldIsHeld
    <3>3. disk'["main"] = disk["main"]
      BY <3>1 DEF Removed, IInv, TypeOK, Name
    <3> QED
      BY <2>1, <3>1, <3>2, <3>3
  <2> QED
    BY <1>5, <2>1 DEF SetAside
<1>6. CASE Restore
  <2>1. /\ Read \in {before, None}
        /\ Read = None /\ before # None => faults >= 2
        /\ hadOld => disk["main"] = None /\ disk["bak"] = before
    BY <1>6 DEF Restore, IInv, OldIsHeld, FaultCount
  <2>2. /\ pc' = "idle" /\ result' = "false" /\ UNCHANGED before
        /\ faults' \in {faults, faults + 1}
    BY <1>6 DEF Restore, RenameFails
  <2>3. CASE disk' = Removed("tmp")
    <3>1. disk'["main"] = disk["main"] /\ disk'["bak"] = disk["bak"]
      BY <2>3 DEF Removed, IInv, TypeOK, Name
    <3>2. Read' = Read
      BY <3>1
    <3> QED
      BY <1>1, <2>1, <2>2, <3>2
  <2>4. CASE hadOld /\ disk' = [Renamed("bak", "main") EXCEPT !["tmp"] = None]
    <3>1. disk'["main"] = disk["bak"] /\ disk'["bak"] = None
      BY <2>4 DEF Renamed, IInv, TypeOK, Name
    <3> QED
      BY <2>1, <2>2, <2>4, <3>1
  <2> QED
    BY <1>6, <2>3, <2>4 DEF Restore
<1>7. CASE Cleanup
  <2>1. disk["main"] = goal /\ goal # None
    BY <1>7 DEF Cleanup, IInv, OldIsHeld, Staged, WriteLabel
  <2>2. disk'["main"] = disk["main"]
    BY <1>7 DEF Cleanup, RemoveCall, Removed, IInv, TypeOK, Name
  <2> QED
    BY <1>7, <2>1, <2>2 DEF Cleanup
<1>8. CASE UNCHANGED vars
  BY <1>8 DEF vars
<1> QED
  BY <1>2, <1>3, <1>4, <1>5, <1>6, <1>7, <1>8 DEF Next, WriteStep, DeleteStep

\* writeFileAtomic tells its caller the truth: what it reports as written is
\* what a reader finds, whatever failed, and what it reports as failed has left
\* the old contents in place, unless a second thing went wrong.
THEOREM ReportsTrue == Spec => []ReportIsTrue
<1>1. Init => ReportInv
  BY FileAssumption DEF Init, ReportInv, ReportIsTrue
<1>2. ReportInv => ReportIsTrue
  BY DEF ReportInv
<1> QED
  BY Invariant, ReportKept, <1>1, <1>2, PTL DEF Spec

-----------------------------------------------------------------------------
(* Refinement.                                                             *)

LEMMA AbstractInit == Init => Abstract!Init
BY FileAssumption DEF Init, Abstract!Init, Read, Name

\* One call on the Memory Stick is at most one step of the durable file.
LEMMA AbstractStep ==
  IInv /\ IInv' /\ [Next]_vars => [Abstract!Next]_Abstract!vars
<1> SUFFICES ASSUME IInv, IInv', [Next]_vars
             PROVE  [Abstract!Next]_Abstract!vars
  OBVIOUS
<1> USE FileAssumption DEF IInv, TypeOK, Whole, Staged, OldIsHeld, FaultCount,
    OldOrNew, Read, Name, Label, WriteLabel, Fault, Removed, RemoveCall, Renamed,
    RenameWorks, RenameFails, Goto, Return
<1> USE DEF Abstract!Next, Abstract!vars, Abstract!Begin, Abstract!Stumble,
    Abstract!Outcome, Abstract!End, Abstract!Succeed, Abstract!Fail,
    Abstract!Remove, Abstract!Interrupt
<1>1. ASSUME NEW v \in Value, BeginWrite(v) PROVE Abstract!Begin(v)
  BY <1>1 DEF BeginWrite
<1>2. CASE WriteTmp
  BY <1>2 DEF WriteTmp
<1>3. CASE DropBak
  BY <1>3 DEF DropBak
<1>4. CASE SetAside
  BY <1>4 DEF SetAside
<1>5. CASE Promote
  BY <1>5 DEF Promote
<1>6. CASE Restore
  BY <1>6 DEF Restore
<1>7. CASE Cleanup
  BY <1>7 DEF Cleanup
<1>8. CASE BeginDelete
  BY <1>8 DEF BeginDelete
<1>9. CASE DeleteMain
  BY <1>9 DEF DeleteMain
<1>10. CASE DeleteBak
  BY <1>10 DEF DeleteBak
<1>11. CASE Interrupt
  BY <1>11 DEF Interrupt
<1>12. CASE UNCHANGED vars
  BY <1>12 DEF vars
<1> QED
  BY <1>1, <1>2, <1>3, <1>4, <1>5, <1>6, <1>7, <1>8, <1>9, <1>10, <1>11, <1>12
  DEF Next, WriteStep, DeleteStep

\* Up to one fault, a file on the card behaves as one that is replaced in a
\* single step; past that the abstract file may be lost, and so may this one.
THEOREM Refinement == Spec => ImplementsDurableFile
BY Invariant, AbstractInit, AbstractStep, PTL
DEF Spec, ImplementsDurableFile, Abstract!Spec

=============================================================================
