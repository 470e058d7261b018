------------------------------ MODULE Migration ------------------------------
(***************************************************************************)
(* fs::migrateLegacyRoot merges the tree of an older release, RETROSUITE,  *)
(* into RETROSHELL at the beginning of every start, until it is gone.  A   *)
(* file is copied under its own name or, when that is taken, beside it     *)
(* under the first ".legacy" name that is free, and only then removed.     *)
(*                                                                         *)
(* RETROSHELL is there already, as the new release's cores are: without it *)
(* the whole tree is moved by one rename.  Folders are left out; a folder  *)
(* goes once it is empty, as the root does.                                *)
(***************************************************************************)
EXTENDS Card, FiniteSets

CONSTANTS Legacy,   \* the files of the older release
          Spare     \* the ".legacy" names there are for one: 10

ASSUME MigrationAssumption == IsFiniteSet(Legacy) /\ Spare \in Nat

VARIABLES there,    \* RETROSUITE exists
          old,      \* the files left in it
          copies,   \* what lies in RETROSHELL under the names of a file
          mig       \* the migration's locals

migrationVars == <<there, old, copies, mig>>

Name == 0 .. Spare   \* 0 is the file's own
Copy == {"none", "release", "torn", "whole"}
Waiting == [phase |-> "waiting", todo |-> {}]

MigrationTypeOK ==
  /\ there \in BOOLEAN /\ old \subseteq Legacy
  /\ copies \in [Legacy -> [Name -> Copy]]
  /\ \/ mig \in [phase : {"waiting", "merge", "done"}, todo : SUBSET Legacy]
     \/ mig \in [phase : {"name", "copy", "remove"}, todo : SUBSET Legacy, file : Legacy, name : Name]

\* The new release brings files of its own.
MigrationInit ==
  /\ there \in BOOLEAN
  /\ old = IF there THEN Legacy ELSE {}
  /\ \E released \in SUBSET Legacy :
       copies = [f \in Legacy |-> [n \in Name |->
                   IF f \notin old THEN "whole"
                   ELSE IF n = 0 /\ f \in released THEN "release" ELSE "none"]]
  /\ mig = Waiting

-----------------------------------------------------------------------------

Merge(todo) == mig' = [phase |-> "merge", todo |-> todo]
Holding(f, n, c) == copies' = [copies EXCEPT ![f][n] = c]

\* Mutant: the name that could not be used is tried again.
SameNameAgain ==
  IF mig.name \in 1 .. Spare - 1 THEN mig' = [mig EXCEPT !.phase = "name"]
  ELSE Merge(mig.todo \ {mig.file})

\* The file cannot be copied under this name: the next one is tried, unless it
\* is its own or the last; then the file is left for the next start.
NextName ==
  IF mig.name \in 1 .. Spare - 1 THEN mig' = [mig EXCEPT !.phase = "name", !.name = @ + 1]
  ELSE Merge(mig.todo \ {mig.file})

\* The old tree is found and listed, or either fails.
BeginMigration ==
  /\ mig.phase = "waiting"
  /\ \/ there /\ Merge(old) /\ NoFault
     \/ there /\ Merge({}) /\ Fault
     \/ mig' = [phase |-> "done", todo |-> {}] /\ IF there THEN Fault ELSE NoFault
  /\ UNCHANGED <<there, old, copies>>

\* The files, in whatever order they are listed; a folder may fail to be.
NextFile ==
  /\ mig.phase = "merge"
  /\ \E f \in mig.todo :
       \/ mig' = [phase |-> "name", todo |-> mig.todo, file |-> f, name |-> 0] /\ NoFault
       \/ Merge(mig.todo \ {f}) /\ Fault
  /\ UNCHANGED <<there, old, copies>>

\* Mutant: there is one name beside the file's own.
OneSpareName ==
  /\ mig.phase = "name"
  /\ LET f == mig.file
         n == mig.name
     IN \/ /\ copies[f][n] # "none"
           /\ IF n = 0 THEN mig' = [mig EXCEPT !.name = 1] ELSE Merge(mig.todo \ {f})
           /\ NoFault /\ UNCHANGED copies
        \/ /\ copies[f][n] = "none"
           /\ Holding(f, n, "torn") /\ mig' = [mig EXCEPT !.phase = "copy"]
           /\ NoFault
        \/ NextName /\ Fault /\ UNCHANGED copies
  /\ UNCHANGED <<there, old>>

\* A name that is taken is passed over; a free one, or one whose stat fails, is
\* opened and truncated, if it can be.
TryName ==
  /\ mig.phase = "name"
  /\ LET f == mig.file
         n == mig.name
         taken == copies[f][n] # "none"
     IN \/ /\ taken
           /\ IF n = 0 /\ Spare > 0 THEN mig' = [mig EXCEPT !.name = 1] ELSE NextName
           /\ NoFault /\ UNCHANGED copies
        \/ /\ Holding(f, n, "torn") /\ mig' = [mig EXCEPT !.phase = "copy"]
           /\ IF taken THEN Fault ELSE NoFault
        \/ NextName /\ FaultyCalls(IF taken THEN 2 ELSE 1) /\ UNCHANGED copies
  /\ UNCHANGED <<there, old>>

\* Mutant: the size of the copy is not compared.
CopyUnchecked ==
  /\ mig.phase = "copy"
  /\ \/ Holding(mig.file, mig.name, "whole") /\ NoFault
     \/ UNCHANGED copies /\ Fault
  /\ mig' = [mig EXCEPT !.phase = "remove"]
  /\ UNCHANGED <<there, old>>

\* The contents are copied and the sizes compared; what is not whole is removed,
\* if it can be.
CopyContents ==
  /\ mig.phase = "copy"
  /\ \/ /\ Holding(mig.file, mig.name, "whole") /\ NoFault
        /\ mig' = [mig EXCEPT !.phase = "remove"]
     \/ /\ \/ Holding(mig.file, mig.name, "none") /\ Fault
           \/ UNCHANGED copies /\ FaultyCalls(2)
        /\ NextName
  /\ UNCHANGED <<there, old>>

\* The original goes.  One that cannot be removed is copied once more, unless
\* its stat fails too.
RemoveOriginal ==
  /\ mig.phase = "remove"
  /\ \/ old' = old \ {mig.file} /\ Merge(mig.todo \ {mig.file}) /\ NoFault
     \/ UNCHANGED old /\ NextName /\ Fault
     \/ UNCHANGED old /\ Merge(mig.todo \ {mig.file}) /\ FaultyCalls(2)
  /\ UNCHANGED <<there, copies>>

\* The old root goes when it is empty.
EndMigration ==
  /\ mig.phase = "merge" /\ mig.todo = {}
  /\ \/ there' = (old # {}) /\ NoFault
     \/ old = {} /\ UNCHANGED there /\ Fault
  /\ mig' = [mig EXCEPT !.phase = "done"]
  /\ UNCHANGED <<old, copies>>

MigrationStep == BeginMigration \/ NextFile \/ TryName \/ CopyContents \/ RemoveOriginal
                 \/ EndMigration

=============================================================================
