------------------------------ MODULE PackageSet ------------------------------
(***************************************************************************)
(* What the core installer promises to core discovery: the files of a      *)
(* package are replaced together.  Discovery finds the set it found before *)
(* or the new one, whole, as long as no more went wrong than is tolerated. *)
(***************************************************************************)
EXTENDS Naturals

CONSTANT Tolerance   \* faults the promise survives

VARIABLES found,    \* what discovery last found: "none", "old", "new", "mixed"
          faults    \* faults so far

Init == found \in {"none", "old"} /\ faults = 0

Discover ==
  /\ found' \in IF faults <= Tolerance THEN {found, "new"}
                ELSE {"none", "old", "new", "mixed"}
  /\ faults' = faults

GoWrong == faults' > faults /\ found' = found

Next == Discover \/ GoWrong

Spec == Init /\ [][Next]_<<found, faults>>

=============================================================================
