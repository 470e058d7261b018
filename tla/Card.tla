--------------------------------- MODULE Card ---------------------------------
(***************************************************************************)
(* The Memory Stick as the modules composed by Console share it: its calls *)
(* work or fail, and one budget bounds failures and power cuts together.   *)
(* A file that fs::writeFileAtomic keeps is one value here, replaced or    *)
(* not: AtomicFile shows that this is what it implements.                  *)
(***************************************************************************)
EXTENDS Naturals

CONSTANT MaxFaults   \* bound: failed calls and power cuts together

ASSUME CardAssumption == MaxFaults \in Nat

VARIABLE faults

NoFault == UNCHANGED faults
FaultyCalls(n) == faults + n <= MaxFaults /\ faults' = faults + n
Fault == FaultyCalls(1)

=============================================================================
