----------------------------- MODULE DurableFile -----------------------------
(***************************************************************************)
(* What fs::writeFileAtomic and the save manager's two-step removals       *)
(* promise about one path, seen through fs::readFile: an operation either  *)
(* takes effect or leaves the file as it was, and what the caller is told  *)
(* agrees with what a later read finds.                                    *)
(*                                                                         *)
(* The promise is kept up to Tolerance faults, a fault being an interrupted *)
(* operation or one Memory Stick call that fails.  Past that the file may  *)
(* be lost, and a removal may uncover an older backup.                     *)
(***************************************************************************)
EXTENDS Naturals

CONSTANTS Value,      \* complete file contents
          None,       \* no file: the read fails
          NoOp,       \* no operation is in progress
          Tolerance   \* faults the file survives

VARIABLES value,      \* what fs::readFile returns between operations
          pending,    \* what the operation in progress wants it to return
          result,     \* what the last operation told its caller
          faults      \* faults so far

vars == <<value, pending, result, faults>>

Result == {"none", "true", "false", "removed", "interrupted"}

TypeOK ==
  /\ value \in Value \cup {None}
  /\ pending \in Value \cup {None, NoOp}
  /\ result \in Result
  /\ faults \in Nat

Init ==
  /\ value = None
  /\ pending = NoOp
  /\ result = "none"
  /\ faults = 0

\* A write of x \in Value, or a removal (x = None), starts.
Begin(x) ==
  /\ pending = NoOp
  /\ pending' = x
  /\ result' = "none"
  /\ UNCHANGED <<value, faults>>

\* A call on the Memory Stick fails inside the operation, which goes on.
Stumble ==
  /\ pending # NoOp
  /\ faults' = faults + 1
  /\ UNCHANGED <<value, pending, result>>

\* The values a reader may find once the operation is over: only past the
\* tolerance is anything but `kept` possible.
Outcome(kept) ==
  kept \cup (IF faults' <= Tolerance THEN {}
             ELSE IF pending = None THEN Value \cup {None} ELSE {None})

\* The operation ends with `res`.
End(res, kept) ==
  /\ pending # NoOp
  /\ pending' = NoOp
  /\ result' = res
  /\ value' \in kept
  /\ faults' \in {faults, faults + 1}

Succeed == pending # None /\ End("true", {pending})

Fail == pending # None /\ End("false", Outcome({value}))

Remove == pending = None /\ End("removed", Outcome({value, None}))

Interrupt == End("interrupted", Outcome({value, pending}))

Next ==
  \/ \E x \in Value \cup {None} : Begin(x)
  \/ Stumble
  \/ Succeed
  \/ Fail
  \/ Remove
  \/ Interrupt

Spec == Init /\ [][Next]_vars

=============================================================================
