------------------------------ MODULE FrameQueue ------------------------------
(***************************************************************************)
(* What audio_out.h promises of the single audio path: a bounded queue of   *)
(* frames that the producer appends to, the output takes blocks from in     *)
(* order, and a flush empties.                                             *)
(***************************************************************************)
EXTENDS Naturals, Sequences

CONSTANTS Frame,      \* the frames a core can produce
          Capacity,   \* frames the queue holds
          Block       \* frames of one output block

VARIABLES queue,   \* buffered frames, oldest first
          played   \* the frames of the block the hardware is playing

vars == <<queue, played>>

Init == queue = <<>> /\ played = <<>>

Push(f) ==
  /\ Len(queue) < Capacity
  /\ queue' = Append(queue, f)
  /\ UNCHANGED played

Take(n) ==
  /\ n <= Len(queue)
  /\ played' = SubSeq(queue, 1, n)
  /\ queue' = SubSeq(queue, n + 1, Len(queue))

\* The hardware has played its block.
Finish == played' = <<>> /\ UNCHANGED queue

Flush == queue' = <<>> /\ UNCHANGED played

Next ==
  \/ \E f \in Frame : Push(f)
  \/ \E n \in 0 .. Block : Take(n)
  \/ Finish
  \/ Flush

Spec == Init /\ [][Next]_vars

=============================================================================
