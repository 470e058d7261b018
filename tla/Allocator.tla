------------------------------- MODULE Allocator -------------------------------
(***************************************************************************)
(* What an emulator core is promised of its memory (RSHostAPI::mem_alloc    *)
(* and mem_free): a region granted is aligned as asked, as far as blocks of *)
(* the partition are aligned, lies in the arena and shares no byte with a   *)
(* region somebody still holds.                                            *)
(***************************************************************************)
EXTENDS Naturals

CONSTANTS Base,      \* address of the arena
          Granule,   \* its alignment
          Limit      \* the largest size it can have

VARIABLES size,      \* the arena is Base .. Base + size - 1
          held       \* the regions granted and not yet given back

\* Bytes a region and a region do not share.
Apart(r, s) == r.ptr + r.size <= s.ptr \/ s.ptr + s.size <= r.ptr

Init == size \in 0 .. Limit /\ held = {}

\* The alignment a request for this one can count on.
Alignment(align) == IF Granule % align = 0 THEN align ELSE Granule

Grant(r) ==
  /\ r.ptr % Alignment(r.align) = 0
  /\ Base <= r.ptr /\ r.ptr + r.size <= Base + size
  /\ \A s \in held : Apart(r, s)
  /\ held' = held \cup {r}
  /\ UNCHANGED size

GiveBack(r) == held' = held \ {r} /\ UNCHANGED size

\* The core is gone and the arena is reserved anew for the next one.
Renew == held' = {} /\ size' \in 0 .. Limit

Next ==
  \/ \E r \in held' : Grant(r)
  \/ \E r \in held : GiveBack(r)
  \/ Renew

Spec == Init /\ [][Next]_<<size, held>>

=============================================================================
