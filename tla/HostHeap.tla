------------------------------- MODULE HostHeap --------------------------------
(***************************************************************************)
(* The memory of a running core: the bump arena of arena.cpp and the table   *)
(* of host_services.cpp that recycles the blocks a core has freed.           *)
(*                                                                         *)
(* Unsigned arithmetic is modulo MaxWord + 1.  The ROM is taken from the     *)
(* arena directly; everything else goes through the table.  What the callers *)
(* hold is recorded apart from the table, as the regions they were promised. *)
(***************************************************************************)
EXTENDS Naturals

CONSTANTS Base,       \* s_base, the same for every reservation
          Granule,    \* alignment of a block of the partition (256)
          MaxWord,    \* UINT32_MAX
          ArenaSizes, \* s_size of a reservation (what the partition has left)
          MaxBlocks,  \* MAX_CORE_BLOCKS
          Sizes,      \* sizes asked for
          Aligns      \* alignments asked for

\* Alignments are powers of two, and may be larger than the partition's own.
ASSUME HeapAssumption ==
  /\ {Base, Granule, MaxBlocks} \subseteq Nat \ {0} /\ MaxWord \in Nat
  /\ Base % Granule = 0
  /\ ArenaSizes \subseteq 0 .. MaxWord
  /\ Sizes \subseteq 0 .. MaxWord
  /\ Aligns \subseteq Nat \ {0}
  /\ \A a \in Aligns : Granule % a = 0 \/ a % Granule = 0

VARIABLES size, cursor,   \* s_size, s_cursor
          blocks,         \* s_blocks
          session,        \* between beginCoreSession and endCoreSession
          rom,            \* the ROM image, or nothing
          held            \* history: the regions callers hold

vars == <<size, cursor, blocks, session, rom, held>>

\* A table entry; ptr is NULL (0) in one that was never used.
Block == [ptr : Nat, size : Nat, live : BOOLEAN]
Unused == [ptr |-> 0, size |-> 0, live |-> FALSE]
Slots == 1 .. MaxBlocks

Region == [ptr : Nat, size : Nat \ {0}, align : Nat \ {0}]

TypeOK ==
  /\ size \in ArenaSizes /\ cursor \in 0 .. MaxWord
  /\ blocks \in [Slots -> Block]
  /\ session \in BOOLEAN
  /\ rom \in Block
  /\ held \in SUBSET Region

Init ==
  /\ size \in ArenaSizes /\ cursor = 0
  /\ blocks = [i \in Slots |-> Unused]
  /\ session = FALSE
  /\ rom = Unused
  /\ held = {}

-----------------------------------------------------------------------------
(* mem::alloc                                                              *)

\* (s_cursor + align - 1) & ~(align - 1), for a power of two: it is the offset
\* that is aligned, whatever the base.
Start(align) == (cursor + align - 1) - ((cursor + align - 1) % align)

\* Mutant: start + n wraps before it is compared.
FitsWrapped(n, align) == (Start(align) + n) % (MaxWord + 1) <= size

\* The test that does not wrap.
Fits(n, align) ==
  /\ cursor <= MaxWord - (align - 1)
  /\ Start(align) <= size
  /\ n <= size - Start(align)

\* The bytes from Start on are taken.
Bump(n, align) == cursor' = (Start(align) + n) % (MaxWord + 1)

Promise(ptr, n, align) == [ptr |-> ptr, size |-> n, align |-> align]

\* The ROM, straight from the arena.
AllocRom(n, align) ==
  /\ session /\ rom = Unused
  /\ n > 0 /\ Fits(n, align)
  /\ Bump(n, align)
  /\ rom' = [ptr |-> Base + Start(align), size |-> n, live |-> TRUE]
  /\ held' = held \cup {Promise(Base + Start(align), n, align)}
  /\ UNCHANGED <<size, blocks, session>>

-----------------------------------------------------------------------------
(* hostAlloc, hostFree                                                     *)

\* Mutant: the alignment of a recycled block is not looked at.
RecyclableAtAny(i, n, align) ==
  ~blocks[i].live /\ blocks[i].ptr # 0 /\ blocks[i].size >= n

\* A freed block serves a request it is large enough and aligned for.
Recyclable(i, n, align) ==
  /\ ~blocks[i].live /\ blocks[i].ptr # 0
  /\ blocks[i].size >= n /\ blocks[i].ptr % align = 0

\* The first such block goes out again, with the size it was made with.
Recycle(i, n, align) ==
  /\ Recyclable(i, n, align)
  /\ \A j \in 1 .. i - 1 : ~Recyclable(j, n, align)
  /\ blocks' = [blocks EXCEPT ![i].live = TRUE]
  /\ held' = held \cup {Promise(blocks[i].ptr, n, align)}
  /\ UNCHANGED <<size, cursor, session, rom>>

\* Mutant: the bytes are taken before the entry to record them is found.
ExtendTakesFirst(i, n, align) ==
  /\ \A j \in Slots : ~Recyclable(j, n, align)
  /\ Fits(n, align)
  /\ Bump(n, align)
  /\ \/ /\ blocks[i].ptr = 0 /\ \A j \in 1 .. i - 1 : blocks[j].ptr # 0
        /\ blocks' = [blocks EXCEPT ![i] = [ptr |-> Base + Start(align),
                                            size |-> n, live |-> TRUE]]
        /\ held' = held \cup {Promise(Base + Start(align), n, align)}
     \/ (\A j \in Slots : blocks[j].ptr # 0) /\ UNCHANGED <<blocks, held>>
  /\ UNCHANGED <<size, session, rom>>

\* There is none: a new one from the arena, if an entry is left to record it.
Extend(i, n, align) ==
  /\ \A j \in Slots : ~Recyclable(j, n, align)
  /\ blocks[i].ptr = 0 /\ \A j \in 1 .. i - 1 : blocks[j].ptr # 0
  /\ Fits(n, align)
  /\ Bump(n, align)
  /\ blocks' = [blocks EXCEPT ![i] = [ptr |-> Base + Start(align), size |-> n,
                                      live |-> TRUE]]
  /\ held' = held \cup {Promise(Base + Start(align), n, align)}
  /\ UNCHANGED <<size, session, rom>>

\* Mutant: a request for nothing is taken as it is.
HostAllocAsAsked(asked, align) ==
  session /\ \E i \in Slots : Recycle(i, asked, align) \/ Extend(i, asked, align)

\* Zero bytes are one; a request neither way can serve gets NULL.
HostAlloc(asked, align) ==
  LET n == IF asked = 0 THEN 1 ELSE asked
  IN  session /\ \E i \in Slots : Recycle(i, n, align) \/ Extend(i, n, align)

\* The holder of a block gives it back; its entry stays, not live.  (A pointer
\* that is not a live block is ignored.)
HostFree(r) ==
  /\ session /\ r \in held
  /\ \E i \in Slots :
       /\ blocks[i].ptr = r.ptr /\ blocks[i].live
       /\ blocks' = [blocks EXCEPT ![i].live = FALSE]
  /\ held' = held \ {r}
  /\ UNCHANGED <<size, cursor, session, rom>>

-----------------------------------------------------------------------------
(* The session around them (GameSession::startCore and teardown).          *)

BeginCoreSession ==
  /\ ~session
  /\ session' = TRUE
  /\ blocks' = [i \in Slots |-> Unused]
  /\ UNCHANGED <<size, cursor, rom, held>>

\* The core is unloaded, endCoreSession() clears the table, and mem::shutdown()
\* and mem::init() give the arena what the partition has now.
EndCoreSession ==
  /\ session
  /\ session' = FALSE
  /\ blocks' = [i \in Slots |-> Unused]
  /\ rom' = Unused /\ held' = {}
  /\ size' \in ArenaSizes /\ cursor' = 0

Next ==
  \/ \E n \in Sizes, a \in Aligns : HostAlloc(n, a) \/ AllocRom(n, a)
  \/ \E r \in held : HostFree(r)
  \/ BeginCoreSession
  \/ EndCoreSession

Spec == Init /\ [][Next]_vars

-----------------------------------------------------------------------------
(* Properties.                                                             *)

\* The entries of the table and the ROM share no byte, freed or not, all of
\* them lie below the cursor (arena.cpp:80-81, host_services.cpp:35-37), and the
\* last of them ends at it: a request refused because the table is full or the
\* arena too small has taken nothing (host_services.cpp:70-90).
EndsAtCursor(r) == r.ptr # 0 /\ r.ptr + r.size = Base + cursor
NothingLost ==
  cursor # 0 => EndsAtCursor(rom) \/ \E i \in Slots : EndsAtCursor(blocks[i])
Apart(r, s) == r.ptr + r.size <= s.ptr \/ s.ptr + s.size <= r.ptr
TableApart ==
  /\ cursor <= size
  /\ NothingLost
  /\ \A i, j \in Slots :
       i # j /\ blocks[i].ptr # 0 /\ blocks[j].ptr # 0 => Apart(blocks[i], blocks[j])
  /\ \A i \in Slots : blocks[i].ptr # 0 =>
       /\ Base <= blocks[i].ptr /\ blocks[i].ptr + blocks[i].size <= Base + cursor
       /\ rom.ptr # 0 => Apart(blocks[i], rom)

\* The heap keeps the promise made to the core.
Promised == INSTANCE Allocator WITH Limit <- MaxWord

ImplementsAllocator == Promised!Spec

=============================================================================
