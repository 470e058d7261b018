---------------------------- MODULE HostHeap_proofs ----------------------------
(***************************************************************************)
(* The core heap keeps its promise for every arena, every table and every   *)
(* set of requests: HostHeap implements Allocator.                          *)
(***************************************************************************)
EXTENDS HostHeap, Integers, TLAPS

-----------------------------------------------------------------------------
(* Alignment arithmetic.                                                   *)

\* What SMT knows of a division.
LEMMA Division ==
  ASSUME NEW x \in Nat, NEW a \in Nat \ {0}
  PROVE  /\ x = a * (x \div a) + (x % a)
         /\ x \div a \in Nat
         /\ x % a \in 0 .. a - 1
BY SMT

LEMMA MultipleAligned ==
  ASSUME NEW k \in Nat, NEW a \in Nat \ {0}
  PROVE  (k * a) % a = 0
BY SMTT(30)

\* Dropping the remainder leaves a multiple: the mask ~(align - 1).
LEMMA MaskAligned ==
  ASSUME NEW x \in Nat, NEW a \in Nat \ {0}
  PROVE  (x - (x % a)) % a = 0
<1>1. x - (x % a) = (x \div a) * a /\ x \div a \in Nat
  BY Division, SMT
<1> QED
  BY <1>1, MultipleAligned, Zenon

LEMMA SumAligned ==
  ASSUME NEW x \in Nat, NEW y \in Nat, NEW a \in Nat \ {0},
         x % a = 0, y % a = 0
  PROVE  (x + y) % a = 0
<1> DEFINE k == x \div a
           l == y \div a
<1>1. k \in Nat /\ l \in Nat /\ x = k * a /\ y = l * a
  BY Division, SMT
<1> HIDE DEF k, l
<1>2. k * a + l * a = (k + l) * a /\ k + l \in Nat
  BY <1>1, SMT
<1> QED
  BY <1>1, <1>2, MultipleAligned, Zenon

LEMMA DivisorAligned ==
  ASSUME NEW x \in Nat, NEW a \in Nat \ {0}, NEW d \in Nat \ {0},
         x % a = 0, a % d = 0
  PROVE  x % d = 0
<1> DEFINE k == x \div a
           l == a \div d
<1>1. k \in Nat /\ l \in Nat /\ x = k * a /\ a = l * d
  BY Division, SMT
<1> HIDE DEF k, l
<1>2. x = (k * l) * d /\ k * l \in Nat
  BY <1>1, SMT
<1> QED
  BY <1>2, MultipleAligned, Zenon

\* What a request can count on divides its alignment, and the base.
LEMMA AlignmentFacts ==
  ASSUME NEW a \in Aligns
  PROVE  /\ Promised!Alignment(a) \in Nat \ {0}
         /\ a % Promised!Alignment(a) = 0
         /\ Base % Promised!Alignment(a) = 0
<1>1. /\ a \in Nat \ {0} /\ Granule \in Nat \ {0} /\ Base \in Nat
      /\ Base % Granule = 0
      /\ Granule % a = 0 \/ a % Granule = 0
  BY HeapAssumption
<1>2. CASE Granule % a = 0
  <2>1. Promised!Alignment(a) = a
    BY <1>2 DEF Promised!Alignment
  <2>2. a % a = 0
    BY <1>1, SMT
  <2>3. Base % a = 0
    BY <1>1, <1>2, DivisorAligned
  <2> QED
    BY <1>1, <2>1, <2>2, <2>3
<1>3. CASE Granule % a # 0
  BY <1>1, <1>3 DEF Promised!Alignment
<1> QED
  BY <1>2, <1>3

\* An address a multiple of what was asked for is aligned as promised.
LEMMA AlignedEnough ==
  ASSUME NEW a \in Aligns, NEW x \in Nat, x % a = 0
  PROVE  x % Promised!Alignment(a) = 0
<1>1. a \in Nat \ {0}
  BY HeapAssumption
<1> QED
  BY <1>1, AlignmentFacts, DivisorAligned

\* A request that fits starts aligned, at or after the cursor, and ends inside
\* the arena: the sum does not wrap.
LEMMA FitsFacts ==
  ASSUME TypeOK, NEW n \in 0 .. MaxWord, NEW a \in Aligns, Fits(n, a)
  PROVE  /\ Start(a) \in Nat /\ Start(a) >= cursor
         /\ Start(a) + n <= size
         /\ (Start(a) + n) % (MaxWord + 1) = Start(a) + n
         /\ (Base + Start(a)) % Promised!Alignment(a) = 0
<1>1. /\ cursor \in Nat /\ size \in Nat /\ size <= MaxWord /\ MaxWord \in Nat
      /\ a \in Nat \ {0} /\ Base \in Nat /\ n \in Nat
  BY HeapAssumption, SMT DEF TypeOK
<1> DEFINE x == cursor + a - 1
<1>2. x \in Nat /\ x >= cursor + (a - 1)
  BY <1>1, SMT
<1>3. x % a \in 0 .. a - 1
  BY <1>1, <1>2, Division
<1>4. Start(a) = x - (x % a)
  BY DEF Start
<1>5. (x - (x % a)) % a = 0
  BY <1>1, <1>2, MaskAligned
<1> HIDE DEF x
<1>6. Start(a) \in Nat /\ Start(a) >= cursor
  BY <1>1, <1>2, <1>3, <1>4, SMT
<1>7. Start(a) + n <= size
  BY <1>1, <1>6, SMT DEF Fits
<1>8. (Start(a) + n) % (MaxWord + 1) = Start(a) + n
  BY <1>1, <1>6, <1>7, SMT
<1>9. (Base + Start(a)) % Promised!Alignment(a) = 0
  <2>1. Start(a) % Promised!Alignment(a) = 0
    BY <1>4, <1>5, <1>6, AlignedEnough
  <2> QED
    BY <1>1, <1>6, <2>1, AlignmentFacts, SumAligned
<1> QED
  BY <1>6, <1>7, <1>8, <1>9

-----------------------------------------------------------------------------
(* The inductive invariant.                                                *)

\* Nothing taken from the arena is empty, so different extents start apart.
Nonempty ==
  /\ \A i \in Slots : blocks[i].ptr # 0 => blocks[i].size > 0
  /\ rom.ptr # 0 => rom.size > 0

RomBelow ==
  rom.ptr # 0 => Base <= rom.ptr /\ rom.ptr + rom.size <= Base + cursor

\* An entry that was never used is not live.
LiveUsed == \A i \in Slots : blocks[i].live => blocks[i].ptr # 0

InRom(r) == rom.ptr # 0 /\ r.ptr = rom.ptr /\ r.size <= rom.size
InSlot(r, i) == blocks[i].live /\ r.ptr = blocks[i].ptr /\ r.size <= blocks[i].size

\* Every region held is the ROM's or inside a live entry, and no two the same.
Backed == \A r \in held : InRom(r) \/ \E i \in Slots : InSlot(r, i)
OneHolder == \A r, s \in held : r.ptr = s.ptr => r = s
Aligned == \A r \in held : r.ptr % Promised!Alignment(r.align) = 0

\* Without a core nobody holds anything and nothing is taken.
Closed == ~session => held = {} /\ cursor = 0

IInv ==
  /\ TypeOK /\ TableApart
  /\ Nonempty /\ RomBelow /\ LiveUsed
  /\ Backed /\ OneHolder /\ Aligned /\ Closed

LEMMA InitInvariant == Init => IInv
<1> SUFFICES ASSUME Init PROVE IInv
  OBVIOUS
<1> USE HeapAssumption
<1>0. session \in BOOLEAN
  BY Zenon DEF Init
<1>1. TypeOK
  BY <1>0, SMT DEF Init, TypeOK, Block, Unused, Slots
<1>2. cursor <= size
  BY <1>1, SMT DEF Init, TypeOK
<1>4. \A i \in Slots : blocks[i] = Unused
  BY DEF Init
<1>5. TableApart /\ Nonempty /\ RomBelow /\ LiveUsed
  BY <1>2, <1>4 DEF Init, TableApart, NothingLost, Nonempty, RomBelow, LiveUsed, Unused
<1>3. Backed /\ OneHolder /\ Aligned /\ Closed
  BY DEF Init, Backed, OneHolder, Aligned, Closed
<1> QED
  BY <1>1, <1>3, <1>5 DEF IInv

\* Two regions held share no byte: what the callers rely on.
LEMMA HeldApart ==
  ASSUME IInv, NEW r \in held, NEW s \in held, r # s
  PROVE  Apart(r, s)
<1>1. r.ptr # s.ptr
  BY DEF IInv, OneHolder
<1>2. /\ r.ptr \in Nat /\ r.size \in Nat /\ s.ptr \in Nat /\ s.size \in Nat
  BY DEF IInv, TypeOK, Region
<1>3. /\ rom.ptr \in Nat /\ rom.size \in Nat
      /\ \A i \in Slots : blocks[i].ptr \in Nat /\ blocks[i].size \in Nat
  BY DEF IInv, TypeOK, Block
<1>4. CASE InRom(r) /\ InRom(s)
  BY <1>1, <1>4 DEF InRom
<1>5. CASE InRom(r) /\ \E i \in Slots : InSlot(s, i)
  <2>1. PICK i \in Slots : InSlot(s, i)
    BY <1>5
  <2>2. Apart(blocks[i], rom)
    BY <1>5, <2>1 DEF IInv, TableApart, LiveUsed, InRom, InSlot
  <2> QED
    BY <1>2, <1>3, <1>5, <2>1, <2>2, SMT DEF Apart, InRom, InSlot
<1>6. CASE InRom(s) /\ \E i \in Slots : InSlot(r, i)
  <2>1. PICK i \in Slots : InSlot(r, i)
    BY <1>6
  <2>2. Apart(blocks[i], rom)
    BY <1>6, <2>1 DEF IInv, TableApart, LiveUsed, InRom, InSlot
  <2> QED
    BY <1>2, <1>3, <1>6, <2>1, <2>2, SMT DEF Apart, InRom, InSlot
<1>7. CASE (\E i \in Slots : InSlot(r, i)) /\ (\E j \in Slots : InSlot(s, j))
  <2>1. PICK i \in Slots, j \in Slots : InSlot(r, i) /\ InSlot(s, j)
    BY <1>7
  <2>2. i # j
    BY <1>1, <2>1 DEF InSlot
  <2>3. Apart(blocks[i], blocks[j])
    BY <2>1, <2>2 DEF IInv, TableApart, LiveUsed, InSlot
  <2> QED
    BY <1>2, <1>3, <2>1, <2>3, SMT DEF Apart, InSlot
<1> QED
  BY <1>4, <1>5, <1>6, <1>7 DEF IInv, Backed

\* What is held lies below the cursor.
LEMMA HeldBelow ==
  ASSUME IInv, NEW s \in held
  PROVE  Base <= s.ptr /\ s.ptr + s.size <= Base + cursor
<1>1. /\ s.ptr \in Nat /\ s.size \in Nat /\ cursor \in Nat /\ Base \in Nat
      /\ rom.ptr \in Nat /\ rom.size \in Nat
      /\ \A i \in Slots : blocks[i].ptr \in Nat /\ blocks[i].size \in Nat
  BY HeapAssumption, SMT DEF IInv, TypeOK, Region, Block
<1>2. CASE InRom(s)
  BY <1>1, <1>2, SMT DEF IInv, RomBelow, InRom
<1>3. CASE \E i \in Slots : InSlot(s, i)
  BY <1>1, <1>3, SMT DEF IInv, TableApart, LiveUsed, InSlot
<1> QED
  BY <1>2, <1>3 DEF IInv, Backed

\* A freed block is nobody's.
LEMMA FreeApart ==
  ASSUME IInv, NEW s \in held, NEW i \in Slots,
         blocks[i].ptr # 0, ~blocks[i].live
  PROVE  Apart(blocks[i], s) /\ blocks[i].ptr # s.ptr
<1>1. /\ s.ptr \in Nat /\ s.size \in Nat \ {0}
      /\ rom.ptr \in Nat /\ rom.size \in Nat
      /\ \A j \in Slots : blocks[j].ptr \in Nat /\ blocks[j].size \in Nat
      /\ blocks[i].size > 0
  BY HeapAssumption, SMT DEF IInv, TypeOK, Region, Block, Nonempty
<1>2. CASE InRom(s)
  BY <1>1, <1>2, SMT DEF IInv, TableApart, InRom, Apart
<1>3. CASE \E j \in Slots : InSlot(s, j)
  <2>1. PICK j \in Slots : InSlot(s, j)
    BY <1>3
  <2>2. Apart(blocks[i], blocks[j])
    BY <2>1 DEF IInv, TableApart, LiveUsed, InSlot
  <2> QED
    BY <1>1, <2>1, <2>2, SMT DEF InSlot, Apart
<1> QED
  BY <1>2, <1>3 DEF IInv, Backed

-----------------------------------------------------------------------------
(* One lemma per action: the invariant is kept and the step is Allocator's.  *)

LEMMA RecycleStep ==
  ASSUME IInv, NEW n \in 1 .. MaxWord, NEW a \in Aligns, NEW i \in Slots,
         session, Recycle(i, n, a)
  PROVE  IInv' /\ Promised!Next
<1> DEFINE r == Promise(blocks[i].ptr, n, a)
<1>1. /\ ~blocks[i].live /\ blocks[i].ptr # 0
      /\ blocks[i].size >= n /\ blocks[i].ptr % a = 0
      /\ held' = held \cup {r}
      /\ blocks' = [blocks EXCEPT ![i].live = TRUE]
      /\ UNCHANGED <<size, cursor, session, rom>>
  BY DEF Recycle, Recyclable
<1>2. /\ n \in Nat \ {0} /\ a \in Nat \ {0} /\ Base \in Nat /\ cursor \in Nat /\ size \in Nat
      /\ blocks \in [Slots -> Block]
      /\ \A j \in Slots : blocks[j].ptr \in Nat /\ blocks[j].size \in Nat
  BY HeapAssumption, SMT DEF IInv, TypeOK, Block
<1>3. /\ blocks' \in [Slots -> Block]
      /\ \A j \in Slots : /\ blocks'[j].ptr = blocks[j].ptr
                          /\ blocks'[j].size = blocks[j].size
                          /\ j # i => blocks'[j].live = blocks[j].live
      /\ blocks'[i].live
  BY <1>1, <1>2 DEF Block
<1>4. r.ptr = blocks[i].ptr /\ r.size = n /\ r.align = a /\ r \in Region
  BY <1>2 DEF Promise, Region
<1> HIDE DEF r
<1>5. TypeOK'
  BY <1>1, <1>3, <1>4 DEF IInv, TypeOK
<1>6. (TableApart /\ Nonempty /\ RomBelow /\ LiveUsed)'
  BY <1>1, <1>3
  DEF IInv, TableApart, NothingLost, EndsAtCursor, Nonempty, RomBelow, LiveUsed, Apart
<1>7. Backed'
  <2> SUFFICES ASSUME NEW s \in held' PROVE (InRom(s) \/ \E j \in Slots : InSlot(s, j))'
    BY DEF Backed
  <2>1. CASE s = r
    BY <1>1, <1>2, <1>3, <1>4, <2>1 DEF InSlot
  <2>2. CASE s \in held
    BY <1>1, <1>3, <2>2 DEF IInv, Backed, InRom, InSlot
  <2> QED
    BY <1>1, <2>1, <2>2
<1>11. r.ptr % Promised!Alignment(r.align) = 0
  BY <1>1, <1>2, <1>4, AlignedEnough
<1>8. \A s \in held : s.ptr # r.ptr
  BY <1>1, <1>4, FreeApart
<1>9. OneHolder' /\ Aligned'
  BY <1>1, <1>4, <1>8, <1>11 DEF IInv, OneHolder, Aligned
<1>10. Promised!Grant(r)
  <2>1. Base <= r.ptr /\ r.ptr + r.size <= Base + size
    BY <1>1, <1>2, <1>4, SMT DEF IInv, TableApart
  <2>2. ASSUME NEW s \in held PROVE Promised!Apart(r, s)
    <3>1. Apart(blocks[i], s)
      BY <1>1, FreeApart
    <3>2. s.ptr \in Nat /\ s.size \in Nat
      BY DEF IInv, TypeOK, Region
    <3> QED
      BY <1>1, <1>2, <1>4, <3>1, <3>2, SMT DEF Apart, Promised!Apart
  <2> QED
    BY <1>1, <1>11, <2>1, <2>2 DEF Promised!Grant
<1> QED
  BY <1>1, <1>5, <1>6, <1>7, <1>9, <1>10 DEF IInv, Closed, Promised!Next

LEMMA ExtendStep ==
  ASSUME IInv, NEW n \in 1 .. MaxWord, NEW a \in Aligns, NEW i \in Slots,
         session, Extend(i, n, a)
  PROVE  IInv' /\ Promised!Next
<1> DEFINE p == Base + Start(a)
           r == Promise(p, n, a)
<1>1. /\ Fits(n, a) /\ Bump(n, a) /\ blocks[i].ptr = 0
      /\ blocks' = [blocks EXCEPT ![i] = [ptr |-> p, size |-> n, live |-> TRUE]]
      /\ held' = held \cup {r}
      /\ UNCHANGED <<size, session, rom>>
  BY DEF Extend
<1>2. /\ n \in Nat \ {0} /\ n \in 0 .. MaxWord /\ a \in Nat \ {0} /\ Base \in Nat \ {0}
      /\ cursor \in Nat /\ size \in 0 .. MaxWord /\ MaxWord \in Nat /\ Start(a) \in Nat
      /\ rom.ptr \in Nat /\ rom.size \in Nat
      /\ blocks \in [Slots -> Block]
      /\ \A j \in Slots : blocks[j].ptr \in Nat /\ blocks[j].size \in Nat
  BY <1>1, HeapAssumption, FitsFacts, SMT DEF IInv, TypeOK, Block
<1>3. /\ cursor' = Start(a) + n /\ cursor' <= size /\ cursor' >= cursor
      /\ p \in Nat \ {0} /\ p >= Base + cursor /\ p + n = Base + cursor'
      /\ p % Promised!Alignment(a) = 0
  <2>1. /\ Start(a) >= cursor /\ Start(a) + n <= size
        /\ cursor' = Start(a) + n
        /\ p % Promised!Alignment(a) = 0
    BY <1>1, <1>2, FitsFacts DEF Bump, IInv
  <2> QED
    BY <1>2, <2>1, SMT
<1>4. r.ptr = p /\ r.size = n /\ r.align = a /\ r \in Region
  BY <1>2, <1>3 DEF Promise, Region
<1> HIDE DEF p, r
<1>5. /\ blocks' \in [Slots -> Block]
      /\ \A j \in Slots : j # i => blocks'[j] = blocks[j]
      /\ blocks'[i] = [ptr |-> p, size |-> n, live |-> TRUE]
      /\ blocks'[i].ptr = p /\ blocks'[i].size = n /\ blocks'[i].live
  BY <1>1, <1>2, <1>3 DEF Block
<1>6. TypeOK'
  BY <1>1, <1>2, <1>3, <1>4, <1>5, SMT DEF IInv, TypeOK
<1>7. TableApart'
  <2>5. NothingLost'
    <3>1. EndsAtCursor(blocks[i])'
      BY <1>2, <1>3, <1>5 DEF EndsAtCursor
    <3> QED
      BY <3>1 DEF NothingLost
  <2>1. ASSUME NEW j \in Slots, j # i, blocks[j].ptr # 0
        PROVE  /\ Apart(blocks'[i], blocks'[j]) /\ Apart(blocks'[j], blocks'[i])
               /\ blocks'[j].ptr + blocks'[j].size <= Base + cursor'
    BY <1>2, <1>3, <1>5, <2>1, SMT DEF IInv, TableApart, Apart
  <2>2. rom'.ptr # 0 => Apart(blocks'[i], rom')
    BY <1>1, <1>2, <1>3, <1>5, SMT DEF IInv, RomBelow, Apart
  <2>3. ASSUME NEW j \in Slots, NEW k \in Slots, j # k,
               blocks'[j].ptr # 0, blocks'[k].ptr # 0
        PROVE  Apart(blocks'[j], blocks'[k])
    BY <1>5, <2>1, <2>3 DEF IInv, TableApart
  <2>4. ASSUME NEW j \in Slots, blocks'[j].ptr # 0
        PROVE  /\ Base <= blocks'[j].ptr
               /\ blocks'[j].ptr + blocks'[j].size <= Base + cursor'
               /\ rom'.ptr # 0 => Apart(blocks'[j], rom')
    <3>1. CASE j = i
      <4>1. Base <= p /\ p + n <= Base + cursor'
        BY <1>2, <1>3, SMT
      <4> QED
        BY <1>5, <2>2, <3>1, <4>1
    <3>2. CASE j # i
      BY <1>1, <1>5, <2>1, <2>4, <3>2 DEF IInv, TableApart
    <3> QED
      BY <3>1, <3>2
  <2> QED
    BY <1>1, <1>3, <2>3, <2>4, <2>5 DEF TableApart, Apart
<1>8. (Nonempty /\ RomBelow /\ LiveUsed)'
  BY <1>1, <1>2, <1>3, <1>5, SMT DEF IInv, Nonempty, RomBelow, LiveUsed
<1>9. Backed'
  <2> SUFFICES ASSUME NEW s \in held' PROVE (InRom(s) \/ \E j \in Slots : InSlot(s, j))'
    BY DEF Backed
  <2>1. CASE s = r
    BY <1>2, <1>4, <1>5, <2>1 DEF InSlot
  <2>2. CASE s \in held
    <3>1. \A j \in Slots : blocks[j].live => j # i
      BY <1>1 DEF IInv, LiveUsed
    <3> QED
      BY <1>1, <1>5, <2>2, <3>1 DEF IInv, Backed, InRom, InSlot
  <2> QED
    BY <1>1, <2>1, <2>2
<1>10. ASSUME NEW s \in held
       PROVE  s.ptr # r.ptr /\ Promised!Apart(r, s)
  <2>1. s.ptr \in Nat /\ s.size \in Nat \ {0}
    BY DEF IInv, TypeOK, Region
  <2> QED
    BY <1>2, <1>3, <1>4, <2>1, HeldBelow, SMT DEF Promised!Apart
<1>11. OneHolder' /\ Aligned'
  BY <1>1, <1>3, <1>4, <1>10 DEF IInv, OneHolder, Aligned
<1>12. Base <= r.ptr /\ r.ptr + r.size <= Base + size
  BY <1>2, <1>3, <1>4, SMT
<1>13. Promised!Grant(r)
  BY <1>1, <1>3, <1>4, <1>10, <1>12 DEF Promised!Grant
<1> QED
  BY <1>1, <1>6, <1>7, <1>8, <1>9, <1>11, <1>13 DEF IInv, Closed, Promised!Next

LEMMA AllocRomStep ==
  ASSUME IInv, NEW n \in 0 .. MaxWord, NEW a \in Aligns, AllocRom(n, a)
  PROVE  IInv' /\ Promised!Next
<1> DEFINE p == Base + Start(a)
           r == Promise(p, n, a)
<1>1. /\ n > 0 /\ Fits(n, a) /\ Bump(n, a) /\ rom = Unused
      /\ rom' = [ptr |-> p, size |-> n, live |-> TRUE]
      /\ held' = held \cup {r}
      /\ UNCHANGED <<size, blocks, session>>
  BY DEF AllocRom
<1>2. /\ n \in Nat \ {0} /\ a \in Nat \ {0} /\ Base \in Nat \ {0}
      /\ cursor \in Nat /\ size \in 0 .. MaxWord /\ MaxWord \in Nat /\ Start(a) \in Nat
      /\ blocks \in [Slots -> Block]
      /\ \A j \in Slots : blocks[j].ptr \in Nat /\ blocks[j].size \in Nat
  BY <1>1, HeapAssumption, FitsFacts, SMT DEF IInv, TypeOK, Block
<1>3. /\ cursor' = Start(a) + n /\ cursor' <= size /\ cursor' >= cursor
      /\ p \in Nat \ {0} /\ p >= Base + cursor /\ p + n = Base + cursor'
      /\ p % Promised!Alignment(a) = 0
  <2>1. /\ Start(a) >= cursor /\ Start(a) + n <= size
        /\ cursor' = Start(a) + n
        /\ p % Promised!Alignment(a) = 0
    BY <1>1, <1>2, FitsFacts DEF Bump, IInv
  <2> QED
    BY <1>2, <2>1, SMT
<1>4. r.ptr = p /\ r.size = n /\ r.align = a /\ r \in Region
  BY <1>2, <1>3 DEF Promise, Region
<1> HIDE DEF p, r
<1>5. /\ rom' \in Block /\ rom'.ptr = p /\ rom'.size = n /\ rom.ptr = 0
  BY <1>1, <1>2, <1>3 DEF Block, Unused
<1>6. TypeOK'
  BY <1>1, <1>2, <1>3, <1>4, <1>5, SMT DEF IInv, TypeOK
<1>7. TableApart'
  <2>2. NothingLost'
    <3>1. EndsAtCursor(rom)'
      BY <1>2, <1>3, <1>5 DEF EndsAtCursor
    <3> QED
      BY <3>1 DEF NothingLost
  <2>1. ASSUME NEW j \in Slots, blocks[j].ptr # 0
        PROVE  /\ Base <= blocks[j].ptr
               /\ blocks[j].ptr + blocks[j].size <= Base + cursor'
               /\ Apart(blocks[j], rom')
    BY <1>2, <1>3, <1>5, <2>1, SMT DEF IInv, TableApart, Apart
  <2> QED
    BY <1>1, <1>3, <2>1, <2>2 DEF IInv, TableApart, Apart
<1>8. RomBelow'
  <2>1. Base <= p /\ p + n <= Base + cursor'
    BY <1>2, <1>3, SMT
  <2> QED
    BY <1>5, <2>1 DEF RomBelow
<1>9. (Nonempty /\ LiveUsed)'
  BY <1>1, <1>5 DEF IInv, Nonempty, LiveUsed
<1>10. Backed'
  <2> SUFFICES ASSUME NEW s \in held' PROVE (InRom(s) \/ \E j \in Slots : InSlot(s, j))'
    BY DEF Backed
  <2>1. CASE s = r
    BY <1>2, <1>3, <1>4, <1>5, <2>1 DEF InRom
  <2>2. CASE s \in held
    BY <1>1, <1>5, <2>2 DEF IInv, Backed, InRom, InSlot
  <2> QED
    BY <1>1, <2>1, <2>2
<1>11. ASSUME NEW s \in held
       PROVE  s.ptr # r.ptr /\ Promised!Apart(r, s)
  <2>1. s.ptr \in Nat /\ s.size \in Nat \ {0}
    BY DEF IInv, TypeOK, Region
  <2> QED
    BY <1>2, <1>3, <1>4, <2>1, HeldBelow, SMT DEF Promised!Apart
<1>12. OneHolder' /\ Aligned'
  BY <1>1, <1>3, <1>4, <1>11 DEF IInv, OneHolder, Aligned
<1>13. Base <= r.ptr /\ r.ptr + r.size <= Base + size
  BY <1>2, <1>3, <1>4, SMT
<1>14. Promised!Grant(r)
  BY <1>1, <1>3, <1>4, <1>11, <1>13 DEF Promised!Grant
<1> QED
  BY <1>1, <1>6, <1>7, <1>8, <1>9, <1>10, <1>12, <1>14
  DEF IInv, Closed, AllocRom, Promised!Next

LEMMA FreeStep ==
  ASSUME IInv, NEW r \in held, HostFree(r)
  PROVE  IInv' /\ Promised!Next
<1>1. PICK i \in Slots : /\ blocks[i].ptr = r.ptr /\ blocks[i].live
                         /\ blocks' = [blocks EXCEPT ![i].live = FALSE]
  BY DEF HostFree
<1>2. held' = held \ {r} /\ UNCHANGED <<size, cursor, session, rom>>
  BY DEF HostFree
<1>3. /\ blocks' \in [Slots -> Block]
      /\ \A j \in Slots : /\ blocks'[j].ptr = blocks[j].ptr
                          /\ blocks'[j].size = blocks[j].size
                          /\ j # i => blocks'[j].live = blocks[j].live
      /\ ~blocks'[i].live
  BY <1>1 DEF IInv, TypeOK, Block
<1>4. TypeOK'
  BY <1>2, <1>3 DEF IInv, TypeOK
<1>5. (TableApart /\ Nonempty /\ RomBelow /\ LiveUsed)'
  BY <1>2, <1>3
  DEF IInv, TableApart, NothingLost, EndsAtCursor, Nonempty, RomBelow, LiveUsed, Apart
<1>6. Backed'
  <2> SUFFICES ASSUME NEW s \in held' PROVE (InRom(s) \/ \E j \in Slots : InSlot(s, j))'
    BY DEF Backed
  <2>1. s \in held /\ s.ptr # blocks[i].ptr
    BY <1>1, <1>2 DEF IInv, OneHolder
  <2> QED
    BY <1>2, <1>3, <2>1 DEF IInv, Backed, InRom, InSlot
<1>7. OneHolder' /\ Aligned'
  BY <1>2 DEF IInv, OneHolder, Aligned
<1> QED
  BY <1>2, <1>4, <1>5, <1>6, <1>7 DEF IInv, Closed, HostFree, Promised!Next, Promised!GiveBack

LEMMA SessionStep ==
  ASSUME IInv, BeginCoreSession \/ EndCoreSession
  PROVE  IInv' /\ [Promised!Next]_<<size, held>>
<1>1. session' \in BOOLEAN
  BY Zenon DEF BeginCoreSession, EndCoreSession
<1>2. /\ blocks' \in [Slots -> Block]
      /\ \A j \in Slots : /\ blocks'[j].ptr = 0 /\ blocks'[j].size = 0
                          /\ ~blocks'[j].live
  <2>1. blocks' = [j \in Slots |-> Unused]
    BY DEF BeginCoreSession, EndCoreSession
  <2>2. Unused \in Block
    BY DEF Unused, Block
  <2>3. \A j \in Slots : blocks'[j] = Unused
    BY <2>1
  <2> QED
    BY <2>1, <2>2, <2>3 DEF Unused
<1>3. held' = {}
  BY DEF IInv, Closed, BeginCoreSession, EndCoreSession
<1>4. Backed' /\ OneHolder' /\ Aligned' /\ Closed'
  BY <1>3 DEF IInv, Backed, OneHolder, Aligned, Closed, BeginCoreSession, EndCoreSession
<1>5. CASE BeginCoreSession
  <2>1. UNCHANGED <<size, cursor, rom, held>>
    BY <1>5 DEF BeginCoreSession
  <2>2. TypeOK'
    BY <1>1, <1>2, <2>1 DEF IInv, TypeOK
  <2>3. (TableApart /\ Nonempty /\ RomBelow /\ LiveUsed)'
    BY <1>2, <1>5, <2>1
    DEF IInv, Closed, BeginCoreSession, TableApart, NothingLost, EndsAtCursor, Nonempty, RomBelow, LiveUsed
  <2> QED
    BY <1>4, <2>1, <2>2, <2>3 DEF IInv
<1>6. CASE EndCoreSession
  <2>1. /\ rom' \in Block /\ rom'.ptr = 0
        /\ size' \in ArenaSizes /\ size' \in 0 .. MaxWord /\ cursor' = 0
    BY <1>6, HeapAssumption DEF EndCoreSession, Unused, Block
  <2>2. cursor' <= size' /\ cursor' \in 0 .. MaxWord
    BY <2>1, HeapAssumption, SMT
  <2>3. TypeOK'
    BY <1>1, <1>2, <1>3, <2>1, <2>2 DEF IInv, TypeOK
  <2>4. (TableApart /\ Nonempty /\ RomBelow /\ LiveUsed)'
    BY <1>2, <2>1, <2>2 DEF TableApart, NothingLost, Nonempty, RomBelow, LiveUsed
  <2>5. Promised!Renew
    BY <1>3, <2>1 DEF Promised!Renew
  <2> QED
    BY <1>4, <2>3, <2>4, <2>5 DEF IInv, Promised!Next
<1> QED
  BY <1>5, <1>6

LEMMA StepInvariant == IInv /\ [Next]_vars => IInv' /\ [Promised!Next]_<<size, held>>
<1> SUFFICES ASSUME IInv, [Next]_vars
             PROVE  IInv' /\ [Promised!Next]_<<size, held>>
  OBVIOUS
<1>1. ASSUME NEW n \in Sizes, NEW a \in Aligns, HostAlloc(n, a)
      PROVE  IInv' /\ Promised!Next
  <2> DEFINE m == IF n = 0 THEN 1 ELSE n
  <2>1. session /\ \E i \in Slots : Recycle(i, m, a) \/ Extend(i, m, a)
    BY <1>1 DEF HostAlloc
  <2>2. PICK i \in Slots : Recycle(i, m, a) \/ Extend(i, m, a)
    BY <2>1
  <2>3. CASE MaxWord > 0
    <3>1. m \in 1 .. MaxWord
      BY <2>3, HeapAssumption, SMT
    <3> QED
      BY <2>1, <2>2, <3>1, RecycleStep, ExtendStep
  <2>4. CASE MaxWord = 0
    \* An arena without a byte serves nobody.
    <3>1. m \in Nat \ {0} /\ n = 0 /\ m = 1
      BY <2>4, HeapAssumption, SMT
    <3>2. size = 0 /\ cursor = 0
      BY <2>4, HeapAssumption, SMT DEF IInv, TypeOK
    <3>3. \A j \in Slots : blocks[j].ptr = 0
      <4> SUFFICES ASSUME NEW j \in Slots, blocks[j].ptr # 0 PROVE FALSE
        OBVIOUS
      <4>1. /\ blocks[j].ptr \in Nat /\ blocks[j].size \in Nat /\ blocks[j].size > 0
            /\ Base <= blocks[j].ptr /\ blocks[j].ptr + blocks[j].size <= Base + cursor
            /\ Base \in Nat
        BY HeapAssumption DEF IInv, TypeOK, Block, TableApart, Nonempty
      <4> QED
        BY <3>2, <4>1, SMT
    <3>4. ~Recycle(i, m, a)
      BY <3>3 DEF Recycle, Recyclable
    <3>5. a \in Nat \ {0} /\ Start(a) \in Nat /\ m <= size - Start(a)
      <4>1. a \in Nat \ {0}
        BY HeapAssumption
      <4>2. (cursor + a - 1) % a \in 0 .. a - 1
        BY <3>2, <4>1, Division, SMT
      <4>3. Start(a) \in Nat
        BY <3>2, <4>1, <4>2, SMT DEF Start
      <4> QED
        BY <2>2, <3>4, <4>1, <4>3 DEF Extend, Fits
    <3> QED
      BY <3>1, <3>2, <3>5, SMT
  <2> QED
    BY <2>3, <2>4, HeapAssumption, SMT
<1>2. ASSUME NEW n \in Sizes, NEW a \in Aligns, AllocRom(n, a)
      PROVE  IInv' /\ Promised!Next
  BY <1>2, HeapAssumption, AllocRomStep
<1>3. ASSUME NEW r \in held, HostFree(r)
      PROVE  IInv' /\ Promised!Next
  BY <1>3, FreeStep
<1>4. CASE BeginCoreSession \/ EndCoreSession
  BY <1>4, SessionStep
<1>5. CASE UNCHANGED vars
  <2>1. IInv'
    BY <1>5 DEF vars, IInv, TypeOK, TableApart, NothingLost, EndsAtCursor, Apart, Nonempty, RomBelow, LiveUsed,
                Backed, InRom, InSlot, OneHolder, Aligned, Closed
  <2> QED
    BY <1>5, <2>1 DEF vars
<1> QED
  BY <1>1, <1>2, <1>3, <1>4, <1>5 DEF Next

LEMMA Invariant == Spec => []IInv
<1> QED
  BY InitInvariant, StepInvariant, PTL DEF Spec

-----------------------------------------------------------------------------
(* The results.                                                            *)

\* Every variable keeps its type; the cursor is a word that never wrapped.
THEOREM TypeCorrect == Spec => []TypeOK
<1>1. IInv => TypeOK
  BY DEF IInv
<1> QED
  BY <1>1, Invariant, PTL

\* What the table and the ROM take from the arena never overlaps
\* (host_services.cpp:68-90, arena.cpp:61-90).
THEOREM ExtentsApart == Spec => []TableApart
<1>1. IInv => TableApart
  BY DEF IInv
<1> QED
  BY <1>1, Invariant, PTL

\* The core heap is an allocator: a region granted is aligned, inside the arena
\* and shares no byte with one still held, through frees, recycling and sessions.
THEOREM Refinement == Spec => ImplementsAllocator
<1>1. Init => Promised!Init
  BY HeapAssumption DEF Init, Promised!Init
<1>2. IInv /\ [Next]_vars => [Promised!Next]_<<size, held>>
  BY StepInvariant
<1> QED
  BY <1>1, <1>2, Invariant, PTL DEF Spec, ImplementsAllocator, Promised!Spec

=============================================================================
