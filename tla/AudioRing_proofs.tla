---------------------------- MODULE AudioRing_proofs ----------------------------
(***************************************************************************)
(* Proofs about AudioRing for every ring, block and push size: cursors stay *)
(* ordered through wrap-around, an acknowledged clear() lets nothing stale  *)
(* be played and drops nothing fresh, and the ring and its two threads      *)
(* implement the bounded queue of FrameQueue.                               *)
(***************************************************************************)
EXTENDS AudioRing, SequenceTheorems, TLAPS

-----------------------------------------------------------------------------
(* Remainders.                                                             *)

LEMMA Division ==
  ASSUME NEW n \in Nat \ {0}, NEW x \in Nat
  PROVE  \E q \in Nat : x = n * q + (x % n)
<1>1. x = n * (x \div n) + (x % n) /\ x \div n \in Int /\ x % n < n
  OBVIOUS
<1>2. CASE x \div n >= 0
  <2>1. x \div n \in Nat
    BY <1>1, <1>2
  <2> QED
    BY <1>1, <2>1
<1>3. CASE x \div n <= -1
  <2>1. n * (x \div n) <= -n
    BY <1>1, <1>3
  <2> QED
    BY <1>1, <2>1
<1> QED
  BY <1>1, <1>2, <1>3

LEMMA Remainder ==
  ASSUME NEW n \in Nat \ {0}, NEW q \in Nat, NEW r \in Nat, r < n
  PROVE  (q * n + r) % n = r
OBVIOUS

LEMMA RemainderOfMultiple ==
  ASSUME NEW n \in Nat \ {0}, NEW k \in Nat \ {0}, NEW x \in Nat
  PROVE  (x % (k * n)) % n = x % n
<1>1. k * n \in Nat \ {0}
  OBVIOUS
<1>2. PICK q \in Nat : x = (k * n) * q + (x % (k * n))
  BY <1>1, Division
<1> DEFINE y == x % (k * n)
<1>3. y \in Nat
  BY <1>1
<1>4. PICK p \in Nat : y = n * p + (y % n)
  BY <1>3, Division
<1>5. y % n \in Nat /\ y % n < n
  BY <1>3
<1> HIDE DEF y
<1>6. x = (k * q + p) * n + (y % n)
  <2>1. x = (k * n) * q + y
    BY <1>2 DEF y
  <2>2. x = (k * n) * q + (n * p + (y % n))
    BY <2>1, <1>4
  <2> QED
    BY <2>2, <1>5
<1>7. k * q + p \in Nat
  OBVIOUS
<1> QED
  BY <1>5, <1>6, <1>7, Remainder DEF y

\* Numbers less than n apart have different remainders.
LEMMA RemaindersDiffer ==
  ASSUME NEW n \in Nat \ {0}, NEW x \in Nat, NEW d \in Nat \ {0}, d < n
  PROVE  (x + d) % n # x % n
<1> DEFINE r == x % n
<1>1. PICK q \in Nat : x = n * q + r
  BY Division
<1>2. r \in Nat /\ r < n
  OBVIOUS
<1> HIDE DEF r
<1>3. CASE r + d < n
  <2>1. x + d = q * n + (r + d)
    BY <1>1, <1>2
  <2>2. r + d \in Nat
    BY <1>2
  <2>3. (x + d) % n = r + d
    BY <1>3, <2>1, <2>2, Remainder
  <2> QED
    BY <1>2, <2>3 DEF r
<1>4. CASE r + d >= n
  <2>1. x + d = (q + 1) * n + (r + d - n)
    BY <1>1, <1>2
  <2>2. r + d - n \in Nat /\ r + d - n < n /\ q + 1 \in Nat
    BY <1>2, <1>4
  <2>3. (x + d) % n = r + d - n
    BY <2>1, <2>2, Remainder
  <2> QED
    BY <1>2, <2>3 DEF r
<1> QED
  BY <1>2, <1>3, <1>4

-----------------------------------------------------------------------------
(* Cursors.                                                                *)

LEMMA Bounds ==
  /\ Ring \in Nat \ {0} /\ Block \in Nat \ {0} /\ MaxPush \in Nat \ {0}
  /\ Wrap \in Nat \ {0} /\ Wrap >= 2 * Ring
  /\ \E k \in Nat \ {0} : Wrap = k * Ring
<1>1. Ring \in Nat \ {0} /\ Block \in Nat \ {0} /\ MaxPush \in Nat \ {0}
  BY RingAssumption
<1>2. Wrap \in Nat \ {0} /\ Wrap % Ring = 0 /\ Wrap >= 2 * Ring
  BY RingAssumption
<1>3. PICK k \in Nat : Wrap = Ring * k + (Wrap % Ring)
  <2>1. Wrap \in Nat
    BY <1>2
  <2> QED
    BY <1>1, <2>1, Division
<1>4. Wrap = Ring * k
  BY <1>1, <1>2, <1>3
<1>5. k # 0
  BY <1>1, <1>2, <1>4
<1>6. Wrap = k * Ring
  BY <1>1, <1>4
<1> QED
  BY <1>1, <1>2, <1>5, <1>6

LEMMA PlusIs ==
  ASSUME NEW c \in Cursor, NEW n \in 0 .. Wrap
  PROVE  /\ Plus(c, n) \in Cursor
         /\ Plus(c, n) = IF c + n < Wrap THEN c + n ELSE c + n - Wrap
BY Bounds DEF Plus, Cursor

LEMMA MinusIs ==
  ASSUME NEW c \in Cursor, NEW d \in Cursor
  PROVE  /\ Minus(c, d) \in Cursor
         /\ Minus(c, d) = IF d <= c THEN c - d ELSE c + Wrap - d
BY Bounds DEF Minus, Cursor

LEMMA CursorSteps ==
  ASSUME NEW w \in Cursor, NEW r \in Cursor
  PROVE  /\ Minus(w, w) = 0
         /\ Plus(r, Minus(w, r)) = w
         /\ Minus(w, r) < Wrap - 1 => Minus(Plus(w, 1), r) = Minus(w, r) + 1
         /\ \A n \in 0 .. Minus(w, r) : Minus(w, Plus(r, n)) = Minus(w, r) - n
<1> DEFINE d == Minus(w, r)
<1>1. d \in Cursor /\ d = IF r <= w THEN w - r ELSE w + Wrap - r
  BY MinusIs
<1>2. w \in 0 .. Wrap - 1 /\ r \in 0 .. Wrap - 1 /\ d \in 0 .. Wrap - 1
  BY <1>1 DEF Cursor
<1> HIDE DEF d
<1>3. Minus(w, w) = 0
  <2>1. Minus(w, w) = IF w <= w THEN w - w ELSE w + Wrap - w
    BY MinusIs
  <2> QED
    BY <1>2, <2>1
<1>4. \A n \in 0 .. d : /\ Plus(r, n) \in Cursor
                       /\ Plus(r, n) = IF r + n < Wrap THEN r + n ELSE r + n - Wrap
  <2> TAKE n \in 0 .. d
  <2>1. n \in 0 .. Wrap
    BY <1>2, Bounds
  <2> QED
    BY <2>1, PlusIs
<1>5. Plus(r, d) = w
  <2>1. Plus(r, d) = IF r + d < Wrap THEN r + d ELSE r + d - Wrap
    BY <1>2, <1>4
  <2> QED
    BY <1>1, <1>2, <2>1, Bounds
<1>6. ASSUME d < Wrap - 1
      PROVE  Minus(Plus(w, 1), r) = d + 1
  <2>1. 1 \in 0 .. Wrap
    BY Bounds
  <2>2. Plus(w, 1) \in Cursor /\ Plus(w, 1) = IF w + 1 < Wrap THEN w + 1 ELSE w + 1 - Wrap
    BY <2>1, PlusIs
  <2>3. Minus(Plus(w, 1), r)
          = IF r <= Plus(w, 1) THEN Plus(w, 1) - r ELSE Plus(w, 1) + Wrap - r
    BY <2>2, MinusIs
  <2> QED
    BY <1>1, <1>2, <1>6, <2>2, <2>3, Bounds
<1>7. \A n \in 0 .. d : Minus(w, Plus(r, n)) = d - n
  <2> TAKE n \in 0 .. d
  <2>1. Plus(r, n) \in Cursor /\ Plus(r, n) = IF r + n < Wrap THEN r + n ELSE r + n - Wrap
    BY <1>4
  <2>2. Minus(w, Plus(r, n))
          = IF Plus(r, n) <= w THEN w - Plus(r, n) ELSE w + Wrap - Plus(r, n)
    BY <2>1, MinusIs
  <2> QED
    BY <1>1, <1>2, <2>1, <2>2, Bounds
<1> QED
  BY <1>3, <1>5, <1>6, <1>7 DEF d

LEMMA PlusPlus ==
  ASSUME NEW c \in Cursor, NEW m \in Nat, NEW n \in Nat, m + n <= Wrap
  PROVE  Plus(Plus(c, m), n) = Plus(c, m + n)
<1>1. m \in 0 .. Wrap /\ n \in 0 .. Wrap /\ m + n \in 0 .. Wrap
  BY Bounds
<1> DEFINE e == Plus(c, m)
<1>2. e \in Cursor /\ e = IF c + m < Wrap THEN c + m ELSE c + m - Wrap
  BY <1>1, PlusIs
<1>3. Plus(c, m + n) = IF c + (m + n) < Wrap THEN c + (m + n) ELSE c + (m + n) - Wrap
  BY <1>1, PlusIs
<1> HIDE DEF e
<1>4. Plus(e, n) = IF e + n < Wrap THEN e + n ELSE e + n - Wrap
  BY <1>1, <1>2, PlusIs
<1>5. c \in 0 .. Wrap - 1
  BY DEF Cursor
<1> QED
  BY <1>1, <1>2, <1>3, <1>4, <1>5, Bounds DEF e

\* The slot of the i-th frame after a cursor.
Slot(c, i) == Plus(c, i) % Ring

LEMMA Slots ==
  ASSUME NEW c \in Cursor, NEW i \in 0 .. Ring
  PROVE  /\ Slot(c, i) = (c + i) % Ring
         /\ Slot(c, i) \in 0 .. Ring - 1
         /\ \A j \in 0 .. Ring : i < j /\ j < i + Ring => Slot(c, j) # Slot(c, i)
<1> USE Bounds DEF Cursor
<1>1. \A j \in 0 .. Ring : Slot(c, j) = (c + j) % Ring
  <2> TAKE j \in 0 .. Ring
  <2>1. PICK k \in Nat \ {0} : Wrap = k * Ring
    BY Bounds
  <2>2. c + j \in Nat
    OBVIOUS
  <2> QED
    BY <2>1, <2>2, RemainderOfMultiple DEF Slot, Plus
<1>2. (c + i) % Ring \in 0 .. Ring - 1
  OBVIOUS
<1>3. ASSUME NEW j \in 0 .. Ring, i < j, j < i + Ring
      PROVE  Slot(c, j) # Slot(c, i)
  <2>1. j - i \in Nat \ {0} /\ j - i < Ring /\ c + i \in Nat /\ c + j = (c + i) + (j - i)
    BY <1>3
  <2>2. ((c + i) + (j - i)) % Ring # (c + i) % Ring
    BY <2>1, RemaindersDiffer
  <2> QED
    BY <1>1, <2>1, <2>2
<1> QED
  BY <1>1, <1>2, <1>3

-----------------------------------------------------------------------------
(* The inductive invariant.                                                *)

Held(i) == ring[Slot(read, i)]

\* What the two threads may count on of the cursors while they are at work.
CountInv ==
  /\ Buffered <= Ring
  /\ apc \in {"copy", "publish"} => lread = read /\ take <= Buffered
  /\ mpc = "publish" => Buffered < Ring /\ left > 0

\* The audio thread is there until shutdown() is asked to end it.
ThreadInv ==
  /\ ~running /\ mpc \notin {"join", "done"} => apc = "ended"
  /\ mpc = "clear" => running

\* The block is a copy of the oldest frames.
BlockInv ==
  /\ apc \in {"top", "flush", "load", "ended"} => block = <<>>
  /\ apc = "copy" => Len(block) <= take
  /\ apc = "publish" => Len(block) = take
  /\ apc \in {"copy", "publish"} => \A i \in 1 .. Len(block) : block[i] = Held(i - 1)

\* As long as no clear() has given up: a request is there only while clear()
\* waits; once it is taken, nothing stale is left outside the flush; and
\* between clear() calls everything is of the present generation.
FlushInv ==
  ~late =>
    /\ flush => mpc = "clear"
    /\ mpc = "clear" /\ ~flush => apc = "flush" \/ (Buffered = 0 /\ block = <<>>)
    /\ mpc # "clear" =>
         /\ \A i \in 1 .. Len(block) : block[i].gen = gen
         /\ apc # "flush" => \A i \in 0 .. Buffered - 1 : Held(i).gen = gen
         /\ mpc = "publish" => ring[write % Ring].gen = gen
    /\ strict /\ apc = "flush" => mpc = "clear"

IInv == TypeOK /\ CountInv /\ ThreadInv /\ BlockInv /\ FlushInv

LEMMA InitInv == Init => IInv
<1> SUFFICES ASSUME Init
             PROVE  IInv
  OBVIOUS
<1>1. 0 \in Cursor /\ NoFrame \in Frame
  BY Bounds DEF Cursor, Frame, NoFrame
<1>2. Buffered = 0
  BY <1>1, MinusIs DEF Init, Buffered
<1>3. {running, flush, paused, resample, late, strict} \subseteq BOOLEAN
  BY Zenon DEF Init
<1>4. TypeOK
  BY <1>1, <1>3, Bounds DEF Init, TypeOK
<1>5. CountInv
  BY <1>2, Bounds DEF Init, CountInv
<1>6. ThreadInv
  BY Zenon DEF Init, ThreadInv
<1>7. BlockInv
  BY DEF Init, BlockInv
<1>8. FlushInv
  BY <1>2 DEF Init, FlushInv
<1> QED
  BY <1>4, <1>5, <1>6, <1>7, <1>8 DEF IInv

\* Types of the variables that hold neither frames nor booleans.
NumbersOK ==
  /\ write \in Cursor /\ read \in Cursor /\ lread \in Cursor
  /\ apc \in {"top", "flush", "load", "copy", "publish", "output", "ended"}
  /\ take \in 0 .. Block
  /\ mpc \in {"idle", "push", "publish", "clear", "join", "done"}
  /\ left \in 0 .. MaxPush
  /\ gen \in {0, 1}
FramesOK ==
  /\ ring \in [0 .. Ring - 1 -> Frame]
  /\ block \in Seq(Frame) /\ Len(block) <= Block
FlagsOK == {running, flush, paused, resample, late, strict} \subseteq BOOLEAN

LEMMA BufferedType == IInv => Buffered \in 0 .. Ring
BY MinusIs DEF IInv, TypeOK, CountInv, Buffered, Cursor

LEMMA NumbersKept == IInv /\ [Next]_vars => NumbersOK'
<1> SUFFICES ASSUME IInv, [Next]_vars
             PROVE  NumbersOK'
  OBVIOUS
<1>1. NumbersOK
  BY DEF IInv, TypeOK, NumbersOK
<1>2. Buffered \in 0 .. Ring
  BY BufferedType
<1>3. Lesser(Buffered, Block) \in 0 .. Block
  BY <1>2, Bounds DEF Lesser
<1>4. Plus(write, 1) \in Cursor
  BY <1>1, PlusIs, Bounds DEF NumbersOK
<1>5. CASE AudioStep
  <2>1. UNCHANGED <<mpc, left, gen>> /\ UNCHANGED write
    BY <1>5 DEF AudioStep, LoopTop, HonourFlush, LoadCursors, CopyFrame, PublishRead, Output,
                mainVars, shared
  <2>2. CASE LoopTop \/ HonourFlush \/ CopyFrame \/ Output
    BY <1>1, <2>1, <2>2 DEF LoopTop, HonourFlush, CopyFrame, Output, NumbersOK, shared
  <2>3. CASE LoadCursors
    BY <1>1, <1>3, <2>1, <2>3, Bounds DEF LoadCursors, NumbersOK, shared
  <2>4. CASE PublishRead
    <3>1. take \in 0 .. Wrap
      BY <1>1, <1>2, <2>4, Bounds DEF IInv, CountInv, PublishRead, NumbersOK
    <3>2. Plus(lread, take) \in Cursor
      BY <1>1, <3>1, PlusIs DEF NumbersOK
    <3>3. 0 \in Cursor /\ 0 \in 0 .. Block
      BY Bounds DEF Cursor
    <3> QED
      BY <1>1, <2>1, <2>4, <3>2, <3>3 DEF PublishRead, NumbersOK
  <2> QED
    BY <1>5, <2>2, <2>3, <2>4 DEF AudioStep
<1>6. CASE MainStep
  <2>1. UNCHANGED <<lread, apc, take>>
    BY <1>6 DEF MainStep, audioVars
  <2>2. CASE \E n \in 1 .. MaxPush, rs \in BOOLEAN : BeginPush(n, rs)
    BY <1>1, <2>1, <2>2, Bounds DEF BeginPush, NumbersOK, shared
  <2>3. CASE PushFrame
    BY <1>1, <2>1, <2>3, Bounds DEF PushFrame, NumbersOK
  <2>4. CASE PublishWrite
    BY <1>1, <1>4, <2>1, <2>4, Bounds DEF PublishWrite, NumbersOK, IInv, CountInv
  <2>5. CASE EndPush \/ EndClear \/ ClearTimesOut \/ SetPaused \/ BeginShutdown \/ EndShutdown
    BY <1>1, <2>1, <2>5
    DEF EndPush, EndClear, ClearTimesOut, SetPaused, BeginShutdown, EndShutdown,
        ClearReturns, NumbersOK, shared, mainVars
  <2>6. CASE BeginClear
    BY <1>1, <2>1, <2>6 DEF BeginClear, ClearReturns, NumbersOK
  <2> QED
    BY <1>6, <2>2, <2>3, <2>4, <2>5, <2>6 DEF MainStep
<1>7. CASE UNCHANGED vars
  BY <1>1, <1>7 DEF vars, shared, audioVars, mainVars, NumbersOK
<1> QED
  BY <1>5, <1>6, <1>7 DEF Next, Exited

LEMMA FramesKept == IInv /\ [Next]_vars => FramesOK'
<1> SUFFICES ASSUME IInv, [Next]_vars
             PROVE  FramesOK'
  OBVIOUS
<1>1. FramesOK /\ write \in Cursor /\ lread \in Cursor /\ gen \in {0, 1}
  BY DEF IInv, TypeOK, FramesOK
<1>2. CASE UNCHANGED ring /\ block' \in {block, <<>>}
  <2>1. <<>> \in Seq(Frame) /\ Len(<<>>) <= Block
    BY Bounds
  <2>2. CASE block' = block
    BY <1>1, <1>2, <2>2 DEF FramesOK
  <2>3. CASE block' = <<>>
    BY <1>1, <1>2, <2>1, <2>3 DEF FramesOK
  <2> QED
    BY <1>2, <2>2, <2>3
<1>3. CASE CopyFrame
  <2>1. CASE Len(block) < take
    <3> DEFINE f == ring[(lread + Len(block)) % Ring]
    <3>1. block' = Append(block, f) /\ ring' = ring
      BY <1>3, <2>1 DEF CopyFrame, shared
    <3>2. Len(block) \in Nat /\ lread \in Nat
      BY <1>1 DEF FramesOK, Cursor
    <3>3. (lread + Len(block)) % Ring \in 0 .. Ring - 1
      BY <3>2, Bounds
    <3>4. f \in Frame
      BY <1>1, <3>3 DEF FramesOK
    <3>5. take <= Block /\ take \in Nat
      BY DEF IInv, TypeOK
    <3> HIDE DEF f
    <3>6. Append(block, f) \in Seq(Frame) /\ Len(Append(block, f)) = Len(block) + 1
      BY <1>1, <3>4 DEF FramesOK
    <3> QED
      BY <1>1, <2>1, <3>1, <3>2, <3>5, <3>6, Bounds DEF FramesOK
  <2>2. CASE ~(Len(block) < take)
    BY <1>2, <1>3, <2>2 DEF CopyFrame, shared
  <2> QED
    BY <2>1, <2>2
<1>4. CASE LoopTop \/ HonourFlush \/ LoadCursors \/ PublishRead \/ Output
  BY <1>2, <1>4 DEF LoopTop, HonourFlush, LoadCursors, PublishRead, Output, shared
<1>5. CASE MainStep /\ PushFrame
  <2>1. block' = block
    BY <1>5 DEF MainStep, audioVars
  <2>2. [at |-> write, gen |-> gen] \in Frame
    BY <1>1 DEF Frame
  <2> QED
    BY <1>1, <1>5, <2>1, <2>2 DEF PushFrame, FramesOK
<1>6. CASE MainStep /\ ~PushFrame
  BY <1>2, <1>6
  DEF MainStep, audioVars, BeginPush, PublishWrite, EndPush, BeginClear, EndClear,
      ClearTimesOut, SetPaused, BeginShutdown, EndShutdown, shared
<1>7. CASE UNCHANGED vars
  BY <1>2, <1>7 DEF vars, shared, audioVars
<1> QED
  BY <1>3, <1>4, <1>5, <1>6, <1>7 DEF Next, AudioStep, Exited

LEMMA FlagsKept == IInv /\ [Next]_vars => FlagsOK'
<1> SUFFICES ASSUME IInv, [Next]_vars
             PROVE  FlagsOK'
  OBVIOUS
<1>1. /\ running \in BOOLEAN /\ flush \in BOOLEAN /\ paused \in BOOLEAN
      /\ resample \in BOOLEAN /\ late \in BOOLEAN /\ strict \in BOOLEAN
  BY DEF IInv, TypeOK
<1> USE DEF Next, AudioStep, MainStep, Exited, vars, shared, audioVars, mainVars, LoopTop,
            HonourFlush, LoadCursors, CopyFrame, PublishRead, Output, BeginPush, PushFrame,
            PublishWrite, EndPush, BeginClear, EndClear, ClearTimesOut, SetPaused,
            BeginShutdown, EndShutdown
<1>2. running' \in BOOLEAN /\ paused' \in BOOLEAN /\ strict' \in BOOLEAN
  BY <1>1, Zenon
<1>3. flush' \in BOOLEAN
  BY <1>1, Zenon
<1>4. resample' \in BOOLEAN
  BY <1>1, Zenon
<1>5. late' \in BOOLEAN
  BY <1>1, Zenon
<1> QED
  BY <1>2, <1>3, <1>4, <1>5, Zenon DEF FlagsOK

LEMMA TypeKept == IInv /\ [Next]_vars => TypeOK'
BY NumbersKept, FramesKept, FlagsKept DEF NumbersOK, FramesOK, FlagsOK, TypeOK

\* How the number of buffered frames and the frames themselves move.
LEMMA CursorMoves ==
  ASSUME IInv
  PROVE  /\ Buffered \in 0 .. Ring
         /\ read' = write /\ write' = write => Buffered' = 0
         /\ read' = read /\ write' = write => Buffered' = Buffered
         /\ read' = read /\ write' = Plus(write, 1) /\ Buffered < Ring =>
              Buffered' = Buffered + 1
         /\ \A n \in 0 .. Buffered : read' = Plus(read, n) /\ write' = write =>
                                       Buffered' = Buffered - n
<1>1. Buffered \in 0 .. Ring /\ write \in Cursor /\ read \in Cursor
  BY BufferedType DEF IInv, TypeOK
<1>2. Minus(write, write) = 0
  BY <1>1, CursorSteps
<1>3. Buffered < Ring => Minus(Plus(write, 1), read) = Buffered + 1
  <2>1. Minus(write, read) < Wrap - 1 => Minus(Plus(write, 1), read) = Minus(write, read) + 1
    BY <1>1, CursorSteps
  <2> QED
    BY <1>1, <2>1, Bounds DEF Buffered
<1>4. \A n \in 0 .. Buffered : Minus(write, Plus(read, n)) = Buffered - n
  BY <1>1, CursorSteps DEF Buffered
<1>5. Buffered' = Minus(write', read')
  BY DEF Buffered
<1> HIDE DEF Buffered
<1>6. read' = read /\ write' = write => Buffered' = Buffered
  BY DEF Buffered
<1> QED
  BY <1>1, <1>2, <1>3, <1>4, <1>5, <1>6

LEMMA CountKept == IInv /\ [Next]_vars => CountInv' /\ ThreadInv'
<1> SUFFICES ASSUME IInv, [Next]_vars
             PROVE  CountInv' /\ ThreadInv'
  OBVIOUS
<1> USE DEF CountInv, ThreadInv
<1>1. Buffered \in 0 .. Ring
  BY BufferedType
<1>2. CountInv /\ ThreadInv /\ left \in 0 .. MaxPush /\ take \in 0 .. Block
  BY DEF IInv, TypeOK
<1>3. CASE AudioStep
  <2>1. UNCHANGED <<write, running, mpc, left>>
    BY <1>3 DEF AudioStep, LoopTop, HonourFlush, LoadCursors, CopyFrame, PublishRead, Output,
                mainVars, shared
  <2>2. CASE LoopTop \/ CopyFrame \/ Output
    <3>1. read' = read /\ lread' = lread /\ take' = take
      BY <2>2 DEF LoopTop, CopyFrame, Output, shared
    <3>2. Buffered' = Buffered
      BY <2>1, <3>1, CursorMoves
    <3> QED
      BY <1>1, <1>2, <2>1, <2>2, <3>1, <3>2 DEF LoopTop, CopyFrame, Output
  <2>3. CASE HonourFlush
    <3>1. Buffered' = 0
      BY <2>1, <2>3, CursorMoves DEF HonourFlush
    <3> QED
      BY <1>1, <1>2, <2>1, <2>3, <3>1, Bounds DEF HonourFlush
  <2>4. CASE LoadCursors
    <3>1. Buffered' = Buffered
      BY <2>1, <2>4, CursorMoves DEF LoadCursors, shared
    <3>2. Lesser(Buffered, Block) <= Buffered /\ 0 <= Buffered
      BY <1>1, Bounds DEF Lesser
    <3> QED
      BY <1>1, <1>2, <2>1, <2>4, <3>1, <3>2 DEF LoadCursors, shared
  <2>5. CASE PublishRead
    <3>1. take \in 0 .. Buffered /\ read' = Plus(read, take)
      BY <1>2, <2>5 DEF PublishRead
    <3>2. Buffered' = Buffered - take
      BY <2>1, <3>1, CursorMoves
    <3> QED
      <4>1. Buffered' <= Buffered /\ Buffered' <= Ring
        BY <1>1, <3>1, <3>2, Bounds
      <4>2. apc' = "output" /\ apc = "publish"
        BY <2>5 DEF PublishRead
      <4>3. mpc = "publish" => Buffered' < Ring
        BY <1>1, <1>2, <3>1, <3>2, Bounds
      <4> QED
        BY <1>2, <2>1, <4>1, <4>2, <4>3
  <2> QED
    BY <1>3, <2>2, <2>3, <2>4, <2>5 DEF AudioStep
<1>4. CASE MainStep
  <2>1. UNCHANGED <<lread, apc, take>>
    BY <1>4 DEF MainStep, audioVars
  <2>2. CASE UNCHANGED <<read, write, running>> /\ mpc' # "publish"
             /\ (mpc' \in {"join", "done"} <=> mpc \in {"join", "done"})
             /\ (mpc' = "clear" => mpc = "clear")
    <3>1. Buffered' = Buffered
      BY <2>2, CursorMoves
    <3> QED
      BY <1>1, <1>2, <2>1, <2>2, <3>1
  <2>3. CASE \/ EndPush \/ EndClear \/ ClearTimesOut \/ SetPaused \/ EndShutdown
             \/ \E n \in 1 .. MaxPush, rs \in BOOLEAN : BeginPush(n, rs)
    BY <2>2, <2>3
    DEF EndPush, EndClear, ClearTimesOut, SetPaused, EndShutdown, BeginPush, ClearReturns,
        shared, mainVars
  <2>4. CASE PushFrame
    <3>1. Buffered' = Buffered
      BY <2>4, CursorMoves DEF PushFrame
    <3> QED
      BY <1>1, <1>2, <2>1, <2>4, <3>1, Bounds DEF PushFrame
  <2>5. CASE PublishWrite
    <3>1. Buffered' = Buffered + 1
      BY <1>2, <2>5, CursorMoves DEF PublishWrite
    <3> QED
      BY <1>1, <1>2, <2>1, <2>5, <3>1, Bounds DEF PublishWrite
  <2>6. CASE BeginClear
    <3>1. CASE running
      <4>1. read' = read /\ write' = write
        BY <2>6, <3>1 DEF BeginClear
      <4>2. Buffered' = Buffered
        BY <4>1, CursorMoves
      <4> QED
        BY <1>1, <1>2, <2>1, <2>6, <3>1, <4>1, <4>2 DEF BeginClear
    <3>2. CASE ~running
      <4>1. Buffered' = 0
        BY <2>6, <3>2, CursorMoves DEF BeginClear
      <4> QED
        BY <1>1, <1>2, <2>1, <2>6, <3>2, <4>1, Bounds DEF BeginClear, ClearReturns
    <3> QED
      BY <3>1, <3>2
  <2>7. CASE BeginShutdown
    <3>1. Buffered' = Buffered
      BY <2>7, CursorMoves DEF BeginShutdown
    <3> QED
      BY <1>1, <1>2, <2>1, <2>7, <3>1 DEF BeginShutdown
  <2> QED
    BY <1>4, <2>3, <2>4, <2>5, <2>6, <2>7 DEF MainStep
<1>5. CASE UNCHANGED vars
  BY <1>2, <1>5 DEF vars, shared, audioVars, mainVars, Buffered
<1> QED
  BY <1>3, <1>4, <1>5 DEF Next, Exited

\* Where the buffered frames are, and the slot the next one goes to.
LEMMA HeldSlots ==
  ASSUME IInv
  PROVE  /\ write % Ring \in 0 .. Ring - 1
         /\ Slot(read, Buffered) = write % Ring
         /\ \A i \in 0 .. Ring : Slot(read, i) = (read + i) % Ring
         /\ \A i \in 0 .. Ring : Slot(read, i) \in 0 .. Ring - 1
         /\ Buffered < Ring => \A i \in 0 .. Buffered - 1 : Slot(read, i) # write % Ring
         /\ \A n, i \in 0 .. Ring : n + i <= Ring => Slot(Plus(read, n), i) = Slot(read, n + i)
<1>1. Buffered \in 0 .. Ring /\ write \in Cursor /\ read \in Cursor
  BY BufferedType DEF IInv, TypeOK
<1>2. Plus(read, Buffered) = write
  BY <1>1, CursorSteps DEF Buffered
<1>3. Slot(read, Buffered) = write % Ring
  BY <1>2 DEF Slot
<1>4. \A i \in 0 .. Ring : /\ Slot(read, i) = (read + i) % Ring
                           /\ Slot(read, i) \in 0 .. Ring - 1
  BY <1>1, Slots
<1>5. \A i, j \in 0 .. Ring : i < j /\ j < i + Ring => Slot(read, j) # Slot(read, i)
  BY <1>1, Slots
<1>6. \A n, i \in 0 .. Ring : n + i <= Ring => Slot(Plus(read, n), i) = Slot(read, n + i)
  <2> TAKE n, i \in 0 .. Ring
  <2> HAVE n + i <= Ring
  <2>1. n \in Nat /\ i \in Nat /\ n + i <= Wrap
    BY Bounds
  <2> QED
    BY <1>1, <2>1, PlusPlus DEF Slot
<1>7. Buffered < Ring => \A i \in 0 .. Buffered - 1 : Slot(read, i) # write % Ring
  BY <1>1, <1>3, <1>5, Bounds
<1> QED
  BY <1>1, <1>3, <1>4, <1>6, <1>7

LEMMA BlockKept == IInv /\ [Next]_vars => BlockInv'
<1> SUFFICES ASSUME IInv, [Next]_vars
             PROVE  BlockInv'
  OBVIOUS
<1> USE DEF BlockInv, Held
<1>1. /\ BlockInv /\ CountInv /\ ThreadInv
      /\ Buffered \in 0 .. Ring /\ take \in Nat
      /\ ring \in [0 .. Ring - 1 -> Frame] /\ block \in Seq(Frame) /\ Len(block) \in Nat
  BY BufferedType DEF IInv, TypeOK
<1>2. CASE AudioStep
  <2>1. CASE LoopTop \/ HonourFlush \/ Output
    BY <1>1, <2>1 DEF LoopTop, HonourFlush, Output
  <2>2. CASE LoadCursors
    <3>1. take' \in Nat
      BY <1>1, <2>2, Bounds DEF LoadCursors, Lesser
    <3> QED
      BY <2>2, <3>1 DEF LoadCursors
  <2>3. CASE CopyFrame
    <3>1. UNCHANGED <<ring, read, take>> /\ apc = "copy" /\ lread = read
      BY <1>1, <2>3 DEF CopyFrame, shared, CountInv
    <3>2. CASE Len(block) < take
      <4> DEFINE f == ring[(lread + Len(block)) % Ring]
      <4>1. block' = Append(block, f) /\ apc' = "copy"
        BY <2>3, <3>1, <3>2 DEF CopyFrame
      <4>2. Len(block) \in 0 .. Ring
        BY <1>1, <3>1, <3>2, Bounds DEF CountInv
      <4>3. f = ring[Slot(read, Len(block))]
        BY <3>1, <4>2, HeldSlots
      <4> HIDE DEF f
      <4>4. /\ Len(block') = Len(block) + 1
            /\ block'[Len(block) + 1] = f
            /\ \A i \in 1 .. Len(block) : block'[i] = block[i]
        BY <1>1, <4>1
      <4>5. \A i \in 1 .. Len(block') : block'[i] = ring[Slot(read, i - 1)]
        <5> TAKE i \in 1 .. Len(block')
        <5>1. CASE i = Len(block) + 1
          <6>1. i - 1 = Len(block)
            BY <1>1, <5>1
          <6> QED
            BY <4>3, <4>4, <5>1, <6>1
        <5>2. CASE i \in 1 .. Len(block)
          BY <1>1, <3>1, <4>4, <5>2
        <5> QED
          BY <1>1, <4>4, <5>1, <5>2
      <4> QED
        BY <1>1, <3>1, <3>2, <4>1, <4>4, <4>5
    <3>3. CASE ~(Len(block) < take)
      BY <1>1, <2>3, <3>1, <3>3 DEF CopyFrame
    <3> QED
      BY <3>2, <3>3
  <2>4. CASE PublishRead
    BY <2>4 DEF PublishRead
  <2> QED
    BY <1>2, <2>1, <2>2, <2>3, <2>4 DEF AudioStep
<1>3. CASE MainStep
  <2>1. UNCHANGED <<lread, apc, take, block>>
    BY <1>3 DEF MainStep, audioVars
  <2>2. CASE UNCHANGED <<ring, read>>
    BY <1>1, <2>1, <2>2
  <2>3. CASE \/ EndPush \/ EndClear \/ ClearTimesOut \/ SetPaused \/ EndShutdown
             \/ PublishWrite \/ BeginShutdown
             \/ \E n \in 1 .. MaxPush, rs \in BOOLEAN : BeginPush(n, rs)
    BY <2>2, <2>3
    DEF EndPush, EndClear, ClearTimesOut, SetPaused, EndShutdown, BeginPush, PublishWrite,
        BeginShutdown, shared
  <2>4. CASE PushFrame
    <3>1. CASE Buffered >= Ring
      BY <2>2, <2>4, <3>1 DEF PushFrame
    <3>2. CASE ~(Buffered >= Ring)
      <4>1. read' = read /\ ring' = [ring EXCEPT ![write % Ring] = [at |-> write, gen |-> gen]]
        BY <2>4, <3>2 DEF PushFrame
      <4>2. \A i \in 0 .. Buffered - 1 : ring'[Slot(read, i)] = ring[Slot(read, i)]
        <5> TAKE i \in 0 .. Buffered - 1
        <5>1. Buffered < Ring /\ i \in 0 .. Ring
          BY <1>1, <3>2, Bounds
        <5>2. Slot(read, i) # write % Ring
          BY <5>1, HeldSlots
        <5>3. Slot(read, i) \in 0 .. Ring - 1
          BY <5>1, HeldSlots
        <5> QED
          BY <1>1, <4>1, <5>2, <5>3
      <4>3. apc \in {"copy", "publish"} => Len(block) <= Buffered
        BY <1>1 DEF CountInv
      <4>4. ASSUME apc \in {"copy", "publish"}, NEW i \in 1 .. Len(block)
            PROVE  block[i] = ring'[Slot(read, i - 1)]
        <5>1. i - 1 \in 0 .. Buffered - 1
          BY <1>1, <4>3, <4>4
        <5> QED
          BY <1>1, <4>2, <4>4, <5>1
      <4> QED
        BY <1>1, <2>1, <4>1, <4>4
    <3> QED
      BY <3>1, <3>2
  <2>5. CASE BeginClear
    <3>1. CASE running
      BY <2>2, <2>5, <3>1 DEF BeginClear
    <3>2. CASE ~running
      BY <1>1, <2>1, <2>5, <3>2 DEF BeginClear, ThreadInv
    <3> QED
      BY <3>1, <3>2
  <2> QED
    BY <1>3, <2>3, <2>4, <2>5 DEF MainStep
<1>4. CASE UNCHANGED vars
  BY <1>1, <1>4 DEF vars, shared, audioVars
<1> QED
  BY <1>2, <1>3, <1>4 DEF Next, Exited

LEMMA FlushKept == IInv /\ [Next]_vars => FlushInv'
<1> SUFFICES ASSUME IInv, [Next]_vars, ~late'
             PROVE  FlushInv'
  BY DEF FlushInv
<1>1. ~late
  BY DEF Next, AudioStep, MainStep, Exited, vars, mainVars, BeginPush, PushFrame,
         PublishWrite, EndPush, BeginClear, EndClear, ClearTimesOut, SetPaused,
         BeginShutdown, EndShutdown
<1>2. /\ BlockInv /\ CountInv /\ ThreadInv
      /\ Buffered \in 0 .. Ring /\ take \in Nat /\ gen \in {0, 1}
      /\ ring \in [0 .. Ring - 1 -> Frame] /\ block \in Seq(Frame) /\ Len(block) \in Nat
  BY BufferedType DEF IInv, TypeOK
<1>3. /\ flush => mpc = "clear"
      /\ mpc = "clear" /\ ~flush => apc = "flush" \/ (Buffered = 0 /\ block = <<>>)
      /\ mpc # "clear" =>
           /\ \A i \in 1 .. Len(block) : block[i].gen = gen
           /\ apc # "flush" => \A i \in 0 .. Buffered - 1 : Held(i).gen = gen
           /\ mpc = "publish" => ring[write % Ring].gen = gen
      /\ strict /\ apc = "flush" => mpc = "clear"
  BY <1>1 DEF IInv, FlushInv
<1>4. CASE AudioStep
  <2>1. UNCHANGED <<ring, write, running, mpc, gen, strict>>
    BY <1>4 DEF AudioStep, LoopTop, HonourFlush, LoadCursors, CopyFrame, PublishRead, Output,
                mainVars, shared
  <2>2. CASE LoopTop
    <3>1. read' = read /\ block' = block
      BY <2>2 DEF LoopTop
    <3>2. Buffered' = Buffered
      BY <2>1, <3>1, CursorMoves
    <3>3. mpc = "clear" => running
      BY <1>2 DEF ThreadInv
    <3>4. block = <<>>
      BY <1>2, <2>2 DEF LoopTop, BlockInv
    <3> QED
      BY <1>2, <1>3, <2>1, <2>2, <3>1, <3>2, <3>3, <3>4 DEF LoopTop, FlushInv, Held
  <2>3. CASE HonourFlush
    <3>1. Buffered' = 0
      BY <2>1, <2>3, CursorMoves DEF HonourFlush
    <3>2. block = <<>>
      BY <1>2, <2>3 DEF HonourFlush, BlockInv
    <3> QED
      BY <1>2, <1>3, <2>1, <2>3, <3>1, <3>2 DEF HonourFlush, FlushInv, Held
  <2>4. CASE LoadCursors \/ Output
    <3>1. read' = read /\ flush' = flush /\ block' = <<>> /\ apc' # "flush" /\ apc # "flush"
      BY <2>4 DEF LoadCursors, Output, shared
    <3>2. Buffered' = Buffered
      BY <2>1, <3>1, CursorMoves
    <3> QED
      BY <1>2, <1>3, <2>1, <3>1, <3>2 DEF FlushInv, Held
  <2>5. CASE CopyFrame
    <3>1. read' = read /\ flush' = flush /\ apc' # "flush" /\ apc = "copy" /\ lread = read
      BY <1>2, <2>5 DEF CopyFrame, shared, CountInv
    <3>2. Buffered' = Buffered
      BY <2>1, <3>1, CursorMoves
    <3>3. CASE Len(block) < take
      <4> DEFINE f == ring[(lread + Len(block)) % Ring]
      <4>1. block' = Append(block, f)
        BY <2>5, <3>3 DEF CopyFrame
      <4>2. Len(block) \in 0 .. Buffered - 1 /\ Len(block) \in 0 .. Ring
        BY <1>2, <3>1, <3>3, Bounds DEF CountInv
      <4>3. f = Held(Len(block))
        BY <3>1, <4>2, HeldSlots DEF Held
      <4>4. mpc # "clear" => f.gen = gen
        BY <1>3, <3>1, <4>2, <4>3
      <4>5. mpc = "clear" => flush
        BY <1>3, <3>1, <4>2
      <4> HIDE DEF f
      <4>6. /\ Len(block') = Len(block) + 1
            /\ block'[Len(block) + 1] = f
            /\ \A i \in 1 .. Len(block) : block'[i] = block[i]
        BY <1>2, <4>1
      <4>7. mpc # "clear" => \A i \in 1 .. Len(block') : block'[i].gen = gen
        <5> SUFFICES ASSUME mpc # "clear", NEW i \in 1 .. Len(block')
                     PROVE  block'[i].gen = gen
          OBVIOUS
        <5>1. i = Len(block) + 1 \/ i \in 1 .. Len(block)
          BY <1>2, <4>6
        <5> QED
          BY <1>3, <4>4, <4>6, <5>1
      <4> QED
        BY <1>3, <2>1, <3>1, <3>2, <4>5, <4>7 DEF FlushInv, Held
    <3>4. CASE ~(Len(block) < take)
      <4>1. block' = block
        BY <2>5, <3>4 DEF CopyFrame
      <4> QED
        BY <1>3, <2>1, <3>1, <3>2, <4>1 DEF FlushInv, Held
    <3> QED
      BY <3>3, <3>4
  <2>6. CASE PublishRead
    <3>1. take \in 0 .. Buffered /\ read' = Plus(read, take) /\ apc = "publish"
          /\ apc' = "output" /\ flush' = flush /\ block' = block
      BY <1>2, <2>6 DEF PublishRead, CountInv
    <3>2. Buffered' = Buffered - take
      BY <2>1, <3>1, CursorMoves
    <3>3. ASSUME NEW i \in 0 .. Buffered' - 1
          PROVE  ring[Slot(read', i)] = Held(take + i) /\ take + i \in 0 .. Buffered - 1
      <4>1. take \in 0 .. Ring /\ i \in 0 .. Ring /\ take + i <= Ring
            /\ take + i \in 0 .. Buffered - 1
        BY <1>2, <3>1, <3>2, Bounds
      <4>2. Slot(read', i) = Slot(read, take + i)
        BY <3>1, <4>1, HeldSlots
      <4> QED
        BY <4>1, <4>2 DEF Held
    <3>4. mpc # "clear" => \A i \in 0 .. Buffered' - 1 : ring[Slot(read', i)].gen = gen
      BY <1>3, <3>1, <3>3
    <3>5. Buffered = 0 => Buffered' = 0
      <4>1. take \in Nat /\ take <= Buffered
        BY <1>2, <3>1
      <4>2. \A m, n \in Nat : n <= m /\ m = 0 => m - n = 0
        OBVIOUS
      <4> QED
        BY <1>2, <3>2, <4>1, <4>2
    <3> QED
      BY <1>3, <2>1, <3>1, <3>4, <3>5 DEF FlushInv, Held
  <2> QED
    BY <1>4, <2>2, <2>3, <2>4, <2>5, <2>6 DEF AudioStep
<1>5. CASE MainStep
  <2>1. UNCHANGED <<lread, apc, take, block, strict>> /\ (strict => apc # "flush")
    BY <1>5 DEF MainStep, audioVars
  <2>2. CASE /\ UNCHANGED <<ring, read, write, flush, gen>>
             /\ mpc' # "publish" /\ (mpc' = "clear" <=> mpc = "clear")
    <3>1. Buffered' = Buffered
      BY <2>2, CursorMoves
    <3> QED
      BY <1>3, <2>1, <2>2, <3>1 DEF FlushInv, Held
  <2>3. CASE EndPush \/ SetPaused \/ EndShutdown \/ BeginShutdown
             \/ \E n \in 1 .. MaxPush, rs \in BOOLEAN : BeginPush(n, rs)
    BY <2>2, <2>3
    DEF EndPush, SetPaused, EndShutdown, BeginPush, BeginShutdown, shared, mainVars
  <2>4. CASE PushFrame
    <3>1. CASE Buffered >= Ring
      BY <2>2, <2>4, <3>1 DEF PushFrame
    <3>2. CASE ~(Buffered >= Ring)
      <4>1. /\ UNCHANGED <<read, write, flush, gen>> /\ mpc = "push" /\ mpc' = "publish"
            /\ ring' = [ring EXCEPT ![write % Ring] = [at |-> write, gen |-> gen]]
        BY <2>4, <3>2 DEF PushFrame
      <4>2. Buffered' = Buffered
        BY <4>1, CursorMoves
      <4>3. ASSUME NEW i \in 0 .. Buffered - 1
            PROVE  ring'[Slot(read, i)] = ring[Slot(read, i)]
        <5>1. Buffered < Ring /\ i \in 0 .. Ring
          BY <1>2, <3>2, Bounds
        <5>2. Slot(read, i) # write % Ring
          BY <5>1, HeldSlots
        <5>3. Slot(read, i) \in 0 .. Ring - 1
          BY <5>1, HeldSlots
        <5> QED
          BY <1>2, <4>1, <5>2, <5>3
      <4>4. ring'[write % Ring].gen = gen
        <5>1. write % Ring \in 0 .. Ring - 1
          BY HeldSlots
        <5> QED
          BY <1>2, <4>1, <5>1
      <4> QED
        BY <1>3, <2>1, <4>1, <4>2, <4>3, <4>4 DEF FlushInv, Held
    <3> QED
      BY <3>1, <3>2
  <2>5. CASE PublishWrite
    <3>1. /\ UNCHANGED <<ring, read, flush, gen>> /\ mpc = "publish" /\ mpc' = "push"
          /\ write' = Plus(write, 1)
      BY <2>5 DEF PublishWrite
    <3>2. Buffered' = Buffered + 1 /\ Buffered < Ring
      BY <1>2, <3>1, CursorMoves DEF CountInv
    <3>3. apc # "flush" => \A i \in 0 .. Buffered' - 1 : Held(i).gen = gen
      <4> SUFFICES ASSUME apc # "flush", NEW i \in 0 .. Buffered' - 1
                   PROVE  Held(i).gen = gen
        OBVIOUS
      <4>1. i = Buffered \/ i \in 0 .. Buffered - 1
        BY <1>2, <3>2
      <4>2. Held(Buffered) = ring[write % Ring]
        BY HeldSlots DEF Held
      <4> QED
        BY <1>3, <3>1, <4>1, <4>2
    <3> QED
      BY <1>3, <2>1, <3>1, <3>3 DEF FlushInv, Held
  <2>6. CASE BeginClear
    <3>1. CASE running
      BY <1>3, <2>1, <2>6, <3>1 DEF BeginClear, FlushInv
    <3>2. CASE ~running
      <4>1. Buffered' = 0
        BY <2>6, <3>2, CursorMoves DEF BeginClear
      <4>2. block = <<>> /\ mpc' = "idle" /\ ~flush' /\ apc = "ended"
        BY <1>2, <2>6, <3>2 DEF BeginClear, ClearReturns, ThreadInv, BlockInv
      <4> QED
        BY <2>1, <4>1, <4>2 DEF FlushInv
    <3> QED
      BY <3>1, <3>2
  <2>7. CASE EndClear
    <3>1. UNCHANGED <<ring, read, write, flush>> /\ mpc = "clear" /\ ~flush /\ mpc' = "idle"
      BY <2>7 DEF EndClear, ClearReturns, shared
    <3>2. Buffered' = Buffered
      BY <3>1, CursorMoves
    <3>3. block = <<>>
      BY <1>2, <1>3, <3>1 DEF BlockInv
    <3> QED
      BY <1>3, <2>1, <3>1, <3>2, <3>3 DEF FlushInv
  <2>8. CASE ClearTimesOut
    BY <2>8 DEF ClearTimesOut
  <2> QED
    BY <1>5, <2>3, <2>4, <2>5, <2>6, <2>7, <2>8 DEF MainStep
<1>6. CASE UNCHANGED vars
  <2>1. Buffered' = Buffered
    BY <1>6 DEF vars, shared, Buffered
  <2> QED
    BY <1>3, <1>6, <2>1 DEF vars, shared, audioVars, mainVars, FlushInv, Held
<1> QED
  BY <1>4, <1>5, <1>6 DEF Next, Exited

LEMMA InvHolds == Spec => []IInv
<1>1. IInv /\ [Next]_vars => IInv'
  BY TypeKept, CountKept, BlockKept, FlushKept DEF IInv
<1> QED
  BY InitInv, <1>1, PTL DEF Spec

-----------------------------------------------------------------------------
(* The theorems.                                                           *)

\* Every variable keeps its type: cursors stay below the wrap, a block below
\* its size, a frame in the ring is a frame.
THEOREM TypeCorrect == Spec => []TypeOK
<1>1. IInv => TypeOK
  BY DEF IInv
<1> QED
  BY InvHolds, <1>1, PTL

\* The fill level computed from two free-running cursors never exceeds the
\* ring, wherever they wrap (audio_out.cpp:48-50).
THEOREM Ordered == Spec => []CursorsOrdered
<1>1. IInv => CursorsOrdered
  BY DEF IInv, CountInv, CursorsOrdered
<1> QED
  BY InvHolds, <1>1, PTL

\* Nothing from before an acknowledged clear() is played after it, under any
\* interleaving of the two threads (audio_out.h).
THEOREM NothingStale == Spec => []StaleNeverPlayed
<1>1. IInv => StaleNeverPlayed
  <2> SUFFICES ASSUME IInv, mpc # "clear", ~late, NEW i \in DOMAIN block
               PROVE  block[i].gen = gen
    BY DEF StaleNeverPlayed
  <2>1. i \in 1 .. Len(block)
    BY DEF IInv, TypeOK
  <2> QED
    BY <2>1 DEF IInv, FlushInv
<1> QED
  BY InvHolds, <1>1, PTL

\* With the priorities the threads are created with, the flush of an
\* acknowledged request drops nothing pushed after it.
THEOREM FreshKept == Spec => []FlushDropsStaleOnly
<1>1. IInv => FlushDropsStaleOnly
  BY DEF IInv, FlushInv, FlushDropsStaleOnly, FreshBuffered
<1> QED
  BY InvHolds, <1>1, PTL

-----------------------------------------------------------------------------
(* Refinement.                                                             *)

\* The n frames of the slots g from a cursor on.
Frames(g, c, n) == [i \in 1 .. n |-> g[Plus(c, i - 1) % Ring]]

LEMMA FramesAre ==
  ASSUME NEW g \in [0 .. Ring - 1 -> Frame], NEW c \in Cursor, NEW n \in 0 .. Ring
  PROVE  /\ Frames(g, c, n) \in Seq(Frame)
         /\ Len(Frames(g, c, n)) = n
         /\ \A i \in 1 .. n : Frames(g, c, n)[i] = g[Slot(c, i - 1)]
<1>1. n \in Nat
  BY Bounds
<1>2. \A i \in 1 .. n : g[Plus(c, i - 1) % Ring] \in Frame
  <2> TAKE i \in 1 .. n
  <2>1. i - 1 \in 0 .. Ring
    BY Bounds
  <2>2. Slot(c, i - 1) \in 0 .. Ring - 1
    BY <2>1, Slots
  <2> QED
    BY <2>2 DEF Slot
<1>3. Frames(g, c, n) \in [1 .. n -> Frame]
  BY <1>2 DEF Frames
<1> QED
  BY <1>1, <1>3 DEF Frames, Slot

LEMMA Appended ==
  ASSUME NEW q \in Seq(Frame), NEW r \in Seq(Frame), NEW f \in Frame,
         Len(r) = Len(q) + 1, r[Len(r)] = f, \A i \in 1 .. Len(q) : r[i] = q[i]
  PROVE  r = Append(q, f)
<1>1. /\ Append(q, f) \in Seq(Frame) /\ Len(Append(q, f)) = Len(q) + 1
      /\ \A i \in 1 .. Len(q) : Append(q, f)[i] = q[i]
      /\ Append(q, f)[Len(q) + 1] = f
  BY AppendProperties
<1>2. \A i \in 1 .. Len(r) : r[i] = Append(q, f)[i]
  <2> TAKE i \in 1 .. Len(r)
  <2>1. i \in 1 .. Len(q) \/ i = Len(q) + 1
    OBVIOUS
  <2> QED
    BY <1>1, <2>1
<1> QED
  BY <1>1, <1>2, SeqEqual

LEMMA TakenOff ==
  ASSUME NEW q \in Seq(Frame), NEW p \in Seq(Frame), NEW r \in Seq(Frame),
         Len(p) <= Len(q), Len(r) = Len(q) - Len(p),
         \A i \in 1 .. Len(p) : p[i] = q[i],
         \A i \in 1 .. Len(r) : r[i] = q[Len(p) + i]
  PROVE  p = SubSeq(q, 1, Len(p)) /\ r = SubSeq(q, Len(p) + 1, Len(q))
<1>1. Len(p) \in Nat /\ Len(q) \in Nat /\ Len(r) \in Nat
  OBVIOUS
<1>2. p = SubSeq(q, 1, Len(p))
  <2>1. \A i \in 1 .. Len(p) : q[i] \in Frame
    OBVIOUS
  <2>2. /\ SubSeq(q, 1, Len(p)) \in Seq(Frame)
        /\ Len(SubSeq(q, 1, Len(p))) = Len(p)
        /\ \A i \in 1 .. Len(p) : SubSeq(q, 1, Len(p))[i] = q[i]
    BY <1>1, <2>1, SubSeqProperties
  <2> QED
    BY <2>2, SeqEqual
<1>3. r = SubSeq(q, Len(p) + 1, Len(q))
  <2> DEFINE s == SubSeq(q, Len(p) + 1, Len(q))
  <2>1. \A i \in Len(p) + 1 .. Len(q) : q[i] \in Frame
    BY <1>1
  <2>2. /\ s \in Seq(Frame)
        /\ Len(s) = IF Len(p) + 1 <= Len(q) THEN Len(q) - (Len(p) + 1) + 1 ELSE 0
        /\ \A i \in 1 .. Len(q) - (Len(p) + 1) + 1 : s[i] = q[(Len(p) + 1) + i - 1]
    BY <1>1, <2>1, SubSeqProperties
  <2> HIDE DEF s
  <2>3. Len(s) = Len(r)
    BY <1>1, <2>2
  <2>4. \A i \in 1 .. Len(r) : s[i] = r[i]
    <3> TAKE i \in 1 .. Len(r)
    <3>1. (Len(p) + 1) + i - 1 = Len(p) + i /\ i \in 1 .. Len(q) - (Len(p) + 1) + 1
      BY <1>1
    <3>2. s[i] = q[(Len(p) + 1) + i - 1]
      BY <2>2, <3>1
    <3> QED
      BY <3>1, <3>2
  <2> QED
    BY <2>2, <2>3, <2>4, SeqEqual DEF s
<1> QED
  BY <1>2, <1>3

\* The abstract queue and the block being played.
Ahead == Frames(ring, read, Buffered)
Playing == IF apc = "output" THEN block ELSE <<>>

LEMMA QueueIs ==
  /\ Queue!Init <=> Ahead = <<>> /\ Playing = <<>>
  /\ \A f : Queue!Push(f) <=>
       Len(Ahead) < Ring /\ Ahead' = Append(Ahead, f) /\ UNCHANGED Playing
  /\ \A n : Queue!Take(n) <=>
       /\ n <= Len(Ahead)
       /\ Playing' = SubSeq(Ahead, 1, n)
       /\ Ahead' = SubSeq(Ahead, n + 1, Len(Ahead))
  /\ Queue!Finish <=> Playing' = <<>> /\ UNCHANGED Ahead
  /\ Queue!Flush <=> Ahead' = <<>> /\ UNCHANGED Playing
  /\ UNCHANGED Queue!vars <=> UNCHANGED <<Ahead, Playing>>
BY DEF Queue!Init, Queue!Push, Queue!Take, Queue!Finish, Queue!Flush, Queue!vars, Ahead,
       Playing, Frames

LEMMA QueueInit == Init => Queue!Init
<1> SUFFICES ASSUME Init
             PROVE  Ahead = <<>> /\ Playing = <<>>
  BY QueueIs
<1>1. Buffered = 0 /\ read \in Cursor /\ ring \in [0 .. Ring - 1 -> Frame]
  BY InitInv, MinusIs DEF Init, IInv, TypeOK, Buffered
<1>2. Ahead \in Seq(Frame) /\ Len(Ahead) = 0
  BY <1>1, FramesAre, Bounds DEF Ahead
<1> QED
  BY <1>2, EmptySeq DEF Init, Playing

LEMMA QueueStep == IInv /\ IInv' /\ [Next]_vars => [Queue!Next]_Queue!vars
<1> SUFFICES ASSUME IInv, IInv', [Next]_vars
             PROVE  Queue!Next \/ UNCHANGED Queue!vars
  OBVIOUS
<1>1. /\ Buffered \in 0 .. Ring /\ read \in Cursor /\ write \in Cursor
      /\ ring \in [0 .. Ring - 1 -> Frame] /\ block \in Seq(Frame)
      /\ CountInv /\ BlockInv /\ ThreadInv
  BY BufferedType DEF IInv, TypeOK
<1>2. read' \in Cursor /\ ring' \in [0 .. Ring - 1 -> Frame] /\ Buffered' <= Ring
  BY DEF IInv, TypeOK, CountInv
<1>3. /\ Ahead \in Seq(Frame) /\ Len(Ahead) = Buffered
      /\ \A i \in 1 .. Buffered : Ahead[i] = ring[Slot(read, i - 1)]
  BY <1>1, FramesAre DEF Ahead
<1>4. ASSUME Buffered' \in 0 .. Ring
      PROVE  /\ Ahead' \in Seq(Frame) /\ Len(Ahead') = Buffered'
             /\ \A i \in 1 .. Buffered' : Ahead'[i] = ring'[Slot(read', i - 1)]
  <2>1. Ahead' = Frames(ring', read', Buffered')
    BY DEF Ahead, Frames, Plus
  <2> QED
    BY <1>2, <1>4, <2>1, FramesAre
<1>5. CASE UNCHANGED <<ring, read, write, Playing>>
  <2>1. UNCHANGED Ahead
    BY <1>5 DEF Ahead, Buffered, Frames, Plus, Minus
  <2> QED
    BY <1>5, <2>1, QueueIs
<1>6. CASE read' = write /\ write' = write /\ UNCHANGED Playing
  <2>1. Buffered' = 0
    BY <1>6, CursorMoves
  <2>2. Ahead' = <<>>
    BY <1>4, <2>1, EmptySeq, Bounds
  <2> QED
    BY <1>6, <2>2, QueueIs DEF Queue!Next
<1>7. CASE AudioStep
  <2>1. UNCHANGED <<ring, write>>
    BY <1>7 DEF AudioStep, LoopTop, HonourFlush, LoadCursors, CopyFrame, PublishRead, Output,
                shared
  <2>2. CASE LoopTop \/ LoadCursors \/ CopyFrame
    <3>1. read' = read /\ apc # "output" /\ apc' # "output"
      BY <2>2 DEF LoopTop, LoadCursors, CopyFrame, shared
    <3> QED
      BY <1>5, <2>1, <3>1 DEF Playing
  <2>3. CASE HonourFlush
    <3>1. read' = write /\ apc # "output" /\ apc' # "output"
      BY <2>3 DEF HonourFlush
    <3> QED
      BY <1>6, <2>1, <3>1 DEF Playing
  <2>4. CASE PublishRead
    <3>1. /\ take \in 0 .. Buffered /\ Len(block) = take /\ read' = Plus(read, take)
          /\ apc' = "output" /\ block' = block
          /\ \A i \in 1 .. Len(block) : block[i] = Held(i - 1)
      BY <1>1, <2>4 DEF PublishRead, CountInv, BlockInv, IInv, TypeOK
    <3>2. Buffered' = Buffered - take
      BY <2>1, <3>1, CursorMoves
    <3>3. Buffered' \in 0 .. Ring
      BY <1>1, <3>1, <3>2, Bounds
    <3>4. /\ Ahead' \in Seq(Frame) /\ Len(Ahead') = Buffered - take
          /\ \A i \in 1 .. Buffered' : Ahead'[i] = ring[Slot(read', i - 1)]
      BY <1>4, <2>1, <3>2, <3>3
    <3>5. \A i \in 1 .. Len(Ahead') : Ahead'[i] = Ahead[take + i]
      <4> TAKE i \in 1 .. Len(Ahead')
      <4>1. /\ take \in 0 .. Ring /\ i - 1 \in 0 .. Ring /\ take + (i - 1) <= Ring
            /\ take + i \in 1 .. Buffered /\ (take + i) - 1 = take + (i - 1)
        BY <1>1, <3>1, <3>4, Bounds
      <4>2. Slot(read', i - 1) = Slot(read, take + (i - 1))
        BY <3>1, <4>1, HeldSlots
      <4>3. Ahead'[i] = ring[Slot(read', i - 1)]
        BY <3>2, <3>4
      <4>4. Ahead[take + i] = ring[Slot(read, (take + i) - 1)]
        BY <1>3, <4>1
      <4> QED
        BY <4>1, <4>2, <4>3, <4>4
    <3>6. \A i \in 1 .. Len(block) : block[i] = Ahead[i]
      BY <1>1, <1>3, <3>1 DEF Held
    <3>7. Len(block) <= Len(Ahead) /\ Len(Ahead') = Len(Ahead) - Len(block)
      BY <1>1, <1>3, <3>1, <3>4
    <3>8. /\ block = SubSeq(Ahead, 1, Len(block))
          /\ Ahead' = SubSeq(Ahead, Len(block) + 1, Len(Ahead))
      <4>1. \A i \in 1 .. Len(Ahead') : Ahead'[i] = Ahead[Len(block) + i]
        BY <3>1, <3>5
      <4> HIDE DEF Ahead
      <4> QED
        BY <1>1, <1>3, <3>4, <3>6, <3>7, <4>1, TakenOff
    <3>9. Playing' = block
      BY <3>1 DEF Playing
    <3>10. Queue!Take(take)
      BY <3>1, <3>7, <3>8, <3>9, QueueIs
    <3>11. take \in 0 .. Block
      BY DEF IInv, TypeOK
    <3> QED
      BY <3>10, <3>11 DEF Queue!Next
  <2>5. CASE Output
    <3>1. UNCHANGED <<ring, read, write>> /\ Playing' = <<>>
      BY <2>5 DEF Output, shared, Playing
    <3>2. UNCHANGED Ahead
      BY <3>1 DEF Ahead, Buffered, Frames, Plus, Minus
    <3> QED
      BY <3>1, <3>2, QueueIs DEF Queue!Next
  <2> QED
    BY <1>7, <2>2, <2>3, <2>4, <2>5 DEF AudioStep
<1>8. CASE MainStep
  <2>1. UNCHANGED Playing
    BY <1>8 DEF MainStep, audioVars, Playing
  <2>2. CASE \/ EndPush \/ EndClear \/ ClearTimesOut \/ SetPaused \/ EndShutdown
             \/ BeginShutdown
             \/ \E n \in 1 .. MaxPush, rs \in BOOLEAN : BeginPush(n, rs)
    BY <1>5, <2>1, <2>2
    DEF EndPush, EndClear, ClearTimesOut, SetPaused, EndShutdown, BeginShutdown, BeginPush,
        shared
  <2>3. CASE PushFrame
    <3>1. CASE Buffered >= Ring
      BY <1>5, <2>1, <2>3, <3>1 DEF PushFrame
    <3>2. CASE ~(Buffered >= Ring)
      <4>1. /\ UNCHANGED <<read, write>>
            /\ ring' = [ring EXCEPT ![write % Ring] = [at |-> write, gen |-> gen]]
        BY <2>3, <3>2 DEF PushFrame
      <4>2. Buffered' = Buffered
        BY <4>1, CursorMoves
      <4>3. /\ Ahead' \in Seq(Frame) /\ Len(Ahead') = Buffered
            /\ \A i \in 1 .. Buffered : Ahead'[i] = ring'[Slot(read, i - 1)]
        BY <1>1, <1>4, <4>1, <4>2
      <4>4. \A i \in 1 .. Len(Ahead) : Ahead[i] = Ahead'[i]
        <5> TAKE i \in 1 .. Len(Ahead)
        <5>1. /\ Buffered < Ring /\ i - 1 \in 0 .. Ring /\ i - 1 \in 0 .. Buffered - 1
              /\ i \in 1 .. Buffered
          BY <1>1, <1>3, <3>2, Bounds
        <5>2. Slot(read, i - 1) # write % Ring
          BY <5>1, HeldSlots
        <5>3. Slot(read, i - 1) \in 0 .. Ring - 1
          BY <5>1, HeldSlots
        <5>4. ring'[Slot(read, i - 1)] = ring[Slot(read, i - 1)]
          BY <1>1, <4>1, <5>2, <5>3
        <5> QED
          BY <1>3, <4>3, <5>1, <5>4
      <4>5. Ahead' = Ahead
        <5>1. Len(Ahead) = Len(Ahead')
          BY <1>3, <4>3
        <5> HIDE DEF Ahead
        <5> QED
          BY <1>3, <4>3, <4>4, <5>1, SeqEqual
      <4> QED
        BY <2>1, <4>5, QueueIs
    <3> QED
      BY <3>1, <3>2
  <2>4. CASE PublishWrite
    <3>1. /\ UNCHANGED <<ring, read>> /\ mpc = "publish" /\ write' = Plus(write, 1)
      BY <2>4 DEF PublishWrite
    <3>2. Buffered' = Buffered + 1 /\ Buffered < Ring /\ Buffered' \in 0 .. Ring
      BY <1>1, <3>1, CursorMoves, Bounds DEF CountInv
    <3> DEFINE f == ring[write % Ring]
    <3>3. f \in Frame
      <4>1. write % Ring \in 0 .. Ring - 1
        BY HeldSlots
      <4> QED
        BY <1>1, <4>1
    <3>4. /\ Ahead' \in Seq(Frame) /\ Len(Ahead') = Len(Ahead) + 1
          /\ \A i \in 1 .. Buffered + 1 : Ahead'[i] = ring[Slot(read, i - 1)]
      BY <1>3, <1>4, <3>1, <3>2
    <3>5. Ahead'[Len(Ahead')] = f
      <4>1. Len(Ahead') = Buffered + 1 /\ Buffered + 1 \in 1 .. Buffered + 1
            /\ (Buffered + 1) - 1 = Buffered
        BY <1>1, <1>3, <3>4
      <4>2. Ahead'[Buffered + 1] = ring[Slot(read, Buffered)]
        BY <3>4, <4>1
      <4> QED
        BY <4>1, <4>2, HeldSlots
    <3>6. \A i \in 1 .. Len(Ahead) : Ahead'[i] = Ahead[i]
      BY <1>1, <1>3, <3>4
    <3>7. Ahead' = Append(Ahead, f)
      <4> HIDE DEF Ahead, f
      <4> QED
        BY <1>3, <3>3, <3>4, <3>5, <3>6, Appended
    <3>8. Len(Ahead) < Ring
      BY <1>3, <3>2
    <3>9. Queue!Push(f)
      BY <2>1, <3>7, <3>8, QueueIs
    <3> QED
      BY <3>3, <3>9 DEF Queue!Next
  <2>5. CASE BeginClear
    <3>1. CASE running
      BY <1>5, <2>1, <2>5, <3>1 DEF BeginClear
    <3>2. CASE ~running
      BY <1>6, <2>1, <2>5, <3>2 DEF BeginClear
    <3> QED
      BY <3>1, <3>2
  <2> QED
    BY <1>8, <2>2, <2>3, <2>4, <2>5 DEF MainStep
<1>9. CASE UNCHANGED vars
  BY <1>5, <1>9 DEF vars, shared, audioVars, Playing
<1> QED
  BY <1>7, <1>8, <1>9 DEF Next, Exited

\* The lock-free ring and its two threads are a bounded queue: a push or a
\* flush takes effect in one store, a block leaves in the store of s_read, and
\* nothing is lost, repeated, reordered or overwritten while it is copied.
THEOREM Refinement == Spec => ImplementsQueue
BY InvHolds, QueueInit, QueueStep, PTL DEF Spec, ImplementsQueue, Queue!Spec

-----------------------------------------------------------------------------
(* The end of the audio thread.                                            *)

\* shutdown() has cleared s_running before it waits, and nobody sets it again.
JoinInv == mpc = "join" => ~running

LEMMA JoinHolds == Spec => []JoinInv
<1>1. Init => JoinInv
  BY DEF Init, JoinInv
<1>2. JoinInv /\ [Next]_vars => JoinInv'
  <2> SUFFICES ASSUME JoinInv, [Next]_vars
               PROVE  JoinInv'
    OBVIOUS
  <2>1. CASE AudioStep
    BY <2>1 DEF AudioStep, LoopTop, HonourFlush, LoadCursors, CopyFrame, PublishRead, Output,
                mainVars, shared, JoinInv
  <2>2. CASE MainStep
    BY <2>2 DEF MainStep, BeginPush, PushFrame, PublishWrite, EndPush, ClearReturns,
                BeginClear, EndClear, ClearTimesOut, SetPaused, BeginShutdown, EndShutdown,
                mainVars, shared, JoinInv
  <2>3. CASE Exited \/ UNCHANGED vars
    BY <2>3 DEF Exited, vars, mainVars, shared, JoinInv
  <2> QED
    BY <2>1, <2>2, <2>3 DEF Next
<1> QED
  BY <1>1, <1>2, PTL DEF Spec

\* Asked to end, the thread comes nearer to its end with every step.
LEMMA AudioEnds ==
  ASSUME IInv, ~running, AudioStep
  PROVE  AudioLeft' \in 0 .. AudioLeft - 1
<1>1. /\ Block \in Nat \ {0} /\ take \in 0 .. Block
      /\ Buffered \in 0 .. Ring
      /\ block \in Seq(Frame)
  BY Bounds, BufferedType DEF IInv, TypeOK
<1>2. Len(block) \in Nat
  BY <1>1, LenProperties
<1>3. CASE LoopTop
  BY <1>3 DEF LoopTop, AudioLeft
<1>4. CASE HonourFlush
  BY <1>1, <1>4 DEF HonourFlush, AudioLeft
<1>5. CASE LoadCursors
  <2>1. apc = "load" /\ apc' = "copy" /\ block' = <<>>
    BY <1>5 DEF LoadCursors
  <2>2. PICK t \in 0 .. Block : take' = t
    BY <1>1, <1>5 DEF LoadCursors, Lesser
  <2>3. AudioLeft = Block + 5
    BY <2>1 DEF AudioLeft
  <2>4. AudioLeft' = t + 4
    BY <2>1, <2>2 DEF AudioLeft
  <2>5. t + 4 \in 0 .. Block + 5 - 1
    BY <1>1
  <2> QED
    BY <1>1, <2>3, <2>4, <2>5
<1>6. CASE CopyFrame
  <2>1. apc = "copy" /\ Len(block) <= take /\ AudioLeft = take - Len(block) + 4
    BY <1>6 DEF CopyFrame, AudioLeft, IInv, BlockInv
  <2>2. CASE Len(block) < take
    <3>1. take' = take /\ apc' = "copy" /\ Len(block') = Len(block) + 1
      BY <1>1, <1>6, <2>2 DEF CopyFrame
    <3>2. AudioLeft' = take - (Len(block) + 1) + 4
      BY <3>1 DEF AudioLeft
    <3> QED
      BY <1>1, <1>2, <2>1, <2>2, <3>2
  <2>3. CASE ~(Len(block) < take)
    <3>1. AudioLeft' = 3
      BY <1>6, <2>3 DEF CopyFrame, AudioLeft
    <3> QED
      BY <1>1, <1>2, <2>1, <3>1
  <2> QED
    BY <2>2, <2>3
<1>7. CASE PublishRead \/ Output
  BY <1>7 DEF PublishRead, Output, AudioLeft
<1> QED
  BY <1>3, <1>4, <1>5, <1>6, <1>7 DEF AudioStep

\* The join of a shutdown is bounded by one block, whatever its size, wherever
\* the request meets the thread (audio_out.cpp:46-102): the safety half of
\* ShutdownEnds, to which only the fairness of the two threads is to be added.
THEOREM ShutdownBounded == Spec => ShutdownAdvances
<1>1. IInv /\ JoinInv /\ [Next]_vars =>
        [mpc = "join" => AudioLeft' \in 0 .. AudioLeft - 1 \/ mpc' = "done"]_vars
  <2> SUFFICES ASSUME IInv, JoinInv, Next, mpc = "join"
               PROVE  AudioLeft' \in 0 .. AudioLeft - 1 \/ mpc' = "done"
    BY DEF vars
  <2>1. CASE AudioStep
    BY <2>1, AudioEnds DEF JoinInv
  <2>2. CASE MainStep
    BY <2>2 DEF MainStep, BeginPush, PushFrame, PublishWrite, EndPush, BeginClear, EndClear,
                ClearTimesOut, SetPaused, BeginShutdown, EndShutdown
  <2> QED
    BY <2>1, <2>2 DEF Next, Exited
<1> QED
  BY InvHolds, JoinHolds, <1>1, PTL DEF Spec, ShutdownAdvances

=============================================================================
