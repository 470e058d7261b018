------------------------------- MODULE AudioRing -------------------------------
(***************************************************************************)
(* audio_out.cpp: the lock-free ring between the emulating main thread     *)
(* (push, clear, setPaused, shutdown) and the audio thread.  Every shared   *)
(* atomic is read and written by an action of its own thread, so the two    *)
(* threads interleave between any two of them; with `strict` the audio      *)
(* thread also has the priority it is created with (0x10 against the main   *)
(* thread's), and the main thread runs only while it sleeps in              *)
(* sceAudioOutputBlocking.                                                 *)
(*                                                                         *)
(* The free-running 32-bit cursors wrap at Wrap, a multiple of the ring     *)
(* size as 2^32 is.  A frame is the cursor it was written at and the        *)
(* number, modulo 2, of clear() calls that had returned, so that frames of  *)
(* different laps and of different games differ.                           *)
(***************************************************************************)
EXTENDS Naturals, Sequences

CONSTANTS Ring,      \* RING_FRAMES
          Block,     \* BLOCK_FRAMES
          Wrap,      \* cursors are modulo Wrap
          MaxPush    \* bound: output frames of one push

\* The cursors go round the ring a whole number of times, and at least twice,
\* before they wrap (the code: 2^32 is 2^19 laps of 8192 frames).
ASSUME RingAssumption ==
  /\ {Ring, Block, MaxPush, Wrap} \subseteq Nat \ {0}
  /\ Wrap % Ring = 0
  /\ Wrap >= 2 * Ring

VARIABLES ring, write, read, running, flush, paused,    \* s_... of audio_out.cpp
          apc, lread, take, block,                      \* the audio thread
          mpc, left, resample,                          \* the main thread
          gen,       \* history: clear() calls that have returned, modulo 2
          late,      \* history: some clear() has given up waiting
          strict     \* scheduling: the audio thread has priority

shared == <<ring, write, read, running, flush, paused>>
audioVars == <<apc, lread, take, block>>
mainVars == <<mpc, left, resample, gen, late>>
vars == <<shared, audioVars, mainVars, strict>>

Cursor == 0 .. Wrap - 1
Frame == [at : Cursor, gen : {0, 1}]
NoFrame == [at |-> 0, gen |-> 0]

\* Mutant: the cursors do not wrap.
PlusUnwrapped(c, n) == c + n
Plus(c, n) == (c + n) % Wrap
Minus(c, d) == (c + Wrap - d) % Wrap
Lesser(a, b) == IF a < b THEN a ELSE b

TypeOK ==
  /\ ring \in [0 .. Ring - 1 -> Frame]
  /\ write \in Cursor /\ read \in Cursor /\ lread \in Cursor
  /\ {running, flush, paused, resample, late, strict} \subseteq BOOLEAN
  /\ apc \in {"top", "flush", "load", "copy", "publish", "output", "ended"}
  /\ take \in 0 .. Block
  /\ block \in Seq(Frame) /\ Len(block) <= Block
  /\ mpc \in {"idle", "push", "publish", "clear", "join", "done"}
  /\ left \in 0 .. MaxPush
  /\ gen \in {0, 1}

\* After init(): its thread runs, or could not be started.
Init ==
  /\ ring = [i \in 0 .. Ring - 1 |-> NoFrame]
  /\ write = 0 /\ read = 0
  /\ running \in BOOLEAN
  /\ flush = FALSE /\ paused = TRUE
  /\ apc = (IF running THEN "top" ELSE "ended")
  /\ lread = 0 /\ take = 0 /\ block = <<>>
  /\ mpc = "idle" /\ left = 0 /\ resample = FALSE
  /\ gen = 0 /\ late = FALSE
  /\ strict \in BOOLEAN

\* buffered(): frames in the ring.
Buffered == Minus(write, read)

-----------------------------------------------------------------------------
(* audioThread                                                             *)

\* Mutant: the loop does not look at s_running.
LoopForever ==
  /\ apc = "top"
  /\ apc' = (IF flush THEN "flush" ELSE "load")
  /\ flush' = FALSE
  /\ UNCHANGED <<ring, write, read, running, paused, lread, take, block>>

\* The loop condition, then s_flush.exchange(false).
LoopTop ==
  /\ apc = "top"
  /\ apc' = (IF ~running THEN "ended" ELSE IF flush THEN "flush" ELSE "load")
  /\ flush' = (flush /\ ~running)
  /\ UNCHANGED <<ring, write, read, running, paused, lread, take, block>>

\* s_read.store(s_write.load()).
HonourFlush ==
  /\ apc = "flush"
  /\ read' = write
  /\ apc' = "load"
  /\ UNCHANGED <<ring, write, running, flush, paused, lread, take, block>>

\* Mutant: the block is full whatever the ring holds.
LoadCursorsUnchecked ==
  /\ apc = "load"
  /\ lread' = read
  /\ take' = IF paused THEN 0 ELSE Block
  /\ block' = <<>>
  /\ apc' = "copy"
  /\ UNCHANGED shared

LoadCursors ==
  /\ apc = "load"
  /\ lread' = read
  /\ take' = IF paused THEN 0 ELSE Lesser(Buffered, Block)
  /\ block' = <<>>
  /\ apc' = "copy"
  /\ UNCHANGED shared

\* One frame of the copy out of the ring (the rest of the block is silence).
CopyFrame ==
  /\ apc = "copy"
  /\ IF Len(block) < take
     THEN /\ block' = Append(block, ring[(lread + Len(block)) % Ring])
          /\ UNCHANGED apc
     ELSE apc' = "publish" /\ UNCHANGED block
  /\ UNCHANGED <<shared, lread, take>>

\* s_read.store(read + take), and the block goes to the hardware.
PublishRead ==
  /\ apc = "publish"
  /\ read' = Plus(lread, take)
  /\ apc' = "output"
  /\ lread' = 0 /\ take' = 0
  /\ UNCHANGED <<ring, write, running, flush, paused, block>>

\* sceAudioOutputBlocking returns.
Output ==
  /\ apc = "output"
  /\ apc' = "top"
  /\ block' = <<>>
  /\ UNCHANGED <<shared, lread, take>>

AudioStep ==
  /\ LoopTop \/ HonourFlush \/ LoadCursors \/ CopyFrame \/ PublishRead \/ Output
  /\ UNCHANGED <<mainVars, strict>>

-----------------------------------------------------------------------------
(* The main thread.                                                        *)

\* push(): n output frames, with or without the resampler.
BeginPush(n, rs) ==
  /\ mpc = "idle"
  /\ mpc' = "push" /\ left' = n /\ resample' = rs
  /\ UNCHANGED <<shared, gen, late>>

\* Mutant: full is tested with one frame too many.
PushFrameOffByOne ==
  /\ mpc = "push" /\ left > 0
  /\ IF Buffered > Ring
     THEN left' = (IF resample THEN left - 1 ELSE 0) /\ UNCHANGED <<ring, mpc>>
     ELSE /\ ring' = [ring EXCEPT ![write % Ring] = [at |-> write, gen |-> gen]]
          /\ mpc' = "publish"
          /\ UNCHANGED left
  /\ UNCHANGED <<write, read, running, flush, paused, resample, gen, late>>

\* A frame finds the ring full and is dropped (with the rest of the push when
\* the rates agree), or is written to its slot.
PushFrame ==
  /\ mpc = "push" /\ left > 0
  /\ IF Buffered >= Ring
     THEN left' = (IF resample THEN left - 1 ELSE 0) /\ UNCHANGED <<ring, mpc>>
     ELSE /\ ring' = [ring EXCEPT ![write % Ring] = [at |-> write, gen |-> gen]]
          /\ mpc' = "publish"
          /\ UNCHANGED left
  /\ UNCHANGED <<write, read, running, flush, paused, resample, gen, late>>

\* s_write.store(write).
PublishWrite ==
  /\ mpc = "publish"
  /\ write' = Plus(write, 1)
  /\ left' = left - 1
  /\ mpc' = "push"
  /\ UNCHANGED <<ring, read, running, flush, paused, resample, gen, late>>

EndPush ==
  /\ mpc = "push" /\ left = 0
  /\ mpc' = "idle" /\ resample' = FALSE
  /\ UNCHANGED <<shared, left, gen, late>>

\* clear(): ask for a flush; without an audio thread, do it here.
ClearReturns == mpc' = "idle" /\ gen' = 1 - gen
BeginClear ==
  /\ mpc = "idle"
  /\ IF running
     THEN flush' = TRUE /\ mpc' = "clear" /\ UNCHANGED <<read, gen>>
     ELSE read' = write /\ flush' = FALSE /\ ClearReturns
  /\ UNCHANGED <<ring, write, running, paused, left, resample, late>>

\* Mutant: the fire-and-forget flush clear() used to be.
EndClearAtOnce ==
  /\ mpc = "clear"
  /\ ClearReturns
  /\ UNCHANGED <<shared, left, resample, late>>

\* The audio thread has taken the request.
EndClear ==
  /\ mpc = "clear" /\ ~flush
  /\ ClearReturns
  /\ UNCHANGED <<shared, left, resample, late>>

\* 500 waits of 100 us and the request is still there: log and go on.
ClearTimesOut ==
  /\ mpc = "clear" /\ flush
  /\ ClearReturns
  /\ late' = TRUE
  /\ UNCHANGED <<shared, left, resample>>

SetPaused ==
  /\ mpc = "idle"
  /\ paused' \in BOOLEAN
  /\ UNCHANGED <<ring, write, read, running, flush, mainVars>>

\* shutdown(): stop the thread, then wait for its end.
BeginShutdown ==
  /\ mpc = "idle"
  /\ running' = FALSE
  /\ mpc' = "join"
  /\ UNCHANGED <<ring, write, read, flush, paused, left, resample, gen, late>>

EndShutdown ==
  /\ mpc = "join" /\ apc = "ended"
  /\ mpc' = "done"
  /\ UNCHANGED <<shared, left, resample, gen, late>>

MainStep ==
  /\ strict => apc \in {"output", "ended"}
  /\ \/ \E n \in 1 .. MaxPush, rs \in BOOLEAN : BeginPush(n, rs)
     \/ PushFrame \/ PublishWrite \/ EndPush
     \/ BeginClear \/ EndClear \/ ClearTimesOut
     \/ SetPaused
     \/ BeginShutdown \/ EndShutdown
  /\ UNCHANGED <<audioVars, strict>>

\* The application has shut audio down and exits.
Exited == mpc = "done" /\ UNCHANGED vars

Next == AudioStep \/ MainStep \/ Exited

\* The audio thread sleeps at most one block at a time, and a thread that waits
\* for its end is woken.
Spec ==
  /\ Init /\ [][Next]_vars
  /\ WF_vars(AudioStep)
  /\ WF_vars(EndShutdown /\ UNCHANGED <<audioVars, strict>>)

-----------------------------------------------------------------------------
(* Properties.                                                             *)

\* The consumer's cursor never passes the producer's and the producer never
\* laps it, through wrap-around, flushes and drops (audio_out.cpp:48-50).
CursorsOrdered == Buffered <= Ring

\* The ring and its two threads are a bounded FIFO: blocks are taken in order,
\* without gap, repeat or frame overwritten while it is copied.
Queue == INSTANCE FrameQueue WITH
  Capacity <- Ring,
  queue <- [i \in 1 .. Buffered |-> ring[Plus(read, i - 1) % Ring]],
  played <- IF apc = "output" THEN block ELSE <<>>

ImplementsQueue == Queue!Spec

\* Nothing pushed before a clear() that was acknowledged is played after it has
\* returned, under any scheduling (audio_out.h, "Drop whatever is buffered").
StaleNeverPlayed ==
  apc = "output" /\ mpc # "clear" /\ ~late =>
    \A i \in DOMAIN block : block[i].gen = gen

\* Frames pushed since the last clear() returned are in the ring.
FreshBuffered ==
  /\ mpc # "clear"
  /\ \E i \in 0 .. Buffered - 1 : ring[Plus(read, i) % Ring].gen = gen

\* The flush never throws away frames pushed after clear() returned, given the
\* thread priorities and an acknowledged request.
FlushDropsStaleOnly == strict /\ ~late /\ apc = "flush" => ~FreshBuffered

\* The same without the proviso: the flush is over before clear() returns, so
\* the prefill that follows is never discarded (audio_out.cpp:209-212, "The
\* old fire-and-forget flush could run after the core had already produced its
\* new post-load audio, discarding that fresh prefill").
PrefillIsKept == strict /\ apc = "flush" => ~FreshBuffered

\* The steps the audio thread has to go, at most, once it is asked to end.
AudioLeft ==
  CASE apc = "flush" -> Block + 6 [] apc = "load" -> Block + 5
    [] apc = "copy" -> take - Len(block) + 4 [] apc = "publish" -> 3
    [] apc = "output" -> 2 [] apc = "top" -> 1 [] OTHER -> 0

\* The join of a shutdown is over after one block at most, wherever the request
\* to end, an armed flush or a pause met the audio thread: each step there is
\* ends it or brings the thread nearer to its end (audio_out.cpp:46-102).
ShutdownAdvances ==
  [][mpc = "join" => AudioLeft' \in 0 .. AudioLeft - 1 \/ mpc' = "done"]_vars

\* A shutdown gets past the join.
ShutdownEnds == mpc = "join" ~> mpc = "done"

=============================================================================
