------------------------------ MODULE RomScanner ------------------------------
(***************************************************************************)
(* rom_scanner.cpp: the thread that walks the ROM folders, the two flags   *)
(* it leaves for the main thread, and the calls of the main thread on it.  *)
(* The scanner's fields are one record, and a call is an operator from a   *)
(* record to the next, or to the set of them; the main loop that makes the *)
(* calls is Frontend.                                                      *)
(***************************************************************************)

VARIABLE scan   \* the scanner's fields

\* thread: where the scanner's thread is.  It walks the folders, sets done,
\* clears running, and has then ended without being joined yet.
\* found: m_results; a walk that stopRequested ended early leaves "cut".
ScannerTypeOK ==
  scan \in [thread : {"none", "walk", "set_done", "clear_running", "ended"},
            running : BOOLEAN,
            done : BOOLEAN,
            stop : BOOLEAN,
            found : {"none", "cut", "full"}]

IdleScanner == [thread |-> "none", running |-> FALSE, done |-> FALSE,
                stop |-> FALSE, found |-> "none"]

-----------------------------------------------------------------------------
(* Calls of the main thread.                                               *)

\* start(), made only while running is clear: a thread that has ended is
\* joined, results nobody took are dropped.
Started(s) == [s EXCEPT !.thread = "walk", !.running = TRUE,
                        !.stop = FALSE, !.done = FALSE, !.found = "none"]

\* start() when no thread can be had: the walk is done by the caller.
StartedInline(s) == [s EXCEPT !.thread = "none", !.running = FALSE,
                              !.stop = FALSE, !.done = TRUE, !.found = "full"]

\* stop(): the request, and what is left once the thread is joined.
StopAsked(s) == [s EXCEPT !.stop = TRUE]
Joinable(s) == s.thread \in {"none", "ended"}

\* Mutant: results that were already complete survive the stop.
StoppedKeepsResults(s) == [s EXCEPT !.thread = "none", !.running = FALSE]

Stopped(s) == [s EXCEPT !.thread = "none", !.running = FALSE,
                        !.done = FALSE, !.found = "none"]

\* takeResults(), once done is set: the thread is joined, so it has cleared
\* running as well.
Taken(s) == [s EXCEPT !.thread = "none", !.running = FALSE,
                      !.done = FALSE, !.found = "none"]

-----------------------------------------------------------------------------
(* The thread.                                                             *)

Walk ==
  /\ scan.thread = "walk"
  /\ \E f \in IF scan.stop THEN {"cut", "full"} ELSE {"full"} :
       scan' = [scan EXCEPT !.found = f, !.thread = "set_done"]

\* Mutant: the flag the wrong way round.
SetDoneIfStopped ==
  /\ scan.thread = "set_done"
  /\ scan' = [scan EXCEPT !.done = scan.stop, !.thread = "clear_running"]

\* done = !stopRequested
SetDone ==
  /\ scan.thread = "set_done"
  /\ scan' = [scan EXCEPT !.done = ~scan.stop, !.thread = "clear_running"]

ClearRunning ==
  /\ scan.thread = "clear_running"
  /\ scan' = [scan EXCEPT !.running = FALSE, !.thread = "ended"]

ScannerThread == Walk \/ SetDone \/ ClearRunning

=============================================================================
