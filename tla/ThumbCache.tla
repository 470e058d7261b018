------------------------------ MODULE ThumbCache ------------------------------
(***************************************************************************)
(* thumb_cache.cpp: one worker at a time builds every system's thumbnail   *)
(* file or loads one of them; the main thread queues the jobs, adopts what *)
(* is finished and serves pictures out of the resident system.  As in      *)
(* RomScanner, the fields the main thread owns are one record and its      *)
(* calls are operators on it.                                              *)
(*                                                                         *)
(* A set of pictures is abstracted to whether it has any and whether its    *)
(* file has been rewritten since it was read.  update() is one step: the   *)
(* worker has the main thread's priority and cannot run between a spawn    *)
(* and the end of the call.                                                *)
(***************************************************************************)
EXTENDS Integers, Sequences

CONSTANTS NumSystems,   \* consoles in the library
          MaxIndex      \* bound: versions of the game index

ASSUME ThumbAssumption == NumSystems \in Nat \ {0} /\ MaxIndex \in Nat \ {0}

System == 0 .. NumSystems - 1
NoSystem == -1
Version == 0 .. MaxIndex

VARIABLE cache      \* the cache's fields

BuildJob(v) == [kind |-> "build", system |-> NoSystem, from |-> v]
LoadJob(s) == [kind |-> "load", system |-> s, from |-> 0]
NoJob == LoadJob(0)     \* Job{}
Job == {BuildJob(v) : v \in Version} \cup {LoadJob(s) : s \in System}

\* worker: m_threadId and m_done.  at: how far a build has come.
\* current: m_residentGeneration = m_generation; the two counters are only
\* ever compared, and not while no system is resident.
\* loaded, resident: the set the worker has read, and the one in use, hold
\* pictures.  ring: the system whose pictures the ring's textures are.
\* older: the resident system's file has been rewritten since it was read.
ThumbTypeOK ==
  /\ cache.worker \in {"none", "busy", "done"}
  /\ cache.at \in 0 .. NumSystems
  /\ cache.job \in Job
  /\ \A i, j \in DOMAIN cache.queue :
       cache.queue[i] \in Job /\ (cache.queue[i].kind = cache.queue[j].kind => i = j)
  /\ cache.stop \in BOOLEAN
  /\ cache.want \in System \cup {NoSystem}
  /\ cache.loaded \in BOOLEAN /\ cache.resident \in BOOLEAN
  /\ cache.ring \in System \cup {NoSystem}
  /\ cache.residentSystem \in System \cup {NoSystem}
  /\ cache.current \in BOOLEAN /\ cache.older \in BOOLEAN

EmptyCache ==
  [worker |-> "none", at |-> 0, job |-> NoJob, queue |-> <<>>, stop |-> FALSE,
   want |-> NoSystem, loaded |-> FALSE, resident |-> FALSE, ring |-> NoSystem,
   residentSystem |-> NoSystem, current |-> TRUE, older |-> FALSE]

-----------------------------------------------------------------------------
(* Calls of the main thread.                                               *)

Queued(c, kind) == {c.queue[i] : i \in {j \in DOMAIN c.queue : c.queue[j].kind = kind}}
Without(q, kind) ==
  LET kept[n \in 0 .. Len(q)] ==
        IF n = 0 THEN <<>>
        ELSE IF q[n].kind = kind THEN kept[n - 1] ELSE Append(kept[n - 1], q[n])
  IN  kept[Len(q)]

\* startNext(), when the thread can be had; a spawn that fails drops the
\* whole queue.
CanStart(c) == c.worker = "none" /\ c.queue # <<>>
StartNext(c) ==
  IF CanStart(c)
    THEN [c EXCEPT !.worker = "busy", !.at = 0, !.stop = FALSE,
                   !.job = Head(c.queue), !.queue = Tail(c.queue)]
    ELSE c
SpawnFailed(c) == [c EXCEPT !.job = NoJob, !.queue = <<>>, !.stop = FALSE]

\* rebuild(): "A newer build replaces any queued one."
Rebuild(c, v) ==
  [c EXCEPT !.queue = Append(Without(c.queue, "build"), BuildJob(v))]

\* Mutant: the system wanted last is not asked for again.
AskedOnce(c, s) ==
  IF c.want = s THEN c
  ELSE [c EXCEPT !.want = s, !.queue = Append(Without(c.queue, "load"), LoadJob(s))]

\* Mutant: loads nobody waits for any more stay in the queue.
AskedToo(c, s) ==
  IF LoadJob(s) \in Queued(c, "load") \/ (c.residentSystem = s /\ c.current)
  THEN [c EXCEPT !.want = s]
  ELSE [c EXCEPT !.want = s, !.queue = Append(c.queue, LoadJob(s))]

\* requestSystem(), up to its startNext().
Asked(c, s) ==
  IF \/ c.residentSystem = s /\ c.current
     \/ c.worker # "none" /\ c.job = LoadJob(s)
     \/ LoadJob(s) \in Queued(c, "load")
  THEN [c EXCEPT !.want = s]
  ELSE [c EXCEPT !.want = s, !.queue = Append(Without(c.queue, "load"), LoadJob(s))]

DropResident(c) ==
  [c EXCEPT !.resident = FALSE, !.residentSystem = NoSystem, !.current = TRUE,
            !.ring = NoSystem, !.older = FALSE]

\* update(), a finished load: it becomes the resident set.
AdoptLoad(c) ==
  [DropResident(c) EXCEPT !.worker = "none", !.loaded = FALSE, !.job = NoJob,
     !.resident = c.loaded, !.residentSystem = c.job.system, !.current = TRUE]

\* Mutant: a finished build does not age what is resident.
LandedQuietly(c) == [c EXCEPT !.worker = "none"]

\* update(), a finished build: the generation goes up.
Landed(c) == [c EXCEPT !.worker = "none", !.current = (c.residentSystem = NoSystem)]

\* The job is forgotten, even if asking again has just started one with it.
ForgetJob(c) == [c EXCEPT !.job = NoJob]
AskAgain(c) == IF c.want = NoSystem THEN c ELSE Asked(c, c.want)

\* The outcomes of a call that ends in startNext().
Outcome(c, failed) == [cache |-> c, failed |-> failed]
Spawn(c) ==
  {Outcome(StartNext(c), FALSE)} \cup
  (IF CanStart(c) THEN {Outcome(SpawnFailed(c), TRUE)} ELSE {})

\* The outcomes of update(): requestSystem() starts a job of its own unless
\* the system is queued already, and the last line is startNext().
Updated(c) ==
  LET landed == Landed(c)
      again == AskAgain(landed)
  IN IF c.worker # "done" THEN Spawn(c)
     ELSE IF c.job.kind = "load" THEN Spawn(AdoptLoad(c))
     ELSE IF again.queue = landed.queue THEN Spawn(ForgetJob(again))
     ELSE {Outcome(ForgetJob(o.cache), o.failed) : o \in Spawn(again)}

\* get() on a row of the resident system: its picture goes through the ring.
Shown(c) == IF c.resident THEN [c EXCEPT !.ring = c.residentSystem] ELSE c

\* suspend(): the request, and what is left once the worker is joined.
SuspendAsked(c) == [c EXCEPT !.stop = TRUE]
WorkerJoinable(c) == c.worker # "busy"

\* Mutant: jobs that were waiting survive the suspension.
SuspendedKeepsQueue(c) ==
  [DropResident(c) EXCEPT !.worker = "none", !.stop = FALSE, !.loaded = FALSE, !.job = NoJob]

Suspended(c) ==
  [DropResident(c) EXCEPT !.worker = "none", !.stop = FALSE, !.loaded = FALSE,
                          !.queue = <<>>, !.job = NoJob]

-----------------------------------------------------------------------------
(* The worker.                                                             *)

\* runJob() of a load; a file that is missing or cannot be read gives an empty
\* set.
WorkLoad ==
  /\ cache.worker = "busy" /\ cache.job.kind = "load"
  /\ \E pictures \in BOOLEAN :
       cache' = [cache EXCEPT !.worker = "done", !.loaded = pictures]

\* runJob() of a build: the next system's file.  Pictures that exist are kept
\* (`force` is never true), so a file with none to add, or one that cannot be
\* written, stays as it is; one that would be empty is removed.
WorkBuild ==
  /\ cache.worker = "busy" /\ cache.job.kind = "build"
  /\ ~cache.stop /\ cache.at < NumSystems
  /\ \E rewritten \in BOOLEAN :
       cache' = [cache EXCEPT !.at = @ + 1,
                   !.older = @ \/ (rewritten /\ cache.residentSystem = cache.at)]

EndBuild ==
  /\ cache.worker = "busy" /\ cache.job.kind = "build"
  /\ cache.stop \/ cache.at = NumSystems
  /\ cache' = [cache EXCEPT !.worker = "done", !.at = 0]

=============================================================================
