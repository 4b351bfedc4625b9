----------------------------- MODULE ThreadPool -----------------------------
(***************************************************************************)
(* The thread manager, main/thread.c.  A job is described by a record      *)
(* (struct pool_thread) on one of the stacks tm.start and tm.free; the     *)
(* operating-system threads are anonymous workers that are told by a byte  *)
(* in a pipe to take a record.  Neither end knows which worker takes which *)
(* record.  Critical sections under tm.pool_mutex are single steps: the    *)
(* variables they touch are only touched there, except for the reads of    *)
(* the cleanup, which are steps of their own.                              *)
(***************************************************************************)
EXTENDS Naturals, Sequences, FiniteSets

CONSTANTS
  Callers,      \* host threads that call create_thread
  MaxJobs,      \* bound: calls of create_thread
  ZeroBytes     \* bytes the cleanup writes (64)

ASSUME JobsAssumption ==
  MaxJobs \in Nat /\ ZeroBytes \in Nat /\ IsFiniteSet(Callers)

\* Records and workers are allocated together and numbered alike.
Ids == 1..MaxJobs

VARIABLES
  all,          \* number of records allocated, and of workers created
  start, free,  \* the two stacks of records, top first
  startpipe,
  job,          \* record -> the job in its func and data fields
  id, active,   \* record -> worker in its id field (0: none), active field
  wpc, th,      \* worker -> program counter, its local th
  cpc,          \* caller -> program counter
  njobs, ran,   \* history: jobs created, jobs started
  cleanup, zeros, joined

recVars == <<job, id, active>>
cleanupVars == <<cleanup, zeros, joined>>
\* The process lives and its pipe is open.
Alive == cleanup \notin {"killed", "done"}

vars == <<all, start, free, startpipe, recVars, wpc, th, cpc, njobs, ran,
          cleanupVars>>

-----------------------------------------------------------------------------
(* create_thread                                                           *)

\* Mutant: a reused record is not put on the start list.
Create_ReuseNotStarted(c) ==
  /\ cleanup = "no"
  /\ cpc[c] = "idle" /\ njobs < MaxJobs
  /\ LET r == IF free = <<>> THEN all + 1 ELSE Head(free)
     IN /\ IF free = <<>>
           THEN /\ all' = all + 1
                /\ wpc' = [wpc EXCEPT ![r] = "read"]
                /\ UNCHANGED free
           ELSE free' = Tail(free) /\ UNCHANGED <<all, wpc>>
        /\ job' = [job EXCEPT ![r] = njobs + 1]
        /\ start' = IF free = <<>> THEN <<r>> \o start ELSE start
  /\ njobs' = njobs + 1
  /\ cpc' = [cpc EXCEPT ![c] = "write"]
  /\ UNCHANGED <<startpipe, id, active, th, ran, cleanupVars>>

\* Mutant: only the first record comes with a worker.
Create_OneWorker(c) ==
  /\ cleanup = "no"
  /\ cpc[c] = "idle" /\ njobs < MaxJobs
  /\ LET r == IF free = <<>> THEN all + 1 ELSE Head(free)
     IN /\ IF free = <<>>
           THEN /\ all' = all + 1
                /\ wpc' = [wpc EXCEPT ![r] = IF all = 0 THEN "read" ELSE "none"]
                /\ UNCHANGED free
           ELSE free' = Tail(free) /\ UNCHANGED <<all, wpc>>
        /\ job' = [job EXCEPT ![r] = njobs + 1]
        /\ start' = <<r>> \o start
  /\ njobs' = njobs + 1
  /\ cpc' = [cpc EXCEPT ![c] = "write"]
  /\ UNCHANGED <<startpipe, id, active, th, ran, cleanupVars>>

\* The record for a new job, with a new worker if no record is free
Create(c) ==
  /\ cleanup = "no"
  /\ cpc[c] = "idle" /\ njobs < MaxJobs
  /\ LET r == IF free = <<>> THEN all + 1 ELSE Head(free)
     IN /\ IF free = <<>>
           THEN /\ all' = all + 1
                /\ wpc' = [wpc EXCEPT ![r] = "read"]
                /\ UNCHANGED free
           ELSE free' = Tail(free) /\ UNCHANGED <<all, wpc>>
        /\ job' = [job EXCEPT ![r] = njobs + 1]
        /\ start' = <<r>> \o start
  /\ njobs' = njobs + 1
  /\ cpc' = [cpc EXCEPT ![c] = "write"]
  /\ UNCHANGED <<startpipe, id, active, th, ran, cleanupVars>>

WriteByte(c) ==
  /\ Alive /\ cpc[c] = "write"
  /\ startpipe' = Append(startpipe, 1)
  /\ cpc' = [cpc EXCEPT ![c] = "idle"]
  /\ UNCHANGED <<all, start, free, recVars, wpc, th, njobs, ran, cleanupVars>>

-----------------------------------------------------------------------------
(* thread_entry                                                            *)

ReadByte(t) ==
  /\ Alive /\ wpc[t] = "read"
  /\ startpipe # <<>>
  /\ startpipe' = Tail(startpipe)
  /\ wpc' = [wpc EXCEPT ![t] = IF Head(startpipe) = 1 THEN "take" ELSE "exit"]
  /\ UNCHANGED <<all, start, free, recVars, th, cpc, njobs, ran, cleanupVars>>

\* Mutant: the record is not taken off the start list.
Take_NotRemoved(t) ==
  /\ Alive /\ wpc[t] = "take"
  /\ LET r == Head(start)
     IN /\ th' = [th EXCEPT ![t] = r]
        /\ id' = [id EXCEPT ![r] = t]
        /\ active' = [active EXCEPT ![r] = TRUE]
        /\ ran' = Append(ran, job[r])
  /\ UNCHANGED start
  /\ wpc' = [wpc EXCEPT ![t] = "run"]
  /\ UNCHANGED <<all, free, startpipe, job, cpc, njobs, cleanupVars>>

Take(t) ==
  /\ Alive /\ wpc[t] = "take"
  /\ LET r == Head(start)
     IN /\ th' = [th EXCEPT ![t] = r]
        /\ id' = [id EXCEPT ![r] = t]
        /\ active' = [active EXCEPT ![r] = TRUE]
        /\ ran' = Append(ran, job[r])
  /\ start' = Tail(start)
  /\ wpc' = [wpc EXCEPT ![t] = "run"]
  /\ UNCHANGED <<all, free, startpipe, job, cpc, njobs, cleanupVars>>

\* Mutant: the record is not returned.
Finish_NotFreed(t) ==
  /\ Alive /\ wpc[t] = "run"
  /\ active' = [active EXCEPT ![th[t]] = FALSE]
  /\ UNCHANGED free
  /\ th' = [th EXCEPT ![t] = 0]
  /\ wpc' = [wpc EXCEPT ![t] = "read"]
  /\ UNCHANGED <<all, start, startpipe, job, id, cpc, njobs, ran, cleanupVars>>

\* The job returns.
Finish(t) ==
  /\ Alive /\ wpc[t] = "run"
  /\ active' = [active EXCEPT ![th[t]] = FALSE]
  /\ free' = <<th[t]>> \o free
  /\ th' = [th EXCEPT ![t] = 0]
  /\ wpc' = [wpc EXCEPT ![t] = "read"]
  /\ UNCHANGED <<all, start, startpipe, job, id, cpc, njobs, ran, cleanupVars>>

-----------------------------------------------------------------------------
(* threadpool_cleanup, on the main thread                                  *)

\* Mutant: one byte too many.
CleanupZero_OffByOne ==
  /\ \A c \in Callers : cpc[c] = "idle"
  /\ cleanup \in {"no", "zeros"} /\ zeros <= ZeroBytes
  /\ cleanup' = "zeros"
  /\ zeros' = zeros + 1
  /\ startpipe' = Append(startpipe, 0)
  /\ UNCHANGED <<all, start, free, recVars, wpc, th, cpc, njobs, ran, joined>>

\* The bytes; the other callers have returned and none comes after.
CleanupZero ==
  /\ \A c \in Callers : cpc[c] = "idle"
  /\ cleanup \in {"no", "zeros"} /\ zeros < ZeroBytes
  /\ cleanup' = "zeros"
  /\ zeros' = zeros + 1
  /\ startpipe' = Append(startpipe, 0)
  /\ UNCHANGED <<all, start, free, recVars, wpc, th, cpc, njobs, ran, joined>>

\* The records are visited from the newest to the oldest; a record found
\* active ends the process (SIGKILL), otherwise the worker that took it last is
\* joined.  A join of an id that was never set, or of a worker that was joined
\* before, is taken to return.
CleanupRecord ==
  /\ cleanup \in {"zeros", "join"} /\ zeros = ZeroBytes
  /\ joined < all
  /\ LET r == all - joined
     IN IF active[r]
        THEN cleanup' = "killed" /\ UNCHANGED joined
        ELSE /\ id[r] # 0 => wpc[id[r]] = "exit"
             /\ cleanup' = "join" /\ joined' = joined + 1
  /\ UNCHANGED <<all, start, free, startpipe, recVars, wpc, th, cpc, njobs, ran,
                 zeros>>

CleanupDone ==
  /\ cleanup \in {"zeros", "join"} /\ zeros = ZeroBytes
  /\ joined = all
  /\ cleanup' = "done"
  /\ UNCHANGED <<all, start, free, startpipe, recVars, wpc, th, cpc, njobs, ran,
                 zeros, joined>>

-----------------------------------------------------------------------------
\* threadpool_init
Init ==
  /\ all = 0 /\ start = <<>> /\ free = <<>> /\ startpipe = <<>>
  /\ job = [r \in Ids |-> 0] /\ id = [r \in Ids |-> 0]
  /\ active = [r \in Ids |-> FALSE]
  /\ wpc = [t \in Ids |-> "none"] /\ th = [t \in Ids |-> 0]
  /\ cpc = [c \in Callers |-> "idle"]
  /\ njobs = 0 /\ ran = <<>>
  /\ cleanup = "no" /\ zeros = 0 /\ joined = 0

Worker(t) == ReadByte(t) \/ Take(t)

Next ==
  \/ \E c \in Callers : Create(c) \/ WriteByte(c)
  \/ \E t \in Ids : Worker(t) \/ Finish(t)
  \/ CleanupZero \/ CleanupRecord \/ CleanupDone

Spec == Init /\ [][Next]_vars

\* The host schedules workers and callers; a job need not return.
FairSpec ==
  /\ Spec
  /\ \A t \in Ids : WF_vars(Worker(t))
  /\ \A c \in Callers : WF_vars(WriteByte(c))
  /\ WF_vars(cleanup # "no" /\ (CleanupZero \/ CleanupRecord \/ CleanupDone))

-----------------------------------------------------------------------------
(* Properties                                                              *)

Elems(s) == {s[i] : i \in DOMAIN s}
Held == {th[t] : t \in {u \in Ids : wpc[u] = "run"}}

\* Types of tm, of the records and of the workers' locals.
TypeOK ==
  /\ all \in 0..MaxJobs /\ njobs \in 0..MaxJobs
  /\ start \in Seq(Ids) /\ free \in Seq(Ids) /\ startpipe \in Seq({0, 1})
  /\ job \in [Ids -> 0..MaxJobs] /\ id \in [Ids -> 0..MaxJobs]
  /\ active \in [Ids -> BOOLEAN] /\ th \in [Ids -> 0..MaxJobs]
  /\ wpc \in [Ids -> {"none", "read", "take", "run", "exit"}]
  /\ cpc \in [Callers -> {"idle", "write"}]
  /\ cleanup \in {"no", "zeros", "join", "killed", "done"}
  /\ zeros \in 0..ZeroBytes /\ joined \in 0..MaxJobs

\* A worker told to take a record finds one: thread_entry follows tm.start
\* without a test (thread.c 95-96), and the bytes are written after the
\* mutex is released.
StartCovered ==
  Cardinality({t \in Ids : wpc[t] = "take"})
    + Cardinality({i \in DOMAIN startpipe : startpipe[i] = 1}) <= Len(start)

\* Every record is on exactly one of the two stacks or in the hands of exactly
\* one worker, whichever workers take and return them.
RecordsPartitioned ==
  /\ Elems(start) \cup Elems(free) \cup Held = 1..all
  /\ Len(start) + Len(free) + Cardinality({t \in Ids : wpc[t] = "run"}) = all

\* No job is started twice.
RanOnce == Cardinality(Elems(ran)) = Len(ran)

\* A job handed to create_thread is started, even if no other job ever returns,
\* unless the pool is being cleaned up.
JobsStart ==
  \A j \in 1..MaxJobs : (njobs >= j) ~> (j \in Elems(ran) \/ cleanup # "no")

\* Workers that are still active when the pool is cleaned up are not waited
\* for, they meet "the big hammer" (thread.c 199-203): once every job has been
\* taken the cleanup ends.
CleanupEnds ==
  (cleanup = "zeros" /\ start = <<>>) ~> (cleanup \in {"killed", "done"})

\* The pool is intact: it has its type, no record is lost or on two stacks,
\* and there is one for every worker that is told to take one (thread.c 86-110).
PoolIntact == TypeOK /\ RecordsPartitioned /\ StartCovered
=============================================================================
