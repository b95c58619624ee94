------------------------------ MODULE JobQueue ------------------------------
(***************************************************************************)
(* The in-process job queue of core/jobs.py, as the developer endpoints    *)
(* drive it.  There is no worker: a job runs in the thread of the request  *)
(* that takes it.                                                          *)
(*                                                                         *)
(* _lock protects the steps that take a job off the queue and those that   *)
(* put one back, and nothing else: a job executes, and its status is read  *)
(* and written, with the lock released.  A thread that has executed a job  *)
(* looks at the record twice, and takes the lock twice: once to schedule   *)
(* the job, and again to put it on the dead letter list.  In between the   *)
(* job may be run, and filed, by another thread.                           *)
(***************************************************************************)
EXTENDS Naturals, Sequences, FiniteSets, SequencesExt

CONSTANTS
  Jobs,        \* ids of jobs
  Threads,     \* threads that serve requests
  Retries,     \* values of max_retries in use
  MaxQueue,    \* _MAX_QUEUE
  MaxDead,     \* maxlen of _DEAD_LETTER
  MaxAttempts, \* bound: a periodic job that has run so often is not due again
  NoJob

ASSUME JobQueueAssumption ==
  /\ NoJob \notin Jobs /\ IsFiniteSet(Jobs)
  /\ Retries \subseteq Nat
  /\ MaxQueue \in Nat /\ MaxAttempts \in Nat
  /\ MaxDead \in Nat \ {0}

VARIABLES
  jobs,        \* _jobs
  queue,       \* _queue
  scheduled,   \* the keys of _scheduled
  due,         \* the scheduled jobs whose next_run has passed
  dead,        \* _DEAD_LETTER
  thread,      \* what each thread is doing
  named        \* history: the jobs that were run by id

vars == <<jobs, queue, scheduled, due, dead, thread, named>>

\* Status "none": no such job.  every: interval_seconds is set.
Record == [status : {"none", "queued", "running", "success", "error"},
           attempts : Nat, retries : Retries \cup {0}, every : BOOLEAN]

NoRecord == [status |-> "none", attempts |-> 0, retries |-> 0, every |-> FALSE]

\* looping: the thread is in the loop at the end of tick.
Session == [phase : {"idle", "append", "loop", "check", "start", "run", "file", "bury"},
            job : Jobs \cup {NoJob}, looping : BOOLEAN,
            retries : Retries \cup {0}, every : BOOLEAN]

Idle == [phase |-> "idle", job |-> NoJob, looping |-> FALSE, retries |-> 0, every |-> FALSE]

TypeOK ==
  /\ jobs \in [Jobs -> Record]
  /\ queue \in Seq(Jobs)
  /\ scheduled \subseteq Jobs /\ due \subseteq scheduled
  /\ dead \in Seq(Jobs) /\ Len(dead) <= MaxDead
  /\ thread \in [Threads -> Session]
  /\ named \subseteq Jobs

Init ==
  /\ jobs = [j \in Jobs |-> NoRecord]
  /\ queue = <<>> /\ scheduled = {} /\ due = {} /\ dead = <<>>
  /\ thread = [t \in Threads |-> Idle]
  /\ named = {}

-----------------------------------------------------------------------------
(* Putting jobs on the queue *)

Known(j) == jobs[j].status # "none"

\* A thread about to bury a job has let go of it: it will read the record once
\* more, and write nothing to it.
Holds(t, j) == thread[t].phase \notin {"idle", "bury"} /\ thread[t].job = j

\* Thread t goes on in another phase.
Goto(t, phase) == thread' = [thread EXCEPT ![t] = [thread[t] EXCEPT !.phase = phase]]

\* The bound is tested, and the id made, under the lock; the lock is released
\* before the job is appended.
Enqueue(t, retries, every) ==
  /\ thread[t].phase = "idle" /\ Len(queue) < MaxQueue
  /\ \E j \in Jobs :
       /\ ~Known(j) /\ \A u \in Threads : ~Holds(u, j)
       /\ thread' = [thread EXCEPT ![t] = [phase |-> "append", job |-> j, looping |-> FALSE,
                                           retries |-> retries, every |-> every]]
  /\ UNCHANGED <<jobs, queue, scheduled, due, dead, named>>

\* Retrying a dead job enqueues a copy; the developer endpoint copies any job.
RequeueDeadLetter(t, j) == Known(j) /\ Enqueue(t, jobs[j].retries, jobs[j].every)

Insert(t) ==
  LET q == thread[t] IN
  /\ q.phase = "append"
  /\ jobs' = [jobs EXCEPT ![q.job] = [status |-> "queued", attempts |-> 0,
                                      retries |-> q.retries, every |-> q.every]]
  /\ queue' = Append(queue, q.job)
  /\ thread' = [thread EXCEPT ![t] = Idle]
  /\ UNCHANGED <<scheduled, due, dead, named>>

-----------------------------------------------------------------------------
(* Taking them off *)

\* Under the lock, run_next takes the oldest job whatever its status.
Pop(t) ==
  /\ queue # <<>>
  /\ queue' = Tail(queue)
  /\ thread' = [thread EXCEPT ![t] = [thread[t] EXCEPT !.phase = "start", !.job = Head(queue)]]
  /\ UNCHANGED <<jobs, scheduled, due, dead, named>>

RunNext(t) == thread[t].phase = "idle" /\ Pop(t)

\* Under the lock, run_job_id takes the job off the queue, if it is queued.
RunJobId(t, j) ==
  /\ thread[t].phase = "idle" /\ Known(j)
  /\ queue' = IF jobs[j].status = "queued" THEN RemoveFirst(queue, j) ELSE queue
  /\ thread' = [thread EXCEPT ![t] = [Idle EXCEPT !.phase = "check", !.job = j]]
  /\ named' = named \cup {j}
  /\ UNCHANGED <<jobs, scheduled, due, dead>>

\* With the lock released, it executes the job if it is queued by now.
Check(t) ==
  LET j == thread[t].job IN
  /\ thread[t].phase = "check"
  /\ \/ jobs[j].status = "queued" /\ Goto(t, "start")
     \/ jobs[j].status # "queued" /\ thread' = [thread EXCEPT ![t] = Idle]
  /\ UNCHANGED <<jobs, queue, scheduled, due, dead, named>>

\* Mutant of Tick: a job that is due stays scheduled.
TickKeeps(t) ==
  /\ thread[t].phase = "idle"
  /\ jobs' = [j \in Jobs |-> IF j \in due THEN [jobs[j] EXCEPT !.status = "queued"] ELSE jobs[j]]
  /\ \E now \in SetToSeqs(due) : queue' = queue \o now
  /\ thread' = [thread EXCEPT ![t] = [Idle EXCEPT !.phase = "loop", !.looping = TRUE]]
  /\ UNCHANGED <<scheduled, due, dead, named>>

\* Mutant of Tick: what does not fit into the queue is dropped.
TickDrops(t) ==
  /\ thread[t].phase = "idle"
  /\ jobs' = [j \in Jobs |-> IF j \in due THEN [jobs[j] EXCEPT !.status = "queued"] ELSE jobs[j]]
  /\ \E now \in SetToSeqs(due) :
       queue' = IF Len(queue \o now) <= MaxQueue THEN queue \o now ELSE queue
  /\ scheduled' = scheduled \ due
  /\ due' = {}
  /\ thread' = [thread EXCEPT ![t] = [Idle EXCEPT !.phase = "loop", !.looping = TRUE]]
  /\ UNCHANGED <<dead, named>>

\* Under the lock, tick queues what is due, however long the queue is, in the
\* order of the dictionary, which is left open.
Tick(t) ==
  /\ thread[t].phase = "idle"
  /\ jobs' = [j \in Jobs |-> IF j \in due THEN [jobs[j] EXCEPT !.status = "queued"] ELSE jobs[j]]
  /\ \E now \in SetToSeqs(due) : queue' = queue \o now
  /\ scheduled' = scheduled \ due
  /\ due' = {}
  /\ thread' = [thread EXCEPT ![t] = [Idle EXCEPT !.phase = "loop", !.looping = TRUE]]
  /\ UNCHANGED <<dead, named>>

\* Mutant of Loop: tick runs one job.
LoopOnce(t) ==
  /\ thread[t].phase = "loop"
  /\ \/ queue = <<>> /\ thread' = [thread EXCEPT ![t] = Idle]
        /\ UNCHANGED <<jobs, queue, scheduled, due, dead, named>>
     \/ /\ queue # <<>>
        /\ queue' = Tail(queue)
        /\ thread' = [thread EXCEPT ![t] = [Idle EXCEPT !.phase = "start", !.job = Head(queue)]]
        /\ UNCHANGED <<jobs, scheduled, due, dead, named>>

\* Then it runs jobs until the queue is empty.
Loop(t) ==
  /\ thread[t].phase = "loop"
  /\ \/ Pop(t)
     \/ /\ queue = <<>> /\ thread' = [thread EXCEPT ![t] = Idle]
        /\ UNCHANGED <<jobs, queue, scheduled, due, dead, named>>

-----------------------------------------------------------------------------
(* Executing them *)

Start(t) ==
  LET j == thread[t].job IN
  /\ thread[t].phase = "start"
  /\ jobs' = [jobs EXCEPT ![j] = [jobs[j] EXCEPT !.status = "running", !.attempts = @ + 1]]
  /\ Goto(t, "run")
  /\ UNCHANGED <<queue, scheduled, due, dead, named>>

\* The job's function returns or raises.
Finish(t) ==
  LET j == thread[t].job IN
  /\ thread[t].phase = "run"
  /\ \E status \in {"success", "error"} :
       jobs' = [jobs EXCEPT ![j] = [jobs[j] EXCEPT !.status = status]]
  /\ Goto(t, "file")
  /\ UNCHANGED <<queue, scheduled, due, dead, named>>

MayRetry(j) == jobs[j].status = "error" /\ jobs[j].attempts <= jobs[j].retries

Exhausted(j) == jobs[j].status = "error" /\ jobs[j].attempts > jobs[j].retries

\* Mutant of Again: every success is scheduled again.
AgainAlways(j) == MayRetry(j) \/ jobs[j].status = "success"

Again(j) == MayRetry(j) \/ (jobs[j].status = "success" /\ jobs[j].every)

\* Mutant of Keep: a list without a length.
KeepAll(s, j) == Append(s, j)

\* A deque of bounded length forgets its oldest element.
Keep(s, j) == IF Len(s) < MaxDead THEN Append(s, j) ELSE Append(Tail(s), j)

\* _execute files the job for a retry or for its next turn.
File(t) ==
  LET j == thread[t].job IN
  /\ thread[t].phase = "file"
  /\ scheduled' = IF Again(j) THEN scheduled \cup {j} ELSE scheduled
  /\ due' = IF Again(j) THEN due \ {j} ELSE due
  /\ Goto(t, "bury")
  /\ UNCHANGED <<jobs, queue, dead, named>>

\* With the lock released in between, it looks at the record again, also if it
\* has just scheduled the job, and files it as dead.
Bury(t) ==
  LET j == thread[t].job IN
  /\ thread[t].phase = "bury"
  /\ dead' = IF Exhausted(j) THEN Keep(dead, j) ELSE dead
  /\ thread' = [thread EXCEPT ![t] = IF thread[t].looping
                                     THEN [Idle EXCEPT !.phase = "loop", !.looping = TRUE]
                                     ELSE Idle]
  /\ UNCHANGED <<jobs, queue, scheduled, due, named>>

PurgeDeadLetter ==
  /\ dead # <<>> /\ dead' = <<>>
  /\ UNCHANGED <<jobs, queue, scheduled, due, thread, named>>

\* Time passes: the back-off or the interval of a job is over.
Elapse(j) ==
  /\ j \in scheduled \ due
  /\ jobs[j].every => jobs[j].attempts < MaxAttempts
  /\ due' = due \cup {j}
  /\ UNCHANGED <<jobs, queue, scheduled, dead, thread, named>>

-----------------------------------------------------------------------------
Begin(t) ==
  \/ \E retries \in Retries, every \in BOOLEAN : Enqueue(t, retries, every)
  \/ \E j \in Jobs : RequeueDeadLetter(t, j) \/ RunJobId(t, j)
  \/ RunNext(t) \/ Tick(t)

Continue(t) == Insert(t) \/ Check(t) \/ Loop(t) \/ Start(t) \/ Finish(t)
               \/ File(t) \/ Bury(t)

Next == \/ \E t \in Threads : Begin(t) \/ Continue(t)
        \/ \E j \in Jobs : Elapse(j)
        \/ PurgeDeadLetter

Spec == Init /\ [][Next]_vars

\* A thread runs on, and the functions of the jobs return.
FairSpec == Spec /\ \A t \in Threads : WF_vars(Continue(t))

-----------------------------------------------------------------------------
(* What is required *)

Waiting(j) == j \in ToSet(queue) \/ j \in scheduled
Held(j) == \E t \in Threads : Holds(t, j)

\* No job is forgotten: one that is to run, run again or finish is queued,
\* scheduled or in the hands of a thread, whatever the threads do.
NoJobForgotten ==
  \A j \in Jobs :
    /\ jobs[j].status = "queued" \/ Again(j) => Waiting(j) \/ Held(j)
    /\ jobs[j].status = "running" => Held(j)

\* A job that is never run by id is in one place at a time: run_next and tick
\* alone execute no job twice at once, although they run it without the lock.
OnePlace ==
  \A j \in Jobs \ named :
    /\ \A i, k \in DOMAIN queue : queue[i] = j /\ queue[k] = j => i = k
    /\ j \in ToSet(queue) => ~Held(j) /\ j \notin scheduled
    /\ j \in scheduled => ~Held(j)
    /\ \A t, u \in Threads : Holds(t, j) /\ Holds(u, j) => t = u

\* Such a job gets its retries and not more.  What is on the dead letter list
\* has failed for good, although the thread that put it there may have executed
\* it before the last time: it waits nowhere, and nobody executes it (retrying
\* it makes a copy).
RetriesBounded ==
  /\ \A j \in Jobs \ named : ~jobs[j].every => jobs[j].attempts <= jobs[j].retries + 1
  /\ \A j \in ToSet(dead) \ named :
       /\ Exhausted(j) /\ ~Waiting(j)
       /\ \A t \in Threads : Holds(t, j) => thread[t].phase = "file"

\* A tick under way takes whatever is on the queue, although others may
\* take from the queue and add to it meanwhile.
TickDrains ==
  \A t \in Threads, j \in Jobs :
    (thread[t].looping /\ j \in ToSet(queue)) ~> (j \notin ToSet(queue))

-----------------------------------------------------------------------------
\* "If queued remove from queue to avoid double execution" (core/jobs.py:146):
\* no two threads run a job at once.
NoDoubleExecution ==
  \A t, u \in Threads :
    thread[t].phase = "run" /\ thread[u].phase = "run" /\ thread[t].job = thread[u].job
    => t = u
=============================================================================
