----------------------------- MODULE ThreadPool -----------------------------
(***************************************************************************)
(* The thread pool of thread_pool.c: a job queue, a semaphore that counts  *)
(* the jobs posted, and a fixed set of threads that run thread_do_job.     *)
(*                                                                         *)
(* A job is set (pushed on the queue) and posted (semaphore) by two calls, *)
(* so a thread may be woken by one client's post and take another client's *)
(* job.  A thread stops after it has run the exit job, whose body sets the *)
(* thread's own idle flag (worker.c, do_exit).                             *)
(*                                                                         *)
(* Each call on the queue or on a counter holds that object's mutex        *)
(* (ts_queue.c, thread_counter.c), so it is one step here; TsQueue models  *)
(* the inside of the queue's critical sections.                            *)
(*                                                                         *)
(* The module has no behaviour of its own: its client (Crawler) conjoins   *)
(* its actions with its own.  What a thread does between taking a job      *)
(* ("run") and coming back from it ("end") belongs to the client, but for  *)
(* the exit job, which DoExit runs.                                        *)
(***************************************************************************)
EXTENDS Integers, Sequences, FiniteSets

CONSTANTS
    Threads,        \* thread_items[0 .. thread_count - 1]
    Exit,           \* the job whose run is do_exit
    AllocFails      \* the functions whose malloc may return NULL

ASSUME ThreadsAssumption == IsFiniteSet(Threads) /\ Threads # {}

VARIABLES
    job_queue,      \* the jobs set and not yet taken, oldest first
    job_sem,        \* value of the semaphore job_sem
    jobs_lost,      \* the jobs queue_push dropped (no variable of the code: it
                    \* is written here and read by the properties only)
    idle,           \* thread_item->idle, one flag a thread
    tpc,            \* where each thread is in thread_do_job
    job,            \* the thread's local variable job
    thread_idle,    \* counter of the threads not running a job
    job_done        \* counter of the jobs finished (thread_item->job_done, each
                    \* thread's share of it, is only printed and left out)

queueVars == <<job_queue, job_sem, jobs_lost>>
doneVars == <<thread_idle, job_done>>
poolVars == <<queueVars, idle, tpc, job, thread_idle, job_done>>

PoolInit ==
    /\ job_queue = <<>>
    /\ job_sem = 0
    /\ jobs_lost = <<>>
    /\ idle = [t \in Threads |-> "IDLE"]
    /\ tpc = [t \in Threads |-> "start"]
    /\ job = [t \in Threads |-> Exit]      \* uninitialized until the first get_job
    /\ thread_idle = Cardinality(Threads)
    /\ job_done = 0

-----------------------------------------------------------------------------
(* What the clients call. *)

\* The push may fail (queue_push finds no memory for the element, prints so and
\* returns nothing): the client goes on as if the job were set.
SetJob(j) ==
    \/ /\ job_queue' = Append(job_queue, j)
       /\ UNCHANGED jobs_lost
    \/ /\ "queue_push" \in AllocFails
       /\ jobs_lost' = Append(jobs_lost, j)
       /\ UNCHANGED job_queue

PostJob == job_sem' = job_sem + 1

-----------------------------------------------------------------------------
(* thread_do_job. *)

Goto(t, from, to) == tpc[t] = from /\ tpc' = [tpc EXCEPT ![t] = to]

Start(t) ==
    /\ Goto(t, "start", "test")
    /\ idle' = [idle EXCEPT ![t] = "BUSY"]
    /\ UNCHANGED <<queueVars, job, doneVars>>

\* The loop's condition: wait for a job while the flag is busy, else return.
Test(t) ==
    /\ Goto(t, "test", IF idle[t] = "BUSY" THEN "wait" ELSE "gone")
    /\ UNCHANGED <<queueVars, idle, job, doneVars>>

\* Faulty form: sem_wait comes back without having taken a post.
WaitJobInterrupted(t) ==
    /\ Goto(t, "wait", "get")
    /\ UNCHANGED <<queueVars, idle, job, doneVars>>

WaitJob(t) ==
    /\ Goto(t, "wait", "get")
    /\ job_sem > 0
    /\ job_sem' = job_sem - 1
    /\ UNCHANGED <<job_queue, jobs_lost, idle, job, doneVars>>

\* Faulty form: the newest job is taken.
GetNewestJob(t) ==
    /\ Goto(t, "get", "run")
    /\ job_queue # <<>>
    /\ job' = [job EXCEPT ![t] = job_queue[Len(job_queue)]]
    /\ job_queue' = SubSeq(job_queue, 1, Len(job_queue) - 1)
    /\ thread_idle' = thread_idle - 1
    /\ UNCHANGED <<job_sem, jobs_lost, idle, job_done>>

\* queue_top follows the first node's pointer without a test: what it does on
\* an empty queue is the client's to say (it ends the whole program).
GetJob(t) ==
    /\ Goto(t, "get", "run")
    /\ job_queue # <<>>
    /\ job' = [job EXCEPT ![t] = Head(job_queue)]
    /\ job_queue' = Tail(job_queue)
    /\ thread_idle' = thread_idle - 1
    /\ UNCHANGED <<job_sem, jobs_lost, idle, job_done>>

DoExit(t) ==
    /\ job[t] = Exit
    /\ Goto(t, "run", "end")
    /\ idle' = [idle EXCEPT ![t] = "IDLE"]
    /\ UNCHANGED <<queueVars, job, doneVars>>

Finish(t) ==
    /\ Goto(t, "end", "test")
    /\ thread_idle' = thread_idle + 1
    /\ job_done' = job_done + 1
    /\ UNCHANGED <<queueVars, idle, job>>

PoolStep(t) ==
    \/ Start(t)
    \/ Test(t)
    \/ WaitJob(t)
    \/ GetJob(t)
    \/ DoExit(t)
    \/ Finish(t)

-----------------------------------------------------------------------------
(* thread_pool_join has returned: every thread has left thread_do_job. *)
Joined == \A t \in Threads : tpc[t] = "gone"
=============================================================================
