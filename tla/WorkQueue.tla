----------------------------- MODULE WorkQueue -----------------------------
(***************************************************************************)
(* mult_thread_server/workqueue.c: worker threads that take jobs from the  *)
(* front of a linked list under one mutex and one condition variable, and  *)
(* a shutdown that flags every worker and wakes them.                      *)
(*                                                                         *)
(* A critical section is two actions, the lock and the rest, because the   *)
(* signal handler that shuts the queue down can interrupt the thread that  *)
(* holds the mutex.  The module leaves open who adds jobs and who shuts    *)
(* down: EchoServer composes it with both.                                 *)
(***************************************************************************)
EXTENDS Naturals, Sequences, FiniteSets

CONSTANTS numWorkers, Jobs, None

ASSUME WorkQueueAssumption ==
    /\ numWorkers \in Nat \ {0}
    /\ None \notin Jobs /\ None \notin 0 .. numWorkers

(* LL_ADD puts each new worker in front, so the list runs from numWorkers  *)
(* down to 1, and worker->next is worker - 1.  Thread 0 is the main one.   *)
Workers == 1 .. numWorkers
Main    == 0
Threads == {Main} \cup Workers

VARIABLES
    waiting_jobs,   \* the list of jobs, front first
    workers,        \* the head of the list of workers; 0 is NULL
    mutex,          \* the thread that holds jobs_mutex, or None
    worker,         \* control state of each worker thread
    terminate,      \* the flag of each worker
    job,            \* the job each worker executes
    shutdown,       \* control state of workqueue_shutdown
    cursor,         \* its loop variable
    undefined       \* a freed worker_t has been read: nothing more is known

wqvars == <<waiting_jobs, workers, mutex, worker, terminate, job, shutdown, cursor, undefined>>

(* "lock" wants the mutex, "locked" has it, "wait" is blocked on jobs_cond,*)
(* "gone" has freed its worker_t and left the thread.                      *)
WorkerState   == {"lock", "locked", "wait", "run", "gone"}
ShutdownState == {"idle", "mark", "locked", "done"}

WQTypeOK ==
    /\ waiting_jobs \in Seq(Jobs)
    /\ workers \in 0 .. numWorkers
    /\ mutex \in Threads \cup {None}
    /\ worker \in [Workers -> WorkerState]
    /\ terminate \in [Workers -> BOOLEAN]
    /\ job \in [Workers -> Jobs \cup {None}]
    /\ shutdown \in ShutdownState
    /\ cursor \in 0 .. numWorkers
    /\ undefined \in BOOLEAN

(* workqueue_init, when every malloc and pthread_create succeeds.          *)
WQInit ==
    /\ waiting_jobs = <<>>
    /\ workers = numWorkers
    /\ mutex = None
    /\ worker = [w \in Workers |-> "lock"]
    /\ terminate = [w \in Workers |-> FALSE]
    /\ job = [w \in Workers |-> None]
    /\ shutdown = "idle"
    /\ cursor = 0
    /\ undefined = FALSE

-----------------------------------------------------------------------------
(* worker_function                                                         *)

WorkerLock(w) ==
    /\ worker[w] = "lock"
    /\ mutex = None
    /\ mutex' = w
    /\ worker' = [worker EXCEPT ![w] = "locked"]
    /\ UNCHANGED <<waiting_jobs, workers, terminate, job, shutdown, cursor, undefined>>

(* Both breaks leave the loop without unlocking jobs_mutex.                *)
WorkerTerminate(w) ==
    /\ worker[w] = "locked"
    /\ terminate[w]
    /\ worker' = [worker EXCEPT ![w] = "gone"]
    /\ UNCHANGED <<waiting_jobs, workers, mutex, terminate, job, shutdown, cursor, undefined>>

WorkerWait(w) ==
    /\ worker[w] = "locked"
    /\ waiting_jobs = <<>>
    /\ ~terminate[w]
    /\ mutex' = None
    /\ worker' = [worker EXCEPT ![w] = "wait"]
    /\ UNCHANGED <<waiting_jobs, workers, terminate, job, shutdown, cursor, undefined>>

(* Mutant: the job is executed without being removed from the list.        *)
WithoutFirstForgotten == waiting_jobs

(* LL_REMOVE of the first job.                                             *)
WithoutFirst == Tail(waiting_jobs)

WorkerTake(w) ==
    /\ worker[w] = "locked"
    /\ waiting_jobs # <<>>
    /\ ~terminate[w]
    /\ job' = [job EXCEPT ![w] = Head(waiting_jobs)]
    /\ waiting_jobs' = WithoutFirst
    /\ mutex' = None
    /\ worker' = [worker EXCEPT ![w] = "run"]
    /\ UNCHANGED <<workers, terminate, shutdown, cursor, undefined>>

(* job_function returns.                                                   *)
WorkerJobReturns(w) ==
    /\ worker[w] = "run"
    /\ job' = [job EXCEPT ![w] = None]
    /\ worker' = [worker EXCEPT ![w] = "lock"]
    /\ UNCHANGED <<waiting_jobs, workers, mutex, terminate, shutdown, cursor, undefined>>

(* pthread_cond_wait returns without a signal.                             *)
WorkerSpuriousWakeup(w) ==
    /\ worker[w] = "wait"
    /\ worker' = [worker EXCEPT ![w] = "lock"]
    /\ UNCHANGED <<waiting_jobs, workers, mutex, terminate, job, shutdown, cursor, undefined>>

-----------------------------------------------------------------------------
(* workqueue_add_job                                                       *)

AddJobLock(th) ==
    /\ mutex = None
    /\ mutex' = th
    /\ UNCHANGED <<waiting_jobs, workers, worker, terminate, job, shutdown, cursor, undefined>>

(* Mutant: only a job that finds the list empty notifies a worker.         *)
NotifiedWhenEmpty ==
    LET blocked == {w \in Workers : worker[w] = "wait"}
    IN  IF blocked = {} \/ waiting_jobs # <<>> THEN {worker}
        ELSE {[worker EXCEPT ![w] = "lock"] : w \in blocked}

(* Mutant: the notification is forgotten.                                  *)
NotifiedNobody == {worker}

(* pthread_cond_signal: one blocked worker, if there is one.               *)
Notified ==
    LET blocked == {w \in Workers : worker[w] = "wait"}
    IN  IF blocked = {} THEN {worker}
        ELSE {[worker EXCEPT ![w] = "lock"] : w \in blocked}

AddJobPush(th, j) ==
    /\ mutex = th
    /\ waiting_jobs' = <<j>> \o waiting_jobs
    /\ worker' \in Notified
    /\ mutex' = None
    /\ UNCHANGED <<workers, terminate, job, shutdown, cursor, undefined>>

-----------------------------------------------------------------------------
(* workqueue_shutdown                                                      *)

ShutdownBegin ==
    /\ shutdown = "idle"
    /\ shutdown' = "mark"
    /\ cursor' = workers
    /\ UNCHANGED <<waiting_jobs, workers, mutex, worker, terminate, job, undefined>>

(* worker->terminate = 1, without the mutex.                               *)
ShutdownMark ==
    /\ shutdown = "mark"
    /\ cursor # 0
    /\ worker[cursor] # "gone"
    /\ ~terminate[cursor]
    /\ terminate' = [terminate EXCEPT ![cursor] = TRUE]
    /\ UNCHANGED <<waiting_jobs, workers, mutex, worker, job, shutdown, cursor, undefined>>

(* worker = worker->next; the worker just flagged may have freed itself.   *)
ShutdownAdvance ==
    /\ shutdown = "mark"
    /\ cursor # 0
    /\ terminate[cursor]
    /\ IF worker[cursor] = "gone"
         THEN undefined' = TRUE /\ UNCHANGED cursor
         ELSE cursor' = cursor - 1 /\ UNCHANGED undefined
    /\ UNCHANGED <<waiting_jobs, workers, mutex, worker, terminate, job, shutdown>>

ShutdownLock(th) ==
    /\ shutdown = "mark"
    /\ cursor = 0
    /\ mutex = None
    /\ mutex' = th
    /\ shutdown' = "locked"
    /\ UNCHANGED <<waiting_jobs, workers, worker, terminate, job, cursor, undefined>>

(* The lists are forgotten, jobs that were waiting with them.              *)
ShutdownClear(th) ==
    /\ shutdown = "locked"
    /\ mutex = th
    /\ workers' = 0
    /\ waiting_jobs' = <<>>
    /\ worker' = [w \in Workers |-> IF worker[w] = "wait" THEN "lock" ELSE worker[w]]
    /\ mutex' = None
    /\ shutdown' = "done"
    /\ UNCHANGED <<terminate, job, cursor, undefined>>
=============================================================================
