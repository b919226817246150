----------------------------- MODULE ThreadPool -----------------------------
(***************************************************************************)
(* threadpool/threadpool(C Implement)/threadpool.c: a pool of worker       *)
(* threads fed through a bounded linked list, one mutex and three          *)
(* condition variables.                                                    *)
(*                                                                         *)
(* Every access to the shared fields is made with pool->mutex held, so one *)
(* action is one critical section: from taking the mutex (or getting it    *)
(* back inside pthread_cond_wait) to releasing it (or blocking in          *)
(* pthread_cond_wait).  What threadpool_destroy does after its unlock      *)
(* (two broadcasts, the joins, the free) is one action per call.           *)
(*                                                                         *)
(* A call of threadpool_add_job is identified with the job it submits, so  *)
(* `add' holds one program counter per job.                                *)
(***************************************************************************)
EXTENDS Naturals, Sequences, Functions

CONSTANTS Workers,        \* the threads created by threadpool_init
          Jobs,           \* the jobs callers submit, one add_job call each
          Destroyers,     \* the calls of threadpool_destroy
          queue_max_num,  \* the bound given to threadpool_init
          NoJob           \* a worker's pjob == NULL

ASSUME ThreadPoolAssumption ==
    /\ Workers # {}
    /\ queue_max_num \in Nat \ {0}
    /\ NoJob \notin Jobs

VARIABLES
    queue,           \* the list from pool->head to pool->tail
    queue_cur_num,
    queue_close,
    pool_close,
    freed,           \* free(pool) has run
    worker,          \* control state of each worker thread
    pjob,            \* each worker's local pjob
    add,             \* control state of each add_job call
    destroy,         \* control state of each destroy call
    runs             \* history: how often each callback has returned

vars == <<queue, queue_cur_num, queue_close, pool_close, freed,
          worker, pjob, add, destroy, runs>>

poolFields == <<queue, queue_cur_num, queue_close, pool_close, freed>>

(* "ready" wants the mutex, "wait" is blocked on the condition variable.   *)
(* A call that wants the mutex for the first time is in "enter", one that  *)
(* wants it back inside pthread_cond_wait in "ready".                      *)
WorkerState  == {"ready", "wait", "run", "exit"}
AddState     == {"idle", "enter", "ready", "wait", "ok", "fail", "undefined"}
Closer       == {"ready", "wait", "wakeWorkers", "wakeAdders", "join", "ok"}
DestroyState == {"idle", "enter", "fail", "undefined"} \cup Closer

TypeOK ==
    /\ queue \in Seq(Jobs)
    /\ queue_cur_num \in Nat
    /\ queue_close \in BOOLEAN
    /\ pool_close \in BOOLEAN
    /\ freed \in BOOLEAN
    /\ worker \in [Workers -> WorkerState]
    /\ pjob \in [Workers -> Jobs \cup {NoJob}]
    /\ add \in [Jobs -> AddState]
    /\ destroy \in [Destroyers -> DestroyState]
    /\ runs \in [Jobs -> Nat]

(* threadpool_init: all fields are set before the first pthread_create.    *)
Init ==
    /\ queue = <<>>
    /\ queue_cur_num = 0
    /\ queue_close = FALSE
    /\ pool_close = FALSE
    /\ freed = FALSE
    /\ worker = [w \in Workers |-> "ready"]
    /\ pjob = [w \in Workers |-> NoJob]
    /\ add = [j \in Jobs |-> "idle"]
    /\ destroy = [d \in Destroyers |-> "idle"]
    /\ runs = [j \in Jobs |-> 0]

(* pthread_cond_broadcast: every blocked thread goes back to the mutex.    *)
Broadcast(pcs) == [p \in DOMAIN pcs |-> IF pcs[p] = "wait" THEN "ready" ELSE pcs[p]]

(* pthread_cond_signal: one blocked thread, if there is one.               *)
Signalled(pcs) ==
    LET blocked == {p \in DOMAIN pcs : pcs[p] = "wait"}
    IN  IF blocked = {} THEN {pcs}
        ELSE {[pcs EXCEPT ![p] = "ready"] : p \in blocked}

-----------------------------------------------------------------------------
(* threadpool_add_job(pool, callback, j)                                   *)

AddCall(j) ==
    /\ add[j] = "idle"
    /\ ~freed
    /\ add' = [add EXCEPT ![j] = "enter"]
    /\ UNCHANGED <<poolFields, worker, pjob, destroy, runs>>

(* Mutant: the queue's own flag is not looked at.                          *)
ClosingIgnoresQueue == pool_close

Closing == queue_close \/ pool_close

(* Mutant: the bound is tested one too late.                               *)
FullOffByOne == queue_cur_num > queue_max_num

Full == queue_cur_num = queue_max_num

AddWait(j) ==
    /\ add[j] \in {"enter", "ready"}
    /\ ~freed
    /\ Full
    /\ ~Closing
    /\ add' = [add EXCEPT ![j] = "wait"]
    /\ UNCHANGED <<poolFields, worker, pjob, destroy, runs>>

(* The pool is closing, or malloc of the list node fails.                  *)
AddFail(j) ==
    /\ add[j] \in {"enter", "ready"}
    /\ ~freed
    /\ Closing \/ ~Full
    /\ add' = [add EXCEPT ![j] = "fail"]
    /\ UNCHANGED <<poolFields, worker, pjob, destroy, runs>>

(* Mutant: the new node is linked in front of the head.                    *)
LinkedAtHead(j) == <<j>> \o queue

(* The list with the node of j linked behind pool->tail.                   *)
Linked(j) == Append(queue, j)

(* Mutant: head is tested after the node has been linked.                  *)
WorkersWokenTooLate == worker

(* Only a job that finds the list empty wakes the workers.                 *)
WorkersWoken == IF queue = <<>> THEN Broadcast(worker) ELSE worker

AddQueue(j) ==
    /\ add[j] \in {"enter", "ready"}
    /\ ~freed
    /\ ~Full
    /\ ~Closing
    /\ queue' = Linked(j)
    /\ queue_cur_num' = queue_cur_num + 1
    /\ worker' = WorkersWoken
    /\ add' = [add EXCEPT ![j] = "ok"]
    /\ UNCHANGED <<queue_close, pool_close, freed, pjob, destroy, runs>>

(* A call still inside add_job locks a mutex that has been destroyed and   *)
(* freed.  Nothing is known of the outcome, so the call is not followed    *)
(* any further.                                                            *)
AddUndefined(j) ==
    /\ add[j] \in {"enter", "ready"}
    /\ freed
    /\ add' = [add EXCEPT ![j] = "undefined"]
    /\ UNCHANGED <<poolFields, worker, pjob, destroy, runs>>

-----------------------------------------------------------------------------
(* threadpool_function(pool)                                               *)

WorkerWait(w) ==
    /\ worker[w] = "ready"
    /\ queue_cur_num = 0
    /\ ~pool_close
    /\ worker' = [worker EXCEPT ![w] = "wait"]
    /\ UNCHANGED <<poolFields, pjob, add, destroy, runs>>

WorkerExit(w) ==
    /\ worker[w] = "ready"
    /\ pool_close
    /\ worker' = [worker EXCEPT ![w] = "exit"]
    /\ UNCHANGED <<poolFields, pjob, add, destroy, runs>>

(* Mutant: head moves only when two nodes or more are left.                *)
UnlinkedLate(left) == IF left = 0 THEN <<>> ELSE IF left = 1 THEN queue ELSE Tail(queue)

(* When the counter says the list is now empty both ends are reset,        *)
(* otherwise head moves to the next node.                                  *)
Unlinked(left) == IF left = 0 THEN <<>> ELSE Tail(queue)

(* Mutant: the count is compared before it is decremented.                 *)
DestroyerWokenEarly(left) == IF left = 1 THEN Signalled(destroy) ELSE {destroy}

(* The last job taken lets threadpool_destroy go on.                       *)
DestroyerWoken(left) == IF left = 0 THEN Signalled(destroy) ELSE {destroy}

(* Mutant: the blocked callers are woken only when the list has drained.   *)
AddersWokenAtEmpty(left) == IF left = 0 THEN Broadcast(add) ELSE add

(* Mutant: the count is compared before it is decremented.                 *)
AddersWokenTooLate(left) == IF left = queue_max_num THEN Broadcast(add) ELSE add

(* Only a job taken from a full list wakes the blocked add_job calls.      *)
AddersWoken(left) == IF left = queue_max_num - 1 THEN Broadcast(add) ELSE add

(* The node taken is pool->head.                                           *)
WorkerTake(w) ==
    /\ worker[w] = "ready"
    /\ queue_cur_num # 0
    /\ ~pool_close
    /\ queue_cur_num' = queue_cur_num - 1
    /\ pjob' = [pjob EXCEPT ![w] = Head(queue)]
    /\ queue' = Unlinked(queue_cur_num - 1)
    /\ destroy' \in DestroyerWoken(queue_cur_num - 1)
    /\ add' = AddersWoken(queue_cur_num - 1)
    /\ worker' = [worker EXCEPT ![w] = "run"]
    /\ UNCHANGED <<queue_close, pool_close, freed, runs>>

(* The callback returns; the node is freed and pjob reset.                 *)
WorkerDone(w) ==
    /\ worker[w] = "run"
    /\ runs' = [runs EXCEPT ![pjob[w]] = @ + 1]
    /\ pjob' = [pjob EXCEPT ![w] = NoJob]
    /\ worker' = [worker EXCEPT ![w] = "ready"]
    /\ UNCHANGED <<poolFields, add, destroy>>

-----------------------------------------------------------------------------
(* threadpool_destroy(pool)                                                *)

DestroyCall(d) ==
    /\ destroy[d] = "idle"
    /\ ~freed
    /\ destroy' = [destroy EXCEPT ![d] = "enter"]
    /\ UNCHANGED <<poolFields, worker, pjob, add, runs>>

DestroyRefused(d) ==
    /\ destroy[d] = "enter"
    /\ ~freed
    /\ Closing
    /\ destroy' = [destroy EXCEPT ![d] = "fail"]
    /\ UNCHANGED <<poolFields, worker, pjob, add, runs>>

(* Mutant: the pool is closed without waiting for the list to drain.       *)
CloseWithoutDrain(d) ==
    /\ pool_close' = TRUE
    /\ destroy' = [destroy EXCEPT ![d] = "wakeWorkers"]

(* The test of the drain loop and, once the queue is empty, pool_close.    *)
DrainOrClose(d) ==
    /\ pool_close' = (queue_cur_num = 0)
    /\ destroy' = [destroy EXCEPT ![d] =
                       IF queue_cur_num = 0 THEN "wakeWorkers" ELSE "wait"]

DestroyClose(d) ==
    /\ destroy[d] = "enter"
    /\ ~freed
    /\ ~Closing
    /\ queue_close' = TRUE
    /\ DrainOrClose(d)
    /\ UNCHANGED <<queue, queue_cur_num, freed, worker, pjob, add, runs>>

DestroyResume(d) ==
    /\ destroy[d] = "ready"
    /\ DrainOrClose(d)
    /\ UNCHANGED <<queue, queue_cur_num, queue_close, freed, worker, pjob, add, runs>>

DestroyWakeWorkers(d) ==
    /\ destroy[d] = "wakeWorkers"
    /\ worker' = Broadcast(worker)
    /\ destroy' = [destroy EXCEPT ![d] = "wakeAdders"]
    /\ UNCHANGED <<poolFields, pjob, add, runs>>

DestroyWakeAdders(d) ==
    /\ destroy[d] = "wakeAdders"
    /\ add' = Broadcast(add)
    /\ destroy' = [destroy EXCEPT ![d] = "join"]
    /\ UNCHANGED <<poolFields, worker, pjob, runs>>

(* The joins return once every worker has exited; then the mutex, the      *)
(* condition variables, the nodes still in the list and the pool go.       *)
DestroyFree(d) ==
    /\ destroy[d] = "join"
    /\ \A w \in Workers : worker[w] = "exit"
    /\ queue' = <<>>
    /\ freed' = TRUE
    /\ destroy' = [destroy EXCEPT ![d] = "ok"]
    /\ UNCHANGED <<queue_cur_num, queue_close, pool_close, worker, pjob, add, runs>>

DestroyUndefined(d) ==
    /\ destroy[d] = "enter"
    /\ freed
    /\ destroy' = [destroy EXCEPT ![d] = "undefined"]
    /\ UNCHANGED <<poolFields, worker, pjob, add, runs>>

-----------------------------------------------------------------------------
(* POSIX lets pthread_cond_wait return without a signal.                   *)
SpuriousWakeup ==
    /\ \/ \E w \in Workers : /\ worker[w] = "wait"
                             /\ worker' = [worker EXCEPT ![w] = "ready"]
                             /\ UNCHANGED <<add, destroy>>
       \/ \E j \in Jobs : /\ add[j] = "wait"
                          /\ add' = [add EXCEPT ![j] = "ready"]
                          /\ UNCHANGED <<worker, destroy>>
       \/ \E d \in Destroyers : /\ destroy[d] = "wait"
                                /\ destroy' = [destroy EXCEPT ![d] = "ready"]
                                /\ UNCHANGED <<worker, add>>
    /\ UNCHANGED <<poolFields, pjob, runs>>

WorkerStep(w) == WorkerWait(w) \/ WorkerExit(w) \/ WorkerTake(w) \/ WorkerDone(w)

AddStep(j) == AddWait(j) \/ AddFail(j) \/ AddQueue(j) \/ AddUndefined(j)

DestroyStep(d) ==
    \/ DestroyRefused(d)
    \/ DestroyClose(d)
    \/ DestroyResume(d)
    \/ DestroyWakeWorkers(d)
    \/ DestroyWakeAdders(d)
    \/ DestroyFree(d)
    \/ DestroyUndefined(d)

(* The pool is gone and no call is inside it: the only rest state.         *)
Terminated ==
    /\ freed
    /\ \A j \in Jobs : add[j] \notin {"enter", "ready"}
    /\ \A d \in Destroyers : destroy[d] # "enter"
    /\ UNCHANGED vars

Next ==
    \/ \E w \in Workers : WorkerStep(w)
    \/ \E j \in Jobs : AddCall(j) \/ AddStep(j)
    \/ \E d \in Destroyers : DestroyCall(d) \/ DestroyStep(d)
    \/ SpuriousWakeup
    \/ Terminated

(* The scheduler runs every runnable thread, callbacks return, and malloc  *)
(* does not fail for ever; no caller is obliged to make a call.            *)
Fairness ==
    /\ \A w \in Workers : WF_vars(WorkerStep(w))
    /\ \A j \in Jobs : WF_vars(AddStep(j))
    /\ \A d \in Destroyers : WF_vars(DestroyStep(d))

Spec == Init /\ [][Next]_vars

FairSpec == Spec /\ Fairness

-----------------------------------------------------------------------------
(* Where an accepted job can be.                                           *)
Queued   == Range(queue)
InHand   == {pjob[w] : w \in Workers} \ {NoJob}
Executed == {j \in Jobs : runs[j] > 0}

(* queue_cur_num, which every wait condition tests, agrees with the list   *)
(* whose head threadpool_add_job and threadpool_function follow, and the   *)
(* list never outgrows queue_max_num.                                      *)
CountMatchesList ==
    /\ queue_cur_num = Len(queue)
    /\ queue_cur_num <= queue_max_num

(* A job whose add_job call returned 0 is in exactly one place: once in    *)
(* the list, with one worker, or executed, once.  No other job is          *)
(* anywhere.                                                               *)
JobConservation ==
    /\ IsInjective(queue)
    /\ \A w \in Workers : worker[w] = "run" <=> pjob[w] # NoJob
    /\ \A v, w \in Workers : pjob[v] = pjob[w] /\ pjob[v] # NoJob => v = w
    /\ \A j \in Jobs : runs[j] <= 1
    /\ Queued \cap InHand = {}
    /\ Queued \cap Executed = {}
    /\ InHand \cap Executed = {}
    /\ {j \in Jobs : add[j] = "ok"} = Queued \cup InHand \cup Executed

(* Nobody is left blocked on a condition that has come true: the one       *)
(* broadcast per transition from empty, the one per transition from full,  *)
(* the one signal on becoming empty and the two broadcasts of the          *)
(* destroyer are enough.                                                   *)
NoLostWakeup ==
    /\ \A w \in Workers : worker[w] = "wait" =>
          /\ queue_cur_num = 0
          /\ pool_close => \E d \in Destroyers : destroy[d] = "wakeWorkers"
    /\ \A j \in Jobs : add[j] = "wait" => queue_cur_num = queue_max_num
    /\ \A d \in Destroyers : destroy[d] = "wait" => queue_cur_num # 0

(* One destroy call at most gets past the closed check, and it takes the   *)
(* pool through its phases in order: queue closed, list drained, pool      *)
(* closed, workers gone, memory freed.                                     *)
ShutdownPhases ==
    /\ \A d, e \in Destroyers : destroy[d] \in Closer /\ destroy[e] \in Closer => d = e
    /\ queue_close <=> \E d \in Destroyers : destroy[d] \in Closer
    /\ pool_close <=> \E d \in Destroyers : destroy[d] \in Closer \ {"ready", "wait"}
    /\ freed <=> \E d \in Destroyers : destroy[d] = "ok"
    /\ pool_close => queue_cur_num = 0
    /\ \A w \in Workers : worker[w] = "exit" => pool_close
    /\ freed => \A w \in Workers : worker[w] = "exit"

(* When threadpool_destroy frees the pool every accepted job has run, no   *)
(* worker can touch the pool again, and nobody is blocked on its condition *)
(* variables.                                                              *)
DestroyDrains ==
    freed =>
      /\ \A w \in Workers : worker[w] = "exit"
      /\ \A j \in Jobs : add[j] = "ok" => runs[j] = 1
      /\ \A j \in Jobs : add[j] # "wait"

(* The comments at threadpool.c:86 and :180 say that an add_job call that  *)
(* is blocked when the pool shuts down is woken and leaves through the     *)
(* closed check: none is still on its way to the mutex when it is freed.   *)
BlockedAddersLeave == freed => \A j \in Jobs : add[j] # "ready"

(* Every accepted job is eventually executed, the pool being shut down or  *)
(* not.                                                                    *)
AcceptedJobRuns == \A j \in Jobs : add[j] = "ok" ~> runs[j] = 1

(* An add_job call does not block for ever.                                *)
AddReturns ==
    \A j \in Jobs : add[j] \in {"enter", "ready", "wait"} ~> add[j] \in {"ok", "fail"} \/ freed

(* A destroy call does not block for ever: the drain loop and the joins    *)
(* end.                                                                    *)
DestroyReturns ==
    \A d \in Destroyers : destroy[d] = "enter" ~> destroy[d] \in {"ok", "fail", "undefined"}

(* The pool implements the bounded job queue of JobPool.                   *)
JP == INSTANCE JobPool
        WITH Capacity <- queue_max_num,
             pending  <- queue,
             running  <- InHand,
             done     <- Executed,
             refused  <- {j \in Jobs : add[j] = "fail"},
             open     <- ~queue_close,
             released <- freed

ImplementsJobPool == JP!Spec
=============================================================================
