------------------------------ MODULE TaskRing ------------------------------
(***************************************************************************)
(* threadpool/threadpool(C Implement+plus)/threadpool.c: a pool of worker  *)
(* threads fed through a ring of task slots, one mutex, one condition      *)
(* variable, stopped by cancelling and joining the threads one by one.     *)
(*                                                                         *)
(* One action is one critical section of mutex_.  The mutex is therefore   *)
(* free between actions, unless a thread has died inside                   *)
(* pthread_cond_wait: a cancelled waiter takes the mutex back before it    *)
(* dies, and no cleanup handler unlocks it.                                *)
(***************************************************************************)
EXTENDS Naturals, FiniteSets

CONSTANTS Tasks,          \* the tasks callers submit, one add_task call each
          threadnum_,     \* the number of threads created
          max_task_num,   \* the bound given to threadpool_create
          NoTask

ASSUME TaskRingAssumption ==
    /\ threadnum_ \in Nat \ {0}
    /\ max_task_num \in Nat \ {0}
    /\ NoTask \notin Tasks

Threads == 1 .. threadnum_
Slots   == 0 .. max_task_num

VARIABLES
    task_queue_,     \* argument and function of each slot, written together
    start, end, curr_task_num,
    orphaned,        \* mutex_ is held by a thread that no longer exists
    freed,           \* the slot arrays have been freed
    undefined,       \* freed memory has been used: nothing more is known
    thread,          \* control state of each worker thread
    current,         \* the task each worker executes, or died executing
    cancelled,       \* threads with a pending pthread_cancel
    add,             \* control state of each add_task call
    caller,          \* control state of the thread that stops the pool
    index,           \* the loop variable of threadpool_stop_all_task
    runs             \* history: how often each task has returned

ring == <<task_queue_, start, end, curr_task_num>>
stopping == <<freed, cancelled, caller, index>>
vars == <<ring, orphaned, undefined, thread, current, add, stopping, runs>>

ThreadState == {"ready", "wait", "run", "dead"}
AddState    == {"idle", "enter", "ok", "fail"}
CallerState == {"idle", "cancel", "join", "stopped", "released"}

TypeOK ==
    /\ task_queue_ \in [Slots -> Tasks \cup {NoTask}]
    /\ start \in Slots /\ end \in Slots
    /\ curr_task_num \in Nat
    /\ orphaned \in BOOLEAN /\ freed \in BOOLEAN /\ undefined \in BOOLEAN
    /\ thread \in [Threads -> ThreadState]
    /\ current \in [Threads -> Tasks \cup {NoTask}]
    /\ cancelled \subseteq Threads
    /\ add \in [Tasks -> AddState]
    /\ caller \in CallerState
    /\ index \in 1 .. threadnum_ + 1
    /\ runs \in [Tasks -> Nat]

(* threadpool_create, when every allocation and pthread_create succeeds.   *)
Init ==
    /\ task_queue_ = [s \in Slots |-> NoTask]
    /\ start = 0
    /\ end = 0
    /\ curr_task_num = 0
    /\ orphaned = FALSE
    /\ freed = FALSE
    /\ undefined = FALSE
    /\ thread = [w \in Threads |-> "ready"]
    /\ current = [w \in Threads |-> NoTask]
    /\ cancelled = {}
    /\ add = [t \in Tasks |-> "idle"]
    /\ caller = "idle"
    /\ index = 1
    /\ runs = [t \in Tasks |-> 0]

(* Mutant: the index wraps to slot 0.                                      *)
AdvanceToZero(i) == IF i + 1 > max_task_num THEN 0 ELSE i + 1

(* ++index, back to slot 1 behind the last one: slot 0 is used once.       *)
Advance(i) == IF i + 1 > max_task_num THEN 1 ELSE i + 1

(* pthread_cond_signal: one blocked thread, if there is one.               *)
Signalled(pcs) ==
    LET blocked == {w \in DOMAIN pcs : pcs[w] = "wait"}
    IN  IF blocked = {} THEN {pcs}
        ELSE {[pcs EXCEPT ![w] = "ready"] : w \in blocked}

(* What a thread needs to go through pthread_mutex_lock.                   *)
MutexFree == ~orphaned /\ ~undefined

-----------------------------------------------------------------------------
(* threadpool_add_task(thiz, task_fun, t)                                  *)

AddCall(t) ==
    /\ add[t] = "idle"
    /\ ~undefined
    /\ ~freed
    /\ add' = [add EXCEPT ![t] = "enter"]
    /\ UNCHANGED <<ring, orphaned, undefined, thread, current, stopping, runs>>

(* Mutant: the bound allows for every slot of the array.                   *)
TooManyTasksLate == curr_task_num > max_task_num

TooManyTasks == curr_task_num + 2 > max_task_num

AddDiscard(t) ==
    /\ add[t] = "enter"
    /\ MutexFree
    /\ caller # "released"
    /\ TooManyTasks
    /\ add' = [add EXCEPT ![t] = "fail"]
    /\ UNCHANGED <<ring, orphaned, undefined, thread, current, stopping, runs>>

(* Mutant: only a task that finds the ring empty wakes a thread.           *)
WakeWorkerWhenEmpty == IF curr_task_num = 0 THEN Signalled(thread) ELSE {thread}

(* Mutant: the signal is forgotten.                                        *)
WakeNobody == {thread}

WakeWorker == Signalled(thread)

AddStore(t) ==
    /\ add[t] = "enter"
    /\ MutexFree
    /\ caller # "released"
    /\ ~freed
    /\ ~TooManyTasks
    /\ curr_task_num' = curr_task_num + 1
    /\ task_queue_' = [task_queue_ EXCEPT ![end] = t]
    /\ end' = Advance(end)
    /\ thread' \in WakeWorker
    /\ add' = [add EXCEPT ![t] = "ok"]
    /\ UNCHANGED <<start, orphaned, undefined, current, stopping, runs>>

-----------------------------------------------------------------------------
(* threadpool_excute_task(thiz)                                            *)

ThreadTake(w) ==
    /\ thread[w] = "ready"
    /\ MutexFree
    /\ ~freed
    /\ curr_task_num > 0
    /\ current' = [current EXCEPT ![w] = task_queue_[start]]
    /\ start' = Advance(start)
    /\ curr_task_num' = curr_task_num - 1
    /\ thread' = [thread EXCEPT ![w] = "run"]
    /\ UNCHANGED <<task_queue_, end, orphaned, undefined, add, stopping, runs>>

(* An empty ring: the thread blocks in pthread_cond_wait, or dies there at *)
(* once if it has been cancelled, mutex in hand.                           *)
ThreadWait(w) ==
    /\ thread[w] = "ready"
    /\ MutexFree
    /\ curr_task_num = 0
    /\ thread' = [thread EXCEPT ![w] = IF w \in cancelled THEN "dead" ELSE "wait"]
    /\ orphaned' = (w \in cancelled)
    /\ UNCHANGED <<ring, undefined, current, add, stopping, runs>>

(* A blocked thread that is cancelled takes the mutex back and dies.       *)
ThreadDieWaiting(w) ==
    /\ thread[w] = "wait"
    /\ w \in cancelled
    /\ MutexFree
    /\ thread' = [thread EXCEPT ![w] = "dead"]
    /\ orphaned' = TRUE
    /\ UNCHANGED <<ring, undefined, current, add, stopping, runs>>

(* The task returns, and the thread goes back for the next one.            *)
ThreadDone(w) ==
    /\ thread[w] = "run"
    /\ ~undefined
    /\ runs' = [runs EXCEPT ![current[w]] = @ + 1]
    /\ current' = [current EXCEPT ![w] = NoTask]
    /\ thread' = [thread EXCEPT ![w] = "ready"]
    /\ UNCHANGED <<ring, orphaned, undefined, add, stopping>>

(* The task calls a cancellation point; it need not.                       *)
ThreadDieRunning(w) ==
    /\ thread[w] = "run"
    /\ ~undefined
    /\ w \in cancelled
    /\ thread' = [thread EXCEPT ![w] = "dead"]
    /\ UNCHANGED <<ring, orphaned, undefined, current, add, stopping, runs>>

(* pthread_cond_wait returns without a signal.                             *)
SpuriousWakeup(w) ==
    /\ thread[w] = "wait"
    /\ MutexFree
    /\ thread' = [thread EXCEPT ![w] = "ready"]
    /\ UNCHANGED <<ring, orphaned, undefined, current, add, stopping, runs>>

-----------------------------------------------------------------------------
(* threadpool_stop_all_task(thiz) and threadpool_destroy(thiz)             *)

StopCall ==
    /\ caller = "idle"
    /\ ~undefined
    /\ caller' = "cancel"
    /\ UNCHANGED <<ring, orphaned, undefined, thread, current, add, freed,
                   cancelled, index, runs>>

(* The slot arrays go before the threads that read them are stopped.  A    *)
(* pool already stopped has thread_[0] = 0, so its loop body never runs.   *)
DestroyCall ==
    /\ caller \in {"idle", "stopped"}
    /\ ~undefined
    /\ freed' = TRUE
    /\ caller' = "cancel"
    /\ UNCHANGED <<ring, orphaned, undefined, thread, current, add, cancelled,
                   index, runs>>

StopCancel ==
    /\ caller = "cancel"
    /\ ~undefined
    /\ index <= threadnum_
    /\ cancelled' = cancelled \cup {index}
    /\ caller' = "join"
    /\ UNCHANGED <<ring, orphaned, undefined, thread, current, add, freed, index, runs>>

StopJoin ==
    /\ caller = "join"
    /\ ~undefined
    /\ thread[index] = "dead"
    /\ index' = index + 1
    /\ caller' = "cancel"
    /\ UNCHANGED <<ring, orphaned, undefined, thread, current, add, freed, cancelled, runs>>

StopReturn ==
    /\ caller = "cancel"
    /\ ~undefined
    /\ index > threadnum_
    /\ caller' = IF freed THEN "released" ELSE "stopped"
    /\ UNCHANGED <<ring, orphaned, undefined, thread, current, add, freed,
                   cancelled, index, runs>>

(* A slot is read or written, or the mutex locked, after its free.         *)
UseAfterFree ==
    /\ ~undefined
    /\ \/ MutexFree /\ freed /\ curr_task_num > 0 /\ \E w \in Threads : thread[w] = "ready"
       \/ MutexFree /\ freed /\ ~TooManyTasks /\ \E t \in Tasks : add[t] = "enter"
       \/ caller = "released" /\ \E t \in Tasks : add[t] = "enter"
    /\ undefined' = TRUE
    /\ UNCHANGED <<ring, orphaned, thread, current, add, stopping, runs>>

-----------------------------------------------------------------------------
ThreadStep(w) ==
    ThreadTake(w) \/ ThreadWait(w) \/ ThreadDieWaiting(w) \/ ThreadDone(w) \/ ThreadDieRunning(w)

AddStep(t) == AddDiscard(t) \/ AddStore(t)

StopStep == StopCancel \/ StopJoin \/ StopReturn

Next ==
    \/ \E w \in Threads : ThreadStep(w) \/ SpuriousWakeup(w)
    \/ \E t \in Tasks : AddCall(t) \/ AddStep(t)
    \/ StopCall
    \/ DestroyCall
    \/ StopStep
    \/ UseAfterFree

(* The scheduler runs every runnable thread and tasks return.              *)
Fairness ==
    /\ \A w \in Threads : WF_vars(ThreadStep(w))
    /\ \A t \in Tasks : WF_vars(AddStep(t))
    /\ WF_vars(StopStep)

Spec == Init /\ [][Next]_vars

FairSpec == Spec /\ Fairness

-----------------------------------------------------------------------------
(* The k-th occupied slot from start, counted from 0.                      *)
SlotAt(k) == IF start + k <= max_task_num THEN start + k ELSE start + k - max_task_num

(* The indices and the counter agree, the ring never holds more than       *)
(* max_task_num - 1 tasks, and no occupied slot has been overwritten: the  *)
(* tasks in the ring are accepted ones, all different, none of them taken. *)
RingConsistent ==
    /\ curr_task_num < max_task_num
    /\ end = SlotAt(curr_task_num)
    /\ \A k \in 0 .. curr_task_num - 1 :
         LET t == task_queue_[SlotAt(k)]
         IN  /\ t \in Tasks
             /\ add[t] = "ok"
             /\ runs[t] = 0
             /\ \A w \in Threads : current[w] # t
             /\ \A l \in 0 .. curr_task_num - 1 : task_queue_[SlotAt(l)] = t => l = k

(* One signal per task is enough: while a thread sleeps, at least as many  *)
(* others are on their way to the mutex as there are tasks waiting.        *)
WorkConserving ==
    (\E w \in Threads : thread[w] = "wait") =>
        Cardinality({w \in Threads : thread[w] = "ready"}) >= curr_task_num

(* A task that add_task accepted is executed, unless the pool is stopped.  *)
AcceptedTaskRuns == \A t \in Tasks : add[t] = "ok" ~> runs[t] = 1 \/ caller # "idle"

(* threadpool.c:87 says of threadpool_stop_all_task: "stop all threads of  *)
(* the pool; returns 0 on success".                                        *)
StopReturns == caller = "cancel" ~> caller \in {"stopped", "released"} \/ undefined

(* As long as no freed memory is used, the ring is a bounded FIFO of tasks *)
(* in the sense of JobPool, whatever threads are cancelled.                *)
JP == INSTANCE JobPool
        WITH Jobs     <- Tasks,
             Capacity <- max_task_num - 1,
             pending  <- [k \in 1 .. curr_task_num |-> task_queue_[SlotAt(k - 1)]],
             running  <- {current[w] : w \in Threads} \ {NoTask},
             done     <- {t \in Tasks : runs[t] > 0},
             refused  <- {t \in Tasks : add[t] = "fail"},
             open     <- TRUE,
             released <- FALSE

ImplementsJobPool == JP!Spec
=============================================================================
