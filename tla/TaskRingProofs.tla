--------------------------- MODULE TaskRingProofs ---------------------------
(***************************************************************************)
(* Theorems about TaskRing for any number of threads and tasks and any     *)
(* positive max_task_num.                                                  *)
(***************************************************************************)
EXTENDS TaskRing, Sequences, TLAPS, FiniteSetTheorems

-----------------------------------------------------------------------------
(* The arithmetic of the ring.                                             *)

(* Both indices stay inside the slot arrays.                               *)
LEMMA AdvanceType == \A i \in Slots : Advance(i) \in Slots
  BY TaskRingAssumption DEF Advance, Slots

(* Occupied slots are slots of the array, no two of them the same, and the *)
(* slot behind the last one is the one end advances to.                    *)
LEMMA SlotFacts ==
    ASSUME start \in Slots
    PROVE  /\ SlotAt(0) = start
           /\ \A k \in 0 .. max_task_num - 1 :
                /\ SlotAt(k) \in Slots
                /\ SlotAt(k + 1) = Advance(SlotAt(k))
                /\ \A l \in 0 .. max_task_num - 1 : SlotAt(k) = SlotAt(l) => k = l
  BY TaskRingAssumption DEF SlotAt, Slots, Advance

(* Taking a task moves every other task one position forward.              *)
LEMMA SlotShift ==
    ASSUME start \in Slots, start' = Advance(start)
    PROVE  \A k \in 0 .. max_task_num - 1 : SlotAt(k)' = SlotAt(k + 1)
  BY TaskRingAssumption DEF SlotAt, Slots, Advance

-----------------------------------------------------------------------------
(* Where an accepted task is once it has left the ring: with the thread    *)
(* that executes it (or died doing so), or executed once.                  *)
TaskPlaces ==
    /\ \A w \in Threads :
          /\ thread[w] \in {"ready", "wait"} => current[w] = NoTask
          /\ thread[w] = "run" => current[w] # NoTask
          /\ current[w] # NoTask => add[current[w]] = "ok" /\ runs[current[w]] = 0
    /\ \A v, w \in Threads : current[v] = current[w] /\ current[v] # NoTask => v = w
    /\ \A t \in Tasks : runs[t] <= 1 /\ (runs[t] > 0 => add[t] = "ok")

(* The loop of threadpool_stop_all_task joins only threads of the pool.    *)
JoinsThread == caller = "join" => index \in Threads

Inv == TypeOK /\ RingConsistent /\ TaskPlaces /\ JoinsThread

(* threadpool_create establishes the invariant.                            *)
LEMMA InvInit == Init => Inv
  <1> SUFFICES ASSUME Init PROVE Inv
    OBVIOUS
  <1> USE TaskRingAssumption DEF Init
  <1>1. TypeOK
    <2>1. 0 \in Slots /\ 0 \in Nat /\ index \in 1 .. threadnum_ + 1
      BY DEF Slots
    <2>2. /\ task_queue_ \in [Slots -> Tasks \cup {NoTask}]
          /\ thread \in [Threads -> ThreadState]
          /\ current \in [Threads -> Tasks \cup {NoTask}]
          /\ add \in [Tasks -> AddState]
          /\ runs \in [Tasks -> Nat]
          /\ caller \in CallerState
      BY DEF ThreadState, AddState, CallerState
    <2> QED
      BY <2>1, <2>2 DEF TypeOK
  <1>2. RingConsistent
    BY DEF RingConsistent, SlotAt
  <1>3. TaskPlaces
    BY DEF TaskPlaces
  <1>4. JoinsThread
    BY DEF JoinsThread
  <1> QED
    BY <1>1, <1>2, <1>3, <1>4 DEF Inv

(* A signal changes at most one control state, from "wait" to "ready".     *)
LEMMA SignalledFacts ==
    ASSUME NEW P, NEW f \in [P -> ThreadState], NEW g \in Signalled(f)
    PROVE  /\ g \in [P -> ThreadState]
           /\ \A p \in P : g[p] = f[p] \/ (f[p] = "wait" /\ g[p] = "ready")
  BY DEF Signalled, ThreadState

(* Every step keeps the invariant.                                         *)
LEMMA InvNext == Inv /\ [Next]_vars => Inv'
  <1> SUFFICES ASSUME Inv, [Next]_vars
               PROVE  Inv'
    OBVIOUS
  <1> USE TaskRingAssumption DEF ring, stopping
  <1>0. TypeOK /\ RingConsistent /\ TaskPlaces /\ JoinsThread
    BY DEF Inv
  <1>1. ASSUME NEW t \in Tasks, AddStore(t) PROVE Inv'
    <2>0. PICK n \in Nat : n = curr_task_num
      BY <1>0 DEF TypeOK
    <2>1. /\ n = curr_task_num
          /\ n \in 0 .. max_task_num - 2
          /\ curr_task_num' = n + 1
          /\ start' = start
          /\ task_queue_' = [task_queue_ EXCEPT ![end] = t]
          /\ end' = Advance(end)
          /\ add' = [add EXCEPT ![t] = "ok"]
          /\ add[t] = "enter"
          /\ UNCHANGED <<orphaned, undefined, current, freed, cancelled, caller, index, runs>>
      BY <1>0, <1>1, <2>0 DEF AddStore, TooManyTasks, TypeOK
    <2>2. thread' \in Signalled(thread)
      BY <1>1 DEF AddStore, WakeWorker
    <2>3. /\ thread' \in [Threads -> ThreadState]
          /\ \A w \in Threads : \/ thread'[w] = thread[w]
                                \/ thread[w] = "wait" /\ thread'[w] = "ready"
      BY <1>0, <2>2, SignalledFacts DEF TypeOK
    <2>4. TypeOK'
      BY <1>0, <2>1, <2>3, AdvanceType DEF TypeOK, AddState, Slots
    <2>5. \A k \in 0 .. n : SlotAt(k)' = SlotAt(k)
      BY <2>1 DEF SlotAt
    <2>6. end' = SlotAt(n + 1)'
      <3>1. end = SlotAt(n) /\ SlotAt(n + 1) = Advance(SlotAt(n))
        BY <1>0, <2>1, SlotFacts DEF TypeOK, RingConsistent
      <3>2. SlotAt(n + 1)' = SlotAt(n + 1)
        BY <2>1 DEF SlotAt
      <3> QED
        BY <2>1, <3>1, <3>2
    <2>7. \A k \in 0 .. n - 1 : task_queue_'[SlotAt(k)] = task_queue_[SlotAt(k)]
      <3>1. \A k \in 0 .. n - 1 : SlotAt(k) # SlotAt(n) /\ SlotAt(k) \in Slots
        BY <1>0, <2>1, SlotFacts DEF TypeOK
      <3> QED
        BY <1>0, <2>1, <3>1 DEF TypeOK, RingConsistent
    <2>8. task_queue_'[SlotAt(n)] = t
      BY <1>0, <2>1 DEF TypeOK, RingConsistent
    <2>9. \A k \in 0 .. n - 1 : task_queue_[SlotAt(k)] # t
      BY <1>0, <2>1 DEF RingConsistent
    <2>10. runs[t] = 0 /\ \A w \in Threads : current[w] # t
      BY <1>0, <2>1 DEF TaskPlaces, TypeOK
    <2>11. ASSUME NEW k \in 0 .. n
           PROVE  LET u == task_queue_'[SlotAt(k)]
                  IN  /\ u \in Tasks
                      /\ add'[u] = "ok"
                      /\ runs'[u] = 0
                      /\ \A w \in Threads : current'[w] # u
                      /\ \A l \in 0 .. n : task_queue_'[SlotAt(l)] = u => l = k
      <3>1. CASE k = n
        <4>1. \A l \in 0 .. n : l # n => l \in 0 .. n - 1
          BY <2>1
        <4> QED
          BY <1>0, <2>1, <2>7, <2>8, <2>9, <2>10, <3>1, <4>1 DEF TypeOK
      <3>2. CASE k # n
        <4>1. k \in 0 .. n - 1 /\ \A l \in 0 .. n : l # n => l \in 0 .. n - 1
          BY <2>1, <3>2
        <4>2. LET u == task_queue_[SlotAt(k)]
              IN  /\ u \in Tasks /\ add[u] = "ok" /\ runs[u] = 0 /\ u # t
                  /\ \A w \in Threads : current[w] # u
                  /\ \A l \in 0 .. n - 1 : task_queue_[SlotAt(l)] = u => l = k
          BY <1>0, <2>1, <2>9, <4>1 DEF RingConsistent
        <4> QED
          BY <1>0, <2>1, <2>7, <2>8, <4>1, <4>2 DEF TypeOK
      <3> QED
        BY <3>1, <3>2
    <2>12. RingConsistent'
      <3>1. 0 .. curr_task_num' - 1 = 0 .. n /\ curr_task_num' < max_task_num
        BY <2>1
      <3>2. end' = SlotAt(curr_task_num)'
        BY <2>1, <2>6 DEF SlotAt
      <3> QED
        BY <2>5, <2>11, <3>1, <3>2 DEF RingConsistent
    <2>13. TaskPlaces'
      BY <1>0, <2>1, <2>3 DEF TaskPlaces, TypeOK
    <2> QED
      BY <1>0, <2>1, <2>4, <2>12, <2>13 DEF Inv, JoinsThread
  <1>2. ASSUME NEW w \in Threads, ThreadTake(w) PROVE Inv'
    <2>0. PICK n \in Nat, t \in Tasks \cup {NoTask} :
             n = curr_task_num /\ t = task_queue_[start]
      BY <1>0 DEF TypeOK
    <2>1. /\ n = curr_task_num /\ t = task_queue_[start]
          /\ n \in 1 .. max_task_num - 1
          /\ curr_task_num' = n - 1
          /\ start' = Advance(start)
          /\ UNCHANGED <<task_queue_, end, orphaned, undefined, add, freed, cancelled,
                         caller, index, runs>>
          /\ current' = [current EXCEPT ![w] = t]
          /\ thread' = [thread EXCEPT ![w] = "run"]
          /\ current[w] = NoTask
      BY <1>0, <1>2, <2>0 DEF ThreadTake, TypeOK, RingConsistent, TaskPlaces
    <2>2. /\ t \in Tasks /\ add[t] = "ok" /\ runs[t] = 0
          /\ \A v \in Threads : current[v] # t
          /\ \A l \in 0 .. n - 1 : task_queue_[SlotAt(l)] = t => l = 0
      <3>1. 0 \in 0 .. n - 1 /\ SlotAt(0) = start
        BY <1>0, <2>1, SlotFacts DEF TypeOK
      <3> QED
        BY <1>0, <2>1, <3>1 DEF RingConsistent
    <2>3. TypeOK'
      BY <1>0, <2>1, <2>2, AdvanceType DEF TypeOK, ThreadState
    <2>4. \A k \in 0 .. n - 1 : SlotAt(k)' = SlotAt(k + 1)
      BY <1>0, <2>1, SlotShift DEF TypeOK
    <2>5. RingConsistent'
      <3>1. curr_task_num' < max_task_num /\ n - 1 \in 0 .. n - 1
        BY <2>1
      <3>2. end' = SlotAt(curr_task_num)'
        <4>1. SlotAt(n - 1)' = SlotAt(n)
          BY <2>1, <2>4, <3>1
        <4>2. SlotAt(curr_task_num)' = SlotAt(n - 1)'
          BY <2>1 DEF SlotAt
        <4> QED
          BY <1>0, <2>1, <4>1, <4>2 DEF RingConsistent
      <3>3. ASSUME NEW k \in 0 .. n - 2
            PROVE  LET u == task_queue_[SlotAt(k + 1)]
                   IN  /\ u \in Tasks /\ add[u] = "ok" /\ runs[u] = 0
                       /\ \A v \in Threads : current'[v] # u
                       /\ \A l \in 0 .. n - 2 : task_queue_[SlotAt(l + 1)] = u => l = k
        <4>1. k + 1 \in 0 .. n - 1 /\ \A l \in 0 .. n - 2 : l + 1 \in 0 .. n - 1
          BY <2>1
        <4>2. LET u == task_queue_[SlotAt(k + 1)]
              IN  /\ u \in Tasks /\ add[u] = "ok" /\ runs[u] = 0
                  /\ \A v \in Threads : current[v] # u
                  /\ \A l \in 0 .. n - 1 : task_queue_[SlotAt(l)] = u => l = k + 1
          BY <1>0, <2>1, <4>1 DEF RingConsistent
        <4>3. task_queue_[SlotAt(k + 1)] # t
          BY <2>2, <4>1
        <4> QED
          BY <1>0, <2>1, <4>1, <4>2, <4>3 DEF TypeOK
      <3>4. 0 .. curr_task_num' - 1 = 0 .. n - 2 /\ \A k \in 0 .. n - 2 : k \in 0 .. n - 1
        BY <2>1
      <3> QED
        BY <2>1, <2>4, <3>1, <3>2, <3>3, <3>4 DEF RingConsistent
    <2>6. TaskPlaces'
      BY <1>0, <2>1, <2>2 DEF TaskPlaces, TypeOK
    <2> QED
      BY <1>0, <2>1, <2>3, <2>5, <2>6 DEF Inv, JoinsThread
  <1>3. ASSUME NEW w \in Threads, ThreadDone(w) PROVE Inv'
    <2> DEFINE t == current[w]
    <2>0. t \in Tasks /\ add[t] = "ok" /\ runs[t] = 0
      BY <1>0, <1>3 DEF ThreadDone, TypeOK, TaskPlaces
    <2>1. /\ t \in Tasks /\ add[t] = "ok" /\ runs[t] = 0
          /\ runs' = [runs EXCEPT ![t] = 1]
          /\ current' = [current EXCEPT ![w] = NoTask]
          /\ thread' = [thread EXCEPT ![w] = "ready"]
          /\ UNCHANGED <<ring, orphaned, undefined, add, stopping>>
      BY <1>3, <2>0 DEF ThreadDone
    <2>2. TypeOK'
      BY <1>0, <2>1 DEF TypeOK, ThreadState
    <2>3. RingConsistent'
      <3>1. \A k \in 0 .. curr_task_num - 1 : task_queue_[SlotAt(k)] # t
        BY <1>0 DEF RingConsistent
      <3>2. \A k : SlotAt(k)' = SlotAt(k)
        BY <2>1 DEF SlotAt
      <3> QED
        BY <1>0, <2>1, <3>1, <3>2 DEF RingConsistent, TypeOK
    <2>4. TaskPlaces'
      BY <1>0, <2>1 DEF TaskPlaces, TypeOK
    <2> QED
      BY <1>0, <2>1, <2>2, <2>3, <2>4 DEF Inv, JoinsThread
  <1>4. ASSUME UNCHANGED <<ring, current, runs>>,
               TypeOK', JoinsThread',
               \A t \in Tasks : add[t] = "ok" => add'[t] = "ok",
               \A w \in Threads :
                  /\ thread'[w] \in {"ready", "wait"} => thread[w] \in {"ready", "wait"}
                  /\ thread'[w] = "run" => thread[w] = "run"
        PROVE  Inv'
    <2>1. \A k : SlotAt(k)' = SlotAt(k)
      BY <1>4 DEF SlotAt
    <2>2. RingConsistent'
      BY <1>0, <1>4, <2>1 DEF RingConsistent
    <2>3. TaskPlaces'
      BY <1>0, <1>4 DEF TaskPlaces, TypeOK
    <2> QED
      BY <1>4, <2>2, <2>3 DEF Inv
  <1>5. ASSUME NEW t \in Tasks, AddCall(t) \/ AddDiscard(t) PROVE Inv'
    <2>1. TypeOK'
      BY <1>0, <1>5 DEF AddCall, AddDiscard, TypeOK, AddState
    <2>2. \A u \in Tasks : add[u] = "ok" => add'[u] = "ok"
      BY <1>0, <1>5 DEF AddCall, AddDiscard, TypeOK
    <2> QED
      BY <1>0, <1>4, <1>5, <2>1, <2>2 DEF AddCall, AddDiscard, JoinsThread
  <1>6. ASSUME NEW w \in Threads,
               ThreadWait(w) \/ ThreadDieWaiting(w) \/ ThreadDieRunning(w) \/ SpuriousWakeup(w)
        PROVE  Inv'
    <2>1. TypeOK'
      <3>1. thread' \in [Threads -> ThreadState]
        BY <1>0, <1>6
           DEF ThreadWait, ThreadDieWaiting, ThreadDieRunning, SpuriousWakeup, TypeOK, ThreadState
      <3>2. orphaned' \in BOOLEAN
        <4>1. orphaned' = (w \in cancelled) \/ orphaned' = TRUE \/ orphaned' = orphaned
          BY <1>6 DEF ThreadWait, ThreadDieWaiting, ThreadDieRunning, SpuriousWakeup
        <4>2. (w \in cancelled) \in BOOLEAN
          OBVIOUS
        <4> QED
          BY <1>0, <4>1, <4>2, Zenon DEF TypeOK
      <3>3. UNCHANGED <<ring, undefined, current, add, stopping, runs>>
        BY <1>6 DEF ThreadWait, ThreadDieWaiting, ThreadDieRunning, SpuriousWakeup
      <3> QED
        BY <1>0, <3>1, <3>2, <3>3 DEF TypeOK
    <2>2. \A v \in Threads :
             /\ thread'[v] \in {"ready", "wait"} => thread[v] \in {"ready", "wait"}
             /\ thread'[v] = "run" => thread[v] = "run"
      BY <1>0, <1>6 DEF ThreadWait, ThreadDieWaiting, ThreadDieRunning, SpuriousWakeup, TypeOK
    <2>3. UNCHANGED <<ring, current, runs, add, caller, index>>
      BY <1>6 DEF ThreadWait, ThreadDieWaiting, ThreadDieRunning, SpuriousWakeup
    <2> QED
      BY <1>0, <1>4, <2>1, <2>2, <2>3 DEF JoinsThread
  <1>7. CASE StopCall \/ DestroyCall \/ StopCancel \/ StopJoin \/ StopReturn \/ UseAfterFree
    <2>1. TypeOK'
      <3>1. /\ caller' \in CallerState
            /\ index' \in 1 .. threadnum_ + 1
            /\ cancelled' \subseteq Threads
        <4>1. CASE StopCall \/ DestroyCall \/ UseAfterFree
          BY <1>0, <4>1 DEF StopCall, DestroyCall, UseAfterFree, TypeOK, CallerState
        <4>2. CASE StopCancel
          BY <1>0, <4>2 DEF StopCancel, TypeOK, CallerState, Threads
        <4>3. CASE StopJoin
          BY <1>0, <4>3 DEF StopJoin, TypeOK, CallerState, Threads, JoinsThread
        <4>4. CASE StopReturn
          BY <1>0, <4>4 DEF StopReturn, TypeOK, CallerState
        <4> QED
          BY <1>7, <4>1, <4>2, <4>3, <4>4
      <3>2. freed' \in BOOLEAN /\ undefined' \in BOOLEAN
        BY <1>0, <1>7
           DEF StopCall, DestroyCall, StopCancel, StopJoin, StopReturn, UseAfterFree, TypeOK
      <3>3. UNCHANGED <<ring, orphaned, thread, current, add, runs>>
        BY <1>7 DEF StopCall, DestroyCall, StopCancel, StopJoin, StopReturn, UseAfterFree
      <3> QED
        BY <1>0, <3>1, <3>2, <3>3 DEF TypeOK
    <2>2. UNCHANGED <<ring, current, runs, add, thread>>
      BY <1>7 DEF StopCall, DestroyCall, StopCancel, StopJoin, StopReturn, UseAfterFree
    <2>3. JoinsThread'
      BY <1>0, <1>7
         DEF StopCall, DestroyCall, StopCancel, StopJoin, StopReturn, UseAfterFree, TypeOK,
             JoinsThread, Threads
    <2> QED
      BY <1>4, <2>1, <2>2, <2>3
  <1>8. CASE UNCHANGED vars
    BY <1>0, <1>4, <1>8 DEF vars, TypeOK, JoinsThread
  <1> QED
    BY <1>1, <1>2, <1>3, <1>5, <1>6, <1>7, <1>8 DEF Next, ThreadStep, AddStep, StopStep

(* The invariant holds in every state of every behaviour.                  *)
THEOREM Invariance == Spec => []Inv
  BY InvInit, InvNext, PTL DEF Spec

(* The indices stay inside the slot arrays and every counter in its range, *)
(* whatever threads are cancelled.                                         *)
THEOREM TypeCorrect == Spec => []TypeOK
  BY Invariance, PTL DEF Inv

(* The ring is never overrun: start, end and the counter agree, and no     *)
(* slot that holds a waiting task is overwritten.                          *)
THEOREM RingNeverOverrun == Spec => []RingConsistent
  BY Invariance, PTL DEF Inv

-----------------------------------------------------------------------------
(* One signal per task.  How many threads are ready, counted step by step. *)

ReadyThreads == {w \in Threads : thread[w] = "ready"}

(* A thread that leaves or joins the ready ones changes their number by    *)
(* one.                                                                    *)
LEMMA ReadyCount ==
    /\ IsFiniteSet(ReadyThreads) /\ Cardinality(ReadyThreads) \in Nat
    /\ IsFiniteSet(ReadyThreads') /\ Cardinality(ReadyThreads') \in Nat
    /\ \A w \in Threads :
          /\ w \notin ReadyThreads /\ ReadyThreads' = ReadyThreads \cup {w}
                => Cardinality(ReadyThreads') = Cardinality(ReadyThreads) + 1
          /\ w \in ReadyThreads /\ ReadyThreads' = ReadyThreads \ {w}
                => Cardinality(ReadyThreads') = Cardinality(ReadyThreads) - 1
  <1>1. IsFiniteSet(Threads)
    BY TaskRingAssumption, FS_Interval DEF Threads
  <1>2. IsFiniteSet(ReadyThreads) /\ IsFiniteSet(ReadyThreads')
    <2>1. ReadyThreads \in SUBSET Threads /\ ReadyThreads' \in SUBSET Threads
      BY DEF ReadyThreads
    <2> QED
      BY <1>1, <2>1, FS_Subset
  <1>3. Cardinality(ReadyThreads) \in Nat /\ Cardinality(ReadyThreads') \in Nat
    BY <1>2, FS_CardinalityType
  <1> QED
    BY <1>2, <1>3, FS_AddElement, FS_RemoveElement

(* Every step keeps enough threads awake.                                  *)
LEMMA WorkConservingNext == Inv /\ WorkConserving /\ [Next]_vars => WorkConserving'
  <1> SUFFICES ASSUME Inv, WorkConserving, [Next]_vars
               PROVE  WorkConserving'
    OBVIOUS
  <1> USE DEF ring, stopping
  <1> DEFINE sleeper == \E w \in Threads : thread[w] = "wait"
             awake   == Cardinality(ReadyThreads)
  <1>0. /\ TypeOK
        /\ sleeper => awake >= curr_task_num
    BY DEF Inv, WorkConserving, ReadyThreads
  <1>1. SUFFICES sleeper' => awake' >= curr_task_num'
    BY DEF WorkConserving, ReadyThreads
  <1>2. awake \in Nat /\ awake' \in Nat /\ curr_task_num \in Nat
    BY <1>0, ReadyCount DEF TypeOK
  <1>3. ASSUME NEW t \in Tasks, AddStore(t), sleeper' PROVE awake' >= curr_task_num'
    <2>1. thread' \in Signalled(thread) /\ curr_task_num' = curr_task_num + 1
      BY <1>3 DEF AddStore, WakeWorker
    <2>2. sleeper
      BY <1>0, <1>3, <2>1, SignalledFacts DEF TypeOK
    <2>3. PICK w \in Threads : thread[w] = "wait" /\ thread' = [thread EXCEPT ![w] = "ready"]
      BY <1>0, <2>1, <2>2 DEF Signalled, TypeOK
    <2>4. w \notin ReadyThreads /\ ReadyThreads' = ReadyThreads \cup {w}
      BY <1>0, <2>3 DEF ReadyThreads, TypeOK
    <2>5. awake' = awake + 1
      BY <2>4, ReadyCount
    <2> QED
      BY <1>0, <1>2, <2>1, <2>2, <2>5
  <1>4. ASSUME NEW w \in Threads, ThreadTake(w), sleeper' PROVE awake' >= curr_task_num'
    <2>1. /\ curr_task_num' = curr_task_num - 1
          /\ thread[w] = "ready" /\ thread' = [thread EXCEPT ![w] = "run"]
      BY <1>4 DEF ThreadTake
    <2>2. sleeper
      BY <1>0, <1>4, <2>1 DEF TypeOK
    <2>3. w \in ReadyThreads /\ ReadyThreads' = ReadyThreads \ {w}
      BY <1>0, <2>1 DEF ReadyThreads, TypeOK
    <2>4. awake' = awake - 1
      BY <2>3, ReadyCount
    <2> QED
      BY <1>0, <1>2, <2>1, <2>2, <2>4
  <1>5. ASSUME NEW w \in Threads, ThreadWait(w) PROVE awake' >= curr_task_num'
    BY <1>2, <1>5 DEF ThreadWait
  <1>6. ASSUME NEW w \in Threads, ThreadDone(w) \/ SpuriousWakeup(w), sleeper'
        PROVE  awake' >= curr_task_num'
    <2>1. /\ curr_task_num' = curr_task_num
          /\ thread[w] # "ready" /\ thread' = [thread EXCEPT ![w] = "ready"]
      BY <1>6 DEF ThreadDone, SpuriousWakeup
    <2>2. sleeper
      BY <1>0, <1>6, <2>1 DEF TypeOK
    <2>3. w \notin ReadyThreads /\ ReadyThreads' = ReadyThreads \cup {w}
      BY <1>0, <2>1 DEF ReadyThreads, TypeOK
    <2>4. awake' = awake + 1
      BY <2>3, ReadyCount
    <2> QED
      BY <1>0, <1>2, <2>1, <2>2, <2>4
  <1>7. ASSUME NEW w \in Threads, ThreadDieWaiting(w) \/ ThreadDieRunning(w), sleeper'
        PROVE  awake' >= curr_task_num'
    <2>1. /\ curr_task_num' = curr_task_num
          /\ thread[w] # "ready" /\ thread' = [thread EXCEPT ![w] = "dead"]
      BY <1>7 DEF ThreadDieWaiting, ThreadDieRunning
    <2>2. sleeper /\ ReadyThreads' = ReadyThreads
      BY <1>0, <1>7, <2>1 DEF ReadyThreads, TypeOK
    <2> QED
      BY <1>0, <2>1, <2>2
  <1>8. CASE UNCHANGED <<thread, curr_task_num>>
    <2>1. sleeper' = sleeper /\ ReadyThreads' = ReadyThreads
      BY <1>8 DEF ReadyThreads
    <2> QED
      BY <1>0, <1>8, <2>1
  <1>9. ASSUME NEW t \in Tasks, AddCall(t) \/ AddDiscard(t)
        PROVE  UNCHANGED <<thread, curr_task_num>>
    BY <1>9 DEF AddCall, AddDiscard
  <1>10. ASSUME StopCall \/ DestroyCall \/ StopStep \/ UseAfterFree \/ UNCHANGED vars
         PROVE  UNCHANGED <<thread, curr_task_num>>
    BY <1>10
       DEF StopCall, DestroyCall, StopStep, StopCancel, StopJoin, StopReturn, UseAfterFree, vars
  <1> QED
    BY <1>3, <1>4, <1>5, <1>6, <1>7, <1>8, <1>9, <1>10 DEF Next, ThreadStep, AddStep

(* pthread_cond_signal once per stored task is enough for any number of    *)
(* threads: as long as one sleeps, as many are ready as tasks wait.        *)
THEOREM SignalPerTask == Spec => []WorkConserving
  <1>1. Init => WorkConserving
    BY DEF Init, WorkConserving
  <1> QED
    BY <1>1, Invariance, WorkConservingNext, PTL DEF Spec

-----------------------------------------------------------------------------
(* Refinement of the bounded job queue: the tasks of the ring from start,  *)
(* in order, are the pending ones.                                         *)
Waiting  == [k \in 1 .. curr_task_num |-> task_queue_[SlotAt(k - 1)]]
InHand   == {current[w] : w \in Threads} \ {NoTask}
Executed == {t \in Tasks : runs[t] > 0}
Refused  == {t \in Tasks : add[t] = "fail"}

LEMMA FunctionOnPositions ==
    ASSUME NEW S, NEW n \in Nat, NEW f, f = [k \in 1 .. n |-> f[k]], \A k \in 1 .. n : f[k] \in S
    PROVE  f \in Seq(S) /\ Len(f) = n /\ DOMAIN f = 1 .. n
<1>1. f \in [1 .. n -> S]
  BY Zenon
<1> QED
  BY <1>1

LEMMA IsAppend ==
    ASSUME NEW S, NEW n \in Nat, NEW f \in Seq(S), NEW g \in Seq(S), NEW e \in S, Len(f) = n, Len(g) = n + 1,
           \A k \in 1 .. n : g[k] = f[k], g[n + 1] = e
    PROVE  g = Append(f, e)
OBVIOUS

LEMMA IsTail ==
    ASSUME NEW S, NEW n \in Nat, NEW f \in Seq(S), NEW g \in Seq(S), Len(f) = n, Len(g) = n - 1, n > 0,
           \A k \in 1 .. n - 1 : g[k] = f[k + 1]
    PROVE  g = Tail(f) /\ f # <<>> /\ Head(f) = f[1]
OBVIOUS

(* The ring read from start is a sequence of tasks.                        *)
WaitingInOrder ==
    /\ Waiting \in Seq(Tasks) /\ Len(Waiting) = curr_task_num
    /\ DOMAIN Waiting = 1 .. curr_task_num /\ curr_task_num \in Nat
    /\ \A k \in 1 .. curr_task_num : Waiting[k] = task_queue_[SlotAt(k - 1)]

LEMMA WaitingTasks == Inv => WaitingInOrder
<1> SUFFICES ASSUME Inv PROVE WaitingInOrder
  OBVIOUS
<1>0. TypeOK /\ RingConsistent
  BY DEF Inv
<1>1. PICK n, f : n = curr_task_num /\ f = Waiting
  OBVIOUS
<1>2. n \in Nat
  BY <1>0, <1>1 DEF TypeOK
<1>3. f = [k \in 1 .. n |-> task_queue_[SlotAt(k - 1)]]
  BY <1>1 DEF Waiting
<1>4. ASSUME NEW k \in 1 .. n PROVE f[k] = task_queue_[SlotAt(k - 1)] /\ f[k] \in Tasks
  <2>1. k - 1 \in 0 .. n - 1
    BY <1>2
  <2> QED
    BY <1>0, <1>1, <1>3, <2>1 DEF RingConsistent
<1>5. f = [k \in 1 .. n |-> f[k]]
  BY <1>3
<1>6. f \in Seq(Tasks) /\ Len(f) = n /\ DOMAIN f = 1 .. n
  BY <1>2, <1>4, <1>5, FunctionOnPositions
<1> QED
  BY <1>1, <1>2, <1>4, <1>6 DEF WaitingInOrder

LEMMA WaitingNext == Inv' => WaitingInOrder'
BY WaitingTasks, PTL

(* A task whose add_task call is under way is nowhere in the pool.         *)
LEMMA UnknownTask ==
    ASSUME Inv, NEW t \in Tasks, add[t] = "enter"
    PROVE  t \notin JP!Known
<1>1. TypeOK /\ RingConsistent /\ TaskPlaces
  BY DEF Inv
<1>2. ASSUME NEW k \in 1 .. curr_task_num PROVE Waiting[k] # t
  <2>1. k - 1 \in 0 .. curr_task_num - 1 /\ Waiting[k] = task_queue_[SlotAt(k - 1)]
    BY WaitingTasks DEF WaitingInOrder
  <2>2. add[task_queue_[SlotAt(k - 1)]] = "ok"
    BY <1>1, <2>1 DEF RingConsistent
  <2> QED
    BY <2>1, <2>2
<1>3. t \notin {Waiting[i] : i \in DOMAIN Waiting}
  BY <1>2, WaitingTasks DEF WaitingInOrder
<1>4. t \notin InHand /\ t \notin Executed /\ t \notin Refused
  BY <1>1 DEF TaskPlaces, InHand, Executed, Refused
<1> QED
  BY <1>3, <1>4 DEF JP!Known, Waiting, InHand, Executed, Refused

LEMMA RefinesInit == Init => JP!Init
<1> SUFFICES ASSUME Init PROVE JP!Init
  OBVIOUS
<1>1. Waiting = <<>>
  <2>1. Waiting \in Seq(Tasks) /\ Len(Waiting) = 0
    BY InvInit, WaitingTasks DEF WaitingInOrder, Init
  <2> QED
    BY <2>1
<1>2. InHand = {} /\ Executed = {} /\ Refused = {}
  BY DEF Init, InHand, Executed, Refused
<1> QED
  BY <1>1, <1>2 DEF JP!Init, Waiting, InHand, Executed, Refused

(* Storing a task is accepting it, taking one is starting the oldest.      *)
LEMMA RefinesNext == Inv /\ Inv' /\ [Next]_vars => [JP!Next]_(JP!jpvars)
<1> SUFFICES ASSUME Inv, Inv', [Next]_vars
             PROVE  [JP!Next]_(JP!jpvars)
  OBVIOUS
<1> USE TaskRingAssumption DEF ring, stopping
<1>0. TypeOK /\ RingConsistent /\ TaskPlaces /\ TypeOK' /\ RingConsistent'
  BY DEF Inv
<1>1. ASSUME UNCHANGED <<task_queue_, start, curr_task_num, current, runs>>,
             \A t \in Tasks : add'[t] = "fail" <=> add[t] = "fail"
      PROVE  UNCHANGED JP!jpvars
  <2>1. Waiting' = Waiting /\ InHand' = InHand /\ Executed' = Executed
    BY <1>1 DEF Waiting, SlotAt, InHand, Executed
  <2>2. Refused' = Refused
    BY <1>1 DEF Refused
  <2> QED
    BY <2>1, <2>2 DEF JP!jpvars, Waiting, InHand, Executed, Refused
<1>2. ASSUME NEW t \in Tasks, AddStore(t) PROVE JP!Accept(t)
  <2>1. PICK n, f, g : n = curr_task_num /\ f = Waiting /\ g = Waiting'
    OBVIOUS
  <2>2. /\ n \in Nat /\ n < max_task_num - 1 /\ curr_task_num' = n + 1 /\ start' = start
        /\ task_queue_' = [task_queue_ EXCEPT ![end] = t] /\ end = SlotAt(n)
        /\ add[t] = "enter" /\ add' = [add EXCEPT ![t] = "ok"] /\ UNCHANGED <<current, runs>>
    BY <1>0, <1>2, <2>1 DEF AddStore, TooManyTasks, TypeOK, RingConsistent
  <2>3. /\ f \in Seq(Tasks) /\ Len(f) = n /\ g \in Seq(Tasks) /\ Len(g) = n + 1
        /\ \A k \in 1 .. n : f[k] = task_queue_[SlotAt(k - 1)]
        /\ \A k \in 1 .. n + 1 : g[k] = task_queue_'[SlotAt(k - 1)']
    BY <2>1, <2>2, WaitingTasks, WaitingNext DEF WaitingInOrder
  <2>4. \A k \in 1 .. n + 1 : SlotAt(k - 1)' = SlotAt(k - 1)
    BY <2>2 DEF SlotAt
  <2>5. ASSUME NEW k \in 1 .. n PROVE g[k] = f[k]
    <3>1. k - 1 \in 0 .. max_task_num - 1 /\ n \in 0 .. max_task_num - 1 /\ k - 1 # n
      BY <2>2
    <3>2. SlotAt(k - 1) # SlotAt(n) /\ SlotAt(k - 1) \in Slots
      BY <1>0, <3>1, SlotFacts DEF TypeOK
    <3>3. task_queue_'[SlotAt(k - 1)] = task_queue_[SlotAt(k - 1)]
      BY <1>0, <2>2, <3>2 DEF TypeOK
    <3>4. k \in 1 .. n + 1
      BY <2>2
    <3> QED
      BY <2>3, <2>4, <3>3, <3>4
  <2>6. g[n + 1] = t
    <3>1. task_queue_'[SlotAt(n)] = t
      BY <1>0, <2>2 DEF TypeOK
    <3>2. n + 1 \in 1 .. n + 1 /\ (n + 1) - 1 = n
      BY <2>2
    <3> QED
      BY <2>3, <2>4, <3>1, <3>2
  <2>7. g = Append(f, t)
    BY <2>2, <2>3, <2>5, <2>6, IsAppend
  <2>8. Waiting' = Append(Waiting, t) /\ Len(Waiting) < max_task_num - 1
    BY <2>1, <2>2, <2>3, <2>7
  <2>9. InHand' = InHand /\ Executed' = Executed
    BY <2>2 DEF InHand, Executed
  <2>10. Refused' = Refused
    BY <1>0, <2>2 DEF Refused, TypeOK
  <2>11. t \notin JP!Known
    BY <2>2, UnknownTask
  <2> QED
    BY <2>8, <2>9, <2>10, <2>11 DEF JP!Accept, Waiting, InHand, Executed, Refused
<1>3. ASSUME NEW t \in Tasks, AddDiscard(t) PROVE JP!Refuse(t)
  <2>1. /\ add[t] = "enter" /\ add' = [add EXCEPT ![t] = "fail"]
        /\ UNCHANGED <<task_queue_, start, curr_task_num, current, runs>>
    BY <1>3 DEF AddDiscard
  <2>2. Waiting' = Waiting /\ InHand' = InHand /\ Executed' = Executed
    BY <2>1 DEF Waiting, SlotAt, InHand, Executed
  <2>3. Refused' = Refused \cup {t}
    BY <1>0, <2>1 DEF Refused, TypeOK
  <2>4. t \notin JP!Known
    BY <2>1, UnknownTask
  <2> QED
    BY <2>2, <2>3, <2>4 DEF JP!Refuse, Waiting, InHand, Executed, Refused
<1>4. ASSUME NEW w \in Threads, ThreadTake(w) PROVE JP!Start
  <2>1. PICK n, f, g : n = curr_task_num /\ f = Waiting /\ g = Waiting'
    OBVIOUS
  <2>2. /\ n \in Nat /\ n > 0 /\ n < max_task_num /\ curr_task_num' = n - 1
        /\ start' = Advance(start) /\ start \in Slots
        /\ current' = [current EXCEPT ![w] = task_queue_[start]]
        /\ thread[w] = "ready" /\ UNCHANGED <<task_queue_, add, runs>>
    BY <1>0, <1>4, <2>1 DEF ThreadTake, TypeOK, RingConsistent
  <2>3. /\ f \in Seq(Tasks) /\ Len(f) = n /\ g \in Seq(Tasks) /\ Len(g) = n - 1
        /\ \A k \in 1 .. n : f[k] = task_queue_[SlotAt(k - 1)]
        /\ \A k \in 1 .. n - 1 : g[k] = task_queue_'[SlotAt(k - 1)']
    BY <2>1, <2>2, WaitingTasks, WaitingNext DEF WaitingInOrder
  <2>4. ASSUME NEW k \in 1 .. n - 1 PROVE g[k] = f[k + 1]
    <3>1. k - 1 \in 0 .. max_task_num - 1 /\ (k - 1) + 1 = k /\ k + 1 \in 1 .. n /\ (k + 1) - 1 = k
      BY <2>2
    <3>2. SlotAt(k - 1)' = SlotAt(k)
      BY <2>2, <3>1, SlotShift
    <3> QED
      BY <2>2, <2>3, <3>1, <3>2
  <2>5. g = Tail(f) /\ f # <<>> /\ Head(f) = f[1]
    BY <2>2, <2>3, <2>4, IsTail
  <2>6. f[1] = task_queue_[start] /\ f[1] \in Tasks
    <3>1. 1 \in 1 .. n /\ 1 - 1 = 0 /\ SlotAt(0) = start
      BY <2>2, SlotFacts
    <3> QED
      BY <2>3, <3>1
  <2>7. current[w] = NoTask
    BY <1>0, <2>2 DEF TaskPlaces
  <2>8. InHand' = InHand \cup {f[1]}
    BY <1>0, <2>2, <2>6, <2>7 DEF InHand, TypeOK
  <2>9. Executed' = Executed /\ Refused' = Refused
    BY <2>2 DEF Executed, Refused
  <2>10. /\ Waiting # <<>> /\ Waiting' = Tail(Waiting)
         /\ InHand' = InHand \cup {Head(Waiting)}
    BY <2>1, <2>5, <2>8
  <2> QED
    BY <2>9, <2>10 DEF JP!Start, Waiting, InHand, Executed, Refused
<1>5. ASSUME NEW w \in Threads, ThreadDone(w) PROVE \E t \in Tasks : JP!Finish(t)
  <2>1. PICK t : t = current[w]
    OBVIOUS
  <2>2. t \in Tasks /\ t \in InHand /\ runs[t] = 0
    BY <1>0, <1>5, <2>1 DEF TaskPlaces, ThreadDone, TypeOK, InHand
  <2>3. /\ runs' = [runs EXCEPT ![t] = 1]
        /\ current' = [current EXCEPT ![w] = NoTask]
        /\ UNCHANGED <<task_queue_, start, curr_task_num, add>>
    BY <1>0, <1>5, <2>1, <2>2 DEF ThreadDone, TypeOK
  <2>4. InHand' = InHand \ {t}
    BY <1>0, <2>1, <2>2, <2>3 DEF InHand, TypeOK, TaskPlaces
  <2>5. Executed' = Executed \cup {t}
    BY <1>0, <2>2, <2>3 DEF Executed, TypeOK
  <2>6. Waiting' = Waiting /\ Refused' = Refused
    BY <2>3 DEF Waiting, SlotAt, Refused
  <2>7. JP!Finish(t)
    BY <2>2, <2>4, <2>5, <2>6 DEF JP!Finish, Waiting, InHand, Executed, Refused
  <2> QED
    BY <2>2, <2>7
<1>6. ASSUME NEW w \in Threads,
             \/ ThreadWait(w) \/ ThreadDieWaiting(w) \/ ThreadDieRunning(w) \/ SpuriousWakeup(w)
      PROVE  UNCHANGED JP!jpvars
  BY <1>1, <1>6 DEF ThreadWait, ThreadDieWaiting, ThreadDieRunning, SpuriousWakeup
<1>7. ASSUME NEW t \in Tasks, AddCall(t) PROVE UNCHANGED JP!jpvars
  BY <1>0, <1>1, <1>7 DEF AddCall, TypeOK
<1>8. ASSUME StopCall \/ DestroyCall \/ StopStep \/ UseAfterFree \/ UNCHANGED vars
      PROVE  UNCHANGED JP!jpvars
  BY <1>1, <1>8
     DEF StopCall, DestroyCall, StopStep, StopCancel, StopJoin, StopReturn, UseAfterFree, vars
<1>9. ASSUME NEW w \in Threads, ThreadStep(w) \/ SpuriousWakeup(w)
      PROVE  JP!Next \/ UNCHANGED JP!jpvars
  <2>1. CASE ThreadTake(w)
    BY <1>4, <2>1 DEF JP!Next
  <2>2. CASE ThreadDone(w)
    BY <1>5, <2>2 DEF JP!Next
  <2> QED
    BY <1>6, <1>9, <2>1, <2>2 DEF ThreadStep
<1>10. ASSUME NEW t \in Tasks, AddCall(t) \/ AddStep(t)
       PROVE  JP!Next \/ UNCHANGED JP!jpvars
  BY <1>2, <1>3, <1>7, <1>10 DEF AddStep, JP!Next
<1> QED
  BY <1>8, <1>9, <1>10 DEF Next

(* The ring of slots is a bounded FIFO of max_task_num - 1 tasks, each     *)
(* started and finished at most once, in the order add_task stored them,   *)
(* whatever threads are cancelled.                                         *)
THEOREM Refinement == Spec => ImplementsJobPool
BY RefinesInit, RefinesNext, Invariance, PTL DEF Spec, ImplementsJobPool, JP!Spec
=============================================================================
