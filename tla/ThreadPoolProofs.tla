-------------------------- MODULE ThreadPoolProofs --------------------------
(***************************************************************************)
(* Theorems about ThreadPool for any number of workers, callers and        *)
(* destroyers and any positive queue_max_num.                              *)
(***************************************************************************)
EXTENDS ThreadPool, ListFacts

-----------------------------------------------------------------------------
(* Condition variables.                                                    *)

(* A broadcast keeps every control state but "wait", which becomes "ready".*)
LEMMA BroadcastType ==
    ASSUME NEW S, NEW P, NEW f \in [P -> S], "ready" \in S
    PROVE  Broadcast(f) \in [P -> S]
  BY DEF Broadcast

(* A signal moves at most one thread, from "wait" to "ready".              *)
LEMMA SignalledType ==
    ASSUME NEW S, NEW P, NEW f \in [P -> S], "ready" \in S,
           NEW g \in Signalled(f)
    PROVE  /\ g \in [P -> S]
           /\ \A p \in P : g[p] = f[p] \/ (f[p] = "wait" /\ g[p] = "ready")
           /\ (\E p \in P : f[p] = "wait") => \E p \in P : f[p] = "wait" /\ g[p] = "ready"
  BY DEF Signalled

-----------------------------------------------------------------------------
(* The inductive invariant.  No part of it is inductive alone: the list is *)
(* well typed after a take only if the counter tells the truth about it,   *)
(* the counter does so after the free only if the phases of the shutdown   *)
(* are in order, and a waiter is justified only if both hold.              *)
Inv ==
    /\ TypeOK
    /\ CountMatchesList
    /\ JobConservation
    /\ NoLostWakeup
    /\ ShutdownPhases

(* threadpool_init establishes the invariant.                              *)
LEMMA InvInit == Init => Inv
  <1> SUFFICES ASSUME Init PROVE Inv
    OBVIOUS
  <1> USE DEF Init
  <1>1. TypeOK /\ CountMatchesList
    <2>1. queue \in Seq(Jobs) /\ queue_cur_num = Len(queue)
      BY EmptyFacts
    <2>2. queue_cur_num \in Nat /\ queue_cur_num <= queue_max_num
      BY ThreadPoolAssumption
    <2>3. /\ worker \in [Workers -> WorkerState]
          /\ pjob \in [Workers -> Jobs \cup {NoJob}]
          /\ add \in [Jobs -> AddState]
          /\ destroy \in [Destroyers -> DestroyState]
          /\ runs \in [Jobs -> Nat]
      BY DEF WorkerState, AddState, DestroyState
    <2> QED
      BY <2>1, <2>2, <2>3 DEF TypeOK, CountMatchesList
  <1>2. JobConservation
    BY EmptyFacts, ThreadPoolAssumption DEF JobConservation, Queued, InHand, Executed
  <1>3. NoLostWakeup
    BY DEF NoLostWakeup
  <1>4. ShutdownPhases
    BY DEF ShutdownPhases, Closer
  <1> QED
    BY <1>1, <1>2, <1>3, <1>4 DEF Inv

(* The part of the invariant about the list and its counter, and types.    *)
LEMMA TypeNext == Inv /\ [Next]_vars => (TypeOK /\ CountMatchesList)'
  <1> SUFFICES ASSUME Inv, [Next]_vars
               PROVE  (TypeOK /\ CountMatchesList)'
    OBVIOUS
  <1> USE ThreadPoolAssumption DEF TypeOK, CountMatchesList, poolFields
  <1>0. TypeOK /\ CountMatchesList
    BY DEF Inv
  <1>1. ASSUME NEW w \in Workers, WorkerTake(w) PROVE (TypeOK /\ CountMatchesList)'
    <2> DEFINE left == queue_cur_num - 1
    <2>1. queue # <<>> /\ Len(queue) = queue_cur_num /\ left \in Nat
      BY <1>0, <1>1, EmptyFacts DEF WorkerTake
    <2>2. /\ Tail(queue) \in Seq(Jobs) /\ Len(Tail(queue)) = left
          /\ Head(queue) \in Jobs
      BY <1>0, <2>1, TailFacts
    <2>3. queue' \in Seq(Jobs) /\ queue_cur_num' = Len(queue')
      BY <1>1, <2>1, <2>2, EmptyFacts DEF WorkerTake, Unlinked
    <2>4. destroy' \in [Destroyers -> DestroyState]
      <3>1. destroy' = destroy \/ destroy' \in Signalled(destroy)
        BY <1>1 DEF WorkerTake, DestroyerWoken
      <3>2. "ready" \in DestroyState
        BY DEF DestroyState, Closer
      <3> QED
        BY <1>0, <3>1, <3>2, SignalledType
    <2>5. add' \in [Jobs -> AddState]
      BY <1>0, <1>1, BroadcastType DEF WorkerTake, AddersWoken, AddState
    <2>6. /\ pjob' \in [Workers -> Jobs \cup {NoJob}]
          /\ worker' \in [Workers -> WorkerState]
      BY <1>0, <1>1, <2>2 DEF WorkerTake, WorkerState
    <2> QED
      BY <1>0, <1>1, <2>1, <2>3, <2>4, <2>5, <2>6 DEF WorkerTake
  <1>2. ASSUME NEW w \in Workers, WorkerWait(w) \/ WorkerExit(w)
        PROVE  (TypeOK /\ CountMatchesList)'
    BY <1>0, <1>2 DEF WorkerWait, WorkerExit, WorkerState
  <1>3. ASSUME NEW w \in Workers, WorkerDone(w) PROVE (TypeOK /\ CountMatchesList)'
    <2>1. pjob[w] \in Jobs
      BY <1>0, <1>3 DEF Inv, JobConservation, WorkerDone
    <2> QED
      BY <1>0, <1>3, <2>1 DEF WorkerDone, WorkerState
  <1>4. ASSUME NEW j \in Jobs, AddQueue(j) PROVE (TypeOK /\ CountMatchesList)'
    <2>1. queue' \in Seq(Jobs) /\ Len(queue') = Len(queue) + 1
      BY <1>0, <1>4, AppendFacts DEF AddQueue, Linked
    <2>2. worker' \in [Workers -> WorkerState]
      BY <1>0, <1>4, BroadcastType DEF AddQueue, WorkersWoken, WorkerState
    <2>3. queue_cur_num' \in Nat /\ queue_cur_num' <= queue_max_num
      BY <1>0, <1>4 DEF AddQueue, Full
    <2> QED
      BY <1>0, <1>4, <2>1, <2>2, <2>3 DEF AddQueue, AddState
  <1>5. ASSUME NEW j \in Jobs, AddCall(j) \/ AddWait(j) \/ AddFail(j) \/ AddUndefined(j)
        PROVE  (TypeOK /\ CountMatchesList)'
    BY <1>0, <1>5 DEF AddCall, AddWait, AddFail, AddUndefined, AddState
  <1>6. ASSUME NEW d \in Destroyers,
               DestroyCall(d) \/ DestroyRefused(d) \/ DestroyUndefined(d)
        PROVE  (TypeOK /\ CountMatchesList)'
    BY <1>0, <1>6 DEF DestroyCall, DestroyRefused, DestroyUndefined, DestroyState
  <1>7. ASSUME NEW d \in Destroyers, DestroyClose(d) \/ DestroyResume(d)
        PROVE  (TypeOK /\ CountMatchesList)'
    BY <1>0, <1>7 DEF DestroyClose, DestroyResume, DrainOrClose, DestroyState, Closer
  <1>8. ASSUME NEW d \in Destroyers, DestroyWakeWorkers(d)
        PROVE  (TypeOK /\ CountMatchesList)'
    <2>1. worker' \in [Workers -> WorkerState]
      BY <1>0, <1>8, BroadcastType DEF DestroyWakeWorkers, WorkerState
    <2> QED
      BY <1>0, <1>8, <2>1 DEF DestroyWakeWorkers, DestroyState, Closer
  <1>9. ASSUME NEW d \in Destroyers, DestroyWakeAdders(d)
        PROVE  (TypeOK /\ CountMatchesList)'
    <2>1. add' \in [Jobs -> AddState]
      BY <1>0, <1>9, BroadcastType DEF DestroyWakeAdders, AddState
    <2> QED
      BY <1>0, <1>9, <2>1 DEF DestroyWakeAdders, DestroyState, Closer
  <1>10. ASSUME NEW d \in Destroyers, DestroyFree(d)
         PROVE  (TypeOK /\ CountMatchesList)'
    <2>1. queue_cur_num = 0
      BY <1>10 DEF Inv, ShutdownPhases, DestroyFree, Closer
    <2> QED
      BY <1>0, <1>10, <2>1, EmptyFacts DEF DestroyFree, DestroyState, Closer
  <1>11. CASE SpuriousWakeup
    BY <1>0, <1>11 DEF SpuriousWakeup, WorkerState, AddState, DestroyState, Closer
  <1>12. CASE Terminated \/ UNCHANGED vars
    BY <1>0, <1>12 DEF Terminated, vars
  <1> QED
    BY <1>1, <1>2, <1>3, <1>4, <1>5, <1>6, <1>7, <1>8, <1>9, <1>10, <1>11, <1>12
       DEF Next, WorkerStep, AddStep, DestroyStep

(* No step loses, duplicates or invents a job.                             *)
LEMMA ConservationNext == Inv /\ [Next]_vars => JobConservation'
  <1> SUFFICES ASSUME Inv, [Next]_vars
               PROVE  JobConservation'
    OBVIOUS
  <1> USE ThreadPoolAssumption DEF poolFields
  <1>0. TypeOK /\ CountMatchesList /\ JobConservation
    BY DEF Inv
  <1>1. ASSUME UNCHANGED <<queue, pjob, runs>>,
               \A j \in Jobs : add'[j] = "ok" <=> add[j] = "ok",
               \A w \in Workers : worker'[w] = "run" <=> worker[w] = "run"
        PROVE  JobConservation'
    BY <1>0, <1>1 DEF JobConservation, Queued, InHand, Executed
  <1>2. ASSUME NEW w \in Workers, WorkerTake(w) PROVE JobConservation'
    <2> DEFINE j == Head(queue)
    <2>1. queue # <<>> /\ queue_cur_num \in Nat
      BY <1>0, <1>2, EmptyFacts DEF WorkerTake, TypeOK, CountMatchesList
    <2>2. /\ j \in Jobs
          /\ Range(queue) = Range(Tail(queue)) \cup {j}
          /\ j \notin Range(Tail(queue))
          /\ IsInjective(Tail(queue))
          /\ Len(Tail(queue)) = queue_cur_num - 1
          /\ Tail(queue) \in Seq(Jobs)
      BY <1>0, <2>1, TailFacts DEF TypeOK, JobConservation, CountMatchesList
    <2>3. queue' = Tail(queue)
      BY <1>2, <2>1, <2>2, EmptyFacts DEF WorkerTake, Unlinked
    <2>4. j \notin InHand /\ j \notin Executed
      BY <1>0, <2>2 DEF JobConservation, Queued
    <2>5. pjob[w] = NoJob
      BY <1>0, <1>2 DEF JobConservation, WorkerTake
    <2>6. /\ pjob' = [pjob EXCEPT ![w] = j]
          /\ worker' = [worker EXCEPT ![w] = "run"]
          /\ runs' = runs
      BY <1>2 DEF WorkerTake
    <2>7. InHand' = InHand \cup {j}
      BY <1>0, <2>2, <2>5, <2>6 DEF InHand, TypeOK
    <2>8. \A i \in Jobs : add'[i] = "ok" <=> add[i] = "ok"
      BY <1>0, <1>2 DEF WorkerTake, AddersWoken, Broadcast, TypeOK
    <2>9. Queued' = Queued \ {j} /\ Executed' = Executed /\ j \in Queued
      BY <2>2, <2>3, <2>6 DEF Queued, Executed
    <2>10. \A u, v \in Workers : pjob'[u] = pjob'[v] /\ pjob'[u] # NoJob => u = v
      BY <1>0, <2>4, <2>6 DEF JobConservation, InHand, TypeOK
    <2>11. \A v \in Workers : worker'[v] = "run" <=> pjob'[v] # NoJob
      BY <1>0, <2>2, <2>6 DEF JobConservation, TypeOK
    <2>12. {i \in Jobs : add'[i] = "ok"} = Queued' \cup InHand' \cup Executed'
      BY <1>0, <2>7, <2>8, <2>9 DEF JobConservation
    <2> QED
      BY <1>0, <2>2, <2>3, <2>4, <2>6, <2>7, <2>9, <2>10, <2>11, <2>12 DEF JobConservation
  <1>3. ASSUME NEW w \in Workers, WorkerDone(w) PROVE JobConservation'
    <2> DEFINE j == pjob[w]
    <2>1. j \in Jobs /\ j \in InHand /\ runs[j] = 0
      BY <1>0, <1>3 DEF JobConservation, WorkerDone, TypeOK, InHand, Executed
    <2>2. /\ runs' = [runs EXCEPT ![j] = 1]
          /\ pjob' = [pjob EXCEPT ![w] = NoJob]
          /\ worker' = [worker EXCEPT ![w] = "ready"]
          /\ queue' = queue /\ add' = add
      BY <1>0, <1>3, <2>1 DEF WorkerDone, TypeOK
    <2>3. InHand' = InHand \ {j}
      BY <1>0, <2>1, <2>2 DEF InHand, TypeOK, JobConservation
    <2>4. Executed' = Executed \cup {j}
      BY <1>0, <2>1, <2>2 DEF Executed, TypeOK
    <2>5. Queued' = Queued
      BY <2>2 DEF Queued
    <2>6. \A u, v \in Workers : pjob'[u] = pjob'[v] /\ pjob'[u] # NoJob => u = v
      BY <1>0, <2>2 DEF JobConservation, TypeOK
    <2>7. \A v \in Workers : worker'[v] = "run" <=> pjob'[v] # NoJob
      BY <1>0, <2>2 DEF JobConservation, TypeOK
    <2>8. \A i \in Jobs : runs'[i] <= 1
      BY <1>0, <2>2 DEF JobConservation, TypeOK
    <2> QED
      BY <1>0, <2>1, <2>2, <2>3, <2>4, <2>5, <2>6, <2>7, <2>8 DEF JobConservation
  <1>4. ASSUME NEW j \in Jobs, AddQueue(j) PROVE JobConservation'
    <2>1. j \notin Queued /\ j \notin InHand /\ j \notin Executed
      BY <1>0, <1>4 DEF JobConservation, AddQueue
    <2>2. /\ queue' = Append(queue, j)
          /\ add' = [add EXCEPT ![j] = "ok"]
          /\ pjob' = pjob /\ runs' = runs
      BY <1>4 DEF AddQueue, Linked
    <2>3. Queued' = Queued \cup {j} /\ IsInjective(queue')
      BY <1>0, <2>1, <2>2, AppendFacts DEF Queued, JobConservation, TypeOK
    <2>4. InHand' = InHand /\ Executed' = Executed
      BY <2>2 DEF InHand, Executed
    <2>5. \A v \in Workers : worker'[v] = "run" <=> worker[v] = "run"
      BY <1>0, <1>4 DEF AddQueue, WorkersWoken, Broadcast, TypeOK
    <2>6. {i \in Jobs : add'[i] = "ok"} = Queued' \cup InHand' \cup Executed'
      BY <1>0, <2>2, <2>3, <2>4 DEF JobConservation, TypeOK
    <2> QED
      BY <1>0, <2>1, <2>2, <2>3, <2>4, <2>5, <2>6 DEF JobConservation
  <1>5. ASSUME NEW d \in Destroyers, DestroyFree(d) PROVE JobConservation'
    <2>1. queue = <<>>
      BY <1>0, <1>5, EmptyFacts
         DEF Inv, ShutdownPhases, DestroyFree, Closer, TypeOK, CountMatchesList
    <2> QED
      BY <1>1, <1>5, <2>1 DEF DestroyFree
  <1>6. ASSUME NEW w \in Workers, WorkerWait(w) \/ WorkerExit(w) PROVE JobConservation'
    BY <1>0, <1>1, <1>6 DEF WorkerWait, WorkerExit, TypeOK
  <1>7. ASSUME NEW j \in Jobs, AddCall(j) \/ AddWait(j) \/ AddFail(j) \/ AddUndefined(j)
        PROVE  JobConservation'
    BY <1>0, <1>1, <1>7 DEF AddCall, AddWait, AddFail, AddUndefined, TypeOK
  <1>8. ASSUME NEW d \in Destroyers,
               \/ DestroyCall(d) \/ DestroyRefused(d) \/ DestroyUndefined(d)
               \/ DestroyClose(d) \/ DestroyResume(d)
        PROVE  JobConservation'
    BY <1>0, <1>1, <1>8
       DEF DestroyCall, DestroyRefused, DestroyUndefined, DestroyClose, DestroyResume
  <1>9. ASSUME NEW d \in Destroyers, DestroyWakeWorkers(d) \/ DestroyWakeAdders(d)
        PROVE  JobConservation'
    BY <1>0, <1>1, <1>9 DEF DestroyWakeWorkers, DestroyWakeAdders, Broadcast, TypeOK
  <1>10. CASE SpuriousWakeup
    BY <1>0, <1>1, <1>10 DEF SpuriousWakeup, TypeOK
  <1>11. CASE Terminated \/ UNCHANGED vars
    BY <1>0, <1>1, <1>11 DEF Terminated, vars
  <1> QED
    BY <1>2, <1>3, <1>4, <1>5, <1>6, <1>7, <1>8, <1>9, <1>10, <1>11
       DEF Next, WorkerStep, AddStep, DestroyStep

(* No step takes the shutdown out of its order.                            *)
LEMMA PhasesNext == Inv /\ [Next]_vars => ShutdownPhases'
  <1> SUFFICES ASSUME Inv, [Next]_vars
               PROVE  ShutdownPhases'
    OBVIOUS
  <1> USE ThreadPoolAssumption DEF poolFields
  <1>0. TypeOK /\ CountMatchesList /\ ShutdownPhases
    BY DEF Inv
  <1>1. ASSUME UNCHANGED <<queue_close, pool_close, freed, worker, destroy>>,
               queue_cur_num' = queue_cur_num
        PROVE  ShutdownPhases'
    BY <1>0, <1>1 DEF ShutdownPhases
  <1>2. ASSUME NEW j \in Jobs, AddCall(j) \/ AddWait(j) \/ AddFail(j) \/ AddUndefined(j)
        PROVE  ShutdownPhases'
    BY <1>1, <1>2 DEF AddCall, AddWait, AddFail, AddUndefined
  <1>3. ASSUME NEW j \in Jobs, AddQueue(j) PROVE ShutdownPhases'
    <2>1. ~pool_close /\ ~freed
      BY <1>3 DEF AddQueue, Closing
    <2>2. \A w \in Workers : worker'[w] = "exit" => worker[w] = "exit"
      BY <1>0, <1>3 DEF AddQueue, WorkersWoken, Broadcast, TypeOK
    <2> QED
      BY <1>0, <1>3, <2>1, <2>2 DEF AddQueue, ShutdownPhases
  <1>4. ASSUME NEW w \in Workers, WorkerWait(w) \/ WorkerExit(w) \/ WorkerDone(w)
        PROVE  ShutdownPhases'
    <2>1. worker[w] # "exit" /\ UNCHANGED <<queue_cur_num, queue_close, pool_close, freed, destroy>>
      BY <1>4 DEF WorkerWait, WorkerExit, WorkerDone
    <2>2. ~freed
      BY <1>0, <2>1 DEF ShutdownPhases
    <2>3. \A v \in Workers : worker'[v] = "exit" => worker[v] = "exit" \/ pool_close
      BY <1>0, <1>4 DEF WorkerWait, WorkerExit, WorkerDone, TypeOK
    <2> QED
      BY <1>0, <2>1, <2>2, <2>3 DEF ShutdownPhases
  <1>5. ASSUME NEW w \in Workers, WorkerTake(w) PROVE ShutdownPhases'
    <2>1. ~pool_close /\ ~pool_close' /\ UNCHANGED <<queue_close, freed>>
      BY <1>5 DEF WorkerTake
    <2>2. ~freed /\ \A v \in Workers : worker'[v] # "exit"
      BY <1>0, <1>5, <2>1 DEF ShutdownPhases, WorkerTake, TypeOK
    <2>3. \A d \in Destroyers : \/ destroy'[d] = destroy[d]
                                \/ destroy[d] = "wait" /\ destroy'[d] = "ready"
      <3>1. destroy' = destroy \/ destroy' \in Signalled(destroy)
        BY <1>5 DEF WorkerTake, DestroyerWoken
      <3>2. "ready" \in DestroyState
        BY DEF DestroyState, Closer
      <3> QED
        BY <1>0, <3>1, <3>2, SignalledType DEF TypeOK
    <2> QED
      BY <1>0, <2>1, <2>2, <2>3 DEF ShutdownPhases, Closer
  <1>6. ASSUME NEW d \in Destroyers,
               DestroyCall(d) \/ DestroyRefused(d) \/ DestroyUndefined(d)
        PROVE  ShutdownPhases'
    <2>1. \A e \in Destroyers : \/ destroy'[e] = destroy[e]
                                \/ destroy[e] \notin Closer /\ destroy'[e] \notin Closer
      BY <1>0, <1>6 DEF DestroyCall, DestroyRefused, DestroyUndefined, TypeOK, Closer
    <2>2. UNCHANGED <<queue_cur_num, queue_close, pool_close, freed, worker>>
      BY <1>6 DEF DestroyCall, DestroyRefused, DestroyUndefined
    <2>3. "ok" \in Closer
      BY DEF Closer
    <2> QED
      BY <1>0, <2>1, <2>2, <2>3 DEF ShutdownPhases
  <1>7. ASSUME NEW d \in Destroyers, DestroyClose(d) PROVE ShutdownPhases'
    <2>1. \A e \in Destroyers : destroy[e] \notin Closer
      BY <1>0, <1>7 DEF DestroyClose, Closing, ShutdownPhases
    <2>2. ~pool_close /\ ~freed /\ \A w \in Workers : worker[w] # "exit"
      BY <1>0, <1>7 DEF DestroyClose, Closing, ShutdownPhases
    <2> QED
      BY <1>0, <1>7, <2>1, <2>2
         DEF DestroyClose, DrainOrClose, ShutdownPhases, TypeOK, Closer
  <1>8. ASSUME NEW d \in Destroyers, DestroyResume(d) PROVE ShutdownPhases'
    <2>1. \A e \in Destroyers : destroy[e] \in Closer => e = d
      BY <1>0, <1>8 DEF DestroyResume, ShutdownPhases, Closer
    <2>2. ~pool_close /\ ~freed /\ queue_close
      BY <1>0, <1>8, <2>1 DEF DestroyResume, ShutdownPhases, Closer
    <2>3. /\ destroy' = [destroy EXCEPT ![d] = IF queue_cur_num = 0 THEN "wakeWorkers" ELSE "wait"]
          /\ pool_close' = (queue_cur_num = 0)
          /\ UNCHANGED <<queue_cur_num, queue_close, freed, worker>>
      BY <1>8 DEF DestroyResume, DrainOrClose
    <2>4. \A e \in Destroyers :
             destroy'[e] = IF e = d THEN IF queue_cur_num = 0 THEN "wakeWorkers" ELSE "wait"
                           ELSE destroy[e]
      BY <1>0, <2>3 DEF TypeOK
    <2>5. \A e \in Destroyers : destroy'[e] \in Closer <=> e = d
      BY <2>1, <2>4 DEF Closer
    <2>6. \A w \in Workers : worker[w] # "exit"
      BY <1>0, <2>2 DEF ShutdownPhases
    <2>7. \A e \in Destroyers : destroy'[e] # "ok"
      BY <2>4, <2>5 DEF Closer
    <2>8. pool_close' <=> destroy'[d] \in Closer \ {"ready", "wait"}
      <3>1. CASE queue_cur_num = 0
        <4>1. destroy'[d] = "wakeWorkers"
          BY <2>4, <3>1
        <4>2. pool_close'
          BY ONLY <2>3, <3>1, Zenon
        <4> QED
          BY <4>1, <4>2 DEF Closer
      <3>2. CASE queue_cur_num # 0
        BY <2>3, <2>4, <3>2 DEF Closer
      <3> QED
        BY <3>1, <3>2
    <2>9. pool_close' <=> \E e \in Destroyers : destroy'[e] \in Closer \ {"ready", "wait"}
      BY ONLY <2>5, <2>8, d \in Destroyers, Zenon
    <2>10. /\ pool_close' => queue_cur_num' = 0
           /\ \A w \in Workers : worker'[w] # "exit"
           /\ ~ freed' /\ queue_close'
      BY <2>2, <2>3, <2>6
    <2>11. \A e, f \in Destroyers : destroy'[e] \in Closer /\ destroy'[f] \in Closer => e = f
      BY ONLY <2>5, Zenon
    <2>12. \E e \in Destroyers : destroy'[e] \in Closer
      BY ONLY <2>5, d \in Destroyers, Zenon
    <2> QED
      BY ONLY <2>7, <2>9, <2>10, <2>11, <2>12, Zenon DEF ShutdownPhases
  <1>9. ASSUME NEW d \in Destroyers, DestroyWakeWorkers(d) \/ DestroyWakeAdders(d)
        PROVE  ShutdownPhases'
    <2>1. \A w \in Workers : worker'[w] = "exit" <=> worker[w] = "exit"
      BY <1>0, <1>9 DEF DestroyWakeWorkers, DestroyWakeAdders, Broadcast, TypeOK
    <2>2. /\ destroy[d] \in {"wakeWorkers", "wakeAdders"}
          /\ destroy'[d] \in {"wakeAdders", "join"}
          /\ \A e \in Destroyers : e # d => destroy'[e] = destroy[e]
          /\ UNCHANGED <<queue_cur_num, queue_close, pool_close, freed>>
      BY <1>0, <1>9 DEF DestroyWakeWorkers, DestroyWakeAdders, TypeOK
    <2>3. \A e \in Destroyers :
             /\ destroy'[e] \in Closer <=> destroy[e] \in Closer
             /\ destroy'[e] \in {"ready", "wait"} <=> destroy[e] \in {"ready", "wait"}
             /\ destroy'[e] = "ok" <=> destroy[e] = "ok"
      BY <2>2 DEF Closer
    <2> QED
      BY <1>0, <2>1, <2>2, <2>3 DEF ShutdownPhases
  <1>10. ASSUME NEW d \in Destroyers, DestroyFree(d) PROVE ShutdownPhases'
    BY <1>0, <1>10 DEF DestroyFree, ShutdownPhases, TypeOK, Closer
  <1>11. CASE SpuriousWakeup
    <2>1. \A w \in Workers : worker'[w] = "exit" <=> worker[w] = "exit"
      BY <1>0, <1>11 DEF SpuriousWakeup, TypeOK
    <2>2. \A d \in Destroyers : \/ destroy'[d] = destroy[d]
                                \/ destroy[d] = "wait" /\ destroy'[d] = "ready"
      BY <1>0, <1>11 DEF SpuriousWakeup, TypeOK
    <2>3. UNCHANGED <<queue_cur_num, queue_close, pool_close, freed>>
      BY <1>11 DEF SpuriousWakeup
    <2> QED
      BY <1>0, <2>1, <2>2, <2>3 DEF ShutdownPhases, Closer
  <1>12. CASE Terminated \/ UNCHANGED vars
    BY <1>1, <1>12 DEF Terminated, vars
  <1> QED
    BY <1>2, <1>3, <1>4, <1>5, <1>6, <1>7, <1>8, <1>9, <1>10, <1>11, <1>12
       DEF Next, WorkerStep, AddStep, DestroyStep

(* No step makes a condition true and leaves a waiter for it blocked.      *)
LEMMA WakeupNext == Inv /\ [Next]_vars => NoLostWakeup'
  <1> SUFFICES ASSUME Inv, [Next]_vars
               PROVE  NoLostWakeup'
    OBVIOUS
  <1> USE ThreadPoolAssumption DEF poolFields
  <1>0. TypeOK /\ CountMatchesList /\ ShutdownPhases /\ NoLostWakeup
    BY DEF Inv
  <1>1. ASSUME UNCHANGED <<queue_cur_num, pool_close>>,
               \A w \in Workers : worker'[w] = "wait" => worker[w] = "wait",
               \A j \in Jobs : add'[j] = "wait" => add[j] = "wait",
               \A d \in Destroyers :
                  /\ destroy'[d] = "wait" => destroy[d] = "wait"
                  /\ destroy[d] = "wakeWorkers" => destroy'[d] = "wakeWorkers"
        PROVE  NoLostWakeup'
    BY <1>0, <1>1 DEF NoLostWakeup
  <1>2. ASSUME NEW j \in Jobs, AddCall(j) \/ AddFail(j) \/ AddUndefined(j)
        PROVE  NoLostWakeup'
    BY <1>0, <1>1, <1>2 DEF AddCall, AddFail, AddUndefined, TypeOK
  <1>3. ASSUME NEW j \in Jobs, AddWait(j) PROVE NoLostWakeup'
    BY <1>0, <1>3 DEF AddWait, Full, NoLostWakeup, TypeOK
  <1>4. ASSUME NEW j \in Jobs, AddQueue(j) PROVE NoLostWakeup'
    <2>1. /\ queue_cur_num' = queue_cur_num + 1
          /\ queue_cur_num # queue_max_num
          /\ add' = [add EXCEPT ![j] = "ok"]
          /\ destroy' = destroy
      BY <1>4 DEF AddQueue, Full
    <2>2. \A i \in Jobs : add'[i] # "wait"
      BY <1>0, <2>1 DEF NoLostWakeup, TypeOK
    <2>3. \A w \in Workers : worker'[w] # "wait"
      <3>1. CASE queue = <<>>
        BY <1>0, <1>4, <3>1 DEF AddQueue, WorkersWoken, Broadcast, TypeOK
      <3>2. CASE queue # <<>>
        <4>1. queue_cur_num # 0
          BY <1>0, <3>2, EmptyFacts DEF TypeOK, CountMatchesList
        <4> QED
          BY <1>0, <1>4, <3>2, <4>1 DEF AddQueue, WorkersWoken, NoLostWakeup
      <3> QED
        BY <3>1, <3>2
    <2>4. queue_cur_num' # 0
      BY <1>0, <2>1 DEF TypeOK
    <2> QED
      BY <2>2, <2>3, <2>4 DEF NoLostWakeup
  <1>5. ASSUME NEW w \in Workers, WorkerWait(w) PROVE NoLostWakeup'
    BY <1>0, <1>5 DEF WorkerWait, NoLostWakeup, TypeOK
  <1>6. ASSUME NEW w \in Workers, WorkerExit(w) \/ WorkerDone(w) PROVE NoLostWakeup'
    BY <1>0, <1>1, <1>6 DEF WorkerExit, WorkerDone, TypeOK
  <1>7. ASSUME NEW w \in Workers, WorkerTake(w) PROVE NoLostWakeup'
    <2> DEFINE left == queue_cur_num - 1
    <2>1. /\ queue_cur_num' = left /\ left \in Nat
          /\ queue_cur_num # 0 /\ queue_cur_num <= queue_max_num
          /\ worker' = [worker EXCEPT ![w] = "run"]
      BY <1>0, <1>7 DEF WorkerTake, TypeOK, CountMatchesList
    <2>2. \A v \in Workers : worker'[v] # "wait"
      BY <1>0, <2>1 DEF NoLostWakeup, TypeOK
    <2>3. \A j \in Jobs : add'[j] # "wait"
      <3>1. CASE left = queue_max_num - 1
        BY <1>0, <1>7, <3>1 DEF WorkerTake, AddersWoken, Broadcast, TypeOK
      <3>2. CASE left # queue_max_num - 1
        <4>1. queue_cur_num # queue_max_num
          BY <3>2
        <4> QED
          BY <1>0, <1>7, <3>2, <4>1 DEF WorkerTake, AddersWoken, NoLostWakeup
      <3> QED
        BY <3>1, <3>2
    <2>4. \A d \in Destroyers : destroy'[d] = "wait" => queue_cur_num' # 0
      <3>1. CASE left = 0
        <4>1. destroy' \in Signalled(destroy)
          BY <1>7, <3>1 DEF WorkerTake, DestroyerWoken
        <4>2. "ready" \in DestroyState
          BY DEF DestroyState, Closer
        <4> DEFINE before == destroy
                   after  == destroy'
        <4>3. /\ \A d \in Destroyers : \/ after[d] = before[d]
                                       \/ before[d] = "wait" /\ after[d] = "ready"
              /\ (\E d \in Destroyers : before[d] = "wait") =>
                    \E d \in Destroyers : before[d] = "wait" /\ after[d] = "ready"
          <5>1. before \in [Destroyers -> DestroyState] /\ after \in Signalled(before)
            BY <1>0, <4>1 DEF TypeOK
          <5> HIDE DEF before, after
          <5> QED
            BY <4>2, <5>1, SignalledType
        <4>4. \A d, e \in Destroyers : destroy[d] = "wait" /\ destroy[e] = "wait" => d = e
          BY <1>0 DEF ShutdownPhases, Closer
        <4> QED
          BY <4>3, <4>4
      <3>2. CASE left # 0
        BY <2>1, <3>2
      <3> QED
        BY <3>1, <3>2
    <2> QED
      BY <2>2, <2>3, <2>4 DEF NoLostWakeup
  <1>8. ASSUME NEW d \in Destroyers,
               DestroyCall(d) \/ DestroyRefused(d) \/ DestroyUndefined(d)
        PROVE  NoLostWakeup'
    BY <1>0, <1>1, <1>8 DEF DestroyCall, DestroyRefused, DestroyUndefined, TypeOK
  <1>9. ASSUME NEW d \in Destroyers, DestroyClose(d) \/ DestroyResume(d)
        PROVE  NoLostWakeup'
    <2>1. ~pool_close
      BY <1>0, <1>9 DEF DestroyClose, DestroyResume, Closing, ShutdownPhases, Closer
    <2> QED
      BY <1>0, <1>9, <2>1
         DEF DestroyClose, DestroyResume, DrainOrClose, NoLostWakeup, TypeOK
  <1>10. ASSUME NEW d \in Destroyers, DestroyWakeWorkers(d) PROVE NoLostWakeup'
    <2>1. \A w \in Workers : worker'[w] # "wait"
      BY <1>0, <1>10 DEF DestroyWakeWorkers, Broadcast, TypeOK
    <2> QED
      BY <1>0, <1>10, <2>1 DEF DestroyWakeWorkers, NoLostWakeup, TypeOK
  <1>11. ASSUME NEW d \in Destroyers, DestroyWakeAdders(d) \/ DestroyFree(d)
         PROVE  NoLostWakeup'
    BY <1>0, <1>1, <1>11 DEF DestroyWakeAdders, DestroyFree, Broadcast, TypeOK
  <1>12. CASE SpuriousWakeup
    BY <1>0, <1>1, <1>12 DEF SpuriousWakeup, TypeOK
  <1>13. CASE Terminated \/ UNCHANGED vars
    BY <1>1, <1>13 DEF Terminated, vars
  <1> QED
    BY <1>2, <1>3, <1>4, <1>5, <1>6, <1>7, <1>8, <1>9, <1>10, <1>11, <1>12, <1>13
       DEF Next, WorkerStep, AddStep, DestroyStep

(* The invariant holds in every state of every behaviour.                  *)
THEOREM Invariance == Spec => []Inv
  <1>1. Inv /\ [Next]_vars => Inv'
    BY TypeNext, ConservationNext, WakeupNext, PhasesNext DEF Inv
  <1> QED
    BY <1>1, InvInit, PTL DEF Spec

(* The fields of the pool, the counters and every thread's control state   *)
(* keep their types: in particular queue_cur_num never goes negative and a *)
(* worker never calls through a null pjob.                                 *)
THEOREM TypeCorrect == Spec => []TypeOK
  BY Invariance, PTL DEF Inv

(* queue_cur_num always agrees with the list, which never outgrows its     *)
(* bound.                                                                  *)
THEOREM CountCorrect == Spec => []CountMatchesList
  BY Invariance, PTL DEF Inv

(* No accepted job is lost, duplicated or run twice.                       *)
THEOREM ExactlyOnce == Spec => []JobConservation
  BY Invariance, PTL DEF Inv

(* No thread is left blocked on a condition that has come true.            *)
THEOREM WakeupsSuffice == Spec => []NoLostWakeup
  BY Invariance, PTL DEF Inv

(* threadpool_destroy goes through its phases in order, and only once.     *)
THEOREM OrderlyShutdown == Spec => []ShutdownPhases
  BY Invariance, PTL DEF Inv

(* threadpool_destroy frees the pool only after every accepted job has run.*)
THEOREM DrainedBeforeFree == Spec => []DestroyDrains
  <1>1. Inv => DestroyDrains
    <2> SUFFICES ASSUME Inv, freed PROVE DestroyDrains
      BY DEF DestroyDrains
    <2>1. pool_close
      BY DEF Inv, ShutdownPhases, Closer
    <2>2. queue_cur_num = 0 /\ queue = <<>>
      BY <2>1, EmptyFacts DEF Inv, ShutdownPhases, TypeOK, CountMatchesList
    <2>3. \A w \in Workers : worker[w] = "exit" /\ pjob[w] = NoJob
      BY DEF Inv, ShutdownPhases, JobConservation
    <2>4. Queued = {} /\ InHand = {}
      BY <2>2, <2>3, EmptyFacts DEF Queued, InHand
    <2>5. \A j \in Jobs : add[j] = "ok" => runs[j] = 1
      BY <2>4 DEF Inv, JobConservation, Executed, TypeOK
    <2>6. \A j \in Jobs : add[j] # "wait"
      BY <2>2, ThreadPoolAssumption DEF Inv, NoLostWakeup
    <2> QED
      BY <2>3, <2>5, <2>6 DEF DestroyDrains
  <1> QED
    BY <1>1, Invariance, PTL

-----------------------------------------------------------------------------
(* Refinement of the bounded job queue.                                    *)

Refused == {j \in Jobs : add[j] = "fail"}

(* The initial pool is the empty open job queue.                           *)
LEMMA RefinesInit == Init => JP!Init
  BY EmptyFacts, ThreadPoolAssumption
     DEF Init, JP!Init, InHand, Executed

(* Every critical section is one step of the job queue or none.            *)
LEMMA RefinesNext == Inv /\ Inv' /\ [Next]_vars => [JP!Next]_(JP!jpvars)
  <1> SUFFICES ASSUME Inv, Inv', [Next]_vars
               PROVE  [JP!Next]_(JP!jpvars)
    OBVIOUS
  <1> USE ThreadPoolAssumption DEF poolFields
  <1>0. TypeOK /\ CountMatchesList /\ JobConservation /\ ShutdownPhases
    BY DEF Inv
  <1>1. ASSUME UNCHANGED <<queue, queue_close, freed, pjob, runs>>,
               \A j \in Jobs : add'[j] = "fail" <=> add[j] = "fail"
        PROVE  UNCHANGED JP!jpvars
    BY <1>1 DEF JP!jpvars, InHand, Executed
  <1>2. ASSUME NEW j \in Jobs, AddQueue(j) PROVE JP!Accept(j)
    <2>1. j \notin Queued /\ j \notin InHand /\ j \notin Executed /\ j \notin Refused
      BY <1>0, <1>2 DEF JobConservation, AddQueue, Refused
    <2>2. queue' = Append(queue, j) /\ UNCHANGED <<queue_close, freed, pjob, runs>>
      BY <1>2 DEF AddQueue, Linked
    <2>3. InHand' = InHand /\ Executed' = Executed
      BY <2>2 DEF InHand, Executed
    <2>4. Refused' = Refused
      BY <1>0, <1>2 DEF Refused, AddQueue, TypeOK
    <2>5. ~queue_close /\ Len(queue) < queue_max_num
      BY <1>0, <1>2 DEF AddQueue, Closing, Full, TypeOK, CountMatchesList
    <2> QED
      BY <2>1, <2>2, <2>3, <2>4, <2>5
         DEF JP!Accept, JP!Known, Queued, Range, Refused
  <1>3. ASSUME NEW j \in Jobs, AddFail(j) PROVE JP!Refuse(j)
    <2>1. j \notin Queued /\ j \notin InHand /\ j \notin Executed /\ j \notin Refused
      BY <1>0, <1>3 DEF JobConservation, AddFail, Refused
    <2>2. UNCHANGED <<queue, queue_close, freed, pjob, runs>>
      BY <1>3 DEF AddFail
    <2>3. InHand' = InHand /\ Executed' = Executed
      BY <2>2 DEF InHand, Executed
    <2>4. Refused' = Refused \cup {j}
      BY <1>0, <1>3 DEF Refused, AddFail, TypeOK
    <2> QED
      BY <2>1, <2>2, <2>3, <2>4 DEF JP!Refuse, JP!Known, Queued, Range, Refused
  <1>4. ASSUME NEW w \in Workers, WorkerTake(w) PROVE JP!Start
    <2> DEFINE j == Head(queue)
    <2>1. queue # <<>> /\ queue_cur_num \in Nat
      BY <1>0, <1>4, EmptyFacts DEF WorkerTake, TypeOK, CountMatchesList
    <2>2. j \in Jobs /\ Len(Tail(queue)) = queue_cur_num - 1 /\ Tail(queue) \in Seq(Jobs)
      BY <1>0, <2>1, TailFacts DEF TypeOK, CountMatchesList
    <2>3. queue' = Tail(queue)
      BY <1>4, <2>1, <2>2, EmptyFacts DEF WorkerTake, Unlinked
    <2>4. pjob[w] = NoJob
      BY <1>0, <1>4 DEF JobConservation, WorkerTake
    <2>5. pjob' = [pjob EXCEPT ![w] = j] /\ UNCHANGED <<queue_close, freed, runs>>
      BY <1>4 DEF WorkerTake
    <2>6. InHand' = InHand \cup {j}
      BY <1>0, <2>2, <2>4, <2>5 DEF InHand, TypeOK
    <2>7. Executed' = Executed
      BY <2>5 DEF Executed
    <2>8. Refused' = Refused
      BY <1>0, <1>4 DEF Refused, WorkerTake, AddersWoken, Broadcast, TypeOK
    <2> QED
      BY <2>1, <2>3, <2>5, <2>6, <2>7, <2>8 DEF JP!Start, Refused
  <1>5. ASSUME NEW w \in Workers, WorkerDone(w) PROVE JP!Finish(pjob[w])
    <2> DEFINE j == pjob[w]
    <2>1. j \in Jobs /\ j \in InHand /\ runs[j] = 0
      BY <1>0, <1>5 DEF JobConservation, WorkerDone, TypeOK, InHand, Executed
    <2>2. /\ runs' = [runs EXCEPT ![j] = 1]
          /\ pjob' = [pjob EXCEPT ![w] = NoJob]
          /\ UNCHANGED <<queue, queue_close, freed, add>>
      BY <1>0, <1>5, <2>1 DEF WorkerDone, TypeOK
    <2>3. InHand' = InHand \ {j}
      BY <1>0, <2>1, <2>2 DEF InHand, TypeOK, JobConservation
    <2>4. Executed' = Executed \cup {j}
      BY <1>0, <2>1, <2>2 DEF Executed, TypeOK
    <2> QED
      BY <2>1, <2>2, <2>3, <2>4 DEF JP!Finish
  <1>6. ASSUME NEW d \in Destroyers, DestroyClose(d) PROVE JP!Close
    BY <1>6 DEF DestroyClose, Closing, JP!Close, InHand, Executed
  <1>7. ASSUME NEW d \in Destroyers, DestroyFree(d) PROVE JP!Release
    <2>1. pool_close /\ queue_close /\ ~freed
      BY <1>0, <1>7 DEF DestroyFree, ShutdownPhases, Closer
    <2>2. queue = <<>>
      BY <1>0, <2>1, EmptyFacts DEF ShutdownPhases, TypeOK, CountMatchesList
    <2>3. InHand = {}
      BY <1>0, <1>7 DEF DestroyFree, JobConservation, InHand
    <2> QED
      BY <1>7, <2>1, <2>2, <2>3 DEF DestroyFree, JP!Release, InHand, Executed
  <1>8. ASSUME NEW j \in Jobs, AddCall(j) \/ AddWait(j) \/ AddUndefined(j)
        PROVE  UNCHANGED JP!jpvars
    BY <1>0, <1>1, <1>8 DEF AddCall, AddWait, AddUndefined, TypeOK
  <1>9. ASSUME NEW w \in Workers, WorkerWait(w) \/ WorkerExit(w)
        PROVE  UNCHANGED JP!jpvars
    BY <1>0, <1>1, <1>9 DEF WorkerWait, WorkerExit
  <1>10. ASSUME NEW d \in Destroyers,
                \/ DestroyCall(d) \/ DestroyRefused(d) \/ DestroyUndefined(d)
                \/ DestroyResume(d) \/ DestroyWakeWorkers(d) \/ DestroyWakeAdders(d)
         PROVE  UNCHANGED JP!jpvars
    BY <1>0, <1>1, <1>10
       DEF DestroyCall, DestroyRefused, DestroyUndefined, DestroyResume,
           DestroyWakeWorkers, DestroyWakeAdders, Broadcast, TypeOK
  <1>11. CASE SpuriousWakeup
    BY <1>0, <1>1, <1>11 DEF SpuriousWakeup, TypeOK
  <1>12. CASE Terminated \/ UNCHANGED vars
    BY <1>1, <1>12 DEF Terminated, vars
  <1>13. \A w \in Workers : WorkerDone(w) => pjob[w] \in Jobs
    BY <1>0 DEF JobConservation, WorkerDone, TypeOK
  <1> QED
    BY <1>2, <1>3, <1>4, <1>5, <1>6, <1>7, <1>8, <1>9, <1>10, <1>11, <1>12, <1>13
       DEF Next, WorkerStep, AddStep, DestroyStep, JP!Next

(* The thread pool is a bounded FIFO of jobs, each started and finished    *)
(* once, that is closed, drained and released in that order.               *)
THEOREM Refinement == Spec => ImplementsJobPool
  BY RefinesInit, RefinesNext, Invariance, PTL DEF Spec, ImplementsJobPool, JP!Spec
=============================================================================
