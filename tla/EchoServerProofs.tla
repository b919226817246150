-------------------------- MODULE EchoServerProofs --------------------------
(***************************************************************************)
(* Theorems about EchoServer, and the WorkQueue it is composed with, for   *)
(* any number of workers and connections and wherever the signal arrives.  *)
(***************************************************************************)
EXTENDS EchoServer, ListFacts

(* The connections in the list of jobs.                                    *)
Queued == Range(waiting_jobs)

(* Some place refers to the connection.                                    *)
Held(c) == accepted = c \/ c \in Queued \/ \E w \in Workers : job[w] = c

(* A thread has a connection in hand exactly in the states between taking  *)
(* it and letting it go, and no connection is in two places.               *)
OnePlace ==
    /\ IsInjective(waiting_jobs)
    /\ accepted # None <=> main \in {"lock", "locked"}
    /\ accepted \notin Queued
    /\ \A w \in Workers : /\ job[w] # None <=> worker[w] = "run"
                          /\ job[w] \notin Queued
                          /\ job[w] # None => job[w] # accepted
    /\ \A v, w \in Workers : job[v] = job[w] /\ job[v] # None => v = w

(* What is held is alive, and what is alive is held until the shutdown.    *)
HeldAlive ==
    /\ \A c \in Jobs : Held(c) => client[c] = "live"
    /\ \A c \in Jobs : client[c] = "live" /\ shutdown # "done" => Held(c)

(* The descriptor, the number of closes and the client_t go together.      *)
CloseCount ==
    \A c \in Jobs :
        /\ closes[c] = IF fd[c] = "closed" THEN 1 ELSE 0
        /\ fd[c] = "none" <=> client[c] = "none"
        /\ client[c] = "freed" => fd[c] = "closed"

(* Before the signal nothing is shut down.                                 *)
NoShutdownYet ==
    ~loopexit => /\ host = None /\ shutdown = "idle"
                 /\ \A w \in Workers : ~terminate[w]

Inv == TypeOK /\ OnePlace /\ HeldAlive /\ CloseCount /\ NoShutdownYet

-----------------------------------------------------------------------------
(* runServer establishes the invariant.                                    *)
LEMMA InvInit == Init => Inv
  <1> SUFFICES ASSUME Init PROVE Inv
    OBVIOUS
  <1> USE DEF Init, WQInit
  <1>1. Queued = {} /\ waiting_jobs \in Seq(Jobs) /\ IsInjective(waiting_jobs)
    BY EmptyFacts DEF Queued
  <1>2. TypeOK
    <2>1. WQTypeOK
      <3>1. terminate \in [Workers -> BOOLEAN]
        BY Zenon
      <3>2. workers \in 0 .. numWorkers /\ cursor \in 0 .. numWorkers
        BY WorkQueueAssumption
      <3> QED
        BY <1>1, <3>1, <3>2 DEF WQTypeOK, WorkerState, ShutdownState
    <2> QED
      BY <2>1 DEF TypeOK, MainState
  <1>3. OnePlace
    BY <1>1 DEF OnePlace
  <1>4. HeldAlive
    BY <1>1, WorkQueueAssumption DEF HeldAlive, Held
  <1>5. CloseCount /\ NoShutdownYet
    BY DEF CloseCount, NoShutdownYet
  <1> QED
    BY <1>2, <1>3, <1>4, <1>5 DEF Inv

(* A notification changes at most one worker, from "wait" to "lock".       *)
LEMMA NotifiedFacts ==
    ASSUME WQTypeOK, NEW g \in Notified
    PROVE  /\ g \in [Workers -> WorkerState]
           /\ \A w \in Workers : g[w] = worker[w] \/ (worker[w] = "wait" /\ g[w] = "lock")
           /\ (\E w \in Workers : worker[w] = "wait") =>
                 \E w \in Workers : worker[w] = "wait" /\ g = [worker EXCEPT ![w] = "lock"]
  BY DEF Notified, WQTypeOK, WorkerState

(* Steps that leave the connections where they are.                        *)
LEMMA StayFrame ==
    ASSUME Inv, TypeOK', NoShutdownYet',
           UNCHANGED <<waiting_jobs, accepted, job, client, fd, closes>>,
           main' = main \/ (main = "lock" /\ main' = "locked") \/ (main = "loop" /\ main' = "done"),
           \A w \in Workers : worker[w] = "run" <=> worker'[w] = "run",
           shutdown = "done" => shutdown' = "done"
    PROVE  Inv'
  <1>1. Queued' = Queued /\ \A c : Held(c)' <=> Held(c)
    BY DEF Queued, Held
  <1>2. OnePlace'
    BY <1>1 DEF Inv, OnePlace
  <1>3. HeldAlive'
    BY <1>1 DEF Inv, HeldAlive
  <1>4. CloseCount'
    BY DEF Inv, CloseCount
  <1> QED
    BY <1>2, <1>3, <1>4 DEF Inv

-----------------------------------------------------------------------------
(* The actions, one lemma for those of each thread.                        *)

(* on_accept, up to the call of workqueue_add_job.                         *)
LEMMA AcceptKeeps ==
    ASSUME Inv, NEW c \in Jobs, Accept(c) \/ AcceptFails(c)
    PROVE  Inv'
  <1> USE DEF wqvars, esvars
  <1>0. TypeOK /\ WQTypeOK /\ OnePlace /\ HeldAlive /\ CloseCount /\ NoShutdownYet
    BY DEF Inv, TypeOK
  <1>1. /\ UNCHANGED wqvars /\ client[c] # "live" /\ main = "loop"
        /\ accepted = None /\ ~Held(c) /\ c # None
    BY <1>0, WorkQueueAssumption DEF Accept, AcceptFails, CloseCount, OnePlace, HeldAlive
  <1>2. WQTypeOK' /\ Queued' = Queued
    BY <1>0, <1>1 DEF WQTypeOK, Queued
  <1>3. CASE Accept(c)
    <2>1. /\ fd' = [fd EXCEPT ![c] = "open"] /\ client' = [client EXCEPT ![c] = "live"]
          /\ accepted' = c /\ main' = "lock" /\ closes' = [closes EXCEPT ![c] = 0]
          /\ polling' = polling \cup {c} /\ UNCHANGED <<loopexit, host>>
      BY <1>3 DEF Accept
    <2>2. TypeOK'
      BY <1>0, <1>2, <2>1 DEF TypeOK, MainState
    <2>3. OnePlace'
      BY <1>0, <1>1, <1>2, <2>1 DEF OnePlace, Held
    <2>4. \A d \in Jobs : Held(d)' <=> Held(d) \/ d = c
      BY <1>1, <1>2, <2>1, WorkQueueAssumption DEF Held
    <2>5. HeldAlive'
      BY <1>0, <1>1, <2>1, <2>4 DEF HeldAlive, TypeOK
    <2>6. CloseCount'
      BY <1>0, <1>1, <2>1 DEF CloseCount, TypeOK
    <2>7. NoShutdownYet'
      BY <1>0, <1>1, <2>1 DEF NoShutdownYet
    <2> QED
      BY <2>2, <2>3, <2>5, <2>6, <2>7 DEF Inv
  <1>4. CASE AcceptFails(c)
    <2>1. /\ fd' = [fd EXCEPT ![c] = "closed"] /\ client' = [client EXCEPT ![c] = "freed"]
          /\ closes' = [closes EXCEPT ![c] = 1]
          /\ UNCHANGED <<main, accepted, polling, loopexit, host>>
      BY <1>4 DEF AcceptFails
    <2>2. TypeOK'
      BY <1>0, <1>2, <2>1 DEF TypeOK
    <2>3. OnePlace'
      BY <1>0, <1>1, <1>2, <2>1 DEF OnePlace
    <2>4. \A d \in Jobs : Held(d)' <=> Held(d)
      BY <1>1, <1>2, <2>1 DEF Held
    <2>5. HeldAlive'
      BY <1>0, <1>1, <2>1, <2>4 DEF HeldAlive, TypeOK
    <2>6. CloseCount'
      BY <1>0, <1>1, <2>1 DEF CloseCount, TypeOK
    <2>7. NoShutdownYet'
      BY <1>0, <1>1, <2>1 DEF NoShutdownYet
    <2> QED
      BY <2>2, <2>3, <2>5, <2>6, <2>7 DEF Inv
  <1> QED
    BY <1>3, <1>4

(* workqueue_add_job, and the end of the accept loop.                      *)
LEMMA MainKeeps ==
    ASSUME Inv, MainStep
    PROVE  Inv'
  <1> USE DEF wqvars, esvars, conns
  <1>0. TypeOK /\ WQTypeOK /\ OnePlace /\ HeldAlive /\ CloseCount /\ NoShutdownYet
    BY DEF Inv, TypeOK
  <1>1. CASE MainAddLock
    <2>1. WQTypeOK' /\ TypeOK'
      BY <1>0, <1>1 DEF MainAddLock, AddJobLock, WQTypeOK, TypeOK, MainState, Threads
    <2>2. NoShutdownYet'
      BY <1>0, <1>1 DEF MainAddLock, AddJobLock, NoShutdownYet
    <2> QED
      BY <1>1, <2>1, <2>2, StayFrame DEF MainAddLock, AddJobLock
  <1>2. CASE MainAddPush
    <2>1. /\ waiting_jobs' = <<accepted>> \o waiting_jobs
          /\ worker' \in Notified /\ mutex' = None
          /\ accepted' = None /\ main = "locked" /\ main' = "loop"
          /\ UNCHANGED <<workers, terminate, job, shutdown, cursor, undefined, fd, closes,
                         client, polling, loopexit, host>>
      BY <1>2 DEF MainAddPush, AddJobPush
    <2>2. /\ accepted \in Jobs /\ accepted \notin Queued
      BY <1>0, <2>1 DEF OnePlace, TypeOK
    <2>3. /\ waiting_jobs' \in Seq(Jobs) /\ Queued' = Queued \cup {accepted}
          /\ IsInjective(waiting_jobs')
      BY <1>0, <2>1, <2>2, PushFacts DEF WQTypeOK, Queued, OnePlace
    <2>4. /\ worker' \in [Workers -> WorkerState]
          /\ \A w \in Workers : worker'[w] = "run" <=> worker[w] = "run"
      BY <1>0, <2>1, NotifiedFacts
    <2>5. WQTypeOK' /\ TypeOK'
      BY <1>0, <2>1, <2>3, <2>4 DEF WQTypeOK, TypeOK, MainState
    <2>6. OnePlace'
      <3>1. None \notin Queued'
        BY <1>0, <2>2, <2>3, WorkQueueAssumption DEF Queued, Range, WQTypeOK
      <3> QED
        BY <1>0, <2>1, <2>2, <2>3, <2>4, <3>1, WorkQueueAssumption DEF OnePlace
    <2>7. \A c \in Jobs : Held(c)' <=> Held(c)
      BY <2>1, <2>2, <2>3, WorkQueueAssumption DEF Held
    <2>8. HeldAlive'
      BY <1>0, <2>1, <2>7 DEF HeldAlive
    <2>9. CloseCount' /\ NoShutdownYet'
      BY <1>0, <2>1 DEF CloseCount, NoShutdownYet
    <2> QED
      BY <2>5, <2>6, <2>8, <2>9 DEF Inv
  <1>3. CASE MainReturns
    <2>1. WQTypeOK' /\ TypeOK'
      BY <1>0, <1>3 DEF MainReturns, WQTypeOK, TypeOK, MainState
    <2>2. NoShutdownYet'
      BY <1>0, <1>3 DEF MainReturns, NoShutdownYet
    <2> QED
      BY <1>3, <2>1, <2>2, StayFrame DEF MainReturns
  <1> QED
    BY <1>1, <1>2, <1>3 DEF MainStep

(* server_job_function: the connection of a worker ends and is freed.      *)
LEMMA ServeKeeps ==
    ASSUME Inv, NEW w \in Workers, EchoFails(w) \/ ConnectionEnds(w) \/ JobReturns(w)
    PROVE  Inv'
  <1> USE DEF wqvars, esvars, conns
  <1>0. TypeOK /\ WQTypeOK /\ OnePlace /\ HeldAlive /\ CloseCount /\ NoShutdownYet
    BY DEF Inv, TypeOK
  <1> DEFINE c == job[w]
  <1>1. /\ c \in Jobs /\ client[c] = "live" /\ fd[c] # "none" /\ worker[w] = "run"
        /\ closes' = [closes EXCEPT ![c] = IF fd[c] = "open" THEN @ + 1 ELSE @]
        /\ fd' = [fd EXCEPT ![c] = "closed"]
        /\ UNCHANGED <<waiting_jobs, workers, mutex, terminate, shutdown, cursor, undefined,
                       main, accepted, loopexit, host>>
    <2>1. /\ worker[w] = "run"
          /\ closes' = [closes EXCEPT ![c] = IF fd[c] = "open" THEN @ + 1 ELSE @]
          /\ fd' = [fd EXCEPT ![c] = "closed"]
          /\ UNCHANGED <<waiting_jobs, workers, mutex, terminate, shutdown, cursor, undefined,
                         main, accepted, loopexit, host>>
      BY DEF EchoFails, ConnectionEnds, JobReturns, closeClient, closeAndFreeClient, Serving,
             WorkerJobReturns
    <2>2. c \in Jobs
      BY <1>0, <2>1 DEF OnePlace, WQTypeOK
    <2>3. client[c] = "live" /\ fd[c] # "none"
      BY <1>0, <2>2 DEF HeldAlive, Held, CloseCount
    <2> QED
      BY <2>1, <2>2, <2>3
  <1> HIDE DEF c
  <1>2. closes' = [closes EXCEPT ![c] = 1] /\ closes[c] \in {0, 1}
    <2>1. closes[c] \in {0, 1} /\ (IF fd[c] = "open" THEN closes[c] + 1 ELSE closes[c]) = 1
      BY <1>0, <1>1 DEF CloseCount, TypeOK
    <2> QED
      BY <1>1, <2>1
  <1>3. Queued' = Queued /\ NoShutdownYet'
    BY <1>0, <1>1 DEF Queued, NoShutdownYet
  <1>4. CASE EchoFails(w) \/ ConnectionEnds(w)
    <2>1. UNCHANGED <<worker, job, client>> /\ polling' \subseteq polling
      BY <1>4 DEF EchoFails, ConnectionEnds
    <2>2. WQTypeOK' /\ TypeOK'
      BY <1>0, <1>1, <1>2, <2>1 DEF WQTypeOK, TypeOK
    <2>3. OnePlace' /\ \A d : Held(d)' <=> Held(d)
      BY <1>0, <1>1, <1>3, <2>1 DEF OnePlace, Held
    <2>4. HeldAlive'
      BY <1>0, <1>1, <2>1, <2>3 DEF HeldAlive
    <2>5. CloseCount'
      BY <1>0, <1>1, <1>2, <2>1 DEF CloseCount, TypeOK
    <2> QED
      BY <1>3, <2>2, <2>3, <2>4, <2>5 DEF Inv
  <1>5. CASE JobReturns(w)
    <2>1. /\ client' = [client EXCEPT ![c] = "freed"] /\ polling' = polling
          /\ job' = [job EXCEPT ![w] = None] /\ worker' = [worker EXCEPT ![w] = "lock"]
      BY <1>5 DEF JobReturns, closeAndFreeClient, WorkerJobReturns, c
    <2>2. WQTypeOK' /\ TypeOK'
      BY <1>0, <1>1, <1>2, <2>1 DEF WQTypeOK, TypeOK, WorkerState
    <2>3. OnePlace'
      <3>1. None \notin Queued
        BY <1>0, WorkQueueAssumption DEF Queued, Range, WQTypeOK
      <3> QED
        BY <1>0, <1>1, <1>3, <2>1, <3>1 DEF OnePlace, WQTypeOK
    <2>4. \A d \in Jobs : Held(d)' <=> Held(d) /\ d # c
      <3>1. \A v \in Workers : job'[v] = IF v = w THEN None ELSE job[v]
        BY <1>0, <2>1 DEF WQTypeOK
      <3>2. /\ c # accepted /\ c \notin Queued
            /\ \A v \in Workers : v # w => job[v] # c
        BY <1>0, <1>1, WorkQueueAssumption DEF OnePlace, c
      <3> QED
        BY <1>1, <1>3, <3>1, <3>2, WorkQueueAssumption DEF Held, c
    <2>5. HeldAlive'
      BY <1>0, <1>1, <2>1, <2>4 DEF HeldAlive, TypeOK
    <2>6. CloseCount'
      BY <1>0, <1>1, <1>2, <2>1 DEF CloseCount, TypeOK
    <2> QED
      BY <1>3, <2>2, <2>3, <2>5, <2>6 DEF Inv
  <1> QED
    BY <1>4, <1>5

(* worker_function.                                                        *)
LEMMA WorkerKeeps ==
    ASSUME Inv, NEW w \in Workers, WorkerLoop(w) \/ Wakeup(w)
    PROVE  Inv'
  <1> USE DEF wqvars, esvars, conns
  <1>0. TypeOK /\ WQTypeOK /\ OnePlace /\ HeldAlive /\ CloseCount /\ NoShutdownYet
    BY DEF Inv, TypeOK
  <1>1. UNCHANGED esvars
    BY DEF WorkerLoop, Wakeup
  <1>2. CASE WorkerTake(w)
    <2>1. /\ worker[w] = "locked" /\ waiting_jobs # <<>>
          /\ job' = [job EXCEPT ![w] = Head(waiting_jobs)]
          /\ waiting_jobs' = Tail(waiting_jobs)
          /\ mutex' = None /\ worker' = [worker EXCEPT ![w] = "run"]
          /\ UNCHANGED <<workers, terminate, shutdown, cursor, undefined>>
      BY <1>2 DEF WorkerTake, WithoutFirst
    <2> DEFINE c == Head(waiting_jobs)
    <2>2. /\ c \in Jobs /\ waiting_jobs' \in Seq(Jobs) /\ IsInjective(waiting_jobs')
          /\ Queued = Queued' \cup {c} /\ c \notin Queued'
      BY <1>0, <2>1, TailFacts DEF WQTypeOK, Queued, OnePlace
    <2> HIDE DEF c
    <2>3. job' = [job EXCEPT ![w] = c]
      BY <2>1 DEF c
    <2>4. WQTypeOK' /\ TypeOK'
      BY <1>0, <1>1, <2>1, <2>2, <2>3, WorkQueueAssumption DEF WQTypeOK, TypeOK, WorkerState
    <2>5. OnePlace'
      <3>1. None \notin Queued
        BY <1>0, WorkQueueAssumption DEF Queued, Range, WQTypeOK
      <3>2. c # None /\ c # accepted /\ \A v \in Workers : job[v] # c
        BY <1>0, <2>2, <3>1 DEF OnePlace
      <3>3. \A v \in Workers : /\ job'[v] = IF v = w THEN c ELSE job[v]
                               /\ worker'[v] = IF v = w THEN "run" ELSE worker[v]
        BY <1>0, <2>1, <2>3 DEF WQTypeOK
      <3> QED
        BY <1>0, <1>1, <2>1, <2>2, <3>1, <3>2, <3>3 DEF OnePlace
    <2>6. \A d \in Jobs : Held(d)' <=> Held(d)
      <3>1. job[w] = None
        BY <1>0, <2>1 DEF OnePlace
      <3>2. \A v \in Workers : job'[v] = IF v = w THEN c ELSE job[v]
        BY <1>0, <2>3 DEF WQTypeOK
      <3> QED
        BY <1>1, <2>2, <3>1, <3>2, WorkQueueAssumption DEF Held
    <2>7. HeldAlive' /\ CloseCount' /\ NoShutdownYet'
      BY <1>0, <1>1, <2>1, <2>6 DEF HeldAlive, CloseCount, NoShutdownYet
    <2> QED
      BY <2>4, <2>5, <2>7 DEF Inv
  <1>3. CASE WorkerLock(w) \/ WorkerTerminate(w) \/ WorkerWait(w) \/ WorkerSpuriousWakeup(w)
    <2>1. /\ worker[w] # "run"
          /\ \E to \in {"locked", "gone", "wait", "lock"} : worker' = [worker EXCEPT ![w] = to]
          /\ mutex' \in {mutex, w, None}
          /\ UNCHANGED <<waiting_jobs, workers, terminate, job, shutdown, cursor, undefined>>
      BY <1>3 DEF WorkerLock, WorkerTerminate, WorkerWait, WorkerSpuriousWakeup
    <2>2. WQTypeOK' /\ TypeOK'
      BY <1>0, <1>1, <2>1 DEF WQTypeOK, TypeOK, WorkerState, Threads
    <2>3. \A v \in Workers : worker[v] = "run" <=> worker'[v] = "run"
      BY <1>0, <2>1 DEF WQTypeOK
    <2>4. NoShutdownYet'
      BY <1>0, <1>1, <2>1 DEF NoShutdownYet
    <2> QED
      BY <1>1, <2>1, <2>2, <2>3, <2>4, StayFrame
  <1> QED
    BY <1>2, <1>3 DEF WorkerLoop, Wakeup

(* The signal handler, from its arrival to the end of workqueue_shutdown.  *)
LEMMA HandlerKeeps ==
    ASSUME Inv, (\E th \in Threads : Signal(th)) \/ HandlerStep
    PROVE  Inv'
  <1> USE DEF wqvars, esvars, conns
  <1>0. TypeOK /\ WQTypeOK /\ OnePlace /\ HeldAlive /\ CloseCount /\ NoShutdownYet
    BY DEF Inv, TypeOK
  <1>1. ASSUME NEW th \in Threads, Signal(th) PROVE Inv'
    <2>1. WQTypeOK' /\ TypeOK' /\ NoShutdownYet'
      BY <1>0, <1>1 DEF Signal, ShutdownBegin, WQTypeOK, TypeOK, ShutdownState, NoShutdownYet
    <2> QED
      BY <1>1, <2>1, StayFrame DEF Signal, ShutdownBegin
  <1>2. ASSUME HandlerStep PROVE loopexit /\ loopexit' /\ NoShutdownYet'
    BY <1>0, <1>2 DEF HandlerStep, NoShutdownYet, TypeOK
  <1>3. CASE HandlerStep /\ (ShutdownMark \/ ShutdownAdvance \/ ShutdownLock(host))
                         /\ UNCHANGED host
    <2>1. UNCHANGED <<waiting_jobs, workers, worker, job>> /\ UNCHANGED esvars
      BY <1>3 DEF HandlerStep, ShutdownMark, ShutdownAdvance, ShutdownLock
    <2>2. terminate' \in [Workers -> BOOLEAN]
      BY <1>0, <1>3 DEF ShutdownMark, ShutdownAdvance, ShutdownLock, WQTypeOK
    <2>3. cursor' \in 0 .. numWorkers /\ undefined' \in BOOLEAN
      <3>1. \/ cursor' = cursor /\ undefined' \in {undefined, TRUE}
            \/ cursor # 0 /\ cursor' = cursor - 1 /\ undefined' = undefined
        BY <1>3 DEF ShutdownMark, ShutdownAdvance, ShutdownLock
      <3>2. cursor' \in 0 .. numWorkers
        <4>1. cursor \in 0 .. numWorkers
          BY <1>0 DEF WQTypeOK
        <4>2. cursor' = cursor \/ (cursor # 0 /\ cursor' = cursor - 1)
          BY <3>1
        <4> QED
          BY <4>1, <4>2, WorkQueueAssumption
      <3>3. undefined' \in BOOLEAN
        BY <1>0, <3>1 DEF WQTypeOK
      <3> QED
        BY <3>2, <3>3
    <2>4. /\ mutex' \in Threads \cup {None} /\ shutdown' \in ShutdownState
          /\ shutdown = "done" => shutdown' = "done"
      BY <1>0, <1>3 DEF ShutdownMark, ShutdownAdvance, ShutdownLock, WQTypeOK, TypeOK,
                        ShutdownState
    <2>5. WQTypeOK' /\ TypeOK'
      BY <1>0, <2>1, <2>2, <2>3, <2>4 DEF WQTypeOK, TypeOK
    <2> QED
      BY <1>2, <1>3, <2>1, <2>4, <2>5, StayFrame
  <1>4. CASE HandlerStep /\ ShutdownClear(host) /\ host' = None
    <2>1. /\ workers' = 0 /\ waiting_jobs' = <<>> /\ mutex' = None /\ shutdown' = "done"
          /\ worker' = [v \in Workers |-> IF worker[v] = "wait" THEN "lock" ELSE worker[v]]
          /\ UNCHANGED <<terminate, job, cursor, undefined, main, accepted, conns, loopexit>>
      BY <1>4 DEF HandlerStep, ShutdownClear
    <2>2. Queued' = {} /\ waiting_jobs' \in Seq(Jobs) /\ IsInjective(waiting_jobs')
      BY <2>1, EmptyFacts DEF Queued
    <2>3. worker' \in [Workers -> WorkerState] /\ workers' \in 0 .. numWorkers
      BY <1>0, <2>1, WorkQueueAssumption DEF WQTypeOK, WorkerState
    <2>4. WQTypeOK' /\ TypeOK'
      BY <1>0, <1>4, <2>1, <2>2, <2>3 DEF WQTypeOK, TypeOK, ShutdownState
    <2>5. OnePlace'
      BY <1>0, <2>1, <2>2 DEF OnePlace
    <2>6. HeldAlive' /\ CloseCount'
      BY <1>0, <2>1, <2>2 DEF HeldAlive, CloseCount, Held
    <2> QED
      BY <1>2, <1>4, <2>4, <2>5, <2>6 DEF Inv
  <1> QED
    BY <1>1, <1>3, <1>4 DEF HandlerStep

(* Every step keeps the invariant.                                         *)
LEMMA InvNext == Inv /\ [Next]_vars => Inv'
  <1> SUFFICES ASSUME Inv, [Next]_vars PROVE Inv'
    OBVIOUS
  <1>1. CASE UNCHANGED vars
    <2>1. TypeOK' /\ NoShutdownYet'
      BY <1>1 DEF Inv, vars, wqvars, esvars, TypeOK, WQTypeOK, NoShutdownYet
    <2> QED
      BY <1>1, <2>1, StayFrame DEF vars, wqvars, esvars
  <1> QED
    BY <1>1, AcceptKeeps, MainKeeps, ServeKeeps, WorkerKeeps, HandlerKeeps DEF Next, WorkerStep

(* The invariant holds in every state of every behaviour.                  *)
THEOREM Invariance == Spec => []Inv
  BY InvInit, InvNext, PTL DEF Spec

-----------------------------------------------------------------------------
(* What the places of a connection say about their number.                 *)
LEMMA HolderCount ==
    ASSUME Inv, NEW c \in Jobs
    PROVE  Holders(c) = IF Held(c) THEN 1 ELSE 0
  <1> DEFINE listed  == Cardinality({i \in DOMAIN waiting_jobs : waiting_jobs[i] = c})
             working == Cardinality({w \in Workers : job[w] = c})
             held    == IF accepted = c THEN 1 ELSE 0
  <1>0. TypeOK /\ WQTypeOK /\ OnePlace /\ c # None
    BY WorkQueueAssumption DEF Inv, TypeOK
  <1>1. listed = IF c \in Queued THEN 1 ELSE 0
    BY <1>0, PositionCount DEF WQTypeOK, OnePlace, Queued
  <1>2. working = IF \E w \in Workers : job[w] = c THEN 1 ELSE 0
    <2>1. \A v, w \in Workers : job[v] = c /\ job[w] = c => v = w
      BY <1>0 DEF OnePlace
    <2> QED
      BY <2>1, ArgumentCount
  <1>3. Holders(c) = listed + working + held
    BY DEF Holders
  <1> HIDE DEF listed, working
  <1>4. /\ ~ (accepted = c /\ c \in Queued)
        /\ ~ (c \in Queued /\ \E w \in Workers : job[w] = c)
        /\ ~ (accepted = c /\ \E w \in Workers : job[w] = c)
    BY <1>0 DEF OnePlace
  <1> QED
    BY <1>1, <1>2, <1>3, <1>4 DEF Held

(* Wherever the signal interrupts the server: no two threads share a       *)
(* connection, none in use is lost before the shutdown, none is reachable  *)
(* after its client_t was freed.                                           *)
THEOREM ConnectionsHaveOneHolder == Spec => []OneHolder
  <1>1. Inv => OneHolder
    <2> SUFFICES ASSUME Inv, NEW c \in Jobs
                 PROVE  IF client[c] = "live"
                          THEN Holders(c) = 1 \/ (Holders(c) = 0 /\ shutdown = "done")
                          ELSE Holders(c) = 0
      BY DEF OneHolder, Inv
    <2> QED
      BY HolderCount DEF Inv, HeldAlive
  <1> QED
    BY <1>1, Invariance, PTL

(* closeClient is reached on three paths, and close() is called once.      *)
THEOREM CloseCalledOnce == Spec => []ClosedOnce
  <1>1. Inv => ClosedOnce
    BY DEF Inv, CloseCount, ClosedOnce
  <1> QED
    BY <1>1, Invariance, PTL

-----------------------------------------------------------------------------
(* One signal per job.                                                     *)

AwakeWorkers == {w \in Workers : worker[w] \in {"lock", "locked"}}

(* A worker that falls asleep, goes to work or comes back changes the      *)
(* number of those awake by one.                                           *)
LEMMA AwakeCount ==
    /\ Cardinality(AwakeWorkers) \in Nat /\ Cardinality(AwakeWorkers') \in Nat
    /\ \A w \in Workers :
          /\ w \notin AwakeWorkers /\ AwakeWorkers' = AwakeWorkers \cup {w}
                => Cardinality(AwakeWorkers') = Cardinality(AwakeWorkers) + 1
          /\ w \in AwakeWorkers /\ AwakeWorkers' = AwakeWorkers \ {w}
                => Cardinality(AwakeWorkers') = Cardinality(AwakeWorkers) - 1
  <1>1. IsFiniteSet(Workers)
    BY WorkQueueAssumption, FS_Interval DEF Workers
  <1>2. IsFiniteSet(AwakeWorkers) /\ IsFiniteSet(AwakeWorkers')
    <2>1. AwakeWorkers \in SUBSET Workers /\ AwakeWorkers' \in SUBSET Workers
      BY DEF AwakeWorkers
    <2> QED
      BY <1>1, <2>1, FS_Subset
  <1>3. Cardinality(AwakeWorkers) \in Nat /\ Cardinality(AwakeWorkers') \in Nat
    BY <1>2, FS_CardinalityType
  <1> QED
    BY <1>2, <1>3, FS_AddElement, FS_RemoveElement

(* Every step keeps enough workers awake.                                  *)
LEMMA WorkConservingNext == Inv /\ WorkConserving /\ [Next]_vars => WorkConserving'
  <1> SUFFICES ASSUME Inv, WorkConserving, [Next]_vars, ~loopexit'
               PROVE  (\E w \in Workers : worker'[w] = "wait") =>
                         Cardinality(AwakeWorkers') >= Len(waiting_jobs')
    BY DEF WorkConserving, AwakeWorkers
  <1> USE DEF wqvars, esvars, conns
  <1> DEFINE sleeper == \E w \in Workers : worker[w] = "wait"
             awake   == Cardinality(AwakeWorkers)
             waiting == Len(waiting_jobs)
  <1>1. ~loopexit
    BY DEF Next, Accept, AcceptFails, MainStep, MainAddLock, MainAddPush, MainReturns, WorkerStep,
           WorkerLoop, ConnectionEnds, JobReturns, EchoFails, Wakeup, Signal, HandlerStep, vars
  <1>0. /\ WQTypeOK /\ (sleeper => awake >= waiting)
        /\ waiting_jobs \in Seq(Jobs)
        /\ host = None /\ \A w \in Workers : ~terminate[w]
    BY <1>1 DEF Inv, TypeOK, WQTypeOK, WorkConserving, AwakeWorkers, NoShutdownYet
  <1>2. awake \in Nat /\ awake' \in Nat /\ waiting \in Nat
    BY <1>0, AwakeCount
  <1>3. SUFFICES sleeper' => awake' >= waiting'
    OBVIOUS
  <1>4. ASSUME MainAddPush, sleeper' PROVE awake' >= waiting'
    <2>1. worker' \in Notified /\ waiting_jobs' = <<accepted>> \o waiting_jobs
      BY <1>4 DEF MainAddPush, AddJobPush
    <2>2. sleeper
      BY <1>0, <1>4, <2>1, NotifiedFacts
    <2>3. PICK w \in Workers : worker[w] = "wait" /\ worker' = [worker EXCEPT ![w] = "lock"]
      BY <1>0, <2>1, <2>2, NotifiedFacts
    <2>4. w \notin AwakeWorkers /\ AwakeWorkers' = AwakeWorkers \cup {w}
      BY <1>0, <2>3 DEF AwakeWorkers, WQTypeOK
    <2>5. awake' = awake + 1
      BY <2>4, AwakeCount
    <2>6. waiting' = waiting + 1
      <3>1. accepted \in Jobs
        BY <1>4 DEF Inv, OnePlace, MainAddPush, TypeOK
      <3> QED
        BY <1>0, <2>1, <3>1, PushFacts
    <2> QED
      BY <1>0, <1>2, <2>2, <2>5, <2>6
  <1>5. ASSUME NEW w \in Workers, WorkerTake(w), sleeper' PROVE awake' >= waiting'
    <2>1. /\ waiting_jobs # <<>> /\ waiting_jobs' = Tail(waiting_jobs)
          /\ worker[w] = "locked" /\ worker' = [worker EXCEPT ![w] = "run"]
      BY <1>5 DEF WorkerTake, WithoutFirst
    <2>2. sleeper /\ w \in AwakeWorkers /\ AwakeWorkers' = AwakeWorkers \ {w}
      BY <1>0, <1>5, <2>1 DEF AwakeWorkers, WQTypeOK
    <2>3. awake' = awake - 1
      BY <2>2, AwakeCount
    <2>4. waiting' = waiting - 1
      BY <1>0, <2>1, TailFacts
    <2> QED
      BY <1>0, <1>2, <2>2, <2>3, <2>4
  <1>6. ASSUME NEW w \in Workers, WorkerWait(w) PROVE awake' >= waiting'
    <2>1. waiting_jobs' = <<>>
      BY <1>6 DEF WorkerWait
    <2> QED
      BY <1>2, <2>1, EmptyFacts
  <1>7. ASSUME NEW w \in Workers, WorkerJobReturns(w) \/ WorkerSpuriousWakeup(w), sleeper'
        PROVE  awake' >= waiting'
    <2>1. /\ waiting_jobs' = waiting_jobs
          /\ worker[w] \in {"run", "wait"} /\ worker' = [worker EXCEPT ![w] = "lock"]
      BY <1>7 DEF WorkerJobReturns, WorkerSpuriousWakeup
    <2>2. sleeper /\ w \notin AwakeWorkers /\ AwakeWorkers' = AwakeWorkers \cup {w}
      BY <1>0, <1>7, <2>1 DEF AwakeWorkers, WQTypeOK
    <2>3. awake' = awake + 1
      BY <2>2, AwakeCount
    <2> QED
      BY <1>0, <1>2, <2>1, <2>2, <2>3
  <1>8. ASSUME NEW w \in Workers, WorkerLock(w), sleeper' PROVE awake' >= waiting'
    <2>1. /\ waiting_jobs' = waiting_jobs
          /\ worker[w] = "lock" /\ worker' = [worker EXCEPT ![w] = "locked"]
      BY <1>8 DEF WorkerLock
    <2>2. sleeper /\ AwakeWorkers' = AwakeWorkers
      BY <1>0, <1>8, <2>1 DEF AwakeWorkers, WQTypeOK
    <2> QED
      BY <1>0, <2>1, <2>2
  <1>9. CASE UNCHANGED <<worker, waiting_jobs>>
    <2>1. sleeper' = sleeper /\ AwakeWorkers' = AwakeWorkers
      BY <1>9 DEF AwakeWorkers
    <2> QED
      BY <1>0, <1>9, <2>1
  <1>10. ASSUME NEW c \in Jobs, Accept(c) \/ AcceptFails(c)
         PROVE  UNCHANGED <<worker, waiting_jobs>>
    BY <1>10 DEF Accept, AcceptFails
  <1>11. ASSUME MainAddLock \/ MainReturns \/ UNCHANGED vars
         PROVE  UNCHANGED <<worker, waiting_jobs>>
    BY <1>11 DEF MainAddLock, AddJobLock, MainReturns, vars
  <1>12. ASSUME NEW w \in Workers, ConnectionEnds(w) \/ EchoFails(w)
         PROVE  UNCHANGED <<worker, waiting_jobs>>
    BY <1>12 DEF ConnectionEnds, EchoFails
  <1>13. ASSUME NEW w \in Workers, WorkerTerminate(w) PROVE FALSE
    BY <1>0, <1>13 DEF WorkerTerminate
  <1>14. ASSUME (\E th \in Threads : Signal(th)) \/ HandlerStep PROVE FALSE
    BY <1>0, <1>14 DEF Signal, HandlerStep
  <1> QED
    BY <1>4, <1>5, <1>6, <1>7, <1>8, <1>9, <1>10, <1>11, <1>12, <1>13, <1>14
       DEF Next, MainStep, WorkerStep, WorkerLoop, JobReturns, Wakeup

(* Until the signal, a job is never left waiting behind a sleeping worker: *)
(* at least as many workers are awake as jobs are in the list.             *)
THEOREM SignalPerJob == Spec => []WorkConserving
  <1>1. Init => WorkConserving
    BY DEF Init, WQInit, WorkConserving
  <1> QED
    BY <1>1, Invariance, WorkConservingNext, PTL DEF Spec
=============================================================================
