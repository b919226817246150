----------------------------- MODULE EchoServer -----------------------------
(***************************************************************************)
(* mult_thread_server/echoserver_threaded.c: the main thread accepts       *)
(* connections and adds one job per connection to a WorkQueue, a worker    *)
(* runs the connection's own event loop until the connection ends, and     *)
(* SIGINT or SIGTERM shuts everything down from a signal handler that runs *)
(* on top of whatever thread the kernel picks.                             *)
(*                                                                         *)
(* A job is the connection it serves; a connection is a descriptor and the *)
(* client_t made for it, which come back for another client once freed, so *)
(* that clients may arrive for ever.                                       *)
(***************************************************************************)
EXTENDS WorkQueue

VARIABLES
    main,       \* control state of the main thread in on_accept
    accepted,   \* the connection on_accept is working on
    fd,         \* each client's fd: not there yet, open, or -1
    closes,     \* history: how often close() was called on it since accept
    client,     \* each client_t: not allocated, allocated, freed
    polling,    \* connections whose event loop still has events
    loopexit,   \* event_base_loopexit has been called
    host        \* the thread the signal handler runs on, or None

esvars == <<main, accepted, fd, closes, client, polling, loopexit, host>>
conns  == <<fd, closes, client, polling>>
vars   == <<wqvars, esvars>>

MainState == {"loop", "lock", "locked", "done"}

TypeOK ==
    /\ WQTypeOK
    /\ main \in MainState
    /\ accepted \in Jobs \cup {None}
    /\ fd \in [Jobs -> {"none", "open", "closed"}]
    /\ closes \in [Jobs -> Nat]
    /\ client \in [Jobs -> {"none", "live", "freed"}]
    /\ polling \subseteq Jobs
    /\ loopexit \in BOOLEAN
    /\ host \in Threads \cup {None}

(* runServer, up to the call of event_base_dispatch(evbase_accept).        *)
Init ==
    /\ WQInit
    /\ main = "loop"
    /\ accepted = None
    /\ fd = [c \in Jobs |-> "none"]
    /\ closes = [c \in Jobs |-> 0]
    /\ client = [c \in Jobs |-> "none"]
    /\ polling = {}
    /\ loopexit = FALSE
    /\ host = None

(* The process is alive and no signal handler sits on top of th.           *)
Runs(th) == main # "done" /\ ~undefined /\ host # th

-----------------------------------------------------------------------------
(* Mutant: closeClient does not reset client->fd.                          *)
closeClientNoReset(c) ==
    /\ closes' = [closes EXCEPT ![c] = IF fd[c] = "open" THEN @ + 1 ELSE @]
    /\ UNCHANGED fd

closeClient(c) ==
    /\ closes' = [closes EXCEPT ![c] = IF fd[c] = "open" THEN @ + 1 ELSE @]
    /\ fd' = [fd EXCEPT ![c] = "closed"]

closeAndFreeClient(c) ==
    /\ closeClient(c)
    /\ client' = [client EXCEPT ![c] = "freed"]

(* on_accept: an allocation or fcntl fails after the accept and the        *)
(* connection is closed again.                                             *)
AcceptFails(c) ==
    /\ Runs(Main)
    /\ main = "loop"
    /\ client[c] # "live"
    /\ fd' = [fd EXCEPT ![c] = "closed"]
    /\ closes' = [closes EXCEPT ![c] = 1]
    /\ client' = [client EXCEPT ![c] = "freed"]
    /\ UNCHANGED <<wqvars, main, accepted, polling, loopexit, host>>

Accept(c) ==
    /\ Runs(Main)
    /\ main = "loop"
    /\ client[c] # "live"
    /\ fd' = [fd EXCEPT ![c] = "open"]
    /\ closes' = [closes EXCEPT ![c] = 0]
    /\ client' = [client EXCEPT ![c] = "live"]
    /\ polling' = polling \cup {c}
    /\ accepted' = c
    /\ main' = "lock"
    /\ UNCHANGED <<wqvars, loopexit, host>>

MainAddLock ==
    /\ Runs(Main)
    /\ main = "lock"
    /\ AddJobLock(Main)
    /\ main' = "locked"
    /\ UNCHANGED <<accepted, conns, loopexit, host>>

MainAddPush ==
    /\ Runs(Main)
    /\ main = "locked"
    /\ AddJobPush(Main, accepted)
    /\ accepted' = None
    /\ main' = "loop"
    /\ UNCHANGED <<conns, loopexit, host>>

(* The accept loop ends, runServer returns and with main the process.      *)
MainReturns ==
    /\ Runs(Main)
    /\ main = "loop"
    /\ loopexit
    /\ main' = "done"
    /\ UNCHANGED <<wqvars, accepted, conns, loopexit, host>>

-----------------------------------------------------------------------------
(* server_job_function on worker w                                         *)

Serving(w) == Runs(w) /\ worker[w] = "run"

(* buffered_on_read: queueing the echo fails and the socket is closed.     *)
EchoFails(w) ==
    /\ Serving(w)
    /\ job[w] \in polling
    /\ fd[job[w]] = "open"
    /\ closeClient(job[w])
    /\ UNCHANGED <<wqvars, main, accepted, client, polling, loopexit, host>>

(* buffered_on_error: end of file, socket error, or ten silent seconds.    *)
ConnectionEnds(w) ==
    /\ Serving(w)
    /\ job[w] \in polling
    /\ closeClient(job[w])
    /\ polling' = polling \ {job[w]}
    /\ UNCHANGED <<wqvars, main, accepted, client, loopexit, host>>

(* event_base_dispatch has no event left.                                  *)
JobReturns(w) ==
    /\ Serving(w)
    /\ job[w] \notin polling
    /\ closeAndFreeClient(job[w])
    /\ WorkerJobReturns(w)
    /\ UNCHANGED <<main, accepted, polling, loopexit, host>>

WorkerLoop(w) ==
    /\ Runs(w)
    /\ WorkerLock(w) \/ WorkerTerminate(w) \/ WorkerWait(w) \/ WorkerTake(w)
    /\ UNCHANGED esvars

Wakeup(w) ==
    /\ Runs(w)
    /\ WorkerSpuriousWakeup(w)
    /\ UNCHANGED esvars

-----------------------------------------------------------------------------
(* sighandler, killServer.  One signal is delivered, to any live thread.   *)

Signal(th) ==
    /\ Runs(th)
    /\ host = None
    /\ th # Main => worker[th] # "gone"
    /\ ~loopexit
    /\ loopexit' = TRUE
    /\ host' = th
    /\ ShutdownBegin
    /\ UNCHANGED <<main, accepted, conns>>

HandlerStep ==
    /\ main # "done"
    /\ ~undefined
    /\ host # None
    /\ \/ (ShutdownMark \/ ShutdownAdvance \/ ShutdownLock(host)) /\ UNCHANGED host
       \/ ShutdownClear(host) /\ host' = None
    /\ UNCHANGED <<main, accepted, conns, loopexit>>

-----------------------------------------------------------------------------
WorkerStep(w) == WorkerLoop(w) \/ JobReturns(w)

MainStep == MainAddLock \/ MainAddPush \/ MainReturns

Next ==
    \/ \E c \in Jobs : Accept(c) \/ AcceptFails(c)
    \/ MainStep
    \/ \E w \in Workers : WorkerStep(w) \/ ConnectionEnds(w) \/ EchoFails(w) \/ Wakeup(w)
    \/ \E th \in Threads : Signal(th)
    \/ HandlerStep

(* Threads are scheduled and jobs_mutex does not starve a thread for ever. *)
(* Nothing is assumed of clients: one that keeps sending is never timed    *)
(* out, and its connection need not end.                                   *)
Fairness ==
    /\ WF_vars(MainStep)
    /\ SF_vars(MainAddLock)
    /\ \A w \in Workers : WF_vars(WorkerStep(w)) /\ SF_vars(WorkerLoop(w))
    /\ SF_vars(HandlerStep)

Spec == Init /\ [][Next]_vars

FairSpec == Spec /\ Fairness

-----------------------------------------------------------------------------
(* How many places refer to the connection: on_accept, the list, a worker. *)
Holders(c) ==
    Cardinality({i \in DOMAIN waiting_jobs : waiting_jobs[i] = c})
      + Cardinality({w \in Workers : job[w] = c})
      + (IF accepted = c THEN 1 ELSE 0)

(* A client_t in use is reachable from exactly one place, so no two        *)
(* threads share a connection, until the shutdown forgets the waiting      *)
(* ones; a freed client_t is reachable from nowhere.  The state is well    *)
(* typed.                                                                  *)
OneHolder ==
    /\ TypeOK
    /\ \A c \in Jobs :
           IF client[c] = "live"
             THEN Holders(c) = 1 \/ (Holders(c) = 0 /\ shutdown = "done")
             ELSE Holders(c) = 0

(* close() is called once per connection, although the error callback, a   *)
(* failed echo and closeAndFreeClient all call closeClient.                *)
ClosedOnce ==
    \A c \in Jobs :
        /\ closes[c] <= 1
        /\ client[c] = "freed" => closes[c] = 1

(* One pthread_cond_signal per job is enough: while a worker sleeps, at    *)
(* least as many others are awake as jobs are waiting.                     *)
WorkConserving ==
    ~loopexit /\ (\E w \in Workers : worker[w] = "wait") =>
        Cardinality({w \in Workers : worker[w] \in {"lock", "locked"}}) >= Len(waiting_jobs)

(* From some moment on no connection is accepted; every connection in      *)
(* service comes to an end, again and again on each worker.                *)
ArrivalsStop == <>[](accepted = None)
ServicesEnd  == \A w \in Workers : []<>(worker[w] = "run" => job[w] \notin polling)

(* Every connection is served to its end and freed, until a signal comes,  *)
(* provided that the connections in service end and that new ones stop     *)
(* coming for long enough.  Both are needed: LL_ADD puts a job in front of *)
(* those that wait, so clients that keep coming can leave an old one       *)
(* waiting for ever, and a client that keeps sending keeps its worker.     *)
ConnectionServed ==
    ArrivalsStop /\ ServicesEnd => \A c \in Jobs : fd[c] = "open" ~> client[c] = "freed" \/ loopexit

(* echoserver_threaded.c:350 says that killServer kills the server,        *)
(* "causing runServer() to return".                                        *)
ServerStops == loopexit ~> main = "done" \/ undefined
=============================================================================
