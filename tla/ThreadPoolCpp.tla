---------------------------- MODULE ThreadPoolCpp ----------------------------
(***************************************************************************)
(* threadpool/ThreadPool(C++): a list of requests under a mutex, and a     *)
(* semaphore that counts them.  A call of append pushes inside the mutex   *)
(* and posts after it; a worker waits for the semaphore first and takes    *)
(* the mutex after it.  A section inside the mutex is one step.            *)
(*                                                                         *)
(* The threads are detached, so neither a constructor that throws nor the  *)
(* destructor waits for them: what they do with the pool after that is     *)
(* undefined (poolGone).                                                   *)
(***************************************************************************)
EXTENDS Integers, Sequences, FiniteSets

CONSTANTS
    CppWorkers,     \* thread_number
    Appenders,      \* threads that call append
    Requests,       \* requests, each appended at most once
    NullRequest,    \* the request that is NULL
    MaxRequests,    \* m_max_requests
    MaxWaitFails    \* bound on the waits that fail

NoRequest == "none"

ASSUME ThreadPoolCppAssumption ==
    /\ CppWorkers \in Nat \ {0} /\ MaxRequests \in Nat \ {0} /\ MaxWaitFails \in Nat
    /\ NullRequest \in Requests /\ NoRequest \notin Requests

VARIABLES
    m_workqueue,
    m_queuestat,    \* value of the semaphore
    m_stop,
    pool,           \* building, ready, stopping (in the destructor), gone
    threadAt,       \* threads created, and where each is in run
    took,           \* request a thread has
    appending,      \* request an appender has pushed and not yet posted
    fate,           \* history: new, refused, accepted, done of each request
    waitFails,      \* history: calls of wait that failed
    emptyPops       \* history: times a thread found the queue empty

cppVars == <<m_workqueue, m_queuestat, m_stop, pool, threadAt, took, appending, fate,
             waitFails, emptyPops>>

CppInit ==
    /\ m_workqueue = << >> /\ m_queuestat = 0 /\ m_stop = FALSE
    /\ pool = "building"
    /\ threadAt = << >>
    /\ took = [w \in 1 .. CppWorkers |-> NoRequest]
    /\ appending = [a \in Appenders |-> NoRequest]
    /\ fate = [r \in Requests |-> "new"]
    /\ waitFails = 0 /\ emptyPops = 0

poolGone == pool = "gone"

-----------------------------------------------------------------------------
(* The constructor creates and detaches the threads one by one.  When it   *)
(* cannot create or cannot detach one it throws: the members are destroyed *)
(* under the threads there are.                                            *)
CreateThread ==
    /\ pool = "building"
    /\ \/ /\ threadAt' = Append(threadAt, "loop")
          /\ pool' = IF Len(threadAt') = CppWorkers THEN "ready" ELSE "building"
       \/ /\ threadAt' \in {threadAt, Append(threadAt, "loop")}
          /\ pool' = "gone"
    /\ UNCHANGED <<m_workqueue, m_queuestat, m_stop, took, appending, fate, waitFails, emptyPops>>

(* The destructor sets m_stop, and then the members go.  The caller's      *)
(* part: no call of append is under way or follows.                        *)
DestructorStops ==
    /\ pool = "ready" /\ \A a \in Appenders : appending[a] = NoRequest
    /\ m_stop' = TRUE /\ pool' = "stopping"
    /\ UNCHANGED <<m_workqueue, m_queuestat, threadAt, took, appending, fate, waitFails, emptyPops>>

DestructorEnds ==
    /\ pool = "stopping"
    /\ pool' = "gone"
    /\ UNCHANGED <<m_workqueue, m_queuestat, m_stop, threadAt, took, appending, fate, waitFails,
                   emptyPops>>

\* Mutant: the limit is not looked at.
QueueFull_never == FALSE

QueueFull == Len(m_workqueue) > MaxRequests

(* append, inside the mutex.                                               *)
append_push(a, r) ==
    /\ pool = "ready" /\ appending[a] = NoRequest /\ fate[r] = "new"
    /\ IF QueueFull
       THEN fate' = [fate EXCEPT ![r] = "refused"] /\ UNCHANGED <<m_workqueue, appending>>
       ELSE /\ m_workqueue' = Append(m_workqueue, r)
            /\ fate' = [fate EXCEPT ![r] = "accepted"]
            /\ appending' = [appending EXCEPT ![a] = r]
    /\ UNCHANGED <<m_queuestat, m_stop, pool, threadAt, took, waitFails, emptyPops>>

(* m_queuestat.post().                                                     *)
append_post(a) ==
    /\ appending[a] # NoRequest
    /\ m_queuestat' = m_queuestat + 1
    /\ appending' = [appending EXCEPT ![a] = NoRequest]
    /\ UNCHANGED <<m_workqueue, m_stop, pool, threadAt, took, fate, waitFails, emptyPops>>

-----------------------------------------------------------------------------
(* run, as long as there is a pool.                                        *)

At(w, where) == ~ poolGone /\ w \in DOMAIN threadAt /\ threadAt[w] = where

RunTop(w) ==
    /\ At(w, "loop")
    /\ threadAt' = [threadAt EXCEPT ![w] = IF m_stop THEN "ended" ELSE "wait"]
    /\ UNCHANGED <<m_workqueue, m_queuestat, m_stop, pool, took, appending, fate, waitFails,
                   emptyPops>>

(* m_queuestat.wait(): sem_wait takes a post, or fails (a signal           *)
(* interrupts it), which nobody looks at.                                  *)
RunWait(w) ==
    /\ At(w, "wait")
    /\ \/ /\ m_queuestat > 0
          /\ m_queuestat' = m_queuestat - 1
          /\ UNCHANGED waitFails
       \/ /\ waitFails < MaxWaitFails
          /\ waitFails' = waitFails + 1
          /\ UNCHANGED m_queuestat
    /\ threadAt' = [threadAt EXCEPT ![w] = "lock"]
    /\ UNCHANGED <<m_workqueue, m_stop, pool, took, appending, fate, emptyPops>>

(* An empty queue or a request that is NULL: back to the loop.             *)
RunPop(w) ==
    /\ At(w, "lock")
    /\ IF m_workqueue = << >>
       THEN emptyPops' = emptyPops + 1 /\ UNCHANGED <<m_workqueue, took>>
       ELSE /\ m_workqueue' = Tail(m_workqueue) /\ UNCHANGED emptyPops
            /\ took' = [took EXCEPT ![w] = IF Head(m_workqueue) = NullRequest THEN NoRequest
                                           ELSE Head(m_workqueue)]
    /\ threadAt' = [threadAt EXCEPT ![w] = IF took'[w] = NoRequest THEN "loop" ELSE "process"]
    /\ fate' = IF m_workqueue # << >> /\ Head(m_workqueue) = NullRequest
               THEN [fate EXCEPT ![NullRequest] = "done"] ELSE fate
    /\ UNCHANGED <<m_queuestat, m_stop, pool, appending, waitFails>>

RunProcess(w) ==
    /\ At(w, "process")
    /\ fate' = [fate EXCEPT ![took[w]] = "done"]
    /\ took' = [took EXCEPT ![w] = NoRequest]
    /\ threadAt' = [threadAt EXCEPT ![w] = "loop"]
    /\ UNCHANGED <<m_workqueue, m_queuestat, m_stop, pool, appending, waitFails, emptyPops>>

CppNext ==
    \/ CreateThread \/ DestructorStops \/ DestructorEnds
    \/ \E a \in Appenders : append_post(a) \/ \E r \in Requests : append_push(a, r)
    \/ \E w \in 1 .. CppWorkers : RunTop(w) \/ RunWait(w) \/ RunPop(w) \/ RunProcess(w)

CppSpec == CppInit /\ [][CppNext]_cppVars

-----------------------------------------------------------------------------
(* CppPoolSound: while there is a pool, the posts made and not yet used,   *)
(* the threads past the semaphore and the posts still to come are as many  *)
(* as the requests in the queue, and one more for every wait that failed   *)
(* and has not yet sent a thread to an empty queue.  So no accepted        *)
(* request is left without one of them, although pushing and posting, and  *)
(* waiting and popping, are two steps each, and a thread finds the queue   *)
(* empty no more often than waits have failed.  Every accepted request is  *)
(* in exactly one place, and the queue holds at most one more than         *)
(* m_max_requests.                                                         *)
CppPoolSound ==
    ~ poolGone =>
        LET threads(where) == Cardinality({w \in DOMAIN threadAt : threadAt[w] = where})
            unposted == Cardinality({a \in Appenders : appending[a] # NoRequest})
        IN  /\ m_queuestat + threads("lock") + unposted = Len(m_workqueue) + waitFails - emptyPops
            /\ emptyPops <= waitFails
            /\ Len(m_workqueue) <= MaxRequests + 1
            /\ \A r \in Requests :
                   (IF fate[r] = "accepted" THEN 1 ELSE 0)
                     = Cardinality({i \in DOMAIN m_workqueue : m_workqueue[i] = r})
                       + Cardinality({w \in 1 .. CppWorkers : took[w] = r})
=============================================================================
