---------------------------- MODULE ServiceProofs ----------------------------
(***************************************************************************)
(* Theorems about the smaller services, for every value of their           *)
(* constants: the C++ thread pool, the CGI connection, the master of the   *)
(* multi-process server and the process pool.                              *)
(***************************************************************************)
EXTENDS ThreadPoolCpp, CgiConn, MasterServer, ProcessPool, ListFacts,
        SequenceTheorems, TLAPS

-----------------------------------------------------------------------------
(* ThreadPoolCpp.                                                          *)

Locked   == {w \in DOMAIN threadAt : threadAt[w] = "lock"}
Unposted == {a \in Appenders : appending[a] # NoRequest}

CppTypes ==
    /\ m_workqueue \in Seq(Requests)
    /\ m_queuestat \in Nat /\ waitFails \in Nat /\ emptyPops \in Nat
    /\ threadAt \in Seq({"loop", "wait", "lock", "process", "ended"})
    /\ Len(threadAt) <= CppWorkers
    /\ took \in [1 .. CppWorkers -> Requests \cup {NoRequest}]
    /\ appending \in [Appenders -> Requests \cup {NoRequest}]
    /\ fate \in [Requests -> {"new", "refused", "accepted", "done"}]

(* The posts made and not yet used, the threads past the semaphore and the *)
(* posts to come are as many as the requests in the queue and the failed   *)
(* waits that have not yet sent a thread to an empty queue.                *)
CppCount ==
    /\ IsFiniteSet(Unposted)
    /\ m_queuestat + Cardinality(Locked) + Cardinality(Unposted)
         = Len(m_workqueue) + waitFails - emptyPops
    /\ emptyPops <= waitFails
    /\ Len(m_workqueue) <= MaxRequests + 1

(* A request is accepted while it is in the queue, once, or a thread that  *)
(* processes it has it, and never both.                                    *)
CppPlaces ==
    /\ IsInjective(m_workqueue)
    /\ \A w \in 1 .. CppWorkers :
           took[w] # NoRequest <=> w \in DOMAIN threadAt /\ threadAt[w] = "process"
    /\ \A v, w \in 1 .. CppWorkers : took[v] = took[w] /\ took[v] # NoRequest => v = w
    /\ \A w \in 1 .. CppWorkers : took[w] \notin Range(m_workqueue)
    /\ \A r \in Requests : fate[r] = "accepted"
           <=> r \in Range(m_workqueue) \/ \E w \in 1 .. CppWorkers : took[w] = r

CppInv == CppTypes /\ CppCount /\ CppPlaces

(* The constructor is done when it has created the last thread.            *)
Building == pool = "building" => Len(threadAt) < CppWorkers

(* The equation of CppCount after a wait that took a post, one that        *)
(* failed, and a push.                                                     *)
LEMMA PostCount ==
    ASSUME NEW q \in Nat, NEW l \in Nat, NEW u \in Nat, NEW n \in Nat, NEW f \in Nat, NEW e \in Nat,
           q + l + u = n + f - e
    PROVE  /\ (q - 1) + (l + 1) + u = n + f - e
           /\ q + (l + 1) + u = n + (f + 1) - e
           /\ q + l + (u + 1) = (n + 1) + f - e
  OBVIOUS

LEMMA CppInitially == CppInit => CppInv
<1> SUFFICES ASSUME CppInit PROVE CppInv
  OBVIOUS
<1>1. CppTypes
  BY ThreadPoolCppAssumption DEF CppInit, CppTypes
<1>2. Locked = {} /\ Unposted = {}
  BY DEF CppInit, Locked, Unposted
<1>3. CppCount
  BY <1>2, FS_EmptySet, ThreadPoolCppAssumption DEF CppCount, CppInit
<1>4. CppPlaces
  BY EmptyFacts, ThreadPoolCppAssumption DEF CppPlaces, CppInit
<1> QED
  BY <1>1, <1>3, <1>4 DEF CppInv

(* The threads that hold a post are finitely many, and one more or less    *)
(* when one of them moves.                                                 *)
LEMMA LockedFacts ==
    ASSUME CppTypes
    PROVE  IsFiniteSet(Locked) /\ Cardinality(Locked) \in Nat
<1>1. Locked \subseteq 1 .. Len(threadAt) /\ Len(threadAt) \in Nat
  BY DEF Locked, CppTypes
<1>2. IsFiniteSet(1 .. Len(threadAt))
  BY <1>1, FS_Interval
<1> QED
  BY <1>1, <1>2, FS_Subset, FS_CardinalityType

(* Where a thread goes, for the threads that hold a post.                  *)
LEMMA LockedMoves ==
    ASSUME CppTypes, NEW w \in DOMAIN threadAt, NEW where,
           threadAt' = [threadAt EXCEPT ![w] = where]
    PROVE  /\ DOMAIN threadAt' = DOMAIN threadAt
           /\ where = "lock" => Locked' = Locked \cup {w}
           /\ where # "lock" => Locked' = Locked \ {w}
  BY DEF Locked, CppTypes

(* Steps that touch neither the queue nor what a thread has taken, and     *)
(* move no thread into or out of process.                                  *)
LEMMA PlacesKept ==
    ASSUME CppPlaces, UNCHANGED <<m_workqueue, took, fate>>,
           \A w \in 1 .. CppWorkers : (w \in DOMAIN threadAt' /\ threadAt'[w] = "process")
                                       <=> (w \in DOMAIN threadAt /\ threadAt[w] = "process")
    PROVE  CppPlaces'
  BY DEF CppPlaces

LEMMA CppPush ==
    ASSUME CppInv, NEW a \in Appenders, NEW r \in Requests, append_push(a, r)
    PROVE  CppInv'
<1>0. CppTypes /\ CppCount /\ CppPlaces
  BY DEF CppInv
<1>1. appending[a] = NoRequest /\ fate[r] = "new"
      /\ UNCHANGED <<m_queuestat, threadAt, took, waitFails, emptyPops>>
  BY DEF append_push
<1>2. Locked' = Locked
  BY <1>1 DEF Locked
<1>3. CASE QueueFull
  <2>1. fate' = [fate EXCEPT ![r] = "refused"] /\ UNCHANGED <<m_workqueue, appending>>
    BY <1>3 DEF append_push
  <2>2. Unposted' = Unposted
    BY <2>1 DEF Unposted
  <2>3. CppTypes'
    BY <1>0, <1>1, <2>1 DEF CppTypes
  <2>4. CppCount'
    BY <1>0, <1>1, <1>2, <2>1, <2>2 DEF CppCount
  <2>5. CppPlaces'
    <3>1. \A q \in Requests : fate'[q] = "accepted" <=> fate[q] = "accepted"
      BY <1>0, <1>1, <2>1 DEF CppTypes
    <3> QED
      BY <1>0, <1>1, <2>1, <3>1 DEF CppPlaces
  <2> QED
    BY <2>3, <2>4, <2>5 DEF CppInv
<1>4. CASE ~QueueFull
  <2>1. /\ m_workqueue' = Append(m_workqueue, r) /\ fate' = [fate EXCEPT ![r] = "accepted"]
        /\ appending' = [appending EXCEPT ![a] = r]
    BY <1>4 DEF append_push
  <2>2. /\ m_workqueue \in Seq(Requests) /\ Len(m_workqueue) \in Nat /\ m_workqueue' \in Seq(Requests)
        /\ Len(m_workqueue') = Len(m_workqueue) + 1
        /\ Range(m_workqueue') = Range(m_workqueue) \cup {r}
        /\ IsInjective(m_workqueue) /\ r \notin Range(m_workqueue) => IsInjective(m_workqueue')
    BY <1>0, <2>1, AppendFacts DEF CppTypes
  <2>3. Unposted' = Unposted \cup {a} /\ a \notin Unposted
    BY <1>0, <1>1, <2>1, ThreadPoolCppAssumption DEF Unposted, CppTypes
  <2>4. CppTypes'
    BY <1>0, <1>1, <2>1, <2>2 DEF CppTypes
  <2>5. CppCount'
    <3>1. IsFiniteSet(Unposted') /\ Cardinality(Unposted') = Cardinality(Unposted) + 1
      BY <1>0, <2>3, FS_AddElement DEF CppCount
    <3>2. /\ Cardinality(Locked) \in Nat /\ Cardinality(Unposted) \in Nat
          /\ m_queuestat \in Nat /\ waitFails \in Nat /\ emptyPops \in Nat
      BY <1>0, LockedFacts, FS_CardinalityType DEF CppCount, CppTypes
    <3>3. Len(m_workqueue) <= MaxRequests
      BY <1>4, <2>2, ThreadPoolCppAssumption DEF QueueFull
    <3>4. m_queuestat' + Cardinality(Locked') + Cardinality(Unposted')
            = Len(m_workqueue') + waitFails' - emptyPops'
      <4>1. m_queuestat + Cardinality(Locked) + Cardinality(Unposted)
              = Len(m_workqueue) + waitFails - emptyPops
        BY <1>0 DEF CppCount
      <4>2. /\ m_queuestat' = m_queuestat /\ waitFails' = waitFails /\ emptyPops' = emptyPops
            /\ Cardinality(Locked') = Cardinality(Locked)
        BY <1>1, <1>2
      <4>3. Len(m_workqueue) \in Nat /\ Len(m_workqueue') = Len(m_workqueue) + 1
        BY <2>2
      <4> QED
        BY ONLY <4>1, <4>2, <4>3, <3>1, <3>2, PostCount
    <3>5. Len(m_workqueue') <= MaxRequests + 1
      BY <2>2, <3>3, ThreadPoolCppAssumption
    <3> QED
      BY <1>0, <1>1, <3>1, <3>4, <3>5 DEF CppCount
  <2>6. CppPlaces'
    <3>1. r \notin Range(m_workqueue) /\ \A w \in 1 .. CppWorkers : took[w] # r
      BY <1>0, <1>1 DEF CppPlaces
    <3>2. fate'[r] = "accepted" /\ \A q \in Requests \ {r} : fate'[q] = fate[q]
      BY <1>0, <2>1 DEF CppTypes
    <3>3. \A q \in Requests : fate'[q] = "accepted"
             <=> q \in Range(m_workqueue') \/ \E w \in 1 .. CppWorkers : took'[w] = q
      BY <1>0, <1>1, <2>2, <3>1, <3>2 DEF CppPlaces
    <3>4. IsInjective(m_workqueue')
      BY <1>0, <2>2, <3>1 DEF CppPlaces
    <3>5. \A w \in 1 .. CppWorkers : took'[w] \notin Range(m_workqueue')
      BY <1>0, <1>1, <2>2, <3>1 DEF CppPlaces
    <3> QED
      BY <1>0, <1>1, <3>3, <3>4, <3>5 DEF CppPlaces
  <2> QED
    BY <2>4, <2>5, <2>6 DEF CppInv
<1> QED
  BY <1>3, <1>4

LEMMA CppPost ==
    ASSUME CppInv, NEW a \in Appenders, append_post(a)
    PROVE  CppInv'
<1>0. CppTypes /\ CppCount /\ CppPlaces
  BY DEF CppInv
<1>1. /\ appending[a] # NoRequest /\ m_queuestat' = m_queuestat + 1
      /\ appending' = [appending EXCEPT ![a] = NoRequest]
      /\ UNCHANGED <<m_workqueue, threadAt, took, fate, waitFails, emptyPops>>
  BY DEF append_post
<1>2. Locked' = Locked
  BY <1>1 DEF Locked
<1>3. Unposted' = Unposted \ {a} /\ a \in Unposted
  BY <1>0, <1>1 DEF Unposted, CppTypes
<1>4. CppTypes'
  BY <1>0, <1>1 DEF CppTypes
<1>5. CppCount'
  <2>1. IsFiniteSet(Unposted') /\ Cardinality(Unposted') = Cardinality(Unposted) - 1
    BY <1>0, <1>3, FS_RemoveElement DEF CppCount
  <2>2. /\ Cardinality(Locked) \in Nat /\ Cardinality(Unposted) \in Nat
        /\ m_queuestat \in Nat /\ waitFails \in Nat /\ emptyPops \in Nat /\ Len(m_workqueue) \in Nat
    BY <1>0, LockedFacts, FS_CardinalityType DEF CppCount, CppTypes
  <2> QED
    BY <1>0, <1>1, <1>2, <2>1, <2>2 DEF CppCount
<1>6. CppPlaces'
  BY <1>0, <1>1, PlacesKept
<1> QED
  BY <1>4, <1>5, <1>6 DEF CppInv

LEMMA CppTop ==
    ASSUME CppInv, NEW w \in 1 .. CppWorkers, RunTop(w) \/ RunWait(w)
    PROVE  CppInv'
<1>0. CppTypes /\ CppCount /\ CppPlaces
  BY DEF CppInv
<1>1. PICK where \in {"ended", "wait", "lock"} :
         /\ threadAt' = [threadAt EXCEPT ![w] = where] /\ w \in DOMAIN threadAt
         /\ threadAt[w] \in {"loop", "wait"}
         /\ UNCHANGED <<m_workqueue, took, appending, fate, emptyPops>>
         /\ \/ /\ where = "lock" /\ m_queuestat > 0
               /\ m_queuestat' = m_queuestat - 1 /\ UNCHANGED waitFails
            \/ where = "lock" /\ waitFails' = waitFails + 1 /\ UNCHANGED m_queuestat
            \/ where # "lock" /\ UNCHANGED <<m_queuestat, waitFails>>
  BY DEF RunTop, RunWait, At
<1>2. w \notin Locked /\ Unposted' = Unposted
  BY <1>1 DEF Locked, Unposted
<1>3. /\ DOMAIN threadAt' = DOMAIN threadAt
      /\ where = "lock" => Locked' = Locked \cup {w}
      /\ where # "lock" => Locked' = Locked
  <2>1. /\ DOMAIN threadAt' = DOMAIN threadAt
        /\ where = "lock" => Locked' = Locked \cup {w}
        /\ where # "lock" => Locked' = Locked \ {w}
    BY <1>0, <1>1, LockedMoves
  <2> QED
    BY <1>2, <2>1
<1>4. CppTypes'
  <2>1. threadAt' \in Seq({"loop", "wait", "lock", "process", "ended"}) /\ Len(threadAt') = Len(threadAt)
    BY <1>0, <1>1 DEF CppTypes
  <2>2. m_queuestat' \in Nat /\ waitFails' \in Nat
    BY <1>0, <1>1 DEF CppTypes
  <2> QED
    BY <1>0, <1>1, <2>1, <2>2 DEF CppTypes
<1>5. CppCount'
  <2>1. /\ Cardinality(Locked) \in Nat /\ IsFiniteSet(Locked) /\ Cardinality(Unposted) \in Nat
        /\ m_queuestat \in Nat /\ waitFails \in Nat /\ emptyPops \in Nat /\ Len(m_workqueue) \in Nat
    BY <1>0, LockedFacts, FS_CardinalityType DEF CppCount, CppTypes
  <2>2. Cardinality(Locked') = IF where = "lock" THEN Cardinality(Locked) + 1 ELSE Cardinality(Locked)
    BY <1>2, <1>3, <2>1, FS_AddElement
  <2>3. /\ m_queuestat' + Cardinality(Locked') + Cardinality(Unposted)
             = Len(m_workqueue) + waitFails' - emptyPops
        /\ emptyPops <= waitFails'
    <3>1. /\ m_queuestat + Cardinality(Locked) + Cardinality(Unposted)
               = Len(m_workqueue) + waitFails - emptyPops
          /\ emptyPops <= waitFails
      BY <1>0 DEF CppCount
    <3>2. \/ /\ Cardinality(Locked') = Cardinality(Locked) + 1
             /\ m_queuestat' = m_queuestat - 1 /\ waitFails' = waitFails
          \/ /\ Cardinality(Locked') = Cardinality(Locked) + 1
             /\ m_queuestat' = m_queuestat /\ waitFails' = waitFails + 1
          \/ /\ Cardinality(Locked') = Cardinality(Locked)
             /\ m_queuestat' = m_queuestat /\ waitFails' = waitFails
      BY <1>1, <2>2
    <3>3. /\ (m_queuestat - 1) + (Cardinality(Locked) + 1) + Cardinality(Unposted)
               = Len(m_workqueue) + waitFails - emptyPops
          /\ m_queuestat + (Cardinality(Locked) + 1) + Cardinality(Unposted)
               = Len(m_workqueue) + (waitFails + 1) - emptyPops
      BY ONLY <2>1, <3>1, PostCount
    <3>4. emptyPops <= waitFails + 1
      BY ONLY <2>1, <3>1
    <3> QED
      BY ONLY <3>1, <3>2, <3>3, <3>4, Zenon
  <2> QED
    BY <1>0, <1>1, <1>2, <2>3 DEF CppCount
<1>6. CppPlaces'
  <2>1. \A v \in 1 .. CppWorkers : (v \in DOMAIN threadAt' /\ threadAt'[v] = "process")
                                    <=> (v \in DOMAIN threadAt /\ threadAt[v] = "process")
    BY <1>0, <1>1, <1>3 DEF CppTypes
  <2> QED
    BY <1>0, <1>1, <2>1, PlacesKept
<1> QED
  BY <1>4, <1>5, <1>6 DEF CppInv

(* A thread that finds the queue empty makes up for a failed wait: the     *)
(* count says that there was one.                                          *)
LEMMA CppPopEmpty ==
    ASSUME CppInv, NEW w \in 1 .. CppWorkers, RunPop(w), m_workqueue = <<>>
    PROVE  CppInv'
<1>0. CppTypes /\ CppCount /\ CppPlaces
  BY DEF CppInv
<1>1. /\ w \in DOMAIN threadAt /\ threadAt[w] = "lock" /\ emptyPops' = emptyPops + 1
      /\ UNCHANGED <<m_queuestat, appending, waitFails, m_workqueue, took>>
      /\ threadAt' = [threadAt EXCEPT ![w] = IF took'[w] = NoRequest THEN "loop" ELSE "process"]
  BY DEF RunPop, At
<1>2. fate' = fate
  BY DEF RunPop
<1>3. took[w] = NoRequest
  BY <1>0, <1>1 DEF CppPlaces
<1>4. threadAt' = [threadAt EXCEPT ![w] = "loop"]
  BY <1>1, <1>3
<1>5. DOMAIN threadAt' = DOMAIN threadAt /\ Locked' = Locked \ {w}
  <2>1. "loop" # "lock"
    OBVIOUS
  <2> QED
    BY ONLY <1>0, <1>1, <1>4, <2>1, LockedMoves
<1>6. w \in Locked /\ Unposted' = Unposted
  BY <1>1 DEF Locked, Unposted
<1>7. CppTypes'
  <2>1. threadAt' \in Seq({"loop", "wait", "lock", "process", "ended"}) /\ Len(threadAt') = Len(threadAt)
    BY <1>0, <1>1, <1>4 DEF CppTypes
  <2>2. emptyPops' \in Nat
    BY <1>0, <1>1 DEF CppTypes
  <2> QED
    BY <1>0, <1>1, <1>2, <2>1, <2>2 DEF CppTypes
<1>8. CppCount'
  <2>1. /\ Cardinality(Locked) \in Nat /\ IsFiniteSet(Locked) /\ Cardinality(Unposted) \in Nat
        /\ m_queuestat \in Nat /\ waitFails \in Nat /\ emptyPops \in Nat /\ Len(m_workqueue) = 0
    BY <1>0, LockedFacts, FS_CardinalityType, EmptyFacts DEF CppCount, CppTypes
  <2>2. Cardinality(Locked \ {w}) = Cardinality(Locked) - 1 /\ Cardinality(Locked \ {w}) \in Nat
    BY <1>6, <2>1, FS_RemoveElement, FS_CardinalityType
  <2>3. /\ m_queuestat + Cardinality(Locked \ {w}) + Cardinality(Unposted)
             = Len(m_workqueue) + waitFails - (emptyPops + 1)
        /\ emptyPops + 1 <= waitFails
    <3>1. m_queuestat + Cardinality(Locked) + Cardinality(Unposted)
            = Len(m_workqueue) + waitFails - emptyPops
      BY <1>0 DEF CppCount
    <3> QED
      BY ONLY <2>1, <2>2, <3>1
  <2> QED
    BY <1>0, <1>1, <1>5, <1>6, <2>3 DEF CppCount
<1>9. CppPlaces'
  <2>1. \A v \in 1 .. CppWorkers : (v \in DOMAIN threadAt' /\ threadAt'[v] = "process")
                                    <=> (v \in DOMAIN threadAt /\ threadAt[v] = "process")
    BY <1>0, <1>1, <1>4, <1>5 DEF CppTypes
  <2> QED
    BY <1>0, <1>1, <1>2, <2>1, PlacesKept
<1> QED
  BY <1>7, <1>8, <1>9 DEF CppInv

LEMMA CppPop ==
    ASSUME CppInv, NEW w \in 1 .. CppWorkers, RunPop(w), m_workqueue # <<>>
    PROVE  CppInv'
<1>0. CppTypes /\ CppCount /\ CppPlaces
  BY DEF CppInv
<1>1. w \in DOMAIN threadAt /\ threadAt[w] = "lock"
      /\ UNCHANGED <<m_queuestat, appending, waitFails, emptyPops>>
  BY DEF RunPop, At
<1>2. w \in Locked /\ Unposted' = Unposted
  BY <1>1 DEF Locked, Unposted
<1>3. /\ Cardinality(Locked) \in Nat /\ IsFiniteSet(Locked)
      /\ Cardinality(Unposted) \in Nat /\ m_queuestat \in Nat /\ Len(m_workqueue) \in Nat
      /\ waitFails \in Nat /\ emptyPops \in Nat
  BY <1>0, LockedFacts, FS_CardinalityType DEF CppCount, CppTypes
<1>4. IsFiniteSet(Locked \ {w}) /\ Cardinality(Locked \ {w}) = Cardinality(Locked) - 1
      /\ Cardinality(Locked \ {w}) \in Nat
  BY <1>2, <1>3, FS_RemoveElement, FS_CardinalityType
<1>5. m_workqueue # <<>>
  OBVIOUS
<1>6. PICK q : q = Head(m_workqueue)
  OBVIOUS
<1>7. /\ q \in Requests /\ m_workqueue' = Tail(m_workqueue) /\ m_workqueue' \in Seq(Requests)
      /\ Len(m_workqueue') = Len(m_workqueue) - 1
      /\ Range(m_workqueue) = Range(m_workqueue') \cup {q}
      /\ IsInjective(m_workqueue') /\ q \notin Range(m_workqueue')
  <2>1. m_workqueue' = Tail(m_workqueue)
    BY <1>5 DEF RunPop
  <2>2. m_workqueue \in Seq(Requests) /\ IsInjective(m_workqueue)
    BY <1>0 DEF CppTypes, CppPlaces
  <2> QED
    BY <1>5, <1>6, <2>1, <2>2, TailFacts
<1>8. PICK got : got = IF q = NullRequest THEN NoRequest ELSE q
  OBVIOUS
<1>9. /\ took' = [took EXCEPT ![w] = got] /\ took'[w] = got
      /\ \A v \in (1 .. CppWorkers) \ {w} : took'[v] = took[v]
  BY <1>0, <1>5, <1>6, <1>8 DEF RunPop, CppTypes
<1>10. PICK where : where = IF got = NoRequest THEN "loop" ELSE "process"
  OBVIOUS
<1>11. threadAt' = [threadAt EXCEPT ![w] = where]
  BY <1>9, <1>10 DEF RunPop
<1>12. DOMAIN threadAt' = DOMAIN threadAt /\ Locked' = Locked \ {w}
  <2>1. where # "lock"
    BY <1>10
  <2> QED
    BY <1>0, <1>1, <1>11, <2>1, LockedMoves
<1>13. fate' = IF q = NullRequest THEN [fate EXCEPT ![NullRequest] = "done"] ELSE fate
  BY <1>5, <1>6 DEF RunPop
<1>14. CppTypes'
  <2>1. threadAt' \in Seq({"loop", "wait", "lock", "process", "ended"}) /\ Len(threadAt') = Len(threadAt)
    BY <1>0, <1>1, <1>10, <1>11 DEF CppTypes
  <2>2. took' \in [1 .. CppWorkers -> Requests \cup {NoRequest}]
    BY <1>0, <1>7, <1>8, <1>9 DEF CppTypes
  <2>3. fate' \in [Requests -> {"new", "refused", "accepted", "done"}]
    BY <1>0, <1>13 DEF CppTypes
  <2> QED
    BY <1>0, <1>1, <1>7, <2>1, <2>2, <2>3 DEF CppTypes
<1>15. CppCount'
  <2>1. m_queuestat' + Cardinality(Locked') + Cardinality(Unposted')
          = Len(m_workqueue') + waitFails' - emptyPops'
    <3>1. m_queuestat + Cardinality(Locked) + Cardinality(Unposted)
            = Len(m_workqueue) + waitFails - emptyPops
      BY <1>0 DEF CppCount
    <3>2. /\ m_queuestat' = m_queuestat /\ waitFails' = waitFails /\ emptyPops' = emptyPops
          /\ Cardinality(Locked') = Cardinality(Locked) - 1
          /\ Cardinality(Unposted') = Cardinality(Unposted)
          /\ Len(m_workqueue') = Len(m_workqueue) - 1
      BY <1>1, <1>2, <1>4, <1>7, <1>12
    <3> QED
      BY ONLY <1>3, <3>1, <3>2
  <2>2. Len(m_workqueue') <= MaxRequests + 1
    BY <1>0, <1>3, <1>7, ThreadPoolCppAssumption DEF CppCount
  <2> QED
    BY <1>0, <1>1, <1>2, <2>1, <2>2 DEF CppCount
<1>16. CppPlaces'
  <2>1. took[w] = NoRequest /\ NoRequest \notin Requests
    BY <1>0, <1>1, ThreadPoolCppAssumption DEF CppPlaces
  <2>2. \A v \in 1 .. CppWorkers : took[v] # q
    BY <1>0, <1>7 DEF CppPlaces
  <2>3. threadAt'[w] = where /\ \A v \in DOMAIN threadAt \ {w} : threadAt'[v] = threadAt[v]
    BY <1>0, <1>1, <1>11 DEF CppTypes
  <2>4. \A v \in 1 .. CppWorkers :
           took'[v] # NoRequest <=> v \in DOMAIN threadAt' /\ threadAt'[v] = "process"
    <3> SUFFICES ASSUME NEW v \in 1 .. CppWorkers
                 PROVE  took'[v] # NoRequest <=> v \in DOMAIN threadAt' /\ threadAt'[v] = "process"
      OBVIOUS
    <3>1. CASE v = w
      BY <1>1, <1>9, <1>10, <1>12, <2>3, <3>1
    <3>2. CASE v # w
      BY <1>0, <1>9, <1>12, <2>3, <3>2 DEF CppPlaces
    <3> QED
      BY <3>1, <3>2
  <2>5. \A u, v \in 1 .. CppWorkers : took'[u] = took'[v] /\ took'[u] # NoRequest => u = v
    BY <1>0, <1>8, <1>9, <2>2 DEF CppPlaces
  <2>6. \A v \in 1 .. CppWorkers : took'[v] \notin Range(m_workqueue')
    <3>1. NoRequest \notin Range(m_workqueue')
      BY <1>7, <2>1 DEF Range
    <3> QED
      BY <1>0, <1>7, <1>8, <1>9, <3>1 DEF CppPlaces
  <2>7. ASSUME NEW r \in Requests
        PROVE  fate'[r] = "accepted"
                 <=> r \in Range(m_workqueue') \/ \E v \in 1 .. CppWorkers : took'[v] = r
    <3>1. CASE r = q
      <4>1. CASE q = NullRequest
        <5>1. fate'[r] = "done"
          BY <1>0, <1>13, <3>1, <4>1 DEF CppTypes
        <5>2. \A v \in 1 .. CppWorkers : took'[v] # r
          BY <1>8, <1>9, <2>1, <2>2, <3>1, <4>1
        <5> QED
          BY <1>7, <3>1, <5>1, <5>2
      <4>2. CASE q # NullRequest
        <5>1. fate'[r] = "accepted"
          BY <1>0, <1>7, <1>13, <3>1, <4>2 DEF CppPlaces
        <5>2. took'[w] = r
          BY <1>8, <1>9, <3>1, <4>2
        <5> QED
          BY <5>1, <5>2
      <4> QED
        BY <4>1, <4>2
    <3>2. CASE r # q
      <4>1. fate'[r] = fate[r]
        BY <1>0, <1>13, <3>2 DEF CppTypes
      <4>2. r \in Range(m_workqueue') <=> r \in Range(m_workqueue)
        BY <1>7, <3>2
      <4>3. \A v \in 1 .. CppWorkers : took'[v] = r <=> took[v] = r
        BY <1>8, <1>9, <2>1, <3>2
      <4> QED
        BY <1>0, <4>1, <4>2, <4>3 DEF CppPlaces
    <3> QED
      BY <3>1, <3>2
  <2> QED
    BY <1>7, <2>4, <2>5, <2>6, <2>7 DEF CppPlaces
<1> QED
  BY <1>14, <1>15, <1>16 DEF CppInv

LEMMA CppProcess ==
    ASSUME CppInv, NEW w \in 1 .. CppWorkers, RunProcess(w)
    PROVE  CppInv'
<1>0. CppTypes /\ CppCount /\ CppPlaces
  BY DEF CppInv
<1>1. /\ w \in DOMAIN threadAt /\ threadAt[w] = "process"
      /\ UNCHANGED <<m_workqueue, m_queuestat, appending, waitFails, emptyPops>>
  BY DEF RunProcess, At
<1>2. PICK q : q = took[w]
  OBVIOUS
<1>3. q \in Requests /\ q # NoRequest /\ q \notin Range(m_workqueue)
  BY <1>0, <1>1, <1>2 DEF CppTypes, CppPlaces
<1>4. /\ fate' = [fate EXCEPT ![q] = "done"] /\ took' = [took EXCEPT ![w] = NoRequest]
      /\ threadAt' = [threadAt EXCEPT ![w] = "loop"]
  BY <1>2 DEF RunProcess
<1>5. DOMAIN threadAt' = DOMAIN threadAt /\ Locked' = Locked \ {w}
  <2>1. "loop" # "lock"
    OBVIOUS
  <2> QED
    BY ONLY <1>0, <1>1, <1>4, <2>1, LockedMoves
<1>6. Locked' = Locked /\ Unposted' = Unposted
  BY <1>1, <1>5 DEF Locked, Unposted
<1>7. CppTypes'
  <2>1. threadAt' \in Seq({"loop", "wait", "lock", "process", "ended"}) /\ Len(threadAt') = Len(threadAt)
    BY <1>0, <1>1, <1>4 DEF CppTypes
  <2> QED
    BY <1>0, <1>1, <1>4, <2>1 DEF CppTypes
<1>8. CppCount'
  BY <1>0, <1>1, <1>6 DEF CppCount
<1>9. CppPlaces'
  <2>1. took'[w] = NoRequest /\ \A v \in (1 .. CppWorkers) \ {w} : took'[v] = took[v]
    BY <1>0, <1>4 DEF CppTypes
  <2>2. threadAt'[w] = "loop" /\ \A v \in DOMAIN threadAt \ {w} : threadAt'[v] = threadAt[v]
    BY <1>0, <1>1, <1>4 DEF CppTypes
  <2>3. fate'[q] = "done" /\ \A r \in Requests \ {q} : fate'[r] = fate[r]
    BY <1>0, <1>3, <1>4 DEF CppTypes
  <2>4. NoRequest \notin Requests /\ NoRequest \notin Range(m_workqueue)
    BY <1>0, ThreadPoolCppAssumption DEF CppTypes, Range
  <2>5. \A v \in 1 .. CppWorkers :
           took'[v] # NoRequest <=> v \in DOMAIN threadAt' /\ threadAt'[v] = "process"
    <3> SUFFICES ASSUME NEW v \in 1 .. CppWorkers
                 PROVE  took'[v] # NoRequest <=> v \in DOMAIN threadAt' /\ threadAt'[v] = "process"
      OBVIOUS
    <3>1. CASE v = w
      BY <2>1, <2>2, <3>1
    <3>2. CASE v # w
      BY <1>0, <1>5, <2>1, <2>2, <3>2 DEF CppPlaces
    <3> QED
      BY <3>1, <3>2
  <2>6. \A u, v \in 1 .. CppWorkers : took'[u] = took'[v] /\ took'[u] # NoRequest => u = v
    BY <1>0, <2>1 DEF CppPlaces
  <2>7. \A v \in 1 .. CppWorkers : took'[v] \notin Range(m_workqueue')
    BY <1>0, <1>1, <2>1, <2>4 DEF CppPlaces
  <2>8. ASSUME NEW r \in Requests
        PROVE  fate'[r] = "accepted"
                 <=> r \in Range(m_workqueue') \/ \E v \in 1 .. CppWorkers : took'[v] = r
    <3>1. CASE r = q
      <4>1. \A v \in 1 .. CppWorkers : took'[v] # r
        BY <1>0, <1>2, <1>3, <2>1, <3>1 DEF CppPlaces
      <4> QED
        BY <1>1, <1>3, <2>3, <3>1, <4>1
    <3>2. CASE r # q
      <4>1. \A v \in 1 .. CppWorkers : took'[v] = r <=> took[v] = r
        BY <1>2, <2>1, <2>4, <3>2
      <4> QED
        BY <1>0, <1>1, <2>3, <3>2, <4>1 DEF CppPlaces
    <3> QED
      BY <3>1, <3>2
  <2> QED
    BY <1>0, <1>1, <2>5, <2>6, <2>7, <2>8 DEF CppPlaces
<1> QED
  BY <1>7, <1>8, <1>9 DEF CppInv

LEMMA CppCreate ==
    ASSUME CppInv, Building,
           CreateThread \/ DestructorStops \/ DestructorEnds \/ UNCHANGED cppVars
    PROVE  CppInv'
<1>0. CppTypes /\ CppCount /\ CppPlaces
  BY DEF CppInv
<1>1. UNCHANGED <<m_workqueue, m_queuestat, took, appending, fate, waitFails, emptyPops>>
  BY DEF CreateThread, DestructorStops, DestructorEnds, cppVars
<1>2. Unposted' = Unposted
  BY <1>1 DEF Unposted
<1>3. CASE threadAt' = threadAt
  <2>1. Locked' = Locked
    BY <1>3 DEF Locked
  <2>2. CppTypes' /\ CppCount'
    BY <1>0, <1>1, <1>2, <1>3, <2>1 DEF CppTypes, CppCount
  <2>3. CppPlaces'
    BY <1>0, <1>1, <1>3, PlacesKept
  <2> QED
    BY <2>2, <2>3 DEF CppInv
<1>4. CASE threadAt' = Append(threadAt, "loop") /\ Len(threadAt) < CppWorkers
  <2>1. /\ threadAt' \in Seq({"loop", "wait", "lock", "process", "ended"})
        /\ Len(threadAt') = Len(threadAt) + 1 /\ Len(threadAt) \in Nat
        /\ DOMAIN threadAt = 1 .. Len(threadAt) /\ DOMAIN threadAt' = 1 .. (Len(threadAt) + 1)
        /\ \A v \in DOMAIN threadAt : threadAt'[v] = threadAt[v]
        /\ threadAt'[Len(threadAt) + 1] = "loop"
    BY <1>0, <1>4 DEF CppTypes
  <2>2. \A v \in DOMAIN threadAt' : v \in DOMAIN threadAt \/ threadAt'[v] = "loop"
    BY <2>1
  <2>3. DOMAIN threadAt \subseteq DOMAIN threadAt'
    BY <2>1
  <2>4. Locked' = Locked
    BY <2>1, <2>2, <2>3 DEF Locked
  <2>5. CppTypes'
    BY <1>0, <1>1, <1>4, <2>1, ThreadPoolCppAssumption DEF CppTypes
  <2>6. CppCount'
    BY <1>0, <1>1, <1>2, <2>4 DEF CppCount
  <2>7. CppPlaces'
    BY <1>0, <1>1, <2>1, <2>2, <2>3, PlacesKept
  <2> QED
    BY <2>5, <2>6, <2>7 DEF CppInv
<1> QED
  BY <1>3, <1>4 DEF CreateThread, DestructorStops, DestructorEnds, cppVars, Building

LEMMA BuildingKept ==
    ASSUME CppTypes, Building, [CppNext]_cppVars
    PROVE  Building'
<1>1. threadAt \in Seq({"loop", "wait", "lock", "process", "ended"}) /\ Len(threadAt) \in Nat
  BY DEF CppTypes
<1>2. CASE CreateThread
  <2>1. CASE threadAt' = Append(threadAt, "loop")
    <3>1. Len(threadAt') = Len(threadAt) + 1
      BY <1>1, <2>1
    <3>2. Len(threadAt) < CppWorkers /\ (pool' = "building" => Len(threadAt') # CppWorkers)
      BY <1>2, <2>1 DEF CreateThread, Building
    <3> QED
      BY <1>1, <3>1, <3>2, ThreadPoolCppAssumption DEF Building
  <2>2. CASE pool' = "gone"
    BY <2>2 DEF Building
  <2> QED
    BY <1>2, <2>1, <2>2 DEF CreateThread
<1>3. CASE DestructorStops \/ DestructorEnds
  BY <1>3 DEF DestructorStops, DestructorEnds, Building
<1>4. CASE \E a \in Appenders : append_post(a) \/ \E r \in Requests : append_push(a, r)
  BY <1>4 DEF append_post, append_push, Building
<1>5. ASSUME NEW w \in 1 .. CppWorkers, RunTop(w) \/ RunWait(w) \/ RunPop(w) \/ RunProcess(w)
      PROVE  Building'
  <2>1. PICK where : threadAt' = [threadAt EXCEPT ![w] = where]
    BY <1>5 DEF RunTop, RunWait, RunPop, RunProcess
  <2>2. Len(threadAt') = Len(threadAt)
    BY <1>1, <2>1
  <2>3. pool' = pool
    BY <1>5 DEF RunTop, RunWait, RunPop, RunProcess
  <2> QED
    BY <2>2, <2>3 DEF Building
<1>6. CASE UNCHANGED cppVars
  BY <1>6 DEF cppVars, Building
<1> QED
  BY <1>2, <1>3, <1>4, <1>5, <1>6 DEF CppNext

LEMMA CppImplies == CppInv => CppPoolSound
<1> SUFFICES ASSUME CppInv PROVE CppPoolSound
  OBVIOUS
<1>1. ASSUME NEW r \in Requests
      PROVE  (IF fate[r] = "accepted" THEN 1 ELSE 0)
               = Cardinality({i \in DOMAIN m_workqueue : m_workqueue[i] = r})
                 + Cardinality({w \in 1 .. CppWorkers : took[w] = r})
  <2>1. Cardinality({i \in DOMAIN m_workqueue : m_workqueue[i] = r})
          = IF r \in Range(m_workqueue) THEN 1 ELSE 0
    BY PositionCount DEF CppInv, CppTypes, CppPlaces
  <2>2. \A v, w \in 1 .. CppWorkers : took[v] = r /\ took[w] = r => v = w
    BY ThreadPoolCppAssumption DEF CppInv, CppPlaces
  <2>3. Cardinality({w \in 1 .. CppWorkers : took[w] = r})
          = IF \E w \in 1 .. CppWorkers : took[w] = r THEN 1 ELSE 0
    BY <2>2, ArgumentCount
  <2>4. /\ fate[r] = "accepted" <=> r \in Range(m_workqueue) \/ \E w \in 1 .. CppWorkers : took[w] = r
        /\ ~ (r \in Range(m_workqueue) /\ \E w \in 1 .. CppWorkers : took[w] = r)
    BY DEF CppInv, CppPlaces
  <2> QED
    BY <2>1, <2>3, <2>4
<1>2. /\ m_queuestat + Cardinality(Locked) + Cardinality(Unposted)
           = Len(m_workqueue) + waitFails - emptyPops
      /\ emptyPops <= waitFails
      /\ Len(m_workqueue) <= MaxRequests + 1
  BY DEF CppInv, CppCount
<1> QED
  BY <1>1, <1>2 DEF CppPoolSound, Locked, Unposted

(* In the C++ pool every request that append accepted is in one place, no  *)
(* accepted request waits without a post made or to come or a thread past  *)
(* the semaphore, threads find the queue empty no more often than waits    *)
(* have failed, and the queue holds at most one more than m_max_requests,  *)
(* for any number of threads, callers, requests and failing waits.         *)
THEOREM CppRequestsCounted == CppSpec => []CppPoolSound
<1>1. CppInit => CppInv /\ Building
  BY CppInitially, ThreadPoolCppAssumption DEF CppInit, Building
<1>2. CppInv /\ Building /\ [CppNext]_cppVars => (CppInv /\ Building)'
  <2> SUFFICES ASSUME CppInv, Building, [CppNext]_cppVars PROVE CppInv' /\ Building'
    OBVIOUS
  <2>1. Building'
    BY BuildingKept DEF CppInv
  <2>2. CppInv'
    BY CppPush, CppPost, CppTop, CppPop, CppPopEmpty, CppProcess, CppCreate DEF CppNext
  <2> QED
    BY <2>1, <2>2
<1> QED
  BY <1>1, <1>2, CppImplies, PTL DEF CppSpec

-----------------------------------------------------------------------------
(* CgiConn.                                                                *)

Byte == {"r", "n", "x"}

(* The positions of s at which a line ends.                                *)
Ends(s) == {i \in 1 .. Len(s) - 1 : s[i] = "r" /\ s[i + 1] = "n"}

First(E, i) == i \in E /\ \A j \in E : i <= j

CgiTypes ==
    /\ kernel \in Seq(Byte) /\ m_buf \in Seq(Byte) /\ Len(m_buf) <= BUFFER_SIZE - 1
    /\ conn \in {"idle", "reading", "closed", "error"}

(* No byte is lost or repeated between the client and the buffer, no line  *)
(* in it goes unseen, and why a connection was closed.                     *)
CgiInv ==
    /\ CgiTypes
    /\ sent = m_buf \o kernel
    /\ conn \in {"idle", "reading"} => Ends(m_buf) = {} /\ program = NoProgram
    /\ program # NoProgram =>
           \E i \in Ends(m_buf) : First(Ends(m_buf), i) /\ program = SubSeq(m_buf, 1, i - 1)
    /\ conn = "closed" => \/ peerClosed /\ Ends(m_buf \o kernel) = {}
                          \/ Ends(m_buf) # {}
                          \/ Len(m_buf) = BUFFER_SIZE - 1

(* The lines of a prefix are those of the whole that end in it.            *)
LEMMA EndsOfPrefix ==
    ASSUME NEW s \in Seq(Byte), NEW t \in Seq(Byte)
    PROVE  /\ s \o t \in Seq(Byte) /\ Len(s \o t) = Len(s) + Len(t)
           /\ \A i \in 1 .. Len(s) : (s \o t)[i] = s[i]
           /\ \A i \in Ends(s \o t) : i \in Ends(s) <=> i < Len(s)
           /\ Ends(s) \subseteq Ends(s \o t)
           /\ Ends(s) \subseteq Nat /\ Ends(s \o t) \subseteq Nat
<1> DEFINE u == s \o t
<1>1. /\ u \in Seq(Byte) /\ Len(u) = Len(s) + Len(t) /\ Len(s) \in Nat /\ Len(t) \in Nat
      /\ \A i \in 1 .. Len(s) : u[i] = s[i]
  OBVIOUS
<1> HIDE DEF u
<1>2. ASSUME NEW i \in Ends(u) PROVE i \in Ends(s) <=> i < Len(s)
  <2>1. i \in 1 .. Len(u) - 1 /\ u[i] = "r" /\ u[i + 1] = "n"
    BY DEF Ends
  <2>2. i \in Ends(s) => i < Len(s)
    BY <1>1 DEF Ends
  <2>3. ASSUME i < Len(s) PROVE i \in Ends(s)
    <3>1. i \in 1 .. Len(s) - 1 /\ i \in 1 .. Len(s) /\ i + 1 \in 1 .. Len(s)
      BY <1>1, <2>1, <2>3
    <3> QED
      BY <1>1, <2>1, <3>1 DEF Ends
  <2> QED
    BY <2>2, <2>3
<1>3. ASSUME NEW i \in Ends(s) PROVE i \in Ends(u)
  <2>1. i \in 1 .. Len(s) - 1 /\ s[i] = "r" /\ s[i + 1] = "n"
    BY DEF Ends
  <2>2. i \in 1 .. Len(s) /\ i + 1 \in 1 .. Len(s) /\ i \in 1 .. Len(u) - 1
    BY <1>1, <2>1
  <2> QED
    BY <1>1, <2>1, <2>2 DEF Ends
<1>4. Ends(s) \subseteq Nat /\ Ends(u) \subseteq Nat
  BY <1>1 DEF Ends
<1> QED
  BY <1>1, <1>2, <1>3, <1>4 DEF u

(* What the search of process finds.                                       *)
LEMMA LineEndFinds ==
    ASSUME NEW s \in Seq(Byte), NEW idx \in Nat
    PROVE  /\ (\A i \in Ends(s) : i < idx) => LineEnd(s, idx) = Len(s)
           /\ (\E i \in Ends(s) : i >= idx) =>
                  First({i \in Ends(s) : i >= idx}, LineEnd(s, idx))
<1> DEFINE ends == {i \in idx .. Len(s) - 1 : i >= 1 /\ s[i] = "r" /\ s[i + 1] = "n"}
           from == {i \in Ends(s) : i >= idx}
<1>1. Len(s) \in Nat
  OBVIOUS
<1>2. ends = from
  BY <1>1 DEF Ends
<1>3. LineEnd(s, idx) = IF ends = {} THEN Len(s) ELSE CHOOSE i \in ends : \A j \in ends : i <= j
  BY DEF LineEnd
<1>4. from \subseteq Nat /\ Ends(s) \subseteq Nat
  BY <1>1 DEF Ends
<1> HIDE DEF ends, from
<1>5. ASSUME from # {} PROVE First(from, LineEnd(s, idx))
  <2>1. \E i \in ends : \A j \in ends : i <= j
    BY <1>2, <1>4, <1>5, LeastNat
  <2> QED
    BY <1>2, <1>3, <1>5, <2>1 DEF First
<1>6. ASSUME from = {} PROVE LineEnd(s, idx) = Len(s)
  BY <1>2, <1>3, <1>6
<1> QED
  BY <1>1, <1>4, <1>5, <1>6 DEF from

LEMMA CgiInitially == cgi_init => CgiInv
<1> SUFFICES ASSUME cgi_init PROVE CgiInv
  OBVIOUS
<1>1. CgiTypes
  BY CgiConnAssumption, EmptySeq DEF cgi_init, CgiTypes
<1>2. Ends(m_buf) = {}
  BY EmptyFacts DEF cgi_init, Ends
<1>3. sent = m_buf \o kernel
  BY EmptySeq, ConcatEmptySeq DEF cgi_init
<1> QED
  BY <1>1, <1>2, <1>3 DEF CgiInv, cgi_init

LEMMA ConcatBytes ==
    \A s, t, u \in Seq(Byte) : (s \o t) \o u = s \o (t \o u)
<1>1. ASSUME NEW S, NEW s \in Seq(S), NEW t \in Seq(S), NEW u \in Seq(S)
      PROVE  (s \o t) \o u = s \o (t \o u)
  BY ConcatAssociative
<1> QED
  BY <1>1

LEMMA AppendConcat ==
    ASSUME NEW s \in Seq(Byte), NEW t \in Seq(Byte), NEW b \in Byte
    PROVE  Append(s \o t, b) = s \o Append(t, b)
<1>1. <<b>> \in Seq(Byte) /\ s \o t \in Seq(Byte)
  BY ConcatProperties
<1>2. Append(t, b) = t \o <<b>>
  BY AppendIsConcat
<1>3. PICK u : u = s \o t
  OBVIOUS
<1>4. Append(u, b) = u \o <<b>>
  BY <1>1, <1>3, AppendIsConcat
<1>5. (s \o t) \o <<b>> = s \o (t \o <<b>>)
  BY <1>1, ConcatBytes, Zenon
<1> QED
  BY <1>2, <1>3, <1>4, <1>5, Zenon

LEMMA CgiSends ==
    ASSUME CgiInv, NEW b \in Byte, ClientSends(b)
    PROVE  CgiInv'
<1>1. /\ sent' = Append(sent, b) /\ kernel' = Append(kernel, b)
      /\ UNCHANGED <<m_buf, conn, program, peerClosed>> /\ ~peerClosed
  BY DEF ClientSends
<1>2. CgiTypes'
  BY <1>1 DEF CgiInv, CgiTypes
<1>3. sent' = m_buf' \o kernel'
  <2>1. kernel \in Seq(Byte) /\ m_buf \in Seq(Byte) /\ sent = m_buf \o kernel
    BY DEF CgiInv, CgiTypes
  <2> QED
    BY <1>1, <2>1, AppendConcat
<1>4. conn' = "closed" => Ends(m_buf') # {} \/ Len(m_buf') = BUFFER_SIZE - 1
  BY <1>1 DEF CgiInv
<1> QED
  BY <1>1, <1>2, <1>3, <1>4 DEF CgiInv

(* recv: what it moves to the buffer is what the kernel had next.          *)
LEMMA CgiReceives ==
    ASSUME CgiTypes, NEW room, room = BUFFER_SIZE - 1 - Len(m_buf), room > 0,
           m_buf' = m_buf \o SubSeq(kernel, 1, IF Len(kernel) < room THEN Len(kernel) ELSE room),
           kernel' = SubSeq(kernel, room + 1, Len(kernel))
    PROVE  /\ kernel' \in Seq(Byte) /\ m_buf' \in Seq(Byte) /\ Len(m_buf') <= BUFFER_SIZE - 1
           /\ m_buf' \o kernel' = m_buf \o kernel
           /\ \E got \in Seq(Byte) : m_buf' = m_buf \o got
<1>1. /\ kernel \in Seq(Byte) /\ m_buf \in Seq(Byte) /\ Len(kernel) \in Nat /\ Len(m_buf) \in Nat
      /\ room \in Nat \ {0} /\ Len(m_buf) + room = BUFFER_SIZE - 1
  BY CgiConnAssumption DEF CgiTypes
<1>2. PICK m : m = IF Len(kernel) < room THEN Len(kernel) ELSE room
  OBVIOUS
<1>3. m \in 0 .. Len(kernel) /\ m <= room
  BY <1>1, <1>2
<1>4. PICK got : got = SubSeq(kernel, 1, m)
  OBVIOUS
<1>5. got \in Seq(Byte) /\ Len(got) = m
  BY <1>1, <1>3, <1>4
<1>6. kernel' = SubSeq(kernel, m + 1, Len(kernel))
  <2>1. CASE Len(kernel) < room
    <3>1. SubSeq(kernel, room + 1, Len(kernel)) = <<>> /\ SubSeq(kernel, m + 1, Len(kernel)) = <<>>
      BY <1>1, <1>2, <2>1, SubSeqEmpty
    <3> QED
      BY <3>1
  <2>2. CASE ~(Len(kernel) < room)
    BY <1>2, <2>2
  <2> QED
    BY <2>1, <2>2
<1>7. kernel' \in Seq(Byte)
  BY <1>1, <1>3, <1>6
<1>8. got \o kernel' = kernel
  <2>1. SubSeq(kernel, 1, m) \o SubSeq(kernel, m + 1, Len(kernel)) = SubSeq(kernel, 1, Len(kernel))
    <3>1. 1 \in 1 .. Len(kernel) + 1 /\ m \in 1 - 1 .. Len(kernel) /\ Len(kernel) \in m .. Len(kernel)
      BY <1>1, <1>3
    <3> QED
      BY <1>1, <3>1, ConcatAdjacentSubSeq
  <2>2. SubSeq(kernel, 1, Len(kernel)) = kernel
    BY <1>1, SubSeqFull
  <2> QED
    BY <1>4, <1>6, <2>1, <2>2
<1>9. m_buf' = m_buf \o got
  BY <1>2, <1>4
<1>10. m_buf' \in Seq(Byte) /\ Len(m_buf') = Len(m_buf) + m
  <2>1. m_buf \o got \in Seq(Byte) /\ Len(m_buf \o got) = Len(m_buf) + Len(got)
    BY <1>1, <1>5, ConcatProperties
  <2> QED
    BY <1>5, <1>9, <2>1
<1>11. m_buf' \o kernel' = m_buf \o kernel
  <2>1. PICK rest : rest = kernel'
    OBVIOUS
  <2>2. m_buf \o (got \o rest) = (m_buf \o got) \o rest
    <3>1. m_buf \in Seq(Byte) /\ got \in Seq(Byte) /\ rest \in Seq(Byte)
      BY <1>1, <1>5, <1>7, <2>1
    <3> QED
      BY <3>1, ConcatBytes, Zenon
  <2> QED
    BY <1>8, <1>9, <2>1, <2>2
<1>12. Len(m_buf') <= BUFFER_SIZE - 1
  BY <1>1, <1>3, <1>10, CgiConnAssumption
<1> QED
  BY <1>5, <1>7, <1>9, <1>10, <1>11, <1>12

LEMMA CgiRoundKeeps ==
    ASSUME CgiInv, CgiRound
    PROVE  CgiInv'
<1>1. PICK room : room = BUFFER_SIZE - 1 - Len(m_buf)
  OBVIOUS
<1>2. /\ CgiTypes /\ sent = m_buf \o kernel /\ Ends(m_buf) = {} /\ program = NoProgram
      /\ conn = "reading" /\ UNCHANGED <<sent, peerClosed>>
      /\ kernel \in Seq(Byte) /\ m_buf \in Seq(Byte) /\ Len(m_buf) \in Nat
  BY DEF CgiInv, CgiRound, CgiTypes
<1>3. CASE UNCHANGED <<kernel, m_buf, program>> /\ conn' \in {"idle", "error"}
  BY <1>2, <1>3 DEF CgiInv, CgiTypes
<1>4. CASE /\ room = 0 \/ (kernel = <<>> /\ peerClosed)
           /\ UNCHANGED <<kernel, m_buf, program>> /\ conn' = "closed"
  <2>1. CASE room = 0
    <3>1. Len(m_buf) = BUFFER_SIZE - 1
      BY <1>1, <1>2, <2>1, CgiConnAssumption
    <3> QED
      BY <1>2, <1>4, <3>1 DEF CgiInv, CgiTypes
  <2>2. CASE kernel = <<>> /\ peerClosed
    <3>1. m_buf \o kernel = m_buf
      BY <1>2, <2>2, ConcatEmptySeq
    <3> QED
      BY <1>2, <1>4, <2>2, <3>1 DEF CgiInv, CgiTypes
  <2> QED
    BY <1>4, <2>1, <2>2
<1>5. CASE /\ room > 0
           /\ m_buf' = m_buf \o SubSeq(kernel, 1, IF Len(kernel) < room THEN Len(kernel) ELSE room)
           /\ kernel' = SubSeq(kernel, room + 1, Len(kernel))
           /\ LET idx == LineEnd(m_buf', Len(m_buf))
              IN  IF idx = Len(m_buf') THEN UNCHANGED <<conn, program>>
                  ELSE /\ conn' = "closed"
                       /\ program' \in {SubSeq(m_buf', 1, idx - 1), NoProgram}
  <2>1. /\ kernel' \in Seq(Byte) /\ m_buf' \in Seq(Byte) /\ Len(m_buf') <= BUFFER_SIZE - 1
        /\ m_buf' \o kernel' = m_buf \o kernel
        /\ \E got \in Seq(Byte) : m_buf' = m_buf \o got
    BY <1>1, <1>2, <1>5, CgiReceives
  <2>2. sent' = m_buf' \o kernel'
    BY <1>2, <2>1
  <2>3. PICK idx : idx = LineEnd(m_buf', Len(m_buf))
    OBVIOUS
  <2>4. Ends(m_buf') \subseteq Nat /\ Len(m_buf') \in Nat
    BY <2>1 DEF Ends
  <2>5. \A i \in Ends(m_buf') : i >= Len(m_buf)
    <3>1. PICK got \in Seq(Byte) : m_buf' = m_buf \o got
      BY <2>1
    <3>2. \A i \in Ends(m_buf') : i \in Ends(m_buf) <=> i < Len(m_buf)
      BY <1>2, <3>1, EndsOfPrefix
    <3> QED
      BY <1>2, <2>4, <3>2
  <2>6. /\ (\A i \in Ends(m_buf') : i < Len(m_buf)) => idx = Len(m_buf')
        /\ (\E i \in Ends(m_buf') : i >= Len(m_buf)) =>
               First({i \in Ends(m_buf') : i >= Len(m_buf)}, idx)
    BY <1>2, <2>1, <2>3, LineEndFinds
  <2>7. CASE Ends(m_buf') = {}
    <3>1. idx = Len(m_buf')
      BY <2>6, <2>7
    <3>2. UNCHANGED <<conn, program>>
      BY <1>5, <2>3, <3>1
    <3> QED
      BY <1>2, <2>1, <2>2, <2>7, <3>2 DEF CgiInv, CgiTypes
  <2>8. CASE Ends(m_buf') # {}
    <3>1. {i \in Ends(m_buf') : i >= Len(m_buf)} = Ends(m_buf')
      BY <2>5
    <3>2. First(Ends(m_buf'), idx)
      BY <2>5, <2>6, <2>8, <3>1
    <3>3. idx \in Ends(m_buf') /\ idx # Len(m_buf')
      BY <2>4, <3>2 DEF First, Ends
    <3>4. conn' = "closed" /\ program' \in {SubSeq(m_buf', 1, idx - 1), NoProgram}
      BY <1>5, <2>3, <3>3
    <3>5. program' # NoProgram =>
             \E i \in Ends(m_buf') : First(Ends(m_buf'), i) /\ program' = SubSeq(m_buf', 1, i - 1)
      BY <3>2, <3>3, <3>4
    <3> QED
      BY <2>1, <2>2, <2>8, <3>4, <3>5 DEF CgiInv, CgiTypes
  <2> QED
    BY <2>7, <2>8
<1> QED
  BY <1>1, <1>3, <1>4, <1>5 DEF CgiRound

LEMMA CgiStep == CgiInv /\ [CgiNext]_cgiVars => CgiInv'
<1> SUFFICES ASSUME CgiInv, [CgiNext]_cgiVars PROVE CgiInv'
  OBVIOUS
<1>1. CASE \E b \in {"r", "n", "x"} : ClientSends(b)
  BY <1>1, CgiSends DEF Byte
<1>2. CASE ClientCloses
  BY <1>2 DEF ClientCloses, CgiInv, CgiTypes
<1>3. CASE process
  BY <1>3 DEF process, CgiInv, CgiTypes
<1>4. CASE CgiRound
  BY <1>4, CgiRoundKeeps
<1>5. CASE UNCHANGED cgiVars
  BY <1>5 DEF cgiVars, CgiInv, CgiTypes
<1> QED
  BY <1>1, <1>2, <1>3, <1>4, <1>5 DEF CgiNext

LEMMA CgiImplies == CgiInv => CgiOneProgram
<1> SUFFICES ASSUME CgiInv PROVE CgiOneProgram
  OBVIOUS
<1>1. /\ kernel \in Seq(Byte) /\ m_buf \in Seq(Byte) /\ sent = m_buf \o kernel
      /\ Len(m_buf) \in Nat /\ Len(m_buf) <= BUFFER_SIZE - 1
  BY DEF CgiInv, CgiTypes
<1>2. /\ sent \in Seq(Byte) /\ Len(sent) = Len(m_buf) + Len(kernel) /\ Len(kernel) \in Nat
      /\ Len(sent) \in Nat
      /\ \A i \in 1 .. Len(m_buf) : sent[i] = m_buf[i]
      /\ \A i \in Ends(sent) : i \in Ends(m_buf) <=> i < Len(m_buf)
      /\ Ends(m_buf) \subseteq Ends(sent) /\ Ends(sent) \subseteq Nat
  BY <1>1, EndsOfPrefix
<1>3. PICK first : first = LineEnd(sent, 0)
  OBVIOUS
<1>4. /\ Ends(sent) = {} => first = Len(sent)
      /\ Ends(sent) # {} => First(Ends(sent), first)
  <2>1. 0 \in Nat /\ {i \in Ends(sent) : i >= 0} = Ends(sent)
    BY <1>2
  <2>2. /\ (\A i \in Ends(sent) : i < 0) => first = Len(sent)
        /\ (\E i \in Ends(sent) : i >= 0) => First({i \in Ends(sent) : i >= 0}, first)
    BY <1>2, <1>3, <2>1, LineEndFinds
  <2> QED
    BY <1>2, <2>1, <2>2
<1>5. first \in Nat /\ (first < Len(sent) <=> Ends(sent) # {})
  BY <1>2, <1>4 DEF First, Ends
<1>6. Ends(m_buf) # {} => first < Len(sent) /\ first < Len(m_buf) /\ First(Ends(m_buf), first)
  <2> SUFFICES ASSUME Ends(m_buf) # {}
               PROVE  first < Len(sent) /\ first < Len(m_buf) /\ First(Ends(m_buf), first)
    OBVIOUS
  <2>1. PICK i \in Ends(m_buf) : TRUE
    OBVIOUS
  <2>2. First(Ends(sent), first) /\ i \in Ends(sent) /\ i \in Nat /\ i < Len(m_buf)
    BY <1>2, <1>4, <2>1
  <2>3. first < Len(m_buf)
    BY <1>1, <1>5, <2>2 DEF First
  <2>4. first \in Ends(m_buf)
    BY <1>2, <2>2, <2>3 DEF First
  <2> QED
    BY <1>1, <1>2, <1>5, <2>2, <2>3, <2>4 DEF First
<1>7. Ends(m_buf) = {} /\ first < Len(sent) => first >= Len(m_buf)
  <2> SUFFICES ASSUME Ends(m_buf) = {}, first < Len(sent) PROVE first >= Len(m_buf)
    OBVIOUS
  <2>1. first \in Ends(sent)
    BY <1>4, <1>5 DEF First
  <2>2. ~(first < Len(m_buf))
    BY <1>2, <2>1
  <2> QED
    BY <1>1, <1>5, <2>2
<1>8. ASSUME program # NoProgram
      PROVE  first < Len(sent) /\ program = SubSeq(sent, 1, first - 1)
  <2>1. PICK i \in Ends(m_buf) : First(Ends(m_buf), i) /\ program = SubSeq(m_buf, 1, i - 1)
    BY <1>8 DEF CgiInv
  <2>2. first < Len(sent) /\ first < Len(m_buf) /\ First(Ends(m_buf), first)
    BY <1>6, <2>1
  <2>3. i = first
    BY <1>2, <2>1, <2>2 DEF First
  <2>4. first \in 1 .. Len(m_buf) - 1
    BY <2>2 DEF First, Ends
  <2>5. first - 1 \in Nat /\ first - 1 <= Len(m_buf) /\ first - 1 <= Len(sent)
    BY <1>1, <1>2, <2>4
  <2>6. \A j \in 1 .. first - 1 : sent[j] \in Byte /\ m_buf[j] = sent[j]
    BY <1>1, <1>2, <2>5
  <2>7. SubSeq(m_buf, 1, first - 1) = SubSeq(sent, 1, first - 1)
    BY <1>1, <1>2, <2>5, <2>6
  <2> QED
    BY <2>1, <2>2, <2>3, <2>7
<1>9. conn \in {"idle", "reading"} => (first < Len(sent) => first >= Len(m_buf))
  BY <1>7 DEF CgiInv
<1>10. ASSUME conn = "closed"
       PROVE  \/ peerClosed /\ ~ (first < Len(sent))
              \/ first < Len(sent) /\ first < Len(m_buf)
              \/ Len(m_buf) = BUFFER_SIZE - 1 /\ (first < Len(sent) => first >= Len(m_buf))
  <2>1. CASE Ends(m_buf) # {}
    BY <1>6, <2>1
  <2>2. CASE Ends(m_buf) = {}
    <3>1. (peerClosed /\ Ends(sent) = {}) \/ Len(m_buf) = BUFFER_SIZE - 1
      BY <1>1, <1>10, <2>2 DEF CgiInv
    <3>2. Ends(sent) = {} => ~ (first < Len(sent))
      BY <1>5
    <3> QED
      BY <1>7, <2>2, <3>1, <3>2, Zenon
  <2> QED
    BY <2>1, <2>2
<1> QED
  BY <1>1, <1>3, <1>8, <1>9, <1>10 DEF CgiOneProgram

(* However the bytes of a client come in and whatever the buffer's size,   *)
(* the program a CGI connection runs is the first line the client sent; no *)
(* complete line stays in the buffer unseen, not even one split between    *)
(* two reads in the middle of its end; and a connection is closed for one  *)
(* of the reasons the code has.                                            *)
THEOREM CgiRunsFirstLine == CgiSpec => []CgiOneProgram
BY CgiInitially, CgiStep, CgiImplies, PTL DEF CgiSpec

-----------------------------------------------------------------------------
(* MasterServer.  When the master ends it sends SIGTERM to the entries     *)
(* with a pid.  So the invariant relates the entries to the workers: those *)
(* forked are the first entries, no more than num_workers, and one that    *)
(* has left the state forked has written its pid.                          *)
Entry == [process : BOOLEAN, trancnt : Int, trancnt_prev : Int]

(* The n workers made so far.                                              *)
FirstWorkers(n) ==
    /\ n \in 0 .. Cpus /\ n <= num_workers
    /\ \A i \in WorkerSlots : workerAt[i] # "none" <=> i < n
    /\ masterAt = "init_workers" => n < num_workers
    /\ masterAt \in {"options", "init_log", "init_server", "init_signal"} => n = 0

MasterTypes ==
    /\ num_workers \in Nat
    /\ masterAt \in {"init_log", "init_server", "init_signal", "init_workers"} =>
           num_workers \in 1 .. Cpus
    /\ wdata \in [WorkerSlots -> Entry]
    /\ workerAt \in [WorkerSlots -> {"none", "forked", "starting", "serving", "dead"}]

HavePids == \A i \in WorkerSlots : workerAt[i] \in {"starting", "serving"} => wdata[i].process

MasterInv ==
    /\ MasterTypes
    /\ \E n \in 0 .. Cpus : FirstWorkers(n)
    /\ HavePids
    /\ StopReachesRegistered

(* Workers, options and entries stay, and so does whether the master is    *)
(* still in its start.                                                     *)
LEMMA MasterQuiet ==
    ASSUME MasterInv, UNCHANGED <<workerAt, num_workers, sigterm, late>>,
           wdata' \in [WorkerSlots -> Entry],
           \A i \in WorkerSlots : wdata'[i].process = wdata[i].process,
           \/ masterAt' = masterAt
           \/ masterAt' \in {"do_stats", "report", "killed"} /\ masterAt # "ended"
    PROVE  MasterInv'
BY DEF MasterInv, MasterTypes, FirstWorkers, HavePids, StopReachesRegistered, LiveWorker

(* exit_cleanup with the workers as they are: what stop_processes finds is *)
(* every worker that has written its pid.                                  *)
LEMMA MasterEnds ==
    ASSUME MasterInv, exit_cleanup, UNCHANGED <<workerAt, num_workers, late>>,
           wdata' \in [WorkerSlots -> Entry],
           \A i \in WorkerSlots : wdata'[i].process = wdata[i].process
    PROVE  MasterInv'
<1>1. PICK n \in 0 .. Cpus : FirstWorkers(n)
  BY DEF MasterInv
<1>2. MasterTypes' /\ HavePids'
  BY DEF MasterInv, MasterTypes, HavePids, exit_cleanup
<1>3. FirstWorkers(n)'
  BY <1>1 DEF FirstWorkers, exit_cleanup
<1>4. ASSUME NEW i \in WorkerSlots, workerAt[i] \in {"starting", "serving"} PROVE i \in stop_processes
  <2>1. i < num_workers
    BY <1>1, <1>4, MasterServerAssumption DEF FirstWorkers, WorkerSlots, MasterInv, MasterTypes
  <2> QED
    BY <1>4, <2>1 DEF MasterInv, HavePids, stop_processes, Entries
<1>5. StopReachesRegistered'
  BY <1>4 DEF StopReachesRegistered, LiveWorker, exit_cleanup
<1> QED
  BY <1>2, <1>3, <1>5 DEF MasterInv

(* A worker moves on; workers stay made, and one that is starting or       *)
(* serving has written its pid.                                            *)
LEMMA WorkerMoves ==
    ASSUME MasterInv, NEW i \in WorkerSlots, workerAt[i] # "none",
           UNCHANGED <<masterAt, num_workers>>,
           NEW s \in {"starting", "serving", "dead"},
           workerAt' = [workerAt EXCEPT ![i] = s],
           wdata' \in [WorkerSlots -> Entry],
           \A j \in WorkerSlots : wdata[j].process => wdata'[j].process,
           s # "dead" => wdata'[i].process,
           sigterm \subseteq sigterm', late \subseteq late',
           s # "dead" /\ masterAt = "ended" => i \in sigterm' \cup late',
           workerAt[i] # "dead", s # "dead" => sigterm' = sigterm
    PROVE  MasterInv'
<1>1. PICK n \in 0 .. Cpus : FirstWorkers(n)
  BY DEF MasterInv
<1>2. MasterTypes'
  BY DEF MasterInv, MasterTypes
<1>3. FirstWorkers(n)'
  BY <1>1 DEF FirstWorkers, MasterInv, MasterTypes
<1>4. HavePids'
  BY DEF MasterInv, MasterTypes, HavePids
<1>5. StopReachesRegistered'
  <2>1. masterAt' = "ended" =>
            \A j \in WorkerSlots : LiveWorker(j)' => j \in sigterm' \cup late' \/ workerAt'[j] = "forked"
    BY DEF MasterInv, MasterTypes, StopReachesRegistered, LiveWorker
  <2>2. CASE s = "dead"
    <3>1. workerAt'[i] = "dead"
      BY <2>2 DEF MasterInv, MasterTypes
    <3> QED  BY <2>1, <3>1 DEF StopReachesRegistered
  <2>3. CASE s # "dead"
    <3>1. \A j \in WorkerSlots : workerAt[j] = "dead" => workerAt'[j] = "dead"
      BY DEF MasterInv, MasterTypes
    <3> QED  BY <2>1, <2>3, <3>1 DEF MasterInv, StopReachesRegistered
  <2> QED  BY <2>2, <2>3
<1> QED
  BY <1>2, <1>3, <1>4, <1>5 DEF MasterInv

LEMMA MasterInitially == MasterInit => MasterInv
<1> SUFFICES ASSUME MasterInit PROVE MasterInv
  OBVIOUS
<1>1. MasterTypes /\ HavePids /\ StopReachesRegistered
  BY DEF MasterInit, MasterTypes, HavePids, StopReachesRegistered, NoEntry, Entry
<1>2. FirstWorkers(0) /\ 0 \in 0 .. Cpus
  BY MasterServerAssumption DEF MasterInit, FirstWorkers, WorkerSlots
<1> QED
  BY <1>1, <1>2 DEF MasterInv

LEMMA MasterStep == MasterInv /\ [MasterNext]_masterVars => MasterInv'
<1> SUFFICES ASSUME MasterInv, [MasterNext]_masterVars PROVE MasterInv'
  OBVIOUS
<1>t. wdata \in [WorkerSlots -> Entry]
  BY DEF MasterInv, MasterTypes
<1>1. CASE main_options
  <2>1. PICK n \in 0 .. Cpus : FirstWorkers(n)
    BY DEF MasterInv
  <2>2. n = 0 /\ \A i \in WorkerSlots : workerAt[i] = "none"
    BY <1>1, <2>1 DEF FirstWorkers, main_options, WorkerSlots
  <2>3. UNCHANGED <<wdata, workerAt, sigterm, late>> /\ num_workers' \in Nat
    BY <1>1, MasterServerAssumption DEF main_options, workerVars
  <2>4. MasterTypes' /\ HavePids' /\ StopReachesRegistered'
    BY <1>1, <2>2, <2>3 DEF MasterInv, MasterTypes, HavePids, StopReachesRegistered, LiveWorker, main_options
  <2>5. FirstWorkers(0)' /\ 0 \in 0 .. Cpus
    BY <1>1, <2>2, <2>3, MasterServerAssumption DEF FirstWorkers, main_options, WorkerSlots
  <2> QED
    BY <2>4, <2>5 DEF MasterInv
<1>2. ASSUME NEW from, NEW to, InitStep(from, to),
             <<from, to>> \in {<<"init_log", "init_server">>, <<"init_server", "init_signal">>,
                               <<"init_signal", "init_workers">>, <<"init_timer", "do_stats">>}
      PROVE MasterInv'
  <2>1. UNCHANGED <<workerAt, num_workers, late, wdata>>
    BY <1>2 DEF InitStep, optionVars
  <2>2. CASE exit_cleanup
    BY <2>1, <2>2, <1>t, MasterEnds
  <2>3. CASE masterAt' = to /\ UNCHANGED sigterm
    <3>1. PICK n \in 0 .. Cpus : FirstWorkers(n)
      BY DEF MasterInv
    <3>2. masterAt = from
      BY <1>2 DEF InitStep
    <3>3. MasterTypes' /\ HavePids' /\ StopReachesRegistered'
      BY <1>2, <2>1, <2>3, <3>2 DEF MasterInv, MasterTypes, HavePids, StopReachesRegistered
    <3>4. FirstWorkers(n)'
      BY <1>2, <2>1, <2>3, <3>1, <3>2 DEF FirstWorkers, MasterInv, MasterTypes
    <3> QED
      BY <3>3, <3>4 DEF MasterInv
  <2> QED
    BY <1>2, <2>2, <2>3 DEF InitStep
<1>3. CASE init_processes
  <2> DEFINE made == {j \in WorkerSlots : workerAt[j] # "none"}
             k == Cardinality(made)
  <2>1. PICK n \in 0 .. Cpus : FirstWorkers(n)
    BY DEF MasterInv
  <2>2. masterAt = "init_workers" /\ n < num_workers /\ num_workers \in 1 .. Cpus
    BY <1>3, <2>1 DEF init_processes, FirstWorkers, MasterInv, MasterTypes
  <2>3. made = 0 .. n - 1
    BY <2>1, MasterServerAssumption DEF FirstWorkers, WorkerSlots
  <2>4. k = n
    <3>1. Cardinality(0 .. n - 1) = n
      BY <2>1, FS_Interval
    <3> QED
      BY <2>3, <3>1
  <2>5. n \in WorkerSlots
    BY <2>2, MasterServerAssumption DEF WorkerSlots
  <2>6. /\ wdata' = [wdata EXCEPT ![k].trancnt = 0]
        /\ \/ /\ workerAt' = [workerAt EXCEPT ![k] = "forked"]
              /\ masterAt' = IF k = num_workers - 1 THEN "init_timer" ELSE "init_workers"
              /\ UNCHANGED sigterm
           \/ exit_cleanup /\ UNCHANGED workerAt
        /\ UNCHANGED <<num_workers, late>>
    BY <1>3 DEF init_processes, optionVars
  <2> HIDE DEF k
  <2>7. /\ wdata' \in [WorkerSlots -> Entry]
        /\ \A i \in WorkerSlots : wdata'[i].process = wdata[i].process
    BY <1>t, <2>4, <2>5, <2>6 DEF Entry
  <2>8. CASE exit_cleanup /\ UNCHANGED workerAt
    BY <2>6, <2>7, <2>8, MasterEnds
  <2>9. CASE /\ workerAt' = [workerAt EXCEPT ![k] = "forked"]
             /\ masterAt' = IF k = num_workers - 1 THEN "init_timer" ELSE "init_workers"
             /\ UNCHANGED sigterm
    <3>1. MasterTypes' /\ HavePids'
      BY <2>2, <2>4, <2>5, <2>6, <2>7, <2>9 DEF MasterInv, MasterTypes, HavePids
    <3>3. workerAt[n] = "none"
      BY <2>1, <2>5 DEF FirstWorkers, WorkerSlots
    <3>4. \A i \in WorkerSlots : workerAt[i] = "dead" => workerAt'[i] = "dead"
      BY <2>4, <2>5, <2>9, <3>3 DEF MasterInv, MasterTypes
    <3>5. masterAt # "ended" /\ masterAt' # "ended" /\ UNCHANGED sigterm
      BY <2>2, <2>9
    <3>6. StopReachesRegistered'
      BY <3>4, <3>5 DEF MasterInv, StopReachesRegistered
    <3>2. FirstWorkers(n + 1)' /\ n + 1 \in 0 .. Cpus
      BY <2>1, <2>2, <2>4, <2>5, <2>6, <2>9, MasterServerAssumption
         DEF FirstWorkers, MasterInv, MasterTypes, WorkerSlots
    <3> QED
      BY <3>1, <3>2, <3>6 DEF MasterInv
  <2> QED
    BY <2>6, <2>8, <2>9
<1>4. ASSUME NEW i \in WorkerSlots, Register(i) PROVE MasterInv'
  <2>1. wdata' \in [WorkerSlots -> Entry] /\ wdata'[i].process
        /\ \A j \in WorkerSlots : wdata[j].process => wdata'[j].process
    BY <1>4, <1>t DEF Register, Entry
  <2>2. workerAt[i] # "none" /\ workerAt' = [workerAt EXCEPT ![i] = "starting"]
        /\ UNCHANGED <<masterAt, num_workers, sigterm>>
    BY <1>4 DEF Register, optionVars
  <2>3. late \subseteq late' /\ (masterAt = "ended" => i \in late') /\ workerAt[i] # "dead"
    BY <1>4 DEF Register
  <2> QED
    BY <2>1, <2>2, <2>3, WorkerMoves
<1>5. ASSUME NEW i \in WorkerSlots, StartServing(i) PROVE MasterInv'
  <2>1. workerAt[i] = "starting" /\ UNCHANGED <<masterAt, num_workers, wdata, late>>
    BY <1>5 DEF StartServing, optionVars
  <2>2. wdata[i].process
    BY <2>1 DEF MasterInv, HavePids
  <2>3. masterAt = "ended" => i \in sigterm \cup late
    BY <2>1 DEF MasterInv, StopReachesRegistered, LiveWorker
  <2>4. CASE workerAt' = [workerAt EXCEPT ![i] = "serving"] /\ UNCHANGED sigterm
    BY <1>t, <2>1, <2>2, <2>3, <2>4, WorkerMoves
  <2>5. CASE workerAt' = [workerAt EXCEPT ![i] = "dead"] /\ sigterm' = sigterm \cup stop_processes
    BY <1>t, <2>1, <2>2, <2>3, <2>5, WorkerMoves
  <2> QED
    BY <1>5, <2>4, <2>5 DEF StartServing
<1>6. ASSUME NEW i \in WorkerSlots, CountTransaction(i) PROVE MasterInv'
  <2>1. workerAt[i] = "serving" /\ UNCHANGED <<masterAt, num_workers, sigterm, late>>
    BY <1>6 DEF CountTransaction, optionVars
  <2>2. wdata' \in [WorkerSlots -> Entry] /\ \A j \in WorkerSlots : wdata'[j].process = wdata[j].process
    <3>1. CASE cpu_id(i) \in Entries
      <4>1. cpu_id(i) \in WorkerSlots /\ wdata' = [wdata EXCEPT ![cpu_id(i)].trancnt = @ + 1]
        BY <1>6, <3>1 DEF CountTransaction, Entries
      <4> QED
        BY <1>t, <4>1 DEF Entry
    <3>2. CASE cpu_id(i) \notin Entries
      BY <1>6, <1>t, <3>2 DEF CountTransaction
    <3> QED BY <3>1, <3>2
  <2>3. CASE UNCHANGED workerAt
    BY <2>1, <2>2, <2>3, MasterQuiet
  <2>4. CASE workerAt' = [workerAt EXCEPT ![i] = "dead"]
    BY <2>1, <2>2, <2>4, WorkerMoves
  <2> QED
    BY <1>6, <2>3, <2>4 DEF CountTransaction
<1>7. ASSUME NEW i \in WorkerSlots, Terminated(i) PROVE MasterInv'
  <2>1. workerAt[i] \notin {"none", "dead"} /\ workerAt' = [workerAt EXCEPT ![i] = "dead"]
        /\ UNCHANGED <<masterAt, num_workers, wdata, sigterm, late>>
    BY <1>7 DEF Terminated, LiveWorker, optionVars
  <2> QED
    BY <1>t, <2>1, WorkerMoves
<1>8. CASE sigwait
  <2>1. UNCHANGED <<workerAt, num_workers, late, wdata>>
    BY <1>8 DEF sigwait, optionVars
  <2>2. CASE exit_cleanup
    BY <1>t, <2>1, <2>2, MasterEnds
  <2>3. CASE masterAt' = "report" /\ UNCHANGED sigterm
    BY <1>8, <1>t, <2>1, <2>3, MasterQuiet DEF sigwait
  <2> QED
    BY <1>8, <2>2, <2>3 DEF sigwait
<1>9. CASE StatsRemember
  <2>1. UNCHANGED <<masterAt, workerAt, num_workers, sigterm, late>>
    BY <1>9 DEF StatsRemember, optionVars
  <2>2. wdata' \in [WorkerSlots -> Entry] /\ \A i \in WorkerSlots : wdata'[i].process = wdata[i].process
    BY <1>9, <1>t DEF StatsRemember, Remembered, Entry
  <2> QED
    BY <2>1, <2>2, MasterQuiet
<1>10. CASE Raise \/ MasterDies \/ StatsRead \/ StatsPrint \/ UNCHANGED masterVars
  <2>1. UNCHANGED <<workerAt, num_workers, sigterm, late, wdata>>
        /\ (masterAt' = masterAt \/ (masterAt' \in {"do_stats", "killed"} /\ masterAt # "ended"))
    BY <1>10 DEF Raise, MasterDies, StatsRead, StatsPrint, masterVars, optionVars, workerVars
  <2> QED
    BY <1>t, <2>1, MasterQuiet
<1>11. CASE init_log \/ init_server \/ init_signal \/ init_timer
  BY <1>2, <1>11 DEF init_log, init_server, init_signal, init_timer
<1> QED
  BY <1>1, <1>3, <1>4, <1>5, <1>6, <1>7, <1>8, <1>9, <1>10, <1>11 DEF MasterNext

(* Whenever the master of the multi-process server ends by itself, by      *)
(* SIGINT or by a failure, no worker that has written its pid is left      *)
(* without SIGTERM, for any number of processors and workers; and nothing  *)
(* else sends it, so a master killed by another signal leaves them all.    *)
THEOREM NoRegisteredWorkerLeft == MasterSpec => []StopReachesRegistered
<1>1. MasterInv => StopReachesRegistered
  BY DEF MasterInv
<1> QED
  BY MasterInitially, MasterStep, <1>1, PTL DEF MasterSpec

-----------------------------------------------------------------------------
(* StatsNeverOvercount.  The master is in the middle of an entry only      *)
(* while it reports, and has a sum only then; counters are cleared while   *)
(* nothing has been reported.                                              *)

Starting == {"options", "init_log", "init_server", "init_signal", "init_workers", "init_timer"}

StatsTypes ==
    /\ tally \in Nat /\ reported \in Nat /\ served \in Nat
    /\ statsAt \in [entry : Nat, read : BOOLEAN]
    /\ \A i \in WorkerSlots : /\ wdata[i].trancnt \in Nat /\ wdata[i].trancnt_prev \in Nat
                               /\ wdata[i].trancnt_prev <= wdata[i].trancnt

StatsPhase ==
    /\ masterAt \notin {"options", "ended", "killed"} => num_workers <= Cpus
    /\ statsAt.read => masterAt \in {"report", "killed"} /\ statsAt.entry < num_workers
    /\ masterAt \notin {"report", "killed"} => tally = 0
    /\ masterAt \in Starting => \A i \in WorkerSlots : wdata[i].trancnt_prev = 0
    /\ masterAt = "options" => \A i \in WorkerSlots : wdata[i].trancnt = 0

StatsSum == reported + tally + SumFunctionOnSet(Pending, Unread) <= served

StatsInv == MasterInv /\ StatsTypes /\ StatsPhase /\ StatsSum

LEMMA SlotsFinite == \A S \in SUBSET WorkerSlots : IsFiniteSet(S)
<1>1. IsFiniteSet(WorkerSlots)
  BY FS_Interval, MasterServerAssumption DEF WorkerSlots
<1> QED
  BY <1>1, FS_Subset

(* The sum is of integers over a finite set, in this state and the next.   *)
LEMMA StatsFinite ==
    ASSUME StatsTypes, num_workers \in Nat, NEW S \in SUBSET WorkerSlots
    PROVE  /\ IsFiniteSet(S) /\ \A i \in WorkerSlots : Pending[i] \in Nat
           /\ SumFunctionOnSet(Pending, S) \in Int
<1>2. IsFiniteSet(S)
  BY SlotsFinite
<1>3. \A i \in WorkerSlots : Pending[i] \in Nat
  BY DEF StatsTypes, Pending
<1>4. \A i \in S : Pending[i] \in Int
  BY <1>3
<1> QED
  BY <1>2, <1>3, <1>4, SumElement

(* Nothing that the statistics are about changes.                          *)
LEMMA StatsQuiet ==
    ASSUME StatsInv, MasterInv', UNCHANGED <<num_workers, statsAt, tally, reported, served>>,
           \A i \in WorkerSlots : /\ wdata'[i].trancnt = wdata[i].trancnt
                                  /\ wdata'[i].trancnt_prev = wdata[i].trancnt_prev,
           \/ masterAt' \in {masterAt, "killed"}
           \/ masterAt \notin {"report", "killed"} /\ (masterAt' \in Starting => masterAt \in Starting),
           masterAt' \notin {"options", "ended", "killed"} => masterAt \notin {"options", "ended", "killed"},
           masterAt' = "options" => masterAt = "options"
    PROVE  StatsInv'
<1>1. Pending' = Pending /\ Unread' = Unread
  BY DEF Pending, Unread, Entries
<1>2. StatsTypes' /\ StatsPhase'
  BY DEF StatsInv, StatsTypes, StatsPhase, Starting
<1>3. StatsSum'
  BY <1>1 DEF StatsInv, StatsSum
<1> QED
  BY <1>2, <1>3 DEF StatsInv

LEMMA StatsInitially == MasterInit => StatsInv
<1> SUFFICES ASSUME MasterInit PROVE StatsInv
  OBVIOUS
<1>1. MasterInv
  BY MasterInitially
<1>2. StatsTypes /\ StatsPhase /\ num_workers \in Nat
  BY MasterServerAssumption DEF MasterInit, StatsTypes, StatsPhase, NoEntry, WorkerSlots
<1>3. IsFiniteSet(Unread) /\ \A i \in Unread : Pending[i] = 0
  <2>1. Unread \in SUBSET WorkerSlots
    BY DEF Unread, Entries
  <2> QED
    <3>1. \A i \in WorkerSlots : Pending[i] = 0
      BY DEF MasterInit, Pending, NoEntry
    <3> QED
      BY <2>1, <3>1, SlotsFinite
<1>4. SumFunctionOnSet(Pending, Unread) = 0
  BY <1>3, SumZero
<1> QED
  BY <1>1, <1>2, <1>4 DEF StatsInv, StatsSum, MasterInit

(* The options: all counters are zero, whatever the number of workers.     *)
LEMMA StatsOptions ==
    ASSUME StatsInv, MasterInv', main_options
    PROVE  StatsInv'
<1>1. /\ UNCHANGED <<wdata, statsAt, tally, reported, served>> /\ masterAt = "options"
      /\ masterAt' # "ended" => num_workers' <= Cpus
      /\ masterAt' \in {"init_log", "ended"}
  BY MasterServerAssumption DEF main_options, workerVars, statsVars
<1>2. StatsTypes' /\ StatsPhase' /\ num_workers' \in Nat
  BY <1>1 DEF StatsInv, StatsTypes, StatsPhase, Starting, MasterInv, MasterTypes
<1>3. \A i \in WorkerSlots : Pending[i] = 0 /\ Pending'[i] = 0
  BY <1>1 DEF StatsInv, StatsTypes, StatsPhase, Starting, Pending
<1>4. Unread \in SUBSET WorkerSlots /\ Unread' \in SUBSET WorkerSlots
  BY DEF Unread, Entries
<1>5. IsFiniteSet(Unread) /\ IsFiniteSet(Unread')
  BY <1>4, SlotsFinite
<1>6. SumFunctionOnSet(Pending, Unread) = 0
  BY <1>3, <1>4, <1>5, SumZero
<1>7. SumFunctionOnSet(Pending', Unread') = 0
  BY <1>3, <1>4, <1>5, SumZero
<1>8. StatsSum'
  BY <1>1, <1>6, <1>7 DEF StatsInv, StatsSum
<1> QED
  BY <1>2, <1>8 DEF StatsInv

(* One entry changes, with what it adds to the sum.                        *)
LEMMA EntryChanges ==
    ASSUME NEW p, NEW q, \A i \in WorkerSlots : p[i] \in Int /\ q[i] \in Int,
           NEW k, \A i \in WorkerSlots : i # k => q[i] = p[i],
           NEW S, S \subseteq WorkerSlots
    PROVE  /\ k \in S => SumFunctionOnSet(q, S) = SumFunctionOnSet(p, S) - p[k] + q[k]
           /\ k \notin S => SumFunctionOnSet(q, S) = SumFunctionOnSet(p, S)
<1>1. IsFiniteSet(S)
  BY SlotsFinite
<1>2. \A i \in S : p[i] \in Int /\ q[i] \in Int
  OBVIOUS
<1>3. ASSUME k \in S PROVE SumFunctionOnSet(q, S) = SumFunctionOnSet(p, S) - p[k] + q[k]
  <2>1. \A i \in S \ {k} : p[i] = q[i]
    OBVIOUS
  <2> QED
    BY <1>1, <1>2, <1>3, <2>1, SumUpdate
<1>4. ASSUME k \notin S PROVE SumFunctionOnSet(q, S) = SumFunctionOnSet(p, S)
  <2>1. \A i \in S : q[i] = p[i]
    BY <1>4
  <2> QED
    BY <1>1, <2>1, SumSame
<1> QED
  BY <1>3, <1>4

(* What Pending is in the two states, and that the sums are numbers.       *)
LEMMA StatsSums ==
    ASSUME StatsTypes, StatsTypes', num_workers \in Nat, num_workers' \in Nat
    PROVE  /\ \A i \in WorkerSlots : Pending[i] \in Nat /\ Pending'[i] \in Nat
           /\ \A S \in SUBSET WorkerSlots :
                  SumFunctionOnSet(Pending, S) \in Int /\ SumFunctionOnSet(Pending', S) \in Int
           /\ Unread \in SUBSET WorkerSlots /\ Unread' \in SUBSET WorkerSlots
<1>1. \A i \in WorkerSlots : Pending[i] \in Nat /\ Pending'[i] \in Nat
  BY DEF StatsTypes, Pending
<1>2. ASSUME NEW S \in SUBSET WorkerSlots PROVE SumFunctionOnSet(Pending, S) \in Int
  <2>1. IsFiniteSet(S) /\ \A i \in S : Pending[i] \in Int
    BY <1>1, SlotsFinite
  <2> QED
    BY <2>1, SumElement
<1>3. ASSUME NEW S \in SUBSET WorkerSlots PROVE SumFunctionOnSet(Pending', S) \in Int
  <2>1. IsFiniteSet(S) /\ \A i \in S : Pending'[i] \in Int
    BY <1>1, SlotsFinite
  <2> QED
    BY <2>1, SumElement
<1>4. Unread \in SUBSET WorkerSlots /\ Unread' \in SUBSET WorkerSlots
  BY DEF Unread, Entries
<1> QED
  BY <1>1, <1>2, <1>3, <1>4

(* A counter changes: cleared, or one more for a transaction served.       *)
LEMMA StatsCounter ==
    ASSUME StatsInv, MasterInv', UNCHANGED <<num_workers, statsAt, tally, reported>>,
           StatsTypes', StatsPhase', NEW k \in WorkerSlots,
           \A i \in WorkerSlots : i # k => wdata'[i] = wdata[i],
           Pending'[k] - Pending[k] <= served' - served, served <= served'
    PROVE  StatsInv'
<1>1. /\ \A i \in WorkerSlots : Pending[i] \in Nat /\ Pending'[i] \in Nat
      /\ \A S \in SUBSET WorkerSlots :
             SumFunctionOnSet(Pending, S) \in Int /\ SumFunctionOnSet(Pending', S) \in Int
      /\ Unread \in SUBSET WorkerSlots
  <2>1. StatsTypes /\ num_workers \in Nat /\ num_workers' \in Nat
    BY DEF StatsInv, MasterInv, MasterTypes
  <2> QED
    BY <2>1, StatsSums
<1>2. Unread' = Unread
  BY DEF Unread, Entries
<1>3. \A i \in WorkerSlots : i # k => Pending'[i] = Pending[i]
  BY DEF Pending
<1>4. /\ k \in Unread => SumFunctionOnSet(Pending', Unread)
                             = SumFunctionOnSet(Pending, Unread) - Pending[k] + Pending'[k]
      /\ k \notin Unread => SumFunctionOnSet(Pending', Unread) = SumFunctionOnSet(Pending, Unread)
  <2>1. \A i \in WorkerSlots : Pending[i] \in Int /\ Pending'[i] \in Int
    BY <1>1
  <2> QED
    BY <1>1, <1>3, <2>1, EntryChanges
<1>5. PICK a, b : a = SumFunctionOnSet(Pending, Unread) /\ b = SumFunctionOnSet(Pending', Unread)
  OBVIOUS
<1>6. a \in Int /\ b \in Int /\ Pending[k] \in Nat /\ Pending'[k] \in Nat
  BY <1>1, <1>5
<1>7. b - a <= served' - served
  <2>1. served \in Nat /\ served' \in Nat
    BY DEF StatsInv, StatsTypes
  <2>2. CASE k \in Unread
    BY <1>4, <1>5, <1>6, <2>1, <2>2
  <2>3. CASE k \notin Unread
    BY <1>4, <1>5, <1>6, <2>1, <2>3
  <2> QED
    BY <2>2, <2>3
<1>8. StatsSum'
  <2>1. served \in Nat /\ served' \in Nat /\ reported \in Nat /\ tally \in Nat
    BY DEF StatsInv, StatsTypes
  <2>2. reported + tally + a <= served
    BY <1>5 DEF StatsInv, StatsSum
  <2>3. reported' = reported /\ tally' = tally
    OBVIOUS
  <2>4. PICK r, t, v, w : r = reported /\ t = tally /\ v = served /\ w = served'
    OBVIOUS
  <2>5. r + t + b <= w
    <3>1. /\ r \in Nat /\ t \in Nat /\ v \in Nat /\ w \in Nat /\ a \in Int /\ b \in Int
          /\ b - a <= w - v /\ r + t + a <= v
      BY <1>6, <1>7, <2>1, <2>2, <2>4, Zenon
    <3> QED
      BY <3>1
  <2> QED
    BY <1>2, <1>5, <2>3, <2>4, <2>5 DEF StatsSum
<1> QED
  BY <1>8 DEF StatsInv

LEMMA StatsCleared ==
    ASSUME StatsInv, MasterInv', init_processes
    PROVE  StatsInv'
<1> DEFINE made == {j \in WorkerSlots : workerAt[j] # "none"}
<1>1. PICK k : k = Cardinality(made)
  OBVIOUS
<1>2. /\ wdata' = [wdata EXCEPT ![k].trancnt = 0] /\ masterAt = "init_workers"
      /\ masterAt' \in {"init_timer", "init_workers", "ended"}
      /\ UNCHANGED <<num_workers, statsAt, tally, reported, served>>
  BY <1>1 DEF init_processes, optionVars, statsVars, exit_cleanup
<1>3. wdata \in [WorkerSlots -> Entry]
  BY DEF StatsInv, MasterInv, MasterTypes
<1>4. CASE k \in WorkerSlots
  <2>1. /\ \A i \in WorkerSlots : wdata'[i].trancnt_prev = wdata[i].trancnt_prev
        /\ \A i \in WorkerSlots : i # k => wdata'[i] = wdata[i]
        /\ wdata'[k].trancnt = 0
    BY <1>2, <1>3, <1>4 DEF Entry
  <2>2. \A i \in WorkerSlots : wdata[i].trancnt_prev = 0
    BY <1>2 DEF StatsInv, StatsPhase, Starting
  <2>3. StatsTypes'
    BY <1>2, <1>4, <2>1, <2>2 DEF StatsInv, StatsTypes
  <2>4. StatsPhase'
    BY <1>2, <2>1, <2>2 DEF StatsInv, StatsPhase
  <2>5. Pending'[k] = 0 /\ Pending[k] \in Nat
    BY <1>4, <2>1, <2>2 DEF Pending, StatsInv, StatsTypes
  <2>6. Pending'[k] - Pending[k] <= served' - served /\ served <= served'
    BY <1>2, <2>5 DEF StatsInv, StatsTypes
  <2> QED
    BY <1>2, <1>4, <2>1, <2>3, <2>4, <2>6, StatsCounter
<1>5. CASE k \notin WorkerSlots
  <2>1. wdata' = wdata
    BY <1>2, <1>3, <1>5
  <2> QED
    BY <1>2, <2>1, StatsQuiet DEF Starting
<1> QED
  BY <1>4, <1>5

LEMMA StatsServed ==
    ASSUME StatsInv, MasterInv', NEW i \in WorkerSlots, CountTransaction(i)
    PROVE  StatsInv'
<1>1. /\ workerAt[i] = "serving" /\ served' = served + 1
      /\ UNCHANGED <<masterAt, num_workers, statsAt, tally, reported>>
  BY DEF CountTransaction, optionVars, statsVars
<1>2. masterAt # "options"
  BY <1>1 DEF StatsInv, MasterInv, FirstWorkers, WorkerSlots
<1>3. wdata \in [WorkerSlots -> Entry] /\ served \in Nat
  BY DEF StatsInv, StatsTypes, MasterInv, MasterTypes
<1>4. CASE cpu_id(i) \in Entries
  <2>1. PICK k : k = cpu_id(i)
    OBVIOUS
  <2>2. k \in WorkerSlots /\ wdata' = [wdata EXCEPT ![k].trancnt = @ + 1]
    BY <1>4, <2>1 DEF CountTransaction, Entries
  <2>3. /\ \A j \in WorkerSlots : wdata'[j].trancnt_prev = wdata[j].trancnt_prev
        /\ \A j \in WorkerSlots : j # k => wdata'[j] = wdata[j]
        /\ wdata'[k].trancnt = wdata[k].trancnt + 1
    BY <1>3, <2>2 DEF Entry
  <2>4. StatsTypes'
    BY <1>1, <1>3, <2>2, <2>3 DEF StatsInv, StatsTypes
  <2>5. StatsPhase'
    BY <1>1, <1>2, <2>3 DEF StatsInv, StatsPhase
  <2>6. Pending'[k] = Pending[k] + 1 /\ Pending[k] \in Nat
    BY <2>2, <2>3 DEF Pending, StatsInv, StatsTypes
  <2>7. Pending'[k] - Pending[k] <= served' - served /\ served <= served'
    BY <1>1, <1>3, <2>6
  <2> QED
    BY <1>1, <2>2, <2>3, <2>4, <2>5, <2>7, StatsCounter
<1>5. CASE cpu_id(i) \notin Entries
  <2>1. wdata' = wdata
    BY <1>5 DEF CountTransaction
  <2>2. StatsTypes' /\ StatsPhase'
    BY <1>1, <1>2, <1>3, <2>1 DEF StatsInv, StatsTypes, StatsPhase
  <2>3. Pending'[i] = Pending[i] /\ Pending[i] \in Nat
    BY <2>1 DEF Pending, StatsInv, StatsTypes
  <2>4. Pending'[i] - Pending[i] <= served' - served /\ served <= served'
    BY <1>1, <1>3, <2>3
  <2> QED
    BY <1>1, <2>1, <2>2, <2>4, StatsCounter
<1> QED
  BY <1>4, <1>5

(* SIGALRM starts a report, SIGINT ends the master; no entry was half read *)
(* and nothing had been added up.                                          *)
LEMMA StatsWait ==
    ASSUME StatsInv, MasterInv', sigwait
    PROVE  StatsInv'
<1>1. /\ masterAt = "do_stats" /\ masterAt' \in {"report", "ended"}
      /\ tally' = 0 /\ statsAt' = [entry |-> 0, read |-> FALSE]
      /\ UNCHANGED <<num_workers, wdata, served, reported>>
  BY DEF sigwait, optionVars, exit_cleanup
<1>2. ~ statsAt.read /\ tally = 0
  BY <1>1 DEF StatsInv, StatsPhase
<1>3. StatsTypes' /\ StatsPhase'
  BY <1>1 DEF StatsInv, StatsTypes, StatsPhase, Starting
<1>4. Pending' = Pending /\ Unread' = Unread
  BY <1>1, <1>2 DEF Pending, Unread, Entries
<1>5. StatsSum'
  BY <1>1, <1>2, <1>4 DEF StatsInv, StatsSum
<1> QED
  BY <1>3, <1>5 DEF StatsInv

(* The entry moves from what is pending to the sum.                        *)
LEMMA StatsReads ==
    ASSUME StatsInv, MasterInv', StatsRead
    PROVE  StatsInv'
<1>1. /\ masterAt = "report" /\ statsAt.entry < num_workers /\ ~ statsAt.read
      /\ tally' = tally + wdata[statsAt.entry].trancnt - wdata[statsAt.entry].trancnt_prev
      /\ statsAt' = [statsAt EXCEPT !.read = TRUE]
      /\ UNCHANGED <<masterAt, num_workers, wdata, served, reported>>
  BY DEF StatsRead, optionVars, workerVars
<1>2. PICK k : k = statsAt.entry
  OBVIOUS
<1>3. /\ k \in WorkerSlots /\ num_workers \in Nat /\ num_workers' \in Nat
      /\ statsAt'.read /\ statsAt'.entry = k
  BY <1>1, <1>2, MasterServerAssumption
     DEF StatsInv, StatsTypes, StatsPhase, WorkerSlots, MasterInv, MasterTypes
<1>4. Pending' = Pending /\ Unread' = Unread \ {k} /\ k \in Unread
  BY <1>1, <1>2, <1>3 DEF Pending, Unread, Entries
<1>5. Pending[k] \in Nat /\ tally' = tally + Pending[k] /\ tally \in Nat
  BY <1>1, <1>2, <1>3 DEF Pending, StatsInv, StatsTypes
<1>6. StatsTypes' /\ StatsPhase'
  <2>1. statsAt' \in [entry : Nat, read : BOOLEAN] /\ statsAt'.entry = statsAt.entry /\ tally' \in Nat
    <3>1. statsAt \in [entry : Nat, read : BOOLEAN] /\ statsAt' = [statsAt EXCEPT !.read = TRUE]
      BY <1>1 DEF StatsInv, StatsTypes
    <3>2. tally' \in Nat
      BY <1>5
    <3> QED
      BY <3>1, <3>2
  <2>2. StatsTypes'
    BY <1>1, <2>1 DEF StatsInv, StatsTypes
  <2>3. StatsPhase'
    BY <1>1, <2>1 DEF StatsInv, StatsPhase, Starting
  <2> QED
    BY <2>2, <2>3
<1>7. /\ IsFiniteSet(Unread) /\ \A i \in Unread : Pending[i] \in Int
      /\ SumFunctionOnSet(Pending, Unread \ {k}) \in Int
  <2>1. StatsTypes
    BY DEF StatsInv
  <2>2. Unread \in SUBSET WorkerSlots /\ Unread \ {k} \in SUBSET WorkerSlots
    BY DEF Unread, Entries
  <2> QED
    BY <1>3, <1>6, <2>1, <2>2, StatsSums, SlotsFinite
<1>8. SumFunctionOnSet(Pending, Unread) = Pending[k] + SumFunctionOnSet(Pending, Unread \ {k})
  BY <1>4, <1>7, SumElement
<1>9. PICK b : b = SumFunctionOnSet(Pending, Unread \ {k})
  OBVIOUS
<1>10. /\ reported + tally + (Pending[k] + b) <= served
       /\ reported \in Nat /\ served \in Nat /\ b \in Int
  BY <1>7, <1>8, <1>9 DEF StatsInv, StatsSum, StatsTypes
<1>11. reported + tally' + b <= served
  BY <1>5, <1>10
<1>12. StatsSum'
  BY <1>1, <1>4, <1>9, <1>11 DEF StatsSum
<1> QED
  BY <1>6, <1>12 DEF StatsInv

(* The entry's counter is remembered, so nothing of it is pending.         *)
LEMMA StatsRemembers ==
    ASSUME StatsInv, MasterInv', StatsRemember
    PROVE  StatsInv'
<1>1. PICK k : k = statsAt.entry
  OBVIOUS
<1>2. /\ masterAt = "report" /\ statsAt.read /\ wdata' = [wdata EXCEPT ![k] = Remembered(@)]
      /\ statsAt' = [entry |-> k + 1, read |-> FALSE]
      /\ UNCHANGED <<masterAt, num_workers, served, reported, tally>>
  BY <1>1 DEF StatsRemember, optionVars
<1>3. wdata \in [WorkerSlots -> Entry]
  BY DEF StatsInv, MasterInv, MasterTypes
<1>4. k \in WorkerSlots /\ k < num_workers /\ masterAt = "report" /\ num_workers \in Nat /\ k \in Nat
  BY <1>1, <1>2, MasterServerAssumption
     DEF StatsInv, StatsTypes, StatsPhase, WorkerSlots, MasterInv, MasterTypes
<1>5. /\ \A i \in WorkerSlots : i # k => wdata'[i] = wdata[i]
      /\ \A i \in WorkerSlots : wdata'[i].trancnt = wdata[i].trancnt
      /\ wdata'[k].trancnt_prev = wdata[k].trancnt
  BY <1>2, <1>3, <1>4 DEF Remembered, Entry
<1>6. StatsTypes'
  BY <1>2, <1>4, <1>5 DEF StatsInv, StatsTypes
<1>7. StatsPhase'
  BY <1>2, <1>4, <1>5 DEF StatsInv, StatsPhase, Starting
<1>8. /\ \A i \in WorkerSlots : Pending[i] \in Nat /\ Pending'[i] \in Nat
      /\ \A S \in SUBSET WorkerSlots :
             SumFunctionOnSet(Pending, S) \in Int /\ SumFunctionOnSet(Pending', S) \in Int
      /\ Unread \in SUBSET WorkerSlots /\ Unread' \in SUBSET WorkerSlots
  <2>1. StatsTypes /\ num_workers' \in Nat
    BY <1>2, <1>4 DEF StatsInv
  <2> QED
    BY <1>4, <1>6, <2>1, StatsSums
<1>9. Unread = Unread' \ {k} /\ k \in Unread'
  BY <1>1, <1>2, <1>4 DEF Unread, Entries
<1>10. Pending'[k] = 0 /\ \A i \in WorkerSlots : i # k => Pending'[i] = Pending[i]
  BY <1>4, <1>5 DEF Pending, StatsInv, StatsTypes
<1>11. SumFunctionOnSet(Pending', Unread') = Pending'[k] + SumFunctionOnSet(Pending', Unread' \ {k})
  <2>1. IsFiniteSet(Unread') /\ \A i \in Unread' : Pending'[i] \in Int
    BY <1>8, SlotsFinite
  <2> QED
    BY <1>9, <2>1, SumElement
<1>12. SumFunctionOnSet(Pending', Unread) = SumFunctionOnSet(Pending, Unread)
  <2>1. IsFiniteSet(Unread) /\ \A i \in Unread : Pending'[i] = Pending[i]
    BY <1>8, <1>9, <1>10, SlotsFinite
  <2> QED
    BY <2>1, SumSame
<1>13. SumFunctionOnSet(Pending', Unread') = SumFunctionOnSet(Pending, Unread)
  BY <1>8, <1>9, <1>10, <1>11, <1>12
<1>14. StatsSum'
  BY <1>2, <1>13 DEF StatsInv, StatsSum
<1> QED
  BY <1>6, <1>7, <1>14 DEF StatsInv

LEMMA StatsPrints ==
    ASSUME StatsInv, MasterInv', StatsPrint
    PROVE  StatsInv'
<1>1. /\ masterAt = "report" /\ statsAt.entry = num_workers
      /\ reported' = reported + tally /\ tally' = 0 /\ masterAt' = "do_stats"
      /\ UNCHANGED <<num_workers, wdata, served, statsAt>>
  BY DEF StatsPrint, optionVars, workerVars
<1>2. ~ statsAt.read /\ num_workers \in Nat
  BY <1>1 DEF StatsInv, StatsPhase, MasterInv, MasterTypes
<1>3. StatsTypes' /\ StatsPhase'
  BY <1>1, <1>2 DEF StatsInv, StatsTypes, StatsPhase, Starting
<1>4. Pending' = Pending /\ Unread' = Unread
  BY <1>1 DEF Pending, Unread, Entries
<1>5. SumFunctionOnSet(Pending, Unread) \in Int
  <2>1. StatsTypes /\ Unread \in SUBSET WorkerSlots
    BY DEF StatsInv, Unread, Entries
  <2> QED
    BY <1>2, <2>1, StatsFinite
<1>6. StatsSum'
  BY <1>1, <1>4, <1>5 DEF StatsInv, StatsSum, StatsTypes
<1> QED
  BY <1>3, <1>6 DEF StatsInv

LEMMA StatsStep == StatsInv /\ [MasterNext]_masterVars => StatsInv'
<1> SUFFICES ASSUME StatsInv, [MasterNext]_masterVars PROVE StatsInv'
  OBVIOUS
<1>1. MasterInv'
  BY MasterStep DEF StatsInv
<1>2. CASE main_options
  BY <1>1, <1>2, StatsOptions
<1>3. ASSUME NEW from \in Starting \ {"options"}, NEW to, InitStep(from, to), to \notin {"options", "report"}
      PROVE  StatsInv'
  <2>1. /\ masterAt = from /\ masterAt' \in {to, "ended"}
        /\ UNCHANGED <<num_workers, wdata, statsAt, tally, reported, served>>
    BY <1>3 DEF InitStep, exit_cleanup, optionVars, statsVars
  <2>2. from # "options"
    BY <1>3
  <2> QED
    BY <1>1, <1>3, <2>1, <2>2, StatsQuiet DEF Starting
<1>4. CASE init_log \/ init_server \/ init_signal \/ init_timer
  BY <1>3, <1>4 DEF init_log, init_server, init_signal, init_timer, Starting
<1>5. CASE init_processes
  BY <1>1, <1>5, StatsCleared
<1>6. ASSUME NEW i \in WorkerSlots, Register(i) PROVE StatsInv'
  <2>1. wdata \in [WorkerSlots -> Entry]
    BY DEF StatsInv, MasterInv, MasterTypes
  <2>2. /\ wdata' = [wdata EXCEPT ![i].process = TRUE]
        /\ UNCHANGED <<masterAt, num_workers, statsAt, tally, reported, served>>
    BY <1>6 DEF Register, optionVars, statsVars
  <2>3. \A j \in WorkerSlots : /\ wdata'[j].trancnt = wdata[j].trancnt
                               /\ wdata'[j].trancnt_prev = wdata[j].trancnt_prev
    BY <2>1, <2>2 DEF Entry
  <2> QED
    BY <1>1, <2>2, <2>3, StatsQuiet
<1>7. ASSUME UNCHANGED <<masterAt, num_workers, wdata, statsAt, tally, reported, served>>
      PROVE  StatsInv'
  BY <1>1, <1>7, StatsQuiet
<1>8. ASSUME NEW i \in WorkerSlots, StartServing(i) \/ Terminated(i) PROVE StatsInv'
  BY <1>7, <1>8 DEF StartServing, Terminated, optionVars, statsVars
<1>9. ASSUME NEW i \in WorkerSlots, CountTransaction(i) PROVE StatsInv'
  BY <1>1, <1>9, StatsServed
<1>15. CASE MasterDies
  <2>1. masterAt' = "killed" /\ UNCHANGED <<num_workers, wdata, statsAt, tally, reported, served>>
    BY <1>15 DEF MasterDies, optionVars, workerVars, statsVars
  <2> QED  BY <1>1, <2>1, StatsQuiet DEF Starting
<1>10. CASE Raise \/ UNCHANGED masterVars
  BY <1>7, <1>10 DEF Raise, masterVars, optionVars, workerVars
<1>11. CASE sigwait
  BY <1>1, <1>11, StatsWait
<1>12. CASE StatsRead
  BY <1>1, <1>12, StatsReads
<1>13. CASE StatsRemember
  BY <1>1, <1>13, StatsRemembers
<1>14. CASE StatsPrint
  BY <1>1, <1>14, StatsPrints
<1> QED
  BY <1>2, <1>4, <1>5, <1>6, <1>8, <1>9, <1>10, <1>11, <1>12, <1>13, <1>14, <1>15 DEF MasterNext

(* The master never reports a transaction twice, nor one that no worker    *)
(* served, and no counter is behind what it remembers of it, for any       *)
(* number of processors and workers and however the reads of the counters  *)
(* fall between the transactions.                                          *)
THEOREM ReportsAreServed == MasterSpec => []StatsNeverOvercount
<1>1. StatsInv => StatsNeverOvercount
  BY DEF StatsInv, StatsNeverOvercount, StatsSum, StatsTypes, Entries
<1> QED
  BY StatsInitially, StatsStep, <1>1, PTL DEF MasterSpec

-----------------------------------------------------------------------------
(* ProcessPool, for every number of children and connections.              *)

(* The part of the types the proofs need.                                  *)
PoolTypes ==
    /\ parent \in ParentState
    /\ m_pid \in [Children -> BOOLEAN]
    /\ counter \in Children
    /\ child \in [Children -> ChildState]
    /\ sentTo \in [Children -> Nat]

(* A child has no pid exactly when it has been waited for.                 *)
MarkedGone == \A i \in Children : ~m_pid[i] <=> child[i] = "gone"

(* The children before the turn are one message ahead of the others.       *)
Ahead(n) == \A i \in Children : sentTo[i] = IF i < counter THEN n + 1 ELSE n
Level    == (\A i \in Children : m_pid[i]) => \E n \in Nat : Ahead(n)

PoolInv == PoolTypes /\ MarkedGone /\ StopsWithLastChild /\ Level

(* A remainder below the modulus.                                          *)
LEMMA SmallRemainder ==
    ASSUME NEW a \in Nat, NEW n \in Nat, a < n
    PROVE  a % n = a
OBVIOUS

(* With every child in place the turn is at sub_process_counter itself.    *)
LEMMA TurnIsCounter ==
    ASSUME PoolTypes, \A i \in Children : m_pid[i], NEW j \in Children, Chosen(j)
    PROVE  j = counter
<1>. USE ProcessPoolAssumption DEF PoolTypes, Children
<1>1. Offset(0) = counter /\ counter \in Children
  <2>1. counter \in Nat /\ counter < m_process_number /\ m_process_number \in Nat
    BY SMT
  <2>2. counter % m_process_number = counter
    BY <2>1, SmallRemainder
  <2>3. counter + 0 = counter
    BY <2>1, SMT
  <2>. QED  BY <2>2, <2>3 DEF Offset
<1>2. PICK k \in Children : j = Offset(k) /\ \A l \in 0 .. k - 1 : ~m_pid[Offset(l)]
  BY DEF Chosen
<1>3. k = 0
  <2>1. SUFFICES ASSUME k # 0 PROVE FALSE
    OBVIOUS
  <2>2. 0 \in 0 .. k - 1
    BY <2>1, SMT
  <2>. QED  BY <1>1, <1>2, <2>2
<1>. QED  BY <1>1, <1>2, <1>3

(* After a child's turn comes a child's turn: the next one, or the first.  *)
LEMMA TurnIsChild ==
    ASSUME NEW i \in Children
    PROVE  /\ NextTurn(i) \in Children
           /\ NextTurn(i) = IF i = m_process_number - 1 THEN 0 ELSE i + 1
<1>. USE ProcessPoolAssumption DEF Children, NextTurn
<1>1. CASE i = m_process_number - 1
  <2>1. i + 1 = m_process_number /\ m_process_number % m_process_number = 0
    BY <1>1, SMT
  <2>. QED  BY <1>1, <2>1, SMT
<1>2. CASE i # m_process_number - 1
  <2>1. i + 1 \in Nat /\ i + 1 < m_process_number
    BY <1>2, SMT
  <2>2. (i + 1) % m_process_number = i + 1
    BY <2>1, SmallRemainder
  <2>. QED  BY <1>2, <2>1, <2>2, SMT
<1>. QED  BY <1>1, <1>2

(* The constructor establishes the invariant.                              *)
LEMMA PoolInitially == PoolInit => PoolInv
<1>. SUFFICES ASSUME PoolInit PROVE PoolInv
  OBVIOUS
<1>. USE ProcessPoolAssumption DEF PoolInit, Children
<1>1. PoolTypes
  BY SMT DEF PoolTypes, ParentState, ChildState
<1>2. MarkedGone /\ StopsWithLastChild
  BY DEF MarkedGone, StopsWithLastChild
<1>3. Ahead(0)
  BY SMT DEF Ahead
<1>. QED  BY <1>1, <1>2, <1>3, 0 \in Nat DEF PoolInv, Level

(* Preservation, one step per action.  Only ParentDispatch moves the turn, *)
(* and only ParentReap marks children and stops the parent.                *)
LEMMA PoolStep == PoolInv /\ [PoolNext]_poolVars => PoolInv'
<1>. SUFFICES ASSUME PoolInv, [PoolNext]_poolVars PROVE PoolInv'
  OBVIOUS
<1>. USE DEF PoolInv, PoolTypes, MarkedGone, StopsWithLastChild, ParentState, ChildState
<1>0. ASSUME UNCHANGED <<m_pid, counter, sentTo>> PROVE Level'
  BY <1>0 DEF Level, Ahead
<1>1. CASE Connect
  BY <1>0, <1>1 DEF Connect
<1>2. CASE Terminate
  BY <1>0, <1>2 DEF Terminate
<1>3. ASSUME NEW i \in Children, ChildDies(i) PROVE PoolInv'
  BY <1>0, <1>3 DEF ChildDies, Exits, ChildAlive
<1>4. ASSUME NEW i \in Children, ChildSetup(i) PROVE PoolInv'
  BY <1>0, <1>4 DEF ChildSetup
<1>5. ASSUME NEW i \in Children, ChildAccept(i) PROVE PoolInv'
  BY <1>0, <1>5 DEF ChildAccept
<1>6. ASSUME NEW i \in Children, ChildStop(i) PROVE PoolInv'
  BY <1>0, <1>6 DEF ChildStop, Exits
<1>7. CASE ParentSetup
  BY <1>0, <1>7 DEF ParentSetup
<1>8. CASE ParentDispatch
  <2>1. PICK i \in Children : /\ Chosen(i)
                              /\ counter' = NextTurn(i)
                              /\ sentTo' = [sentTo EXCEPT ![i] = @ + 1]
    BY <1>8 DEF ParentDispatch
  <2>2. UNCHANGED <<parent, m_pid, child>>
    BY <1>8 DEF ParentDispatch
  <2>3. PoolTypes' /\ MarkedGone' /\ StopsWithLastChild'
    BY <2>1, <2>2, TurnIsChild
  <2>4. Level'
    <3>1. SUFFICES ASSUME \A j \in Children : m_pid[j] PROVE (\E n \in Nat : Ahead(n))'
      BY <2>2 DEF Level
    <3>2. i = counter
      BY <2>1, <3>1, TurnIsCounter
    <3>3. PICK n \in Nat : Ahead(n)
      BY <3>1 DEF Level
    <3>4. CASE i = m_process_number - 1
      <4>1. counter' = 0
        BY <2>1, <3>4, TurnIsChild
      <4>2. \A j \in Children : sentTo'[j] = n + 1
        BY <2>1, <3>2, <3>3, <3>4, ProcessPoolAssumption, SMT DEF Ahead, Children
      <4>3. n + 1 \in Nat /\ Ahead(n + 1)'
        BY <4>1, <4>2, SMT DEF Ahead, Children
      <4>. QED  BY <4>3
    <3>5. CASE i # m_process_number - 1
      <4>1. counter' = i + 1
        BY <2>1, <3>5, TurnIsChild
      <4>2. Ahead(n)'
        BY <2>1, <3>2, <3>3, <4>1, SMT DEF Ahead, Children
      <4>. QED  BY <4>2
    <3>. QED  BY <3>4, <3>5
  <2>. QED  BY <2>3, <2>4
<1>9. CASE ParentReap
  <2>1. PoolTypes'
    BY <1>9 DEF ParentReap
  <2>2. MarkedGone' /\ StopsWithLastChild'
    BY <1>9 DEF ParentReap, run_parent_m_stop
  <2>3. Level'
    BY <1>9 DEF ParentReap, Level, Ahead
  <2>. QED  BY <2>1, <2>2, <2>3
<1>10. CASE ParentKill
  <2>1. PoolTypes' /\ MarkedGone' /\ StopsWithLastChild'
    BY <1>10 DEF ParentKill, Killed
  <2>. QED  BY <1>0, <1>10, <2>1 DEF ParentKill
<1>11. CASE ParentDies
  BY <1>0, <1>11 DEF ParentDies
<1>12. CASE ParentFails
  BY <1>0, <1>12 DEF ParentFails
<1>13. CASE UNCHANGED poolVars
  BY <1>0, <1>13 DEF poolVars
<1>. QED  BY <1>1, <1>2, <1>3, <1>4, <1>5, <1>6, <1>7, <1>8, <1>9, <1>10, <1>11, <1>12, <1>13
          DEF PoolNext

(* The inductive invariant holds of every behaviour.                       *)
THEOREM PoolInvariance == PoolSpec => []PoolInv
BY PoolInitially, PoolStep, PTL DEF PoolSpec

(* m_stop ends run_parent exactly when every child has been waited for,    *)
(* with any number of children; a failed epoll_wait and uncaught signals   *)
(* are steps of PoolSpec, and do end it before.                                *)
THEOREM LastOut == PoolSpec => []StopsWithLastChild
<1>1. PoolInv => StopsWithLastChild
  BY DEF PoolInv
<1>. QED  BY PoolInvariance, <1>1, PTL

(* The round robin of run_parent spreads the messages evenly.              *)
THEOREM EvenSpread == PoolSpec => []RoundRobin
<1>1. PoolInv => RoundRobin
  <2>. SUFFICES ASSUME PoolInv, \A i \in Children : m_pid[i], NEW i \in Children, NEW j \in Children
                PROVE  sentTo[i] <= sentTo[j] + 1
    BY DEF RoundRobin
  <2>1. PICK n \in Nat : Ahead(n)
    BY DEF PoolInv, Level
  <2>. QED  BY <2>1, SMT DEF Ahead, PoolInv, PoolTypes
<1>. QED  BY PoolInvariance, <1>1, PTL
=============================================================================
