-------------------------- MODULE ConnWorkerProofs --------------------------
(***************************************************************************)
(* Theorems about ConnWorker for any size of the context pool, any number  *)
(* of descriptors, any batch size and any number of backends.              *)
(***************************************************************************)
EXTENDS ConnWorker, ListFacts

-----------------------------------------------------------------------------
(* Types.                                                                  *)

(* The kernel's lowest free descriptor is one, and it is not open.         *)
LEMMA NewFdFree ==
    ASSUME FreeFds # {}
    PROVE  NewFd \in FD /\ NewFd \notin open
  <1>1. FreeFds \subseteq Nat
    BY ConnWorkerAssumption DEF FreeFds, FD
  <1>2. \E x \in FreeFds : \A y \in FreeFds : x <= y
    BY <1>1, LeastNat
  <1>3. NewFd \in FreeFds
    BY <1>2 DEF NewFd, Min
  <1> QED
    BY <1>3 DEF FreeFds

(* The loop is at an event of the batch, whose context is in the pool.     *)
LEMMA CurrentType ==
    ASSUME TypeOK, batch # <<>>
    PROVE  /\ This \in Idx /\ Ctx \in Context
           /\ Current \in Event /\ Current = batch[1]
           /\ Tail(batch) \in Seq(Event) /\ Len(Tail(batch)) <= EVENTS_PER_BATCH
           /\ Len(batch) \in Nat \ {0}
  <1>1. batch \in Seq(Event) /\ Len(batch) \in Nat \ {0} /\ Len(batch) <= EVENTS_PER_BATCH
    BY DEF TypeOK
  <1>2. batch[1] \in Event /\ Current = batch[1]
    BY <1>1 DEF Current
  <1>3. This \in Idx
    BY <1>2 DEF This, Event
  <1>4. Ctx \in Context
    BY <1>3 DEF Ctx, TypeOK
  <1>5. Tail(batch) \in Seq(Event) /\ Len(Tail(batch)) = Len(batch) - 1
    BY <1>1
  <1> QED
    BY <1>1, <1>2, <1>3, <1>4, <1>5, ConnWorkerAssumption

(* The part of the state that the handlers change.                         *)
PoolType ==
    /\ arr \in [Idx -> Context]
    /\ next_idx \in Idx \cup {End}
    /\ allocated \in 0 .. total
    /\ open \subseteq FD
    /\ ep \in [FD -> Registration]
    /\ batch \in Seq(Event) /\ Len(batch) <= EVENTS_PER_BATCH
    /\ exit \in {"no", "alloc_assert", "free_assert", "SIGPIPE", "undefined"}

LEMMA FreeBackType ==
    ASSUME TypeOK, batch # <<>>, NEW c \in Context, FreeBack(c)
    PROVE  PoolType'
  <1> USE CurrentType
  <1>1. open' \subseteq FD /\ ep' \in [FD -> Registration]
    BY DEF FreeBack, process_close, TypeOK, Registration
  <1>2. allocated' \in 0 .. total /\ exit' \in {"no", "free_assert"}
    BY ConnWorkerAssumption DEF FreeBack, free_context, TypeOK
  <1>3. next_idx' \in Idx \cup {End} /\ arr' \in [Idx -> Context]
    BY DEF FreeBack, free_context, TypeOK, Context
  <1>4. batch' \in Seq(Event) /\ Len(batch') <= EVENTS_PER_BATCH
    <2> DEFINE n == Len(batch) - 1
               e(k) == [batch[k + 1] EXCEPT !.orphan = @ \/ batch[k + 1].ctx = This]
    <2>1. n \in Nat /\ n <= EVENTS_PER_BATCH
      BY ConnWorkerAssumption DEF TypeOK
    <2>2. ASSUME NEW k \in 1 .. n PROVE e(k) \in Event
      <3>1. batch[k + 1] \in Event
        BY <2>1 DEF TypeOK
      <3>2. (batch[k + 1].orphan \/ batch[k + 1].ctx = This) \in BOOLEAN
        OBVIOUS
      <3> QED
        BY <3>1, <3>2 DEF Event
    <2>3. batch' = [k \in 1 .. n |-> e(k)]
      BY DEF FreeBack, free_context
    <2> HIDE DEF n, e
    <2> QED
      BY <2>1, <2>2, <2>3
  <1> QED
    BY <1>1, <1>2, <1>3, <1>4 DEF PoolType

LEMMA GoOnType ==
    ASSUME TypeOK, batch # <<>>, NEW c \in Context, NEW regs \in [FD -> Registration],
           GoOn(c, regs), open' \subseteq FD
    PROVE  PoolType'
  BY CurrentType DEF GoOn, NextEvent, TypeOK, PoolType

LEMMA DiesType ==
    ASSUME TypeOK, batch # <<>>, NEW how \in {"alloc_assert", "SIGPIPE", "undefined"}, Dies(how)
    PROVE  PoolType'
  BY CurrentType DEF Dies, NextEvent, Stay, TypeOK, PoolType

(* The five outcomes of process_accept.                                    *)
LEMMA AcceptType ==
    ASSUME TypeOK,
           AcceptNothing \/ Accept \/ AcceptNotAdded \/ AcceptAsserts \/ AcceptUndefined
    PROVE  PoolType'
  <1>0. batch # <<>>
    BY DEF AcceptNothing, Accept, AcceptNotAdded, AcceptAsserts, AcceptUndefined, Dispatch
  <1>1. CASE AcceptNothing
    BY <1>0, <1>1, CurrentType DEF AcceptNothing, NextEvent, Stay, TypeOK, PoolType
  <1>2. CASE AcceptAsserts \/ AcceptUndefined
    BY <1>0, <1>2, DiesType DEF AcceptAsserts, AcceptUndefined
  <1>3. CASE Accept \/ AcceptNotAdded
    <2>1. /\ FreeFds # {} /\ allocated < total /\ next_idx \in Idx /\ NextEvent
          /\ UNCHANGED exit
      BY <1>3 DEF Accept, AcceptNotAdded, TypeOK
    <2>2. NewFd \in FD
      BY <2>1, NewFdFree
    <2>3. Client(next_idx) \in Context /\ arr[next_idx].next_idx \in Idx \cup {End}
      <3>1. arr[next_idx] \in Context
        BY <2>1 DEF TypeOK
      <3> QED
        BY <2>2, <3>1
           DEF Client, Context, Handler, WebHandler, ProxyHandler
    <2>4. batch' \in Seq(Event) /\ Len(batch') <= EVENTS_PER_BATCH
      BY <1>0, <2>1, CurrentType DEF NextEvent
    <2>5. CASE Accept
      <3>1. arr' \in [Idx -> Context] /\ next_idx' \in Idx \cup {End}
        BY <2>1, <2>3, <2>5 DEF Accept, alloc_context, TypeOK
      <3>2. allocated' \in 0 .. total
        BY <2>1, <2>5, ConnWorkerAssumption DEF Accept, alloc_context, TypeOK
      <3>3. open' \subseteq FD /\ ep' \in [FD -> Registration]
        BY <2>1, <2>2, <2>5 DEF Accept, TypeOK, Registration
      <3> QED
        BY <2>1, <2>4, <3>1, <3>2, <3>3 DEF PoolType, TypeOK
    <2>6. CASE AcceptNotAdded
      <3>1. arr' \in [Idx -> Context]
        <4>1. [Client(next_idx) EXCEPT !.next_idx = arr[next_idx].next_idx] \in Context
          BY <2>3 DEF Context
        <4> QED
          BY <2>1, <2>6, <4>1 DEF AcceptNotAdded, TypeOK
      <3> QED
        BY <2>1, <2>4, <2>6, <3>1 DEF PoolType, TypeOK, AcceptNotAdded
    <2> QED
      BY <1>3, <2>5, <2>6
  <1> QED
    BY <1>1, <1>2, <1>3

(* What a handler does to its context and its registrations is well typed. *)
LEMMA HandlerType ==
    ASSUME TypeOK,
           \/ process_read \/ process_write \/ process_read_frontend
           \/ process_write_backend \/ process_read_backend \/ process_write_frontend
    PROVE  PoolType' /\ last' \in 0 .. pa_num - 1
  <1>0. batch # <<>>
    BY DEF process_read, process_write, process_read_frontend, process_write_backend,
           process_read_backend, process_write_frontend, Dispatch
  <1>1. /\ This \in Idx /\ Ctx \in Context /\ ep \in [FD -> Registration] /\ open \subseteq FD
        /\ last \in 0 .. pa_num - 1 /\ select_backend \in 0 .. pa_num - 1
    BY <1>0, CurrentType, ConnWorkerAssumption DEF TypeOK, select_backend
  <1>2. \A f \in open, m \in {"in", "out", "hup"} : Armed(f, m) \in [FD -> Registration]
    BY <1>1 DEF Armed, Registration
  <1>4. CASE process_read
    <2>1. CASE FreeBack(Ctx)
      BY <1>0, <1>1, <1>4, <2>1, FreeBackType DEF process_read
    <2>2. CASE /\ Ctx.fd \in open /\ UNCHANGED open
               /\ GoOn([Ctx EXCEPT !.handler = "process_write"], Armed(Ctx.fd, "out"))
      <3>1. [Ctx EXCEPT !.handler = "process_write"] \in Context
        BY <1>1 DEF Context, Handler, WebHandler
      <3> QED
        BY <1>0, <1>1, <1>2, <1>4, <2>2, <3>1, GoOnType DEF process_read
    <2> QED
      BY <1>4, <2>1, <2>2 DEF process_read
  <1>5. CASE process_write
    <2>1. CASE FreeBack(Ctx)
      BY <1>0, <1>1, <1>5, <2>1, FreeBackType DEF process_write
    <2>2. CASE Dies("SIGPIPE")
      BY <1>0, <1>1, <1>5, <2>2, DiesType DEF process_write
    <2>3. CASE /\ Ctx.fd \in open /\ UNCHANGED open
               /\ GoOn([Ctx EXCEPT !.handler = "process_read"], Armed(Ctx.fd, "in"))
      <3>1. [Ctx EXCEPT !.handler = "process_read"] \in Context
        BY <1>1 DEF Context, Handler, WebHandler
      <3> QED
        BY <1>0, <1>1, <1>2, <1>5, <2>3, <3>1, GoOnType DEF process_write
    <2> QED
      BY <1>5, <2>1, <2>2, <2>3 DEF process_write
  <1>6. CASE process_read_frontend
    <2>0. last' \in 0 .. pa_num - 1
      BY <1>1, <1>6 DEF process_read_frontend
    <2>1. CASE FreeBack(Ctx)
      BY <1>0, <1>1, <2>0, <2>1, FreeBackType
    <2>2. ASSUME FreeFds # {}
          PROVE  /\ WithBackend \in Context /\ Connecting \in Context /\ NewFd \in FD
      BY <1>1, <2>2, NewFdFree
         DEF WithBackend, Connecting, Context, Handler, ProxyHandler
    <2>3. CASE FreeFds # {} /\ (FreeBack(WithBackend) \/ FreeBack(Connecting))
      BY <1>0, <2>0, <2>2, <2>3, FreeBackType
    <2>4. CASE /\ FreeFds # {} /\ Ctx.fd \in open /\ open' = open \cup {NewFd}
               /\ GoOn(Connecting,
                       [Armed(Ctx.fd, "hup") EXCEPT ![NewFd] = [ctx |-> This, mask |-> "out"]])
      <3>1. [Armed(Ctx.fd, "hup") EXCEPT ![NewFd] = [ctx |-> This, mask |-> "out"]]
               \in [FD -> Registration]
        BY <1>1, <1>2, <2>4 DEF Registration
      <3> QED
        BY <1>0, <1>1, <2>0, <2>2, <2>4, <3>1, GoOnType
    <2> QED
      BY <1>6, <2>1, <2>3, <2>4 DEF process_read_frontend
  <1>7. CASE process_write_backend
    <2>1. CASE FreeBack(Ctx)
      BY <1>0, <1>1, <1>7, <2>1, FreeBackType DEF process_write_backend
    <2>2. CASE Dies("SIGPIPE")
      BY <1>0, <1>1, <1>7, <2>2, DiesType DEF process_write_backend
    <2>3. CASE /\ Ctx.end_fd \in open /\ UNCHANGED open
               /\ GoOn([Ctx EXCEPT !.handler = "process_read_backend"], Armed(Ctx.end_fd, "in"))
      <3>1. [Ctx EXCEPT !.handler = "process_read_backend"] \in Context
        BY <1>1 DEF Context, Handler, ProxyHandler
      <3> QED
        BY <1>0, <1>1, <1>2, <1>7, <2>3, <3>1, GoOnType DEF process_write_backend
    <2> QED
      BY <1>7, <2>1, <2>2, <2>3 DEF process_write_backend
  <1>8. CASE process_read_backend
    <2>1. CASE FreeBack(Ctx)
      BY <1>0, <1>1, <1>8, <2>1, FreeBackType DEF process_read_backend
    <2>2. CASE /\ {Ctx.fd, Ctx.end_fd} \subseteq open /\ UNCHANGED open
               /\ GoOn([Ctx EXCEPT !.handler = "process_write_frontend", !.flag = FALSE],
                       AnswerFrontend)
      <3>1. [Ctx EXCEPT !.handler = "process_write_frontend", !.flag = FALSE] \in Context
        BY <1>1 DEF Context, Handler, ProxyHandler
      <3>2. AnswerFrontend \in [FD -> Registration]
        BY <1>1, <1>2, <2>2 DEF AnswerFrontend, Registration
      <3> QED
        BY <1>0, <1>1, <1>8, <2>2, <3>1, <3>2, GoOnType DEF process_read_backend
    <2> QED
      BY <1>8, <2>1, <2>2 DEF process_read_backend
  <1>9. CASE process_write_frontend
    <2>1. CASE FreeBack(Ctx)
      BY <1>0, <1>1, <1>9, <2>1, FreeBackType DEF process_write_frontend
    <2>2. CASE Dies("SIGPIPE")
      BY <1>0, <1>1, <1>9, <2>2, DiesType DEF process_write_frontend
    <2> QED
      BY <1>9, <2>1, <2>2 DEF process_write_frontend
  <1> QED
    BY <1>4, <1>5, <1>6, <1>7, <1>8, <1>9

(* epoll_wait fills the batch with events of contexts of the pool.         *)
LEMMA EpollWaitType ==
    ASSUME TypeOK, EpollWait
    PROVE  batch' \in Seq(Event) /\ Len(batch') <= EVENTS_PER_BATCH
  <1> DEFINE Added == {f \in FD : ep[f] # NotAdded}
  <1>0. PICK n \in 1 .. EVENTS_PER_BATCH :
           \E s \in [1 .. n -> Added], e \in [1 .. n -> {"ready", "hup"}] :
              /\ IsInjective(s)
              /\ \A k \in 1 .. n : e[k] = "ready" => ep[s[k]].mask # "hup"
              /\ batch' = [k \in 1 .. n |-> [ctx |-> ep[s[k]].ctx, ev |-> e[k], orphan |-> FALSE]]
    BY ONLY EpollWait, Zenon DEF EpollWait
  <1>1. PICK s \in [1 .. n -> Added], e \in [1 .. n -> {"ready", "hup"}] :
           batch' = [k \in 1 .. n |-> [ctx |-> ep[s[k]].ctx, ev |-> e[k], orphan |-> FALSE]]
    BY <1>0
  <1>2. \A k \in 1 .. n : ep[s[k]].ctx \in Idx
    BY DEF TypeOK, Registration
  <1>3. \A k \in 1 .. n : [ctx |-> ep[s[k]].ctx, ev |-> e[k], orphan |-> FALSE] \in Event
    BY <1>2 DEF Event
  <1>4. n \in Nat /\ n <= EVENTS_PER_BATCH
    BY ConnWorkerAssumption
  <1> QED
    BY <1>1, <1>3, <1>4

(* Every step keeps the types, stale contexts or not.                      *)
LEMMA TypeNext == TypeOK /\ [Next]_vars => TypeOK'
  <1> SUFFICES ASSUME TypeOK, [Next]_vars PROVE TypeOK'
    OBVIOUS
  <1>1. CASE Ended \/ UNCHANGED vars
    BY <1>1 DEF Ended, vars, TypeOK
  <1>2. CASE EpollWait
    BY <1>2, EpollWaitType DEF EpollWait, TypeOK
  <1>3. ASSUME NEW h, Dispatch(h) PROVE stale' \in BOOLEAN
    <2>1. stale' = (stale \/ Current.orphan \/ This \in FreeIdx)
      BY <1>3 DEF Dispatch
    <2> QED
      BY <2>1, Zenon
  <1>4. CASE AcceptNothing \/ Accept \/ AcceptNotAdded \/ AcceptAsserts \/ AcceptUndefined
    <2>1. UNCHANGED <<enable_proxy, last>> /\ stale' \in BOOLEAN
      BY <1>3, <1>4 DEF AcceptNothing, Accept, AcceptNotAdded, AcceptAsserts, AcceptUndefined
    <2> QED
      BY <1>4, <2>1, AcceptType DEF TypeOK, PoolType
  <1>5. CASE \/ process_read \/ process_write \/ process_read_frontend
             \/ process_write_backend \/ process_read_backend \/ process_write_frontend
    <2>1. UNCHANGED enable_proxy /\ stale' \in BOOLEAN
      BY <1>3, <1>5 DEF process_read, process_write, process_read_frontend,
                        process_write_backend, process_read_backend, process_write_frontend
    <2> QED
      BY <1>5, <2>1, HandlerType DEF TypeOK, PoolType
  <1> QED
    BY <1>1, <1>2, <1>4, <1>5 DEF Next

(* The pool and the listening socket as process_clients sets them up.      *)
LEMMA TypeInit == Init => TypeOK
  <1> SUFFICES ASSUME Init PROVE TypeOK
    OBVIOUS
  <1>1. 0 \in Idx /\ 1 \in FD /\ total - 1 \in Nat
    BY ConnWorkerAssumption DEF Idx, FD
  <1>2. ASSUME NEW i \in Idx
        PROVE  [fd |-> IF i = Listener THEN ListenFd ELSE NoFd, end_fd |-> NoFd,
                handler |-> IF i = Listener THEN "process_accept" ELSE "unset",
                flag |-> FALSE,
                next_idx |-> IF i = Listener \/ i = total - 1 THEN End ELSE i + 1] \in Context
    <2>1. (IF i = Listener \/ i = total - 1 THEN End ELSE i + 1) \in Idx \cup {End}
      BY <1>1, ConnWorkerAssumption DEF Idx
    <2> QED
      BY <1>1, <2>1 DEF Context, Handler, ListenFd, NoFd
  <1>3. arr \in [Idx -> Context]
    BY <1>2 DEF Init
  <1>4. next_idx \in Idx \cup {End} /\ allocated \in 0 .. total
    BY ConnWorkerAssumption DEF Init, Idx
  <1>5. open \subseteq FD /\ ep \in [FD -> Registration]
    BY <1>1 DEF Init, ListenFd, Listener, Registration
  <1>6. batch \in Seq(Event) /\ Len(batch) <= EVENTS_PER_BATCH /\ last \in 0 .. pa_num - 1
    BY ConnWorkerAssumption DEF Init
  <1>7. enable_proxy \in BOOLEAN /\ stale \in BOOLEAN /\ exit = "no"
    BY DEF Init
  <1> QED
    BY <1>3, <1>4, <1>5, <1>6, <1>7 DEF TypeOK

(* Every index, descriptor, registration and counter of the worker stays   *)
(* in its range, even after an event of a closed connection was handled.   *)
THEOREM TypeCorrect == Spec => []TypeOK
  BY TypeInit, TypeNext, PTL DEF Spec

-----------------------------------------------------------------------------
(* The free list.                                                          *)

(* What FreeList follows from head nx in contexts a, and one round of it.  *)
Follow(a, nx, F) ==
    [k \in 0 .. total |-> IF k = 0 THEN nx
                          ELSE IF F[k - 1] = End THEN End ELSE a[F[k - 1]].next_idx]
Walk(a, nx) == CHOOSE F : F = Follow(a, nx, F)

(* The list s links free contexts from head nx to the end, in contexts a.  *)
Links(s, a, nx) ==
    /\ s \in Seq(Idx) /\ IsInjective(s)
    /\ nx = IF s = <<>> THEN End ELSE s[1]
    /\ \A k \in 1 .. Len(s) : a[s[k]].next_idx = IF k = Len(s) THEN End ELSE s[k + 1]

(* The recursive function FreeList has one solution.                       *)
LEMMA WalkUnique ==
    ASSUME NEW a, NEW nx, NEW g, g = Follow(a, nx, g)
    PROVE  Walk(a, nx) = g
  <1> DEFINE W == Walk(a, nx)
  <1>1. W = Follow(a, nx, W)
    BY DEF Walk
  <1> HIDE DEF W
  <1>2. DOMAIN W = 0 .. total /\ DOMAIN g = 0 .. total
    BY <1>1 DEF Follow
  <1> DEFINE Bad == {k \in 0 .. total : W[k] # g[k]}
  <1>3. Bad = {}
    <2> SUFFICES ASSUME Bad # {} PROVE FALSE
      OBVIOUS
    <2>1. Bad \subseteq Nat
      BY ConnWorkerAssumption
    <2>2. PICK k \in Bad : \A j \in Bad : k <= j
      BY <2>1, LeastNat
    <2>3. CASE k = 0
      <3>1. 0 \in 0 .. total
        BY ConnWorkerAssumption
      <3>2. W[0] = nx /\ g[0] = nx
        BY <1>1, <3>1 DEF Follow
      <3> QED
        BY <2>3, <3>2
    <2>4. CASE k # 0
      <3>1. k \in 0 .. total /\ k - 1 \in 0 .. total /\ k - 1 < k
        BY <2>4, ConnWorkerAssumption
      <3>2. W[k - 1] = g[k - 1]
        BY <2>2, <3>1
      <3>3. /\ W[k] = IF W[k - 1] = End THEN End ELSE a[W[k - 1]].next_idx
            /\ g[k] = IF g[k - 1] = End THEN End ELSE a[g[k - 1]].next_idx
        BY <1>1, <2>4, <3>1 DEF Follow
      <3> QED
        BY <3>2, <3>3
    <2> QED
      BY <2>3, <2>4
  <1>4. \A k \in 0 .. total : W[k] = g[k]
    BY <1>3
  <1>5. W = [k \in 0 .. total |-> W[k]] /\ g = [k \in 0 .. total |-> g[k]]
    BY <1>1, <1>2 DEF Follow
  <1> QED
    BY <1>4, <1>5 DEF W

(* Following a linked list visits its elements in order, then stays at the *)
(* end.                                                                    *)
LEMMA WalkLinks ==
    ASSUME NEW a, NEW nx, NEW s, Links(s, a, nx)
    PROVE  /\ Len(s) \in 0 .. total
           /\ Walk(a, nx)[Len(s)] = End
           /\ {Walk(a, nx)[k] : k \in 0 .. total} \ {End} = Range(s)
           /\ Cardinality(Range(s)) = Len(s)
  <1> DEFINE g == [k \in 0 .. total |-> IF k < Len(s) THEN s[k + 1] ELSE End]
  <1>1. s \in Seq(Idx) /\ IsInjective(s) /\ Len(s) \in Nat /\ DOMAIN s = 1 .. Len(s)
    BY DEF Links
  <1>2. Len(s) <= total /\ Cardinality(Range(s)) = Len(s)
    <2>1. IsFiniteSet(Range(s)) /\ Cardinality(Range(s)) = Len(s)
      BY <1>1, RangeCount
    <2>2. IsFiniteSet(Idx) /\ Cardinality(Idx) = total
      BY FS_Interval, ConnWorkerAssumption DEF Idx
    <2>3. Range(s) \subseteq Idx
      BY <1>1 DEF Range
    <2> QED
      BY <2>1, <2>2, <2>3, FS_Subset
  <1>3. \A k \in 1 .. Len(s) : s[k] \in Idx /\ s[k] # End
    BY <1>1, ConnWorkerAssumption DEF Idx, End
  <1>4. g = Follow(a, nx, g)
    <2>1. ASSUME NEW k \in 0 .. total
          PROVE  g[k] = IF k = 0 THEN nx
                        ELSE IF g[k - 1] = End THEN End ELSE a[g[k - 1]].next_idx
      <3>1. k \in Nat /\ k <= total
        BY ConnWorkerAssumption
      <3>2. CASE k = 0
        <4>1. g[0] = IF 0 < Len(s) THEN s[1] ELSE End
          BY ConnWorkerAssumption
        <4>2. nx = IF 0 < Len(s) THEN s[1] ELSE End
          <5>1. 0 < Len(s) <=> s # <<>>
            BY <1>1, EmptyFacts
          <5> QED
            BY <5>1, Zenon DEF Links
        <4>3. g[0] = nx
          BY <4>1, <4>2
        <4> HIDE DEF g
        <4> QED
          BY <3>2, <4>3
      <3>3. CASE k # 0
        <4>1. k - 1 \in 0 .. total
          BY <3>1, <3>3, ConnWorkerAssumption
        <4>2. g[k - 1] = IF k - 1 < Len(s) THEN s[k] ELSE End
          BY <3>1, <4>1
        <4>3. CASE k - 1 < Len(s)
          <5>1. k \in 1 .. Len(s)
            BY <1>1, <3>1, <3>3, <4>3
          <5>2. g[k - 1] = s[k] /\ s[k] # End
            BY <1>3, <4>2, <4>3, <5>1
          <5>3. a[s[k]].next_idx = IF k = Len(s) THEN End ELSE s[k + 1]
            BY <5>1 DEF Links
          <5>4. g[k] = IF k < Len(s) THEN s[k + 1] ELSE End
            OBVIOUS
          <5>5. g[k] = IF k = Len(s) THEN End ELSE s[k + 1]
            <6>1. k < Len(s) <=> k # Len(s)
              <7>1. \A n \in Nat : \A j \in 1 .. n : j < n <=> j # n
                OBVIOUS
              <7> QED
                BY <1>1, <5>1, <7>1
            <6> HIDE DEF g
            <6> QED
              BY <5>4, <6>1, Zenon
          <5>6. a[g[k - 1]].next_idx = g[k]
            BY <5>2, <5>3, <5>5
          <5> HIDE DEF g
          <5> QED
            BY <3>3, <5>2, <5>6
        <4>4. CASE ~(k - 1 < Len(s))
          BY <1>1, <3>1, <3>3, <4>2, <4>4
        <4> QED
          BY <4>3, <4>4
      <3> QED
        BY <3>2, <3>3
    <2> HIDE DEF g
    <2>2. g = [k \in 0 .. total |-> g[k]]
      BY DEF g
    <2> QED
      BY <2>1, <2>2 DEF Follow
  <1>5. Walk(a, nx) = g
    <2> HIDE DEF g
    <2> QED
      BY <1>4, WalkUnique
  <1>6. g[Len(s)] = End
    BY <1>1, <1>2, ConnWorkerAssumption
  <1>7. {g[k] : k \in 0 .. total} \ {End} = Range(s)
    <2>1. ASSUME NEW k \in 0 .. total, g[k] # End PROVE g[k] \in Range(s)
      <3>1. k < Len(s) /\ g[k] = s[k + 1] /\ k + 1 \in DOMAIN s
        BY <1>1, <2>1, ConnWorkerAssumption
      <3> QED
        BY <3>1 DEF Range
    <2>2. ASSUME NEW j \in 1 .. Len(s) PROVE \E k \in 0 .. total : s[j] = g[k]
      <3>1. j - 1 \in 0 .. total /\ j - 1 < Len(s) /\ (j - 1) + 1 = j
        BY <1>1, <1>2, ConnWorkerAssumption
      <3>2. g[j - 1] = s[j]
        BY <3>1
      <3> QED
        BY <3>1, <3>2
    <2> HIDE DEF g
    <2> QED
      BY <1>1, <1>3, <2>1, <2>2 DEF Range
  <1> QED
    BY <1>1, <1>2, <1>5, <1>6, <1>7

(* FreeList and FreeIdx, here and after a step, in these terms.            *)
LEMMA FreeListIsWalk ==
    /\ FreeList = Walk(arr, next_idx)
    /\ FreeIdx = {Walk(arr, next_idx)[k] : k \in 0 .. total} \ {End}
    /\ FreeList' = Walk(arr', next_idx')
    /\ FreeIdx' = {Walk(arr', next_idx')[k] : k \in 0 .. total} \ {End}
  <1>1. FreeList = Walk(arr, next_idx) /\ FreeList' = Walk(arr', next_idx')
    BY DEF FreeList, Walk, Follow
  <1> QED
    BY <1>1 DEF FreeIdx

(* A linked free list holds the free contexts, here and after a step.      *)
LEMMA LinksFacts ==
    ASSUME NEW s, Links(s, arr, next_idx)
    PROVE  /\ s \in Seq(Idx) /\ IsInjective(s) /\ Len(s) \in 0 .. total
           /\ FreeIdx = Range(s) /\ Cardinality(FreeIdx) = Len(s)
           /\ FreeList[Len(s)] = End
  <1>1. s \in Seq(Idx) /\ IsInjective(s)
    BY DEF Links
  <1>2. FreeIdx = Range(s)
    BY WalkLinks, FreeListIsWalk
  <1>3. Len(s) \in 0 .. total /\ FreeList[Len(s)] = End /\ Cardinality(Range(s)) = Len(s)
    BY WalkLinks, FreeListIsWalk
  <1> QED
    BY <1>1, <1>2, <1>3

LEMMA LinksFactsNext ==
    ASSUME NEW s, Links(s, arr', next_idx')
    PROVE  FreeIdx' = Range(s)
  BY WalkLinks, FreeListIsWalk

(* pool->next_idx leads through exactly the contexts that pool->allocated  *)
(* does not count.                                                         *)
Pool == \E s : Links(s, arr, next_idx) /\ Len(s) = total - allocated

(* A step that moves neither the head nor the link of a free context.      *)
LEMMA PoolSame ==
    ASSUME Pool, UNCHANGED <<next_idx, allocated>>,
           \A i \in FreeIdx : arr'[i].next_idx = arr[i].next_idx
    PROVE  Pool' /\ Used' = Used
  <1>1. PICK s : Links(s, arr, next_idx) /\ Len(s) = total - allocated
    BY DEF Pool
  <1>2. s \in Seq(Idx) /\ FreeIdx = Range(s)
    BY <1>1, LinksFacts
  <1>3. \A k \in 1 .. Len(s) : arr'[s[k]].next_idx = arr[s[k]].next_idx
    BY <1>2 DEF Range
  <1>4. Links(s, arr', next_idx')
    BY <1>1, <1>3 DEF Links
  <1>5. FreeIdx' = FreeIdx
    BY <1>2, <1>4, LinksFactsNext
  <1> QED
    BY <1>1, <1>4, <1>5 DEF Pool, Used

(* The contexts of the free list are contexts of the pool.                 *)
LEMMA FreeInPool ==
    ASSUME Pool
    PROVE  FreeIdx \subseteq Idx /\ (next_idx # End => next_idx \in FreeIdx)
  <1>1. PICK s : Links(s, arr, next_idx)
    BY DEF Pool
  <1>2. s \in Seq(Idx) /\ FreeIdx = Range(s)
    BY <1>1, LinksFacts
  <1>3. next_idx # End => 1 \in DOMAIN s /\ next_idx = s[1]
    BY <1>1, <1>2 DEF Links
  <1> QED
    BY <1>2, <1>3 DEF Range

(* A handler that goes on changes only its own context, which is in use.   *)
LEMMA PoolGoOn ==
    ASSUME TypeOK, Pool, This \in Used, NEW c, NEW regs, GoOn(c, regs)
    PROVE  Pool' /\ Used' = Used
  <1>1. \A i \in FreeIdx : arr'[i] = arr[i]
    BY FreeInPool DEF GoOn, TypeOK, Used
  <1> QED
    BY <1>1, PoolSame DEF GoOn

(* alloc_context takes the head of the list.                               *)
LEMMA PoolAlloc ==
    ASSUME TypeOK, Pool, next_idx # End, NEW c, alloc_context(c), c.next_idx = End
    PROVE  /\ next_idx \in Idx /\ next_idx \notin Used
           /\ Pool' /\ Used' = Used \cup {next_idx}
  <1>1. PICK s : Links(s, arr, next_idx) /\ Len(s) = total - allocated
    BY DEF Pool
  <1>2. s \in Seq(Idx) /\ IsInjective(s) /\ FreeIdx = Range(s)
    BY <1>1, LinksFacts
  <1>3. s # <<>> /\ next_idx = s[1] /\ Head(s) = s[1]
    BY <1>1 DEF Links
  <1> DEFINE t == Tail(s)
  <1>4. /\ t \in Seq(Idx) /\ IsInjective(t) /\ Len(t) = Len(s) - 1 /\ Head(s) \in Idx
        /\ Range(s) = Range(t) \cup {Head(s)} /\ Head(s) \notin Range(t)
    BY <1>2, <1>3, TailFacts
  <1>5. Len(s) \in Nat \ {0} /\ \A k \in 1 .. Len(t) : t[k] = s[k + 1] /\ k + 1 \in 1 .. Len(s)
    BY <1>2, <1>3, <1>4
  <1> HIDE DEF t
  <1>6. ASSUME NEW k \in 1 .. Len(t)
        PROVE  arr'[t[k]].next_idx = IF k = Len(t) THEN End ELSE t[k + 1]
    <2>1. t[k] \in Idx /\ t[k] # next_idx
      BY <1>3, <1>4 DEF Range
    <2>2. arr'[t[k]] = arr[t[k]]
      BY <2>1 DEF alloc_context, TypeOK
    <2>3. arr[s[k + 1]].next_idx = IF k + 1 = Len(s) THEN End ELSE s[(k + 1) + 1]
      BY <1>1, <1>5 DEF Links
    <2>4. CASE k = Len(t)
      <3>1. k + 1 = Len(s)
        BY <1>4, <1>5, <2>4
      <3> QED
        BY <1>5, <2>2, <2>3, <2>4, <3>1
    <2>5. CASE k # Len(t)
      <3>1. k + 1 # Len(s) /\ k + 1 \in 1 .. Len(t)
        BY <1>4, <1>5, <2>5
      <3>2. t[k + 1] = s[(k + 1) + 1]
        BY <1>5, <3>1
      <3> QED
        BY <1>5, <2>2, <2>3, <2>5, <3>1, <3>2
    <2> QED
      BY <2>4, <2>5
  <1>7. next_idx' = IF t = <<>> THEN End ELSE t[1]
    <2>1. next_idx' = IF 1 = Len(s) THEN End ELSE s[2]
      BY <1>1, <1>3, <1>5 DEF alloc_context, Links
    <2>2. CASE t = <<>>
      BY <1>4, <1>5, <2>1, <2>2, EmptyFacts
    <2>3. CASE t # <<>>
      <3>1. Len(t) # 0 /\ 1 # Len(s) /\ 1 \in 1 .. Len(t)
        BY <1>4, <1>5, <2>3, EmptyFacts
      <3> QED
        BY <1>5, <2>1, <2>3, <3>1
    <2> QED
      BY <2>2, <2>3
  <1>8. Links(t, arr', next_idx')
    BY <1>4, <1>6, <1>7 DEF Links
  <1>9. Len(t) = total - allocated'
    BY <1>1, <1>4, ConnWorkerAssumption DEF alloc_context, TypeOK
  <1>10. FreeIdx' = Range(t)
    BY <1>8, LinksFactsNext
  <1> QED
    BY <1>2, <1>3, <1>4, <1>8, <1>9, <1>10 DEF Pool, Used

(* free_context puts a context in use back in front; some context was      *)
(* counted as allocated, so its assertion holds.                           *)
LEMMA PoolFree ==
    ASSUME TypeOK, Pool, batch # <<>>, This \in Used, NEW c \in Context, free_context(c)
    PROVE  exit' = "no" /\ Pool' /\ Used' = Used \ {This}
  <1>1. PICK s : Links(s, arr, next_idx) /\ Len(s) = total - allocated
    BY DEF Pool
  <1>2. /\ s \in Seq(Idx) /\ IsInjective(s) /\ FreeIdx = Range(s) /\ Len(s) \in Nat
        /\ Cardinality(Range(s)) = Len(s)
    BY <1>1, LinksFacts
  <1>3. This \in Idx /\ This \notin Range(s)
    BY <1>2 DEF Used
  <1>4. allocated > 0
    <2>1. IsFiniteSet(Idx) /\ Cardinality(Idx) = total
      BY FS_Interval, ConnWorkerAssumption DEF Idx
    <2>2. Range(s) \subseteq Idx /\ Range(s) # Idx
      BY <1>2, <1>3 DEF Range
    <2>3. Cardinality(Range(s)) < total
      BY <1>2, <2>1, <2>2, FS_Subset, ConnWorkerAssumption
    <2> QED
      BY <1>1, <1>2, <2>3, ConnWorkerAssumption DEF TypeOK
  <1> DEFINE t == <<This>> \o s
  <1>5. /\ t \in Seq(Idx) /\ IsInjective(t) /\ Len(t) = Len(s) + 1
        /\ Range(t) = Range(s) \cup {This}
    BY <1>2, <1>3, PushFacts
  <1>6. t # <<>> /\ t[1] = This /\ \A k \in 2 .. Len(t) : t[k] = s[k - 1] /\ k - 1 \in 1 .. Len(s)
    BY <1>2, <1>5
  <1> HIDE DEF t
  <1>7. ASSUME NEW k \in 1 .. Len(t)
        PROVE  arr'[t[k]].next_idx = IF k = Len(t) THEN End ELSE t[k + 1]
    <2>1. CASE k = 1
      <3>1. arr'[This].next_idx = next_idx
        BY <1>3 DEF free_context, TypeOK, Context
      <3>2. CASE s = <<>>
        <4>1. k = Len(t) /\ next_idx = End
          BY <1>1, <1>5, <2>1, <3>2, EmptyFacts DEF Links
        <4> QED
          BY <1>6, <2>1, <3>1, <4>1
      <3>3. CASE s # <<>>
        <4>1. Len(s) # 0
          BY <1>2, <3>3, EmptyFacts
        <4>2. k # Len(t) /\ 2 \in 2 .. Len(t)
          BY <1>2, <1>5, <2>1, <4>1
        <4>3. t[2] = s[1] /\ next_idx = s[1]
          BY <1>1, <1>6, <3>3, <4>2 DEF Links
        <4> QED
          BY <1>6, <2>1, <3>1, <4>2, <4>3
      <3> QED
        BY <3>2, <3>3
    <2>2. CASE k # 1
      <3>1. k \in 2 .. Len(t) /\ Len(t) \in Nat
        BY <1>2, <1>5, <2>2
      <3>2. t[k] = s[k - 1] /\ k - 1 \in 1 .. Len(s)
        BY <1>6, <3>1
      <3>3. t[k] \in Idx /\ t[k] # This
        BY <1>2, <1>3, <3>2 DEF Range
      <3>4. arr'[t[k]] = arr[t[k]]
        BY <3>3 DEF free_context, TypeOK
      <3>5. arr[s[k - 1]].next_idx = IF k - 1 = Len(s) THEN End ELSE s[(k - 1) + 1]
        BY <1>1, <3>2 DEF Links
      <3>6. CASE k = Len(t)
        <4>1. k - 1 = Len(s)
          BY <1>2, <1>5, <3>6
        <4> QED
          BY <3>2, <3>4, <3>5, <3>6, <4>1
      <3>7. CASE k # Len(t)
        <4>1. k - 1 # Len(s) /\ k + 1 \in 2 .. Len(t) /\ (k + 1) - 1 = (k - 1) + 1
          BY <1>2, <1>5, <3>1, <3>7
        <4>2. t[k + 1] = s[(k - 1) + 1]
          BY <1>6, <4>1
        <4> QED
          BY <3>2, <3>4, <3>5, <3>7, <4>1, <4>2
      <3> QED
        BY <3>6, <3>7
    <2> QED
      BY <2>1, <2>2
  <1>8. Links(t, arr', next_idx')
    BY <1>5, <1>6, <1>7 DEF Links, free_context
  <1>9. Len(t) = total - allocated' /\ exit' = "no"
    BY <1>1, <1>2, <1>4, <1>5, ConnWorkerAssumption DEF free_context, TypeOK
  <1>10. FreeIdx' = Range(t)
    BY <1>8, LinksFactsNext
  <1> QED
    BY <1>2, <1>5, <1>8, <1>9, <1>10 DEF Pool, Used

-----------------------------------------------------------------------------
(* The connections.                                                        *)

BackendHandler == {"process_write_backend", "process_read_backend", "process_write_frontend"}

(* Context i holds open descriptors, epoll leads from them to i, and they  *)
(* wait for what the handler is for.                                       *)
Held(i) ==
    /\ arr[i].fd \in open /\ arr[i].end_fd \in open \cup {NoFd}
    /\ \A f \in Fds(arr[i]) \ {NoFd} : ep[f].ctx = i
    /\ arr[i].handler # "unset"
    /\ arr[i].handler \in BackendHandler => arr[i].end_fd # NoFd
    /\ Waits(arr[i])

(* Each context in use does, each open descriptor has a holder, and epoll  *)
(* knows no closed descriptor.                                             *)
Conns ==
    /\ \A i \in Used : Held(i)
    /\ \A f \in open : \E i \in Used : f \in Fds(arr[i])
    /\ \A f \in FD \ open : ep[f] = NotAdded

(* No descriptor has two holders.                                          *)
LEMMA HeldApart ==
    ASSUME Conns, NEW i \in Used, NEW j \in Used, NEW f \in Fds(arr[i]), f # NoFd, f \in Fds(arr[j])
    PROVE  i = j
  <1>1. \A k \in Used : \A g \in Fds(arr[k]) \ {NoFd} : ep[g].ctx = k
    BY DEF Conns, Held
  <1> QED
    BY <1>1

(* A context keeps what it holds when a step leaves it and its descriptors *)
(* alone.                                                                  *)
LEMMA HeldKept ==
    ASSUME TypeOK, NEW i \in Idx, Held(i), arr'[i] = arr[i],
           \A f \in open \cap Fds(arr[i]) : f \in open' /\ ep'[f] = ep[f]
    PROVE  Held(i)'
  <1>1. arr[i] \in Context /\ 0 \notin FD
    BY ConnWorkerAssumption DEF TypeOK, FD
  <1>2. arr[i].fd \in open' /\ ep'[arr[i].fd] = ep[arr[i].fd]
    BY DEF Held, Fds
  <1>3. arr[i].end_fd # NoFd => arr[i].end_fd \in open' /\ ep'[arr[i].end_fd] = ep[arr[i].end_fd]
    BY DEF Held, Fds
  <1>4. \A f \in Fds(arr[i]) \ {NoFd} : ep'[f] = ep[f]
    BY <1>2, <1>3 DEF Fds
  <1>5. Waits(arr[i])'
    BY <1>1, <1>2, <1>3 DEF Held, Waits, Context, Handler, WebHandler, ProxyHandler, BackendHandler
  <1> QED
    BY <1>2, <1>3, <1>4, <1>5 DEF Held, Fds

(* Steps that change neither connections nor registrations.                *)
LEMMA ConnsSame ==
    ASSUME TypeOK, Conns, UNCHANGED <<open, ep>>, Used' = Used,
           \A i \in Used : arr'[i] = arr[i]
    PROVE  Conns'
  <1>1. \A i \in Used : Held(i)'
    BY HeldKept DEF Conns, Used
  <1> QED
    BY <1>1 DEF Conns, Fds

(* The free_back label: the context and its descriptors are gone, the      *)
(* other contexts keep theirs.  c is the context as the handler left it,   *)
(* perhaps with a backend descriptor it had just opened.                   *)
LEMMA ConnsFreeBack ==
    ASSUME TypeOK, Conns, batch # <<>>, This \in Used, NEW c \in Context, FreeBack(c),
           Used' = Used \ {This}, c.fd = Ctx.fd,
           c.end_fd = Ctx.end_fd \/ (Ctx.end_fd = NoFd /\ c.end_fd \notin open)
    PROVE  Conns'
  <1>1. This \in Idx /\ Held(This) /\ \A i \in Idx \ {This} : arr'[i] = arr[i]
    BY DEF Conns, Used, FreeBack, free_context, TypeOK
  <1>2. open' = open \ Fds(c) /\ ep' = [f \in FD |-> IF f \in Fds(c) THEN NotAdded ELSE ep[f]]
    BY DEF FreeBack, process_close
  <1>3. open \subseteq FD /\ NoFd \notin open
    BY DEF TypeOK, FD, NoFd
  <1>4. open \cap Fds(c) = open \cap Fds(Ctx)
    BY <1>3 DEF Fds
  <1>5. ASSUME NEW i \in Used', NEW f \in open, f \in Fds(arr[i])
        PROVE  f \in open' /\ ep'[f] = ep[f]
    <2>1. f \notin Fds(Ctx)
      BY <1>3, <1>5, HeldApart DEF Ctx
    <2> QED
      BY <1>2, <1>3, <1>4, <2>1
  <1>6. \A i \in Used' : Held(i)'
    BY <1>1, <1>5, HeldKept DEF Conns, Used
  <1>7. ASSUME NEW f \in open' PROVE \E i \in Used' : f \in Fds(arr'[i])
    <2>1. f \in open /\ f \notin Fds(Ctx)
      BY <1>2, <1>4
    <2>2. PICK i \in Used : f \in Fds(arr[i])
      BY <2>1 DEF Conns
    <2>3. i \in Used' /\ i \in Idx \ {This}
      BY <2>1, <2>2 DEF Ctx, Used
    <2> QED
      BY <1>1, <2>2, <2>3
  <1>8. \A f \in FD \ open' : ep'[f] = NotAdded
    BY <1>2 DEF Conns
  <1> QED
    BY <1>6, <1>7, <1>8 DEF Conns, Fds

(* A handler goes on with its context, perhaps with a new descriptor.      *)
LEMMA ConnsGoOn ==
    ASSUME TypeOK, Conns, batch # <<>>, NEW t \in Used, t = This, Used' = Used,
           NEW c \in Context, NEW regs \in [FD -> Registration], GoOn(c, regs),
           c.fd = Ctx.fd,
           \/ c.end_fd = Ctx.end_fd /\ open' = open
           \/ Ctx.end_fd = NoFd /\ c.end_fd \in FD \ open /\ open' = open \cup {c.end_fd},
           \A f \in FD \ Fds(c) : regs[f] = ep[f],
           Held(t)'
    PROVE  Conns'
  <1>1. /\ t \in Idx /\ arr'[t] = c
        /\ \A i \in Idx \ {t} : arr'[i] = arr[i]
    BY DEF Used, GoOn, TypeOK
  <1>2. ep' = regs
    BY DEF GoOn
  <1>3. open \subseteq FD /\ NoFd \notin open /\ open \subseteq open'
    BY DEF TypeOK, FD, NoFd
  <1>4. open \cap Fds(c) = open \cap Fds(Ctx)
    BY <1>3 DEF Fds
  <1>5. ASSUME NEW i \in Used \ {t}, NEW f \in open, f \in Fds(arr[i])
        PROVE  f \in open' /\ ep'[f] = ep[f]
    <2>1. f \notin Fds(Ctx)
      BY <1>3, <1>5, HeldApart DEF Ctx
    <2> QED
      BY <1>2, <1>3, <1>4, <2>1
  <1>6. ASSUME NEW i \in Used PROVE Held(i)'
    <2>1. CASE i = t
      BY <2>1
    <2>2. CASE i # t
      <3>1. i \in Idx /\ Held(i) /\ arr'[i] = arr[i]
        BY <1>1, <2>2 DEF Conns, Used
      <3> QED
        BY <1>5, <2>2, <3>1, HeldKept
    <2> QED
      BY <2>1, <2>2
  <1>7. ASSUME NEW f \in open' PROVE \E i \in Used' : f \in Fds(arr'[i])
    <2>1. CASE f \in Fds(c)
      BY <1>1, <2>1
    <2>2. CASE f \notin Fds(c)
      <3>1. f \in open /\ f \notin Fds(Ctx)
        BY <1>4, <2>2 DEF Fds
      <3>2. PICK i \in Used : f \in Fds(arr[i])
        BY <3>1 DEF Conns
      <3>3. i \in Used' /\ i \in Idx \ {t}
        BY <3>1, <3>2 DEF Ctx, Used
      <3> QED
        BY <1>1, <3>2, <3>3
    <2> QED
      BY <2>1, <2>2
  <1>8. \A f \in FD \ open' : ep'[f] = NotAdded
    <2> SUFFICES ASSUME NEW f \in FD \ open' PROVE regs[f] = NotAdded
      BY <1>2
    <2>1. f \notin open /\ f \notin Fds(c)
      <3>1. c.fd \in open'
        BY <1>1 DEF Held
      <3>2. c.end_fd \in open' \cup {NoFd}
        BY <1>1 DEF Held
      <3>3. NoFd \notin FD
        BY DEF FD, NoFd
      <3> QED
        BY <1>3, <3>1, <3>2, <3>3 DEF Fds
    <2> QED
      BY <2>1 DEF Conns
  <1> QED
    BY <1>6, <1>7, <1>8 DEF Conns, Fds

(* What a handler can rely on when it is called for a context in use.      *)
LEMMA WaitsFacts ==
    ASSUME TypeOK, NEW i \in Idx, Held(i)
    PROVE  /\ arr[i].handler = "process_read_frontend" => arr[i].end_fd = NoFd
           /\ arr[i].handler \in BackendHandler => arr[i].end_fd \in open /\ arr[i].end_fd # arr[i].fd
           /\ arr[i].handler = "process_write_backend" => ep[arr[i].fd].mask = "hup" /\ arr[i].flag
  <1>1. arr[i].handler = "process_read_frontend" => arr[i].end_fd = NoFd
    BY DEF Held, Waits
  <1>2. arr[i].handler = "process_write_backend" =>
           ep[arr[i].fd].mask = "hup" /\ arr[i].flag /\ ep[arr[i].end_fd].mask = "out"
    BY DEF Held, Waits
  <1>3. arr[i].handler = "process_read_backend" =>
           ep[arr[i].fd].mask = "hup" /\ ep[arr[i].end_fd].mask = "in"
    BY DEF Held, Waits
  <1>4. arr[i].handler = "process_write_frontend" =>
           ep[arr[i].fd].mask = "out" /\ ep[arr[i].end_fd].mask = "hup"
    BY DEF Held, Waits
  <1>5. arr[i].handler \in BackendHandler => arr[i].end_fd # arr[i].fd
    BY <1>2, <1>3, <1>4 DEF BackendHandler
  <1>6. arr[i].handler \in BackendHandler => arr[i].end_fd \in open
    BY DEF Held
  <1> QED
    BY <1>1, <1>2, <1>5, <1>6

(* A context is held after the step when the step leaves it with open      *)
(* descriptors, registered for it, and armed for its handler.              *)
LEMMA HeldNow ==
    ASSUME NEW t \in Idx, NEW c \in Context, arr'[t] = c,
           c.fd \in open', c.end_fd \in open' \cup {NoFd},
           ep'[c.fd].ctx = t, c.end_fd # NoFd => ep'[c.end_fd].ctx = t,
           \/ c.handler = "process_read" /\ ep'[c.fd].mask = "in"
           \/ c.handler = "process_write" /\ ep'[c.fd].mask = "out"
           \/ c.handler = "process_read_frontend" /\ ep'[c.fd].mask = "in" /\ c.end_fd = NoFd
           \/ /\ c.handler = "process_write_backend" /\ c.end_fd # NoFd /\ c.flag
              /\ ep'[c.fd].mask = "hup" /\ ep'[c.end_fd].mask = "out"
           \/ /\ c.handler = "process_read_backend" /\ c.end_fd # NoFd /\ c.flag
              /\ ep'[c.fd].mask = "hup" /\ ep'[c.end_fd].mask = "in"
           \/ /\ c.handler = "process_write_frontend" /\ c.end_fd # NoFd /\ ~c.flag
              /\ ep'[c.fd].mask = "out" /\ ep'[c.end_fd].mask = "hup"
    PROVE  Held(t)'
  <1>1. Waits(arr[t])'
    BY DEF Waits
  <1>2. arr'[t].handler # "unset" /\ (arr'[t].handler \in BackendHandler => arr'[t].end_fd # NoFd)
    BY DEF BackendHandler
  <1>3. \A f \in Fds(arr'[t]) \ {NoFd} : ep'[f].ctx = t
    BY DEF Fds
  <1> QED
    BY <1>1, <1>2, <1>3 DEF Held, Fds

(* A new connection is held by the context it was given.                   *)
LEMMA ConnsAccept ==
    ASSUME TypeOK, Pool, Conns, Accept
    PROVE  Pool' /\ Conns'
  <1>1. PICK n : n = next_idx
    OBVIOUS
  <1>2. PICK c : c = Client(next_idx)
    OBVIOUS
  <1>3. PICK nf : nf = NewFd
    OBVIOUS
  <1>4. nf \in FD /\ nf \notin open
    BY <1>3, NewFdFree DEF Accept
  <1>5. n \in Idx
    BY <1>1 DEF Accept, TypeOK
  <1>6. /\ c \in Context /\ c.fd = nf /\ c.end_fd = NoFd /\ c.next_idx = End
        /\ c.handler \in {"process_read_frontend", "process_read"}
    <2>1. arr[n] \in Context
      BY <1>5 DEF TypeOK
    <2> QED
      BY <1>1, <1>2, <1>3, <1>4, <2>1
         DEF Client, Context, Handler, WebHandler, ProxyHandler
  <1>7. alloc_context(c) /\ next_idx # End
    BY <1>2 DEF Accept
  <1>8. n \notin Used /\ Pool' /\ Used' = Used \cup {n}
    BY <1>1, <1>6, <1>7, PoolAlloc
  <1>9. /\ arr' = [arr EXCEPT ![n] = c] /\ open' = open \cup {nf}
        /\ ep' = [ep EXCEPT ![nf] = [ctx |-> n, mask |-> "in"]]
    BY <1>1, <1>2, <1>3 DEF Accept, alloc_context
  <1>10. arr \in [Idx -> Context] /\ ep \in [FD -> Registration] /\ open \subseteq FD
    BY DEF TypeOK
  <1>11. /\ arr'[n] = c /\ \A i \in Idx \ {n} : arr'[i] = arr[i]
         /\ ep'[nf].ctx = n /\ ep'[nf].mask = "in" /\ \A f \in FD \ {nf} : ep'[f] = ep[f]
    BY <1>4, <1>5, <1>9, <1>10
  <1>12. Held(n)'
    BY <1>4, <1>5, <1>6, <1>9, <1>11, HeldNow
  <1>13. ASSUME NEW i \in Used PROVE Held(i)'
    <2>1. i \in Idx /\ Held(i) /\ arr'[i] = arr[i]
      BY <1>8, <1>11 DEF Conns, Used
    <2>2. \A f \in open \cap Fds(arr[i]) : f \in open' /\ ep'[f] = ep[f]
      BY <1>4, <1>9, <1>10, <1>11
    <2> QED
      BY <2>1, <2>2, HeldKept
  <1>14. ASSUME NEW f \in open' PROVE \E i \in Used' : f \in Fds(arr'[i])
    <2>1. CASE f = nf
      <3>1. f \in Fds(arr'[n]) /\ n \in Used'
        BY <1>6, <1>8, <1>11, <2>1 DEF Fds
      <3> QED
        BY <3>1
    <2>2. CASE f # nf
      <3>1. PICK i \in Used : f \in Fds(arr[i])
        BY <1>9, <2>2 DEF Conns
      <3>2. i \in Used' /\ arr'[i] = arr[i]
        BY <1>8, <1>11 DEF Used
      <3> QED
        BY <3>1, <3>2
    <2> QED
      BY <2>1, <2>2
  <1>15. \A f \in FD \ open' : ep'[f] = NotAdded
    BY <1>9, <1>11 DEF Conns
  <1>16. Conns'
    BY <1>8, <1>12, <1>13, <1>14, <1>15 DEF Conns, Fds
  <1> QED
    BY <1>8, <1>16

(* The handlers of a context in use: each of them closes it, leaves it     *)
(* armed for the next handler, or is killed by SIGPIPE.                    *)
LEMMA HandlerSound ==
    ASSUME TypeOK, Pool, Conns, exit = "no", This \in Used,
           \/ process_read \/ process_write \/ process_read_frontend
           \/ process_write_backend \/ process_read_backend \/ process_write_frontend
    PROVE  Pool' /\ Conns' /\ exit' \in {"no", "SIGPIPE"}
  <1>0. batch # <<>>
    BY DEF process_read, process_write, process_read_frontend, process_write_backend,
           process_read_backend, process_write_frontend, Dispatch
  <1>1. PICK t : t = This
    OBVIOUS
  <1>2. PICK o : o = Ctx
    OBVIOUS
  <1>3. /\ t \in Idx /\ t \in Used /\ o = arr[t] /\ o \in Context /\ Held(t)
        /\ arr \in [Idx -> Context] /\ ep \in [FD -> Registration] /\ open \subseteq FD
        /\ NoFd \notin FD
    BY <1>1, <1>2 DEF Used, Ctx, TypeOK, Conns, FD, NoFd
  <1>4. /\ o.fd \in open /\ ep[o.fd].ctx = t /\ o.end_fd \in open \cup {NoFd}
        /\ o.end_fd # NoFd => ep[o.end_fd].ctx = t
    BY <1>3 DEF Held, Fds
  <1>5. /\ o.handler = "process_read_frontend" => o.end_fd = NoFd
        /\ o.handler \in BackendHandler => o.end_fd \in open /\ o.end_fd # o.fd
        /\ o.handler = "process_write_backend" => ep[o.fd].mask = "hup" /\ o.flag
    BY <1>3, WaitsFacts
  \* The three ways a handler ends.
  <1>6. ASSUME NEW c \in Context, FreeBack(c), c.fd = o.fd,
               c.end_fd = o.end_fd \/ (o.end_fd = NoFd /\ c.end_fd \notin open)
        PROVE  Pool' /\ Conns' /\ exit' \in {"no", "SIGPIPE"}
    <2>1. exit' = "no" /\ Pool' /\ Used' = Used \ {This}
      BY <1>0, <1>6, PoolFree DEF FreeBack
    <2> QED
      BY <1>0, <1>2, <1>6, <2>1, ConnsFreeBack
  <1>7. ASSUME Dies("SIGPIPE")
        PROVE  Pool' /\ Conns' /\ exit' \in {"no", "SIGPIPE"}
    <2>1. Pool' /\ Used' = Used
      BY <1>7, PoolSame DEF Dies, Stay
    <2> QED
      BY <1>7, <2>1, ConnsSame DEF Dies, Stay
  <1>8. ASSUME NEW c \in Context, NEW regs \in [FD -> Registration], GoOn(c, regs), c.fd = o.fd,
               \/ c.end_fd = o.end_fd /\ open' = open
               \/ o.end_fd = NoFd /\ c.end_fd \in FD \ open /\ open' = open \cup {c.end_fd},
               \A f \in FD \ Fds(c) : regs[f] = ep[f],
               arr'[t] = c => Held(t)'
        PROVE  Pool' /\ Conns' /\ exit' \in {"no", "SIGPIPE"}
    <2>1. arr' = [arr EXCEPT ![t] = c] /\ UNCHANGED <<next_idx, allocated, exit>>
      BY <1>1, <1>8 DEF GoOn
    <2>3. Pool' /\ Used' = Used
      BY <1>0, <1>8, PoolGoOn
    <2>4. Held(t)'
      BY <1>3, <1>8, <2>1
    <2>5. Conns'
      BY <1>0, <1>1, <1>2, <1>3, <1>8, <2>3, <2>4, ConnsGoOn
    <2> QED
      BY <2>1, <2>3, <2>5
  <1>9. CASE process_read
    <2>1. CASE FreeBack(Ctx)
      BY <1>2, <1>3, <1>6, <2>1
    <2>2. CASE /\ GoOn([Ctx EXCEPT !.handler = "process_write"], Armed(Ctx.fd, "out"))
               /\ UNCHANGED open
      <3>1. PICK c : c = [o EXCEPT !.handler = "process_write"]
        OBVIOUS
      <3>2. PICK r : r = [ep EXCEPT ![o.fd] = [ctx |-> t, mask |-> "out"]]
        OBVIOUS
      <3>3. c \in Context /\ c.fd = o.fd /\ c.end_fd = o.end_fd /\ c.handler = "process_write"
        BY <1>3, <3>1 DEF Context, Handler, WebHandler
      <3>4. /\ r \in [FD -> Registration] /\ r[o.fd].ctx = t /\ r[o.fd].mask = "out"
            /\ \A f \in FD \ {o.fd} : r[f] = ep[f]
        BY <1>3, <1>4, <3>2 DEF Registration
      <3>5. GoOn(c, r) /\ ep' = r
        BY <1>1, <1>2, <2>2, <3>1, <3>2 DEF Armed, GoOn
      <3>6. arr'[t] = c => Held(t)'
        BY <1>3, <1>4, <2>2, <3>3, <3>4, <3>5, HeldNow
      <3>7. \A f \in FD \ Fds(c) : r[f] = ep[f]
        BY <3>3, <3>4 DEF Fds
      <3> QED
        BY <1>8, <2>2, <3>3, <3>4, <3>5, <3>6, <3>7
    <2> QED
      BY <1>9, <2>1, <2>2 DEF process_read
  <1>10. CASE process_write
    <2>1. CASE FreeBack(Ctx)
      BY <1>2, <1>3, <1>6, <2>1
    <2>2. CASE Dies("SIGPIPE")
      BY <1>7, <2>2
    <2>3. CASE /\ GoOn([Ctx EXCEPT !.handler = "process_read"], Armed(Ctx.fd, "in"))
               /\ UNCHANGED open
      <3>1. PICK c : c = [o EXCEPT !.handler = "process_read"]
        OBVIOUS
      <3>2. PICK r : r = [ep EXCEPT ![o.fd] = [ctx |-> t, mask |-> "in"]]
        OBVIOUS
      <3>3. c \in Context /\ c.fd = o.fd /\ c.end_fd = o.end_fd /\ c.handler = "process_read"
        BY <1>3, <3>1 DEF Context, Handler, WebHandler
      <3>4. /\ r \in [FD -> Registration] /\ r[o.fd].ctx = t /\ r[o.fd].mask = "in"
            /\ \A f \in FD \ {o.fd} : r[f] = ep[f]
        BY <1>3, <1>4, <3>2 DEF Registration
      <3>5. GoOn(c, r) /\ ep' = r
        BY <1>1, <1>2, <2>3, <3>1, <3>2 DEF Armed, GoOn
      <3>6. arr'[t] = c => Held(t)'
        BY <1>3, <1>4, <2>3, <3>3, <3>4, <3>5, HeldNow
      <3>7. \A f \in FD \ Fds(c) : r[f] = ep[f]
        BY <3>3, <3>4 DEF Fds
      <3> QED
        BY <1>8, <2>3, <3>3, <3>4, <3>5, <3>6, <3>7
    <2> QED
      BY <1>10, <2>1, <2>2, <2>3 DEF process_write
  <1>11. CASE process_read_frontend
    <2>0. o.end_fd = NoFd
      BY <1>2, <1>5, <1>11 DEF process_read_frontend, Dispatch
    <2>1. CASE FreeBack(Ctx)
      BY <1>2, <1>3, <1>6, <2>1
    <2>2. ASSUME FreeFds # {}
          PROVE  /\ NewFd \in FD \ open
                 /\ WithBackend \in Context /\ WithBackend.fd = o.fd /\ WithBackend.end_fd = NewFd
                 /\ Connecting \in Context /\ Connecting.fd = o.fd /\ Connecting.end_fd = NewFd
                 /\ Connecting.handler = "process_write_backend" /\ Connecting.flag = TRUE
      <3>1. NewFd \in FD \ open
        BY <2>2, NewFdFree
      <3>2. PICK w : w = WithBackend
        OBVIOUS
      <3>3. w \in Context /\ w.fd = o.fd /\ w.end_fd = NewFd
        BY <1>2, <1>3, <3>1, <3>2 DEF WithBackend, Context
      <3>4. Connecting = [w EXCEPT !.handler = "process_write_backend", !.flag = TRUE]
        BY <3>2 DEF Connecting
      <3> QED
        BY <3>1, <3>2, <3>3, <3>4 DEF Context, Handler, ProxyHandler
    <2>3. CASE FreeFds # {} /\ (FreeBack(WithBackend) \/ FreeBack(Connecting))
      BY <1>6, <2>0, <2>2, <2>3
    <2>4. CASE /\ FreeFds # {} /\ open' = open \cup {NewFd}
               /\ GoOn(Connecting,
                       [Armed(Ctx.fd, "hup") EXCEPT ![NewFd] = [ctx |-> This, mask |-> "out"]])
      <3>1. PICK c : c = Connecting
        OBVIOUS
      <3>2. PICK nf : nf = NewFd
        OBVIOUS
      <3>3. PICK r : r = [[ep EXCEPT ![o.fd] = [ctx |-> t, mask |-> "hup"]]
                             EXCEPT ![nf] = [ctx |-> t, mask |-> "out"]]
        OBVIOUS
      <3>4. /\ nf \in FD \ open /\ c \in Context /\ c.fd = o.fd /\ c.end_fd = nf
            /\ c.handler = "process_write_backend" /\ c.flag = TRUE
        BY <2>2, <2>4, <3>1, <3>2
      <3>5. nf # o.fd /\ nf # NoFd
        BY <1>3, <1>4, <3>4
      <3>6. /\ r \in [FD -> Registration]
            /\ r[o.fd].ctx = t /\ r[o.fd].mask = "hup" /\ r[nf].ctx = t /\ r[nf].mask = "out"
            /\ \A f \in FD \ {o.fd, nf} : r[f] = ep[f]
        BY <1>3, <1>4, <3>3, <3>4, <3>5 DEF Registration
      <3>7. GoOn(c, r) /\ ep' = r /\ open' = open \cup {nf}
        BY <1>1, <1>2, <2>4, <3>1, <3>2, <3>3 DEF Armed, GoOn
      <3>8. arr'[t] = c => Held(t)'
        BY <1>3, <1>4, <3>4, <3>5, <3>6, <3>7, HeldNow
      <3>9. \A f \in FD \ Fds(c) : r[f] = ep[f]
        BY <3>4, <3>6 DEF Fds
      <3> QED
        BY <1>8, <2>0, <3>4, <3>6, <3>7, <3>8, <3>9
    <2> QED
      BY <1>11, <2>1, <2>3, <2>4 DEF process_read_frontend
  <1>12. CASE process_write_backend
    <2>0. /\ o.end_fd \in open /\ o.end_fd # o.fd /\ ep[o.fd].mask = "hup" /\ o.flag
          /\ o.end_fd # NoFd
      BY <1>2, <1>3, <1>5, <1>12 DEF process_write_backend, Dispatch, BackendHandler
    <2>1. CASE FreeBack(Ctx)
      BY <1>2, <1>3, <1>6, <2>1
    <2>2. CASE Dies("SIGPIPE")
      BY <1>7, <2>2
    <2>3. CASE /\ GoOn([Ctx EXCEPT !.handler = "process_read_backend"], Armed(Ctx.end_fd, "in"))
               /\ UNCHANGED open
      <3>1. PICK c : c = [o EXCEPT !.handler = "process_read_backend"]
        OBVIOUS
      <3>2. PICK r : r = [ep EXCEPT ![o.end_fd] = [ctx |-> t, mask |-> "in"]]
        OBVIOUS
      <3>3. /\ c \in Context /\ c.fd = o.fd /\ c.end_fd = o.end_fd
            /\ c.handler = "process_read_backend" /\ c.flag = o.flag
        BY <1>3, <3>1 DEF Context, Handler, ProxyHandler
      <3>4. /\ r \in [FD -> Registration] /\ r[o.end_fd].ctx = t /\ r[o.end_fd].mask = "in"
            /\ \A f \in FD \ {o.end_fd} : r[f] = ep[f]
        BY <1>3, <2>0, <3>2 DEF Registration
      <3>5. GoOn(c, r) /\ ep' = r
        BY <1>1, <1>2, <2>3, <3>1, <3>2 DEF Armed, GoOn
      <3>6. r[o.fd] = ep[o.fd]
        BY <1>3, <1>4, <2>0, <3>4
      <3>7. arr'[t] = c => Held(t)'
        <4>1. c.flag
          BY <2>0, <3>3, Zenon
        <4>2. /\ c.fd \in open' /\ c.end_fd \in open' \cup {NoFd} /\ c.end_fd # NoFd
              /\ ep'[c.fd].ctx = t /\ ep'[c.end_fd].ctx = t
              /\ ep'[c.fd].mask = "hup" /\ ep'[c.end_fd].mask = "in"
          BY <1>4, <2>0, <2>3, <3>3, <3>4, <3>5, <3>6
        <4> QED
          BY <1>3, <3>3, <4>1, <4>2, HeldNow, Zenon
      <3>8. \A f \in FD \ Fds(c) : r[f] = ep[f]
        BY <3>3, <3>4 DEF Fds
      <3> QED
        BY <1>8, <2>3, <3>3, <3>4, <3>5, <3>7, <3>8
    <2> QED
      BY <1>12, <2>1, <2>2, <2>3 DEF process_write_backend
  <1>13. CASE process_read_backend
    <2>0. o.end_fd \in open /\ o.end_fd # o.fd /\ o.end_fd # NoFd
      BY <1>2, <1>3, <1>5, <1>13 DEF process_read_backend, Dispatch, BackendHandler
    <2>1. CASE FreeBack(Ctx)
      BY <1>2, <1>3, <1>6, <2>1
    <2>2. CASE /\ GoOn([Ctx EXCEPT !.handler = "process_write_frontend", !.flag = FALSE],
                       AnswerFrontend)
               /\ UNCHANGED open
      <3>1. PICK c : c = [o EXCEPT !.handler = "process_write_frontend", !.flag = FALSE]
        OBVIOUS
      <3>2. PICK r : r = [[ep EXCEPT ![o.fd] = [ctx |-> t, mask |-> "out"]]
                             EXCEPT ![o.end_fd] = [ctx |-> t, mask |-> "hup"]]
        OBVIOUS
      <3>3. /\ c \in Context /\ c.fd = o.fd /\ c.end_fd = o.end_fd
            /\ c.handler = "process_write_frontend" /\ c.flag = FALSE
        BY <1>3, <3>1 DEF Context, Handler, ProxyHandler
      <3>4. /\ r \in [FD -> Registration]
            /\ r[o.fd].ctx = t /\ r[o.fd].mask = "out"
            /\ r[o.end_fd].ctx = t /\ r[o.end_fd].mask = "hup"
            /\ \A f \in FD \ {o.fd, o.end_fd} : r[f] = ep[f]
        BY <1>3, <1>4, <2>0, <3>2 DEF Registration
      <3>5. GoOn(c, r) /\ ep' = r
        BY <1>1, <1>2, <2>2, <3>1, <3>2 DEF AnswerFrontend, Armed, GoOn
      <3>6. arr'[t] = c => Held(t)'
        BY <1>3, <1>4, <2>0, <2>2, <3>3, <3>4, <3>5, HeldNow
      <3>7. \A f \in FD \ Fds(c) : r[f] = ep[f]
        BY <3>3, <3>4 DEF Fds
      <3> QED
        BY <1>8, <2>2, <3>3, <3>4, <3>5, <3>6, <3>7
    <2> QED
      BY <1>13, <2>1, <2>2 DEF process_read_backend
  <1>14. CASE process_write_frontend
    <2>1. CASE FreeBack(Ctx)
      BY <1>2, <1>3, <1>6, <2>1
    <2>2. CASE Dies("SIGPIPE")
      BY <1>7, <2>2
    <2> QED
      BY <1>14, <2>1, <2>2 DEF process_write_frontend
  <1> QED
    BY <1>9, <1>10, <1>11, <1>12, <1>13, <1>14

-----------------------------------------------------------------------------
(* The inductive invariant.                                                *)

(* Until an event of a closed connection is handled: the pool, the         *)
(* connections, and no failed assertion of free_context.                   *)
Sound == ~stale => Pool /\ Conns /\ exit \notin {"free_assert", "undefined"}

(* In server mode that never happens: the events left in the batch are of  *)
(* different contexts, all in use.                                         *)
BatchOfUsed ==
    /\ \A k \in DOMAIN batch : ~batch[k].orphan /\ batch[k].ctx \in Used
    /\ \A k, l \in DOMAIN batch : batch[k].ctx = batch[l].ctx => k = l
WebContexts == \A i \in Used : /\ arr[i].end_fd = NoFd
                               /\ arr[i].handler \in {"process_accept"} \cup WebHandler
Serving == ~enable_proxy => ~stale /\ WebContexts /\ BatchOfUsed

Inv == TypeOK /\ Sound /\ Serving

(* A handler called for a connection that is open.                         *)
LEMMA DispatchFacts ==
    ASSUME TypeOK, NEW h, Dispatch(h), ~stale'
    PROVE  ~stale /\ This \in Used /\ batch # <<>> /\ exit = "no" /\ Ctx.handler = h
  <1>1. ~stale /\ This \notin FreeIdx /\ batch # <<>> /\ exit = "no" /\ Ctx.handler = h
    BY Zenon DEF Dispatch
  <1> QED
    BY <1>1, CurrentType DEF Used

(* The two assertions of the pool cannot fail on a sound pool.             *)
LEMMA CountedFree ==
    ASSUME TypeOK, Pool, allocated < total
    PROVE  next_idx # End
  <1>1. PICK s : Links(s, arr, next_idx) /\ Len(s) = total - allocated
    BY DEF Pool
  <1>2. s \in Seq(Idx) /\ Len(s) # 0
    BY <1>1, LinksFacts, ConnWorkerAssumption DEF TypeOK
  <1>3. next_idx = s[1] /\ s[1] \in Idx
    BY <1>1, <1>2, EmptyFacts DEF Links
  <1> QED
    BY <1>3, ConnWorkerAssumption DEF Idx, End

(* A connection that could not be registered: its context is free again,   *)
(* with the link it had.                                                   *)
LEMMA AcceptNotAddedKeeps ==
    ASSUME TypeOK, Pool, AcceptNotAdded
    PROVE  Pool' /\ Used' = Used /\ \A i \in Used : arr'[i] = arr[i]
  <1>1. next_idx \in FreeIdx /\ FreeIdx \subseteq Idx
    BY FreeInPool DEF AcceptNotAdded
  <1>2. arr'[next_idx].next_idx = arr[next_idx].next_idx
    <2>1. arr[next_idx] \in Context
      BY <1>1 DEF TypeOK
    <2>2. PICK c : c = Client(next_idx)
      OBVIOUS
    <2>3. [c EXCEPT !.next_idx = arr[next_idx].next_idx].next_idx = arr[next_idx].next_idx
      BY <2>1, <2>2 DEF Client, Context
    <2> QED
      BY <1>1, <2>2, <2>3 DEF AcceptNotAdded, TypeOK
  <1>3. \A i \in Idx \ {next_idx} : arr'[i] = arr[i]
    BY DEF AcceptNotAdded, TypeOK
  <1>4. \A i \in FreeIdx : arr'[i].next_idx = arr[i].next_idx
    BY <1>1, <1>2, <1>3
  <1>5. Pool' /\ Used' = Used
    BY <1>4, PoolSame DEF AcceptNotAdded
  <1> QED
    BY <1>1, <1>3, <1>5 DEF Used

(* Every step keeps the pool and the connections sound.                    *)
LEMMA SoundNext ==
    ASSUME TypeOK, Sound, [Next]_vars
    PROVE  Sound'
  <1> SUFFICES ASSUME ~stale'
               PROVE  Pool' /\ Conns' /\ exit' \notin {"free_assert", "undefined"}
    BY DEF Sound
  <1>1. CASE Ended \/ EpollWait \/ UNCHANGED vars
    <2>1. /\ UNCHANGED <<arr, next_idx, allocated, open, ep, exit, stale>>
      BY <1>1 DEF Ended, EpollWait, vars
    <2>2. Pool /\ Conns /\ exit \notin {"free_assert", "undefined"}
      BY <2>1 DEF Sound
    <2>3. Pool' /\ Used' = Used
      BY <2>1, <2>2, PoolSame
    <2> QED
      BY <2>1, <2>2, <2>3, ConnsSame
  <1>2. CASE AcceptNothing \/ AcceptAsserts
    <2>1. Dispatch("process_accept") /\ Stay /\ exit' \in {exit, "alloc_assert"}
      BY <1>2 DEF AcceptNothing, AcceptAsserts, Dies
    <2>2. Pool /\ Conns /\ exit = "no"
      BY <2>1, DispatchFacts DEF Sound
    <2>3. Pool' /\ Used' = Used
      BY <2>1, <2>2, PoolSame DEF Stay
    <2> QED
      BY <2>1, <2>2, <2>3, ConnsSame DEF Stay
  <1>3. CASE AcceptUndefined
    <2>1. Pool
      BY <1>3, DispatchFacts DEF AcceptUndefined, Sound
    <2> QED
      BY <1>3, <2>1, CountedFree DEF AcceptUndefined
  <1>4. CASE Accept
    <2>1. Pool /\ Conns /\ exit = "no" /\ exit' = exit
      BY <1>4, DispatchFacts DEF Accept, Sound
    <2> QED
      BY <1>4, <2>1, ConnsAccept
  <1>5. CASE AcceptNotAdded
    <2>1. Pool /\ Conns /\ exit = "no" /\ UNCHANGED <<open, ep, exit>>
      BY <1>5, DispatchFacts DEF AcceptNotAdded, Sound
    <2> QED
      BY <1>5, <2>1, AcceptNotAddedKeeps, ConnsSame
  <1>6. CASE \/ process_read \/ process_write \/ process_read_frontend
             \/ process_write_backend \/ process_read_backend \/ process_write_frontend
    <2>1. PICK h : Dispatch(h)
      BY <1>6 DEF process_read, process_write, process_read_frontend,
                  process_write_backend, process_read_backend, process_write_frontend
    <2>2. Pool /\ Conns /\ exit = "no" /\ This \in Used
      BY <2>1, DispatchFacts DEF Sound
    <2> QED
      BY <1>6, <2>2, HandlerSound
  <1> QED
    BY <1>1, <1>2, <1>3, <1>4, <1>5, <1>6 DEF Next

(* The rest of the batch, when its contexts stay in use ...                *)
LEMMA BatchTail ==
    ASSUME TypeOK, BatchOfUsed, batch # <<>>, NextEvent, Used \subseteq Used'
    PROVE  BatchOfUsed'
  <1>1. /\ batch \in Seq(Event) /\ Len(batch) \in Nat \ {0} /\ DOMAIN batch = 1 .. Len(batch)
        /\ batch' = Tail(batch) /\ DOMAIN batch' = 1 .. (Len(batch) - 1)
    BY DEF TypeOK, NextEvent
  <1>2. \A k \in DOMAIN batch' : batch'[k] = batch[k + 1] /\ k + 1 \in DOMAIN batch
    BY <1>1
  <1>3. \A k \in DOMAIN batch' : ~batch'[k].orphan /\ batch'[k].ctx \in Used'
    BY <1>2, Zenon DEF BatchOfUsed
  <1>4. \A k, l \in DOMAIN batch' : batch'[k].ctx = batch'[l].ctx => k = l
    <2> SUFFICES ASSUME NEW k \in DOMAIN batch', NEW l \in DOMAIN batch',
                        batch'[k].ctx = batch'[l].ctx
                 PROVE  k = l
      OBVIOUS
    <2>1. k + 1 = l + 1
      BY <1>2 DEF BatchOfUsed
    <2> QED
      BY <1>1, <2>1
  <1> QED
    BY <1>3, <1>4 DEF BatchOfUsed

(* ... and when the context of this event is freed: none of the rest is    *)
(* of that context.                                                        *)
LEMMA BatchFreed ==
    ASSUME TypeOK, BatchOfUsed, batch # <<>>, NEW c, free_context(c), Used' = Used \ {This}
    PROVE  BatchOfUsed'
  <1>1. /\ Len(batch) \in Nat \ {0} /\ DOMAIN batch = 1 .. Len(batch)
        /\ This = batch[1].ctx /\ 1 \in DOMAIN batch
    BY CurrentType DEF TypeOK, This
  <1>2. DOMAIN batch' = 1 .. (Len(batch) - 1)
    BY <1>1 DEF free_context
  <1>3. ASSUME NEW k \in DOMAIN batch'
        PROVE  /\ k + 1 \in DOMAIN batch /\ batch'[k].ctx = batch[k + 1].ctx
               /\ batch[k + 1].ctx # This
               /\ batch'[k].orphan = (batch[k + 1].orphan \/ batch[k + 1].ctx = This)
    <2>1. k + 1 \in DOMAIN batch /\ k + 1 # 1 /\ k \in 1 .. (Len(batch) - 1)
      BY <1>1, <1>2
    <2>2. batch[k + 1] \in Event
      BY <1>1, <2>1 DEF TypeOK
    <2>3. batch'[k] = [batch[k + 1] EXCEPT !.orphan = @ \/ batch[k + 1].ctx = This]
      BY <2>1 DEF free_context
    <2>4. batch[k + 1].ctx # This
      BY <1>1, <2>1 DEF BatchOfUsed
    <2>5. /\ batch'[k].ctx = batch[k + 1].ctx
          /\ batch'[k].orphan = (batch[k + 1].orphan \/ batch[k + 1].ctx = This)
      BY <2>2, <2>3 DEF Event
    <2> QED
      BY <2>1, <2>4, <2>5
  <1>4. \A k \in DOMAIN batch' : ~batch'[k].orphan /\ batch'[k].ctx \in Used'
    BY <1>3, Zenon DEF BatchOfUsed
  <1>5. \A k, l \in DOMAIN batch' : batch'[k].ctx = batch'[l].ctx => k = l
    <2> SUFFICES ASSUME NEW k \in DOMAIN batch', NEW l \in DOMAIN batch',
                        batch'[k].ctx = batch'[l].ctx
                 PROVE  k = l
      OBVIOUS
    <2>1. k + 1 = l + 1
      BY <1>3 DEF BatchOfUsed
    <2> QED
      BY <1>1, <1>2, <2>1
  <1> QED
    BY <1>4, <1>5 DEF BatchOfUsed

(* epoll_wait: one descriptor per context, so one event per context.       *)
LEMMA BatchWaited ==
    ASSUME TypeOK, Conns, WebContexts, EpollWait, Used' = Used
    PROVE  BatchOfUsed'
  <1> DEFINE Added == {f \in FD : ep[f] # NotAdded}
  <1>0. PICK n \in 1 .. EVENTS_PER_BATCH :
           \E s \in [1 .. n -> Added], e \in [1 .. n -> {"ready", "hup"}] :
              /\ IsInjective(s)
              /\ \A k \in 1 .. n : e[k] = "ready" => ep[s[k]].mask # "hup"
              /\ batch' = [k \in 1 .. n |-> [ctx |-> ep[s[k]].ctx, ev |-> e[k], orphan |-> FALSE]]
    BY ONLY EpollWait, Zenon DEF EpollWait
  <1>1. PICK s \in [1 .. n -> Added], e \in [1 .. n -> {"ready", "hup"}] :
           /\ IsInjective(s)
           /\ batch' = [k \in 1 .. n |-> [ctx |-> ep[s[k]].ctx, ev |-> e[k], orphan |-> FALSE]]
    BY <1>0
  <1>2. DOMAIN batch' = 1 .. n /\ \A k \in 1 .. n : batch'[k].ctx = ep[s[k]].ctx /\ ~batch'[k].orphan
    BY <1>1
  <1>3. ASSUME NEW f \in Added
        PROVE  ep[f].ctx \in Used /\ arr[ep[f].ctx].fd = f
    <2>1. f \in open /\ f # NoFd
      BY DEF Conns, FD, NoFd
    <2>2. PICK i \in Used : f \in Fds(arr[i])
      BY <2>1 DEF Conns
    <2>3. ep[f].ctx = i /\ arr[i].fd = f
      BY <2>1, <2>2 DEF Conns, Held, WebContexts, Fds
    <2> QED
      BY <2>3
  <1>4. \A k, l \in 1 .. n : batch'[k].ctx = batch'[l].ctx => k = l
    <2> SUFFICES ASSUME NEW k \in 1 .. n, NEW l \in 1 .. n, ep[s[k]].ctx = ep[s[l]].ctx
                 PROVE  k = l
      BY <1>2
    <2>1. s[k] = s[l]
      BY <1>3
    <2> QED
      BY <1>1, <2>1 DEF IsInjective
  <1>5. \A k \in 1 .. n : batch'[k].ctx \in Used'
    BY <1>2, <1>3
  <1> QED
    BY <1>2, <1>4, <1>5 DEF BatchOfUsed

(* The event at the head of the batch is not stale.                        *)
LEMMA ServingFresh ==
    ASSUME TypeOK, ~stale, BatchOfUsed, NEW h, Dispatch(h)
    PROVE  ~stale' /\ This \in Used
  <1>1. batch # <<>> /\ stale' = (stale \/ Current.orphan \/ This \in FreeIdx)
    BY DEF Dispatch
  <1>2. 1 \in DOMAIN batch /\ Current = batch[1]
    BY <1>1, CurrentType DEF TypeOK
  <1>3. ~Current.orphan /\ This \in Used
    BY <1>2, Zenon DEF BatchOfUsed, This
  <1> QED
    BY <1>1, <1>3, Zenon DEF Used

(* Every step in server mode.                                              *)
LEMMA ServingNext ==
    ASSUME TypeOK, Sound, Serving, [Next]_vars
    PROVE  Serving'
  <1>0. enable_proxy' = enable_proxy
    BY DEF Next, EpollWait, AcceptNothing, Accept, AcceptNotAdded, AcceptAsserts, AcceptUndefined,
           process_read, process_write, process_read_frontend, process_write_backend,
           process_read_backend, process_write_frontend, Ended, vars
  <1> SUFFICES ASSUME ~enable_proxy
               PROVE  ~stale' /\ WebContexts' /\ BatchOfUsed'
    BY <1>0 DEF Serving
  <1>1. ~stale /\ WebContexts /\ BatchOfUsed
    BY DEF Serving
  <1>2. Pool /\ Conns
    BY <1>1 DEF Sound
  <1>3. arr \in [Idx -> Context]
    BY DEF TypeOK
  <1>4. CASE Ended \/ UNCHANGED vars
    <2>1. UNCHANGED vars
      BY <1>4 DEF Ended
    <2>2. Used' = Used
      BY <1>2, <2>1, PoolSame DEF vars
    <2> QED
      BY <1>1, <2>1, <2>2 DEF vars, WebContexts, BatchOfUsed
  <1>5. CASE EpollWait
    <2>1. UNCHANGED <<arr, next_idx, allocated, stale>>
      BY <1>5 DEF EpollWait
    <2>2. Used' = Used
      BY <1>2, <2>1, PoolSame
    <2>3. BatchOfUsed'
      BY <1>1, <1>2, <1>5, <2>2, BatchWaited
    <2> QED
      BY <1>1, <2>1, <2>2, <2>3 DEF WebContexts
  <1>6. ASSUME NEW h, Dispatch(h)
        PROVE  ~stale' /\ This \in Used /\ batch # <<>>
    BY <1>1, <1>6, ServingFresh DEF Dispatch
  <1>7. CASE AcceptNothing \/ AcceptAsserts \/ AcceptUndefined
    <2>1. Dispatch("process_accept") /\ Stay /\ NextEvent
      BY <1>7 DEF AcceptNothing, AcceptAsserts, AcceptUndefined, Dies
    <2>2. Used' = Used
      BY <1>2, <2>1, PoolSame DEF Stay
    <2>3. BatchOfUsed'
      BY <1>1, <1>6, <2>1, <2>2, BatchTail
    <2> QED
      BY <1>1, <1>6, <2>1, <2>2, <2>3 DEF WebContexts, Stay
  <1>8. CASE Accept
    <2>1. PICK n : n = next_idx
      OBVIOUS
    <2>2. PICK c : c = Client(next_idx)
      OBVIOUS
    <2>3. n \in Idx /\ arr[n] \in Context
      BY <1>3, <1>8, <2>1 DEF Accept, TypeOK
    <2>4. c.end_fd = NoFd /\ c.handler = "process_read" /\ c.next_idx = End
      BY <2>1, <2>2, <2>3 DEF Client, Context
    <2>5. Dispatch("process_accept") /\ alloc_context(c) /\ next_idx # End /\ NextEvent
      BY <1>8, <2>2 DEF Accept
    <2>6. Used' = Used \cup {n}
      BY <1>2, <2>1, <2>4, <2>5, PoolAlloc
    <2>7. BatchOfUsed'
      BY <1>1, <1>6, <2>5, <2>6, BatchTail
    <2>8. arr'[n] = c /\ \A i \in Idx \ {n} : arr'[i] = arr[i]
      BY <1>3, <2>1, <2>3, <2>5 DEF alloc_context
    <2>9. WebContexts'
      BY <1>1, <2>4, <2>6, <2>8 DEF WebContexts, WebHandler, Used
    <2> QED
      BY <1>6, <2>5, <2>7, <2>9
  <1>9. CASE AcceptNotAdded
    <2>1. Dispatch("process_accept") /\ NextEvent
      BY <1>9 DEF AcceptNotAdded
    <2>2. Used' = Used
      BY <1>2, <1>9, AcceptNotAddedKeeps
    <2>3. \A i \in Used : arr'[i] = arr[i]
      BY <1>2, <1>9, AcceptNotAddedKeeps
    <2>4. BatchOfUsed'
      BY <1>1, <1>6, <2>1, <2>2, BatchTail
    <2> QED
      BY <1>1, <1>6, <2>1, <2>2, <2>3, <2>4 DEF WebContexts
  <1>10. CASE process_read \/ process_write
    <2>1. PICK h : Dispatch(h)
      BY <1>10 DEF process_read, process_write
    <2>2. ~stale' /\ This \in Used /\ batch # <<>> /\ This \in Idx
      BY <1>6, <2>1 DEF Used
    <2>3. CASE FreeBack(Ctx)
      <3>1. Ctx \in Context /\ free_context(Ctx)
        BY <2>2, <2>3, CurrentType DEF FreeBack
      <3>2. Used' = Used \ {This}
        BY <1>2, <2>2, <3>1, PoolFree
      <3>3. BatchOfUsed'
        BY <1>1, <2>2, <3>1, <3>2, BatchFreed
      <3>4. \A i \in Used' : arr'[i] = arr[i]
        BY <1>3, <3>1, <3>2 DEF free_context, Used
      <3> QED
        BY <1>1, <2>2, <3>2, <3>3, <3>4 DEF WebContexts
    <2>4. CASE Dies("SIGPIPE")
      <3>1. Stay /\ NextEvent
        BY <2>4 DEF Dies
      <3>2. Used' = Used
        BY <1>2, <3>1, PoolSame DEF Stay
      <3>3. BatchOfUsed'
        BY <1>1, <2>2, <3>1, <3>2, BatchTail
      <3> QED
        BY <1>1, <2>2, <3>1, <3>2, <3>3 DEF WebContexts, Stay
    <2>5. ASSUME NEW w \in WebHandler, NEW regs, GoOn([Ctx EXCEPT !.handler = w], regs)
          PROVE  ~stale' /\ WebContexts' /\ BatchOfUsed'
      <3>1. Used' = Used
        BY <1>2, <2>2, <2>5, PoolGoOn
      <3>2. BatchOfUsed'
        BY <1>1, <2>2, <2>5, <3>1, BatchTail DEF GoOn
      <3>3. PICK t : t = This
        OBVIOUS
      <3>4. Ctx \in Context /\ Ctx = arr[t] /\ t \in Used
        BY <2>2, <3>3, CurrentType DEF Ctx
      <3>5. arr'[t].end_fd = arr[t].end_fd /\ arr'[t].handler = w
        BY <1>3, <2>2, <2>5, <3>3, <3>4 DEF GoOn, Context
      <3>6. \A i \in Idx \ {t} : arr'[i] = arr[i]
        BY <1>3, <2>5, <3>3 DEF GoOn
      <3> QED
        BY <1>1, <2>2, <3>1, <3>2, <3>4, <3>5, <3>6 DEF WebContexts, Used
    <2> QED
      BY <1>10, <2>3, <2>4, <2>5 DEF process_read, process_write, WebHandler
  <1>11. CASE \/ process_read_frontend \/ process_write_backend
              \/ process_read_backend \/ process_write_frontend
    <2>1. PICK h \in ProxyHandler : Dispatch(h)
      BY <1>11 DEF process_read_frontend, process_write_backend,
                   process_read_backend, process_write_frontend, ProxyHandler
    <2>2. This \in Used /\ Ctx.handler = h
      BY <1>6, <2>1 DEF Dispatch
    <2>3. Ctx.handler \in {"process_accept"} \cup WebHandler
      BY <1>1, <2>2 DEF WebContexts, Ctx
    <2> QED
      BY <2>2, <2>3 DEF WebHandler, ProxyHandler
  <1> QED
    BY <1>4, <1>5, <1>7, <1>8, <1>9, <1>10, <1>11 DEF Next

(* init_pool links the contexts in order, process_clients takes the first. *)
LEMMA SoundInit == Init => Inv
  <1> SUFFICES ASSUME Init PROVE Inv
    OBVIOUS
  <1>1. TypeOK
    BY TypeInit
  <1> DEFINE s == [k \in 1 .. (total - 1) |-> k]
  <1>2. /\ total - 1 \in Nat /\ s \in Seq(Idx) /\ Len(s) = total - 1
        /\ \A k \in 1 .. (total - 1) : s[k] = k /\ k \in Idx /\ k # Listener
    BY ConnWorkerAssumption DEF Idx, Listener
  <1>3. Range(s) = 1 .. (total - 1) /\ IsInjective(s)
    BY DEF Range, IsInjective
  <1>4. s = <<>> <=> total = 1
    BY <1>2, EmptyFacts, ConnWorkerAssumption
  <1> HIDE DEF s
  <1>5. next_idx = IF s = <<>> THEN End ELSE s[1]
    <2>1. CASE total = 1
      BY <1>4, <2>1 DEF Init
    <2>2. CASE total # 1
      <3>1. 1 \in 1 .. (total - 1)
        BY <2>2, ConnWorkerAssumption
      <3> QED
        BY <1>2, <1>4, <2>2, <3>1 DEF Init
    <2> QED
      BY <2>1, <2>2
  <1>6. ASSUME NEW k \in 1 .. Len(s)
        PROVE  arr[s[k]].next_idx = IF k = Len(s) THEN End ELSE s[k + 1]
    <2>1. s[k] = k /\ k \in Idx /\ k # Listener /\ k \in 1 .. (total - 1)
      BY <1>2
    <2>2. arr[k].next_idx = IF k = total - 1 THEN End ELSE k + 1
      BY <2>1 DEF Init
    <2>3. CASE k = Len(s)
      BY <1>2, <2>1, <2>2, <2>3
    <2>4. CASE k # Len(s)
      <3>1. k # total - 1 /\ k + 1 \in 1 .. (total - 1)
        BY <1>2, <2>1, <2>4
      <3> QED
        BY <1>2, <2>1, <2>2, <2>4, <3>1
    <2> QED
      BY <2>3, <2>4
  <1>7. Links(s, arr, next_idx)
    BY <1>2, <1>3, <1>5, <1>6 DEF Links
  <1>8. Pool
    <2>1. Len(s) = total - allocated
      BY <1>2 DEF Init
    <2> QED
      BY <1>7, <2>1 DEF Pool
  <1>9. Used = {Listener} /\ Listener \in Idx
    <2>1. FreeIdx = 1 .. (total - 1)
      BY <1>3, <1>7, LinksFacts
    <2> QED
      BY <1>2, <2>1, ConnWorkerAssumption DEF Used, Idx, Listener
  <1>10. /\ arr[Listener].fd = ListenFd /\ arr[Listener].end_fd = NoFd
         /\ arr[Listener].handler = "process_accept"
         /\ ListenFd \in FD /\ open = {ListenFd} /\ NoFd \notin FD
         /\ ep[ListenFd].ctx = Listener /\ ep[ListenFd].mask = "in"
         /\ \A f \in FD \ {ListenFd} : ep[f] = NotAdded
    <2>1. ListenFd \in FD /\ NoFd \notin FD
      BY ConnWorkerAssumption DEF FD, ListenFd, NoFd
    <2> QED
      BY <1>9, <2>1 DEF Init
  <1>11. Held(Listener)
    <2>1. Waits(arr[Listener])
      BY <1>10 DEF Waits
    <2> QED
      BY <1>10, <2>1 DEF Held, Fds, BackendHandler
  <1>12. Conns
    BY <1>9, <1>10, <1>11 DEF Conns, Fds
  <1>13. Sound
    BY <1>8, <1>12 DEF Sound, Init
  <1>14. Serving
    <2>1. WebContexts
      BY <1>9, <1>10 DEF WebContexts
    <2>2. BatchOfUsed
      BY DEF Init, BatchOfUsed
    <2>3. ~stale
      BY DEF Init
    <2> QED
      BY <2>1, <2>2, <2>3 DEF Serving
  <1> QED
    BY <1>1, <1>13, <1>14 DEF Inv

(* The worker's invariant holds for every pool, descriptor limit and batch *)
(* size, in both modes.                                                    *)
THEOREM Invariance == Spec => []Inv
  <1>1. Init => Inv
    BY SoundInit
  <1>2. Inv /\ [Next]_vars => Inv'
    BY TypeNext, SoundNext, ServingNext DEF Inv
  <1> QED
    BY <1>1, <1>2, PTL DEF Spec

-----------------------------------------------------------------------------
(* The properties the runs check.                                          *)

(* The free list of context.c has no cycle, ends, and holds exactly the    *)
(* contexts pool->allocated does not count.                                *)
THEOREM FreeListIsSound == Spec => []FreeListSound
  <1>1. Inv => FreeListSound
    <2> SUFFICES ASSUME Inv, ~stale
                 PROVE  FreeList[total - allocated] = End /\ Cardinality(FreeIdx) = total - allocated
      BY DEF Inv, FreeListSound
    <2>1. PICK s : Links(s, arr, next_idx) /\ Len(s) = total - allocated
      BY DEF Inv, Sound, Pool
    <2> QED
      BY <2>1, LinksFacts
  <1> QED
    BY <1>1, Invariance, PTL

(* No handler path leaks a descriptor, shares one between two contexts, or *)
(* leaves epoll leading to the wrong context.                              *)
THEOREM DescriptorsHaveOneOwner == Spec => []OneOwner
  <1>1. Inv => OneOwner
    <2> SUFFICES ASSUME Inv, ~stale
                 PROVE  /\ \A f \in open : Cardinality({i \in Used : f \in Fds(arr[i])}) = 1
                        /\ \A i \in Used : /\ arr[i].fd \in open
                                           /\ \A f \in Fds(arr[i]) \ {NoFd} : f \in open /\ ep[f].ctx = i
      BY DEF OneOwner
    <2>1. TypeOK /\ Conns
      BY DEF Inv, Sound
    <2>2. ASSUME NEW f \in open
          PROVE  Cardinality({i \in Used : f \in Fds(arr[i])}) = 1
      <3>1. PICK i \in Used : f \in Fds(arr[i])
        BY <2>1 DEF Conns
      <3>2. f # NoFd
        BY <2>1 DEF TypeOK, FD, NoFd
      <3>3. {j \in Used : f \in Fds(arr[j])} = {i}
        BY <2>1, <3>1, <3>2, HeldApart
      <3> QED
        BY <3>3, FS_Singleton
    <2>3. ASSUME NEW i \in Used
          PROVE  arr[i].fd \in open /\ \A f \in Fds(arr[i]) \ {NoFd} : f \in open /\ ep[f].ctx = i
      BY <2>1 DEF Conns, Held, Fds
    <2> QED
      BY <2>2, <2>3
  <1> QED
    BY <1>1, Invariance, PTL

(* Every connection waits for the event its handler is for, with the       *)
(* PROXY_BACKEND_EVENT flag that handler expects.                          *)
THEOREM ConnectionsAreArmed == Spec => []ArmedForHandler
  <1>1. Inv => ArmedForHandler
    BY DEF Inv, Sound, Conns, Held, ArmedForHandler
  <1> QED
    BY <1>1, Invariance, PTL

(* In server mode no handler is called for a freed context: only proxy     *)
(* mode, with two descriptors per context, has stale events.               *)
THEOREM ServerHasNoStaleEvent == Spec => []ServerNeverStale
  <1>1. Inv => ServerNeverStale
    BY DEF Inv, Serving, ServerNeverStale
  <1> QED
    BY <1>1, Invariance, PTL

(* The assertion context.c:55 makes in free_context, which a stale event   *)
(* breaks in proxy mode, holds in server mode, and alloc_context never     *)
(* indexes the pool with -1.                                               *)
THEOREM ServerFreesCounted ==
    Spec => [](~enable_proxy => EveryFreeCounted /\ exit # "undefined")
  <1>1. Inv => (~enable_proxy => EveryFreeCounted /\ exit # "undefined")
    BY DEF Inv, Serving, Sound, EveryFreeCounted
  <1> QED
    BY <1>1, Invariance, PTL
=============================================================================
