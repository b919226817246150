----------------------------- MODULE ConnWorker -----------------------------
(***************************************************************************)
(* One worker process of mult_process_server: the epoll loop of server.c,  *)
(* the context pool of context.c, accept and close of conn_process.c and   *)
(* the connection handlers of web_server.c (server mode) and               *)
(* proxy_server.c (proxy mode).                                            *)
(*                                                                         *)
(* One call of ctx->handler is one action: the process has one thread.     *)
(* The kernel chooses which descriptors are ready and which system calls   *)
(* fail; it gives the lowest free descriptor, as POSIX says, and forgets   *)
(* the epoll registration of a closed one, which is why fd_added and       *)
(* end_fd_added (they only decide on an explicit EPOLL_CTL_DEL) are left   *)
(* out.  The other workers are seen through accept, which fails when one   *)
(* of them took the connection.                                            *)
(***************************************************************************)
EXTENDS Integers, Sequences, FiniteSets, FiniteSetsExt, Functions

CONSTANTS
    total,              \* MAX_CONNS_PER_WORKER: contexts in the pool
    maxFd,              \* RLIMIT_NOFILE: descriptors 1 .. maxFd
    EVENTS_PER_BATCH,   \* events one epoll_wait returns at most
    pa_num              \* backends of proxy mode

ASSUME ConnWorkerAssumption ==
    /\ total \in Nat \ {0}
    /\ maxFd \in Nat \ {0}
    /\ EVENTS_PER_BATCH \in Nat \ {0}
    /\ pa_num \in Nat \ {0}

VARIABLES
    enable_proxy,   \* the mode, from the command line
    arr,            \* the contexts: pool->arr
    next_idx,       \* head of the pool's free list, -1 when it is empty
    allocated,      \* pool->allocated
    open,           \* the open descriptors
    ep,             \* the epoll registration of each descriptor
    batch,          \* evts[i ..]: the events of this epoll_wait still to handle
    last,           \* select_backend's static index
    exit,           \* how the process ended, or "no"
    stale           \* history: an event of a closed connection was handled

vars == <<enable_proxy, arr, next_idx, allocated, open, ep, batch, last, exit, stale>>

Idx      == 0 .. total - 1
End      == -1
FD       == 1 .. maxFd
ListenFd == 1
NoFd     == 0
Listener == 0

WebHandler   == {"process_read", "process_write"}
ProxyHandler == {"process_read_frontend", "process_write_backend",
                 "process_read_backend", "process_write_frontend"}
Handler      == {"unset", "process_accept"} \cup WebHandler \cup ProxyHandler

(* flag is PROXY_BACKEND_EVENT; next_idx links the free contexts.          *)
Context == [fd : FD \cup {NoFd}, end_fd : FD \cup {NoFd}, handler : Handler,
            flag : BOOLEAN, next_idx : Idx \cup {End}]

(* Which event a descriptor waits for besides HUP and ERR, and data.ptr.   *)
NotAdded     == [ctx |-> End, mask |-> "none"]
Registration == {NotAdded} \cup [ctx : Idx, mask : {"in", "out", "hup"}]

(* An event: "hup" has EPOLLHUP or EPOLLERR set, "ready" has neither.      *)
(* orphan is history: its connection was closed earlier in the batch.      *)
Event == [ctx : Idx, ev : {"ready", "hup"}, orphan : BOOLEAN]

TypeOK ==
    /\ enable_proxy \in BOOLEAN
    /\ arr \in [Idx -> Context]
    /\ next_idx \in Idx \cup {End}
    /\ allocated \in 0 .. total
    /\ open \subseteq FD
    /\ ep \in [FD -> Registration]
    /\ batch \in Seq(Event) /\ Len(batch) <= EVENTS_PER_BATCH
    /\ last \in 0 .. pa_num - 1
    /\ exit \in {"no", "alloc_assert", "free_assert", "SIGPIPE", "undefined"}
    /\ stale \in BOOLEAN

-----------------------------------------------------------------------------
(* context.c: init_pool links 0 .. total - 1 in order, and process_clients *)
(* allocates context 0 for the one listening socket.  The array is large   *)
(* enough for malloc to map fresh, zeroed pages, so every flag is clear.   *)
Init ==
    /\ enable_proxy \in BOOLEAN
    /\ arr = [i \in Idx |->
                [fd |-> IF i = Listener THEN ListenFd ELSE NoFd, end_fd |-> NoFd,
                 handler |-> IF i = Listener THEN "process_accept" ELSE "unset",
                 flag |-> FALSE,
                 next_idx |-> IF i = Listener \/ i = total - 1 THEN End ELSE i + 1]]
    /\ next_idx = IF total = 1 THEN End ELSE 1
    /\ allocated = 1
    /\ open = {ListenFd}
    /\ ep = [f \in FD |-> IF f = ListenFd THEN [ctx |-> Listener, mask |-> "in"] ELSE NotAdded]
    /\ batch = <<>>
    /\ last = 0
    /\ exit = "no"
    /\ stale = FALSE

FreeFds == FD \ open
NewFd   == Min(FreeFds)

(* epoll_wait: some registered descriptors, each at most once, in any      *)
(* order.  HUP and ERR are reported whatever the mask says.                *)
EpollWait ==
    /\ exit = "no" /\ batch = <<>>
    /\ \E n \in 1 .. EVENTS_PER_BATCH :
         \E s \in [1 .. n -> {f \in FD : ep[f] # NotAdded}], e \in [1 .. n -> {"ready", "hup"}] :
            /\ IsInjective(s)
            /\ \A k \in 1 .. n : e[k] = "ready" => ep[s[k]].mask # "hup"
            /\ batch' = [k \in 1 .. n |-> [ctx |-> ep[s[k]].ctx, ev |-> e[k], orphan |-> FALSE]]
    /\ UNCHANGED <<enable_proxy, arr, next_idx, allocated, open, ep, last, exit, stale>>

(* The free list, followed from pool->next_idx.                            *)
FreeList == LET Step[k \in 0 .. total] ==
                  IF k = 0 THEN next_idx
                  ELSE IF Step[k - 1] = End THEN End ELSE arr[Step[k - 1]].next_idx
            IN  Step
FreeIdx  == {FreeList[k] : k \in 0 .. total} \ {End}

(* The event the loop is at, its context, and the call of its handler.     *)
Current == Head(batch)
This    == Current.ctx
Ctx     == arr[This]
IsReady == Current.ev = "ready"

Dispatch(h) ==
    /\ exit = "no" /\ batch # <<>>
    /\ Ctx.handler = h
    /\ stale' = (stale \/ Current.orphan \/ This \in FreeIdx)

NextEvent == batch' = Tail(batch)
Stay      == UNCHANGED <<arr, next_idx, allocated, open, ep>>
Dies(how) == exit' = how /\ NextEvent /\ Stay

(* process_close: both descriptors of a context go.                        *)
\* Mutant: the backend descriptor is forgotten.
FdsFrontOnly(c) == {c.fd}
Fds(c) == {c.fd, c.end_fd}

\* Mutant: the context is freed without closing its connection.
process_closeSkipped(c) == UNCHANGED <<open, ep>>
process_close(c) ==
    /\ open' = open \ Fds(c)
    /\ ep' = [f \in FD |-> IF f \in Fds(c) THEN NotAdded ELSE ep[f]]

(* free_context, for the context this event is for, as c has it: to the    *)
(* front of the free list.  The events left for it lose their connection.  *)
\* Mutant: the freed context does not link to the rest of the list.
free_contextUnlinked(c) ==
    /\ exit' = IF allocated > 0 THEN "no" ELSE "free_assert"
    /\ allocated' = IF allocated > 0 THEN allocated - 1 ELSE allocated
    /\ arr' = [arr EXCEPT ![This] = c]
    /\ next_idx' = This
    /\ batch' = [k \in 1 .. Len(batch) - 1 |->
                    [batch[k + 1] EXCEPT !.orphan = @ \/ batch[k + 1].ctx = This]]
free_context(c) ==
    /\ exit' = IF allocated > 0 THEN "no" ELSE "free_assert"
    /\ allocated' = IF allocated > 0 THEN allocated - 1 ELSE allocated
    /\ arr' = [arr EXCEPT ![This] = [c EXCEPT !.next_idx = next_idx]]
    /\ next_idx' = This
    /\ batch' = [k \in 1 .. Len(batch) - 1 |->
                    [batch[k + 1] EXCEPT !.orphan = @ \/ batch[k + 1].ctx = This]]

(* The free_back label of every handler.                                   *)
FreeBack(c) == process_close(c) /\ free_context(c)

(* EPOLL_CTL_MOD of descriptor f for this context.                         *)
Armed(f, m) == [ep EXCEPT ![f] = [ctx |-> This, mask |-> m]]

(* A handler leaves its context as c, with these registrations.            *)
GoOn(c, registrations) ==
    /\ arr' = [arr EXCEPT ![This] = c]
    /\ ep' = registrations
    /\ NextEvent
    /\ UNCHANGED <<next_idx, allocated, exit>>

-----------------------------------------------------------------------------
(* conn_process.c: process_accept                                          *)

(* HUP or ERR on the listening socket, or accept fails.                    *)
AcceptNothing ==
    /\ Dispatch("process_accept")
    /\ NextEvent /\ Stay
    /\ UNCHANGED <<enable_proxy, last, exit>>

(* alloc_context: the first free context, with its flag as it was left.    *)
alloc_context(c) ==
    /\ allocated' = allocated + 1
    /\ next_idx' = arr[next_idx].next_idx
    /\ arr' = [arr EXCEPT ![next_idx] = c]

Client(i) ==
    [arr[i] EXCEPT !.fd = NewFd, !.end_fd = NoFd, !.next_idx = End,
                   !.handler = IF enable_proxy THEN "process_read_frontend" ELSE "process_read"]

Accept ==
    /\ Dispatch("process_accept") /\ IsReady
    /\ FreeFds # {} /\ allocated < total /\ next_idx # End
    /\ alloc_context(Client(next_idx))
    /\ open' = open \cup {NewFd}
    /\ ep' = [ep EXCEPT ![NewFd] = [ctx |-> next_idx, mask |-> "in"]]
    /\ NextEvent
    /\ UNCHANGED <<enable_proxy, last, exit>>

(* EPOLL_CTL_ADD fails: closed and freed at once, back to the same list.   *)
AcceptNotAdded ==
    /\ Dispatch("process_accept") /\ IsReady
    /\ FreeFds # {} /\ allocated < total /\ next_idx # End
    /\ arr' = [arr EXCEPT ![next_idx] = [Client(next_idx) EXCEPT !.next_idx = arr[next_idx].next_idx]]
    /\ NextEvent
    /\ UNCHANGED <<enable_proxy, next_idx, allocated, open, ep, last, exit>>

(* assert(pool->allocated < pool->total) fails, with the accepted socket.  *)
AcceptAsserts ==
    /\ Dispatch("process_accept") /\ IsReady
    /\ FreeFds # {} /\ allocated = total
    /\ Dies("alloc_assert")
    /\ UNCHANGED <<enable_proxy, last>>

(* The count says there is a free context, the list is empty: arr[-1].     *)
AcceptUndefined ==
    /\ Dispatch("process_accept") /\ IsReady
    /\ FreeFds # {} /\ allocated < total /\ next_idx = End
    /\ Dies("undefined")
    /\ UNCHANGED <<enable_proxy, last>>

-----------------------------------------------------------------------------
(* web_server.c.  read and write fail on a closed descriptor and may fail  *)
(* on an open one; SIGPIPE is neither blocked nor handled, so a write to a *)
(* connection the peer has reset kills the process.                        *)

(* HUP, ERR, a failed read or end of file close the connection.            *)
process_read ==
    /\ Dispatch("process_read")
    /\ UNCHANGED <<enable_proxy, last>>
    /\ \/ FreeBack(Ctx)
       \/ /\ IsReady /\ Ctx.fd \in open
          /\ GoOn([Ctx EXCEPT !.handler = "process_write"], Armed(Ctx.fd, "out"))
          /\ UNCHANGED open

process_write ==
    /\ Dispatch("process_write")
    /\ UNCHANGED <<enable_proxy, last>>
    /\ \/ FreeBack(Ctx)
       \/ /\ IsReady /\ Ctx.fd \in open
          /\ Dies("SIGPIPE")
       \/ /\ IsReady /\ Ctx.fd \in open
          /\ GoOn([Ctx EXCEPT !.handler = "process_read"], Armed(Ctx.fd, "in"))
          /\ UNCHANGED open

-----------------------------------------------------------------------------
(* proxy_server.c                                                          *)

(* select_backend: round robin over pa[0 .. pa_num - 1].                   *)
select_backend == IF last + 1 = pa_num THEN 0 ELSE last + 1

(* The context once socket() gave the backend descriptor, and once the     *)
(* connection to the backend is under way.                                 *)
WithBackend == [Ctx EXCEPT !.end_fd = NewFd]
Connecting  == [WithBackend EXCEPT !.handler = "process_write_backend", !.flag = TRUE]

process_read_frontend ==
    /\ Dispatch("process_read_frontend")
    /\ UNCHANGED enable_proxy
    /\ \/ FreeBack(Ctx) /\ UNCHANGED last           \* HUP, read, EPOLL_CTL_MOD or socket
       \/ /\ IsReady /\ Ctx.fd \in open /\ FreeFds # {}
          /\ \/ FreeBack(WithBackend) /\ UNCHANGED last                \* setsockopt
             \/ FreeBack(WithBackend) /\ last' = select_backend        \* connect
             \/ FreeBack(Connecting) /\ last' = select_backend         \* EPOLL_CTL_ADD
             \/ /\ GoOn(Connecting,
                        [Armed(Ctx.fd, "hup") EXCEPT ![NewFd] = [ctx |-> This, mask |-> "out"]])
                /\ open' = open \cup {NewFd}
                /\ last' = select_backend

process_write_backend ==
    /\ Dispatch("process_write_backend")
    /\ UNCHANGED <<enable_proxy, last>>
    /\ \/ FreeBack(Ctx)
       \/ /\ IsReady /\ Ctx.flag /\ Ctx.end_fd \in open
          /\ Dies("SIGPIPE")
       \/ /\ IsReady /\ Ctx.flag /\ Ctx.end_fd \in open
          /\ GoOn([Ctx EXCEPT !.handler = "process_read_backend"], Armed(Ctx.end_fd, "in"))
          /\ UNCHANGED open

(* HUP and ERR are not looked at: the read decides.                        *)
\* Mutant: the frontend is not armed for the answer.
AnswerFrontendUnarmed == Armed(Ctx.end_fd, "hup")
AnswerFrontend == [Armed(Ctx.fd, "out") EXCEPT ![Ctx.end_fd] = [ctx |-> This, mask |-> "hup"]]

process_read_backend ==
    /\ Dispatch("process_read_backend")
    /\ UNCHANGED <<enable_proxy, last>>
    /\ \/ FreeBack(Ctx)
       \/ /\ Ctx.flag /\ {Ctx.fd, Ctx.end_fd} \subseteq open
          /\ GoOn([Ctx EXCEPT !.handler = "process_write_frontend", !.flag = FALSE], AnswerFrontend)
          /\ UNCHANGED open

(* Answered or not, the connection is closed.                              *)
process_write_frontend ==
    /\ Dispatch("process_write_frontend")
    /\ UNCHANGED <<enable_proxy, last>>
    /\ \/ FreeBack(Ctx)
       \/ /\ ~Ctx.flag /\ Ctx.fd \in open
          /\ Dies("SIGPIPE")

(* Nobody starts a worker again.                                           *)
Ended == exit # "no" /\ UNCHANGED vars

Next ==
    \/ EpollWait
    \/ AcceptNothing \/ Accept \/ AcceptNotAdded \/ AcceptAsserts \/ AcceptUndefined
    \/ process_read \/ process_write
    \/ process_read_frontend \/ process_write_backend
    \/ process_read_backend \/ process_write_frontend
    \/ Ended

Spec == Init /\ [][Next]_vars

-----------------------------------------------------------------------------
(* Properties.  The first three are about a process that has not yet       *)
(* handled an event of a connection it had closed: after that nothing in   *)
(* the pool can be relied on (see EveryFreeCounted).                       *)

Used == Idx \ FreeIdx

(* The free list of context.c has no cycle, ends, and holds exactly the    *)
(* contexts that pool->allocated does not count, whatever order the        *)
(* connections are opened and closed in.  The state is well typed.         *)
FreeListSound ==
    /\ TypeOK
    /\ ~stale => /\ FreeList[total - allocated] = End
                 /\ Cardinality(FreeIdx) = total - allocated

(* Every open descriptor is held by exactly one context in use, every      *)
(* context in use holds open descriptors only, and epoll leads from each   *)
(* of them to its holder: no handler path of conn_process.c, web_server.c  *)
(* or proxy_server.c leaks a descriptor or leaves one shared.              *)
OneOwner ==
    ~stale => /\ \A f \in open : Cardinality({i \in Used : f \in Fds(arr[i])}) = 1
              /\ \A i \in Used : /\ arr[i].fd \in open
                                 /\ \A f \in Fds(arr[i]) \ {NoFd} : f \in open /\ ep[f].ctx = i

(* A connection waits for the event its handler is for, on the descriptor  *)
(* the handler works on, with PROXY_BACKEND_EVENT as the handler tests it, *)
(* although alloc_context does not clear the flag: none of the "while back *)
(* end socket not enabled" errors of proxy_server.c can happen.            *)
Waits(c) ==
    CASE c.handler = "process_accept"         -> ep[c.fd].mask = "in"
      [] c.handler = "process_read"           -> ep[c.fd].mask = "in"
      [] c.handler = "process_write"          -> ep[c.fd].mask = "out"
      [] c.handler = "process_read_frontend"  -> ep[c.fd].mask = "in" /\ c.end_fd = NoFd
      [] c.handler = "process_write_backend"  -> ep[c.end_fd].mask = "out" /\ ep[c.fd].mask = "hup" /\ c.flag
      [] c.handler = "process_read_backend"   -> ep[c.end_fd].mask = "in" /\ ep[c.fd].mask = "hup" /\ c.flag
      [] c.handler = "process_write_frontend" -> ep[c.fd].mask = "out" /\ ep[c.end_fd].mask = "hup" /\ ~c.flag
ArmedForHandler == ~stale => \A i \in Used : Waits(arr[i])

(* In server mode the loop of process_clients never calls the handler of a *)
(* context that is free, or that an earlier event of the same batch        *)
(* closed: one descriptor per context means one event per context.         *)
ServerNeverStale == ~enable_proxy => ~stale

(* Violated in proxy mode.  context.c:55 asserts, in free_context, that    *)
(* some context is allocated: every context is freed once per allocation.  *)
EveryFreeCounted == exit # "free_assert"
=============================================================================
