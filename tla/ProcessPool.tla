----------------------------- MODULE ProcessPool -----------------------------
(***************************************************************************)
(* ProcessPool/process_pool/processpool.h: a parent that watches the       *)
(* listening socket and tells its children, in turn and over a socket pair *)
(* each, to accept a connection; signals reach parent and children through *)
(* a pipe of their own and are handled in the epoll loop.                  *)
(*                                                                         *)
(* Every descriptor is registered with EPOLLET (addfd), so epoll reports   *)
(* an arrival once, and arrivals before the next epoll_wait as one: the    *)
(* edge variables.  One event is one action.  Handling the rest of a batch *)
(* after the event that set m_stop changes nothing: by then no child is    *)
(* left to send to, and an accept by a child that has been told to stop    *)
(* can as well come before it is told.                                     *)
(*                                                                         *)
(* Left out: what a child does with a connection (the template argument),  *)
(* and signal pipes that overflow.                                         *)
(***************************************************************************)
EXTENDS Naturals

CONSTANTS
    m_process_number,   \* children in the pool
    MaxConn             \* bound on the connections that arrive

ASSUME ProcessPoolAssumption ==
    /\ m_process_number \in Nat \ {0}
    /\ MaxConn \in Nat

Children == 0 .. m_process_number - 1

VARIABLES
    parent,         \* control state of the parent
    m_pid,          \* TRUE: m_sub_process[i].m_pid is a pid, FALSE: it is -1
    counter,        \* sub_process_counter
    child,          \* control state of each child
    backlog,        \* connections that nobody has accepted
    arrived,        \* history: connections that have arrived
    listenEdge,     \* the listening socket has an event for the parent
    pipe,           \* messages in each socket pair
    pipeEdge,       \* the socket pair has an event for the child
    sigchld,        \* SIGCHLD is in the parent's signal pipe
    parentTerm,     \* SIGTERM or SIGINT is in the parent's signal pipe
    childTerm,      \* SIGTERM is in the child's signal pipe
    sentTo,         \* history: messages sent to each child
    early           \* history: a child died before the parent handled SIGCHLD

poolVars == <<parent, m_pid, counter, child, backlog, arrived, listenEdge, pipe,
          pipeEdge, sigchld, parentTerm, childTerm, sentTo, early>>

(* "setup" is before setup_sig_pipe has installed the handlers.  The parent *)
(* leaves its loop because of m_stop or because epoll_wait has failed, or  *)
(* a signal without a handler kills it.  A zombie has exited, "gone" has   *)
(* been waited for.                                                        *)
ParentState == {"setup", "loop", "stopped", "failed", "killed"}
ChildState  == {"setup", "loop", "zombie", "gone"}

PoolTypeOK ==
    /\ parent \in ParentState
    /\ m_pid \in [Children -> BOOLEAN]
    /\ counter \in Children
    /\ child \in [Children -> ChildState]
    /\ backlog \in 0 .. MaxConn /\ arrived \in backlog .. MaxConn
    /\ listenEdge \in BOOLEAN
    /\ pipe \in [Children -> 0 .. MaxConn]
    /\ pipeEdge \in [Children -> BOOLEAN]
    /\ sigchld \in BOOLEAN /\ parentTerm \in BOOLEAN
    /\ childTerm \in [Children -> BOOLEAN]
    /\ sentTo \in [Children -> 0 .. MaxConn]
    /\ early \in BOOLEAN

(* The constructor has created the socket pairs and forked every child.    *)
PoolInit ==
    /\ parent = "setup"
    /\ m_pid = [i \in Children |-> TRUE]
    /\ counter = 0
    /\ child = [i \in Children |-> "setup"]
    /\ backlog = 0 /\ arrived = 0
    /\ listenEdge = FALSE
    /\ pipe = [i \in Children |-> 0]
    /\ pipeEdge = [i \in Children |-> FALSE]
    /\ sigchld = FALSE /\ parentTerm = FALSE
    /\ childTerm = [i \in Children |-> FALSE]
    /\ sentTo = [i \in Children |-> 0]
    /\ early = FALSE

ChildAlive(i) == child[i] \in {"setup", "loop"}

-----------------------------------------------------------------------------
(* The environment: clients, and signals from outside.                     *)

Connect ==
    /\ arrived < MaxConn
    /\ arrived' = arrived + 1 /\ backlog' = backlog + 1
    /\ listenEdge' = TRUE
    /\ UNCHANGED <<parent, m_pid, counter, child, pipe, pipeEdge, sigchld, parentTerm,
                   childTerm, sentTo, early>>

(* SIGTERM or SIGINT: sig_handler puts it into the pipe; before there is a *)
(* handler the default action ends the process.                            *)
Terminate ==
    /\ \/ parent = "loop" /\ parentTerm' = TRUE /\ UNCHANGED parent
       \/ parent = "setup" /\ parent' = "killed" /\ UNCHANGED parentTerm
    /\ UNCHANGED <<m_pid, counter, child, backlog, arrived, listenEdge, pipe, pipeEdge,
                   sigchld, childTerm, sentTo, early>>

(* A signal that never gets a handler: SIGHUP, SIGKILL.                    *)
ParentDies ==
    /\ parent \in {"setup", "loop"}
    /\ parent' = "killed"
    /\ UNCHANGED <<m_pid, counter, child, backlog, arrived, listenEdge, pipe, pipeEdge,
                   sigchld, parentTerm, childTerm, sentTo, early>>

(* A process ends: its end of the socket pair closes, and the parent gets  *)
(* SIGCHLD, which is ignored before its handler is there.                  *)
Exits(i) ==
    /\ child' = [child EXCEPT ![i] = "zombie"]
    /\ pipe' = [pipe EXCEPT ![i] = 0]
    /\ pipeEdge' = [pipeEdge EXCEPT ![i] = FALSE]
    /\ sigchld' = (sigchld \/ parent = "loop")
    /\ early' = (early \/ parent = "setup")

(* A child is killed, or fails an assert, or epoll_wait fails.             *)
ChildDies(i) ==
    /\ ChildAlive(i)
    /\ Exits(i)
    /\ UNCHANGED <<parent, m_pid, counter, backlog, arrived, listenEdge, parentTerm, childTerm, sentTo>>

-----------------------------------------------------------------------------
(* run_child                                                               *)

ChildSetup(i) ==
    /\ child[i] = "setup"
    /\ child' = [child EXCEPT ![i] = "loop"]
    /\ UNCHANGED <<parent, m_pid, counter, backlog, arrived, listenEdge, pipe, pipeEdge,
                   sigchld, parentTerm, childTerm, sentTo, early>>

(* An event on the socket pair: one message is received, one accept is     *)
(* tried; it fails when no connection is waiting.                          *)
ChildAccept(i) ==
    /\ child[i] = "loop" /\ pipeEdge[i]
    /\ pipeEdge' = [pipeEdge EXCEPT ![i] = FALSE]
    /\ pipe' = [pipe EXCEPT ![i] = @ - 1]
    /\ backlog' = IF backlog = 0 THEN 0 ELSE backlog - 1
    /\ UNCHANGED <<parent, m_pid, counter, child, arrived, listenEdge, sigchld, parentTerm,
                   childTerm, sentTo, early>>

(* SIGTERM sets m_stop: the child leaves its loop and the process.         *)
ChildStop(i) ==
    /\ child[i] = "loop" /\ childTerm[i]
    /\ childTerm' = [childTerm EXCEPT ![i] = FALSE]
    /\ Exits(i)
    /\ UNCHANGED <<parent, m_pid, counter, backlog, arrived, listenEdge, parentTerm, sentTo>>

-----------------------------------------------------------------------------
(* run_parent                                                              *)

(* addfd registers the listening socket: a waiting connection is an event. *)
ParentSetup ==
    /\ parent = "setup"
    /\ parent' = "loop"
    /\ listenEdge' = (backlog > 0)
    /\ UNCHANGED <<m_pid, counter, child, backlog, arrived, pipe, pipeEdge, sigchld, parentTerm,
                   childTerm, sentTo, early>>

(* epoll_wait fails with anything but EINTR: the loop is left, m_stop or   *)
(* not, and nobody tells the children.                                     *)
ParentFails ==
    /\ parent = "loop"
    /\ parent' = "failed"
    /\ UNCHANGED <<m_pid, counter, child, backlog, arrived, listenEdge, pipe, pipeEdge,
                   sigchld, parentTerm, childTerm, sentTo, early>>

(* i is the first child at or after sub_process_counter whose m_pid is not *)
(* -1.  That there is none is seen when the last one is reaped, and m_stop *)
(* is set then: the second test of the loop never sets it first.           *)
Offset(k) == (counter + k) % m_process_number
Chosen(i) == \E k \in Children : /\ i = Offset(k) /\ m_pid[i]
                                 /\ \A l \in 0 .. k - 1 : ~m_pid[Offset(l)]

\* Mutant: the turn does not move on.
NextTurnSame(i) == i
NextTurn(i) == (i + 1) % m_process_number

ParentDispatch ==
    /\ parent = "loop" /\ listenEdge
    /\ listenEdge' = FALSE
    /\ \E i \in Children :
         /\ Chosen(i)
         /\ counter' = NextTurn(i)
         /\ sentTo' = [sentTo EXCEPT ![i] = @ + 1]
         /\ \/ /\ ChildAlive(i)
               /\ pipe' = [pipe EXCEPT ![i] = @ + 1]
               /\ pipeEdge' = [pipeEdge EXCEPT ![i] = TRUE]
            \/ ~ChildAlive(i) /\ UNCHANGED <<pipe, pipeEdge>>      \* send fails with EPIPE
    /\ UNCHANGED <<parent, m_pid, child, backlog, arrived, sigchld, parentTerm, childTerm, early>>

(* SIGCHLD: wait for every child that has exited, mark it, and stop when   *)
(* no child is left.                                                       *)
\* Mutant: the loop that looks for a living child clears m_stop only for
\* the first one.
run_parent_m_stopFirstChild(pids) == ~pids[0]
run_parent_m_stop(pids) == \A i \in Children : ~pids[i]

ParentReap ==
    /\ parent = "loop" /\ sigchld
    /\ sigchld' = FALSE
    /\ child' = [i \in Children |-> IF child[i] = "zombie" THEN "gone" ELSE child[i]]
    /\ m_pid' = [i \in Children |-> m_pid[i] /\ child[i] # "zombie"]
    /\ parent' = IF run_parent_m_stop(m_pid') THEN "stopped" ELSE "loop"
    /\ UNCHANGED <<counter, backlog, arrived, listenEdge, pipe, pipeEdge, parentTerm, childTerm,
                   sentTo, early>>

(* SIGTERM or SIGINT: kill(pid, SIGTERM) for every child with a pid.  One  *)
(* without a handler yet ends at once.                                     *)
\* Mutant: the loop starts at 1.
KilledButFirst == {i \in Children : i > 0 /\ m_pid[i]}
Killed == {i \in Children : m_pid[i]}

ParentKill ==
    /\ parent = "loop" /\ parentTerm
    /\ parentTerm' = FALSE
    /\ LET dying == {i \in Killed : child[i] = "setup"} IN
         /\ child' = [i \in Children |-> IF i \in dying THEN "zombie" ELSE child[i]]
         /\ childTerm' = [i \in Children |-> childTerm[i] \/ (i \in Killed /\ child[i] = "loop")]
         /\ pipe' = [i \in Children |-> IF i \in dying THEN 0 ELSE pipe[i]]
         /\ pipeEdge' = [i \in Children |-> pipeEdge[i] /\ i \notin dying]
         /\ sigchld' = (sigchld \/ dying # {})
    /\ UNCHANGED <<parent, m_pid, counter, backlog, arrived, listenEdge, sentTo, early>>

PoolNext ==
    \/ Connect \/ Terminate \/ ParentDies
    \/ \E i \in Children : ChildDies(i) \/ ChildSetup(i) \/ ChildAccept(i) \/ ChildStop(i)
    \/ ParentSetup \/ ParentFails \/ ParentDispatch \/ ParentReap \/ ParentKill

PoolSpec == PoolInit /\ [][PoolNext]_poolVars

(* The processes are scheduled; clients connect, signals come and children *)
(* fail only as they please.                                               *)
PoolFairness ==
    /\ WF_poolVars(ParentSetup) /\ WF_poolVars(ParentDispatch)
    /\ WF_poolVars(ParentReap) /\ WF_poolVars(ParentKill)
    /\ \A i \in Children : WF_poolVars(ChildSetup(i)) /\ WF_poolVars(ChildAccept(i)) /\ WF_poolVars(ChildStop(i))

PoolFairSpec == PoolSpec /\ PoolFairness

-----------------------------------------------------------------------------
(* Properties                                                              *)

(* m_stop ends run_parent exactly when the last child has been waited for, *)
(* however exits, SIGCHLD and SIGTERM interleave: not while one is left,   *)
(* and no parent goes on without children.  Only a failed epoll_wait and a *)
(* signal without a handler end the parent before its children.            *)
StopsWithLastChild == parent = "stopped" <=> \A i \in Children : child[i] = "gone"

(* As long as no child has been marked, the messages are spread evenly     *)
(* over the children: "Round Robin" in run_parent.                         *)
RoundRobin ==
    (\A i \in Children : m_pid[i]) => \A i, j \in Children : sentTo[i] <= sentTo[j] + 1

(* A SIGTERM or SIGINT the parent has caught ends the children and then    *)
(* the parent, if nothing else ends the parent first, and unless a child   *)
(* had died before the parent could catch its SIGCHLD: then no signal may  *)
(* ever make it wait for that child.                                       *)
TermStops ==
    [](parent = "loop" /\ parentTerm /\ ~early => <>(parent \in {"stopped", "failed", "killed"}))

(* Violated.  processpool.h:374 says that a new connection is given to a   *)
(* child in turn.  It is one event for all connections that arrived since  *)
(* the last one, and one message, and one accept.                          *)
ConnectionAssigned ==
    [](backlog > 0 => <>(backlog = 0 \/ parent # "loop" \/ \E i \in Children : ~ChildAlive(i)))
=============================================================================
