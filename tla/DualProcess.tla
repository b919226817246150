------------------------------ MODULE DualProcess ------------------------------
(***************************************************************************)
(* ProcessPool/process_task: Process<T> forks a child that runs the task,  *)
(* and the parent waits for it.                                            *)
(***************************************************************************)
EXTENDS Naturals, FiniteSets

CONSTANT MaxForks       \* bound on the forks

VARIABLES
    dpAt,           \* the parent: init, waiting, returned, done, exited
    dpId,           \* process_id in the parent: new, failed, parent
    children,       \* state of each child: running, stopped, exited, signaled
    inits           \* history: calls of task->init

dualVars == <<dpAt, dpId, children, inits>>

DualInit ==
    /\ dpAt = "init" /\ dpId = "new"
    /\ children = [c \in {} |-> "running"]
    /\ inits = 0

Alive(c) == children[c] \in {"running", "stopped"}

(* init initialises the task and forks.  A child returns from init, calls  *)
(* start and is in task->run(); the parent goes on to parent_process.      *)
DualProcess_init ==
    /\ dpAt = "init" /\ Cardinality(DOMAIN children) < MaxForks
    /\ inits' = inits + 1
    /\ \/ /\ children' = [c \in DOMAIN children \cup {inits'} |->
                             IF c = inits' THEN "running" ELSE children[c]]
          /\ dpId' = "parent" /\ dpAt' = "waiting"
       \/ /\ dpId' = "failed" /\ dpAt' = "returned"
          /\ UNCHANGED children

(* The child returns from run, is killed, stopped or continued.            *)
ChildChanges ==
    /\ \E c \in {d \in DOMAIN children : Alive(d)} :
           \E s \in {"running", "stopped", "exited", "signaled"} \ {children[c]} :
               /\ children[c] = "stopped" => s # "exited"
               /\ children' = [children EXCEPT ![c] = s]
    /\ UNCHANGED <<dpAt, dpId, inits>>

(* wait reports children that have ended.                                  *)
Reported(c) == ~ Alive(c)

(* wait returns; init is called again when the status is that of a child   *)
(* that was stopped.                                                       *)
parent_process ==
    /\ dpAt = "waiting"
    /\ \E c \in DOMAIN children :
           /\ Reported(c)
           /\ dpAt' = IF children[c] = "stopped" THEN "init" ELSE "returned"
    /\ UNCHANGED <<dpId, children, inits>>

(* wait fails, interrupted or with no child to wait for: the parent exits. *)
WaitFails ==
    /\ dpAt = "waiting"
    /\ dpAt' = "exited"
    /\ UNCHANGED <<dpId, children, inits>>

(* main calls start, which does nothing in the parent, and returns.        *)
DualProcess_start ==
    /\ dpAt = "returned"
    /\ dpAt' = "done"
    /\ UNCHANGED <<dpId, children, inits>>

DualNext == DualProcess_init \/ ChildChanges \/ parent_process \/ WaitFails \/ DualProcess_start

DualSpec == DualInit /\ [][DualNext]_dualVars

-----------------------------------------------------------------------------
(* RestartedAfterAbnormalEnd: a parent that is done has initialised the    *)
(* task again after every child that a signal ended.  The comment at the   *)
(* top of Process.h, and the README beside it, say that the parent starts  *)
(* over when the child ends abnormally.                                    *)
RestartedAfterAbnormalEnd ==
    dpAt = "done" => \A c \in DOMAIN children : children[c] = "signaled" => inits > c
=============================================================================
