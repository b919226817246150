------------------------------ MODULE JobPool ------------------------------
(***************************************************************************)
(* What a thread pool of this repository promises to its callers, with no  *)
(* threads, locks or condition variables: a bounded FIFO of accepted jobs, *)
(* each of which is started once and finished once, and an orderly         *)
(* shutdown that first closes the pool, then lets it drain, then releases  *)
(* it.  ThreadPool implements this specification.                          *)
(***************************************************************************)
EXTENDS Naturals, Sequences

CONSTANTS Jobs,        \* the jobs callers may submit
          Capacity     \* how many accepted jobs may wait to be started

VARIABLES pending,     \* accepted jobs that no thread has started, oldest first
          running,     \* jobs a thread is executing
          done,        \* jobs whose callback has returned
          refused,     \* jobs the pool turned down
          open,        \* the pool still accepts jobs
          released     \* the pool has been torn down

jpvars == <<pending, running, done, refused, open, released>>

(* The jobs whose fate is decided.                                         *)
Known == {pending[i] : i \in DOMAIN pending} \cup running \cup done \cup refused

Init ==
    /\ pending = <<>>
    /\ running = {}
    /\ done = {}
    /\ refused = {}
    /\ open = TRUE
    /\ released = FALSE

Accept(j) ==
    /\ open
    /\ j \notin Known
    /\ Len(pending) < Capacity
    /\ pending' = Append(pending, j)
    /\ UNCHANGED <<running, done, refused, open, released>>

Refuse(j) ==
    /\ j \notin Known
    /\ refused' = refused \cup {j}
    /\ UNCHANGED <<pending, running, done, open, released>>

Start ==
    /\ pending # <<>>
    /\ pending' = Tail(pending)
    /\ running' = running \cup {Head(pending)}
    /\ UNCHANGED <<done, refused, open, released>>

Finish(j) ==
    /\ j \in running
    /\ running' = running \ {j}
    /\ done' = done \cup {j}
    /\ UNCHANGED <<pending, refused, open, released>>

Close ==
    /\ open
    /\ open' = FALSE
    /\ UNCHANGED <<pending, running, done, refused, released>>

Release ==
    /\ ~open
    /\ ~released
    /\ pending = <<>>
    /\ running = {}
    /\ released' = TRUE
    /\ UNCHANGED <<pending, running, done, refused, open>>

Next ==
    \/ \E j \in Jobs : Accept(j) \/ Refuse(j) \/ Finish(j)
    \/ Start
    \/ Close
    \/ Release

Spec == Init /\ [][Next]_jpvars
============================================================================
