-------------------------------- MODULE SemPV --------------------------------
(***************************************************************************)
(* Semaphore-PV: operations on System V semaphores (SemOpt.c) and the      *)
(* program of test.c, whose two processes are meant to print in turn.      *)
(* Sem_P adds one and Sem_V takes one away, neither waits, and the program *)
(* looks at neither result.                                                *)
(***************************************************************************)
EXTENDS Integers

CONSTANTS
    SEMVMX,         \* largest value of a semaphore
    MaxPrints       \* bound on the lines each process prints

Processes == {"parent", "child"}

(* The semaphores: the child does P on semid and V on semid1.              *)
POn(p) == IF p = "parent" THEN "semid1" ELSE "semid"
VOn(p) == IF p = "parent" THEN "semid" ELSE "semid1"

VARIABLES
    semval,         \* value of each semaphore
    forked,         \* whether the processes run: no, yes, failed
    turnAt,         \* where each process is: P, print, V
    printed         \* lines each has printed

semVars == <<semval, forked, turnAt, printed>>

CreateSem(v, v1) == [semid |-> v, semid1 |-> v1]

SemInit ==
    /\ semval = CreateSem(1, 0)
    /\ forked = "no"
    /\ turnAt = [p \in Processes |-> "P"]
    /\ printed = [p \in Processes |-> 0]

Fork ==
    /\ forked = "no"
    /\ forked' \in {"yes", "failed"}
    /\ UNCHANGED <<semval, turnAt, printed>>

(* ERANGE at the largest value, EAGAIN at zero: nothing is done.           *)
Sem_P(s) == IF semval[s] = SEMVMX THEN semval ELSE [semval EXCEPT ![s] = @ + 1]
Sem_V(s) == IF semval[s] = 0 THEN semval ELSE [semval EXCEPT ![s] = @ - 1]

DoP(p) ==
    /\ forked = "yes" /\ turnAt[p] = "P"
    /\ semval' = Sem_P(POn(p))
    /\ turnAt' = [turnAt EXCEPT ![p] = "print"]
    /\ UNCHANGED <<forked, printed>>

DoPrint(p) ==
    /\ turnAt[p] = "print" /\ printed[p] < MaxPrints
    /\ printed' = [printed EXCEPT ![p] = @ + 1]
    /\ turnAt' = [turnAt EXCEPT ![p] = "V"]
    /\ UNCHANGED <<semval, forked>>

DoV(p) ==
    /\ turnAt[p] = "V"
    /\ semval' = Sem_V(VOn(p))
    /\ turnAt' = [turnAt EXCEPT ![p] = "P"]
    /\ UNCHANGED <<forked, printed>>

SemNext == Fork \/ \E p \in Processes : DoP(p) \/ DoPrint(p) \/ DoV(p)

SemSpec == SemInit /\ [][SemNext]_semVars

-----------------------------------------------------------------------------
(* SemPBlocks: Sem_P lets a process through only when the semaphore was    *)
(* above zero, as the comments on both calls of it in test.c have it: a    *)
(* process has been let through no more often than the semaphore's first   *)
(* value and the other's calls of Sem_V allow, so the two print in turn.   *)
SemPBlocks ==
    \A p, q \in Processes :
        p # q =>
            LET passed == printed[p] + (IF turnAt[p] = "print" THEN 1 ELSE 0)
                posted == printed[q] - (IF turnAt[q] = "V" THEN 1 ELSE 0)
            IN  passed <= CreateSem(1, 0)[POn(p)] + posted
=============================================================================
