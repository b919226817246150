------------------------------ MODULE MCServices ------------------------------
(***************************************************************************)
(* The worker and the master of the multi-process server, the timers, the  *)
(* C++ thread pool and the CGI connection.  They share no state: a         *)
(* behaviour is one of one of them, chosen first, while the others stay as *)
(* they began.  All but the worker stop at their bounds.                   *)
(***************************************************************************)
EXTENDS ConnWorker, TimeHeap, TimeWheel, ThreadPoolCpp, MasterServer, CgiConn

VARIABLE part       \* the component that runs

servicesVars == <<part, vars, heapVars, wheelVars, cppVars, masterVars, cgiVars>>

ServicesInit ==
    /\ part \in {"worker", "heap", "wheel", "pool", "master", "cgi"}
    /\ Init /\ TimeHeapInit /\ TimeWheelInit /\ CppInit /\ MasterInit /\ cgi_init
    /\ enable_proxy => part = "worker"

ServicesNext ==
    \/ /\ part = "worker" /\ Next
       /\ UNCHANGED <<part, heapVars, wheelVars, cppVars, masterVars, cgiVars>>
    \/ /\ part = "heap" /\ TimeHeapNext
       /\ UNCHANGED <<part, vars, wheelVars, cppVars, masterVars, cgiVars>>
    \/ /\ part = "wheel" /\ TimeWheelNext
       /\ UNCHANGED <<part, vars, heapVars, cppVars, masterVars, cgiVars>>
    \/ /\ part = "pool" /\ CppNext
       /\ UNCHANGED <<part, vars, heapVars, wheelVars, masterVars, cgiVars>>
    \/ /\ part = "master" /\ MasterNext
       /\ UNCHANGED <<part, vars, heapVars, wheelVars, cppVars, cgiVars>>
    \/ /\ part = "cgi" /\ CgiNext
       /\ UNCHANGED <<part, vars, heapVars, wheelVars, cppVars, masterVars>>
    \/ part # "worker" /\ UNCHANGED servicesVars

ServicesSpec == ServicesInit /\ [][ServicesNext]_servicesVars

MCDelays == {-1, 0, 1}
MCTimeouts == {-1, 0, 2, 3}
=============================================================================
