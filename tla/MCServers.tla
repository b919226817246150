------------------------------ MODULE MCServers ------------------------------
(***************************************************************************)
(* The multi-threaded server and the process pool, for TLC: the runs that  *)
(* need fairness.  They share no state: a behaviour is one of one of them, *)
(* chosen first, and that one's fairness is assumed of it.                 *)
(***************************************************************************)
EXTENDS EchoServer, ProcessPool

VARIABLE part       \* the component that runs

serversVars == <<part, vars, poolVars>>

ServersInit == part \in {"threads", "processes"} /\ Init /\ PoolInit

ServersNext ==
    \/ part = "threads" /\ Next /\ UNCHANGED <<part, poolVars>>
    \/ part = "processes" /\ PoolNext /\ UNCHANGED <<part, vars>>

(* Fairness and PoolFairness, each of the part that runs: the actions of   *)
(* the other are not enabled for ever.                                     *)
ServersFairness ==
    LET In(p, A) == part = p /\ A
    IN  /\ WF_vars(In("threads", MainStep))
        /\ SF_vars(In("threads", MainAddLock))
        /\ \A w \in Workers : /\ WF_vars(In("threads", WorkerStep(w)))
                              /\ SF_vars(In("threads", WorkerLoop(w)))
        /\ SF_vars(In("threads", HandlerStep))
        /\ WF_poolVars(In("processes", ParentSetup)) /\ WF_poolVars(In("processes", ParentDispatch))
        /\ WF_poolVars(In("processes", ParentReap)) /\ WF_poolVars(In("processes", ParentKill))
        /\ \A i \in Children : /\ WF_poolVars(In("processes", ChildSetup(i)))
                               /\ WF_poolVars(In("processes", ChildAccept(i)))
                               /\ WF_poolVars(In("processes", ChildStop(i)))

ServersSpec == ServersInit /\ [][ServersNext]_serversVars /\ ServersFairness
=============================================================================
