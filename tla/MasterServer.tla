----------------------------- MODULE MasterServer -----------------------------
(***************************************************************************)
(* mult_process_server/server.c: the master, from its options to the       *)
(* statistics it prints every second and the workers it stops, and the     *)
(* part of the workers' start that the master shares with them: the array  *)
(* wdata.  What a worker does with connections is in ConnWorker; here it   *)
(* counts transactions.                                                    *)
(***************************************************************************)
EXTENDS Integers, FiniteSets, Functions

CONSTANTS
    Cpus,           \* get_cpu_num()
    StartCpus,      \* values of -c
    WorkerCounts,   \* values of -w, 0 when it is not given
    MaxServed,      \* bound on the transactions served
    MaxAlarms       \* bound on the alarms

ASSUME MasterServerAssumption ==
    /\ Cpus \in Nat \ {0} /\ MaxServed \in Nat /\ MaxAlarms \in Nat
    /\ StartCpus \subseteq Nat /\ WorkerCounts \subseteq Nat

WorkerSlots == 0 .. Cpus - 1

VARIABLES
    masterAt,       \* function the master is in, or ended, or killed
    start_cpu, num_workers,
    wdata,          \* process (0 or not), trancnt and trancnt_prev of each entry
    workerAt,       \* none, forked, starting, serving, dead
    sigterm,        \* workers SIGTERM was sent to
    signals,        \* SIGALRM and SIGINT pending in the master
    statsAt,        \* the loop of do_stats: entry, and whether it has been read
    tally,          \* trancnt of do_stats
    reported, served, alarms, late      \* history; late: registered when the master was gone

masterVars == <<masterAt, start_cpu, num_workers, wdata, workerAt, sigterm, signals,
                statsAt, tally, reported, served, alarms, late>>
optionVars == <<start_cpu, num_workers>>
workerVars == <<wdata, workerAt, sigterm, late, served>>
statsVars == <<signals, statsAt, tally, reported, alarms>>

NoEntry == [process |-> FALSE, trancnt |-> 0, trancnt_prev |-> 0]

MasterInit ==
    /\ masterAt = "options"
    /\ start_cpu = 0 /\ num_workers = 0
    /\ wdata = [i \in WorkerSlots |-> NoEntry]
    /\ workerAt = [i \in WorkerSlots |-> "none"]
    /\ sigterm = {} /\ late = {}
    /\ signals = {}
    /\ statsAt = [entry |-> 0, read |-> FALSE]
    /\ tally = 0 /\ reported = 0 /\ served = 0 /\ alarms = 0

LiveWorker(i) == workerAt[i] \in {"forked", "starting", "serving"}
Entries == {i \in WorkerSlots : i < num_workers}
cpu_id(i) == i + start_cpu

-----------------------------------------------------------------------------
(* The start of the master.  Each init function may fail, which ends it    *)
(* through exit_cleanup.                                                   *)

(* The options; the assertion on num_workers.                              *)
main_options ==
    /\ masterAt = "options"
    /\ start_cpu' \in StartCpus
    /\ \E w \in WorkerCounts : num_workers' = IF w = 0 THEN Cpus ELSE w
    /\ masterAt' = IF num_workers' \in 1 .. Cpus THEN "init_log" ELSE "ended"
    /\ UNCHANGED <<workerVars, statsVars>>

\* Mutant: only the workers in service are told.
stop_processes_serving == {i \in Entries : wdata[i].process /\ workerAt[i] = "serving"}

(* The workers that stop_processes sends SIGTERM: those whose pid is in    *)
(* wdata when it looks.                                                    *)
stop_processes == {i \in Entries : wdata[i].process}

exit_cleanup == masterAt' = "ended" /\ sigterm' = sigterm \cup stop_processes

(* init_log, init_server with its listening sockets and limits, and        *)
(* init_signal, in this order.                                             *)
InitStep(from, to) ==
    /\ masterAt = from
    /\ \/ masterAt' = to /\ UNCHANGED sigterm
       \/ exit_cleanup
    /\ UNCHANGED <<optionVars, wdata, workerAt, late, served, statsVars>>

init_log == InitStep("init_log", "init_server")
init_server == InitStep("init_server", "init_signal")
init_signal == InitStep("init_signal", "init_workers")
init_timer == InitStep("init_timer", "do_stats")

(* The next worker: its entry is cleared and it is forked.                 *)
init_processes ==
    /\ masterAt = "init_workers"
    /\ LET i == Cardinality({j \in WorkerSlots : workerAt[j] # "none"})
       IN  /\ wdata' = [wdata EXCEPT ![i].trancnt = 0]
           /\ \/ /\ workerAt' = [workerAt EXCEPT ![i] = "forked"]
                 /\ masterAt' = IF i = num_workers - 1 THEN "init_timer" ELSE "init_workers"
                 /\ UNCHANGED sigterm
              \/ exit_cleanup /\ UNCHANGED workerAt
    /\ UNCHANGED <<optionVars, late, served, statsVars>>

-----------------------------------------------------------------------------
(* A worker.                                                               *)

(* The child writes its pid.                                               *)
Register(i) ==
    /\ workerAt[i] = "forked"
    /\ wdata' = [wdata EXCEPT ![i].process = TRUE]
    /\ workerAt' = [workerAt EXCEPT ![i] = "starting"]
    /\ late' = IF masterAt \in {"ended", "killed"} THEN late \cup {i} ELSE late
    /\ UNCHANGED <<masterAt, optionVars, sigterm, served, statsVars>>

(* Binds to a processor that exists, makes its pool and its epoll, or      *)
(* fails and stops every worker, itself too.                               *)
bind_process_cpu(i) == cpu_id(i) < Cpus

StartServing(i) ==
    /\ workerAt[i] = "starting"
    /\ \/ /\ bind_process_cpu(i)
          /\ workerAt' = [workerAt EXCEPT ![i] = "serving"]
          /\ UNCHANGED sigterm
       \/ /\ workerAt' = [workerAt EXCEPT ![i] = "dead"]
          /\ sigterm' = sigterm \cup stop_processes
    /\ UNCHANGED <<masterAt, optionVars, wdata, late, served, statsVars>>

(* A transaction.  The counter is the entry of the processor: when there   *)
(* is none, the write is past the array, and lost or fatal.                *)
CountTransaction(i) ==
    /\ workerAt[i] = "serving" /\ served < MaxServed
    /\ IF cpu_id(i) \in Entries
       THEN /\ wdata' = [wdata EXCEPT ![cpu_id(i)].trancnt = @ + 1]
            /\ UNCHANGED workerAt
       ELSE /\ \/ UNCHANGED workerAt
               \/ workerAt' = [workerAt EXCEPT ![i] = "dead"]
            /\ UNCHANGED wdata
    /\ served' = served + 1
    /\ UNCHANGED <<masterAt, optionVars, sigterm, late, statsVars>>

(* SIGTERM, from the master or from outside, or another signal that        *)
(* workers do not block.                                                   *)
Terminated(i) ==
    /\ LiveWorker(i)
    /\ workerAt' = [workerAt EXCEPT ![i] = "dead"]
    /\ UNCHANGED <<masterAt, optionVars, wdata, sigterm, late, served, statsVars>>

-----------------------------------------------------------------------------
(* do_stats                                                                *)

(* SIGALRM every second from init_timer on, SIGINT from the user; both are *)
(* blocked, and a second one of a kind is lost while one is pending.       *)
Raise ==
    /\ \/ /\ masterAt \in {"do_stats", "report"} /\ alarms < MaxAlarms
          /\ signals' = signals \cup {"SIGALRM"} /\ alarms' = alarms + 1
       \/ /\ masterAt \in {"init_workers", "init_timer", "do_stats", "report"}
          /\ signals' = signals \cup {"SIGINT"} /\ UNCHANGED alarms
    /\ UNCHANGED <<masterAt, optionVars, workerVars, statsAt, tally, reported>>

(* init_signal blocks these two only: any other signal, SIGTERM and SIGHUP *)
(* too, and SIGINT before init_signal, has its default action, and nobody  *)
(* tells the workers.                                                      *)
MasterDies ==
    /\ masterAt \notin {"ended", "killed"}
    /\ masterAt' = "killed"
    /\ UNCHANGED <<optionVars, workerVars, statsVars>>

(* sigwait returns one of them, or fails.                                  *)
sigwait ==
    /\ masterAt = "do_stats"
    /\ \/ \E s \in signals :
              /\ signals' = signals \ {s}
              /\ IF s = "SIGINT" THEN exit_cleanup
                 ELSE masterAt' = "report" /\ UNCHANGED sigterm
       \/ exit_cleanup /\ UNCHANGED signals
    /\ tally' = 0 /\ statsAt' = [entry |-> 0, read |-> FALSE]
    /\ UNCHANGED <<optionVars, wdata, workerAt, late, served, reported, alarms>>

(* For each entry, trancnt is read for the sum and once more to remember.  *)
StatsRead ==
    /\ masterAt = "report" /\ statsAt.entry < num_workers /\ ~ statsAt.read
    /\ tally' = tally + wdata[statsAt.entry].trancnt - wdata[statsAt.entry].trancnt_prev
    /\ statsAt' = [statsAt EXCEPT !.read = TRUE]
    /\ UNCHANGED <<masterAt, optionVars, workerVars, signals, reported, alarms>>

\* Mutant: what was counted is not remembered.
Remembered_not(e) == e

Remembered(e) == [e EXCEPT !.trancnt_prev = e.trancnt]

StatsRemember ==
    /\ masterAt = "report" /\ statsAt.read
    /\ wdata' = [wdata EXCEPT ![statsAt.entry] = Remembered(@)]
    /\ statsAt' = [entry |-> statsAt.entry + 1, read |-> FALSE]
    /\ UNCHANGED <<masterAt, optionVars, workerAt, sigterm, late, served, signals, tally,
                   reported, alarms>>

StatsPrint ==
    /\ masterAt = "report" /\ statsAt.entry = num_workers
    /\ reported' = reported + tally /\ tally' = 0
    /\ masterAt' = "do_stats"
    /\ UNCHANGED <<optionVars, workerVars, signals, statsAt, alarms>>

MasterNext ==
    \/ main_options \/ init_log \/ init_server \/ init_signal \/ init_processes \/ init_timer
    \/ \E i \in WorkerSlots : Register(i) \/ StartServing(i) \/ CountTransaction(i) \/ Terminated(i)
    \/ Raise \/ MasterDies \/ sigwait \/ StatsRead \/ StatsRemember \/ StatsPrint

MasterSpec == MasterInit /\ [][MasterNext]_masterVars

-----------------------------------------------------------------------------
(* What the next report would add for each entry, and the entries it would *)
(* still add it for.                                                       *)
Pending == [i \in WorkerSlots |-> wdata[i].trancnt - wdata[i].trancnt_prev]
Unread == {i \in Entries : ~ (statsAt.read /\ statsAt.entry = i)}

(* StatsNeverOvercount: what the master has printed, is adding up and has  *)
(* yet to report of the counters is never more than the workers served: no *)
(* transaction is reported twice, and no counter runs backwards under the  *)
(* unsigned subtraction.  It may well be less: what a worker counts        *)
(* between the two reads of an entry is never reported.                    *)
StatsNeverOvercount ==
    /\ reported + tally + SumFunctionOnSet(Pending, Unread) <= served
    /\ \A i \in Entries : wdata[i].trancnt_prev <= wdata[i].trancnt

(* StopReachesRegistered: when the master has ended by itself, by SIGINT   *)
(* or a failure at whatever moment of its start, every worker still alive  *)
(* has been sent SIGTERM, unless it had not yet written its pid when the   *)
(* master looked: those go on serving without a master.  Nothing else      *)
(* stops workers but a worker that has died: a master killed by a signal   *)
(* it does not block leaves all of them behind, without SIGTERM.           *)
StopReachesRegistered ==
    /\ masterAt = "ended" =>
           \A i \in WorkerSlots : LiveWorker(i) => i \in sigterm \cup late \/ workerAt[i] = "forked"
    /\ sigterm # {} => masterAt = "ended" \/ \E i \in WorkerSlots : workerAt[i] = "dead"
=============================================================================
