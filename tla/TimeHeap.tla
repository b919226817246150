------------------------------- MODULE TimeHeap -------------------------------
(***************************************************************************)
(* timer: the time heap (time_heap.h), and the Timer class that runs one   *)
(* on a thread of its own (Timer.cpp).                                     *)
(*                                                                         *)
(* The thread sleeps a second and then ticks; a tick runs the handlers of  *)
(* the timers that have expired, and a handler may add and delete timers.  *)
(* Calls of another thread during a tick are not synchronised with it and  *)
(* are left out: the user calls while the thread sleeps, or from handlers. *)
(***************************************************************************)
EXTENDS Integers, Sequences, FiniteSets, SequencesExt, TimerHandles

CONSTANTS
    HeapCapacity,   \* capacity of a new heap
    Delays,         \* delays of timers: an int, negative ones are not refused
    HeapTimers,     \* bound on the timers created
    HeapClock       \* bound on the clock

ASSUME TimeHeapAssumption ==
    /\ HeapCapacity \in Nat \ {0} /\ HeapTimers \in Nat /\ HeapClock \in Nat
    /\ Delays \subseteq Int

VARIABLES
    array,      \* array[0 .. cur_size - 1], from 1 here
    capacity,
    timer,      \* each timer created: expire, whether it has a handler, its fate,
                \* and (history) whether it was added above the one that runs
    now,        \* time(NULL)
    run,        \* the thread: waiting, sleeping, tick, handler, ended
    cur,        \* the time the tick began
    isStart,
    handles,    \* timers and stack of the Timer
    deletedTwice    \* history: a handle was deleted that was deleted already

heapVars == <<array, capacity, timer, now, run, cur, isStart, handles, deletedTwice>>

cur_size == Len(array)
Expire(id) == timer[id].expire

TimeHeapInit ==
    /\ array = << >> /\ capacity = HeapCapacity
    /\ timer = << >>
    /\ now = 0 /\ cur = 0
    /\ run = "waiting" /\ isStart = FALSE
    /\ handles = NoHandles /\ deletedTwice = FALSE

-----------------------------------------------------------------------------
(* The heap.  expire gives the expiry of a timer, positions are from 1.    *)

(* The positions a loop visits that begins at hole and goes on, from each, *)
(* to next, or stops there, where next is 0.                               *)
Visited(next, hole) ==
    {i \in DOMAIN next : \A S \in SUBSET DOMAIN next :
         (hole \in S /\ \A j \in S : next[j] # 0 => next[j] \in S) => i \in S}

(* Both loops: as long as the loop goes on, the timer at next moves into   *)
(* the hole; temp goes where it stops.                                     *)
Percolate(a, hole, temp, next) ==
    LET holes == Visited(next, hole)
    IN  [i \in DOMAIN a |-> IF i \notin holes THEN a[i]
                            ELSE IF next[i] = 0 THEN temp ELSE a[next[i]]]

Parent(a, id, expire) ==
    [i \in DOMAIN a |-> IF i = 1 \/ expire[a[i \div 2]] <= expire[id] THEN 0 ELSE i \div 2]

(* The child that expires first.                                           *)
Child(a, i, expire) ==
    IF 2 * i < Len(a) /\ expire[a[2 * i + 1]] < expire[a[2 * i]] THEN 2 * i + 1 ELSE 2 * i

Sink(a, temp, expire) ==
    [i \in DOMAIN a |->
        IF 2 * i <= Len(a) /\ expire[a[Child(a, i, expire)]] < expire[temp]
        THEN Child(a, i, expire) ELSE 0]

percolate_down(a, hole, expire) ==
    IF a = << >> THEN a ELSE Percolate(a, hole, a[hole], Sink(a, a[hole], expire))

(* resize doubles the capacity when the array is full.                     *)
resize(cap, size) == IF size >= cap THEN 2 * cap ELSE cap

add_timer(a, id, expire) ==
    Percolate(Append(a, id), Len(a) + 1, id, Parent(Append(a, id), id, expire))

(* The last timer comes to the top.                                        *)
LastFirst(a) == [i \in 1 .. Len(a) - 1 |-> IF i = 1 THEN a[Len(a)] ELSE a[i]]

\* Mutant: the last timer is not put back in order.
pop_timer_no_sink(a, expire) == LastFirst(a)

pop_timer(a, expire) == percolate_down(LastFirst(a), 1, expire)

(* The constructor from an array: every inner position is put in order,    *)
(* the last one first.                                                     *)
Heapify(a, expire) ==
    LET inner == (Len(a) + 1) \div 2
        heap[i \in 0 .. inner] == IF i = 0 THEN a
                                  ELSE percolate_down(heap[i - 1], inner + 1 - i, expire)
    IN  heap[inner]

-----------------------------------------------------------------------------
(* The user's calls, and those of a handler.                               *)

Calling == run \in {"waiting", "sleeping", "handler", "ended"}

Expires(t) == [id \in DOMAIN t |-> t[id].expire]

(* A timer that a handler adds comes above the timer whose handler runs.   *)
Overtakes(expire) == run = "handler" /\ array # << >> /\ expire < Expire(array[1])

addTimer(delay) ==
    /\ Calling /\ Len(timer) < HeapTimers
    /\ LET id == Len(timer) + 1
           new == Append(timer, [expire |-> now + delay, handler |-> TRUE, ranAt |-> -1,
                                 gone |-> FALSE, early |-> Overtakes(now + delay)])
       IN  /\ timer' = new
           /\ capacity' = resize(capacity, cur_size)
           /\ array' = add_timer(array, id, Expires(new))
           /\ handles' = TakeHandle(handles, id)
    /\ UNCHANGED <<now, run, cur, isStart, deletedTwice>>

(* del_timer only takes the handler away.  The caller's part: not a handle *)
(* whose timer has expired, for that has been freed.                       *)
deleteTimer(n) ==
    /\ Calling /\ n \in DOMAIN handles.timers
    /\ LET id == handles.timers[n]
       IN  /\ ~ timer[id].gone
           /\ timer' = [timer EXCEPT ![id].handler = FALSE]
           /\ handles' = DropHandle(handles, n)
           /\ deletedTwice' = (deletedTwice \/ n \in Recycled(handles))
    /\ Len(handles.stack) < HeapTimers
    /\ UNCHANGED <<array, capacity, now, run, cur, isStart>>

(* A heap made of timers the caller has.                                   *)
time_heap(delays) ==
    /\ run = "waiting" /\ timer = << >>
    /\ LET new == [i \in DOMAIN delays |-> [expire |-> now + delays[i], handler |-> TRUE,
                                            ranAt |-> -1, gone |-> FALSE, early |-> FALSE]]
           unordered == [i \in DOMAIN delays |-> i]
       IN  /\ timer' = new
           /\ array' = Heapify(unordered, Expires(new))
           /\ capacity' = IF Len(delays) > capacity THEN Len(delays) ELSE capacity
           /\ handles' = [handles EXCEPT !.timers = unordered]
    /\ UNCHANGED <<now, run, cur, isStart, deletedTwice>>

start == isStart' = TRUE /\ ~ isStart /\ UNCHANGED <<array, capacity, timer, now, run, cur, handles, deletedTwice>>
stop == isStart' = FALSE /\ isStart /\ UNCHANGED <<array, capacity, timer, now, run, cur, handles, deletedTwice>>

-----------------------------------------------------------------------------
(* The thread.                                                             *)

(* Spins until isStart; looks at it again before every sleep.              *)
RunLoop ==
    /\ \/ run = "waiting" /\ isStart /\ run' = "sleeping"
       \/ run = "looptop" /\ run' = IF isStart THEN "sleeping" ELSE "ended"
    /\ UNCHANGED <<array, capacity, timer, now, cur, isStart, handles, deletedTwice>>

(* sleep(1) takes a second or more.                                        *)
TickBegins ==
    /\ run = "sleeping" /\ now < HeapClock
    /\ run' = "tick" /\ now' = now + 1 /\ cur' = now + 1
    /\ UNCHANGED <<array, capacity, timer, isStart, handles, deletedTwice>>

Due == array # << >> /\ Expire(array[1]) <= cur

(* The timer on top has expired: its handler is called, if there is one.   *)
TickTop ==
    /\ run = "tick" /\ Due
    /\ IF timer[array[1]].handler
       THEN /\ run' = "handler"
            /\ timer' = [timer EXCEPT ![array[1]].ranAt = now]
            /\ UNCHANGED array
       ELSE /\ timer' = [timer EXCEPT ![array[1]].gone = TRUE]
            /\ array' = pop_timer(array, Expires(timer))
            /\ UNCHANGED run
    /\ UNCHANGED <<capacity, now, cur, isStart, handles, deletedTwice>>

(* The handler returns and whatever is on top now is popped.               *)
HandlerReturns ==
    /\ run = "handler"
    /\ timer' = [timer EXCEPT ![array[1]].gone = TRUE]
    /\ array' = pop_timer(array, Expires(timer))
    /\ run' = "tick"
    /\ UNCHANGED <<capacity, now, cur, isStart, handles, deletedTwice>>

TickEnds ==
    /\ run = "tick" /\ ~ Due
    /\ run' = "looptop"
    /\ UNCHANGED <<array, capacity, timer, now, cur, isStart, handles, deletedTwice>>

(* Time passes while a handler runs.                                       *)
HandlerTakesTime ==
    /\ run = "handler" /\ now < HeapClock
    /\ now' = now + 1
    /\ UNCHANGED <<array, capacity, timer, run, cur, isStart, handles, deletedTwice>>

TimerThread == RunLoop \/ TickBegins \/ TickTop \/ HandlerReturns \/ TickEnds

TimeHeapNext ==
    \/ \E delay \in Delays : addTimer(delay)
    \/ \E n \in 1 .. HeapTimers : deleteTimer(n)
    \/ \E delays \in [1 .. HeapTimers -> Delays] : time_heap(delays)
    \/ start \/ stop
    \/ TimerThread
    \/ HandlerTakesTime

TimeHeapSpec == TimeHeapInit /\ [][TimeHeapNext]_heapVars

-----------------------------------------------------------------------------
(* Some timer was added above the one whose handler ran.                   *)
Overtaken == \E e \in DOMAIN timer : timer[e].early

(* HeapOnTime: no handler runs before its time, none runs of a timer that  *)
(* was deleted first, and when a tick is over no timer is left that had    *)
(* expired when the tick began, although handlers add and delete timers in *)
(* the middle of it; the array stays a heap within its capacity, and,      *)
(* unless the caller deletes a handle twice, every timer that can still    *)
(* fire has one handle of its own.  pop_timer pops what is on top when the *)
(* handler has returned: that is the timer that ran, and each runs once,   *)
(* unless a handler added one that expires before its own, which takes a   *)
(* negative delay; then the new one is popped in its place without         *)
(* running, and only then.                                                 *)
HeapOnTime ==
    /\ \A i \in 2 .. cur_size : Expire(array[i \div 2]) <= Expire(array[i])
    /\ cur_size <= capacity
    /\ IsInjective(array)
    /\ \A id \in DOMAIN timer :
           /\ timer[id].ranAt # -1 => timer[id].ranAt >= Expire(id)
           /\ timer[id].gone <=> id \notin Range(array)
           /\ timer[id].gone /\ timer[id].ranAt = -1 => ~ timer[id].handler \/ timer[id].early
           /\ ~ timer[id].gone /\ timer[id].ranAt # -1 =>
                  \/ run = "handler" /\ id = array[1]
                  \/ Overtaken
           /\ run = "looptop" /\ ~ timer[id].gone => Expire(id) > cur
    /\ ~ deletedTwice =>
           HandlesNameTimers(handles, {id \in DOMAIN timer : ~ timer[id].gone /\ timer[id].handler})
=============================================================================
