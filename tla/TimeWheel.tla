------------------------------- MODULE TimeWheel -------------------------------
(***************************************************************************)
(* timer: the time wheel (time_wheel.h) and the Timer class over it.       *)
(*                                                                         *)
(* A slot is the sequence of the timers of its list, the head first.  A    *)
(* tick walks the list of the current slot with the pointer tmp; a         *)
(* callback runs in the middle of the walk and may add and delete timers.  *)
(* SI is 1, so a timeout is a number of ticks.  The thread that ticks is   *)
(* the one of TimeHeap: the user calls while it sleeps, or from callbacks. *)
(***************************************************************************)
EXTENDS Integers, Sequences, FiniteSets, SequencesExt, TimerHandles

CONSTANTS
    WheelSize,      \* N
    Timeouts,       \* timeouts asked for
    WheelTimers,    \* bound on the timers created
    WheelTurns      \* bound on the ticks

ASSUME TimeWheelAssumption ==
    /\ WheelSize \in Nat \ {0} /\ WheelTimers \in Nat /\ WheelTurns \in Nat
    /\ Timeouts \subseteq Int

VARIABLES
    slots,
    cur_slot,
    tw_timer,       \* timers created: rotation, time_slot; due, firedAt, deleted are history
    walk,           \* the tick: asleep, walking, callback
    tmp,            \* the timer the walk is at, 0 for NULL
    ticked,         \* history: ticks that are over
    tw_handles      \* timers and stack of the Timer

wheelVars == <<slots, cur_slot, tw_timer, walk, tmp, ticked, tw_handles>>

TimeWheelInit ==
    /\ slots = [s \in 0 .. WheelSize - 1 |-> << >>]
    /\ cur_slot = 0
    /\ tw_timer = << >>
    /\ walk = "asleep" /\ tmp = 0 /\ ticked = 0
    /\ tw_handles = NoHandles

HeadOf(list) == IF list = << >> THEN 0 ELSE Head(list)

PositionOf(list, id) == CHOOSE i \in DOMAIN list : list[i] = id

(* timer->next.                                                            *)
NextOf(list, id) ==
    IF PositionOf(list, id) = Len(list) THEN 0 ELSE list[PositionOf(list, id) + 1]

(* The timer taken out of its list, at the head or after it.               *)
Unlink(list, id) == RemoveAt(list, PositionOf(list, id))

-----------------------------------------------------------------------------
(* The user's calls, and those of a callback.                              *)

NoNegative(timeout) == timeout >= 0

TicksOf(timeout) == IF timeout < 1 THEN 1 ELSE timeout

(* History: the number of the tick this timer is to fire on.  The tick     *)
(* under way has number ticked + 1 and its slot is not looked at again.    *)
DueTick(ticks) ==
    IF walk = "asleep" THEN ticked + 1 + ticks
    ELSE ticked + 1 + ticks + (IF ticks % WheelSize = 0 THEN WheelSize ELSE 0)

\* Mutant: a timeout of whole turns waits one turn less.
wheel_rotation_early(ticks) == (ticks - 1) \div WheelSize

wheel_rotation(ticks) == ticks \div WheelSize

(* add_timer; a negative timeout gives NULL, which takes a handle too.     *)
wheel_addTimer(timeout) ==
    /\ walk # "walking" /\ Len(tw_timer) < WheelTimers
    /\ LET id    == Len(tw_timer) + 1
           ticks == TicksOf(timeout)
           ts    == (cur_slot + (ticks % WheelSize)) % WheelSize
       IN  IF NoNegative(timeout)
           THEN /\ slots' = [slots EXCEPT ![ts] = <<id>> \o @]
                /\ tw_timer' = Append(tw_timer, [rotation |-> wheel_rotation(ticks), time_slot |-> ts,
                                                 due |-> DueTick(ticks), firedAt |-> 0,
                                                 deleted |-> FALSE])
                /\ tw_handles' = TakeHandle(tw_handles, id)
           ELSE /\ tw_handles' = TakeHandle(tw_handles, 0)
                /\ Len(tw_handles.timers) < WheelTimers
                /\ UNCHANGED <<slots, tw_timer>>
    /\ UNCHANGED <<cur_slot, walk, tmp, ticked>>

(* del_timer unlinks and frees.  The caller's part: a handle is deleted    *)
(* once, not after its timer has fired, and not by its own callback, for   *)
(* tick uses the timer once more after that.                               *)
wheel_deleteTimer(n) ==
    /\ walk # "walking" /\ n \in DOMAIN tw_handles.timers \ Recycled(tw_handles)
    /\ LET id == tw_handles.timers[n]
       IN  /\ id # 0                            \* NULL: returns -1
           /\ tw_timer[id].firedAt = 0
           /\ slots' = [slots EXCEPT ![tw_timer[id].time_slot] = Unlink(@, id)]
           /\ tw_timer' = [tw_timer EXCEPT ![id].deleted = TRUE]
           /\ tw_handles' = DropHandle(tw_handles, n)
    /\ UNCHANGED <<cur_slot, walk, tmp, ticked>>

-----------------------------------------------------------------------------
(* tick                                                                    *)

wheel_tick ==
    /\ walk = "asleep" /\ ticked < WheelTurns
    /\ walk' = "walking" /\ tmp' = HeadOf(slots[cur_slot])
    /\ UNCHANGED <<slots, cur_slot, tw_timer, ticked, tw_handles>>

(* One turn less for this timer, or its callback.                          *)
WheelVisit ==
    /\ walk = "walking" /\ tmp # 0
    /\ IF tw_timer[tmp].rotation > 0
       THEN /\ tw_timer' = [tw_timer EXCEPT ![tmp].rotation = @ - 1]
            /\ tmp' = NextOf(slots[cur_slot], tmp)
            /\ UNCHANGED walk
       ELSE /\ tw_timer' = [tw_timer EXCEPT ![tmp].firedAt = ticked + 1]
            /\ walk' = "callback"
            /\ UNCHANGED tmp
    /\ UNCHANGED <<slots, cur_slot, ticked, tw_handles>>

(* The callback returns: the timer is unlinked, and the walk goes on at    *)
(* what follows it now.                                                    *)
WheelUnlink ==
    /\ walk = "callback"
    /\ tmp' = NextOf(slots[cur_slot], tmp)
    /\ slots' = [slots EXCEPT ![cur_slot] = Unlink(@, tmp)]
    /\ walk' = "walking"
    /\ UNCHANGED <<cur_slot, tw_timer, ticked, tw_handles>>

WheelTurn ==
    /\ walk = "walking" /\ tmp = 0
    /\ cur_slot' = (cur_slot + 1) % WheelSize
    /\ ticked' = ticked + 1 /\ walk' = "asleep"
    /\ UNCHANGED <<slots, tw_timer, tmp, tw_handles>>

TimeWheelNext ==
    \/ \E timeout \in Timeouts : wheel_addTimer(timeout)
    \/ \E n \in 1 .. WheelTimers : wheel_deleteTimer(n)
    \/ wheel_tick \/ WheelVisit \/ WheelUnlink \/ WheelTurn

TimeWheelSpec == TimeWheelInit /\ [][TimeWheelNext]_wheelVars

-----------------------------------------------------------------------------
(* WheelExact: every timer fires exactly on its tick, once, and no deleted *)
(* one does, whatever callbacks add to and delete from the lists being     *)
(* walked: ticks + 1 ticks after a call made while the thread sleeps (the  *)
(* tick under way is the current slot's), ticks after a call made in a     *)
(* callback; but a timeout of whole turns asked for in a callback waits a  *)
(* turn too many, for its timer goes in front of the walk.  Every live     *)
(* timer that is not on its last callback is in its slot and has a handle. *)
WheelExact ==
    LET live == {id \in DOMAIN tw_timer : tw_timer[id].firedAt = 0 /\ ~ tw_timer[id].deleted}
    IN  /\ \A id \in DOMAIN tw_timer :
               /\ tw_timer[id].firedAt # 0 => /\ tw_timer[id].firedAt = tw_timer[id].due
                                              /\ ~ tw_timer[id].deleted
               /\ id \in live => tw_timer[id].due > ticked
        /\ \A s \in DOMAIN slots : IsInjective(slots[s])
        /\ live \cup (IF walk = "callback" THEN {tmp} ELSE {})
             = UNION {Range(slots[s]) : s \in DOMAIN slots}
        /\ HandlesNameTimers(tw_handles, live)
=============================================================================
