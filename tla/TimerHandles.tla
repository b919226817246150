----------------------------- MODULE TimerHandles -----------------------------
(***************************************************************************)
(* The handles (w_timer_t) that both Timer classes give out: an index into *)
(* timers, taken from the stack of deleted handles or, when that is empty, *)
(* new.  A handle whose timer has expired is not recycled, and the entry   *)
(* of a deleted one is not cleared.                                        *)
(***************************************************************************)
EXTENDS Naturals, Sequences, FiniteSets

NoHandles == [timers |-> << >>, stack |-> << >>]

(* The index the next timer gets: timers is counted from 1 here.           *)
NextHandle(h) == IF h.stack = << >> THEN Len(h.timers) + 1 ELSE h.stack[Len(h.stack)]

TakeHandle(h, id) ==
    IF h.stack = << >> THEN [h EXCEPT !.timers = Append(@, id)]
    ELSE [timers |-> [h.timers EXCEPT ![NextHandle(h)] = id],
          stack |-> SubSeq(h.stack, 1, Len(h.stack) - 1)]

DropHandle(h, n) == [h EXCEPT !.stack = Append(@, n)]

Recycled(h) == {h.stack[i] : i \in DOMAIN h.stack}

(* Every timer of live has exactly one handle, which is not on the stack,  *)
(* and no handle is on the stack twice.                                    *)
HandlesNameTimers(h, live) ==
    /\ Cardinality(Recycled(h)) = Len(h.stack)
    /\ \A id \in live :
           Cardinality({n \in DOMAIN h.timers \ Recycled(h) : h.timers[n] = id}) = 1
=============================================================================
