------------------------------ MODULE NgxTimers ------------------------------
(***************************************************************************)
(* The timers of a worker of the bundled nginx (event/ngx_event_timer.c,   *)
(* event/ngx_event_timer.h) on the red-black tree of NgxRbtree, in the     *)
(* rounds of ngx_process_events_and_timers: wait no longer than the next   *)
(* timer allows, run the handlers of the events that came, expire what is  *)
(* due.  The clock is as wide as the keys and wraps.                       *)
(***************************************************************************)
EXTENDS NgxRbtree

CONSTANTS Delays,      \* the timeouts handlers ask for
          Lazy,        \* NGX_TIMER_LAZY_DELAY
          Late,        \* how much later than asked a wait may end
          MaxWait,     \* the longest wait considered when no timer is set
          Cancelable   \* the events whose timers do not hold up an exit

\* No handler asks for a timeout of zero, and all keys in the tree lie in
\* half of the clock's range.
TimersAssumption ==
  /\ Delays \subseteq Nat \ {0} /\ Lazy \in Nat \ {0} /\ Late \in Nat
  /\ \A d \in Delays : d + Late + Lazy < Width \div 2
  /\ Cancelable \subseteq 1..N

VARIABLES now,     \* ngx_current_msec
          phase,   \* where the round is
          want     \* the deadlines last asked for, of the timers that are set

vars == <<tree, in, now, phase, want>>

Init == /\ RbInit
        /\ now = Width - 2 /\ phase = "wait"
        /\ want = [e \in Nodes |-> 0]

Remaining(t, e) == LET d == Diff(t.key[e], now) IN IF d > 0 THEN d ELSE 0

FindTimer(t) == IF t.root = Sentinel THEN MaxWait
                ELSE Remaining(t, Least(t, t.root))

Wait ==
  /\ phase = "wait"
  /\ \E d \in 0..(FindTimer(tree) + Late) : now' = (now + d) % Width
  /\ phase' = "events"
  /\ UNCHANGED <<tree, in, want>>

Abs(d) == IF d < 0 THEN -d ELSE d

Handling == phase \in {"events", "timedout"}

AddTimer(e, d) ==
  /\ Handling
  /\ LET key == (now + d) % Width
     IN /\ want' = [want EXCEPT ![e] = key]
        /\ IF e \in in /\ Abs(Diff(key, tree.key[e])) < Lazy
           THEN UNCHANGED <<tree, in>>
           ELSE /\ tree' = Inserted(IF e \in in THEN Deleted(tree, e) ELSE tree,
                                    e, key)
                /\ in' = in \cup {e}
  /\ UNCHANGED <<now, phase>>

\* ngx_event_del_timer by a handler that has seen timer_set.
DelTimer(e) ==
  /\ Handling
  /\ Delete(e)
  /\ want' = [want EXCEPT ![e] = 0]
  /\ UNCHANGED <<now, phase>>

\* The handlers of the events, or of one expired timer, are through.
Handled ==
  /\ Handling
  /\ phase' = "expire"
  /\ UNCHANGED <<tree, in, now, want>>

Expire ==
  /\ phase = "expire"
  /\ LET e == Least(tree, tree.root)
     IN IF in = {} \/ Diff(tree.key[e], now) > 0
        THEN phase' = "wait" /\ UNCHANGED <<tree, in, want>>
        ELSE /\ phase' = "timedout" /\ Delete(e)
             /\ want' = [want EXCEPT ![e] = 0]
  /\ UNCHANGED now

Next == \/ Wait \/ Handled \/ Expire
        \/ \E e \in Nodes : DelTimer(e) \/ \E d \in Delays : AddTimer(e, d)

Spec == Init /\ [][Next]_vars

NoTimersLeft(t) ==
  LET rest[e \in Nodes \cup {Null}] ==
        IF e = Null THEN TRUE ELSE e \in Cancelable /\ rest[Successor(t, e)]
  IN t.root = Sentinel \/ rest[Least(t, t.root)]

----------------------------------------------------------------------------

(* Type invariant of the event timers: a tree of timers and the clock of the *)
(* process.                                                                  *)
TypeOK ==
  /\ RbTypeOK
  /\ now \in 0..Width-1
  /\ phase \in {"wait", "events", "expire", "timedout"}
  /\ want \in [Nodes -> 0..Width-1]

\* When a round is over no timer is overdue by NGX_TIMER_LAZY_DELAY or more,
\* whatever was set, moved and deleted, and also when the clock wraps.
OnTime == phase = "wait" => \A e \in in : Diff(want[e], now) > -Lazy

\* The key a timer is kept under, by which it expires, is never
\* NGX_TIMER_LAZY_DELAY or more before the deadline last asked for it.
NotEarly == \A e \in in : Diff(want[e], tree.key[e]) < Lazy

\* The wait of a round is the time to the nearest of all timers: the worker
\* neither oversleeps nor wakes up for nothing.
WaitsForNearest ==
  in # {} => /\ \A e \in in : FindTimer(tree) <= Remaining(tree, e)
             /\ \E e \in in : FindTimer(tree) = Remaining(tree, e)

\* An exiting worker stops exactly when none but cancelable timers is left.
ExitSeesAll == NoTimersLeft(tree) <=> in \subseteq Cancelable

============================================================================
