----------------------------- MODULE NgxEvents -----------------------------
(***************************************************************************)
(* The event loop of an nginx worker (ngx_event.c, ngx_event_posted.c,     *)
(* ngx_event_accept.c, the epoll module) over the table of connections     *)
(* (ngx_connection.c): slots are taken from a free list, idle connections  *)
(* are closed to make room, and one call of epoll_wait returns events of   *)
(* connections that earlier events of the same call close.                 *)
(*                                                                         *)
(* What a handler does with its connection is external: it closes it or    *)
(* another one, leaves it busy or idle, posts it for the next round, or    *)
(* opens a connection to an upstream.                                      *)
(***************************************************************************)
EXTENDS Integers, Sequences, FiniteSets, SequencesExt

CONSTANTS
    Slots,      \* cycle->connections, without those of the listening sockets
    Listens,    \* listening sockets
    MaxConns    \* bound: connections ever taken

SlotsAssumption == IsFiniteSet(Slots) /\ Slots # {} /\ MaxConns \in Nat

VARIABLES
    w,       \* connections, free list, reusable queue, posted queues
    phase,   \* where the loop is
    batch,   \* events of this epoll_wait that are not yet processed
    mutex,   \* ngx_use_accept_mutex
    held,    \* ngx_accept_mutex_held
    seen     \* what the properties speak of

vars == <<w, phase, batch, mutex, held, seen>>

Closed == [open |-> FALSE, inst |-> 1, uses |-> 0, reusable |-> FALSE, lingering |-> FALSE]

Init ==
    /\ w = [conn |-> [s \in Slots |-> Closed], free |-> SetToSeq(Slots), queue |-> <<>>,
            posted |-> <<>>, next |-> <<>>, taken |-> 0, refused |-> FALSE]
    /\ phase = "top" /\ batch = {} /\ mutex \in BOOLEAN /\ held = FALSE
    /\ seen = [stale |-> {}]

-----------------------------------------------------------------------------
(* ngx_connection.c, as operators on x, the value of w.                      *)

Without(q, s) == SelectSeq(q, LAMBDA e : e # s)

(* ngx_reusable_connection: out of the queue, and in again at its head.      *)
Reusable(x, s, yes) ==
    [x EXCEPT !.queue = IF yes THEN <<s>> \o Without(@, s) ELSE Without(@, s),
              !.conn[s].reusable = yes]

(* ngx_close_connection with ngx_free_connection.  The variant leaves posted *)
(* events behind.                                                            *)
Close_KeepsPosted(x, s) ==
    LET y == Reusable(x, s, FALSE) IN
    [y EXCEPT !.conn[s].open = FALSE, !.conn[s].lingering = FALSE, !.free = <<s>> \o @]
Close(x, s) ==
    LET y == Reusable(x, s, FALSE) IN
    [y EXCEPT !.conn[s].open = FALSE, !.conn[s].lingering = FALSE, !.free = <<s>> \o @,
              !.posted = Without(@, s), !.next = Without(@, s)]

(* The handler of a reusable connection with c->close set closes it, or      *)
(* starts a lingering close, which leaves it reusable; the second time it    *)
(* closes it.                                                                *)
CloseIdle(x, s) ==
    {Close(x, s)} \cup
    (IF x.conn[s].lingering THEN {}
     ELSE {[Reusable(x, s, TRUE) EXCEPT !.conn[s].lingering = TRUE]})

(* ngx_drain_connections, for so few connections that connection_n / 16 is 0 *)
(* and at most one is tried.                                                 *)
Drain(x) ==
    IF x.free # <<>> \/ x.queue = <<>> THEN {x}
    ELSE LET s == Last(x.queue) IN
         UNION {IF y.free = <<>> /\ y.conn[s].reusable THEN CloseIdle(y, s) ELSE {y} :
                y \in CloseIdle(x, s)}

(* ngx_get_connection: the instance flips at every use.                      *)
Flip(i) == 1 - i

Take(x) ==
    LET s == Head(x.free) IN
    [x EXCEPT !.free = Tail(@), !.taken = @ + 1,
              !.conn[s] = [Closed EXCEPT !.open = TRUE, !.inst = Flip(x.conn[s].inst),
                                         !.uses = x.conn[s].uses + 1]]

Get(x) ==
    {IF y.free = <<>> THEN [y EXCEPT !.refused = (x.queue # <<>>)] ELSE Take(y) : y \in Drain(x)}

(* What the handler of connection s may do.                                  *)
Handled(x, s) ==
    {Reusable(x, s, FALSE), Reusable(x, s, TRUE)}
    \cup {Close(x, t) : t \in {t \in Slots : x.conn[t].open}}
    \cup (IF x.taken < MaxConns THEN Get(Reusable(x, s, FALSE)) ELSE {})
    \cup {[x EXCEPT !.next = IF s \in Range(@ \o x.posted) THEN @ ELSE Append(@, s)]}

(* ngx_http_init_connection makes a new connection reusable at once.         *)
Accepted(x) ==
    {IF y.taken > x.taken
       THEN LET s == CHOOSE s \in Slots : y.conn[s].uses > x.conn[s].uses IN Reusable(y, s, TRUE)
       ELSE y : y \in Get(x)}

-----------------------------------------------------------------------------
(* ngx_process_events_and_timers                                             *)

(* The accept mutex is tried, posted-next events become posted ones, and     *)
(* then epoll_wait may not block; without the mutex it returns in            *)
(* accept_mutex_delay.  Left out: rounds in which a worker with few free     *)
(* connections does not try for the mutex (ngx_accept_disabled).             *)
Top ==
    /\ phase = "top"
    /\ held' \in IF mutex THEN BOOLEAN ELSE {FALSE}
    /\ w' = [w EXCEPT !.posted = @ \o w.next, !.next = <<>>]
    /\ phase' = IF w.next # <<>> \/ (mutex /\ ~held') THEN "poll" ELSE "wait"
    /\ UNCHANGED <<batch, mutex, seen>>

(* What epoll_wait may return: open connections, and listening sockets when  *)
(* this worker may accept.                                                   *)
Interest ==
    {[slot |-> s, inst |-> w.conn[s].inst, uses |-> w.conn[s].uses] :
        s \in {s \in Slots : w.conn[s].open}}
    \cup (IF ~mutex \/ held THEN {[listen |-> l] : l \in Listens} ELSE {})

(* epoll_wait: with the timer 0 it returns without events, else it waits.    *)
EpollWait ==
    /\ phase \in {"poll", "wait"}
    /\ batch' \in {B \in SUBSET Interest : phase = "poll" \/ B # {}}
    /\ phase' = "events"
    /\ UNCHANGED <<w, mutex, held, seen>>

IsListen(e) == "listen" \in DOMAIN e

(* The check for a stale event.                                              *)
Stale(e) == ~w.conn[e.slot].open \/ w.conn[e.slot].inst # e.inst

Skip(e) ==
    /\ phase = "events" /\ e \in batch /\ ~IsListen(e) /\ Stale(e)
    /\ batch' = batch \ {e}
    /\ UNCHANGED <<w, phase, mutex, held, seen>>

(* The event is handled, or posted while the accept mutex is held.  Reading  *)
(* and writing are one event here, so the second check of staleness, between *)
(* the two handlers of one epoll event, is left out.                         *)
Deliver(e) ==
    /\ phase = "events" /\ e \in batch /\ ~IsListen(e) /\ ~Stale(e)
    /\ batch' = batch \ {e}
    /\ IF held
         THEN w' = [w EXCEPT !.posted = IF e.slot \in Range(@ \o w.next) THEN @ ELSE Append(@, e.slot)]
         ELSE w' \in Handled(w, e.slot)
    /\ seen' = [seen EXCEPT !.stale = @ \cup {w.conn[e.slot].uses - e.uses}]
    /\ UNCHANGED <<phase, mutex, held>>

(* ngx_event_accept: a connection, or an error such as EAGAIN.  Left out:    *)
(* out of descriptors (EMFILE, ENFILE) a worker stops listening for a time.  *)
Accept(e) ==
    /\ phase = "events" /\ e \in batch /\ IsListen(e)
    /\ held => \A d \in batch : IsListen(d)
    /\ batch' = batch \ {e}
    /\ w' \in {w} \cup (IF w.taken < MaxConns THEN Accepted(w) ELSE {})
    /\ UNCHANGED <<phase, mutex, held, seen>>

EventsDone ==
    /\ phase = "events" /\ batch = {} /\ phase' = "timers"
    /\ UNCHANGED <<w, batch, mutex, held, seen>>

(* A timer expires and its handler closes the connection.                    *)
Expire(s) ==
    /\ phase = "timers" /\ w.conn[s].open
    /\ w' = Close(w, s)
    /\ UNCHANGED <<phase, batch, mutex, held, seen>>

TimersDone ==
    /\ phase = "timers" /\ phase' = "posted"
    /\ UNCHANGED <<w, batch, mutex, held, seen>>

RunPosted ==
    /\ phase = "posted" /\ w.posted # <<>>
    /\ w' \in Handled([w EXCEPT !.posted = Tail(@)], Head(w.posted))
    /\ UNCHANGED <<phase, batch, mutex, held, seen>>

Again ==
    /\ phase = "posted" /\ w.posted = <<>> /\ phase' = "top"
    /\ UNCHANGED <<w, batch, mutex, held, seen>>

Next ==
    \/ Top \/ EpollWait \/ EventsDone \/ TimersDone \/ RunPosted \/ Again
    \/ \E e \in batch : Skip(e) \/ Deliver(e) \/ Accept(e)
    \/ \E s \in Slots : Expire(s)

Spec == Init /\ [][Next]_vars

(* The worker runs; whether epoll_wait ever returns is up to the clients,    *)
(* unless it was called not to block.                                        *)
Poll == EpollWait /\ phase = "poll"
Work ==
    \/ Top \/ Poll \/ EventsDone \/ TimersDone \/ RunPosted \/ Again
    \/ \E e \in batch : Skip(e) \/ Deliver(e) \/ Accept(e)
    \/ \E s \in Slots : Expire(s)

-----------------------------------------------------------------------------
(* Properties                                                                *)

(* Types.                                                                    *)
TypeOK ==
    /\ w.conn \in [Slots -> [open : BOOLEAN, inst : {0, 1}, uses : 0..MaxConns,
                             reusable : BOOLEAN, lingering : BOOLEAN]]
    /\ {Range(w.free), Range(w.queue), Range(w.posted), Range(w.next)} \subseteq SUBSET Slots
    /\ w.taken \in 0..MaxConns
    /\ phase \in {"top", "poll", "wait", "events", "timers", "posted"}
    /\ held => mutex

(* The lists agree with the connections through every way to close one: the  *)
(* free list holds each closed slot once, the reusable queue each reusable   *)
(* open connection once.                                                     *)
ListsExact ==
    /\ Range(w.free) = {s \in Slots : ~w.conn[s].open} /\ IsInjective(w.free)
    /\ Range(w.queue) = {s \in Slots : w.conn[s].open /\ w.conn[s].reusable} /\ IsInjective(w.queue)

(* Posted events are of open connections, each in one queue once: none       *)
(* survives its connection to be run for the next one in the slot.           *)
PostedOpen ==
    /\ \A s \in Range(w.posted \o w.next) : w.conn[s].open
    /\ IsInjective(w.posted \o w.next)

(* An event of a connection that was closed in this round is not handled by  *)
(* the connection that took its slot; one bit can tell no more, so an event  *)
(* may reach the second connection that takes the slot in one round.         *)
StaleSkipped == \A n \in seen.stale : n % 2 = 0

(* A connection is refused for want of a slot only when no idle connection   *)
(* could be closed for it.                                                   *)
DrainMakesRoom == ~w.refused

=============================================================================
