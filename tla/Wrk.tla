-------------------------------- MODULE Wrk --------------------------------
(***************************************************************************)
(* wrk.c over ae.c: one thread of the load generator, its connections and  *)
(* its event loop.  Descriptors are numbers that the kernel hands out      *)
(* lowest first, because the loop's table is indexed by them.              *)
(*                                                                         *)
(* The server is external.  It answers requests in order, keeping or       *)
(* closing the connection, late or never; it refuses, resets and closes.   *)
(***************************************************************************)
EXTENDS Integers, Sequences, FiniteSets

CONSTANTS
    Conns,      \* connections of the thread
    Pipeline,   \* cfg.pipeline: requests in one batch
    MaxBatches, \* bound: batches of each connection
    MaxFaults   \* bound: refusals, resets, idle closes, failed connects

PipelineAssumption == Pipeline \in Nat \ {0}
BoundsAssumption == MaxBatches \in Nat /\ MaxFaults \in Nat

Fds == 1..Cardinality(Conns) + 1
Width == 2 * Pipeline + 2   \* of pending, 2^64 in the code

VARIABLES
    delay,   \* cfg.delay: the script has a delay function
    conn,    \* struct connection
    loop,    \* loop->events: handlers for reading and writing, clientData
    net,     \* the socket behind each descriptor, and what the server owes on it
    stat,    \* counters of the thread and of the statistics
    stop,    \* the main thread's "stop"
    ended,   \* the loop has stopped
    env      \* what really happened: faults by kind, and events worth counting

vars == <<delay, conn, loop, net, stat, stop, ended, env>>

NoEvent == [r |-> "none", w |-> "none", data |-> CHOOSE c \in Conns : TRUE]
Closed == [state |-> "closed", owed |-> <<>>, overdue |-> FALSE]
Syn == [Closed EXCEPT !.state = "syn"]

Faults == env.unreachable + env.broken
Fault == Faults < MaxFaults

(* thread_main: connect_socket for every connection.                         *)
Init ==
    /\ delay \in BOOLEAN
    /\ LET first == CHOOSE f \in [Conns -> 1..Cardinality(Conns)] :
                        \A c, d \in Conns : f[c] = f[d] => c = d
       IN  /\ conn = [c \in Conns |-> [fd |-> first[c], written |-> 0, pending |-> 0,
                                       delayed |-> delay, timers |-> 0, batch |-> 0, start |-> 0]]
           /\ loop = [f \in Fds |->
                        IF \E c \in Conns : first[c] = f
                          THEN [r |-> "connected", w |-> "connected",
                                data |-> CHOOSE c \in Conns : first[c] = f]
                          ELSE NoEvent]
    /\ net = [f \in Fds |-> IF f \in 1..Cardinality(Conns) THEN Syn ELSE Closed]
    /\ stat = [complete |-> 0, requests |-> 0, samples |-> 0,
               connect |-> 0, read |-> 0, write |-> 0, timeout |-> 0]
    /\ stop = FALSE /\ ended = FALSE
    /\ env = [unreachable |-> 0, broken |-> 0, answers |-> 0, eofs |-> 0, slow |-> 0,
              foreign |-> 0, redelayed |-> FALSE]

-----------------------------------------------------------------------------
(* reconnect_socket and connect_socket: the old descriptor is free before    *)
(* the new one is chosen.                                                    *)

FreeAfter(f) == {g \in Fds : g = f \/ net[g].state = "closed"}
NewFd(f) == CHOOSE g \in FreeAfter(f) : \A h \in FreeAfter(f) : g <= h

LoopAfter(c, g) ==
    [loop EXCEPT ![conn[c].fd] = NoEvent,
                 ![g] = [r |-> "connected", w |-> "connected", data |-> c]]

(* connect_socket counts its failure.                                        *)
Refused(s) == [s EXCEPT !.connect = @ + 1]

(* k becomes the connection but for its fd, s the counters, e the history.   *)
Reconnect(c, k, s, e) ==
    LET f == conn[c].fd
        g == NewFd(f)
    IN  \/ /\ conn' = [conn EXCEPT ![c] = [k EXCEPT !.fd = g]]
           /\ loop' = LoopAfter(c, g)
           /\ net' = [net EXCEPT ![f] = Closed, ![g] = Syn]
           /\ stat' = s
           /\ env' = [e EXCEPT !.redelayed = @ \/ k.delayed]
        \/ /\ Fault
           /\ conn' = [conn EXCEPT ![c] = k]
           /\ loop' = [loop EXCEPT ![f] = NoEvent]
           /\ net' = [net EXCEPT ![f] = Closed]
           /\ stat' = Refused(s)
           /\ env' = [e EXCEPT !.unreachable = @ + 1, !.redelayed = @ \/ k.delayed]

Fires(c, f, how, handler) == ~ended /\ loop[f].data = c /\ loop[f][how] = handler

(* The handshake ends, one way or the other.                                 *)
Establish(f) ==
    /\ ~ended /\ net[f].state = "syn"
    /\ \/ net' = [net EXCEPT ![f].state = "up"] /\ UNCHANGED env
       \/ /\ Fault
          /\ net' = [net EXCEPT ![f].state = "down"]
          /\ env' = [env EXCEPT !.broken = @ + 1]
    /\ UNCHANGED <<delay, conn, loop, stat, stop, ended>>

(* The server resets or closes a connection.                                 *)
Break(f) ==
    /\ Fault /\ ~ended /\ net[f].state = "up"
    /\ net' = [net EXCEPT ![f].state = "down", ![f].owed = <<>>, ![f].overdue = FALSE]
    /\ env' = [env EXCEPT !.broken = @ + 1]
    /\ UNCHANGED <<delay, conn, loop, stat, stop, ended>>

-----------------------------------------------------------------------------
(* socket_connected: sock_connect never fails, a refused connection is found *)
(* out by the first read or write.                                           *)
Connected(c, f) ==
    /\ Fires(c, f, "r", "connected") /\ net[f].state \in {"up", "down"}
    /\ conn' = [conn EXCEPT ![c].written = 0]
    /\ loop' = [loop EXCEPT ![f].r = "readable", ![f].w = "writeable"]
    /\ UNCHANGED <<delay, net, stat, stop, ended, env>>

Postpone(c, f) ==
    /\ Fires(c, f, "w", "writeable") /\ conn[c].delayed
    /\ loop' = [loop EXCEPT ![f].w = "none"]
    /\ conn' = [conn EXCEPT ![c].timers = @ + 1]
    /\ UNCHANGED <<delay, net, stat, stop, ended, env>>

(* A batch begins: c->start and c->pending are set.                          *)
Begun(c) == IF conn[c].written = 0
              THEN [conn[c] EXCEPT !.start = conn[c].batch + 1, !.pending = Pipeline]
              ELSE conn[c]

(* A batch that is all written starts the next one at its beginning.  The    *)
(* variant does not.                                                         *)
Written_Kept(n) == n
Written(n) == n % Pipeline

(* socket_writeable sends some requests of the batch, or none (RETRY).       *)
Write(c, f) ==
    /\ Fires(c, f, "w", "writeable") /\ ~conn[c].delayed /\ net[f].state = "up"
    /\ conn[c].batch < MaxBatches \/ conn[c].written > 0
    /\ \E n \in 0..Pipeline - conn[c].written :
         LET k == [Begun(c) EXCEPT !.batch = IF conn[c].written = 0 /\ n > 0 THEN @ + 1 ELSE @]
             written == conn[c].written + n
         IN  /\ conn' = [conn EXCEPT ![c] = [k EXCEPT !.written = Written(written)]]
             /\ net' = [net EXCEPT ![f].owed = @ \o [i \in 1..n |-> k.batch]]
             /\ loop' = IF written = Pipeline THEN [loop EXCEPT ![f].w = "none"] ELSE loop
    /\ UNCHANGED <<delay, stat, stop, ended, env>>

WriteError(c, f) ==
    /\ Fires(c, f, "w", "writeable") /\ ~conn[c].delayed /\ net[f].state = "down"
    /\ Reconnect(c, Begun(c), [stat EXCEPT !.write = @ + 1], env)
    /\ UNCHANGED <<delay, stop, ended>>

(* socket_readable finds the end of the connection, or an error.             *)
ReadError(c, f) ==
    /\ Fires(c, f, "r", "readable") /\ net[f].state = "down"
    /\ Reconnect(c, conn[c], [stat EXCEPT !.read = @ + 1], env)
    /\ UNCHANGED <<delay, stop, ended>>

(* response_complete, without what follows it.                               *)
Last(c) == conn[c].pending = 1

Answered(c, f) == [conn[c] EXCEPT !.pending = (@ - 1) % Width,
                                  !.delayed = IF Last(c) THEN delay ELSE @]

Recorded(c, f, s) == IF net[f].overdue THEN [s EXCEPT !.timeout = @ + 1]
                                       ELSE [s EXCEPT !.samples = @ + 1]

Counted(c, f) ==
    LET s == [stat EXCEPT !.complete = @ + 1, !.requests = 1] IN
    IF Last(c) THEN Recorded(c, f, s) ELSE s

Happened(c, f) ==
    [env EXCEPT !.answers = @ + 1,
                !.slow = IF Last(c) /\ net[f].overdue THEN @ + 1 ELSE @,
                !.foreign = IF Last(c) /\ conn[c].start # Head(net[f].owed) THEN @ + 1 ELSE @]

Owes(c, f) == Fires(c, f, "r", "readable") /\ net[f].state = "up" /\ net[f].owed # <<>>

AnswerKept(c, f) ==
    /\ Owes(c, f)
    /\ conn' = [conn EXCEPT ![c] = Answered(c, f)]
    /\ loop' = IF Last(c) THEN [loop EXCEPT ![f].w = "writeable"] ELSE loop
    /\ net' = [net EXCEPT ![f].owed = Tail(@), ![f].overdue = IF Last(c) THEN FALSE ELSE @]
    /\ stat' = Counted(c, f) /\ env' = Happened(c, f)
    /\ UNCHANGED <<delay, stop, ended>>

AnswerClosed(c, f) ==
    /\ Owes(c, f)
    /\ Reconnect(c, Answered(c, f), Counted(c, f), Happened(c, f))
    /\ UNCHANGED <<delay, stop, ended>>

(* A body that ends with the connection: response_complete reconnects, and   *)
(* then read() = 0 with the parser not at the end is an error that           *)
(* reconnects once more.  The first attempt may fail by itself.              *)
AnswerUntilEof(c, f) ==
    /\ Owes(c, f)
    /\ \E n \in 0..IF Fault THEN 1 ELSE 0 :
         Reconnect(c, Answered(c, f),
                   [Counted(c, f) EXCEPT !.read = @ + 1, !.connect = @ + n],
                   [Happened(c, f) EXCEPT !.eofs = @ + 1, !.unreachable = @ + n])
    /\ UNCHANGED <<delay, stop, ended>>

(* Time passes the timeout while the server owes an answer.                  *)
Overdue(f) ==
    /\ ~ended /\ net[f].owed # <<>> /\ ~net[f].overdue
    /\ net' = [net EXCEPT ![f].overdue = TRUE]
    /\ UNCHANGED <<delay, conn, loop, stat, stop, ended, env>>

(* delay_request uses the descriptor the connection has by then.             *)
DelayOver(c) ==
    /\ ~ended /\ conn[c].timers > 0
    /\ conn' = [conn EXCEPT ![c].timers = @ - 1, ![c].delayed = FALSE]
    /\ loop' = IF net[conn[c].fd].state = "closed" THEN loop
               ELSE [loop EXCEPT ![conn[c].fd].w = "writeable", ![conn[c].fd].data = c]
    /\ UNCHANGED <<delay, net, stat, stop, ended, env>>

(* record_rate runs on a timer of its own.                                   *)
RecordRate ==
    /\ ~ended
    /\ stat' = [stat EXCEPT !.requests = 0]
    /\ ended' = stop
    /\ UNCHANGED <<delay, conn, loop, net, stop, env>>

Stop ==
    /\ ~stop /\ stop' = TRUE
    /\ UNCHANGED <<delay, conn, loop, net, stat, ended, env>>

Handler(c, f) ==
    \/ Connected(c, f) \/ Postpone(c, f) \/ Write(c, f) \/ WriteError(c, f) \/ ReadError(c, f)
    \/ AnswerKept(c, f) \/ AnswerClosed(c, f) \/ AnswerUntilEof(c, f)

Next ==
    \/ \E c \in Conns, f \in Fds : Handler(c, f)
    \/ \E c \in Conns : DelayOver(c)
    \/ \E f \in Fds : Establish(f) \/ Break(f) \/ Overdue(f)
    \/ RecordRate \/ Stop

Spec == Init /\ [][Next]_vars

-----------------------------------------------------------------------------
(* Properties                                                                *)

(* Types of connections, loop, sockets and counters.                         *)
TypeOK ==
    /\ conn \in [Conns -> [fd : Fds, written : 0..Pipeline - 1, pending : 0..Width - 1,
                           delayed : BOOLEAN, timers : Nat, batch : 0..MaxBatches,
                           start : 0..MaxBatches + 1]]
    /\ loop \in [Fds -> [r : {"none", "connected", "readable"},
                         w : {"none", "connected", "writeable"}, data : Conns]]
    /\ \A f \in Fds : /\ net[f].state \in {"closed", "syn", "up", "down"}
                      /\ net[f].owed \in Seq(1..MaxBatches) /\ net[f].overdue \in BOOLEAN
    /\ \A n \in DOMAIN stat : stat[n] \in Nat

(* The exception to the next three: a connection that was re-established     *)
(* while it was delayed has two timers, and its descriptor may be another's. *)
Undisturbed == ~env.redelayed

(* Events reach the connection that owns the descriptor, and closed          *)
(* descriptors have none, however descriptors are reused.                    *)
EventsReachOwner ==
    Undisturbed =>
        \A f \in Fds :
            /\ net[f].state = "closed" => loop[f].r = "none" /\ loop[f].w = "none"
            /\ net[f].state # "closed" => conn[loop[f].data].fd = f

(* A connection that is not about to write waits for exactly what the server *)
(* owes it: neither does it wait for nothing, nor send a batch before the    *)
(* last one is answered.                                                     *)
PendingIsOwed ==
    Undisturbed =>
        \A f \in Fds : net[f].state = "up" /\ loop[f].r = "readable" =>
            LET k == conn[loop[f].data] IN
            IF loop[f].w = "none" /\ k.timers = 0
              THEN k.pending = Len(net[f].owed) /\ k.pending > 0
              ELSE k.pending > 0 /\ k.written > 0 =>
                       k.pending = Len(net[f].owed) + Pipeline - k.written

(* Every latency is measured from the start of the batch it belongs to.      *)
SamplesOwn == Undisturbed => env.foreign = 0

(* The counters are what happened: answers are counted once; an error is     *)
(* counted for a broken connection at most once and for every failed connect *)
(* and every body that ended with its connection; a timeout is counted for   *)
(* every batch that was answered too late.                                   *)
CountersHonest ==
    /\ stat.complete = env.answers
    /\ stat.connect = env.unreachable
    /\ stat.read + stat.write <= env.broken + env.eofs /\ stat.read >= env.eofs
    /\ stat.timeout = env.slow

(* A connection is lost to the run only with an error counted for it.        *)
LostConnsCounted ==
    Cardinality({c \in Conns : \A f \in Fds : net[f].state = "closed" \/ loop[f].data # c})
        <= stat.connect

(* What README.md says of --timeout: a response that is not received in time *)
(* is recorded.                                                              *)
TimeoutsRecorded ==
    ended => stat.timeout >= Cardinality({f \in Fds : net[f].overdue})

=============================================================================
