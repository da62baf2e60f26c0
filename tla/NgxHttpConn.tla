---------------------------- MODULE NgxHttpConn ----------------------------
(***************************************************************************)
(* One client connection of the bundled nginx (http/ngx_http_request.c):   *)
(* waiting for a request, reading its line and header through small and    *)
(* large buffers, answering it, keeping the connection for the next        *)
(* request, pipelined ones included, and closing it, lingering or not.     *)
(* Reads go through ngx_unix_recv on edge-triggered epoll with EPOLLRDHUP, *)
(* as nginx.conf asks for, so the flags ready, available and pending_eof   *)
(* decide whether a waiting connection is ever woken.                      *)
(*                                                                         *)
(* The client's bytes are numbered tokens.  A handler that reads in a loop *)
(* takes one step per turn, between which the client may send.  What       *)
(* produces the response is external.  Request bodies, TLS, HTTP/2, the    *)
(* PROXY protocol and failing allocations are left out.                    *)
(***************************************************************************)
EXTENDS Integers, Sequences, SequencesExt, FiniteSets

CONSTANTS
    Requests,        \* what the client sends: a sequence of requests
    HeaderBuffer,    \* client_header_buffer_size, in tokens
    LargeSize,       \* large_client_header_buffers: size
    LargeNum,        \* large_client_header_buffers: number
    InPool,          \* is c->buffer too small to be freed on its own?
    KeepaliveRequests,
    Faults           \* what may happen besides requests and responses

\* A request is blank tokens (CRLF), then units: the request line, header
\* lines, the end of the header.  Completing unit bad is a syntax error.
RequestsAssumption ==
    \A i \in DOMAIN Requests :
        /\ Requests[i].blank \in Nat /\ Requests[i].keep \in BOOLEAN
        /\ Len(Requests[i].units) > 1
        /\ \A j \in DOMAIN Requests[i].units : Requests[i].units[j] \in Nat \ {0}
        /\ Requests[i].bad \in 0..Len(Requests[i].units)

SizesAssumption ==
    /\ {HeaderBuffer, LargeSize, LargeNum, KeepaliveRequests} \subseteq Nat \ {0}
    /\ InPool \in BOOLEAN
    /\ Faults \subseteq {"fin", "rst", "timeout", "quit", "drain"}

VARIABLES
    c,          \* the connection, its request, its buffers and its socket
    sent,       \* tokens the client has sent
    answered,   \* responses sent completely
    exiting     \* ngx_exiting

vars == <<c, sent, answered, exiting>>

-----------------------------------------------------------------------------
(* The client's stream.                                                      *)

SumTo(q, n) == FoldLeft(LAMBDA a, b : a + b, 0, SubSeq(q, 1, n))
Length(r) == Requests[r].blank + SumTo(Requests[r].units, Len(Requests[r].units))
Before(r) == SumTo([i \in DOMAIN Requests |-> Length(i)], r - 1)
Total == Before(Len(Requests) + 1)

-----------------------------------------------------------------------------
(* Buffers: 0 is c->buffer, the others are large ones.  used is last - start *)
(* and data what lies between pos and last.                                  *)

Buffers == 0..LargeNum
Size(b) == IF b = 0 THEN HeaderBuffer ELSE LargeSize
Empty == [mem |-> TRUE, used |-> 0, data |-> <<>>]
Freed == [mem |-> FALSE, used |-> 0, data |-> <<>>]

Data(x) == x.buf[x.hin].data
Readable(x) == x.in # <<>> \/ x.peer # "open"

(* ngx_handle_read_event: registering a descriptor that is readable reports  *)
(* it at once.                                                               *)
HandleRead(x) ==
    IF ~x.active /\ ~x.ready
    THEN [x EXCEPT !.active = TRUE, !.edge = Readable(x)]
    ELSE x

(* ngx_http_free_request and ngx_http_close_connection.                      *)
FreeRequest(x) == [x EXCEPT !.reading = FALSE, !.writing = FALSE]
Close(x) ==
    [FreeRequest(x) EXCEPT !.st = "closed", !.run = FALSE, !.posted = FALSE, !.timer = FALSE,
        !.wtimer = FALSE, !.reusable = FALSE, !.idle = FALSE, !.active = FALSE, !.edge = FALSE]

(* ngx_unix_recv of up to room bytes into buffer b, or nowhere when b is -1. *)
(* available is -1 when unknown; otherwise it is what FIONREAD said minus    *)
(* what was read since.                                                      *)
Recv(x, b, room) ==
    IF x.available = 0 /\ ~x.pending_eof
    THEN [res |-> "again", x |-> [x EXCEPT !.ready = FALSE]]
    ELSE IF room = 0 \/ (x.in = <<>> /\ x.peer = "fin")
    THEN [res |-> "eof", x |-> [x EXCEPT !.ready = FALSE, !.eof = TRUE]]
    ELSE IF x.in = <<>>
    THEN [res |-> IF x.peer = "open" THEN "again" ELSE "error", x |-> [x EXCEPT !.ready = FALSE]]
    ELSE LET n == IF Len(x.in) < room THEN Len(x.in) ELSE room
             left == x.available - n
             known == CASE x.available >= 0 -> IF left < 0 THEN 0 ELSE left
                        [] n = room -> Len(x.in) - n
                        [] OTHER -> x.available IN
         [res |-> "data",
          x |-> [x EXCEPT
                 !.in = SubSeq(@, n + 1, Len(@)),
                 !.available = IF n < room THEN 0 ELSE known,
                 !.ready = @ /\ ~(x.available >= 0 /\ left < 0) /\ ~(n < room /\ ~x.pending_eof),
                 !.buf = IF b = -1 THEN @ ELSE
                     [@ EXCEPT ![b].used = @ + n, ![b].data = @ \o SubSeq(x.in, 1, n)]]]

-----------------------------------------------------------------------------
(* Creating a request and reading it.                                        *)

(* ngx_http_create_request with ngx_http_alloc_request.                      *)
CreateRequest(x) ==
    [x EXCEPT !.requests = @ + 1, !.hin = IF x.busy # <<>> THEN Head(x.busy) ELSE 0,
        !.blank = 0, !.unit = 1, !.got = 0, !.keep = FALSE,
        !.lingering = FALSE, !.err = FALSE, !.reading = TRUE]

(* ngx_http_wait_request_handler on an event.                                *)
WaitRequest(x) ==
    LET y == IF x.buf[0].mem THEN x ELSE [x EXCEPT !.buf[0] = Empty]
        r == Recv(y, 0, HeaderBuffer) IN
    CASE r.res = "again" ->
           LET z == HandleRead([r.x EXCEPT !.timer = TRUE, !.run = FALSE,
                                      !.reusable = IF x.timer THEN @ ELSE TRUE])
           IN IF InPool THEN z ELSE [z EXCEPT !.buf[0] = Freed]
      [] r.res = "data" ->
           [CreateRequest([r.x EXCEPT !.reusable = FALSE]) EXCEPT !.st = "line", !.run = TRUE]
      [] OTHER -> Close(r.x)

(* ngx_http_read_request_header when nothing is left between pos and last.   *)
ReadHeader(x) ==
    LET r == IF x.ready THEN Recv(x, x.hin, Size(x.hin) - x.buf[x.hin].used)
             ELSE [res |-> "again", x |-> x] IN
    CASE r.res = "again" -> HandleRead([r.x EXCEPT !.timer = TRUE, !.run = FALSE])
      [] r.res = "data" -> r.x
      [] OTHER -> Close(r.x)

(* ngx_http_finalize_request with an error status: the response is a page    *)
(* and the connection is not kept.                                           *)
Failed(x, lingering) ==
    [x EXCEPT !.st = "process", !.run = FALSE, !.err = TRUE, !.timer = FALSE, !.wtimer = FALSE,
        !.keep = FALSE, !.lingering = lingering]

(* ngx_http_alloc_large_header_buffer: from the free list, or a new one.  An *)
(* incomplete line is moved.                                                 *)
Taken(x, b) ==
    LET y == [x EXCEPT !.busy = <<b>> \o @, !.free = SelectSeq(@, LAMBDA f : f # b), !.hin = b] IN
    [y EXCEPT !.buf[b] = [Empty EXCEPT !.used = x.got]]
AllocLarge(x, line) ==
    IF line /\ x.got = 0 THEN [ok |-> TRUE, x |-> [x EXCEPT !.buf[x.hin] = Empty]]
    ELSE IF x.got # 0 /\ x.got >= LargeSize THEN [ok |-> FALSE, x |-> x]
    ELSE IF x.free # <<>> THEN [ok |-> TRUE, x |-> Taken(x, Head(x.free))]
    ELSE IF Len(x.busy) < LargeNum
    THEN [ok |-> TRUE, x |-> Taken(x, CHOOSE b \in Buffers \ {0} : b \notin ToSet(x.busy))]
    ELSE [ok |-> FALSE, x |-> x]

(* ngx_http_parse_request_line and ngx_http_parse_header_line: the parser    *)
(* takes what belongs to the unit it is in, as far as it has arrived.        *)
Parsed(x) ==
    LET req == Requests[x.requests]
        blanks == IF x.unit = 1 /\ x.got = 0
                  THEN LET m == req.blank - x.blank IN IF Len(Data(x)) < m THEN Len(Data(x)) ELSE m
                  ELSE 0
        want == req.units[x.unit] - x.got
        have == Len(Data(x)) - blanks
        n == IF have < want THEN have ELSE want IN
    [x EXCEPT !.blank = @ + blanks, !.got = @ + n,
        !.buf[x.hin].data = SubSeq(@, blanks + n + 1, Len(@))]

(* ngx_http_process_request with the decision of ngx_http_handler on         *)
(* keepalive.                                                                *)
ProcessRequest(x) ==
    [x EXCEPT !.st = "process", !.run = FALSE, !.timer = FALSE, !.reading = FALSE, !.writing = TRUE,
        !.keep = Requests[x.requests].keep /\ x.requests < KeepaliveRequests]

Complete(x) == x.got = Requests[x.requests].units[x.unit]
Full(x) == Data(x) = <<>> /\ x.buf[x.hin].used = Size(x.hin)

(* One turn of ngx_http_process_request_line.                                *)
LineStep(x) ==
    IF Data(x) = <<>> THEN ReadHeader(x)
    ELSE LET y == Parsed(x) IN
         IF Complete(y)
         THEN IF Requests[y.requests].bad = 1 THEN Failed(y, FALSE)
              ELSE [y EXCEPT !.st = "head", !.unit = 2, !.got = 0]
         ELSE IF Full(y)
         THEN LET a == AllocLarge(y, TRUE) IN IF a.ok THEN a.x ELSE Failed(a.x, FALSE)
         ELSE y

(* One turn of ngx_http_process_request_headers.                             *)
HeadStep(x) ==
    IF Full(x)
    THEN LET a == AllocLarge(x, FALSE) IN IF a.ok THEN ReadHeader(a.x) ELSE Failed(a.x, TRUE)
    ELSE IF Data(x) = <<>> THEN ReadHeader(x)
    ELSE LET y == Parsed(x) IN
         IF ~Complete(y) THEN y
         ELSE IF Requests[y.requests].bad = y.unit THEN Failed(y, FALSE)
         ELSE IF y.unit = Len(Requests[y.requests].units) THEN ProcessRequest(y)
         ELSE [y EXCEPT !.unit = @ + 1, !.got = 0]

-----------------------------------------------------------------------------
(* Ending a request.                                                         *)

(* ngx_http_set_keepalive: the buffer that holds the next request stays in   *)
(* use.                                                                      *)
Kept(x) ==
    LET b == x.hin
        others == SelectSeq(x.busy, LAMBDA l : l # b) IN
    IF Data(x) # <<>> /\ b # 0
    THEN [x EXCEPT !.busy = <<b>>, !.free = Reverse(others) \o @,
                   !.buf = [i \in Buffers |-> IF i \in ToSet(others) THEN Empty ELSE x.buf[i]]]
    ELSE x
Idle(x) ==
    [x EXCEPT !.st = "keepalive", !.run = FALSE, !.idle = TRUE, !.reusable = TRUE, !.timer = TRUE,
        !.busy = <<>>, !.free = <<>>, !.hin = 0,
        !.buf = [i \in Buffers |-> IF i = 0 /\ InPool THEN Empty ELSE Freed]]
\* Variant: the event of a connection that is still ready is not posted.
SetKeepalive_NotPosted(x) ==
    LET y == HandleRead(FreeRequest(Kept(x))) IN
    IF Data(y) # <<>>
    THEN [CreateRequest(y) EXCEPT !.st = "line", !.run = FALSE, !.timer = FALSE, !.posted = TRUE]
    ELSE Idle(y)
SetKeepalive(x) ==
    LET y == HandleRead(FreeRequest(Kept(x))) IN
    IF Data(y) # <<>>
    THEN [CreateRequest(y) EXCEPT !.st = "line", !.run = FALSE, !.timer = FALSE, !.posted = TRUE]
    ELSE [Idle(y) EXCEPT !.posted = y.ready]

(* ngx_http_keepalive_handler on an event.                                   *)
KeepaliveHandler(x) ==
    LET y == IF x.buf[0].mem THEN x ELSE [x EXCEPT !.buf[0] = Empty]
        r == Recv(y, 0, HeaderBuffer) IN
    CASE r.res = "again" -> HandleRead(IF InPool THEN r.x ELSE [r.x EXCEPT !.buf[0] = Freed])
      [] r.res = "data" ->
           [CreateRequest([r.x EXCEPT !.idle = FALSE, !.reusable = FALSE])
               EXCEPT !.st = "line", !.run = TRUE, !.timer = FALSE]
      [] OTHER -> Close(r.x)

(* ngx_http_set_lingering_close, and one turn of the loop of                 *)
(* ngx_http_lingering_close_handler.                                         *)
SetLingering(x) ==
    LET y == HandleRead(x) IN
    [y EXCEPT !.st = "linger", !.reusable = TRUE, !.timer = TRUE, !.run = y.ready]
LingerStep(x) ==
    LET r == Recv(x, -1, HeaderBuffer) IN
    CASE r.res \in {"eof", "error"} -> Close(r.x)
      [] r.res = "data" /\ r.x.ready -> r.x
      [] OTHER -> HandleRead([r.x EXCEPT !.run = FALSE, !.timer = TRUE])

(* ngx_http_finalize_connection, when the response is out.                   *)
FinalizeConnection(x) ==
    IF x.eof THEN Close(x)
    ELSE IF ~exiting /\ x.keep THEN SetKeepalive(x)
    ELSE IF x.lingering \/ Data(x) # <<>> \/ x.ready THEN SetLingering(x)
    ELSE Close(x)

(* ngx_http_set_write_handler: what is left waits for the socket to become   *)
(* writable.  Registering that event reports again what is readable.         *)
SetWrite(x) ==
    [x EXCEPT !.st = "write", !.wtimer = TRUE, !.wactive = TRUE,
        !.edge = @ \/ (~x.wactive /\ x.active /\ Readable(x))]

(* ngx_http_test_reading.                                                    *)
TestReading(x) == IF x.pending_eof THEN Close([x EXCEPT !.eof = TRUE]) ELSE x

-----------------------------------------------------------------------------
(* The steps.                                                                *)

(* ngx_http_init_connection: with a deferred accept the handler runs at      *)
(* once, before the descriptor is known to epoll.                            *)
NewConn(deferred) ==
    [st |-> "wait", run |-> deferred, ready |-> deferred, available |-> IF deferred THEN 1 ELSE 0,
     pending_eof |-> FALSE, eof |-> FALSE, active |-> ~deferred, posted |-> FALSE,
     timer |-> ~deferred, wtimer |-> FALSE, wactive |-> FALSE, reusable |-> ~deferred,
     idle |-> FALSE, requests |-> 0, hin |-> 0, blank |-> 0, unit |-> 1, got |-> 0,
     keep |-> FALSE, lingering |-> FALSE, err |-> FALSE, reading |-> FALSE, writing |-> FALSE,
     busy |-> <<>>, free |-> <<>>, buf |-> [i \in Buffers |-> Freed],
     in |-> IF deferred THEN <<1>> ELSE <<>>, peer |-> "open", edge |-> FALSE]

Init ==
    /\ \E deferred \in BOOLEAN :
         c = NewConn(deferred) /\ sent = (IF deferred THEN 1 ELSE 0)
    /\ answered = 0 /\ exiting = FALSE

Open == c.st # "closed"
AtRest == Open /\ ~c.run /\ ~c.posted

(* The client sends a token, or ends the connection.                         *)
Send ==
    /\ Open /\ c.peer = "open" /\ sent < Total
    /\ sent' = sent + 1
    /\ c' = [c EXCEPT !.in = Append(@, sent + 1), !.edge = c.active]
    /\ UNCHANGED <<answered, exiting>>
Leave(how) ==
    /\ how \in Faults /\ Open /\ c.peer = "open"
    /\ c' = [c EXCEPT !.peer = how, !.edge = c.active, !.in = IF how = "rst" THEN <<>> ELSE @]
    /\ UNCHANGED <<sent, answered, exiting>>

(* A handler that has not returned takes its next turn.                      *)
Turn ==
    /\ Open /\ c.run
    /\ c' = CASE c.st = "wait" -> WaitRequest(c)
              [] c.st = "line" -> LineStep(c)
              [] c.st = "head" -> HeadStep(c)
              [] c.st = "linger" -> LingerStep(c)
    /\ UNCHANGED <<sent, answered, exiting>>

(* rev->handler of an open connection.                                       *)
Handled(x) ==
    CASE x.st = "wait" -> WaitRequest(x)
      [] x.st \in {"line", "head", "linger"} -> [x EXCEPT !.run = TRUE]
      [] x.st = "keepalive" -> KeepaliveHandler(x)
      [] x.st = "write" -> TestReading(x)
      [] x.st = "process" -> x

(* epoll_wait reports the descriptor readable.                               *)
Event ==
    /\ AtRest /\ c.active /\ c.edge /\ Readable(c)
    /\ c' = Handled([c EXCEPT !.edge = FALSE, !.ready = TRUE, !.available = -1,
                              !.pending_eof = @ \/ c.peer # "open"])
    /\ UNCHANGED <<sent, answered, exiting>>

(* ngx_event_process_posted.                                                 *)
RunPosted ==
    /\ Open /\ c.posted
    /\ c' = Handled([c EXCEPT !.posted = FALSE])
    /\ UNCHANGED <<sent, answered, exiting>>

(* Output by the handler of the request, and by ngx_http_writer when the     *)
(* socket is writable: all of the response is taken by the socket, or not.   *)
Output(all) ==
    /\ AtRest /\ c.st \in {"process", "write"}
    /\ IF c.peer = "rst" THEN c' = Close(c) /\ UNCHANGED answered
       ELSE IF all
       THEN /\ c' = FinalizeConnection([c EXCEPT !.timer = FALSE, !.wtimer = FALSE])
            /\ answered' = answered + 1
       ELSE c' = SetWrite(c) /\ UNCHANGED answered
    /\ UNCHANGED <<sent, exiting>>

(* A timer of the connection expires, or the time to linger is over.         *)
Timeout ==
    /\ "timeout" \in Faults /\ AtRest /\ (c.timer \/ c.wtimer)
    /\ c' = Close(c)
    /\ UNCHANGED <<sent, answered, exiting>>

(* ngx_close_idle_connections, when the worker is told to quit.              *)
Quit ==
    /\ "quit" \in Faults /\ ~exiting /\ ~c.run /\ ~c.posted
    /\ exiting' = TRUE
    /\ c' = IF c.idle THEN Close(c) ELSE c
    /\ UNCHANGED <<sent, answered>>

(* ngx_drain_connections, when another connection needs the slot.            *)
Drain ==
    /\ "drain" \in Faults /\ Open /\ c.reusable /\ ~c.run
    /\ c' = Close(c)
    /\ UNCHANGED <<sent, answered, exiting>>

(* The connection is closed, or the client has all its answers.              *)
Over ==
    /\ ~Open \/ (sent = Total /\ answered = Len(Requests))
    /\ UNCHANGED vars

Next ==
    \/ Send \/ Turn \/ Event \/ RunPosted \/ Timeout \/ Quit \/ Drain \/ Over
    \/ \E how \in {"fin", "rst"} : Leave(how)
    \/ \E all \in BOOLEAN : Output(all)

Spec == Init /\ [][Next]_vars

-----------------------------------------------------------------------------
(* Type invariant of the connection: the handlers, the timers and the        *)
(* buffers.                                                                  *)
TypeOK ==
    /\ c.st \in {"wait", "line", "head", "process", "write", "keepalive", "linger", "closed"}
    /\ c.hin \in Buffers /\ c.available \in -1..Total
    /\ ToSet(c.busy) \cup ToSet(c.free) \subseteq Buffers \ {0}
    /\ sent \in 0..Total /\ answered \in 0..Len(Requests) /\ exiting \in BOOLEAN

(* Tokens the parser has taken, judged by where it is in which request.      *)
Consumed ==
    IF c.st \in {"line", "head"}
    THEN Before(c.requests) + c.blank + SumTo(Requests[c.requests].units, c.unit - 1) + c.got
    ELSE Before(c.requests + 1)

(* No byte of the client is lost, read twice or given to another request:    *)
(* what the buffer in use holds, followed by what the kernel holds, is what  *)
(* the parser needs next.  Buffers are freed, exchanged, moved and handed to *)
(* the next request meanwhile (set_keepalive, alloc_large_header_buffer).    *)
NothingLost ==
    c.st \notin {"linger", "closed"} /\ ~c.err /\ c.peer # "rst" =>
        (IF c.st \in {"wait", "keepalive"} THEN <<>> ELSE Data(c)) \o c.in
            = [i \in 1..(sent - Consumed) |-> Consumed + i]

(* A connection that waits for its client is woken by it: its timer is set,  *)
(* the descriptor is registered, and when something is there to read an      *)
(* event for it is on its way (edge-triggered: it comes once).               *)
Woken ==
    AtRest /\ c.st \in {"wait", "line", "head", "keepalive", "linger"} =>
        c.timer /\ c.active /\ (Readable(c) => c.edge)

(* A connection that may be closed to make room, or because the worker       *)
(* quits, has no request that was begun and not answered.                    *)
OnlyIdleReused ==
    (c.reusable \/ c.idle) /\ c.st # "linger" =>
        answered = c.requests /\ c.buf[0].data = <<>> /\ c.busy = <<>>

(* No read goes past its buffer or into memory that was freed, and the       *)
(* request in progress has its buffer.                                       *)
NoOverflow ==
    \A b \in Buffers : c.buf[b].used <= (IF c.buf[b].mem THEN Size(b) ELSE 0)

(* Each large buffer is in one list, once, and there are no more than the    *)
(* configuration allows.                                                     *)
LargeBounded ==
    Len(c.busy \o c.free) = Cardinality(ToSet(c.busy \o c.free)) /\ Len(c.busy \o c.free) <= LargeNum

(* What stub_status counts: a request counts as read until it is processed,  *)
(* then as written until it is freed, and no connection without a request    *)
(* counts as either.                                                         *)
StatsExact ==
    /\ c.reading <=> c.st \in {"line", "head"} \/ (c.err /\ c.st \in {"process", "write", "linger"})
    /\ c.writing <=> ~c.err /\ c.st \in {"process", "write", "linger"}

(* A worker that is exiting keeps no idle connection.                        *)
QuitCloses == exiting => c.st # "keepalive"

=============================================================================
