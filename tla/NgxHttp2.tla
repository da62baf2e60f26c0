------------------------------ MODULE NgxHttp2 ------------------------------
(***************************************************************************)
(* How the bundled nginx sends the responses of several HTTP/2 streams     *)
(* over one connection (http/v2/ngx_http_v2.c, ngx_http_v2_filter_module.c *)
(* and the frame queue of ngx_http_v2.h): the windows of the connection    *)
(* and of each stream, the queue of frames with its priorities, the        *)
(* streams that wait for a window, and what becomes of all that when a     *)
(* stream is closed, reset or terminated.                                  *)
(*                                                                         *)
(* A response is a header block and Body[s] bytes.  Left out: pushes,      *)
(* trailers, changes of priority, rate limits, the flood limit and the     *)
(* end of the connection.                                                  *)
(***************************************************************************)
EXTENDS Integers, Sequences, FiniteSets, SequencesExt

CONSTANTS
    Body,        \* bytes of the response of each stream
    Prio,        \* priority of each stream: rank and weight, larger first
    Chunk,       \* the size of a DATA frame at most
    ConnWindow, InitWindow, MaxWindow,
    Grants,      \* increments of a window the client sends
    ConnMax,     \* bound on what the client grants the connection
    StreamMax,   \* and each stream
    Inits,       \* values of SETTINGS_INITIAL_WINDOW_SIZE it sends
    MaxSettings, \* bound on their number
    Split,       \* whether a SETTINGS frame can arrive in two parts
    Failures     \* whether streams are reset and responses fail

Streams == DOMAIN Body

ConstantsAssumption ==
    /\ Body \in [Streams -> Nat] /\ Prio \in [Streams -> Nat] /\ 0 \notin Streams
    /\ Chunk \in Nat \ {0} /\ ConnWindow \in Nat /\ InitWindow \in Nat
    /\ Grants \subseteq Nat \ {0} /\ Inits \subseteq Nat /\ MaxSettings \in Nat
    /\ Split \in BOOLEAN /\ Failures \in BOOLEAN

VARIABLES
    h,       \* the connection, with its streams in h.st
    client   \* what the client granted, and what it was sent

vars == <<h, client>>

Smaller(a, b) == IF a < b THEN a ELSE b

-----------------------------------------------------------------------------
(* The queue of frames, here in the order of sending.  f.s is the stream, or *)
(* 0 for a frame of the connection.                                          *)

\* f goes behind the last element that stops it.
InsertAfter(q, f, Stop(_)) ==
    LET j == CHOOSE j \in 0..Len(q) :
               (j = 0 \/ Stop(q[j])) /\ \A i \in (j + 1)..Len(q) : ~Stop(q[i]) IN
    SubSeq(q, 1, j) \o <<f>> \o SubSeq(q, j + 1, Len(q))
Barrier(f) == f.blocked \/ f.s = 0

(* ngx_http_v2_queue_frame.                                                  *)
QueueFrame(q, f) == InsertAfter(q, f, LAMBDA g : Barrier(g) \/ Prio[g.s] >= Prio[f.s])
QueueBlockedFrame(q, f) == InsertAfter(q, f, Barrier)
QueueOrderedFrame(q, f) == Append(q, f)

Data(s, from, len, fin) ==
    [s |-> s, id |-> s, kind |-> "data", from |-> from, len |-> len, fin |-> fin, blocked |-> FALSE]
Headers(s) ==
    [s |-> s, id |-> s, kind |-> "headers", from |-> 0, len |-> 0, fin |-> Body[s] = 0, blocked |-> TRUE]
Control(id, kind) ==
    [s |-> 0, id |-> id, kind |-> kind, from |-> 0, len |-> 0, fin |-> FALSE, blocked |-> FALSE]

-----------------------------------------------------------------------------
(* The output queue is sent.                                                 *)

(* ngx_post_event: an event is posted once.                                  *)
Post(q, s) == IF s \in ToSet(q) THEN q ELSE Append(q, s)

(* ngx_http_v2_handle_stream: when a frame of it is out, the stream goes on  *)
(* if it does not wait for a window or send right now.                       *)
GoesOn(t) == ~t.waiting /\ ~t.blocked /\ (t.error \/ ~t.exhausted)

(* The handlers of the frames that were sent.  If the socket took not all, a *)
(* part of the next frame may be out, and it is blocked in any case.         *)
Taken(y, n, part) ==
    LET sent == SubSeq(y.out, 1, n)
        all == n = Len(y.out)
        some == IF ~all /\ part /\ y.out[n + 1].kind = "data" THEN <<y.out[n + 1]>> ELSE <<>>
        told == SelectSeq(sent \o some, LAMBDA f : f.s # 0 /\ GoesOn(y.st[f.s]))
        Count(s) == Len(SelectSeq(sent, LAMBDA f : f.s = s)) IN
    [y EXCEPT !.out = IF all THEN <<>> ELSE [SubSeq(@, n + 1, Len(@)) EXCEPT ![1].blocked = TRUE],
              !.sock = all, !.wire = @ \o sent,
              !.posted = FoldLeft(LAMBDA q, f : Post(q, f.s), @, told),
              !.st = [s \in Streams |-> [@[s] EXCEPT
                         !.queued = @ - Count(s),
                         !.out_closed = @ \/ \E f \in ToSet(sent) : f.s = s /\ f.fin]]]

(* ngx_http_v2_send_output_queue: the socket takes any number of frames.     *)
SendOutputQueue(y) ==
    IF ~y.sock THEN {y} ELSE {Taken(y, n, part) : n \in 0..Len(y.out), part \in BOOLEAN}

(* ngx_http_v2_filter_send.                                                  *)
FilterSend(y, s) ==
    IF y.st[s].queued = 0 THEN {y}
    ELSE {[z EXCEPT !.st[s].blocked = FALSE] : z \in SendOutputQueue([y EXCEPT !.st[s].blocked = TRUE])}

-----------------------------------------------------------------------------
(* ngx_http_v2_flow_control.                                                 *)
Declined(y, s) == y.st[s].window <= 0 \/ y.window = 0
WaitingQueue(y, s) ==
    IF y.st[s].waiting THEN y
    ELSE [y EXCEPT !.st[s].waiting = TRUE,
                   !.waiting = InsertAfter(@, s, LAMBDA q : Prio[q] >= Prio[s])]
FlowControl(y, s) ==
    IF y.st[s].window <= 0 THEN [y EXCEPT !.st[s].exhausted = TRUE]
    ELSE IF y.window = 0 THEN WaitingQueue(y, s)
    ELSE y

(* The frames of ngx_http_v2_send_chain, as far as both windows reach.       *)
Limit(y, s) == Smaller(y.window, y.st[s].window)
Framed(y, s) ==
    LET total == Smaller(Limit(y, s), y.st[s].left)
        count == (total + Chunk - 1) \div Chunk
        Frame(z, k) ==
            LET len == Smaller(Chunk, total - (k - 1) * Chunk)
                from == Body[s] - z.st[s].left IN
            [z EXCEPT !.out = QueueFrame(@, Data(s, from, len, len = z.st[s].left)),
                      !.window = @ - len, !.st[s].window = @ - len,
                      !.st[s].left = @ - len, !.st[s].queued = @ + 1] IN
    FoldLeft(Frame, y, [k \in 1..count |-> k])
SendChain(y, s) ==
    IF y.st[s].left = 0 THEN FilterSend(y, s)
    ELSE IF Declined(y, s) THEN {FlowControl(z, s) : z \in FilterSend(FlowControl(y, s), s)}
    ELSE {IF z.st[s].left > 0 THEN FlowControl(z, s) ELSE z : z \in FilterSend(Framed(y, s), s)}

-----------------------------------------------------------------------------
(* The end of a stream.                                                      *)

(* ngx_http_v2_close_stream. A frame that was begun has to be sent first.    *)
Reset(y, s) == [y EXCEPT !.out = QueueBlockedFrame(@, Control(s, "rst"))]
Freed(y, s) ==
    LET z == IF y.st[s].rst_sent \/ y.st[s].out_closed THEN y ELSE Reset(y, s) IN
    [z EXCEPT !.st[s].pc = "closed", !.posted = SelectSeq(@, LAMBDA q : q # s)]
CloseStream(y, s) ==
    IF y.st[s].queued > 0 THEN [y EXCEPT !.st[s].pc = "closing", !.st[s].error = TRUE]
    ELSE Freed(y, s)

(* ngx_http_v2_filter_cleanup: frames that were not begun are withdrawn, the *)
(* connection has their window again, and who waited for it is told.         *)
Withdrawn(y, s) == SelectSeq(y.out, LAMBDA f : f.s = s /\ ~f.blocked)
Bytes(q) == FoldLeft(LAMBDA a, f : a + f.len, 0, q)
\* Variant: the window of withdrawn frames is lost.
GivenBack_Nothing(y, s) == 0
GivenBack(y, s) == Bytes(Withdrawn(y, s))
WokenAll(y) ==
    [y EXCEPT
        !.posted = FoldLeft(Post, @, y.waiting),
        !.waiting = <<>>,
        !.st = [s \in Streams |-> IF s \in ToSet(y.waiting) THEN [@[s] EXCEPT !.waiting = FALSE] ELSE @[s]]]
Cleanup(y, s) ==
    LET w == GivenBack(y, s)
        z == [y EXCEPT !.st[s].waiting = FALSE, !.waiting = SelectSeq(@, LAMBDA q : q # s),
                       !.out = SelectSeq(@, LAMBDA f : f.s # s \/ f.blocked),
                       !.st[s].queued = @ - Len(Withdrawn(y, s))]
        t == IF y.window = 0 /\ w > 0 THEN WokenAll(z) ELSE z IN
    [t EXCEPT !.window = @ + w]

(* ngx_http_terminate_request, and ngx_http_v2_terminate_stream.             *)
Terminate(y, s) == CloseStream(Cleanup([y EXCEPT !.st[s].error = TRUE], s), s)
TerminateStream(y, s) ==
    IF y.st[s].rst_sent THEN y
    ELSE LET z == [Reset(y, s) EXCEPT !.st[s].rst_sent = TRUE] IN
         IF z.st[s].pc = "closing" THEN CloseStream(z, s) ELSE Terminate(z, s)

(* The write handler of a stream: ngx_http_writer, or, once the stream is to *)
(* be closed, ngx_http_v2_retry_close_stream_handler.                        *)
Done(y, s) == IF y.st[s].left = 0 /\ y.st[s].queued = 0 THEN CloseStream(Cleanup(y, s), s) ELSE y
Handler(y, s) ==
    CASE y.st[s].pc = "open" -> {Done(z, s) : z \in SendChain(y, s)}
      [] y.st[s].pc = "closing" -> {CloseStream(y, s)}
      [] OTHER -> {y}

-----------------------------------------------------------------------------
NewStream(s) ==
    [pc |-> "new", left |-> Body[s], window |-> InitWindow, queued |-> 0, waiting |-> FALSE,
     exhausted |-> FALSE, blocked |-> FALSE, error |-> FALSE, out_closed |-> FALSE, rst_sent |-> FALSE]

Init ==
    /\ h = [pc |-> "idle", window |-> ConnWindow, init |-> InitWindow, out |-> <<>>, sock |-> TRUE,
            waiting |-> <<>>, posted |-> <<>>, todo |-> <<>>, delta |-> 0, wire |-> <<>>,
            st |-> [s \in Streams |-> NewStream(s)]]
    /\ client = [conn |-> ConnWindow, init |-> InitWindow, settings |-> 0,
                 stream |-> [s \in Streams |-> InitWindow],
                 got |-> [s \in Streams |-> [headers |-> FALSE, bytes |-> 0, over |-> FALSE, wrong |-> FALSE]]]

(* What the client makes of a frame: wrong, if its stream is over or it is   *)
(* not the next part of the response.                                        *)
Received(got, f) ==
    IF f.id = 0 THEN got
    ELSE [got EXCEPT ![f.id] =
            [headers |-> @.headers \/ f.kind = "headers",
             bytes |-> @.bytes + f.len,
             over |-> f.fin \/ f.kind = "rst",
             wrong |-> \/ @.wrong \/ @.over
                       \/ f.kind = "headers" /\ @.headers
                       \/ f.kind = "data" /\ (~@.headers \/ f.from # @.bytes)]]

(* A step of the server: what it put on the wire is the client's.            *)
Step(S) ==
    \E y \in S :
        /\ h' = [y EXCEPT !.wire = <<>>]
        /\ client' = [client EXCEPT !.got = FoldLeft(Received, @, y.wire)]

(* The header filter, and then the body.                                     *)
Respond(s) ==
    /\ h.pc = "idle" /\ h.st[s].pc = "new"
    /\ LET y == [h EXCEPT !.st[s].pc = "open", !.st[s].queued = 1, !.out = QueueBlockedFrame(@, Headers(s))] IN
       Step(UNION {Handler(z, s) : z \in FilterSend(y, s)})
RunPosted ==
    /\ h.pc = "idle" /\ h.posted # <<>>
    /\ Step(Handler([h EXCEPT !.posted = Tail(@)], Head(h.posted)))
Writable ==
    /\ h.pc = "idle" /\ ~h.sock
    /\ Step(SendOutputQueue([h EXCEPT !.sock = TRUE]))
Fails(s) ==
    /\ Failures /\ h.pc = "idle" /\ h.st[s].pc = "open"
    /\ Step({Terminate(h, s)})

(* The frames the client sends; one read may bring several.                  *)
Reading == h.pc \in {"idle", "flush"}
Live(y, s) == y.st[s].pc # "closed"

(* WINDOW_UPDATE of the connection wakes those that wait, as long as there   *)
(* is a window.                                                              *)
GrantConn(n) ==
    /\ Reading /\ client.conn + n <= ConnMax
    /\ h' = [h EXCEPT !.window = @ + n, !.pc = "wake"]
    /\ client' = [client EXCEPT !.conn = @ + n]
\* Variant: one of those that wait is woken.
AfterWake_One(y) == [y EXCEPT !.pc = "flush"]
AfterWake(y) == IF y.window = 0 THEN [y EXCEPT !.pc = "flush"] ELSE y
Wake ==
    /\ h.pc = "wake"
    /\ IF h.waiting = <<>> THEN h' = [h EXCEPT !.pc = "flush"] /\ UNCHANGED client
       ELSE LET s == Head(h.waiting) IN
            Step({AfterWake(z) : z \in Handler([h EXCEPT !.waiting = Tail(@), !.st[s].waiting = FALSE], s)})

(* The window of s grows: one that was exhausted goes on.                    *)
Resumed(y, s) ==
    IF y.st[s].exhausted /\ y.st[s].window > 0 THEN Handler([y EXCEPT !.st[s].exhausted = FALSE], s) ELSE {y}
GrantedStream(y, s) ==
    IF y.st[s].exhausted THEN Handler([y EXCEPT !.st[s].exhausted = FALSE], s) ELSE {y}

(* WINDOW_UPDATE of a stream.                                                *)
GrantStream(s, n) ==
    /\ Reading /\ Live(h, s) /\ client.stream[s] + n <= StreamMax
    /\ LET y == [h EXCEPT !.pc = "flush"] IN
       \E z \in IF h.st[s].window + n > MaxWindow THEN {TerminateStream(y, s)}
                ELSE GrantedStream([y EXCEPT !.st[s].window = @ + n], s) :
          /\ h' = [z EXCEPT !.wire = <<>>]
          /\ client' = [client EXCEPT !.stream[s] = @ + n, !.got = FoldLeft(Received, @, z.wire)]

(* SETTINGS with an initial window. window_delta is a local variable of      *)
(* ngx_http_v2_state_settings_params: it is lost when the frame arrives in   *)
(* two parts and the parameter was in the first.                             *)
Settings(v, split) ==
    /\ Reading /\ client.settings < MaxSettings /\ v # client.init /\ (split => Split)
    /\ LET delta == IF split THEN 0 ELSE v - h.init IN
       h' = [h EXCEPT !.out = QueueOrderedFrame(@, Control(0, "ack")), !.init = @ + delta, !.delta = delta,
                      !.todo = IF delta = 0 THEN <<>> ELSE SetToSeq({s \in Streams : Live(h, s)}),
                      !.pc = "adjust"]
    /\ client' = [client EXCEPT !.init = v, !.settings = @ + 1,
                                !.stream = [s \in Streams |-> @[s] + v - client.init]]
Adjusted(y, s) == Resumed([y EXCEPT !.st[s].window = @ + y.delta], s)
Adjust ==
    /\ h.pc = "adjust"
    /\ IF h.todo = <<>> THEN h' = [h EXCEPT !.pc = "flush"] /\ UNCHANGED client
       ELSE LET s == Head(h.todo)
                y == [h EXCEPT !.todo = Tail(@)] IN
            Step(IF ~Live(h, s) THEN {y}
                 ELSE IF h.delta > 0 /\ h.st[s].window > MaxWindow - h.delta THEN {TerminateStream(y, s)}
                 ELSE Adjusted(y, s))

(* RST_STREAM.                                                               *)
RstStream(s) ==
    /\ Failures /\ Reading /\ Live(h, s)
    /\ LET y == [h EXCEPT !.pc = "flush", !.st[s].out_closed = TRUE, !.st[s].error = TRUE] IN
       Step({IF y.st[s].pc = "closing" THEN CloseStream(y, s) ELSE Terminate(y, s)})

(* The end of ngx_http_v2_read_handler.                                      *)
ReadEnds ==
    /\ h.pc = "flush"
    /\ Step({[z EXCEPT !.pc = "idle"] : z \in SendOutputQueue(h)})

(* All streams are closed: ngx_http_v2_handle_connection_handler sends what  *)
(* is left.                                                                  *)
LastOutput ==
    /\ h.pc = "idle" /\ h.sock /\ h.out # <<>> /\ \A s \in Streams : ~Live(h, s)
    /\ Step(SendOutputQueue(h))

Client ==
    \/ \E n \in Grants : GrantConn(n) \/ \E s \in Streams : GrantStream(s, n)
    \/ \E v \in Inits, split \in BOOLEAN : Settings(v, split)
Server ==
    \/ RunPosted \/ Wake \/ Adjust \/ ReadEnds \/ LastOutput
    \/ \E s \in Streams : Respond(s)

(* The worker waits for events.                                              *)
Idle == h.pc = "idle" /\ UNCHANGED vars
Next == Client \/ Server \/ Writable \/ Idle \/ \E s \in Streams : Fails(s) \/ RstStream(s)

Spec == Init /\ [][Next]_vars

(* A socket that is writable again takes something sooner or later, and the  *)
(* client, which reads what it was sent, opens the windows again.            *)
SocketTakes == Writable /\ Len(h'.out) < Len(h.out)
WindowOpens == \E n \in Grants : GrantConn(n) \/ \E s \in Streams : GrantStream(s, n)

-----------------------------------------------------------------------------
(* Properties.                                                               *)

Frame ==
    [s : Streams \cup {0}, id : Streams \cup {0}, kind : {"data", "headers", "rst", "ack"},
     from : Nat, len : 0..Chunk, fin : BOOLEAN, blocked : BOOLEAN]

(* The fields have their types: the windows of streams may be negative, that *)
(* of the connection may not.                                                *)
TypeOK ==
    /\ h.pc \in {"idle", "wake", "adjust", "flush"}
    /\ h.window \in Nat /\ h.delta \in Int /\ h.sock \in BOOLEAN
    /\ h.out \in Seq(Frame) /\ h.wire = <<>>
    /\ \A q \in {h.waiting, h.posted, h.todo} : q \in Seq(Streams) /\ IsInjective(q)
    /\ \A s \in Streams :
          /\ h.st[s].pc \in {"new", "open", "closing", "closed"}
          /\ h.st[s].left \in 0..Body[s] /\ h.st[s].window \in Int /\ h.st[s].queued \in Nat
          /\ ~h.st[s].blocked

FramesOf(s) == SelectSeq(h.out, LAMBDA f : f.s = s)
Total(F(_)) == FoldLeft(LAMBDA a, s : a + F(s), 0, SetToSeq(Streams))

(* No window is lost or made up: what the client granted the connection was  *)
(* received, or is in the queue, or is still the connection's, also after    *)
(* streams were reset with frames in the queue.                              *)
ConnWindowKept ==
    h.window + Bytes(h.out) + Total(LAMBDA s : client.got[s].bytes) = client.conn

(* The server and the client agree on the window of every stream in use, if  *)
(* they have seen the same SETTINGS.                                         *)
StreamWindowsAgree ==
    \A s \in Streams :
        h.st[s].pc \in {"new", "open"} /\ ~(h.pc = "adjust" /\ s \in ToSet(h.todo)) =>
            h.st[s].window + Bytes(FramesOf(s)) + client.got[s].bytes = client.stream[s]

(* No stream is forgotten: one that has something to do will be run, has     *)
(* frames that will run it when they are sent, or waits for a window that is *)
(* really closed and whose opening will run it.                              *)
NobodyForgotten ==
    /\ h.pc # "wake" /\ h.waiting # <<>> => h.window = 0
    /\ \A s \in Streams :
          /\ h.st[s].waiting <=> s \in ToSet(h.waiting)
          /\ h.st[s].exhausted /\ h.st[s].pc = "open" => h.st[s].window <= 0
          /\ h.st[s].pc \in {"open", "closing"} =>
                \/ s \in ToSet(h.posted) \cup ToSet(h.waiting)
                \/ h.st[s].queued > 0
                \/ h.st[s].pc = "open" /\ h.st[s].exhausted

(* A frame in the queue belongs to a stream that is not freed, and the       *)
(* stream's counter knows of it.                                             *)
FramesOwned ==
    \A s \in Streams : /\ h.st[s].queued = Len(FramesOf(s))
                       /\ h.st[s].pc = "closed" => h.st[s].queued = 0 /\ s \notin ToSet(h.waiting)

(* The client gets each response from its header on, without a gap and       *)
(* without anything behind its end or its reset, whatever the priorities.    *)
Ordered == \A s \in Streams : ~client.got[s].wrong

=============================================================================
