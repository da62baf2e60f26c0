--------------------------- MODULE MCConnections ---------------------------
(* What serves a client's connection, side by side for TLC: the event loop   *)
(* with its timers, a connection with its requests, their bodies and         *)
(* subrequests, and HTTP/2. The parts have no variable in common, so a       *)
(* behaviour is of one of them.                                              *)
EXTENDS Integers, SequencesExt, TLC

CONSTANTS Slots, Listens  \* of NgxEvents

VARIABLES part,  \* which of the parts below this behaviour is of
          w, phase, batch, mutex, held, seen,  \* NgxEvents
          tree, in, now, step, want,  \* NgxTimers
          rbtree, inserted,  \* NgxRbtree
          c, sent, answered, exiting,  \* NgxHttpConn
          stream, at, task, r,  \* NgxRequestBody
          doc, s, cur,  \* NgxSubrequests
          h, client,  \* NgxHttp2
          t, ref, calls  \* NgxHpackTable

\* The value of the variables of the parts that are not there.
Off == "off"

\* The order of slots and of listening sockets is of no concern.
Symmetric == Permutations(Slots) \cup Permutations(Listens)

\* Keys of timers that wrap, two of them the same.
Wrapping == [n \in 1..7 |-> {(12 + (IF n < 4 THEN n ELSE n - 1)) % 16}]

\* What may happen to a connection.
Faults == {"fin", "rst", "timeout", "quit", "drain"}

(* Requests: pipelined ones that share buffers and need large ones; the same *)
(* with the connection kept to the end; one whose header is too long, before *)
(* one that is not; one with a bad header line, before one that is good.     *)
Req(blank, units, keep, bad) == [blank |-> blank, units |-> units, keep |-> keep, bad |-> bad]
Pipelined == <<Req(0, <<2, 2, 1>>, TRUE, 0), Req(1, <<2, 1>>, TRUE, 0), Req(0, <<1, 1>>, FALSE, 0)>>
KeptAlive == <<Req(0, <<2, 2, 1>>, TRUE, 0), Req(2, <<2, 1>>, TRUE, 0), Req(0, <<1, 1>>, TRUE, 0)>>
TooLong == <<Req(0, <<1, 1>>, TRUE, 0), Req(0, <<2, 2, 2, 3, 1>>, TRUE, 0), Req(0, <<1, 1>>, TRUE, 0)>>
Bad == <<Req(1, <<1, 2, 1>>, TRUE, 0), Req(0, <<1, 2, 1>>, TRUE, 2), Req(0, <<1, 1>>, TRUE, 0)>>

(* Bodies: by length, and in chunks as senders write them (with line ends    *)
(* nl, extensions ext and a trailer), some with bytes that look like chunk   *)
(* headers, each with the beginning of the next request.                     *)
Flat(q) == FoldLeft(LAMBDA a, b : a \o b, <<>>, q)
NextRequest == <<"g", "h">>
Hexadecimal == <<"0", "1", "2", "3", "4", "5">>
CR == <<"cr", "lf">>
LF == <<"lf">>

ByLength(body) ==
    [chunked |-> FALSE, length |-> Len(body), body |-> body, next |-> NextRequest, bad |-> FALSE,
     bytes |-> body \o NextRequest]

InChunks(chunks, nl, ext, trailer) ==
    [chunked |-> TRUE, length |-> 0, body |-> Flat(chunks), next |-> NextRequest, bad |-> FALSE,
     bytes |-> Flat([i \in DOMAIN chunks |->
                        <<Hexadecimal[Len(chunks[i]) + 1]>> \o ext \o nl \o chunks[i] \o nl])
               \o <<"0">> \o ext \o nl \o trailer \o nl \o NextRequest]

Spoiled == {[InChunks(<<<<"x", "y">>, <<"z">>>>, LF, <<>>, <<>>) EXCEPT !.bad = TRUE,
                 !.bytes = [@ EXCEPT ![i] = "?"]] : i \in {1, 2, 5, 6}}

Bodies == Spoiled \cup {
    ByLength(<<>>), ByLength(<<"x">>), ByLength(<<"x", "lf", "y", "z", "0">>),
    InChunks(<<>>, CR, <<>>, <<>>),
    InChunks(<<<<"x">>, <<"y", "z">>>>, LF, <<>>, <<>>),
    InChunks(<<<<"x">>, <<"y">>, <<"z", "x", "y", "z", "x">>>>, LF, <<>>, <<>>),
    InChunks(<<<<"0", "lf">>, <<"lf">>, <<"x", "y", "z", "x">>>>, CR, <<";", "1">>, <<"1", "cr", "lf">>),
    InChunks(<<<<"x", "y", "z", "x", "y">>>>, LF, <<>>, <<"t", "lf">>)}

(* Trees of subrequests: 2 and 3 below the main request, 4 below 2, with and *)
(* without output around them.                                               *)
Docs == {<<m, a, b, e>> : m \in {<<0, 2, 0, 3>>, <<2, 3>>}, a \in {<<0, 4, 0>>, <<4, 0>>, <<0, 4>>},
                          b \in {<<0>>, <<>>}, e \in {<<0>>, <<>>}}

-----------------------------------------------------------------------------
E == INSTANCE NgxEvents WITH Slots <- Slots, Listens <- Listens, MaxConns <- 4

T == INSTANCE NgxTimers WITH
    N <- 3, Width <- 12, KeysOf <- [n \in 1..3 |-> {}], Delays <- {2}, Lazy <- 2,
    Late <- 1, MaxWait <- 2, Cancelable <- {1}, phase <- step
TM == INSTANCE NgxTimers WITH
    N <- 2, Width <- 14, KeysOf <- [n \in 1..2 |-> {}], Delays <- {1, 3}, Lazy <- 2,
    Late <- 1, MaxWait <- 2, Cancelable <- {1}, phase <- step

RT == INSTANCE NgxRbtree WITH
    N <- 7, Width <- 16, KeysOf <- Wrapping, tree <- rbtree, in <- inserted

HP == INSTANCE NgxHttpConn WITH
    Requests <- Pipelined, HeaderBuffer <- 3, LargeSize <- 4, LargeNum <- 2,
    InPool <- FALSE, KeepaliveRequests <- 5, Faults <- Faults
HK == INSTANCE NgxHttpConn WITH
    Requests <- KeptAlive, HeaderBuffer <- 3, LargeSize <- 4, LargeNum <- 2,
    InPool <- TRUE, KeepaliveRequests <- 3, Faults <- Faults
HL == INSTANCE NgxHttpConn WITH
    Requests <- TooLong, HeaderBuffer <- 3, LargeSize <- 3, LargeNum <- 1,
    InPool <- FALSE, KeepaliveRequests <- 5, Faults <- Faults
HB == INSTANCE NgxHttpConn WITH
    Requests <- Bad, HeaderBuffer <- 3, LargeSize <- 4, LargeNum <- 2,
    InPool <- TRUE, KeepaliveRequests <- 5, Faults <- Faults

RB == INSTANCE NgxRequestBody WITH
    MaxOff <- 255, Streams <- Bodies, HeaderRoom <- 5, BodyBuffer <- 8,
    LargeSize <- 5, DiscardBuffer <- 4, MaxBody <- 6, Coalesce <- 2, s <- stream

SR == INSTANCE NgxSubrequests WITH Docs <- Docs

H2 == INSTANCE NgxHttp2 WITH
    Body <- <<3, 2>>, Prio <- <<1, 2>>, Chunk <- 2, ConnWindow <- 2,
    InitWindow <- 2, MaxWindow <- 9, Grants <- {1, 2}, ConnMax <- 5, StreamMax <- 4,
    Inits <- {0, 2, 3}, MaxSettings <- 1, Split <- FALSE, Failures <- FALSE
HF == INSTANCE NgxHttp2 WITH
    Body <- <<2, 2>>, Prio <- <<1, 1>>, Chunk <- 2, ConnWindow <- 2,
    InitWindow <- 2, MaxWindow <- 4, Grants <- {2}, ConnMax <- 6, StreamMax <- 5,
    Inits <- {3}, MaxSettings <- 1, Split <- FALSE, Failures <- TRUE

HT == INSTANCE NgxHpackTable WITH
    TableSize <- 8, Overhead <- 2, Grow <- 2,
    Strings <- {<<>>, <<"a">>, <<"b", "c", "d">>}, Sizes <- {0, 4, 8}, MaxAdds <- 5,
    MaxUpdates <- 1

ASSUME Assumptions ==
    /\ E!SlotsAssumption
    /\ T!RbtreeAssumption /\ T!TimersAssumption /\ TM!RbtreeAssumption
       /\ TM!TimersAssumption
    /\ RT!RbtreeAssumption
    /\ HP!RequestsAssumption /\ HP!SizesAssumption /\ HK!RequestsAssumption
       /\ HK!SizesAssumption /\ HL!RequestsAssumption /\ HL!SizesAssumption
       /\ HB!RequestsAssumption /\ HB!SizesAssumption
    /\ RB!MaxOffAssumption /\ RB!StreamsAssumption /\ RB!RoomsAssumption
    /\ SR!DocsAssumption
    /\ H2!ConstantsAssumption /\ HF!ConstantsAssumption
    /\ HT!ConstantsAssumption

-----------------------------------------------------------------------------
EventsVars == <<w, phase, batch, mutex, held, seen>>
TimersVars == <<tree, in, now, step, want>>
TreeVars == <<rbtree, inserted>>
HttpVars == <<c, sent, answered, exiting>>
BodyVars == <<stream, at, task, r>>
SubVars == <<doc, s, cur>>
H2Vars == <<h, client>>
HpackVars == <<t, ref, calls>>

NoEvents == w = Off /\ phase = Off /\ batch = Off /\ mutex = Off /\ held = Off /\
            seen = Off
NoTimers == tree = Off /\ in = Off /\ now = Off /\ step = Off /\ want = Off
NoTree == rbtree = Off /\ inserted = Off
NoHttp == c = Off /\ sent = Off /\ answered = Off /\ exiting = Off
NoBody == stream = Off /\ at = Off /\ task = Off /\ r = Off
NoSub == doc = Off /\ s = Off /\ cur = Off
NoH2 == h = Off /\ client = Off
NoHpack == t = Off /\ ref = Off /\ calls = Off

Init ==
    \/ /\ part = "events" /\ E!Init
       /\ NoTimers /\ NoTree /\ NoHttp /\ NoBody /\ NoSub /\ NoH2 /\ NoHpack
    \/ /\ \/ part = "timers" /\ T!Init
          \/ part = "timers moved" /\ TM!Init
       /\ NoEvents /\ NoTree /\ NoHttp /\ NoBody /\ NoSub /\ NoH2 /\ NoHpack
    \/ /\ part = "rbtree" /\ RT!RbInit
       /\ NoEvents /\ NoTimers /\ NoHttp /\ NoBody /\ NoSub /\ NoH2 /\ NoHpack
    \/ /\ \/ part = "http pipelined" /\ HP!Init
          \/ part = "http in pool" /\ HK!Init
          \/ part = "http too long" /\ HL!Init
          \/ part = "http bad" /\ HB!Init
       /\ NoEvents /\ NoTimers /\ NoTree /\ NoBody /\ NoSub /\ NoH2 /\ NoHpack
    \/ /\ part = "body" /\ RB!Init
       /\ NoEvents /\ NoTimers /\ NoTree /\ NoHttp /\ NoSub /\ NoH2 /\ NoHpack
    \/ /\ part = "subrequests" /\ SR!Init
       /\ NoEvents /\ NoTimers /\ NoTree /\ NoHttp /\ NoBody /\ NoH2 /\ NoHpack
    \/ /\ \/ part = "http2" /\ H2!Init
          \/ part = "http2 fails" /\ HF!Init
       /\ NoEvents /\ NoTimers /\ NoTree /\ NoHttp /\ NoBody /\ NoSub /\ NoHpack
    \/ /\ part = "hpack" /\ HT!Init
       /\ NoEvents /\ NoTimers /\ NoTree /\ NoHttp /\ NoBody /\ NoSub /\ NoH2

Next ==
    \/ /\ part = "events" /\ E!Next
       /\ UNCHANGED <<part, TimersVars, TreeVars, HttpVars, BodyVars, SubVars,
          H2Vars, HpackVars>>
    \/ /\ \/ part = "timers" /\ T!Next
          \/ part = "timers moved" /\ TM!Next
       /\ UNCHANGED <<part, EventsVars, TreeVars, HttpVars, BodyVars, SubVars,
          H2Vars, HpackVars>>
    \/ /\ part = "rbtree" /\ RT!RbNext
       /\ UNCHANGED <<part, EventsVars, TimersVars, HttpVars, BodyVars, SubVars,
          H2Vars, HpackVars>>
    \/ /\ \/ part = "http pipelined" /\ HP!Next
          \/ part = "http in pool" /\ HK!Next
          \/ part = "http too long" /\ HL!Next
          \/ part = "http bad" /\ HB!Next
       /\ UNCHANGED <<part, EventsVars, TimersVars, TreeVars, BodyVars, SubVars,
          H2Vars, HpackVars>>
    \/ /\ part = "body" /\ RB!Next
       /\ UNCHANGED <<part, EventsVars, TimersVars, TreeVars, HttpVars, SubVars,
          H2Vars, HpackVars>>
    \/ /\ part = "subrequests" /\ SR!Next
       /\ UNCHANGED <<part, EventsVars, TimersVars, TreeVars, HttpVars,
          BodyVars, H2Vars, HpackVars>>
    \/ /\ \/ part = "http2" /\ H2!Next
          \/ part = "http2 fails" /\ HF!Next
       /\ UNCHANGED <<part, EventsVars, TimersVars, TreeVars, HttpVars,
          BodyVars, SubVars, HpackVars>>
    \/ /\ part = "hpack" /\ HT!Next
       /\ UNCHANGED <<part, EventsVars, TimersVars, TreeVars, HttpVars,
          BodyVars, SubVars, H2Vars>>

vars == <<part, EventsVars, TimersVars, TreeVars, HttpVars, BodyVars, SubVars, H2Vars, HpackVars>>
Spec == Init /\ [][Next]_vars

-----------------------------------------------------------------------------
(* The event loop of a worker: its lists of connections and of posted events *)
(* agree with the connections through every way to close one, a stale event  *)
(* of a round does not reach the connection that took the slot, and no       *)
(* client is refused while an idle connection could make room; timers expire *)
(* on time and the wait is to the nearest one, also when the clock wraps;    *)
(* their tree stays a sorted red-black tree.                                 *)
EventLoopSound ==
    /\ part = "events" => E!TypeOK /\ E!ListsExact /\ E!PostedOpen /\ E!StaleSkipped /\ E!DrainMakesRoom
    /\ part = "timers" => T!TypeOK /\ T!OnTime /\ T!NotEarly /\ T!WaitsForNearest /\ T!ExitSeesAll
    /\ part = "timers moved" => TM!OnTime /\ TM!NotEarly /\ TM!WaitsForNearest
    /\ part = "rbtree" => RT!RbTypeOK /\ RT!RedBlack /\ RT!Sorted /\ RT!VisitsAll

(* A connection with pipelined requests: no byte is lost or read twice while *)
(* buffers are freed, exchanged and handed on, no read goes past a buffer,   *)
(* a connection that waits will be woken, and only idle ones are closed to   *)
(* make room.                                                                *)
HttpConnSound ==
    /\ part = "http pipelined" =>
          /\ HP!TypeOK /\ HP!NothingLost /\ HP!Woken /\ HP!OnlyIdleReused /\ HP!NoOverflow
          /\ HP!LargeBounded /\ HP!StatsExact /\ HP!QuitCloses
    /\ part = "http in pool" => HK!NothingLost /\ HK!NoOverflow /\ HK!QuitCloses
    /\ part = "http too long" => HL!Woken /\ HL!NoOverflow /\ HL!LargeBounded
    /\ part = "http bad" => HB!NothingLost /\ HB!Woken /\ HB!StatsExact

(* A request body: it is kept whole, once and in order, or refused for a     *)
(* reason; what follows it is left for the next request, and the reader      *)
(* never waits for bytes that do not come.                                   *)
BodySound ==
    part = "body" => /\ RB!TypeOK /\ RB!BodyExact /\ RB!NextIntact
                     /\ RB!NoAlert /\ RB!RefusedRightly /\ RB!NeverStuck

(* Subrequests: the client gets the pieces in the order of the document, the *)
(* count keeps the request's memory as long as it is used, and all is sent   *)
(* at the end.                                                               *)
SubrequestsSound ==
    part = "subrequests" =>
        SR!TypeOK /\ SR!InOrder /\ SR!CountExact /\ SR!NoAlert /\ SR!CompleteAtEnd

(* HTTP/2: client and server agree on all windows, no stream is forgotten,   *)
(* frames are in order and belong to streams that are not freed; the dynamic *)
(* table decodes what the client's table holds.                              *)
Http2Sound ==
    /\ part = "http2" => H2!TypeOK /\ H2!StreamWindowsAgree /\ H2!NobodyForgotten /\ H2!Ordered
    /\ part = "http2 fails" => HF!ConnWindowKept /\ HF!NobodyForgotten /\ HF!FramesOwned /\ HF!Ordered
    /\ part = "hpack" => HT!TypeOK /\ HT!Decodes /\ HT!RoomExact /\ HT!OwnEntries
=============================================================================
