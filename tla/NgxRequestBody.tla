--------------------------- MODULE NgxRequestBody ---------------------------
(***************************************************************************)
(* Reading, and discarding, the body of a request in the bundled nginx     *)
(* (http/ngx_http_request_body.c): what came with the header, then reads   *)
(* into a buffer that is written to a file when it is full; by length or   *)
(* chunked; and the beginning of the next request, read with the end of a  *)
(* chunked body, handed back.                                              *)
(*                                                                         *)
(* Buffers are windows on memory, because the chains of the body point     *)
(* into the buffers that are read into.  A read returns any number of      *)
(* bytes.  Unbuffered bodies, failing allocations and a recv() that        *)
(* returns 0 or an error, which ends the request, are left out.            *)
(***************************************************************************)
EXTENDS NgxChunked, FiniteSets

CONSTANTS
    Streams,       \* what clients send after the header
    HeaderRoom,    \* what is left of r->header_in after the header
    BodyBuffer,    \* client_body_buffer_size
    LargeSize,     \* large_client_header_buffers.size
    DiscardBuffer, \* NGX_HTTP_DISCARD_BUFFER_SIZE
    MaxBody,       \* client_max_body_size for chunked bodies, 0 for none
    Coalesce       \* the largest chunk that is moved to the one before it

\* A stream: how its body is delimited, its bytes, and what they mean.
StreamsAssumption ==
    \A s \in Streams : s.chunked \in BOOLEAN /\ s.length \in Nat /\ s.bad \in BOOLEAN
                       /\ Len(s.body) + Len(s.next) <= Len(s.bytes)
RoomsAssumption ==
    /\ {HeaderRoom, BodyBuffer, LargeSize, DiscardBuffer} \subseteq Nat \ {0}
    /\ MaxBody \in Nat /\ Coalesce \in Nat

VARIABLES
    s,      \* the stream of this client
    at,     \* bytes of it that were read
    task,   \* is the body wanted ("read") or not ("discard")?
    r       \* the request

vars == <<s, at, task, r>>

Smaller(a, b) == IF a < b THEN a ELSE b
Greater(a, b) == IF a > b THEN a ELSE b

\* F(e), with e evaluated once.
Of(F(_), e) == CHOOSE z \in {F(v) : v \in {e}} : TRUE

-----------------------------------------------------------------------------
(* Windows: mem is the memory, pos the first unread byte, last the first     *)
(* free one, end the first one past the buffer.                              *)

Window(m, size) == [mem |-> m, start |-> 1, pos |-> 1, last |-> 1, end |-> size + 1]
NoWindow == Window("none", 0)
Bytes(y, w) == SubSeq(y.mem[w.mem], w.pos, w.last - 1)
Content(y, ws) == FoldLeft(LAMBDA a, w : a \o Bytes(y, w), <<>>, ws)
Store(mem, from, q) ==
    [i \in DOMAIN mem |-> IF i \in from..(from + Len(q) - 1) THEN q[i - from + 1] ELSE mem[i]]

(* ngx_http_write_request_body.                                              *)
WriteFile(y) ==
    [y EXCEPT !.file = @ \o Content(y, y.bufs), !.filed = TRUE, !.bufs = <<>>]

(* ngx_http_request_body_save_filter: what came is kept where it lies, and   *)
(* written when the buffer it may lie in is full.                            *)
Save(y, out, last) ==
    LET z == [y EXCEPT !.bufs = @ \o out, !.last_saved = @ \/ last] IN
    IF last /\ y.last_saved THEN [z EXCEPT !.st = "alert"]
    ELSE IF z.rest > 0
    THEN IF z.bufs # <<>> /\ z.buf # NoWindow /\ z.buf.last = z.buf.end THEN WriteFile(z) ELSE z
    ELSE IF z.last_saved /\ z.filed THEN WriteFile(z) ELSE z

(* The window a filter is given: "hin", "buf", or none.                      *)
Win(y, which) == IF which = "hin" THEN y.hin ELSE y.buf
Moved(y, which, n) == IF which = "hin" THEN [y EXCEPT !.hin.pos = @ + n] ELSE [y EXCEPT !.buf.pos = @ + n]

(* ngx_http_request_body_length_filter.                                      *)
LengthFilter(y, which) ==
    LET z == IF y.rest = -1 THEN [y EXCEPT !.rest = s.length] ELSE y IN
    IF which = "none" \/ z.rest = 0 THEN Save(z, <<>>, y.rest = -1 /\ z.rest = 0)
    ELSE LET w == Win(z, which)
             n == Smaller(w.last - w.pos, z.rest) IN
         Save([Moved(z, which, n) EXCEPT !.rest = @ - n],
              <<[w EXCEPT !.last = w.pos + n]>>, n = z.rest)

(* One chunk, or piece of one, of ngx_http_request_body_chunked_filter: a    *)
(* small chunk is moved next to the last one found in this buffer. The       *)
(* variant moves it although some of it is still to come.                    *)
TakeChunk_MovesPart(a, which) ==
    LET w == Win(a.y, which)
        size == a.y.x.size
        n == Smaller(w.last - w.pos, size)
        b == Last(a.out)
        y == [Moved(a.y, which, n) EXCEPT !.cl = @ + n, !.x.size = @ - n] IN
    IF a.out # <<>> /\ size <= Coalesce
    THEN [a EXCEPT !.y = [y EXCEPT !.mem[w.mem] =
                              Store(@, b.last, SubSeq(@, w.pos, w.pos + size - 1)), !.x.size = 0],
                   !.out = [@ EXCEPT ![Len(@)].last = @ + size]]
    ELSE [a EXCEPT !.y = y, !.out = Append(@, [w EXCEPT !.last = w.pos + n])]
TakeChunk(a, which) ==
    LET w == Win(a.y, which)
        size == a.y.x.size
        n == Smaller(w.last - w.pos, size)
        b == Last(a.out)
        y == [Moved(a.y, which, n) EXCEPT !.cl = @ + n, !.x.size = @ - n] IN
    IF a.out # <<>> /\ size <= Coalesce /\ w.last - w.pos >= size
    THEN [a EXCEPT !.y = [y EXCEPT !.mem[w.mem] =
                              Store(@, b.last, SubSeq(@, w.pos, w.pos + size - 1))],
                   !.out = [@ EXCEPT ![Len(@)].last = @ + size]]
    ELSE [a EXCEPT !.y = y, !.out = Append(@, [w EXCEPT !.last = w.pos + n])]

(* The loop of ngx_http_request_body_chunked_filter over one buffer.         *)
RECURSIVE Chunks(_, _)
Chunks(a, which) ==
    LET After(p) ==
            LET b == [a EXCEPT !.y = [Moved(a.y, which, p.n) EXCEPT !.x = p.x]]
                Rest(c) == Chunks(c, which) IN
            CASE p.rc = "ok" ->
                   IF MaxBody # 0 /\ MaxBody - a.y.cl < p.x.size THEN [b EXCEPT !.y.st = "too large"]
                   ELSE Of(Rest, TakeChunk(b, which))
              [] p.rc = "done" -> [b EXCEPT !.y.rest = 0, !.last = TRUE]
              [] p.rc = "again" -> [b EXCEPT !.y.rest = Greater(p.x.length, LargeSize)]
              [] p.rc = "error" -> [b EXCEPT !.y.st = "invalid"] IN
    Of(After, ParseChunked(a.y.x, Bytes(a.y, Win(a.y, which))))

ChunkedFilter(y, which) ==
    LET z == IF y.rest = -1 THEN [y EXCEPT !.rest = LargeSize, !.cl = 0] ELSE y IN
    IF which = "none" THEN Save(z, <<>>, FALSE)
    ELSE LET Taken(a) == IF a.y.st # y.st THEN a.y ELSE Save(a.y, a.out, a.last) IN
         Of(Taken, Chunks([y |-> z, out |-> <<>>, last |-> FALSE], which))

BodyFilter(y, which) == IF s.chunked THEN ChunkedFilter(y, which) ELSE LengthFilter(y, which)

(* ngx_http_copy_pipelined_header: what buffer w holds past the body goes to *)
(* r->header_in, or to a large buffer that takes its place.                  *)
CopyPipelined(y, w) ==
    LET q == Bytes(y, w)
        z == IF Len(q) > y.hin.end - y.hin.last
             THEN [y EXCEPT !.hin = Window("large", LargeSize), !.large = TRUE] ELSE y IN
    IF q = <<>> THEN y
    ELSE IF Len(q) > z.hin.end - z.hin.last THEN [z EXCEPT !.st = "alert"]
    ELSE [z EXCEPT !.mem[z.hin.mem] = Store(@, z.hin.last, q), !.hin.last = @ + Len(q)]

-----------------------------------------------------------------------------
Blank(n) == [i \in 1..n |-> "-"]

Init ==
    /\ s \in Streams /\ task \in {"read", "discard"}
    /\ \E p \in 0..HeaderRoom :
         /\ p <= Len(s.bytes) /\ at = p
         /\ r = [st |-> "header",
                 mem |-> [header |-> Store(Blank(HeaderRoom), 1, SubSeq(s.bytes, 1, p)),
                          large |-> Blank(LargeSize), none |-> <<>>,
                          body |-> Blank(BodyBuffer + BodyBuffer \div 4),
                          stack |-> Blank(DiscardBuffer)],
                 hin |-> [Window("header", HeaderRoom) EXCEPT !.last = p + 1], large |-> FALSE,
                 buf |-> NoWindow, bufs |-> <<>>, file |-> <<>>, filed |-> FALSE,
                 rest |-> -1, last_saved |-> FALSE, x |-> NewChunked,
                 cl |-> IF s.chunked THEN -1 ELSE s.length]

Done(y) == IF y.st = "reading" THEN [y EXCEPT !.st = "done"] ELSE y

(* ngx_http_read_client_request_body.                                        *)
Begun(y) ==
    LET size == IF ~s.chunked /\ y.rest < BodyBuffer + BodyBuffer \div 4
                THEN Greater(y.rest, 1) ELSE BodyBuffer IN
    CASE y.st # "reading" -> y
      [] y.rest = 0 /\ y.last_saved -> Done(y)
      [] y.rest < 0 -> [y EXCEPT !.st = "alert"]
      [] OTHER -> [y EXCEPT !.buf = Window("body", size)]
Begin ==
    /\ task = "read" /\ r.st = "header"
    /\ \E y \in {[r EXCEPT !.st = "reading"]}, preread \in {Bytes(r, r.hin) # <<>>} :
       \E z \in {BodyFilter(y, IF preread THEN "hin" ELSE "none")} :
       r' = IF preread /\ z.st = "reading" /\ ~s.chunked /\ z.rest > 0 /\ z.rest <= z.hin.end - z.hin.last
            THEN [z EXCEPT !.buf = [z.hin EXCEPT !.start = z.hin.pos]]
            ELSE Begun(z)
    /\ UNCHANGED <<s, at, task>>

(* One turn of ngx_http_do_read_client_request_body: a full buffer is        *)
(* emptied, then read into, and what was read goes to the filters.           *)
Flushed(y) ==
    IF y.buf.last # y.buf.end THEN y
    ELSE LET z == BodyFilter(y, "none") IN
         IF z.st # "reading" THEN z
         ELSE IF Content(z, z.bufs) # <<>> THEN [z EXCEPT !.st = "alert"]
         ELSE [z EXCEPT !.buf.pos = z.buf.start, !.buf.last = z.buf.start]
Size(y) == Smaller(y.buf.end - y.buf.last, y.rest - (y.buf.last - y.buf.pos))
Read(n) ==
    /\ task = "read" /\ r.st = "reading"
    /\ \E y \in {Flushed(r)} :
         IF y.st # "reading" THEN n = 1 /\ r' = y /\ at' = at
         ELSE /\ n <= Size(y) /\ at + n <= Len(s.bytes)
              /\ at' = at + n
              /\ \E v \in {[y EXCEPT !.mem[y.buf.mem] = Store(@, y.buf.last, SubSeq(s.bytes, at + 1, at + n)),
                                      !.buf.last = @ + n]} :
                 \E z \in {BodyFilter(v, "buf")} :
                   r' = IF z.st = "reading" /\ z.rest = 0 /\ z.last_saved
                        THEN Done(CopyPipelined(z, z.buf)) ELSE z
    /\ UNCHANGED <<s, task>>

(* The loop of ngx_http_discard_request_body_filter over one buffer.         *)
RECURSIVE Skipped(_, _)
Skipped(y, which) ==
    LET After(p) ==
            LET z == [Moved(y, which, p.n) EXCEPT !.x = p.x]
                n == Smaller(Win(z, which).last - Win(z, which).pos, p.x.size)
                Rest(v) == Skipped(v, which) IN
            CASE p.rc = "ok" -> Of(Rest, [Moved(z, which, n) EXCEPT !.x.size = @ - n])
              [] p.rc = "done" -> [z EXCEPT !.cl = 0]
              [] p.rc = "again" -> [z EXCEPT !.cl = Greater(p.x.length, LargeSize)]
              [] p.rc = "error" -> [z EXCEPT !.st = "invalid"] IN
    Of(After, ParseChunked(y.x, Bytes(y, Win(y, which))))
DiscardFilter(y, which) ==
    LET w == Win(y, which)
        n == Smaller(w.last - w.pos, y.cl) IN
    IF s.chunked THEN Skipped(y, which) ELSE [Moved(y, which, n) EXCEPT !.cl = @ - n]

(* ngx_http_discard_request_body.                                            *)
BeginDiscard ==
    /\ task = "discard" /\ r.st = "header"
    /\ \E y \in {[r EXCEPT !.st = "reading"]} :
       \E z \in {IF Bytes(r, r.hin) # <<>> \/ s.chunked THEN DiscardFilter(y, "hin") ELSE y} :
       r' = IF (y.cl <= 0 /\ ~s.chunked) \/ z.cl = 0 THEN Done(z) ELSE z
    /\ UNCHANGED <<s, at, task>>

(* One turn of ngx_http_read_discarded_request_body.                         *)
Discard(n) ==
    /\ task = "discard" /\ r.st = "reading"
    /\ n <= Smaller(r.cl, DiscardBuffer) /\ at + n <= Len(s.bytes)
    /\ at' = at + n
    /\ \E v \in {[r EXCEPT !.buf = [Window("stack", DiscardBuffer) EXCEPT !.last = n + 1],
                           !.mem.stack = Store(@, 1, SubSeq(s.bytes, at + 1, at + n))]} :
       \E y \in {DiscardFilter(v, "buf")} :
       r' = IF y.st = "reading" /\ y.cl = 0 THEN Done(CopyPipelined(y, y.buf)) ELSE y
    /\ UNCHANGED <<s, task>>

Over == r.st \notin {"header", "reading"} /\ UNCHANGED vars

Next ==
    \/ Begin \/ BeginDiscard \/ Over
    \/ \E n \in 1..Greater(BodyBuffer + BodyBuffer \div 4, HeaderRoom) : Read(n)
    \/ \E n \in 1..DiscardBuffer : Discard(n)

Spec == Init /\ [][Next]_vars

-----------------------------------------------------------------------------
(* Type invariant of the request body reader: its state, the bytes it counts *)
(* and the buffers it keeps.                                                 *)
TypeOK ==
    /\ r.st \in {"header", "reading", "done", "invalid", "too large", "alert"}
    /\ at \in 0..Len(s.bytes) /\ r.rest \in -1..MaxOff /\ r.cl \in -1..MaxOff
    /\ \A w \in {r.hin, r.buf} :
         w.start <= w.pos /\ w.pos <= w.last /\ w.last <= w.end /\ w.end <= Len(r.mem[w.mem]) + 1

(* Where the body is kept: in the file, or in the buffers.                   *)
Kept(y) == y.file \o Content(y, y.bufs)

(* The handler is given the body the client sent, in order and once,         *)
(* whatever the reads returned and whatever went through the file.  While it *)
(* is read, what is kept is a beginning of it: nothing that the chains point *)
(* to is overwritten.                                                        *)
BodyExact ==
    task = "read" =>
        /\ r.st = "done" => Kept(r) = s.body
        /\ r.st = "reading" => IsPrefix(Kept(r), s.body)

(* What follows the body is left for the next request: in r->header_in, then *)
(* in the socket.                                                            *)
NextIntact ==
    r.st = "done" => Bytes(r, r.hin) \o SubSeq(s.bytes, at + 1, Len(s.bytes)) = s.next

(* None of the conditions the code logs as alerts comes about: a next        *)
(* request too large for any buffer, busy buffers after a flush, a negative  *)
(* rest, a second last buffer.                                               *)
NoAlert == r.st # "alert"

(* A body is refused exactly when it is malformed, or longer than allowed.   *)
RefusedRightly ==
    /\ r.st = "invalid" => s.bad
    /\ r.st = "too large" => MaxBody # 0 /\ Len(s.body) > MaxBody
    /\ r.st = "done" => ~s.bad /\ (task = "discard" \/ ~s.chunked \/ MaxBody = 0 \/ Len(s.body) <= MaxBody)

(* It waits for nothing that does not come: while it reads, a part of the    *)
(* body is still to be read, and there is room to read it.                   *)
NeverStuck ==
    r.st = "reading" =>
        /\ s.bad \/ at < Len(s.bytes) - Len(s.next)
        /\ (IF task = "read" THEN Size(Flushed(r)) ELSE Smaller(r.cl, DiscardBuffer)) > 0
=============================================================================
