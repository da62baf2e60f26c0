---------------------------- MODULE NgxEventPipe ----------------------------
(***************************************************************************)
(* The event pipe of the bundled nginx (event/ngx_event_pipe.c) as the     *)
(* upstream module drives it (http/ngx_http_upstream.c): a response is     *)
(* read into a fixed number of raw buffers, passed to the client from      *)
(* there or through a temporary file, and the buffers are read into again  *)
(* when what they hold is gone.                                            *)
(*                                                                         *)
(* The input filter is the copying one, so that a raw buffer has one       *)
(* shadow.  Left out: rate and chunk limits, threads, cyclic temporary     *)
(* files (proxy disables them), failing allocations and disk errors.       *)
(***************************************************************************)
EXTENDS Integers, Sequences, FiniteSets, SequencesExt

CONSTANTS
    Total,     \* bytes the upstream server sends before it closes
    Length,    \* p->length: what Content-Length said, or -1
    Size,      \* of a buffer
    Num,       \* p->bufs.num
    Header,    \* bytes of the header, at the beginning of the first buffer
    BusySize, MaxTempFile, TempWrite, Postpone,
    Cacheable

\* What ngx_http_proxy_merge_loc_conf demands, with one size for all buffers.
ConfAssumption ==
    /\ Total \in Nat /\ Length \in Nat \cup {-1} /\ Size \in Nat \ {0} /\ Num >= 2
    /\ Header \in 0..(Size - 1) /\ Postpone \in Nat /\ Cacheable \in BOOLEAN
    /\ BusySize >= Size /\ BusySize <= (Num - 1) * Size
    /\ TempWrite >= Size /\ (MaxTempFile = 0 \/ MaxTempFile >= Size)

VARIABLES
    p,      \* the pipe, and the client's connection behind it
    up,     \* the upstream connection: bytes arrived and read, events
    sent    \* what the client was sent

vars == <<p, up, sent>>

Raws == 1..(Num + 1)   \* 1 is u->buffer, which held the header

Smaller(a, b) == IF a < b THEN a ELSE b

(* How much of k bytes is the share of a buffer that holds or has room for   *)
(* n, after others for b bytes.                                              *)
Share(k, b, n) == IF k <= b THEN 0 ELSE Smaller(k - b, n)

-----------------------------------------------------------------------------
(* Windows: parts of a raw buffer, or of the file (raw = 0).                 *)

Held(y, i) == y.win[i].last - y.win[i].pos
Bytes(y, i) ==
    LET w == y.win[i] IN SubSeq(IF w.raw = 0 THEN y.file ELSE y.mem[w.raw], w.pos, w.last - 1)
Content(y, q) == FoldLeft(LAMBDA a, i : a \o Bytes(y, i), <<>>, q)
Amount(y, q) == FoldLeft(LAMBDA a, i : a + Held(y, i), 0, q)
InUse(y) == ToSet(y.in) \cup ToSet(y.out) \cup ToSet(y.busy) \cup ToSet(y.queue)
FreeWindow(y) == CHOOSE i \in DOMAIN y.win : i \notin InUse(y) /\ \A j \in 1..(i - 1) : j \in InUse(y)

(* ngx_event_pipe_add_free_buf.                                              *)
AddFreeBuf(y, r) ==
    LET from == IF y.btf /\ r = 1 THEN Header + 1 ELSE 1
        z == [y EXCEPT !.raw[r] = [pos |-> from, last |-> from]]
        f == y.free IN
    IF f = <<>> \/ z.raw[Head(f)].pos = z.raw[Head(f)].last
    THEN [z EXCEPT !.free = <<r>> \o f]
    ELSE [z EXCEPT !.free = <<Head(f), r>> \o Tail(f)]

RawsOf(y, q) == SelectSeq([i \in DOMAIN q |-> y.win[q[i]].raw], LAMBDA r : r # 0)

(* ngx_event_pipe_copy_input_filter on raw buffer r.                         *)
InputFilter(y, r) ==
    LET b == y.raw[r]
        i == FreeWindow(y)
        n == b.last - b.pos
        w == [raw |-> r, pos |-> b.pos, last |-> b.last, recycled |-> TRUE]
        z == [y EXCEPT !.win[i] = w, !.in = Append(@, i)] IN
    IF n = 0 \/ y.done THEN y
    ELSE IF y.length = 0 THEN [y EXCEPT !.done = TRUE]
    ELSE IF y.length = -1 THEN z
    ELSE IF n > y.length THEN [z EXCEPT !.win[i].last = b.pos + y.length, !.done = TRUE]
    ELSE [z EXCEPT !.length = @ - n]

(* ngx_event_pipe_write_chain_to_temp_file: as much of p->in as may be       *)
(* written becomes a window of the file, and its buffers are free. "busy" if *)
(* that is nothing.                                                          *)
Writable(y) ==
    IF Cacheable THEN Len(y.in)
    ELSE CHOOSE m \in 0..Len(y.in) :
           LET Fits(j) == LET n == Amount(y, SubSeq(y.in, 1, j)) IN
                          n <= TempWrite /\ Len(y.file) + n <= MaxTempFile IN
           Fits(m) /\ (m = Len(y.in) \/ ~Fits(m + 1))

(* p->temp_file->offset, past the header of a cache file.                    *)
Offset(y, header) == Len(y.file) + Len(header)
TempFile(y) ==
    LET m == Writable(y)
        part == SubSeq(y.in, 1, m)
        raws == RawsOf(y, part)
        header == IF y.btf THEN SubSeq(y.mem[1], 1, Header) ELSE <<>>
        offset == Offset(y, header)
        z == [y EXCEPT !.file = @ \o header \o Content(y, part), !.btf = FALSE,
                       !.in = SubSeq(@, m + 1, Len(@)), !.free = @ \o raws,
                       !.raw = [r \in Raws |-> IF r \in ToSet(raws) THEN [pos |-> 1, last |-> 1] ELSE @[r]]]
        i == FreeWindow(z)
        n == Amount(y, part) IN
    IF n = 0 THEN z
    ELSE IF y.out # <<>> /\ y.win[Last(y.out)].last = offset + 1
    THEN [z EXCEPT !.win[Last(y.out)].last = @ + n]
    ELSE [z EXCEPT !.out = Append(@, i),
                   !.win[i] = [raw |-> 0, pos |-> offset + 1, last |-> offset + n + 1, recycled |-> FALSE]]

-----------------------------------------------------------------------------
(* The client: ngx_http_write_filter and the socket behind it.               *)

(* Chain q joins what is queued, and k bytes of that are sent; less than all *)
(* of it fills the socket.  Small amounts wait for more.                     *)
Postponed(y, q) ==
    /\ q # <<>> /\ Amount(y, y.queue \o q) < Postpone
    /\ \A i \in ToSet(y.queue \o q) : ~y.win[i].recycled
Sent(y, k) ==
    LET q == y.queue
        Before(j) == Amount(y, SubSeq(q, 1, j - 1))
        Took(j) == Share(k, Before(j), Held(y, q[j])) IN
    [y EXCEPT !.ready = k = Amount(y, q),
              !.win = [i \in DOMAIN y.win |->
                          IF \E j \in DOMAIN q : q[j] = i
                          THEN [@[i] EXCEPT !.pos = @ + Took(CHOOSE j \in DOMAIN q : q[j] = i)] ELSE @[i]],
              !.queue = SelectSeq(q, LAMBDA i : Before(CHOOSE j \in DOMAIN q : q[j] = i) + Held(y, i) > k)]
Queued(y, q) == [y EXCEPT !.queue = @ \o q]

(* p->output_filter(q): the client's connection after it, and what it took.  *)
OutputFilter(y, q) ==
    IF Postponed(y, q) \/ ~y.ready THEN {[y |-> Queued(y, q), took |-> <<>>]}
    ELSE UNION {{[y |-> Sent(z, k), took |-> SubSeq(Content(z, z.queue), 1, k)] : k \in 0..Amount(z, z.queue)} :
                z \in {Queued(y, q)}}

-----------------------------------------------------------------------------
Blank == [i \in 1..Size |-> 0]

Init ==
    /\ up \in {[arrived |-> n, read |-> n, event |-> FALSE, ready |-> TRUE, closed |-> FALSE] :
                 n \in 0..Smaller(Total, Size - Header)}
    /\ sent = <<>>
    /\ p = [pc |-> "read", read |-> FALSE, blocked |-> FALSE, preread |-> TRUE,
            eof |-> FALSE, error |-> FALSE, done |-> FALSE, length |-> Length,
            derror |-> FALSE, ddone |-> FALSE, final |-> "none",
            free |-> <<>>, allocated |-> 0,
            raw |-> [r \in Raws |-> IF r = 1 THEN [pos |-> Header + 1, last |-> Header + 1]
                                             ELSE [pos |-> 1, last |-> 1]],
            mem |-> [r \in Raws |-> IF r = 1 THEN [i \in 1..Size |-> IF i - Header \in 1..up.read THEN i - Header ELSE 0]
                                             ELSE Blank],
            btf |-> Cacheable, file |-> <<>>,
            win |-> [i \in 1..(2 * Num + 2) |-> [raw |-> 0, pos |-> 1, last |-> 1, recycled |-> FALSE]],
            in |-> <<>>, out |-> <<>>, busy |-> <<>>, queue |-> <<>>, ready |-> TRUE]

Finished(y) == y.eof \/ y.error \/ y.done

(* The upstream server sends, and closes when it has sent all.               *)
Arrive(n) ==
    /\ up.arrived + n <= Total /\ ~up.closed
    /\ up' = [up EXCEPT !.arrived = @ + n, !.event = TRUE]
    /\ UNCHANGED <<p, sent>>
UpstreamCloses ==
    /\ up.arrived = Total /\ ~up.closed
    /\ up' = [up EXCEPT !.closed = TRUE, !.event = TRUE]
    /\ UNCHANGED <<p, sent>>

(* ngx_http_upstream_process_upstream and _downstream enter the pipe.        *)
UpstreamEvent ==
    /\ p.pc = "idle" /\ up.event
    /\ up' = [up EXCEPT !.event = FALSE, !.ready = TRUE]
    /\ p' = [p EXCEPT !.pc = "read", !.read = FALSE, !.blocked = FALSE]
    /\ UNCHANGED sent
DownstreamEvent ==
    /\ p.pc = "idle" /\ ~p.ready /\ ~p.derror
    /\ p' = [p EXCEPT !.pc = "write", !.ready = TRUE]
    /\ UNCHANGED <<up, sent>>

(* Where what was read lies: buffers of chain q filled in turn.              *)
Rooms(y, q) == FoldLeft(LAMBDA a, r : a + Size + 1 - y.raw[r].last, 0, q)
Filled(y, q, n, bytes) ==
    LET Before(j) == Rooms(y, SubSeq(q, 1, j - 1))
        Room(j) == Size + 1 - y.raw[q[j]].last
        Took(j) == Share(n, Before(j), Room(j))
        At(r) == CHOOSE j \in DOMAIN q : q[j] = r
        full == {j \in DOMAIN q : Before(j) + Room(j) <= n}
        z == [y EXCEPT
                !.raw = [r \in Raws |-> IF r \in ToSet(q) THEN [@[r] EXCEPT !.last = @ + Took(At(r))] ELSE @[r]],
                !.mem = [r \in Raws |->
                           IF r \in ToSet(q)
                           THEN [i \in 1..Size |-> IF i - y.raw[r].last \in 0..(Took(At(r)) - 1)
                                                   THEN bytes[Before(At(r)) + i - y.raw[r].last + 1] ELSE @[r][i]]
                           ELSE @[r]]] IN
    FoldLeft(InputFilter, [z EXCEPT !.free = SubSeq(q, Cardinality(full) + 1, Len(q))],
             SubSeq(q, 1, Cardinality(full)))

(* p->read: there is something to write.                                     *)
Got(y) == [y EXCEPT !.read = TRUE]

(* The chain to read into, and the pipe without it.  "blocked": the client   *)
(* has to take something first; "none": there is nothing to read into.       *)
AllFree(y) == [y |-> [y EXCEPT !.free = <<>>], q |-> y.free, rc |-> "ok"]
Chain(y) ==
    IF y.free # <<>> THEN AllFree(y)
    ELSE IF y.allocated < Num
    THEN [y |-> [y EXCEPT !.allocated = @ + 1], q |-> <<y.allocated + 2>>, rc |-> "ok"]
    ELSE IF ~Cacheable /\ y.ready THEN [y |-> [y EXCEPT !.blocked = TRUE], q |-> <<>>, rc |-> "blocked"]
    ELSE IF Cacheable \/ Len(y.file) < MaxTempFile
    THEN IF y.in = <<>> THEN [y |-> [y EXCEPT !.final = "crash"], q |-> <<>>, rc |-> "none"]
         ELSE IF Writable(y) = 0 /\ ~Cacheable THEN [y |-> y, q |-> <<>>, rc |-> "none"]
         ELSE AllFree(TempFile(y))
    ELSE [y |-> y, q |-> <<>>, rc |-> "none"]

(* One turn of the loop of ngx_event_pipe_read_upstream.  recv_chain takes   *)
(* what has arrived, as far as there is room, and leaves the connection      *)
(* ready if it filled all of it or knows of the end.                         *)
Preread ==
    /\ p.pc = "read" /\ ~Finished(p) /\ p.preread
    /\ p' = LET n == up.read IN
            [Filled(p, <<1>>, n, SubSeq(p.mem[1], Header + 1, Header + n))
             EXCEPT !.preread = FALSE, !.read = @ \/ n > 0]
    /\ UNCHANGED <<up, sent>>
Recv ==
    /\ p.pc = "read" /\ ~Finished(p) /\ ~p.preread /\ up.ready
    /\ \E c \in {Chain(p)}, there \in {up.arrived - up.read} : \E n \in {Smaller(there, Rooms(c.y, c.q))} :
       IF c.rc # "ok" THEN p' = [c.y EXCEPT !.pc = "read end"] /\ UNCHANGED up
       ELSE IF there = 0
       THEN IF up.closed THEN p' = [c.y EXCEPT !.free = c.q, !.eof = TRUE, !.read = TRUE] /\ UNCHANGED up
            ELSE p' = [c.y EXCEPT !.free = c.q, !.pc = "read end"] /\ up' = [up EXCEPT !.ready = FALSE]
       ELSE /\ \E y \in {Filled(c.y, c.q, n, [i \in 1..n |-> up.read + i])} : p' = Got(y)
            /\ up' = [up EXCEPT !.read = @ + n, !.ready = n = Rooms(c.y, c.q) \/ up.closed]
    /\ UNCHANGED sent
RecvFails ==
    /\ p.pc = "read" /\ ~Finished(p) /\ ~p.preread /\ up.ready
    /\ \E c \in {Chain(p)} : c.rc = "ok" /\ p' = [c.y EXCEPT !.free = c.q, !.error = TRUE]
    /\ UNCHANGED <<up, sent>>
ReadStops ==
    /\ p.pc = "read" /\ (Finished(p) \/ (~p.preread /\ ~up.ready))
    /\ p' = [p EXCEPT !.pc = "read end"]
    /\ UNCHANGED <<up, sent>>

(* The rest of ngx_event_pipe_read_upstream: the end of the response may lie *)
(* in a buffer that is not full.                                             *)
LastPart(y) ==
    LET r == Head(y.free)
        a == IF y.free # <<>> /\ y.length # -1 /\ y.raw[r].last - y.raw[r].pos >= y.length
             THEN InputFilter([y EXCEPT !.free = Tail(@)], r) ELSE y
        b == IF a.length = 0 THEN [a EXCEPT !.done = TRUE, !.read = TRUE] ELSE a IN
    IF (b.eof \/ b.error) /\ b.free # <<>>
    THEN InputFilter([b EXCEPT !.free = Tail(@)], Head(b.free)) ELSE b

(* What goes to the cache goes through the file at once.                     *)
Stored(y) == IF Cacheable /\ (y.in # <<>> \/ y.btf) THEN TempFile(y) ELSE y

(* ngx_event_pipe goes round again, or returns to                            *)
(* ngx_http_upstream_process_request.                                        *)
Returned(y) ==
    CASE y.done \/ (y.eof /\ y.length = -1) -> [y EXCEPT !.pc = "over", !.final = "ok"]
      [] Finished(y) /\ ~(y.done \/ (y.eof /\ y.length = -1)) -> [y EXCEPT !.pc = "over", !.final = "bad"]
      [] ~Finished(y) /\ y.derror /\ ~Cacheable -> [y EXCEPT !.pc = "over", !.final = "client"]
      [] OTHER -> [y EXCEPT !.pc = "idle"]
ReadEnd ==
    /\ p.pc = "read end"
    /\ \E y \in {IF p.final = "crash" THEN p ELSE Stored(LastPart(p))} :
       p' = IF y.final = "crash" THEN [y EXCEPT !.pc = "over"]
            ELSE IF y.read \/ y.blocked THEN [y EXCEPT !.pc = "write"] ELSE Returned(y)
    /\ UNCHANGED <<up, sent>>

(* The read or the write timer fires while the pipe waits.                   *)
UpstreamTimesOut ==
    /\ p.pc = "idle" /\ ~up.ready
    /\ p' = Returned([p EXCEPT !.error = TRUE])
    /\ UNCHANGED <<up, sent>>
ClientTimesOut ==
    /\ p.pc = "idle" /\ ~p.ready /\ ~p.derror
    /\ p' = Returned([p EXCEPT !.derror = TRUE, !.queue = <<>>])
    /\ UNCHANGED <<up, sent>>

(* ngx_event_pipe_drain_chains.                                              *)
Drained(y) ==
    LET z == FoldLeft(AddFreeBuf, y, RawsOf(y, y.busy \o y.out \o y.in)) IN
    [z EXCEPT !.busy = <<>>, !.out = <<>>, !.in = <<>>]

(* After ngx_event_pipe_write_to_downstream: nothing is read after the end.  *)
Reads(y) ==
    IF Finished(y) THEN Returned(y) ELSE [y EXCEPT !.pc = "read", !.read = FALSE, !.blocked = FALSE]

(* How much of p->in may be busy as well.                                    *)
Takes(y, busy) == Smaller(Len(y.in), (BusySize - busy) \div Size)

(* ngx_chain_update_chains, and the buffers of what was sent. The variant    *)
(* frees a buffer as soon as some of it was sent.                            *)
Updated_Early(y, q) ==
    LET all == y.busy \o q
        Begun(i) == y.win[i].pos > 1 IN
    FoldLeft(AddFreeBuf, [y EXCEPT !.busy = SelectSeq(all, LAMBDA i : ~Begun(i))],
             RawsOf(y, SelectSeq(all, LAMBDA i : Begun(i))))
Updated(y, q) ==
    LET all == y.busy \o q
        k == CHOOSE k \in 0..Len(all) :
               (\A j \in 1..k : Held(y, all[j]) = 0) /\ (k = Len(all) \/ Held(y, all[k + 1]) > 0)
        gone == SubSeq(all, 1, k) IN
    FoldLeft(AddFreeBuf, [y EXCEPT !.busy = SubSeq(all, k + 1, Len(all))], RawsOf(y, Reverse(gone)))

(* One turn of the loop of ngx_event_pipe_write_to_downstream.               *)
Flush ==
    /\ p.pc = "write" /\ ~p.derror /\ Finished(p)
    /\ \E y \in {[p EXCEPT !.win = [i \in DOMAIN @ |-> [@[i] EXCEPT !.recycled = FALSE]]]} :
       IF p.out # <<>>
       THEN \E f \in OutputFilter(y, p.out) : p' = [f.y EXCEPT !.out = <<>>] /\ sent' = sent \o f.took
       ELSE IF p.in # <<>>
       THEN \E f \in OutputFilter(y, p.in) :
              p' = [Reads(f.y) EXCEPT !.in = <<>>, !.ddone = TRUE] /\ sent' = sent \o f.took
       ELSE p' = [Reads(y) EXCEPT !.ddone = TRUE] /\ sent' = sent
    /\ UNCHANGED up
(* Left out: a call that flushes more than ten times with nothing new to     *)
(* send returns NGX_BUSY (flushed).                                          *)
Write ==
    /\ p.pc = "write" /\ ~p.derror /\ ~Finished(p) /\ p.ready
    /\ LET busy == Size * Cardinality({i \in ToSet(p.busy) : p.win[i].recycled})
           m == IF Cacheable THEN 0 ELSE Takes(p, busy)
           flush == busy >= BusySize \/ (~Cacheable /\ m < Len(p.in))
           q == IF busy >= BusySize THEN <<>> ELSE p.out \o SubSeq(p.in, 1, m)
           y == IF busy >= BusySize THEN p ELSE [p EXCEPT !.out = <<>>, !.in = SubSeq(@, m + 1, Len(@))] IN
       IF q = <<>> /\ ~flush THEN p' = Reads(p) /\ sent' = sent
       ELSE IF q = <<>> /\ p.queue = <<>> THEN p' = [p EXCEPT !.pc = "over", !.final = "empty"] /\ sent' = sent
       ELSE \E f \in OutputFilter(y, q) : sent' = sent \o f.took /\ p' = Updated(f.y, q)
    /\ UNCHANGED up
WriteStops ==
    /\ p.pc = "write" /\ (p.derror \/ (~Finished(p) /\ ~p.ready))
    /\ p' = Reads(IF p.derror THEN Drained(p) ELSE p)
    /\ UNCHANGED <<up, sent>>
ClientFails ==
    /\ p.pc = "write" /\ ~p.derror /\ p.ready
    /\ p' = Reads(Drained([p EXCEPT !.derror = TRUE, !.queue = <<>>]))
    /\ UNCHANGED <<up, sent>>

(* After the pipe, ngx_http_writer sends what is queued, with the last one.  *)
Finish(k) ==
    /\ p.pc = "over" /\ p.final \in {"ok", "bad"} /\ p.queue # <<>> /\ k \in 1..Amount(p, p.queue)
    /\ sent' = sent \o SubSeq(Content(p, p.queue), 1, k)
    /\ p' = Sent(p, k)
    /\ UNCHANGED up
Over == p.pc = "over" /\ (p.queue = <<>> \/ p.final = "crash") /\ up.closed /\ UNCHANGED vars

Pipe ==
    \/ UpstreamEvent \/ DownstreamEvent \/ Preread \/ Recv \/ ReadStops \/ ReadEnd
    \/ Flush \/ Write \/ WriteStops
Next ==
    \/ Pipe \/ RecvFails \/ UpstreamTimesOut \/ ClientFails \/ ClientTimesOut \/ UpstreamCloses \/ Over
    \/ \E n \in 1..Total : Arrive(n) \/ Finish(n)

Spec == Init /\ [][Next]_vars

\* A client that is written to again and again takes something at last.
ClientTakes == (Flush \/ Write) /\ sent' # sent

-----------------------------------------------------------------------------
Body == [i \in 1..(IF Length = -1 \/ Length > Total THEN Total ELSE Length) |-> i]

(* The type of the pipe's state: positions stay inside their buffers.        *)
TypeOK ==
    /\ p.pc \in {"idle", "read", "read end", "write", "over"}
    /\ p.final \in {"none", "ok", "bad", "client", "crash", "empty"}
    /\ p.allocated \in 0..Num
    /\ \A r \in Raws : p.raw[r].pos \in 1..(Size + 1) /\ p.raw[r].last \in p.raw[r].pos..(Size + 1)
    /\ \A i \in InUse(p) : p.win[i].pos <= p.win[i].last

(* The client is sent the response, in order and once, whether it came       *)
(* straight from a buffer or through the file, and all of it if the response *)
(* is complete: no buffer is read into while a window on it is unsent.       *)
Exact ==
    /\ IsPrefix(sent, Body)
    /\ p.final = "ok" /\ ~p.derror => sent \o Content(p, p.queue) = Body

(* The cache file is the header and the response, even when the client went  *)
(* away.                                                                     *)
FileExact ==
    Cacheable /\ p.final = "ok" => p.file = [i \in 1..Header |-> 0] \o Body

(* A raw buffer is free, or shadowed by one window, or not allocated yet:    *)
(* none is lost, none is free while its content is wanted.                   *)
Accounted ==
    p.pc # "over" /\ ~p.preread => \A r \in Raws :
        LET ws == {i \in InUse(p) : p.win[i].raw = r /\ (Held(p, i) > 0 \/ i \in ToSet(p.busy))}
            freed == Cardinality({j \in DOMAIN p.free : p.free[j] = r})
            new == IF r > p.allocated + 1 THEN 1 ELSE 0 IN
        ~Finished(p) => Cardinality(ws) + freed + new = 1

(* What is busy is bounded, and so is the temporary file; with that, the     *)
(* chains the code takes to be non-empty are: no empty chain is written to   *)
(* the file, and no empty output is flushed.                                 *)
Bounded ==
    /\ Size * Cardinality({i \in ToSet(p.busy) : p.win[i].recycled}) <= BusySize
    /\ Cacheable \/ Len(p.file) <= MaxTempFile
    /\ p.final \notin {"crash", "empty"}

(* The pipe waits only for what will come: for the server, if it read all    *)
(* that was announced, or for a client whose socket is full.  A full buffer  *)
(* does not wait for anybody else.                                           *)
NotStuck ==
    p.pc = "idle" =>
        /\ ~up.ready \/ (~p.ready /\ ~p.derror)
        /\ p.ready /\ ~p.derror => p.in = <<>> /\ p.out = <<>>

=============================================================================
