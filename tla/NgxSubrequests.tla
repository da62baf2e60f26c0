--------------------------- MODULE NgxSubrequests ---------------------------
(***************************************************************************)
(* A request and its subrequests in the bundled nginx: the reference count *)
(* that keeps the request's memory, the list of posted requests, finalize  *)
(* (http/ngx_http_request.c), the creation of subrequests                  *)
(* (http/ngx_http_core_module.c) and the filter that puts their outputs in *)
(* order (http/ngx_http_postpone_filter_module.c).                         *)
(*                                                                         *)
(* Request 1 is the main request.  What a request produces is a sequence   *)
(* of items: 0 is a piece of output, q > 0 a subrequest at that place; the *)
(* last or sync buffer of ngx_http_send_special follows.  Requests produce *)
(* their items at their own pace, several in one handler or one per event. *)
(* Background and in-memory subrequests, post_action    *)
(* and HTTP/2 streams are left out; nothing blocks a request (the build    *)
(* has no threads and no file AIO).                                        *)
(***************************************************************************)
EXTENDS Integers, SequencesExt

CONSTANT Docs   \* what the requests produce: the trees to be considered

DocsAssumption ==
  \A d \in Docs :
    \A q \in DOMAIN d : \A k \in DOMAIN d[q] : d[q][k] \in {0} \cup (DOMAIN d)

VARIABLES
  doc,    \* what the requests of this run produce
  s,      \* the requests and their connection
  cur     \* the request whose handler runs, 0 between two handlers

vars == <<doc, s, cur>>

Requests == DOMAIN doc
Main == 1

\* A piece of output: the request and the place of the piece in it.
Piece(q, k) == [sub |-> 0, from |-> q, at |-> k]

\* ngx_http_send_special: the last buffer of the response, or the sync
\* buffer of a subrequest, which the client does not see.
Special(q) == Piece(q, Len(doc[q]) + 1)
Visible(x) == x.from = Main \/ x.at <= Len(doc[x.from])

SubAt(q) == [sub |-> q, from |-> 0, at |-> 0]

Init == /\ doc \in Docs
        /\ cur = 0
        /\ s = [handler |-> [q \in DOMAIN doc |->
                               IF q = Main THEN "content" ELSE "none"],
                parent |-> [q \in DOMAIN doc |-> 0],
                pos |-> [q \in DOMAIN doc |-> 1],
                postponed |-> [q \in DOMAIN doc |-> <<>>],
                done |-> [q \in DOMAIN doc |-> FALSE],
                active |-> Main, posted |-> <<>>, count |-> 1,
                sent |-> <<>>, buffered |-> FALSE,
                state |-> "open", alert |-> FALSE]

\* ngx_http_post_request.
Post(c, q) == [c EXCEPT !.posted = Append(@, q)]

\* ngx_http_next_body_filter: the pieces go to the client, or wait in the
\* connection when full says that its socket takes no more.
Deliver(c, pieces, full) ==
  [c EXCEPT !.sent = @ \o SelectSeq(pieces, Visible), !.buffered = full]

\* The first subrequest among postponed items, or one past the end.
FirstSub(items) == LET i == SelectInSeq(items, LAMBDA x : x.sub # 0)
                   IN IF i = 0 THEN Len(items) + 1 ELSE i

(***************************************************************************)
(* ngx_http_postpone_filter: the output of a request that is not the       *)
(* active one is kept; the active one's goes out up to its next            *)
(* subrequest, which becomes active.                                       *)
(***************************************************************************)
Output(c, q, in, full) ==
  IF q # c.active THEN [c EXCEPT !.postponed[q] = @ \o in]
  ELSE IF c.postponed[q] = <<>>
  THEN IF in # <<>> \/ c.buffered THEN Deliver(c, in, full) ELSE c
  ELSE LET items == c.postponed[q] \o in
           i == FirstSub(items)
           e == IF i = 1 THEN c ELSE Deliver(c, SubSeq(items, 1, i - 1), full)
           f == [e EXCEPT !.postponed[q] = SubSeq(items, i + 1, Len(items))]
       IN IF i > Len(items) THEN f
          ELSE Post([f EXCEPT !.active = items[i].sub], items[i].sub)

Subrequest(c, q, sub) ==
  Post([c EXCEPT !.active = IF c.active = q /\ c.postponed[q] = <<>>
                            THEN sub ELSE @,
                 !.postponed[q] = Append(@, SubAt(sub)),
                 !.handler[sub] = "start", !.parent[sub] = q,
                 !.count = @ + 1], sub)

\* ngx_http_close_request.
Close(c) == [c EXCEPT !.count = @ - 1, !.alert = @ \/ c.count = 0,
                      !.state = IF c.count = 1 THEN "closed" ELSE @]

\* The parent's list loses the subrequest that ended, if it still heads it.
Popped(items, q) == IF items # <<>> /\ Head(items).sub = q THEN Tail(items)
                    ELSE items

\* Variant: a subrequest that is not the active one gives its reference back too.
FinalizeSub_Counted(c, q) ==
  LET p == c.parent[q]
  IN IF c.postponed[q] # <<>> THEN [c EXCEPT !.handler[q] = "writer"]
     ELSE IF c.active = q
     THEN Post([c EXCEPT !.done[q] = TRUE, !.alert = @ \/ c.done[q],
                         !.count = @ - 1, !.active = p,
                         !.postponed[p] = Popped(@, q)], p)
     ELSE Post([c EXCEPT !.handler[q] = "finalizer", !.count = @ - 1], p)

FinalizeSub(c, q) ==
  LET p == c.parent[q]
  IN IF c.postponed[q] # <<>> THEN [c EXCEPT !.handler[q] = "writer"]
     ELSE IF c.active = q
     THEN Post([c EXCEPT !.done[q] = TRUE, !.alert = @ \/ c.done[q],
                         !.count = @ - 1, !.active = p,
                         !.postponed[p] = Popped(@, q)], p)
     ELSE Post([c EXCEPT !.handler[q] = "finalizer"], p)

FinalizeMain(c) ==
  IF c.buffered \/ c.postponed[Main] # <<>>
  THEN [c EXCEPT !.handler[Main] = "writer"]
  ELSE IF c.active # Main THEN [c EXCEPT !.alert = TRUE]
  ELSE Close([c EXCEPT !.done[Main] = TRUE, !.handler[Main] = "empty"])

Finalize(c, q) == IF q = Main THEN FinalizeMain(c) ELSE FinalizeSub(c, q)

\* ngx_http_writer.
Writer(c, q, full) ==
  LET e == Output(c, q, <<>>, full)
  IN IF e.postponed[q] # <<>> \/ (q = Main /\ e.buffered) THEN e
     ELSE Finalize([e EXCEPT !.handler[q] = "empty"], q)

----------------------------------------------------------------------------

\* Between two events nothing is posted and no handler runs.
Idle == s.state = "open" /\ cur = 0 /\ s.posted = <<>>

\* q's content handler may go on: it runs already, or its event comes.
Running(q) == /\ s.state = "open" /\ s.handler[q] = "content"
              /\ cur = q \/ Idle

\* A request produces its next item.
Produce(q) ==
  /\ Running(q) /\ s.pos[q] <= Len(doc[q])
  /\ LET item == doc[q][s.pos[q]]
         c == [s EXCEPT !.pos[q] = @ + 1]
     IN IF item = 0
        THEN \E full \in BOOLEAN : s' = Output(c, q, <<Piece(q, s.pos[q])>>, full)
        ELSE s' = Subrequest(c, q, item)
  /\ cur' = q
  /\ UNCHANGED doc

\* A request has produced everything, sends its special buffer and is
\* finalized; a subrequest without output may end without sending it.
Finish(q) ==
  /\ Running(q) /\ s.pos[q] > Len(doc[q])
  /\ LET c == [s EXCEPT !.handler[q] = "ended"]
     IN \/ \E full \in BOOLEAN :
             s' = Finalize(Output(c, q, <<Special(q)>>, full), q)
        \/ q # Main /\ doc[q] = <<>> /\ s' = Finalize(c, q)
  /\ cur' = 0
  /\ UNCHANGED doc

\* A content handler returns before it is through.
Return ==
  /\ s.state = "open" /\ cur # 0
  /\ cur' = 0
  /\ UNCHANGED <<doc, s>>

\* A write event handler runs: of a posted request, or of the active one.
RunHandler(c, q) ==
  \E full \in BOOLEAN :
    CASE c.handler[q] = "start" ->
           s' = [c EXCEPT !.handler[q] = "content"] /\ cur' = q
      [] c.handler[q] = "content" ->
           cur' = q /\ (s' = c \/ s' = Output(c, q, <<>>, full))
      [] c.handler[q] = "writer" -> s' = Writer(c, q, full) /\ cur' = 0
      [] c.handler[q] = "finalizer" -> s' = Finalize(c, q) /\ cur' = 0
      [] c.handler[q] = "terminate" ->
           s' = Close([c EXCEPT !.count = 1]) /\ cur' = 0
      [] OTHER -> s' = c /\ cur' = 0

\* ngx_http_run_posted_requests.
RunPosted ==
  /\ s.state = "open" /\ cur = 0 /\ s.posted # <<>>
  /\ RunHandler([s EXCEPT !.posted = Tail(@)], Head(s.posted))
  /\ UNCHANGED doc

\* ngx_http_request_handler: the client's socket takes data again.
ClientWritable ==
  /\ Idle /\ s.buffered
  /\ RunHandler(s, s.active)
  /\ UNCHANGED doc

\* ngx_http_terminate_request.
Terminate(c) ==
  Post([c EXCEPT !.handler[Main] = "terminate", !.posted = <<>>], Main)

\* A request fails, the client closes the connection, or it takes nothing
\* for send_timeout.
Fail(q) ==
  /\ \/ Running(q)
     \/ Idle /\ q = s.active /\ s.handler[q] = "writer"
  /\ s' = Terminate(s)
  /\ cur' = 0
  /\ UNCHANGED doc

\* The request was freed.
Over == s.state = "closed" /\ UNCHANGED vars

Next == \/ \E q \in Requests : Produce(q) \/ Finish(q) \/ Fail(q)
        \/ Return
        \/ RunPosted
        \/ ClientWritable
        \/ Over

Spec == Init /\ [][Next]_vars

\* What happens sooner or later when it is possible again and again: the
\* client takes what is buffered, and a request goes on.
ClientTakes == ClientWritable /\ ~s'.buffered
GoesOn(q) == q \in Requests /\ (Produce(q) \/ Finish(q))

----------------------------------------------------------------------------

(* Type invariant of the subrequests: the tree, the postponed parts and the  *)
(* posted requests.                                                          *)
TypeOK ==
  /\ cur \in Requests \cup {0}
  /\ s.handler \in [Requests -> {"none", "start", "content", "ended", "writer",
                                 "finalizer", "empty", "terminate"}]
  /\ s.active \in Requests
  /\ s.posted \in Seq(Requests)
  /\ s.count \in 0..Cardinality(Requests)
  /\ s.state \in {"open", "closed"}

\* The items of q in the order a client should see them.
Flat[q \in 1..8] ==
  FoldLeft(LAMBDA acc, k : acc \o (IF doc[q][k] = 0 THEN <<Piece(q, k)>>
                                   ELSE Flat[doc[q][k]]),
           <<>>, [k \in 1..Len(doc[q]) |-> k])

Response == Append(Flat[Main], Special(Main))

\* The client gets the pieces in the order of the document, each once, in
\* whatever order and pace the requests of the tree produce them.
InOrder == IsPrefix(s.sent, Response)

\* The reference count is the main request and the subrequests that have not
\* ended: it reaches 0, and the memory goes, only after the last of them.
CountExact ==
  s.state = "open" /\ s.handler[Main] # "terminate" =>
    s.count = Cardinality({q \in Requests : s.handler[q] # "none" /\ ~s.done[q]})

\* None of the situations the code logs as an alert arises: a count of zero,
\* a main request finalized while not active, a subrequest finalized twice.
NoAlert == ~s.alert

\* A request that ends without a failure has sent all of its output, and
\* nothing of it is left in the connection's buffers.
CompleteAtEnd ==
  s.state = "closed" /\ s.handler[Main] # "terminate" =>
    s.sent = Response /\ ~s.buffered

============================================================================
