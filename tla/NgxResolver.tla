---------------------------- MODULE NgxResolver ----------------------------
(***************************************************************************)
(* The DNS resolver of the bundled nginx (core/ngx_resolver.c): names,     *)
(* their A and AAAA queries, CNAMEs, the cache, and the requests that wait *)
(* for an answer.                                                          *)
(*                                                                         *)
(* The resolver runs in one process, but it calls the handlers of its      *)
(* clients in the middle of its loops, and a handler may come back with a  *)
(* new name to resolve.  "stack" holds the calls that are under way; time  *)
(* and the network move only when it is empty.  Answers may be lost, late, *)
(* repeated and in any order: one with a wrong ident or for a question     *)
(* that is not open changes nothing and is not a step here.  Whether a     *)
(* query is sent by UDP or TCP matters only for truncation.  Services      *)
(* (SRV), address lookups (PTR) and failing allocations are left out.      *)
(***************************************************************************)
EXTENDS Integers, SequencesExt

CONSTANTS Names,
          BadNames,      \* names that no query can be made of
          Ctxs,          \* requests for a name
          Cnames,        \* the CNAME records there may be: <<from, to>>
          Answers,       \* the kinds of answers servers give
          Ipv6,          \* ask for AAAA as well
          MaxRecursion,  \* NGX_RESOLVER_MAX_RECURSION
          MaxDepth       \* calls under way when a handler starts another one

ResolverAssumption ==
  /\ BadNames \subseteq Names /\ Cnames \subseteq Names \X Names
  /\ Answers \subseteq {"some", "none", "error", "cname", "trunc", "useless"}
  /\ Ipv6 \in BOOLEAN /\ MaxRecursion \in Nat
  /\ MaxDepth \in Nat /\ "-" \notin Names \cup Ctxs

VARIABLES node,      \* the node of each name
          resend,    \* the queue of nodes that await an answer, newest first
          expire,    \* the queue of nodes that are cached, newest first
          timer,     \* the timer that sends queries again is set
          ctx,       \* what each request is waiting for
          stack,     \* calls under way, innermost first
          alert      \* "could not cancel resolving" was logged

vars == <<node, resend, expire, timer, ctx, stack, alert>>

Nil == "-"
Types == IF Ipv6 THEN {"A", "AAAA"} ELSE {"A"}

NoNode == [live |-> FALSE, query |-> FALSE, sent |-> {}, tcp |-> {},
           addrs |-> [t \in Types |-> "none"], cname |-> Nil, code |-> FALSE,
           fresh |-> FALSE, due |-> FALSE, waiting |-> <<>>]

NoCtx == [state |-> "free", node |-> Nil, recursion |-> 0]

Init == /\ node = [k \in Names |-> NoNode]
        /\ resend = <<>> /\ expire = <<>> /\ timer = FALSE
        /\ ctx = [x \in Ctxs |-> NoCtx]
        /\ stack = <<>> /\ alert = FALSE

Without(q, x) == SelectSeq(q, LAMBDA y : y # x)
Idle == stack = <<>>
Push(frames) == stack' = frames \o Tail(stack)

\* A call of ngx_resolve_name_locked with a list of requests.
LockFrame(list, k) == [kind |-> "lock", list |-> list, name |-> k, result |-> Nil]

\* A loop over the handlers of a list; after it the query of k is freed.
CallFrame(list, result, k) == [kind |-> "call", list |-> list, name |-> k, result |-> result]

Unanswered(k) == {t \in Types : node[k].addrs[t] = "wait"}
HasAddrs(k) == \E t \in Types : node[k].addrs[t] = "some"

----------------------------------------------------------------------------
(* ngx_resolve_name_locked, for the innermost call.                        *)

Locking == stack # <<>> /\ Head(stack).kind = "lock"

Cached ==
  /\ Locking
  /\ LET k == Head(stack).name
         list == Head(stack).list
         x == list[1]
         all == list \o node[k].waiting
     IN /\ node[k].live /\ node[k].fresh
        /\ expire' = <<k>> \o Without(expire, k)
        /\ \/ /\ HasAddrs(k)
              /\ node' = [node EXCEPT ![k].due = FALSE, ![k].waiting = <<>>]
              /\ Push(<<CallFrame(all, "ok", Nil)>>) /\ UNCHANGED ctx
           \/ /\ ~HasAddrs(k) /\ ctx[x].recursion < MaxRecursion
              /\ node' = [node EXCEPT ![k].due = FALSE]
              /\ Push(<<LockFrame(list, node[k].cname)>>)
              /\ ctx' = [ctx EXCEPT ![x].recursion = @ + 1]
           \/ /\ ~HasAddrs(k) /\ ctx[x].recursion >= MaxRecursion
              /\ node' = [node EXCEPT ![k].due = FALSE, ![k].waiting = <<>>]
              /\ Push(<<CallFrame(all, "fail", Nil)>>) /\ UNCHANGED ctx
  /\ UNCHANGED <<resend, timer, alert>>

\* The requests of a list now wait at node k.
WaitAt(list, k) ==
  [x \in Ctxs |-> IF x \in ToSet(list) THEN [ctx[x] EXCEPT !.state = "again", !.node = k]
                  ELSE ctx[x]]

\* Variant: those that wait already are dropped.
Join_Replaces ==
  /\ Locking
  /\ LET k == Head(stack).name
         list == Head(stack).list
     IN /\ node[k].live /\ ~node[k].fresh /\ node[k].waiting # <<>>
        /\ node' = [node EXCEPT ![k].waiting = list]
        /\ ctx' = WaitAt(list, k)
  /\ Push(<<>>)
  /\ UNCHANGED <<resend, expire, timer, alert>>

\* Others wait for the same name already.
Join ==
  /\ Locking
  /\ LET k == Head(stack).name
         list == Head(stack).list
     IN /\ node[k].live /\ ~node[k].fresh /\ node[k].waiting # <<>>
        /\ node' = [node EXCEPT ![k].waiting = list \o @]
        /\ ctx' = WaitAt(list, k)
  /\ Push(<<>>)
  /\ UNCHANGED <<resend, expire, timer, alert>>

\* A new node, or one whose answer is too old or was not waited for to the
\* end: its query is made and sent.
Query ==
  /\ Locking
  /\ LET k == Head(stack).name
         list == Head(stack).list
     IN /\ ~node[k].fresh /\ node[k].waiting = <<>> /\ k \notin BadNames
        /\ node' = [node EXCEPT ![k] = [NoNode EXCEPT
             !.live = TRUE, !.query = TRUE, !.sent = Types, !.waiting = list,
             !.addrs = [t \in Types |-> "wait"]]]
        /\ ctx' = WaitAt(list, k)
        /\ resend' = <<k>> \o Without(resend, k)
        /\ expire' = Without(expire, k)
        /\ timer' = (timer \/ Without(resend, k) = <<>>)
  /\ Push(<<>>)
  /\ UNCHANGED alert

\* No query can be made of the name: NGX_DECLINED.
Declined ==
  /\ Locking /\ Head(stack).name \in BadNames
  /\ Push(<<CallFrame(Head(stack).list, "fail", Nil)>>)
  /\ UNCHANGED <<node, resend, expire, timer, ctx, alert>>

----------------------------------------------------------------------------
(* ngx_resolve_name_done, and the handlers that call it.                   *)

\* ngx_resolver_expire: at most two nodes at the end of the queue.
Outdated == LET n == Len(expire)
                last == {i \in {n} : i > 0 /\ node[expire[i]].due}
                both == {i \in {n - 1} : last # {} /\ i > 0 /\ node[expire[i]].due}
            IN {expire[i] : i \in last \cup both}

Done(x, state) ==
  LET k == ctx[x].node
      held == state \in {"again", "timedout"} /\ k # Nil
  IN /\ node' = [j \in Names |->
                   IF j \in Outdated THEN NoNode
                   ELSE IF held /\ j = k THEN [node[j] EXCEPT !.waiting = Without(@, x)]
                   ELSE node[j]]
     /\ alert' = (alert \/ (held /\ x \notin ToSet(node[k].waiting)))
     /\ expire' = SelectSeq(expire, LAMBDA j : j \notin Outdated)
     /\ timer' = (timer /\ resend # <<>>)

\* The handler of x is called with a result; it ends x, and its client may
\* resolve the next name at once.
Handler(x, result, rest) ==
  /\ Done(x, result)
  /\ \/ stack' = rest /\ ctx' = [ctx EXCEPT ![x] = NoCtx]
     \/ \E k \in Names :
          /\ Len(rest) < MaxDepth
          /\ stack' = <<LockFrame(<<x>>, k)>> \o rest
          /\ ctx' = [ctx EXCEPT ![x] = [NoCtx EXCEPT !.state = "new"]]
  /\ UNCHANGED resend

CallNext ==
  /\ stack # <<>> /\ Head(stack).kind = "call"
  /\ Head(stack).list # <<>>
  /\ LET f == Head(stack)
     IN Handler(f.list[1], f.result, <<[f EXCEPT !.list = Tail(@)]>> \o Tail(stack))

\* The end of the loop: the query of a name that was answered is freed.
CallEnd ==
  /\ stack # <<>> /\ Head(stack).kind = "call" /\ Head(stack).list = <<>>
  /\ node' = IF Head(stack).name = Nil THEN node
             ELSE [node EXCEPT ![Head(stack).name].query = FALSE]
  /\ Push(<<>>)
  /\ UNCHANGED <<resend, expire, timer, ctx, alert>>

\* ngx_resolve_name.
Resolve(x, k) ==
  /\ Idle /\ ctx[x].state = "free"
  /\ ctx' = [ctx EXCEPT ![x].state = "new"]
  /\ stack' = <<LockFrame(<<x>>, k)>>
  /\ UNCHANGED <<node, resend, expire, timer, alert>>

\* ngx_resolver_timeout_handler.
Timeout(x) == Idle /\ ctx[x].state = "again" /\ Handler(x, "timedout", <<>>)

\* The client gives up.
Cancel(x) ==
  /\ Idle /\ ctx[x].state = "again"
  /\ Done(x, "again")
  /\ ctx' = [ctx EXCEPT ![x] = NoCtx]
  /\ UNCHANGED <<resend, stack>>

----------------------------------------------------------------------------
(* ngx_resolver_process_a: an answer of type t for the name k.             *)

\* The question is open and the answer is to the query that was sent last.
Open(k, t) == /\ Idle /\ node[k].live /\ node[k].query
              /\ t \in Unanswered(k) /\ t \in node[k].sent

\* What the answer leaves in the node.
Filled(k, t, value) == [node EXCEPT ![k].addrs[t] = value]

Truncated(k, t) ==
  /\ Open(k, t) /\ "trunc" \in Answers /\ t \notin node[k].tcp
  /\ IF node[k].waiting = <<>>
     THEN node' = [node EXCEPT ![k] = NoNode] /\ resend' = Without(resend, k)
     ELSE /\ node' = [node EXCEPT ![k].tcp = @ \cup {t}, ![k].sent = @ \cup {t},
                                  ![k].due = FALSE]
          /\ resend' = <<k>> \o Without(resend, k)
  /\ UNCHANGED <<expire, timer, ctx, stack, alert>>

\* The other type is still to come.
Partial(k, t) == Unanswered(k) \ {t} # {}

\* Both types are known: everyone is told.
Export(k, filled) ==
  /\ node' = [filled EXCEPT ![k].fresh = TRUE, ![k].due = FALSE, ![k].waiting = <<>>]
  /\ resend' = Without(resend, k) /\ expire' = <<k>> \o expire
  /\ stack' = <<CallFrame(node[k].waiting, "ok", k)>>
  /\ UNCHANGED ctx

\* The name does not exist or the server failed: everyone is told, and the
\* node goes.
Failed(k) ==
  /\ node' = [node EXCEPT ![k] = NoNode]
  /\ resend' = Without(resend, k)
  /\ stack' = <<CallFrame(node[k].waiting, "fail", Nil)>>
  /\ UNCHANGED <<expire, ctx>>

Stored(k, n) == node' = n /\ UNCHANGED <<resend, expire, ctx, stack>>

\* An error, or any answer after an error of the other type.
AnswerError(k, t) ==
  /\ Open(k, t)
  /\ "error" \in Answers \/ node[k].code
  /\ IF Partial(k, t) THEN Stored(k, [Filled(k, t, "none") EXCEPT ![k].code = TRUE])
     ELSE Failed(k)
  /\ UNCHANGED <<timer, alert>>

\* An empty answer.
AnswerNone(k, t) ==
  /\ Open(k, t) /\ "none" \in Answers /\ ~node[k].code
  /\ IF Partial(k, t) THEN Stored(k, Filled(k, t, "none"))
     ELSE IF HasAddrs(k) THEN Export(k, Filled(k, t, "none")) ELSE Failed(k)
  /\ UNCHANGED <<timer, alert>>

\* Addresses.
AnswerSome(k, t) ==
  /\ Open(k, t) /\ "some" \in Answers /\ ~node[k].code
  /\ IF Partial(k, t) THEN Stored(k, Filled(k, t, "some"))
     ELSE Export(k, Filled(k, t, "some"))
  /\ UNCHANGED <<timer, alert>>

AnswerCname(k, t, c) ==
  /\ Open(k, t) /\ "cname" \in Answers /\ ~node[k].code
  /\ IF Partial(k, t) THEN Stored(k, Filled(k, t, "none"))
     ELSE IF HasAddrs(k) THEN Export(k, Filled(k, t, "none"))
     ELSE LET list == node[k].waiting
          IN /\ node' = [Filled(k, t, "none") EXCEPT
                           ![k].fresh = TRUE, ![k].due = FALSE, ![k].cname = c,
                           ![k].query = FALSE, ![k].waiting = <<>>]
             /\ resend' = Without(resend, k) /\ expire' = <<k>> \o expire
             /\ IF list = <<>> THEN stack' = <<>> /\ UNCHANGED ctx
                ELSE IF ctx[list[1]].recursion >= MaxRecursion
                THEN stack' = <<CallFrame(list, "fail", Nil)>> /\ UNCHANGED ctx
                ELSE /\ stack' = <<LockFrame(list, c)>>
                     /\ ctx' = [x \in Ctxs |->
                          IF x \notin ToSet(list) THEN ctx[x]
                          ELSE [ctx[x] EXCEPT !.node = Nil,
                                  !.recursion = @ + (IF x = list[1] THEN 1 ELSE 0)]]
  /\ UNCHANGED <<timer, alert>>

\* Neither address nor CNAME: the question counts as answered.
AnswerUseless(k, t) ==
  /\ Open(k, t) /\ "useless" \in Answers /\ ~node[k].code
  /\ IF ~Partial(k, t) /\ HasAddrs(k) THEN Export(k, Filled(k, t, "none"))
     ELSE Stored(k, Filled(k, t, "none"))
  /\ UNCHANGED <<timer, alert>>

Answer(k, t) == \/ Truncated(k, t) \/ AnswerError(k, t) \/ AnswerNone(k, t)
                \/ AnswerSome(k, t) \/ AnswerUseless(k, t)
                \/ \E c \in Names : <<k, c>> \in Cnames /\ AnswerCname(k, t, c)

----------------------------------------------------------------------------
(* Time and the network.                                                   *)

\* Variant: the timer is not set for what was just sent again.
Resend_NotRearmed ==
  /\ Idle /\ timer
  /\ LET i == SelectLastInSeq(resend, LAMBDA k : ~node[k].due)
         again == SelectSeq(SubSeq(resend, i + 1, Len(resend)),
                            LAMBDA k : node[k].waiting # <<>>)
         late == {resend[j] : j \in (i + 1)..Len(resend)}
     IN /\ resend' = again \o SubSeq(resend, 1, i)
        /\ node' = [k \in Names |->
              IF k \in ToSet(again)
              THEN [node[k] EXCEPT !.due = FALSE, !.sent = @ \cup Unanswered(k)]
              ELSE IF k \in late THEN NoNode ELSE node[k]]
        /\ timer' = (i # 0)
  /\ UNCHANGED <<expire, ctx, stack, alert>>

\* ngx_resolver_resend_handler: what is due is sent again, or forgotten
\* when nobody waits for it.
Resend ==
  /\ Idle /\ timer
  /\ LET i == SelectLastInSeq(resend, LAMBDA k : ~node[k].due)
         again == SelectSeq(SubSeq(resend, i + 1, Len(resend)),
                            LAMBDA k : node[k].waiting # <<>>)
         late == {resend[j] : j \in (i + 1)..Len(resend)}
     IN /\ resend' = again \o SubSeq(resend, 1, i)
        /\ node' = [k \in Names |->
              IF k \in ToSet(again)
              THEN [node[k] EXCEPT !.due = FALSE, !.sent = @ \cup Unanswered(k)]
              ELSE IF k \in late THEN NoNode ELSE node[k]]
        /\ timer' = (resend' # <<>>)
  /\ UNCHANGED <<expire, ctx, stack, alert>>

Lost(k, t) ==
  /\ Idle /\ t \in node[k].sent
  /\ node' = [node EXCEPT ![k].sent = @ \ {t}]
  /\ UNCHANGED <<resend, expire, timer, ctx, stack, alert>>

\* The oldest nodes of a queue come of age first.
Due(q) ==
  /\ Idle
  /\ LET i == SelectLastInSeq(q, LAMBDA k : ~node[k].due)
     IN i # 0 /\ node' = [node EXCEPT ![q[i]].due = TRUE]
  /\ UNCHANGED <<resend, expire, timer, ctx, stack, alert>>

\* The time to live of an answer has passed.
GoesStale(k) ==
  /\ Idle /\ node[k].fresh
  /\ node' = [node EXCEPT ![k].fresh = FALSE]
  /\ UNCHANGED <<resend, expire, timer, ctx, stack, alert>>

Step == Cached \/ Join \/ Query \/ Declined \/ CallNext \/ CallEnd

Next == \/ Step
        \/ \E x \in Ctxs : Timeout(x) \/ Cancel(x) \/ \E k \in Names : Resolve(x, k)
        \/ \E k \in Names, t \in Types : Answer(k, t) \/ Lost(k, t)
        \/ Resend \/ Due(resend) \/ Due(expire)
        \/ \E k \in Names : GoesStale(k)

Spec == Init /\ [][Next]_vars

----------------------------------------------------------------------------

Live == {k \in Names : node[k].live}
Calling == FlattenSeq([i \in 1..Len(stack) |-> stack[i].list])

(* Type invariant of the resolver: nodes, the requests that wait on them and *)
(* the calls under way.                                                      *)
TypeOK == /\ \A k \in Names : /\ node[k].sent \subseteq Types
                              /\ node[k].waiting \in Seq(Ctxs)
                              /\ node[k].cname \in Names \cup {Nil}
          /\ \A x \in Ctxs : /\ ctx[x].recursion \in 0..(MaxRecursion + 1)
                             /\ ctx[x].state \in {"free", "new", "again"}
          /\ resend \in Seq(Names) /\ expire \in Seq(Names)

\* A request that waits is in one list: of the node it knows of, or of a
\* loop that is about to call it; and the lists hold nobody else.  So no
\* handler is called twice, or for a request that was freed.
WaitsOnce ==
  \A x \in Ctxs :
    LET at == {k \in Live : x \in ToSet(node[k].waiting)}
        places == Len(SelectSeq(Calling, LAMBDA y : y = x))
                  + Len(SelectSeq(FlattenSeq(SetToSeq({node[k].waiting : k \in Live})),
                                  LAMBDA y : y = x))
    IN /\ places = IF ctx[x].state = "free" THEN 0 ELSE 1
       /\ at \subseteq {ctx[x].node}

\* A request can always be cancelled.
NoAlert == ~alert

\* Every node is in one queue: in the resend queue with its query while
\* somebody waits for it, in the expire queue without it once answered.
QueuesExact ==
  /\ \A k \in Names : Len(SelectSeq(resend \o expire, LAMBDA j : j = k))
                      = IF node[k].live THEN 1 ELSE 0
  /\ \A k \in ToSet(resend) : node[k].query /\ ~node[k].fresh
  /\ \A k \in ToSet(expire) : node[k].waiting = <<>> /\ (Idle => ~node[k].query)

\* While a query is unanswered the timer that repeats it is set.
TimerArmed == Idle /\ resend # <<>> => timer

=============================================================================
