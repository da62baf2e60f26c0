---------------------------- MODULE NgxUpstream ----------------------------
(***************************************************************************)
(* A proxied request of the bundled nginx: connecting to a server, sending *)
(* the request, retrying on another server (http/ngx_http_upstream.c),     *)
(* with the balancer of NgxRoundRobin and the cache of idle connections    *)
(* (http/modules/ngx_http_upstream_keepalive_module.c).                    *)
(*                                                                         *)
(* One worker, whose handlers do not interleave: while a handler is inside *)
(* ngx_http_upstream_connect or ngx_http_upstream_next no other event is   *)
(* handled.  The body of a response and the response cache are left out;   *)
(* that proxy_next_upstream_timeout is over, that an unbuffered body was    *)
(* sent or that the client's connection failed is a choice of NextServer.  *)
(***************************************************************************)
EXTENDS NgxRoundRobin, SequencesExt

CONSTANTS
  Conns,       \* connection slots, 1..n
  MaxCached,   \* keepalive: the size of the cache
  NextOn,      \* proxy_next_upstream, a set of FailureKinds and "non_idempotent"
  Retries      \* proxy_next_upstream_tries, 0 is "no limit"

FailureKinds == {"error", "timeout", "invalid_header", "http_404", "http_500"}

UpstreamAssumption ==
  /\ MaxCached \in Nat \ {0}
  /\ Retries \in Nat
  /\ Conns \subseteq Nat \ {None}
  /\ Cardinality(Conns) >= Cardinality(Reqs) + MaxCached
  /\ NextOn \subseteq FailureKinds \cup {"non_idempotent"}

VARIABLES
  conn,     \* the server of each open connection and whether it closed it
  cache,    \* kcf->cache, the idle connections, the last used first
  free,     \* the number of items in kcf->free
  up,       \* ngx_http_upstream_t of each request
  exiting   \* ngx_exiting

vars == <<rrvars, conn, cache, free, up, exiting>>

Closed == [open |-> FALSE, server |-> None, dead |-> FALSE]

FreshUp == [st |-> "idle", tries |-> 0, conn |-> None, cached |-> FALSE,
            sent |-> FALSE, post |-> FALSE, ft |-> "none",
            sends |-> 0]

Init == /\ RRInit
        /\ conn = [c \in Conns |-> Closed]
        /\ cache = <<>> /\ free = MaxCached
        /\ up = [r \in Reqs |-> FreshUp]
        /\ exiting = FALSE

\* No handler is in the middle of a connect or a retry.
Idle == \A r \in Reqs : up[r].st \in {"idle", "connecting", "sent"}

\* ngx_http_upstream_tries.
Tries == LET t == Cardinality(Peers \ Down)
         IN IF Retries > 0 /\ t > Retries THEN Retries ELSE t

\* A request is proxied: ngx_http_upstream_init_request.
Start(r, post) ==
  /\ Idle /\ up[r].st = "idle"
  /\ InitPeer(r)
  /\ up' = [up EXCEPT ![r] = [FreshUp EXCEPT !.st = "connect", !.post = post,
                                             !.tries = Tries]]
  /\ UNCHANGED <<conn, cache, free, exiting>>

\* The first cached connection to the server p.
CachedTo(p) == SelectInSeq(cache, LAMBDA c : conn[c].server = p)

\* The request goes out: request_sent, and, of one that must not be repeated,
\* one more copy (two are enough to tell).
Sent(u) == [u EXCEPT !.st = "sent", !.sent = TRUE,
                     !.sends = IF u.post /\ u.sends < 2 THEN u.sends + 1
                                                         ELSE u.sends]

\* A cached connection leaves the cache.
Taken(i) == /\ cache' = RemoveAt(cache, i)
            /\ free' = free + 1

\* ngx_http_upstream_connect, when the balancer chose a server to which an
\* idle connection is cached: the request is sent on it, unless an error of
\* the connection is pending.
ConnectCached(r) ==
  /\ up[r].st = "connect"
  /\ GetPeer(r)
  /\ LET i == CachedTo(rr'[r].current)
         u == [up[r] EXCEPT !.conn = cache[i], !.cached = TRUE]
     IN /\ i > 0
        /\ Taken(i)
        /\ \/ up' = [up EXCEPT ![r] = Sent(u)]
           \/ /\ conn[cache[i]].dead
              /\ up' = [up EXCEPT ![r] = [u EXCEPT !.st = "next", !.ft = "error",
                                                  !.sent = FALSE]]
  /\ UNCHANGED <<conn, exiting>>

\* ngx_http_upstream_connect, when a new connection is needed: connect() is
\* refused or left in progress, or no socket or connection can be had.
ConnectNew(r, result) ==
  /\ up[r].st = "connect"
  /\ GetPeer(r)
  /\ CachedTo(rr'[r].current) = 0
  /\ CASE result = "again" ->
            \E c \in Conns :
              /\ ~conn[c].open
              /\ \A d \in Conns : ~conn[d].open => c <= d
              /\ conn' = [conn EXCEPT ![c] = [open |-> TRUE, dead |-> FALSE,
                                              server |-> rr'[r].current]]
              /\ up' = [up EXCEPT ![r] =
                          [up[r] EXCEPT !.st = "connecting", !.conn = c,
                                        !.cached = FALSE, !.sent = FALSE]]
       [] result = "declined" ->
            /\ up' = [up EXCEPT ![r] =
                        [up[r] EXCEPT !.st = "next", !.ft = "error",
                                      !.cached = FALSE]]
            /\ UNCHANGED conn
       [] result = "failed" ->
            /\ up' = [up EXCEPT ![r] =
                        [up[r] EXCEPT !.st = "finish", !.ft = "internal",
                                      !.cached = FALSE]]
            /\ UNCHANGED conn
  /\ UNCHANGED <<cache, free, exiting>>

\* ngx_http_upstream_connect, when no server is left: "no live upstreams".
ConnectBusy(r) ==
  /\ up[r].st = "connect"
  /\ GetBusy(r)
  /\ up' = [up EXCEPT ![r] = [up[r] EXCEPT !.st = "next", !.ft = "nolive",
                                           !.cached = FALSE]]
  /\ UNCHANGED <<conn, cache, free, exiting>>

\* The connection is made or refused: ngx_http_upstream_send_request.
Connected(r) ==
  /\ Idle /\ up[r].st = "connecting"
  /\ up' = [up EXCEPT ![r] = IF conn[up[r].conn].dead
                             THEN [up[r] EXCEPT !.st = "next", !.ft = "error"]
                             ELSE Sent(up[r])]
  /\ UNCHANGED <<rrvars, conn, cache, free, exiting>>

\* A timer of the request fires, or its connection fails.
Fails(r, ft) ==
  /\ Idle /\ up[r].st \in {"connecting", "sent"}
  /\ ft = "invalid_header" => up[r].st = "sent"
  /\ rr[r].current \in Failing
  /\ up' = [up EXCEPT ![r] = [up[r] EXCEPT !.st = "next", !.ft = ft]]
  /\ UNCHANGED <<rrvars, conn, cache, free, exiting>>

\* The kinds a failure counts as: a request already sent that must not be
\* repeated needs "non_idempotent" as well.
Mask(u) == {u.ft} \cup (IF u.sent /\ u.post THEN {"non_idempotent"} ELSE {})

\* An error status of the server: it is retried when a try is left and
\* passed on to the client otherwise.
ErrorStatus(r, ft) ==
  /\ Idle /\ up[r].st = "sent"
  /\ rr[r].current \in Failing
  /\ LET u == [up[r] EXCEPT !.ft = ft]
     IN up' = [up EXCEPT ![r] =
                 IF u.tries > 1 /\ Mask(u) \subseteq NextOn
                 THEN [u EXCEPT !.st = "next"]
                 ELSE [u EXCEPT !.st = "finish", !.ft = "none"]]
  /\ UNCHANGED <<rrvars, conn, cache, free, exiting>>

Retried(u) ==
  LET t == IF Single THEN 0 ELSE IF u.tries > 0 THEN u.tries - 1 ELSE 0
  IN IF u.cached /\ u.ft = "error" THEN t + 1 ELSE t

\* Whether a retry is allowed.  FT_NOLIVE is in nobody's proxy_next_upstream.
MayRetry(u, tries) == tries > 0 /\ Mask(u) \subseteq NextOn

Shut(c) == IF c = None THEN conn ELSE [conn EXCEPT ![c] = Closed]

\* The server failed, unless it answered 403 or 404: NGX_PEER_FAILED.
FreeFor(u) == u.ft # "http_404"

\* Variant: the balancer is not told.
GivenBack_Forgotten(r, u) == /\ rr' = [rr EXCEPT ![r].held = FALSE]
                             /\ UNCHANGED peer

\* A server that was chosen is given back to the balancer.
GivenBack(r, u) == IF rr[r].held THEN FreePeer(r, FreeFor(u), FALSE)
                                 ELSE UNCHANGED rrvars

\* Variant: the oldest one is not closed.
Saved_Leaks(c) ==
  [cache |-> <<c>> \o (IF free = 0 THEN Front(cache) ELSE cache),
   free  |-> IF free = 0 THEN 0 ELSE free - 1,
   conn  |-> conn]

\* A connection enters the cache in place of the oldest one if it is full.
Saved(c) ==
  [cache |-> <<c>> \o (IF free = 0 THEN Front(cache) ELSE cache),
   free  |-> IF free = 0 THEN 0 ELSE free - 1,
   conn  |-> IF free = 0 THEN Shut(Last(cache)) ELSE conn]

\* What is checked before: reusable says that no limit was reached, no error
\* seen and the response complete.
MaySave(r, reusable) == rr[r].held /\ reusable /\ ~exiting

\* ngx_http_upstream_free_keepalive_peer and what its caller does with the
\* connection it left: it is saved or closed.  A saved connection that is
\* readable at once, because the server closed it, is closed by its new
\* handler.
LeftBy(c, save) ==
  LET s == Saved(c)
  IN \/ /\ save
        /\ cache' = s.cache /\ free' = s.free /\ conn' = s.conn
     \/ /\ save /\ conn[c].dead
        /\ cache' = Tail(s.cache) /\ free' = s.free + 1
        /\ conn' = [s.conn EXCEPT ![c] = Closed]
     \/ /\ ~save
        /\ conn' = Shut(c)
        /\ UNCHANGED <<cache, free>>

\* ngx_http_upstream_next: the server is freed and another one tried, or the
\* request given up.  A connection on which a whole 403 or 404 came (u->keepalive)
\* is saved.  stop: the client's connection failed, its unbuffered body was
\* sent, or proxy_next_upstream_timeout is over.
NextServer(r, keepalive, stop) ==
  /\ up[r].st = "next"
  /\ LET u == up[r]
         tries == IF rr[r].held THEN Retried(u) ELSE u.tries
         retry == MayRetry(u, tries) /\ ~stop
     IN /\ GivenBack(r, u)
        /\ LeftBy(u.conn, MaySave(r, keepalive /\ ~FreeFor(u)))
        /\ up' = [up EXCEPT ![r] =
                    [u EXCEPT !.tries = tries, !.conn = None,
                              !.st = IF retry THEN "connect" ELSE "finish",
                              !.ft = IF retry THEN "none"
                                     ELSE IF stop THEN "stopped" ELSE u.ft]]
  /\ UNCHANGED exiting

\* The response was passed on; keep says that the connection may be used
\* again: no limit reached, no error seen and the response complete.
Answer(r, keep) ==
  /\ Idle /\ up[r].st = "sent"
  /\ up' = [up EXCEPT ![r] = [up[r] EXCEPT !.st = "finish",
                                           !.ft = IF keep THEN "keep" ELSE "none"]]
  /\ UNCHANGED <<rrvars, conn, cache, free, exiting>>

\* The client closed its connection.
ClientGone(r) ==
  /\ Idle /\ up[r].st \in {"connecting", "sent"}
  /\ up' = [up EXCEPT ![r] = [up[r] EXCEPT !.st = "finish", !.ft = "none"]]
  /\ UNCHANGED <<rrvars, conn, cache, free, exiting>>

\* ngx_http_upstream_finalize_request: the server is freed, the connection
\* saved or closed.
Finish(r) ==
  /\ up[r].st = "finish"
  /\ IF rr[r].held THEN FreePeer(r, FALSE, TRUE) ELSE InitPeer(r)
  /\ LeftBy(up[r].conn, MaySave(r, up[r].ft = "keep"))
  /\ up' = [up EXCEPT ![r] = FreshUp]
  /\ UNCHANGED exiting

\* A server closes a connection.
ServerCloses(c) ==
  /\ conn[c].open /\ ~conn[c].dead
  /\ Idle
  /\ conn' = [conn EXCEPT ![c].dead = TRUE]
  /\ UNCHANGED <<rrvars, cache, free, up, exiting>>

\* ngx_http_upstream_keepalive_close_handler: a cached connection is
\* readable or was idle for keepalive_timeout.
CloseHandler(i) ==
  /\ Idle /\ i \in DOMAIN cache
  /\ conn' = Shut(cache[i])
  /\ Taken(i)
  /\ UNCHANGED <<rrvars, up, exiting>>

\* The worker starts to exit and closes its idle connections.
Exit ==
  /\ Idle /\ ~exiting
  /\ exiting' = TRUE
  /\ conn' = [c \in Conns |-> IF Contains(cache, c) THEN Closed ELSE conn[c]]
  /\ cache' = <<>> /\ free' = free + Len(cache)
  /\ UNCHANGED <<rrvars, up>>

\* A second passes between two turns of the event loop.
Second == Idle /\ Tick /\ UNCHANGED <<conn, cache, free, up, exiting>>

\* The rest of a handler that began to connect, retry or finish.
Handler(r) == \/ ConnectCached(r)
              \/ \E res \in {"again", "declined", "failed"} : ConnectNew(r, res)
              \/ ConnectBusy(r)
              \/ \E keepalive, stop \in BOOLEAN : NextServer(r, keepalive, stop)
              \/ Finish(r)

\* What the server or a timer does to a request.
Event(r) == \/ Connected(r)
            \/ \E ft \in {"error", "timeout", "invalid_header"} : Fails(r, ft)
            \/ \E ft \in {"http_404", "http_500"} : ErrorStatus(r, ft)
            \/ \E keep \in BOOLEAN : Answer(r, keep)

Next == \/ \E r \in Reqs : \/ \E post \in BOOLEAN : Start(r, post)
                           \/ Handler(r)
                           \/ Event(r)
                           \/ ClientGone(r)
        \/ \E c \in Conns : ServerCloses(c)
        \/ \E i \in 1..MaxCached : CloseHandler(i)
        \/ Exit
        \/ Second

Spec == Init /\ [][Next]_vars

----------------------------------------------------------------------------

(* Type invariant of the upstream: the peers, the connections and the        *)
(* requests.                                                                 *)
TypeOK ==
  /\ RRTypeOK
  /\ conn \in [Conns -> [open : BOOLEAN, server : Peers \cup {None},
                         dead : BOOLEAN]]
  /\ cache \in Seq(Conns) /\ Len(cache) <= MaxCached
  /\ free \in 0..MaxCached
  /\ \A r \in Reqs :
       /\ up[r].st \in {"idle", "connect", "connecting", "sent", "next", "finish"}
       /\ up[r].tries \in 0..Cardinality(Peers) + 1
       /\ up[r].conn \in Conns \cup {None}
  /\ exiting \in BOOLEAN

InUse == {up[r].conn : r \in Reqs} \ {None}

\* Every open connection to a server is either idle in the cache or used by
\* one request, none is both or lost, and the cache's items are all there:
\* with saving, eviction, reuse, retries and closing by either side in any
\* order.
CacheExact ==
  /\ IsInjective(cache)
  /\ free + Len(cache) = MaxCached
  /\ {c \in Conns : conn[c].open} = ToSet(cache) \cup InUse
  /\ ToSet(cache) \cap InUse = {}
  /\ \A q, r \in Reqs : q # r /\ up[q].conn # None => up[q].conn # up[r].conn

\* A request that must not be repeated is sent at most once, through every
\* retry on other servers and on cached connections that turn out closed.
NotResent ==
  \A r \in Reqs : up[r].post /\ "non_idempotent" \notin NextOn => up[r].sends <= 1

\* An exiting worker keeps no idle connection, also when a request that ends
\* later could have left one.
ExitingDrains == exiting => cache = <<>>

\* Seen from the balancer, a request takes a server, gives it back exactly
\* once whatever its end, and only then takes the next.
BalancerFollowed == RRNext \/ UNCHANGED rrvars

\* A client of a single server does not see a server that closed its idle
\* connections: a request that may be repeated, and that nothing stops, never
\* ends in "bad gateway" because a cached connection failed.
StaleHidden ==
  \A r \in Reqs :
    Single /\ up[r].st = "finish" /\ up[r].ft = "error" /\ ~up[r].post
      => ~up[r].cached

============================================================================
