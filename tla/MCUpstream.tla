----------------------------- MODULE MCUpstream -----------------------------
(* What is between a worker and its servers, files and limits, side by side  *)
(* for TLC: the proxied request with the balancer and the cached             *)
(* connections, the resolver, the event pipe, the cache of open files and the *)
(* limits. The parts have no variable in common, so a behaviour is of one of *)
(* them.                                                                     *)
EXTENDS Integers, TLC

CONSTANTS Users,  \* requests or workers
          Names,  \* of files or hosts, or keys
          Nodes   \* inodes of files

VARIABLES part,  \* which of the parts below this behaviour is of
          peer, rr, conn, cache, free, up, exiting,  \* NgxUpstream
          server, choice,  \* NgxRoundRobin
          node, resend, expire, timer, ctx, stack, alert,  \* NgxResolver
          p, source, sent,  \* NgxEventPipe
          disk, s, req, seen, down,  \* NgxOpenFileCache
          clock, zone, worker, paid, left,  \* NgxLimitReq
          count, limited  \* NgxLimitConn

\* The value of the variables of the parts that are not there.
Off == "off"

\* The order of users, names and inodes is of no concern.
Symmetric == Permutations(Users) \cup Permutations(Names) \cup Permutations(Nodes)

-----------------------------------------------------------------------------
U == INSTANCE NgxUpstream WITH
    Reqs <- Users, Weight <- <<1, 1>>, MaxFails <- <<1, 0>>, MaxConns <- <<1, 1>>,
    Backup <- {2}, Down <- {}, Failing <- {1, 2}, FailTimeout <- 0,
    Conns <- {1, 2, 3}, MaxCached <- 1, NextOn <- {"error", "timeout", "http_404"},
    Retries <- 0
U1 == INSTANCE NgxUpstream WITH
    Reqs <- Users, Weight <- <<1>>, MaxFails <- <<1>>, MaxConns <- <<0>>,
    Backup <- {}, Down <- {}, Failing <- {1}, FailTimeout <- 0,
    Conns <- {1, 2, 3, 4}, MaxCached <- 2,
    NextOn <- {"error", "timeout", "http_404"}, Retries <- 0

RR == INSTANCE NgxRoundRobin WITH
    Reqs <- Users, Weight <- <<2, 1, 1>>, MaxFails <- <<2, 1, 1>>,
    MaxConns <- <<0, 1, 0>>, Backup <- {3}, Down <- {}, Failing <- {1},
    FailTimeout <- 1, peer <- server, rr <- choice

R == INSTANCE NgxResolver WITH
    Names <- Names, BadNames <- {}, Ctxs <- Users,
    Cnames <- {n \in Names \X Names : n[1] # n[2]},
    Answers <- {"some", "none", "cname"}, Ipv6 <- TRUE, MaxRecursion <- 1,
    MaxDepth <- 2
RN == INSTANCE NgxResolver WITH
    Names <- {"a", "b", "c"}, BadNames <- {"c"}, Ctxs <- {"x"},
    Cnames <- {<<"a", "b">>, <<"b", "a">>, <<"a", "c">>},
    Answers <- {"some", "none", "error", "cname", "trunc", "useless"},
    Ipv6 <- FALSE, MaxRecursion <- 2, MaxDepth <- 2

P == INSTANCE NgxEventPipe WITH
    Total <- 7, Length <- -1, Size <- 2, Num <- 2, Header <- 1, BusySize <- 2,
    MaxTempFile <- 5, TempWrite <- 3, Postpone <- 2, Cacheable <- FALSE,
    up <- source
PB == INSTANCE NgxEventPipe WITH
    Total <- 9, Length <- 8, Size <- 2, Num <- 3, Header <- 0, BusySize <- 4,
    MaxTempFile <- 0, TempWrite <- 2, Postpone <- 3, Cacheable <- FALSE,
    up <- source
PC == INSTANCE NgxEventPipe WITH
    Total <- 7, Length <- 6, Size <- 2, Num <- 2, Header <- 1, BusySize <- 2,
    MaxTempFile <- 2, TempWrite <- 2, Postpone <- 4, Cacheable <- TRUE, up <- source

O == INSTANCE NgxOpenFileCache WITH
    Reqs <- Users, Names <- Names, Inodes <- Nodes, CacheMax <- 1,
    Inactive <- 0, Valid <- 1, MinUses <- 1, CacheErrors <- FALSE, MaxLost <- 1
OR == INSTANCE NgxOpenFileCache WITH
    Reqs <- Users, Names <- Names, Inodes <- {"a"}, CacheMax <- 1, Inactive <- 0,
    Valid <- 1, MinUses <- 2, CacheErrors <- TRUE, MaxLost <- 1
O2 == INSTANCE NgxOpenFileCache WITH
    Reqs <- {1}, Names <- Names, Inodes <- {"a"}, CacheMax <- 2, Inactive <- 0,
    Valid <- 1, MinUses <- 1, CacheErrors <- FALSE, MaxLost <- 2

Q == INSTANCE NgxLimitReq WITH
    Workers <- Users, Keys <- Names, NoKey <- "",
    Limits <- <<[rate |-> 2, burst |-> 0, delay |-> 0, slots |-> 1],
                [rate |-> 2, burst |-> 0, delay |-> 0, slots |-> 2]>>,
    Unit <- 2, Minute <- 4, Stale <- 1, Start <- 10, MaxTicks <- 2, MaxRequests <- 3
QR == INSTANCE NgxLimitReq WITH
    Workers <- Users, Keys <- Names, NoKey <- "",
    Limits <- <<[rate |-> 3, burst |-> 4, delay |-> 2, slots |-> 1]>>, Unit <- 2,
    Minute <- 3, Stale <- 1, Start <- 10, MaxTicks <- 4, MaxRequests <- 5

N == INSTANCE NgxLimitConn WITH
    Requests <- Users, Keys <- Names, NoKey <- "",
    Limits <- <<[conn |-> 1, slots |-> 2], [conn |-> 2, slots |-> 1]>>,
    Locations <- {<<1, 2>>, <<2>>}, DryRun <- FALSE, MaxRedirects <- 1,
    conn <- count, req <- limited

ASSUME Assumptions ==
    /\ U!PeersAssumption /\ U!UpstreamAssumption /\ U1!PeersAssumption
       /\ U1!UpstreamAssumption
    /\ RR!PeersAssumption
    /\ R!ResolverAssumption /\ RN!ResolverAssumption
    /\ P!ConfAssumption /\ PB!ConfAssumption /\ PC!ConfAssumption
    /\ O!CacheAssumption /\ OR!CacheAssumption /\ O2!CacheAssumption
    /\ Q!LimitsAssumption /\ QR!LimitsAssumption
    /\ N!LimitsAssumption

-----------------------------------------------------------------------------
UpstreamVars == <<peer, rr, conn, cache, free, up, exiting>>
PeersVars == <<server, choice>>
ResolverVars == <<node, resend, expire, timer, ctx, stack, alert>>
PipeVars == <<p, source, sent>>
OpenVars == <<disk, s, req, seen, down>>
LimitReqVars == <<clock, zone, worker, paid, left>>
LimitConnVars == <<count, limited>>

NoUpstream == peer = Off /\ rr = Off /\ conn = Off /\ cache = Off /\ free = Off /\
              up = Off /\ exiting = Off
NoPeers == server = Off /\ choice = Off
NoResolver == node = Off /\ resend = Off /\ expire = Off /\ timer = Off /\
              ctx = Off /\ stack = Off /\ alert = Off
NoPipe == p = Off /\ source = Off /\ sent = Off
NoOpen == disk = Off /\ s = Off /\ req = Off /\ seen = Off /\ down = Off
NoLimitReq == clock = Off /\ zone = Off /\ worker = Off /\ paid = Off /\ left = Off
NoLimitConn == count = Off /\ limited = Off

Init ==
    \/ /\ \/ part = "upstream" /\ U!Init
          \/ part = "single server" /\ U1!Init
       /\ NoPeers /\ NoResolver /\ NoPipe /\ NoOpen /\ NoLimitReq /\ NoLimitConn
    \/ /\ part = "balancer" /\ RR!RRInit
       /\ NoUpstream /\ NoResolver /\ NoPipe /\ NoOpen /\ NoLimitReq /\ NoLimitConn
    \/ /\ \/ part = "resolver" /\ R!Init
          \/ part = "resolver names" /\ RN!Init
       /\ NoUpstream /\ NoPeers /\ NoPipe /\ NoOpen /\ NoLimitReq /\ NoLimitConn
    \/ /\ \/ part = "pipe" /\ P!Init
          \/ part = "pipe without file" /\ PB!Init
          \/ part = "pipe to cache" /\ PC!Init
       /\ NoUpstream /\ NoPeers /\ NoResolver /\ NoOpen /\ NoLimitReq /\ NoLimitConn
    \/ /\ \/ part = "open files" /\ O!Init
          \/ part = "open files rarely used" /\ OR!Init
          \/ part = "open files of two" /\ O2!Init
       /\ NoUpstream /\ NoPeers /\ NoResolver /\ NoPipe /\ NoLimitReq /\ NoLimitConn
    \/ /\ \/ part = "limit_req" /\ Q!Init
          \/ part = "limit_req rate" /\ QR!Init
       /\ NoUpstream /\ NoPeers /\ NoResolver /\ NoPipe /\ NoOpen /\ NoLimitConn
    \/ /\ part = "limit_conn" /\ N!Init
       /\ NoUpstream /\ NoPeers /\ NoResolver /\ NoPipe /\ NoOpen /\ NoLimitReq

Next ==
    \/ /\ \/ part = "upstream" /\ U!Next
          \/ part = "single server" /\ U1!Next
       /\ UNCHANGED <<part, PeersVars, ResolverVars, PipeVars, OpenVars, LimitReqVars, LimitConnVars>>
    \/ /\ part = "balancer" /\ RR!RRNext
       /\ UNCHANGED <<part, UpstreamVars, ResolverVars, PipeVars, OpenVars, LimitReqVars, LimitConnVars>>
    \/ /\ \/ part = "resolver" /\ R!Next
          \/ part = "resolver names" /\ RN!Next
       /\ UNCHANGED <<part, UpstreamVars, PeersVars, PipeVars, OpenVars, LimitReqVars, LimitConnVars>>
    \/ /\ \/ part = "pipe" /\ P!Next
          \/ part = "pipe without file" /\ PB!Next
          \/ part = "pipe to cache" /\ PC!Next
       /\ UNCHANGED <<part, UpstreamVars, PeersVars, ResolverVars, OpenVars, LimitReqVars, LimitConnVars>>
    \/ /\ \/ part = "open files" /\ O!Next
          \/ part = "open files rarely used" /\ OR!Next
          \/ part = "open files of two" /\ O2!Next
       /\ UNCHANGED <<part, UpstreamVars, PeersVars, ResolverVars, PipeVars,
          LimitReqVars, LimitConnVars>>
    \/ /\ \/ part = "limit_req" /\ Q!Next
          \/ part = "limit_req rate" /\ QR!Next
       /\ UNCHANGED <<part, UpstreamVars, PeersVars, ResolverVars, PipeVars,
          OpenVars, LimitConnVars>>
    \/ /\ part = "limit_conn" /\ N!Next
       /\ UNCHANGED <<part, UpstreamVars, PeersVars, ResolverVars, PipeVars,
          OpenVars, LimitReqVars>>

vars == <<part, UpstreamVars, PeersVars, ResolverVars, PipeVars, OpenVars, LimitReqVars, LimitConnVars>>
Spec == Init /\ [][Next]_vars

-----------------------------------------------------------------------------
(* A proxied request and the cache of connections to its servers: every open *)
(* connection is in one place, what must not be repeated is sent once, and a *)
(* client of one server does not see its idle connections closed; the        *)
(* balancer counts exactly, its weights balance, and a server that was taken *)
(* out is tried by one request at a time.                                    *)
UpstreamSound ==
    /\ part = "upstream" => /\ U!TypeOK /\ U!CacheExact /\ U!NotResent /\ U!ExitingDrains
                            /\ U!ConnsExact /\ U!WeightsBalance
    /\ part = "single server" => U1!CacheExact /\ U1!StaleHidden
    /\ part = "balancer" => RR!RRTypeOK /\ RR!ConnsExact /\ RR!WeightsBalance /\ RR!ProbesApart

(* The resolver: whoever waits is in one list, once, and nobody else is; the *)
(* queues agree with the names, and an unanswered query is repeated.         *)
ResolverSound ==
    /\ part = "resolver" => R!TypeOK /\ R!WaitsOnce /\ R!NoAlert /\ R!QueuesExact /\ R!TimerArmed
    /\ part = "resolver names" => RN!WaitsOnce /\ RN!NoAlert /\ RN!QueuesExact /\ RN!TimerArmed

(* A buffered response: the client and the cache file get it whole, in order *)
(* and once, through buffers that are never read into while they are unsent, *)
(* in the memory and the disk space that were configured, and the pipe waits *)
(* for nobody who does not come.                                             *)
PipeSound ==
    /\ part = "pipe" => P!TypeOK /\ P!Exact /\ P!Accounted /\ P!Bounded /\ P!NotStuck
    /\ part = "pipe without file" => PB!Exact /\ PB!Bounded /\ PB!NotStuck
    /\ part = "pipe to cache" => PC!Exact /\ PC!FileExact

(* The cache of open files: a descriptor is open as long as somebody reads   *)
(* from it, closed once, and no name is cached twice.                        *)
OpenFilesSound ==
    /\ part = "open files" => O!TypeOK /\ O!HeldValid /\ O!FdsOwned /\ O!CountExact /\ O!CachedOnce
    /\ part = "open files rarely used" => OR!HeldValid /\ OR!FdsOwned /\ OR!CountExact /\ OR!CachedOnce
    /\ part = "open files of two" => O2!HeldValid /\ O2!FdsOwned /\ O2!CountExact /\ O2!CachedOnce

(* The limits: a node that a worker holds between its visits stays, no key   *)
(* gets more requests than rate and burst allow, however old the workers'    *)
(* clocks are, and no more at a time than limit_conn says.                   *)
LimitsSound ==
    /\ part = "limit_req" => Q!TypeOK /\ Q!HeldStays /\ Q!RateKept
    /\ part = "limit_req rate" => QR!HeldStays /\ QR!RateKept /\ QR!Smoothed
    /\ part = "limit_conn" => N!TypeOK /\ N!CountsExact /\ N!LimitKept /\ N!RefusedFree

(* What a step may never do: to the balancer, anything but take a server or  *)
(* give it back once; to a request, hand it a file its name stopped meaning  *)
(* long ago; to a new key, refuse it room that nobody uses.                  *)
StepsSound ==
    [][/\ part = "upstream" => U!BalancerFollowed
       /\ part = "open files" => O!NotStale
       /\ part = "open files rarely used" => OR!NotStale
       /\ part = "limit_req" => Q!FullOnlyWhenHeld]_vars
=============================================================================
