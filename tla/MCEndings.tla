----------------------------- MODULE MCEndings -----------------------------
(* What must happen in the end: small instances of the parts with their      *)
(* fairness, side by side for TLC. They have no variable in common, so a     *)
(* behaviour is of one of them, and a formula of fairness or a promise may   *)
(* be of several parts at once.                                              *)
EXTENDS Integers, Sequences

VARIABLES part,  \* which of the parts below this behaviour is of
          delay, conn, loop, net, stat, stop, ended, env,  \* Wrk
          stats, th, phase,  \* WrkStats
          job, parent, child, pipe, faults,  \* Benchmp
          lock, wait, sem, pc, saw, calls, died,  \* NgxShmtx
          table, os, mail, pending, flags, binary, m, cycle, pidfile, trouble,  \* NgxMaster
          w, round, batch, mutex, held, seen,  \* NgxEvents
          tree, in, now, step, want,  \* NgxTimers
          c, sent, answered, exiting,  \* NgxHttpConn
          doc, s, cur,  \* NgxSubrequests
          h, client,  \* NgxHttp2
          peer, rr, link, cache, free, up, leaving,  \* NgxUpstream
          node, resend, expire, timer, ctx, stack, alert,  \* NgxResolver
          p, source, passed  \* NgxEventPipe

\* The value of the variables of the parts that are not there.
Off == "off"

\* Requests: pipelined ones that need large buffers; one with a bad line.
Req(blank, units, bad) == [blank |-> blank, units |-> units, keep |-> TRUE, bad |-> bad]
KeptAlive == <<Req(0, <<2, 2, 1>>, 0), Req(1, <<1, 1>>, 0)>>
Bad == <<Req(0, <<1, 1>>, 0), Req(0, <<1, 1>>, 2)>>

\* Trees of subrequests: nested ones and siblings.
Docs == {<<<<2>>, a, b>> : a \in {<<0, 3>>, <<3, 0>>}, b \in {<<0>>, <<>>}}
        \cup {<<main, a, <<0>>>> : main \in {<<2, 3>>, <<2, 0, 3>>}, a \in {<<0>>, <<>>}}

-----------------------------------------------------------------------------
W == INSTANCE Wrk WITH Conns <- {1}, Pipeline <- 1, MaxBatches <- 1, MaxFaults <- 1

S == INSTANCE WrkStats WITH Threads <- 1..2, Limit <- 2, Pipeline <- 1

B == INSTANCE Benchmp WITH
    Parallel <- 2, Reps <- 2, Cleanup <- FALSE, MaxFaults <- 2

M == INSTANCE NgxShmtx WITH
    Workers <- 1..2, Master <- 9, MaxLocks <- 1, MaxKills <- 1

P == INSTANCE NgxMaster WITH
    Slots <- 1..3, Workers <- 1, Operator <- {"HUP", "QUIT", "TERM"},
    KillAfter <- 1, MaxSignals <- 2, MaxFaults <- 1, env <- trouble

E == INSTANCE NgxEvents WITH
    Slots <- 1..2, Listens <- {"l"}, MaxConns <- 2, phase <- round

T == INSTANCE NgxTimers WITH
    N <- 2, Width <- 8, KeysOf <- [n \in 1..2 |-> {}], Delays <- {1}, Lazy <- 1,
    Late <- 0, MaxWait <- 1, Cancelable <- {1}, phase <- step

H == INSTANCE NgxHttpConn WITH
    Requests <- KeptAlive, HeaderBuffer <- 3, LargeSize <- 4, LargeNum <- 2,
    InPool <- FALSE, KeepaliveRequests <- 5, Faults <- {}
HB == INSTANCE NgxHttpConn WITH
    Requests <- Bad, HeaderBuffer <- 3, LargeSize <- 4, LargeNum <- 2,
    InPool <- TRUE, KeepaliveRequests <- 5, Faults <- {"fin", "timeout", "quit"}

SR == INSTANCE NgxSubrequests WITH Docs <- Docs

H2 == INSTANCE NgxHttp2 WITH
    Body <- <<2, 1>>, Prio <- <<1, 2>>, Chunk <- 2, ConnWindow <- 1,
    InitWindow <- 1, MaxWindow <- 9, Grants <- {2}, ConnMax <- 3, StreamMax <- 3,
    Inits <- {0}, MaxSettings <- 1, Split <- FALSE, Failures <- FALSE

U == INSTANCE NgxUpstream WITH
    Reqs <- {1}, Weight <- <<1, 1>>, MaxFails <- <<1, 1>>, MaxConns <- <<0, 0>>,
    Backup <- {2}, Down <- {}, Failing <- {1, 2}, FailTimeout <- 0, Conns <- {1, 2},
    MaxCached <- 1, NextOn <- {"error", "timeout", "http_404"}, Retries <- 0,
    conn <- link, exiting <- leaving

R == INSTANCE NgxResolver WITH
    Names <- {"a"}, BadNames <- {}, Ctxs <- {"x", "y"}, Cnames <- {},
    Answers <- {"some", "error"}, Ipv6 <- TRUE, MaxRecursion <- 1, MaxDepth <- 2

EP == INSTANCE NgxEventPipe WITH
    Total <- 4, Length <- -1, Size <- 2, Num <- 2, Header <- 1, BusySize <- 2,
    MaxTempFile <- 2, TempWrite <- 2, Postpone <- 2, Cacheable <- FALSE,
    up <- source, sent <- passed

ASSUME Assumptions ==
    /\ W!PipelineAssumption /\ W!BoundsAssumption
    /\ S!LimitAssumption /\ S!StatsPipelineAssumption
    /\ B!ParallelAssumption /\ B!RepsAssumption
    /\ M!MasterAssumption /\ M!BoundsAssumption /\ M!PidAssumption
    /\ P!WorkersAssumption /\ P!BoundsAssumption /\ P!OperatorAssumption
       /\ P!SlotsAssumption
    /\ E!SlotsAssumption
    /\ T!RbtreeAssumption /\ T!TimersAssumption
    /\ H!RequestsAssumption /\ H!SizesAssumption /\ HB!RequestsAssumption
       /\ HB!SizesAssumption
    /\ SR!DocsAssumption
    /\ H2!ConstantsAssumption
    /\ U!PeersAssumption /\ U!UpstreamAssumption
    /\ R!ResolverAssumption
    /\ EP!ConfAssumption

-----------------------------------------------------------------------------
WrkVars == <<delay, conn, loop, net, stat, stop, ended, env>>
StatsVars == <<stats, th, phase>>
BenchmpVars == <<job, parent, child, pipe, faults>>
ShmtxVars == <<lock, wait, sem, pc, saw, calls, died>>
MasterVars == <<table, os, mail, pending, flags, binary, m, cycle, pidfile, trouble>>
EventsVars == <<w, round, batch, mutex, held, seen>>
TimersVars == <<tree, in, now, step, want>>
HttpVars == <<c, sent, answered, exiting>>
SubVars == <<doc, s, cur>>
H2Vars == <<h, client>>
UpstreamVars == <<peer, rr, link, cache, free, up, leaving>>
ResolverVars == <<node, resend, expire, timer, ctx, stack, alert>>
PipeVars == <<p, source, passed>>

NoWrk == delay = Off /\ conn = Off /\ loop = Off /\ net = Off /\ stat = Off /\
         stop = Off /\ ended = Off /\ env = Off
NoStats == stats = Off /\ th = Off /\ phase = Off
NoBenchmp == job = Off /\ parent = Off /\ child = Off /\ pipe = Off /\ faults = Off
NoShmtx == lock = Off /\ wait = Off /\ sem = Off /\ pc = Off /\ saw = Off /\
           calls = Off /\ died = Off
NoMaster == table = Off /\ os = Off /\ mail = Off /\ pending = Off /\ flags = Off /\
            binary = Off /\ m = Off /\ cycle = Off /\ pidfile = Off /\ trouble = Off
NoEvents == w = Off /\ round = Off /\ batch = Off /\ mutex = Off /\ held = Off /\
            seen = Off
NoTimers == tree = Off /\ in = Off /\ now = Off /\ step = Off /\ want = Off
NoHttp == c = Off /\ sent = Off /\ answered = Off /\ exiting = Off
NoSub == doc = Off /\ s = Off /\ cur = Off
NoH2 == h = Off /\ client = Off
NoUpstream == peer = Off /\ rr = Off /\ link = Off /\ cache = Off /\ free = Off /\
              up = Off /\ leaving = Off
NoResolver == node = Off /\ resend = Off /\ expire = Off /\ timer = Off /\
              ctx = Off /\ stack = Off /\ alert = Off
NoPipe == p = Off /\ source = Off /\ passed = Off

Init ==
    \/ /\ part = "wrk" /\ W!Init
       /\ NoStats /\ NoBenchmp /\ NoShmtx /\ NoMaster /\ NoEvents /\ NoTimers /\
          NoHttp /\ NoSub /\ NoH2 /\ NoUpstream /\ NoResolver /\ NoPipe
    \/ /\ part = "stats" /\ S!Init
       /\ NoWrk /\ NoBenchmp /\ NoShmtx /\ NoMaster /\ NoEvents /\ NoTimers /\
          NoHttp /\ NoSub /\ NoH2 /\ NoUpstream /\ NoResolver /\ NoPipe
    \/ /\ part = "benchmp" /\ B!Init
       /\ NoWrk /\ NoStats /\ NoShmtx /\ NoMaster /\ NoEvents /\ NoTimers /\
          NoHttp /\ NoSub /\ NoH2 /\ NoUpstream /\ NoResolver /\ NoPipe
    \/ /\ part = "shmtx" /\ M!Init
       /\ NoWrk /\ NoStats /\ NoBenchmp /\ NoMaster /\ NoEvents /\ NoTimers /\
          NoHttp /\ NoSub /\ NoH2 /\ NoUpstream /\ NoResolver /\ NoPipe
    \/ /\ part = "master" /\ P!Init
       /\ NoWrk /\ NoStats /\ NoBenchmp /\ NoShmtx /\ NoEvents /\ NoTimers /\
          NoHttp /\ NoSub /\ NoH2 /\ NoUpstream /\ NoResolver /\ NoPipe
    \/ /\ part = "events" /\ E!Init
       /\ NoWrk /\ NoStats /\ NoBenchmp /\ NoShmtx /\ NoMaster /\ NoTimers /\
          NoHttp /\ NoSub /\ NoH2 /\ NoUpstream /\ NoResolver /\ NoPipe
    \/ /\ part = "timers" /\ T!Init
       /\ NoWrk /\ NoStats /\ NoBenchmp /\ NoShmtx /\ NoMaster /\ NoEvents /\
          NoHttp /\ NoSub /\ NoH2 /\ NoUpstream /\ NoResolver /\ NoPipe
    \/ /\ \/ part = "http" /\ H!Init
          \/ part = "http bad" /\ HB!Init
       /\ NoWrk /\ NoStats /\ NoBenchmp /\ NoShmtx /\ NoMaster /\ NoEvents /\
          NoTimers /\ NoSub /\ NoH2 /\ NoUpstream /\ NoResolver /\ NoPipe
    \/ /\ part = "subrequests" /\ SR!Init
       /\ NoWrk /\ NoStats /\ NoBenchmp /\ NoShmtx /\ NoMaster /\ NoEvents /\
          NoTimers /\ NoHttp /\ NoH2 /\ NoUpstream /\ NoResolver /\ NoPipe
    \/ /\ part = "http2" /\ H2!Init
       /\ NoWrk /\ NoStats /\ NoBenchmp /\ NoShmtx /\ NoMaster /\ NoEvents /\
          NoTimers /\ NoHttp /\ NoSub /\ NoUpstream /\ NoResolver /\ NoPipe
    \/ /\ part = "upstream" /\ U!Init
       /\ NoWrk /\ NoStats /\ NoBenchmp /\ NoShmtx /\ NoMaster /\ NoEvents /\
          NoTimers /\ NoHttp /\ NoSub /\ NoH2 /\ NoResolver /\ NoPipe
    \/ /\ part = "resolver" /\ R!Init
       /\ NoWrk /\ NoStats /\ NoBenchmp /\ NoShmtx /\ NoMaster /\ NoEvents /\
          NoTimers /\ NoHttp /\ NoSub /\ NoH2 /\ NoUpstream /\ NoPipe
    \/ /\ part = "pipe" /\ EP!Init
       /\ NoWrk /\ NoStats /\ NoBenchmp /\ NoShmtx /\ NoMaster /\ NoEvents /\
          NoTimers /\ NoHttp /\ NoSub /\ NoH2 /\ NoUpstream /\ NoResolver

Next ==
    \/ /\ part = "wrk" /\ W!Next
       /\ UNCHANGED <<part, StatsVars, BenchmpVars, ShmtxVars, MasterVars,
          EventsVars, TimersVars, HttpVars, SubVars, H2Vars, UpstreamVars,
          ResolverVars, PipeVars>>
    \/ /\ part = "stats" /\ S!Next
       /\ UNCHANGED <<part, WrkVars, BenchmpVars, ShmtxVars, MasterVars,
          EventsVars, TimersVars, HttpVars, SubVars, H2Vars, UpstreamVars,
          ResolverVars, PipeVars>>
    \/ /\ part = "benchmp" /\ B!Next
       /\ UNCHANGED <<part, WrkVars, StatsVars, ShmtxVars, MasterVars,
          EventsVars, TimersVars, HttpVars, SubVars, H2Vars, UpstreamVars,
          ResolverVars, PipeVars>>
    \/ /\ part = "shmtx" /\ M!Next
       /\ UNCHANGED <<part, WrkVars, StatsVars, BenchmpVars, MasterVars,
          EventsVars, TimersVars, HttpVars, SubVars, H2Vars, UpstreamVars,
          ResolverVars, PipeVars>>
    \/ /\ part = "master" /\ P!Next
       /\ UNCHANGED <<part, WrkVars, StatsVars, BenchmpVars, ShmtxVars,
          EventsVars, TimersVars, HttpVars, SubVars, H2Vars, UpstreamVars,
          ResolverVars, PipeVars>>
    \/ /\ part = "events" /\ E!Next
       /\ UNCHANGED <<part, WrkVars, StatsVars, BenchmpVars, ShmtxVars,
          MasterVars, TimersVars, HttpVars, SubVars, H2Vars, UpstreamVars,
          ResolverVars, PipeVars>>
    \/ /\ part = "timers" /\ T!Next
       /\ UNCHANGED <<part, WrkVars, StatsVars, BenchmpVars, ShmtxVars,
          MasterVars, EventsVars, HttpVars, SubVars, H2Vars, UpstreamVars,
          ResolverVars, PipeVars>>
    \/ /\ \/ part = "http" /\ H!Next
          \/ part = "http bad" /\ HB!Next
       /\ UNCHANGED <<part, WrkVars, StatsVars, BenchmpVars, ShmtxVars,
          MasterVars, EventsVars, TimersVars, SubVars, H2Vars, UpstreamVars,
          ResolverVars, PipeVars>>
    \/ /\ part = "subrequests" /\ SR!Next
       /\ UNCHANGED <<part, WrkVars, StatsVars, BenchmpVars, ShmtxVars,
          MasterVars, EventsVars, TimersVars, HttpVars, H2Vars, UpstreamVars,
          ResolverVars, PipeVars>>
    \/ /\ part = "http2" /\ H2!Next
       /\ UNCHANGED <<part, WrkVars, StatsVars, BenchmpVars, ShmtxVars,
          MasterVars, EventsVars, TimersVars, HttpVars, SubVars, UpstreamVars,
          ResolverVars, PipeVars>>
    \/ /\ part = "upstream" /\ U!Next
       /\ UNCHANGED <<part, WrkVars, StatsVars, BenchmpVars, ShmtxVars,
          MasterVars, EventsVars, TimersVars, HttpVars, SubVars, H2Vars,
          ResolverVars, PipeVars>>
    \/ /\ part = "resolver" /\ R!Next
       /\ UNCHANGED <<part, WrkVars, StatsVars, BenchmpVars, ShmtxVars,
          MasterVars, EventsVars, TimersVars, HttpVars, SubVars, H2Vars,
          UpstreamVars, PipeVars>>
    \/ /\ part = "pipe" /\ EP!Next
       /\ UNCHANGED <<part, WrkVars, StatsVars, BenchmpVars, ShmtxVars,
          MasterVars, EventsVars, TimersVars, HttpVars, SubVars, H2Vars,
          UpstreamVars, ResolverVars>>

vars == <<part, WrkVars, StatsVars, BenchmpVars, ShmtxVars, MasterVars, EventsVars, TimersVars, HttpVars, SubVars, H2Vars, UpstreamVars, ResolverVars, PipeVars>>
(* Fairness, the k-th action of each part.  What the scheduling of processes *)
(* and threads and the event loop guarantee, once it stays possible: the     *)
(* loops of wrk run their timers and its main thread wakes up, processes go  *)
(* on, alarms go off, the master handles SIGCHLD, a worker serves its        *)
(* channel and its last connection closes or times out, handlers return and  *)
(* what is posted is run; the client of "http" sends and reads, that of      *)
(* "http bad" may do nothing, but timers expire; the server of "pipe" sends  *)
(* all and closes.  Nobody has to send a signal, to lock, or to die.         *)
Steady(k) ==
    \/ part = "wrk" /\ (IF k = 1 THEN W!RecordRate ELSE k = 2 /\ W!Stop)
    \/ part = "stats" /\ k \in 1..2 /\ S!Record(k)
    \/ part = "benchmp" /\ (IF k = 1 THEN B!ParentStep ELSE k \in 2..3 /\ B!ChildStep(k - 1))
    \/ part = "shmtx" /\ \/ k \in 1..2 /\ M!Proceed(k)
                         \/ k \in 3..4 /\ M!UnlockMutexes(k - 2)
                         \/ k \in 5..6 /\ M!Respawn(k - 4)
                         \/ k = 7 /\ M!Wakeup(9)
    \/ part = "master" /\ \/ k = 1 /\ P!Master
                          \/ k = 2 /\ P!Alarm
                          \/ k \in 3..5 /\ P!WorkerGoesOn(k - 2)
    \/ part = "events" /\ k = 1 /\ E!Work
    \/ part = "timers" /\ \/ k = 1 /\ T!Wait
                          \/ k = 2 /\ T!Handled
                          \/ k = 3 /\ T!Expire
    \/ part = "http" /\ \/ k = 1 /\ H!Turn
                        \/ k = 2 /\ H!Event
                        \/ k = 3 /\ H!RunPosted
                        \/ k = 4 /\ H!Send
                        \/ k = 5 /\ H!Output(TRUE)
    \/ part = "http bad" /\ \/ k = 1 /\ HB!Turn
                            \/ k = 2 /\ HB!Event
                            \/ k = 3 /\ HB!RunPosted
                            \/ k = 4 /\ HB!Timeout
                            \/ k = 5 /\ c.st = "process" /\ \E all \in BOOLEAN : HB!Output(all)
    \/ part = "subrequests" /\ (IF k = 1 THEN SR!Return ELSE k = 2 /\ SR!RunPosted)
    \/ part = "http2" /\ k = 1 /\ H2!Server
    \/ part = "upstream" /\ k = 1 /\ U!Handler(1)
    \/ part = "resolver" /\ k = 1 /\ R!Step
    \/ part = "pipe" /\ \/ k = 1 /\ EP!Pipe
                        \/ k = 2 /\ EP!UpstreamCloses
                        \/ k = 3 /\ \E n \in 1..4 : EP!Arrive(n)
                        \/ k = 4 /\ \E n \in 1..4 : EP!Finish(n)

(* What happens sooner or later when it is possible again and again: a peer  *)
(* whose socket is written to takes something, a client that reads opens its *)
(* windows, a request produces its output, an event or a timer that keeps    *)
(* coming up is served, and a question that is asked again and again is      *)
(* answered.  Nothing is assumed of the time-outs of resolver requests.      *)
Insistent(k) ==
    \/ part = "subrequests" /\ (IF k = 1 THEN SR!ClientTakes ELSE SR!GoesOn(k - 1))
    \/ part = "http2" /\ (IF k = 1 THEN H2!SocketTakes ELSE k = 2 /\ H2!WindowOpens)
    \/ part = "upstream" /\ k = 1 /\ U!Event(1)
    \/ part = "pipe" /\ k = 1 /\ EP!ClientTakes
    \/ part = "resolver" /\ \/ k = 1 /\ R!Resend
                            \/ k = 2 /\ R!Due(resend)
                            \/ k = 3 /\ R!Answer("a", "A")
                            \/ k = 4 /\ R!Answer("a", "AAAA")

\* The variables of the part that is there.
Own ==
    CASE part = "wrk" -> WrkVars
      [] part = "stats" -> StatsVars
      [] part = "benchmp" -> BenchmpVars
      [] part = "shmtx" -> ShmtxVars
      [] part = "master" -> MasterVars
      [] part = "events" -> EventsVars
      [] part = "timers" -> TimersVars
      [] part \in {"http", "http bad"} -> HttpVars
      [] part = "subrequests" -> SubVars
      [] part = "http2" -> H2Vars
      [] part = "upstream" -> UpstreamVars
      [] part = "resolver" -> ResolverVars
      [] part = "pipe" -> PipeVars

Spec == /\ Init /\ [][Next]_vars
        /\ \A k \in 1..7 : WF_Own(part' = part /\ Steady(k))
        /\ \A k \in 1..4 : SF_Own(part' = part /\ Insistent(k))

-----------------------------------------------------------------------------
(* The one way benchmp waits for ever: for children of a call that measured  *)
(* a baseline before.  They have inherited benchmp_sigterm, so that SIGTERM  *)
(* does not end them, and each waits for a byte the parent never writes, or  *)
(* for its benchmark's cleanup.  The parent has sent it and is in waitpid.   *)
Stubborn ==
    LET k == child[IF parent.pc = "wait" THEN parent.i + 1 ELSE parent.i] IN
    /\ parent.inherited = "benchmp_sigterm"
    /\ parent.pc \in {"wait", "undowait"} \/ (parent.pc = "await" /\ parent.alarmed)
    /\ \/ k.hung
       \/ k.st = "ready" /\ ~B!Readable("start")
       \/ k.st \in {"cooldown", "asked"} /\ ~B!Readable("result")
       \/ k.st = "sent" /\ ~B!Readable("exit")

(* What the programs of several processes owe, and what settles it: wrk's    *)
(* thread ends after "stop", also when its connections are silent; the loops *)
(* of compare-and-swap end, whatever the other thread stores meanwhile;      *)
(* benchmp returns, unless a child is stubborn; a call of ngx_shmtx_lock     *)
(* returns, also when holders and sleepers die; a signal to the master has   *)
(* its effect.                                                               *)
ProgramOwes(i) ==
    \/ part = "wrk" /\ stop
    \/ part = "stats" /\ th[1].pc = "data"
    \/ part = "benchmp"
    \/ part = "shmtx" /\ i <= 2 /\ pc[i] \in {"spin", "sleep"}
    \/ part = "master" /\ P!Signalled(i)
ProgramGives(i) ==
    \/ part = "wrk" /\ ended
    \/ part = "stats" /\ th[1].pc = "done"
    \/ part = "benchmp" /\ (parent.pc \in {"returned", "dead"} \/ Stubborn)
    \/ part = "shmtx" /\ i <= 2 /\ (pc[i] \in {"in", "dead"} \/ M!CutOff)
    \/ part = "master" /\ P!Served(i)

(* Whoever waits for wrk, benchmp, the shared mutex or the master waits for  *)
(* a time: stop_threads, stats_record, benchmp, ngx_shmtx_lock and the       *)
(* signals of ngx_master_process_cycle come to their end.  Of benchmp this   *)
(* is all that holds: a call of several children may wait for ever for a     *)
(* stubborn one, though cleanup_exit means to kill those that do not die.    *)
ProgramsEnd == \A i \in 1..3 : ProgramOwes(i) ~> ProgramGives(i)

(* What a client is owed: what is posted is run, though others be silent; a  *)
(* round of timers ends though handlers set timers again; pipelined requests *)
(* are all answered; a connection with a bad request or a silent client ends *)
(* in time; the parent of subrequests ends, and so do all streams.           *)
ClientOwed ==
    \/ part = "events" /\ 1 \in E!Range(w.posted)
    \/ part = "timers" /\ step # "wait"
    \/ part \in {"http", "http bad", "subrequests", "http2"}
ClientServed ==
    \/ part = "events" /\ 1 \notin E!Range(w.posted)
    \/ part = "timers" /\ step = "wait"
    \/ part = "http" /\ answered = Len(KeptAlive)
    \/ part = "http bad" /\ c.st = "closed"
    \/ part = "subrequests" /\ s.state = "closed"
    \/ part = "http2" /\ \A n \in 1..2 : h.st[n].pc = "closed"

(* No client waits forever for its worker: the event loop, the requests of a *)
(* connection, their subrequests and the streams of HTTP/2 make progress.    *)
RequestsEnd == ClientOwed ~> ClientServed

(* What is owed to a request that went on to others: it ends, however its    *)
(* servers fail, refuse, close their connections or keep silent; whoever     *)
(* asks the resolver is answered, lost packets notwithstanding and without a *)
(* time-out; a response gets through the event pipe.                         *)
UpstreamOwed ==
    \/ part = "upstream" /\ up[1].st # "idle"
    \/ part = "resolver" /\ ctx["x"].state = "again"
    \/ part = "pipe"
UpstreamGiven ==
    \/ part = "upstream" /\ up[1].st = "idle"
    \/ part = "resolver" /\ ctx["x"].state # "again"
    \/ part = "pipe" /\ p.pc = "over" /\ p.queue = <<>>

(* No request waits forever for servers, names or the other end of the pipe: *)
(* ngx_http_upstream, ngx_resolver and ngx_event_pipe make progress.         *)
UpstreamEnds == UpstreamOwed ~> UpstreamGiven
=============================================================================
