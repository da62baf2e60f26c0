---------------------------- MODULE MCProcesses ----------------------------
(* The programs of several processes and threads, side by side for TLC: wrk, *)
(* lmbench's benchmp, and nginx's master with what its processes share: the  *)
(* mutex, the memory, the disk cache. They have no variable in common, so a  *)
(* behaviour is of one of them.                                              *)
EXTENDS Integers, FiniteSets, TLC

CONSTANTS Users,  \* requests of the disk cache
          Names   \* its keys

VARIABLES part,  \* which of the parts below this behaviour is of
          delay, conn, loop, net, stat, stop, ended, env,  \* Wrk
          stats, th, phase,  \* WrkStats
          job, parent, child, pipe, faults,  \* Benchmp
          lock, wait, sem, pc, saw, calls, died,  \* NgxShmtx
          page, pfree, live,  \* NgxSlab
          table, os, mail, pending, flags, binary, m, cycle, pidfile, trouble,  \* NgxMaster
          proc, obj, path, pidf, linger, taken,  \* NgxCycle
          sh, files, c, load, deaths, raced  \* NgxFileCache

\* The value of the variables of the parts that are not there.
Off == "off"

\* The order of users and names is of no concern.
Symmetric == Permutations(Users) \cup Permutations(Names)

(* Two classes of ngx_slab.c: one whose pages begin with their bitmap        *)
(* (NGX_SLAB_SMALL), one whose bitmap is in the page table (NGX_SLAB_EXACT,  *)
(* NGX_SLAB_BIG).                                                            *)
TwoClasses == <<[chunks |-> 3, reserved |-> 1], [chunks |-> 2, reserved |-> 0]>>

Listen(a) == [addr |-> a, reuse |-> FALSE]
Reuseport(a) == [addr |-> a, reuse |-> TRUE]
Zone(tag, size) == [tag |-> tag, size |-> size]
File(listen, zones, logs) == [listen |-> listen, zones |-> zones, logs |-> logs, pid |-> "nginx.pid"]

(* Configurations of a reload: addresses that come and go, a zone that goes  *)
(* on, one that changes its size, one of an upstream.                        *)
Reloaded ==
    [one |-> File(<<Listen("a"), Listen("b")>>, [z |-> Zone("limit", 1), u |-> Zone("upstream", 1)], {"log"}),
     two |-> File(<<Reuseport("b"), Reuseport("b")>>, [z |-> Zone("limit", 1)], {"log"}),
     three |-> File(<<Listen("a")>>, [z |-> Zone("limit", 2), u |-> Zone("upstream", 1)], {})]

(* The same with the path s, which is bound before or after a port.          *)
Pathed ==
    [one |-> File(<<Listen("a")>>, <<>>, {"log"}),
     two |-> File(<<Listen("s"), Listen("b")>>, <<>>, {}),
     three |-> File(<<Listen("b"), Listen("s")>>, <<>>, {})]

(* Configurations of a new binary: all listen on the path s.                 *)
Upgraded == [one |-> File(<<Listen("a"), Listen("s")>>, <<>>, {}),
             two |-> File(<<Listen("s")>>, <<>>, {})]

-----------------------------------------------------------------------------
W == INSTANCE Wrk WITH
    Conns <- {1, 2}, Pipeline <- 1, MaxBatches <- 1, MaxFaults <- 2
WB == INSTANCE Wrk WITH Conns <- {1}, Pipeline <- 2, MaxBatches <- 2, MaxFaults <- 2

S == INSTANCE WrkStats WITH Threads <- {1, 2, 3}, Limit <- 3, Pipeline <- 1
SC == INSTANCE WrkStats WITH Threads <- {1, 2}, Limit <- 10, Pipeline <- 1

B == INSTANCE Benchmp WITH Parallel <- 3, Reps <- 2, Cleanup <- TRUE, MaxFaults <- 2
BA == INSTANCE Benchmp WITH
    Parallel <- 1, Reps <- 2, Cleanup <- FALSE, MaxFaults <- 2

M == INSTANCE NgxShmtx WITH
    Workers <- {1, 2, 3}, Master <- 9, MaxLocks <- 1, MaxKills <- 1

L == INSTANCE NgxSlab WITH NPages <- 4, Classes <- TwoClasses, MaxRun <- 3

P == INSTANCE NgxMaster WITH
    Slots <- 1..4, Workers <- 1,
    Operator <- {"HUP", "QUIT", "TERM", "USR2", "WINCH"}, KillAfter <- 2,
    MaxSignals <- 3, MaxFaults <- 2, env <- trouble

C == INSTANCE NgxCycle WITH
    Conf <- Reloaded, Unix <- {}, NoReuse <- {"upstream"}, Tries <- 2, Ids <- 1..9,
    Upgrades <- FALSE
CP == INSTANCE NgxCycle WITH
    Conf <- Pathed, Unix <- {"s"}, NoReuse <- {"upstream"}, Tries <- 2, Ids <- 1..8,
    Upgrades <- FALSE
CU == INSTANCE NgxCycle WITH
    Conf <- Upgraded, Unix <- {"s"}, NoReuse <- {"upstream"}, Tries <- 2,
    Ids <- 1..8, Upgrades <- TRUE

F == INSTANCE NgxFileCache WITH
    Keys <- {"a"}, Requests <- Users, MaxNodes <- 1, MaxSize <- 1, MaxDeaths <- 0,
    MaxDrift <- 0, CacheLock <- TRUE,
    Files <- {[k \in {"a"} |-> "none"], [k \in {"a"} |-> "fresh"]}, disk <- files
FD == INSTANCE NgxFileCache WITH
    Keys <- {"a"}, Requests <- Users, MaxNodes <- 1, MaxSize <- 1, MaxDeaths <- 1,
    MaxDrift <- 0, CacheLock <- FALSE, Files <- {[k \in {"a"} |-> "none"]},
    disk <- files
F2 == INSTANCE NgxFileCache WITH
    Keys <- Names, Requests <- {1}, MaxNodes <- 2, MaxSize <- 2, MaxDeaths <- 0,
    MaxDrift <- 0, CacheLock <- FALSE, Files <- {[k \in Names |-> "fresh"]},
    disk <- files
FF == INSTANCE NgxFileCache WITH
    Keys <- Names, Requests <- {1}, MaxNodes <- 1, MaxSize <- 2, MaxDeaths <- 0,
    MaxDrift <- 0, CacheLock <- FALSE, Files <- {[k \in Names |-> "none"]},
    disk <- files

ASSUME Assumptions ==
    /\ W!PipelineAssumption /\ W!BoundsAssumption /\ WB!PipelineAssumption
       /\ WB!BoundsAssumption
    /\ S!ThreadsAssumption /\ S!LimitAssumption /\ S!StatsPipelineAssumption
       /\ SC!ThreadsAssumption /\ SC!LimitAssumption /\ SC!StatsPipelineAssumption
    /\ B!ParallelAssumption /\ B!RepsAssumption /\ BA!ParallelAssumption
       /\ BA!RepsAssumption
    /\ M!MasterAssumption /\ M!BoundsAssumption /\ M!PidAssumption
    /\ L!NPagesAssumption /\ L!ClassesAssumption
    /\ P!WorkersAssumption /\ P!BoundsAssumption /\ P!OperatorAssumption
       /\ P!SlotsAssumption
    /\ C!ConstantsAssumption /\ CP!ConstantsAssumption /\ CU!ConstantsAssumption
    /\ F!FileCacheAssumption /\ FD!FileCacheAssumption /\ F2!FileCacheAssumption
       /\ FF!FileCacheAssumption

-----------------------------------------------------------------------------
WrkVars == <<delay, conn, loop, net, stat, stop, ended, env>>
StatsVars == <<stats, th, phase>>
BenchmpVars == <<job, parent, child, pipe, faults>>
ShmtxVars == <<lock, wait, sem, pc, saw, calls, died>>
SlabVars == <<page, pfree, live>>
MasterVars == <<table, os, mail, pending, flags, binary, m, cycle, pidfile, trouble>>
CycleVars == <<proc, obj, path, pidf, linger, taken>>
CacheVars == <<sh, files, c, load, deaths, raced>>

NoWrk == delay = Off /\ conn = Off /\ loop = Off /\ net = Off /\ stat = Off /\
         stop = Off /\ ended = Off /\ env = Off
NoStats == stats = Off /\ th = Off /\ phase = Off
NoBenchmp == job = Off /\ parent = Off /\ child = Off /\ pipe = Off /\ faults = Off
NoShmtx == lock = Off /\ wait = Off /\ sem = Off /\ pc = Off /\ saw = Off /\
           calls = Off /\ died = Off
NoSlab == page = Off /\ pfree = Off /\ live = Off
NoMaster == table = Off /\ os = Off /\ mail = Off /\ pending = Off /\ flags = Off /\
            binary = Off /\ m = Off /\ cycle = Off /\ pidfile = Off /\ trouble = Off
NoCycle == proc = Off /\ obj = Off /\ path = Off /\ pidf = Off /\ linger = Off /\
           taken = Off
NoCache == sh = Off /\ files = Off /\ c = Off /\ load = Off /\ deaths = Off /\
           raced = Off

Init ==
    \/ /\ \/ part = "wrk" /\ W!Init
          \/ part = "wrk batches" /\ WB!Init
       /\ NoStats /\ NoBenchmp /\ NoShmtx /\ NoSlab /\ NoMaster /\ NoCycle /\ NoCache
    \/ /\ \/ part = "stats" /\ S!Init
          \/ part = "stats corrected" /\ SC!Init
       /\ NoWrk /\ NoBenchmp /\ NoShmtx /\ NoSlab /\ NoMaster /\ NoCycle /\ NoCache
    \/ /\ \/ part = "benchmp" /\ B!Init
          \/ part = "benchmp alone" /\ BA!Init
       /\ NoWrk /\ NoStats /\ NoShmtx /\ NoSlab /\ NoMaster /\ NoCycle /\ NoCache
    \/ /\ part = "shmtx" /\ M!Init
       /\ NoWrk /\ NoStats /\ NoBenchmp /\ NoSlab /\ NoMaster /\ NoCycle /\ NoCache
    \/ /\ part = "slab" /\ L!Init
       /\ NoWrk /\ NoStats /\ NoBenchmp /\ NoShmtx /\ NoMaster /\ NoCycle /\ NoCache
    \/ /\ part = "master" /\ P!Init
       /\ NoWrk /\ NoStats /\ NoBenchmp /\ NoShmtx /\ NoSlab /\ NoCycle /\ NoCache
    \/ /\ \/ part = "reload" /\ C!Init
          \/ part = "reload of paths" /\ CP!Init
          \/ part = "upgrade" /\ CU!Init
       /\ NoWrk /\ NoStats /\ NoBenchmp /\ NoShmtx /\ NoSlab /\ NoMaster /\ NoCache
    \/ /\ \/ part = "file cache" /\ F!Init
          \/ part = "file cache dies" /\ FD!Init
          \/ part = "file cache of two" /\ F2!Init
          \/ part = "file cache full" /\ FF!Init
       /\ NoWrk /\ NoStats /\ NoBenchmp /\ NoShmtx /\ NoSlab /\ NoMaster /\ NoCycle

Next ==
    \/ /\ \/ part = "wrk" /\ W!Next
          \/ part = "wrk batches" /\ WB!Next
       /\ UNCHANGED <<part, StatsVars, BenchmpVars, ShmtxVars, SlabVars,
          MasterVars, CycleVars, CacheVars>>
    \/ /\ \/ part = "stats" /\ S!Next
          \/ part = "stats corrected" /\ SC!Next
       /\ UNCHANGED <<part, WrkVars, BenchmpVars, ShmtxVars, SlabVars,
          MasterVars, CycleVars, CacheVars>>
    \/ /\ \/ part = "benchmp" /\ B!Next
          \/ part = "benchmp alone" /\ BA!Next
       /\ UNCHANGED <<part, WrkVars, StatsVars, ShmtxVars, SlabVars, MasterVars,
          CycleVars, CacheVars>>
    \/ /\ part = "shmtx" /\ M!Next
       /\ UNCHANGED <<part, WrkVars, StatsVars, BenchmpVars, SlabVars,
          MasterVars, CycleVars, CacheVars>>
    \/ /\ part = "slab" /\ L!Next
       /\ UNCHANGED <<part, WrkVars, StatsVars, BenchmpVars, ShmtxVars,
          MasterVars, CycleVars, CacheVars>>
    \/ /\ part = "master" /\ P!Next
       /\ UNCHANGED <<part, WrkVars, StatsVars, BenchmpVars, ShmtxVars,
          SlabVars, CycleVars, CacheVars>>
    \/ /\ \/ part = "reload" /\ C!Next
          \/ part = "reload of paths" /\ CP!Next
          \/ part = "upgrade" /\ CU!Next
       /\ UNCHANGED <<part, WrkVars, StatsVars, BenchmpVars, ShmtxVars,
          SlabVars, MasterVars, CacheVars>>
    \/ /\ \/ part = "file cache" /\ F!Next
          \/ part = "file cache dies" /\ FD!Next
          \/ part = "file cache of two" /\ F2!Next
          \/ part = "file cache full" /\ FF!Next
       /\ UNCHANGED <<part, WrkVars, StatsVars, BenchmpVars, ShmtxVars,
          SlabVars, MasterVars, CycleVars>>

vars == <<part, WrkVars, StatsVars, BenchmpVars, ShmtxVars, SlabVars, MasterVars, CycleVars, CacheVars>>
Spec == Init /\ [][Next]_vars

-----------------------------------------------------------------------------
(* wrk: events reach the connection that owns the descriptor, a connection   *)
(* waits for exactly what the server owes it, latencies are measured from    *)
(* the start of their own batch and the counters are what happened.          *)
WrkSound ==
    /\ part = "wrk" => W!TypeOK /\ W!EventsReachOwner /\ W!LostConnsCounted
    /\ part = "wrk batches" => WB!PendingIsOwed /\ WB!SamplesOwn /\ WB!CountersHonest

(* wrk's statistics: no sample and no extreme is lost in any interleaving of *)
(* stats_record, and stats_correct computes the correction that is meant.    *)
StatsSound ==
    /\ part = "stats" => S!TypeOK /\ S!NothingLost
    /\ part = "stats corrected" => SC!CorrectionMeant /\ SC!MeanSeen

(* lmbench: a result of benchmp was measured under the whole load, is merged *)
(* from all children, and a call that returns leaves none of them behind.    *)
BenchmpSound ==
    /\ part = "benchmp" => B!TypeOK /\ B!LoadHeld /\ B!ResultsComplete /\ B!NoChildLeft
    /\ part = "benchmp alone" => BA!LoadHeld /\ BA!ResultsComplete /\ BA!NoChildLeft

(* The shared memory of the workers: the mutex is one process's, no wakeup   *)
(* is lost when processes die; the allocator never gives memory twice, loses *)
(* none and refuses no request it could serve.                               *)
ZoneSound ==
    /\ part = "shmtx" => M!TypeOK /\ M!Exclusive /\ M!WakeupsConserved /\ M!NoLostWakeup
    /\ part = "slab" => L!TypeOK /\ L!NoOverlap /\ L!FreeListExact /\ L!JoinedAlways /\ L!ClassListed

(* The master: no worker outlives it, old workers are told to leave, it goes *)
(* on serving, no signal is forgotten and the pid files are right, however   *)
(* signals, crashes, failed forks and a new binary interleave.               *)
MasterSound ==
    part = "master" => /\ P!TypeOK /\ P!OrphansOnlyRevived /\ P!OldOnesTold
                       /\ P!ServesOrRecovers /\ P!FlagsServed /\ P!PidFilesHonest

(* The file cache: counts are of those who hold a node, nobody holds one     *)
(* that was freed, marks of updates have an owner, and the size is that of   *)
(* the files, also when processes die.                                       *)
FileCacheSound ==
    /\ part = "file cache" => /\ F!TypeOK /\ F!CountExact /\ F!HeldLive /\ F!QueueExact
                              /\ F!UpdatingOwned /\ F!SizeExact
    /\ part = "file cache dies" => FD!CountExact /\ FD!HeldLive /\ FD!QueueExact /\ FD!SizeExact
    /\ part = "file cache of two" => F2!CountExact /\ F2!HeldLive /\ F2!QueueExact
    /\ part = "file cache full" => FF!CountExact /\ FF!HeldLive /\ FF!QueueExact /\ FF!SizeExact

(* ngx_init_cycle: whatever step of a reload fails, nothing leaks and the    *)
(* old cycle goes on unharmed; a new binary listens on the same sockets; and *)
(* the step to the new cycle gives up no socket and no zone it still needs.  *)
CycleSound ==
    /\ [](part = "reload" => C!TypeOK /\ C!NothingLeaks /\ C!OldIntact /\ C!NotInOwnWay)
    /\ [](part = "reload of paths" => /\ CP!TypeOK /\ CP!NothingLeaks /\ CP!OldIntact
                                      /\ CP!NotInOwnWay /\ CP!PathsLead)
    /\ [](part = "upgrade" => CU!NothingLeaks /\ CU!OldIntact /\ CU!PathsLead /\ CU!PidFound)
    /\ [][part = "reload" => C!TakenOver]_vars
=============================================================================
