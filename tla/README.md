# Verification of the arm_test benchmark suite

`src/` is a collection of benchmark drivers for ARM servers: shell and Python
scripts that prepare machines, run third-party benchmarks on them for hours
and collect the numbers, together with copies of some of those benchmarks (wrk,
lmbench, and nginx 1.22.1 as the system under test). What can go wrong in the
scripts is not in the numbers but in what they are numbers *of*: a test that ran
on the configuration of the one before, a sample filed under the wrong mode, a
machine that was never rebooted. What can go wrong in the C programs is in the
interleavings: processes that die, events that outlive their connections,
counters that several processes share. This project models the drivers and
those parts of the C programs whose state is shared, queued or retried, states
what makes them correct, checks it with TLC on small instances, and proves with
TLAPS, for all sizes, what the scripts' reports stand on and what keeps the
counts, lists and rounds of five of the C parts exact.

PROJECT.json lists the components with their sources, the hazards with their
lines, and for every definition the source lines it stands for.

## 1. Inventory

### The scripts

| Component | State | Operations | Hard behaviour |
|---|---|---|---|
| **nginx benchmark**: `web/nginx/to_nginx/nginx.sh` (server under test), `web/nginx/wrk/wrk.sh` (load generator) | position of each script in its own copy of the plan; `nginx.conf`, the running nginx; `result.txt`, the CSV | handshakes over one-shot `nc` connections on port 61234; restart of nginx; wrk run; statistics | two processes on two hosts in lockstep with no session, retry on "refused" only, substring checks; kill and restart of either side; failed restarts of nginx |
| **NUMA topology** in `nginx.sh` | none | which nodes share the NIC's socket | boundaries of the node ranges |
| **fio stability test**: `cloudnative/storage/fio-test.sh`, `help.py` | templates `<type>.fio` edited in place; `<mode>.data`, `final-result`; loop counters | bind template, run fio, restore; slide the window until `help.py` calls it stable | `set -e` aborts between the edits; `help.py` failing silently; two ends of one loop |
| **environment preparation**: `cloudnative/environment/env.sh`, `cloudnative/vars.sh` | boot configuration and running system; markers of what is installed; variables of `vars.sh` edited in place; a VM | check and repair, ask for a reboot, install, create the VM, copy the benchmarks into it | restart after reboot or abort at any point; demands for a reboot kept in memory only; asynchronous shutdown |
| **CPU lists of the VM**: `environment/help.py` | none | VM CPUs, isolated CPUs, pinned threads | two ranges of one node, ends of ranges |
| **ffmpeg runner**, **Jenkins pipelines**, **network, memory, CPU and thread scripts** | one run each | straight-line | see section 7: not modelled |

### The programs

| Module | Source | What is modelled | What makes it correct |
|---|---|---|---|
| `Wrk` | wrk `wrk.c`, `ae.c` | connecting, reconnecting, batches, delays, answers, errors, the rate timer and the stop; descriptors reused as the kernel does | an event reaches the connection that owns the descriptor; a connection waits for what the server owes; counters are what happened |
| `WrkStats` | wrk `stats.c` | lock-free recording by several threads, correction of coordinated omission | no sample and no extreme lost in any interleaving |
| `Benchmp` | lmbench `lib_timing.c` | parent, children, pipes and signals; kills, hanging cleanup, failed fork | a result is measured under the whole load and merged from all children; none is left behind |
| `NgxShmtx` | `ngx_shmtx.c` | lock, trylock, unlock, forced unlock, wakeup, with workers that die anywhere | exclusion, no lost wakeup |
| `NgxSlab` | `ngx_slab.c` | runs of pages, first fit, joining, chunk pages of several classes | no overlap, nothing lost, free neighbours joined |
| `NgxMaster` | `ngx_process_cycle.c`, `ngx_process.c`, `ngx_channel.c` | signals, reaping, respawning, reload, new binary, shutdown; crashes, hangs, failed forks | nobody forgotten, no signal lost, pid files right |
| `NgxCycle` | `ngx_cycle.c` | from one configuration to the next, failing at any step; new binary | nothing leaks, the old cycle is unharmed |
| `NgxEvents` | `ngx_event.c`, `ngx_event_accept.c`, `ngx_event_posted.c`, `ngx_connection.c`, epoll | taking, closing, draining and reusing slots; events that outlive their connections; posted events | lists agree, stale events skipped, room is made |
| `NgxTimers`, `NgxRbtree` | `ngx_event_timer.c`, `ngx_rbtree.c` | timers with the lazy delay on a clock that wraps; the tree's insertion, deletion and rotations | never early, never late, tree red-black and sorted |
| `NgxHttpConn` | `ngx_http_request.c`, `ngx_recv.c` | waiting, reading through small and large buffers, responding, keepalive, pipelining, lingering, draining, on edge-triggered epoll | no byte lost or read twice, no missed wakeup, no overflow |
| `NgxRequestBody`, `NgxChunked` | `ngx_http_request_body.c`, `ngx_http_parse_chunked` | bodies by length and chunked, to memory and to a file, discarded; a pipelined header handed back | the body whole, once, in order; the next request intact |
| `NgxSubrequests` | `ngx_http_request.c`, `ngx_http_core_module.c`, `ngx_http_postpone_filter_module.c` | reference count, posted requests, finalization, order of output | pieces in document order, memory kept as long as used |
| `NgxHttp2`, `NgxHpackTable` | `http/v2` | windows, frames, waiting streams, SETTINGS, RST; the dynamic table | both ends agree on the windows, no stream forgotten, the table decodes |
| `NgxUpstream`, `NgxRoundRobin` | `ngx_http_upstream.c`, `_keepalive_module.c`, `_round_robin.c` | connecting, sending, retrying, ending, cached connections; weights, failures, limits, backups | every connection in one place, nothing unrepeatable sent twice, counts exact |
| `NgxResolver` | `ngx_resolver.c` | A and AAAA queries, CNAMEs, cache, repetition, time-outs, re-entrant handlers | whoever waits is in one list once; queues agree with names |
| `NgxEventPipe` | `ngx_event_pipe.c` | a response through a bounded set of buffers, straight, through the temporary file, into the cache | whole, in order, once, within bounds, never stuck |
| `NgxFileCache` | `ngx_http_file_cache.c` | opening, locking, updating, freeing, expiry, deletion across the unlock, the loader, deaths | counts exact, nobody holds a freed node |
| `NgxOpenFileCache` | `ngx_open_file_cache.c` | opening through the cache, retests, eviction, ends of request and worker | a descriptor is open while it is read, closed once |
| `NgxLimitReq`, `NgxLimitConn` | `ngx_http_limit_req_module.c`, `ngx_http_limit_conn_module.c` | leaky buckets and counts in shared zones, workers whose clocks lag, refusals that undo | rate and limit kept, held nodes stay, room is found |

How they interact: the nginx pipeline starts `nginx.sh` and `wrk.sh` in
parallel on two hosts; those two talk to each other over `nc`, to nginx through
`nginx.conf` and its command line, and wrk loads nginx. `env.sh` prepares the
machine and the VM in which `fio-test.sh` and the other `cloudnative` scripts
run (lmbench among them); both read `vars.sh`. Inside nginx the modules meet
through small interfaces (a slot, an event, a zone's mutex, a buffer chain), and
each module models the others' side of its interface as whatever it may do;
`NgxUpstream` extends `NgxRoundRobin`, `NgxTimers` extends `NgxRbtree`,
`NgxRequestBody` extends `NgxChunked`.

## 2. Modules

| Module | Models | Kind |
|---|---|---|
| `NginxPlan` | the test plan both scripts walk: positions, successor, configurations, what `grep -q` accepts | operators |
| `NginxBench` | `nginx.sh`, `wrk.sh`, nginx and the files, with faults; the mapping to `BenchReport` (`Reported`, `Report`, `ReportSpec`) | specification |
| `BenchReport` | what the pair promises: the plan's tests in order, each on its own configuration but for one per failed stop of nginx | abstract specification |
| `FioStability` | `fio-test.sh` and the verdicts of `help.py` | specification |
| `EnvPrepare` | `env.sh` with the operator, the boots and the VM | specification |
| `VmCpuList`, `NumaTopology` | the arithmetic of `help.py` and of `nginx.sh` | specifications |
| the modules of the table above | the C programs | specifications |
| `MCNginxBench`, `MCTopology` | instances for TLC | model checking |
| `MCProcesses`, `MCConnections`, `MCUpstream`, `MCEndings` | suites: instances of the C parts side by side | model checking |
| `NginxBenchProofs`, `FioStabilityProofs`, `EnvPrepareProofs`, `TopologyProofs` (also of `VmCpuList`), `MeasurementProofs` (of `WrkStats` and `Benchmp`), `NgxZoneProofs` (of `NgxLimitConn` and `NgxShmtx`), `NgxUpstreamProofs` (also of `NgxRoundRobin`), `NgxFileCacheProofs` | theorems | proofs |

*Suites.* The parts of a suite share no variables. A behaviour of a suite is a
behaviour of one part: `part` names it and never changes, and the variables of
the others have the value `Off`. A part may be there several times with other
constants (a connection with good requests, with one too long, with a bad one).
A property of a suite such as `HttpConnSound` is the conjunction of the
invariants of its parts, each under the name of the part it is about.

### The nginx benchmark

*State.* `srv` and `cli` are the two scripts: where each is inside a handshake
(`pc`), its position in the plan (`pos`), its argument, and for the client the
two numbers the server told it. `inbox[h]` is the text that the `nc -l` of host
`h` has accepted and not yet printed. `conf` is `nginx.conf` on disk, `nginx`
what the running daemon was started with, `seen` what the current wrk run has
met. `result` and `csv` are the client's files. `used` counts faults against
`Budget`.

*A position* is one handshake: the phase (`socketl`, `socketr`, `node`,
`server`, `stats`), the kind of text (`conf`, `start`, `finish`), and the mode,
node and core in it. `Successor` is the loops of both scripts, written once and
evaluated by each script with its own numbers: the server with what it
measured, the client with what it was told. Bash leaves the loop variable of
`for ((core=1; core<=count; core*=2))` above the bound, and the branch after
the loop uses it; `Tested` and `ConfFor` keep that.

*Actions.* `ServerLaunch`/`ClientLaunch` (the `case` at the end of each
script); `StopNginx`, `StartNginx` and their failures (`nginx_restart`, which
checks neither half); `ServerReceive` (the `grep` at the head of each wait);
`ServerReply` (the retry loop, which succeeds once the client listens);
`ClientSend`, `ClientAnswered`, `ClientStarted`, `ClientFinished`; `WrkRun`,
`WrkEnds`, and `WrkFails` for `serverhandle`, which runs wrk once and unchecked
where the others retry. A refused attempt changes nothing and is a stutter.
`ServerReplyLost` and `ClientSendLost` are an `nc` that fails in another way
than "refused", after which the retry loop ends as if the text had arrived.
`ServerKilled`/`ClientKilled` end a script anywhere; nginx and the files stay.

*The promise.* `BenchReport` knows a plan, a report and the number of failed
stops of nginx. A step adds the plan's next test, and the report may hold at
most one test measured on a wrong configuration per failed stop. The mapping
takes the lines "finish" of `result.txt` for the report, each with what the line
before it was measured on.

*Abstracted.* The mode names are numbers (their texts do not contain one
another followed by "-"); the lines of a wrk report are one line `sec`; CPU
numbers in affinity masks are the unit and how many; the host name in the
answer of `stats` is a number on which nothing depends.

### The fio stability test

*State.* The third argument and the disk; the loops (`type`, `mode`, `left`,
`k`, `file`, `ALREADY_EXE_TIMES`); lines 2 and 3 of each template; the samples
with the parameters fio really read; `final-result`. `stale` and `errors`
remember which templates were not clean at the start and on which types
`help.py` failed: the properties speak of the others.

*Actions.* `Launch`, `Warmup` (whose command never exists, see the findings),
`Bind`, `Fio`, `Restore` (`performance_test` split where a command can fail),
`Stable`, `Unstable`, `HelperFails` (the three outcomes of the check), `Abort`
(`set -e` or the operator). The verdict is a free choice, because the samples'
values are not modelled; an empty window can only fail.

### Environment preparation

*State.* `sh` is the running script: where it is, `PREPARE_ENV`,
`CMD_LINE_STR` and `NEED_REBOOT`, which exists only in the process. `boot` is
what runs, `disk` what the next boot will use; the two differ until a reboot.
`kept` is what a later run finds again: the variables that `sed` writes into
`vars.sh`, `vm-cpu-list`, the directories and links that serve as markers.
`asked`, `ignored` and `torn` are history: whether the last run asked for a
reboot, whether such a demand was lost, and what a run left half done. A kernel
command line is a sequence of three words (the original, the arguments, the
isolation) and possibly the trailing space that an empty
`ISOLATION_CPU_CMDLINE` leaves, because `grep "...$"` sees that space.

*Actions.* `Launch` and `Reboot` are the operator's; one action per function of
`env.sh`, split where an abort in between matters (`UpdateGrub`/`MakeConfig`,
`CpuList`/`CpuListWritten`, `Spec2017`/`Spec2017Built`, `Settle`/`Clean`).
`Abort` ends a run anywhere. `CopyFails` is an `scp` that failed inside
`expect`; `VmStops` is the end of a shutdown that `stop_vm` did not wait for.

*The exceptions.* `GateHonest` and the two parts of `OutcomeHonest`
(`OneRebootEnough`, `PreparedComplete`) say in their text what the markers
cannot see. Each exception is reachable: SELinux still on after a lost demand,
the reboot that is asked for again and again (a guest run before any CPU list,
or a `grub.cfg` never written), a torn CPU list or SPEC build or copy that later
runs take for whole. Nothing in the repository promises otherwise, so they are
not findings.

*CPU lists.* `VmCpuList` is one call of `help.py`. Kernel arguments are sets of
CPUs, `vcpu_array` a sequence. `Fits` is the premise that the node has the CPUs
asked for and two below them, which the script does not check.

## 3. Runs

| Run | Question | Properties | Bounds |
|---|---|---|---|
| `bench_plan` | do the two scripts walk the same plan to its end, also when nginx does not stop or start? | `TypeOK`, `NoErrorExit`, `ReportSpec`, `Completes` | 2 modes, 2 nodes with 3 and 1 CPUs: a count that is not a power of two, and the least one; 2 launches of the server, 1 of the client, 1 kill, 1 failed stop, 1 failed start |
| `bench_faults` | what does `result.txt` vouch for through kills, restarts with any argument and losses? | `FinishedTestsVouched`, `Lockstep`, `SectionsPure`, `NoRestartUnderLoad`, `ReportSpec` | 2 launches of each, 2 kills, 1 loss; 9 CPUs, so that core1 is found in core16 |
| `bench_cores` | is the last core count of a unit its number of CPUs? (violated) | `CoresWithinUnit` | 1 launch of each, no faults |
| `topology` | do the CPU lists split the machine, and are the local and remote nodes right? | `CpusPartitioned`, `PinsApart`, `NodesSplit` | every one or two ranges of 12 CPUs, start 0, 2, 3, number 0, 2, 3, 4, test index 0, 2, 3; every machine up to 4 sockets, 8 nodes |
| `fio_runs` | what do samples, templates and results promise over two runs, one of them aborted anywhere? | `SamplesSound`, `VerdictSound`, `TestsEnd` | 2 types, 2 disks, window of 2, 3 windows, 2 failures of `help.py` (enough for an empty window) |
| `fio_all` | does the default action reach the tests? (violated) | `AllReachesTests` | 1 run |
| `env_runs` | what do the gate and "successfully" vouch for, and does the boot configuration converge? | `TypeOK`, `GateHonest`, `OriginalKept`, `OutcomeHonest` | 7 runs, 2 units (one optional), 2 faults: host, guest and host again with a reboot each and an abort in between |
| `processes` | programs of several processes and threads | `WrkSound`, `StatsSound`, `BenchmpSound`, `ZoneSound`, `MasterSound`, `FileCacheSound`, `CycleSound` | 2 connections and 2 faults, or 1 with batches of 2; 3 recording threads; 3 children; 3 workers and a death at the mutex; 4 pages, 2 classes; 3 signals and 2 faults at the master; the disk cache with 2 requests of one key, with a death, with two keys, and with two keys in a zone that has room for one node (requests and keys symmetric); any number of reloads among 3 configurations of ports and zones, among 3 with the path of a unix socket, and with a new binary |
| `connections` | one worker and its clients | `EventLoopSound`, `HttpConnSound`, `BodySound`, `SubrequestsSound`, `Http2Sound` | 3 slots, 2 listening sockets (symmetric); 2 or 3 timers on a clock of 12 or 14 ticks; trees of up to 7 nodes; 3 pipelined requests in buffers of 3 and 4 bytes, 5 kinds of fault; bodies up to 6 bytes in every division; 3 subrequests; 2 streams |
| `upstream` | a worker, its servers, files and limits | `UpstreamSound`, `ResolverSound`, `PipeSound`, `OpenFilesSound`, `LimitsSound`, `StepsSound` | 2 users (requests, workers), 2 names and 2 inodes (symmetric); 1 to 3 servers; handlers of the resolver that resolve again from within a handler; 2 or 3 buffers of 2 units; caches of 1 and 2 entries, so that eviction happens; 1 or 2 descriptors overwritten; 3 or 5 requests against bursts they can exceed |
| `endings` | does everybody who waits get his turn? | `ProgramsEnd`, `RequestsEnd`, `UpstreamEnds` | smaller instances of 13 parts, with fairness |
| `wrk_timeout` | is a request that is never answered recorded? (violated) | `TimeoutsRecorded` | 1 connection, 1 batch |

*Why the bounds are enough.* Modes beyond two and nodes beyond two repeat the
same handshakes; the fault budgets allow each fault to follow each other one, and
the theorems of section 5 hold for every bound. In the suites the limits
(slots, pages, buffers, windows, cached entries, room for nodes) are as low as
lets each be reached and exceeded, and clocks are narrow enough to wrap in a
run. The limits of requests are so low, and the requests so many, that one
request more than the burst breaks `RateKept` in each zone. Two users suffice for a race over one shared thing; three are used where
two waiters race for one wakeup (`NgxShmtx`) or two threads for one counter
beside a third (`WrkStats`).

*Premises.* `NoRestartUnderLoad` holds until a script is killed, `SectionsPure`
while every start of nginx worked, `FinishedTestsVouched` while no stop failed;
`ReportSpec` says how many tests failed stops may spoil. Each premise names the
fault that breaks the property without it.

*Fairness.* `FairSpec` of `NginxBench` assumes weak fairness of each script:
they are running programs whose loops retry every second, and nothing they wait
for is withdrawn. Nobody has to start them and no fault has to happen.
`FairSpec` of `FioStability` assumes the script keeps running. In `MCEndings`,
`Steady` is weak fairness of what the scheduler, the kernel's alarms and the
event loop guarantee (a process goes on, a handler returns, what is posted is
run, a timer expires, SIGCHLD is handled, the client of "http" sends and
reads); `Insistent` is strong fairness of what may become impossible in between
and comes up again (a peer whose socket is written to takes something, a client
that reads opens its windows, a request produces its output, an event that keeps
coming is served, a question asked again and again is answered). Nobody has to
send a signal, take a lock or die, and nothing is assumed of the time-outs of
resolver requests. `EnvPrepare` and `VmCpuList` state no liveness: nobody has to
run `env.sh` again.

*Deadlock* is checked in `connections`, `upstream` and `bench_cores`. Elsewhere
it is switched off because the system really may stop: a lost text leaves both
scripts listening, a script that finds the wrong text exits, a program ends, a
budget of runs is used up.

## 4. What is only model-checked

* Liveness (`Completes`, `TestsEnd`, `ProgramsEnd`, `RequestsEnd`,
  `UpstreamEnds`): fairness and ENABLED are out of the prover's reach.
* Of the suites' properties, those of the parts no theorem is about: `WrkSound`,
  `MasterSound`, `CycleSound`, the slab allocator in `ZoneSound`,
  `EventLoopSound`, `HttpConnSound`, `BodySound`, `SubrequestsSound`,
  `Http2Sound`, `ResolverSound`, `PipeSound`, `OpenFilesSound`,
  limit_req in `LimitsSound`, and the steps of all parts but the
  balancer's in `StepsSound`. Most of them are about sequences, trees and queues
  that grow and shrink at both ends; some (the sortedness and the black height of
  the red-black tree, what the chunked parser makes of an input) need induction
  over data, which the installed provers cannot do.
* The correction of coordinated omission in `WrkStats` (`Corrected`, `MeanSeen`):
  what two nested loops compute, again by induction over data. The recording
  before it is proved.
* `NgxRequestBody` uses a RECURSIVE operator, with which no theorem can be
  stated.

## 5. What is proved

Eight modules hold 54 theorems and 432 lemmas. The theorems hold for every
value of the constants that satisfies the assumptions the modules state.

The properties of the suites have the names of the parts in front
(`MCUpstream!UpstreamSound` is `CacheExact`, `NotResent` and the others of each
instance); the theorems state the parts' own properties, for every instance.

| Module | Theorems | From |
|---|---|---|
| `NginxBenchProofs` | `TypeCorrect`, `LockstepHolds`, `OneText`, `VouchedHolds` (`FinishedTestsVouched`), `NoRestart` (`NoRestartUnderLoad`), `SectionsPureHolds`, `NoErrorHolds` (`NoErrorExit`) | at least one mode and node, natural numbers of CPUs (zero included), arguments among those of the scripts, any budget of faults |
| `NginxBenchProofs`, the refinement | `ReportInvariant`, `ReportImplemented` (`ReportSpec`) | the same |
| `FioStabilityProofs` | `SamplesSoundHolds`, `VerdictSoundHolds` | at least one type and disk, a window of at least one sample, any number of windows |
| `EnvPrepareProofs` | `TypeCorrect`, `OriginalKeptHolds`, `GateHonestHolds`, `OutcomeHonestHolds` | at least one unit, optional units are units |
| `TopologyProofs` | `NodesSplitHolds` | nothing |
| `TopologyProofs`, of `VmCpuList` | `CpusSplit` (`CpusPartitioned`), `PinsSeparate` (`PinsApart`) | the calls are of the script's form |
| `MeasurementProofs`, of `WrkStats` | `RecordingInvariant`, `NothingLostHolds` | finitely many threads, a limit of at least one |
| `MeasurementProofs`, of `Benchmp` | `BenchmpInvariant`, `BenchmpTypeOK`, `LoadHeldHolds`, `ResultsCompleteHolds`, `NoChildLeftHolds` | at least one child and one repetition, any number of faults |
| `NgxZoneProofs`, of `NgxShmtx` | `MutexTypeOK`, `ExclusiveHolds`, `ConservedHolds`, `NoLostWakeupHolds` | finitely many workers, the master none of them, nobody's pid is 0 |
| `NgxZoneProofs`, of `NgxLimitConn` | `CountsInvariant`, `TypeCorrect`, `CountsExactHolds`, `LimitKeptHolds`, `RefusedFreeHolds` | finitely many requests; limits of at least one, no zone twice in a location (the directive's own checks) |
| `NgxUpstreamProofs`, of `NgxRoundRobin` | `BalancerInvariant`, `ConnsExactHolds`, `WeightsBalanceHolds`, `ProbesApartHolds` | a list of at least one server, not all of them backups; positive weights; finitely many requests |
| `NgxUpstreamProofs`, of `NgxUpstream` | `UpstreamInvariant`, `UpstreamTypeOK`, `CacheExactHolds`, `NotResentHolds`, `ExitingDrainsHolds`, `StaleHiddenHolds`, `UpstreamBalanced`, `BalancerFollowedHolds`, `UpstreamRefinesBalancer` | the same, and connections enough for the requests and a cache of at least one; `StaleHiddenHolds` with `error` in `proxy_next_upstream`, the last two where every server may fail |
| `NgxFileCacheProofs` | `FileCacheInvariant`, `FileCacheTypeOK`, `CountExactHolds`, `HeldLiveHolds`, `QueueExactHolds`, `UpdatingOwnedHolds`, `SizeExactHolds` | finitely many requests, a zone of at least one node, any keys and any number of deaths |

### The nginx benchmark

"Every finished test was measured on its own nginx" is not inductive: it says
nothing of a test under way. `Lockstep` adds five parts. `PlacesOK` ties the
place of a script to the kind of its position. `TurnsOK` says who may hold the
line: a client past its first handshake that is sending or measuring faces a
server that neither replies nor holds a text, and a text to the client excludes
one to the server. The exception is a client that has just been started
(`Fresh`): the text of its dead predecessor may still be in the server's `nc`.
`SessionOK` is the heart: a client past the start of a test has the server in
the same test, or a server that is not at the end of any test and so cannot
acknowledge its end. It needs `ContainsBoth` (if each of two texts is found in
the other they are equal), since the server checked the client's text and the
client the server's. `NginxOK` says that nginx, when it runs, runs the test of a
server that waits in it, and `TailOK` that the end of `result.txt` belongs to
the test under way. The proof has one lemma per action. `FinishedTestsVouched`
follows when a line is appended (`VouchedStep`) and from `VouchedAppend` for the
lines before it.

* `NoRestart`. `Held`: until a kill, a client that has been told to start, or
  measures, has the server waiting for the end of that very test, so that no
  step of the server can touch nginx.
* `SectionsPureHolds`. `grep -A2` takes the lines after a "start", so the
  invariant is about neighbouring lines: `RowsOK` (a start is followed by a
  measurement of its mode), `EndOK` (what the next line will follow) and `UpOK`
  (a whole-server test, which is not retried, finds nginx up).
* `NoErrorHolds`. `Paired`: a pair started once each is `Alone` until both run,
  then `Together`: both at one handshake (`Abreast`), or the server one ahead
  with the reply under way (`Ahead`). That the two copies of the loops then
  agree is `SameSuccessor`: a client that has been told the numbers it needs
  (`Knows`) goes on as the server does.

### The refinement of BenchReport

`ReportImplemented` shows that every step of `NginxBench` is a step of
`BenchReport` or a stutter: `ClientFinished` is `ReportTest`, `StopNginxFails`
is `StopFailed`, `ClientLaunch` is `NewReport` (or `Summarise` for "stats"), and
all others leave the report alone. This needs the inductive invariant
`ReportInvariant`, on top of `Lockstep`:

* `LinedUp`: a client that is not `Fresh` has the server at the same handshake
  or one that cannot answer (`Level`), a reply under way is one to the client's
  question (`ReplyOK`), and the client knows the numbers of the plan or waits
  for a reply nobody will send (`Misled`: it took the answer to its dead
  predecessor's question for its own);
* `InOrder`: the test the client is in or comes to next is the next test of the
  report. `SamePlan` gives the same successor with the numbers the client was
  told, `SkipQuestion` that the questions in between do not count;
* `MeasuredOK`: what was measured inside a session is the nginx of that session;
* `Accounted`: the spoiled lines, one more if nginx now runs a wrong
  configuration (`Tainted`) and one more if such a test waits for its last reply
  (`Pending`), are together no more than the failed stops. Only `StopNginxFails`
  raises the left side, by one; `ClientFinished` turns a pending test into a
  line (`ReportedAppend`).

### Environment preparation

* `OriginalKeptHolds`, through `LineInv`: the line is in `vars.sh` before grub is
  touched, and a run wants one of three lines.
* `GateHonestHolds`, through `GateInv`. At the gate only `NEED_REBOOT` is looked
  at, so the invariant says at each place what holds of the running system
  *unless* a reboot is demanded (`Established`), and who still knows that
  SELinux is on: the file, the run, or nobody (`Remembered`).
* `OutcomeHonestHolds`. For "successfully": `MarkersTrue` (every marker says what
  it stands for, or `torn` knows why not) and `ModesApart` (a VM that is
  shutting down was left by a host run on this boot). For the reboot:
  `Written` (what a run has written for the next boot, check by check) and
  `Converging` (from the demand over the boot to the gate of the next run).

### The fio stability test

`IInv` is inductive: `LoopsAgree` relates the counters of the two loops to the
number of samples in each file, `NotYetEmpty` says that later types have none,
`CleanStaysClean` that a template that was clean is bound to the present mode
and disk exactly around fio, `MisreadOnce` that any other is misread only at the
first sample of the first mode (where the `sed` of the placeholder finds nothing
to replace), and `ResultsGrow` how `final-result` grows by one window.

### CPU lists and nodes

`CpusSplit` and `PinsSeparate`: `TwoRanges` turns the interleaved array into
pairs of siblings and `TwoRuns` the pairs into two runs of CPUs; the rest is
arithmetic on their ends. `NodesSplitHolds` has a case for as many nodes as
sockets (`NodePerSocket`) and one for a cut after the first socket's nodes
(`NodesCut`).

### The shared mutex

`ExclusiveHolds` rests on `Owned`: whoever is inside has its pid in the lock.
`ConservedHolds` is an invariant of its own: `wait`, the semaphore and the
posters add up to the waiters and the dead, although `wait` alone may be
negative. `NoLostWakeupHolds` uses both: with the account balanced, a sleeper
and a free lock mean that somebody is on the way to it, or died on it.

### limit_conn

The node of a key holds a number, the requests hold cleanups. `CountsExact` ties
them together but is not inductive: a cleanup that is there twice, or a limit
counted twice after a redirect, would break it. `RequestOK` says of one request
that its cleanups are different ones, that they are of limits the handler has
been through (each zone is once in a location, so the next one is new), that a
request without a verdict holds nothing, so that a redirect may start again, and
that a request that passed was counted in every zone. `Pushed` and `Popped` say
what the list of cleanups does, `CountUp` and `CountDown` what the numbers do.

### wrk's statistics

`stats_record` takes no lock: a thread adds to the array, then to the counter,
then reads both extremes and swaps its value in until it is not better than
what it sees. `NothingLost` says what holds when nobody is inside; the
invariant `Recording` says it at every access. The array and the counter are the
numbers of threads past the increment (`SamplesKept`, `CountKept`). For the
minimum (`MinKept`; `MaxKept` likewise): it is some thread's value; it is no more
than the value of any thread that has left the loop; and it only falls, so that
the copy a thread compares with is never below it, and a swap that succeeds never
raises it.

### benchmp

The parent never looks at who sent a byte, so that everything rests on counting.
`Staged` has one invariant per round. In the first two ("ready", "done") the bytes
in the pipe and those already collected are no more than the children that have
answered (`StageReady`, `StageDone`): the parent that has collected as many as it
has children knows that all have answered, which gives `LoadHeld`. In the third
there is one token, the request or the answer (`StageResult`). `Merging` says that
the merged results and the one in the pipe are of different children that have
reported; `ResultsComplete` is then the pigeonhole principle (as many different
results as children are of all children). `Reaping` follows the loops that wait,
of the normal end and of the undo of a failed fork, for `NoChildLeft`; `Faultless`
says that nobody ends early without a fault. The theorems say nothing of a call
that does not return: a call of several children, which has measured a baseline
before, may wait for ever (section 6), and `ProgramsEnd` says in which states.

### The balancer

`ConnsExact` and `WeightsBalance` are inductive with the types; the second is
about a sum over a set of any size. The lemmas from `SumDef` to `SumSame` show what
`SumFunctionOnSet` is when a member changes or a set of members does; where
induction on the size of a set would be used, they take the least
counterexample, whose existence needs no operator as a parameter.
`GetPeer` adds each candidate's effective weight and takes the total from the
chosen one, so that the sum stays 0 whatever the weights were lowered to.
`ProbesApart` needs `ProbesDated` (a request that checks a server was sent there no
later than the server was last checked or failed) and `ProbesPaired` (two that
check the same server are a fail_timeout apart): a server that is taken out is
chosen only when its last check is that old, and the choice sets the check to now.

### The proxied requests

`UInv` adds to the balancer's invariant `CacheExact`, `ExitingDrains` and
`RequestsSteady`, which says for each step of a request whether it holds a server
and a connection (`Placed`), that a request that must not be repeated and may still
go out did not go out (`Once`), and that a request that ends in an error at a
single server was not on a cached connection (`Unseen`). Each action is
one lemma per part; `CacheExact` is followed through saving with and without
eviction, reuse, and the close by the server. A connection is saved when its
request ends and when a 403 or 404 on it is retried; `LeftConn` says for both what
becomes of the connection that a request leaves. `UpstreamRefinesBalancer` shows
that, seen through the balancer's variables, every step is a step of `RRSpec` or
none. `Failing` names the servers whose answers may fail, to keep an instance
small; a cached connection that its server closed fails at any server, and the
balancer is told of it as of any failure. Hence the premise that every server may
fail, which is the code's case.

### The disk cache

Requests and the manager hold nodes of the zone between two locked sections; a
node that was used is counted, and one that is deleted is counted by its deleter
while the mutex is given up for the unlink. `FInv` is inductive. To the five
properties it adds `Placed` (what a process holds is what its step says),
`NodesOK` (a free slot keeps nothing of an earlier node; a size or a deletion
means a file), `Counted` (the count is exact in free slots too, so that a node
with a count of 0 is held by nobody and may be freed), `DeletedOnce` (a node has
one deleter, or was left by one that died), `DeletedAlone` (until a request finds
a node that is being deleted, nobody else holds it; `SizeExact` needs it when the
deleter comes back) and `Queued` (the queue is injective, of which `QueueExact`'s
length follows). Almost every action is one process that moves and one node that
changes: `Moves` and `OneMoves` say what such a step owes each part, with a lemma
per part (`HeldMoves`, `MarksMove`, `OwnersMove`, `SizeMoves`), and there is one
lemma per action. A death, after which the count stands for nobody living, and a
node that the loader adds, where nobody moves, are proved directly. The
lemmas on the queue (`RemovedQueue`, `TouchedQueue`, `RotatedQueue`) say that
removing, touching and rotating keep its members, each once.

## 6. Findings

* `bench_cores`: the branch "max is not 2^n" of the core ladder configures and
  reports the next power of two above the number of CPUs, where the comment
  says m, the number of cores (`nginx.sh:246` and `:270`).
* `fio_all`: `fio-test.sh:61` runs the binary and the file name together as one
  word; `set -e` ends every run with action `all` or `warmup` there and leaves
  the warm-up template bound to the disk.
* `wrk_timeout`: `wrk.c:344` records a timeout only when a late response comes;
  `wrk/README.md:44` says it is recorded if none is received in time.

Met while modelling, contradicting nothing the repository says, and kept in the
models (most as an exception that a property names):

* *master and cycle*: workers that the master revived beside a new binary may
  outlive it; a failed reload leaves pid files changed and the path of a unix
  socket it bound, which every later reload then finds in use
  (`ngx_cycle.c:924-935` closes without unlinking; the exception of
  `NotInOwnWay`), and a new binary that fails deletes the path
  (`ngx_cycle.c:718-735`);
* *file cache*: the size drifts in the window of a deletion;
  `ngx_http_file_cache.c:876-890` may add a second node after a forced expiry;
  `:1427` clears the mark of another owner's update; a process that dies leaves
  its count;
* *open files*: when a name is back at the cached file between `stat()` and
  `open()`, the new descriptor overwrites the old one, which stays open
  (`ngx_open_file_cache.c:309-317` and `:399`; the exception of `FdsOwned`);
* *resolver*: a useless answer counts as an answer (`ngx_resolver.c:2530`), and
  only the first waiter's recursion depth is counted;
* *HTTP/2*: a change of the initial window is lost when SETTINGS arrives in
  parts (`ngx_http_v2.c:2214`); RST_STREAM waits for the next output; a size
  update before the first entry of the header table is overwritten
  (`ngx_http_v2_table.c:202`);
* *client and server connections*: a client that goes away is not noticed while
  the response is being written; a read error in the event pipe does not set
  `p->read`; a single server is never taken out;
* *limits*: a worker that dies leaves its count (`limit_req`), as does a failing
  `ngx_pool_cleanup_add` (`ngx_http_limit_conn_module.c:294-298`);
* *wrk and lmbench*: with pipelining the corrected mean may leave the range that
  was seen (`MeanSeen` is stated without it); `benchmp` may wait for ever for
  children of the call that follows a baseline. `signal()` gave that call
  `benchmp_sigterm` as the handler to inherit (`lib_timing.c:222`), which its
  children keep in place of the default (`:643-644`), so that SIGTERM does not end
  them; `waitpid` in both `error_exit`s and in `cleanup_exit` then does not
  return, though the comment at `:293-303` means to kill such children
  (`Stubborn` in `MCEndings`, the exception of `ProgramsEnd`).

## 7. Not modelled, and the plan

* *ffmpeg runner* (`vcodec/ffmpeg/post-silicon-test.py`): starts processes, joins
  them and drains a queue of the Python library once; no state outlives a run.
* *Jenkins pipelines*: shell commands against external hosts whose progress is
  guessed by `ping` and `sleep`; the two scripts the nginx pipeline starts are
  modelled with any order of starts and restarts.
* *network, memory, CPU and thread scripts*: straight-line drivers.
* *rest of nginx 1.22.1* (TLS, proxy protocols, mail and stream proxies,
  filters, variables, the configuration parser): by far most of the C code in
  the repository, and mostly translators of bytes and tables of directives, whose
  state is the bytes themselves. The map covers about 8 % of all implementation
  lines for this reason.
* In the parts that are modelled: debug output, the copy of the results to the
  NAS, unit conversion and CPU lists in `fio-test.sh`, disk names that contain
  one another, the local yum repository and the other installations of `env.sh`
  that one file guards; in the C parts what each note in PROJECT.json names
  (allocation failures, TLS, wire formats, and features such as Vary or SRV).

Next:

1. `NoOverlap` of `NgxSlab`, whose state is functions rather than sequences, and
   the descriptors of `NgxOpenFileCache`, whose counts are of the kind of
   `NgxFileCache`'s;
2. the process table of `NgxMaster`: one invariant per signal, in the manner of
   the rounds of `Benchmp`;
3. the steps of `BenchReport` from the other side: that a pair left alone reports
   every test, which `Completes` checks.
