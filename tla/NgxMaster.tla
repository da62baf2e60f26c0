------------------------------ MODULE NgxMaster ------------------------------
(***************************************************************************)
(* ngx_process_cycle.c and ngx_process.c: the master process, its table of *)
(* children, and the workers it starts, tells to leave, kills and starts   *)
(* again.                                                                  *)
(*                                                                         *)
(* The master sleeps in sigsuspend; its handlers set flags, and its loop   *)
(* serves them in a fixed order with signals blocked.  Each part of the    *)
(* loop is an action, and workers run between any two of them.  A free     *)
(* slot of the table stands for pid -1 and for every slot from             *)
(* ngx_last_process on.                                                    *)
(***************************************************************************)
EXTENDS Integers, FiniteSets

CONSTANTS
    Slots,      \* slots of ngx_processes (numbers)
    Workers,    \* ccf->worker_processes
    Operator,   \* the signals the operator may send
    KillAfter,  \* doublings of the delay before SIGKILL (5 in the code)
    MaxSignals, \* bound: signals of the operator
    MaxFaults   \* bound: workers that crash or hang, forks and reloads that fail

WorkersAssumption == Workers \in Nat \ {0}
BoundsAssumption == KillAfter \in Nat /\ MaxSignals \in Nat /\ MaxFaults \in Nat
OperatorAssumption == Operator \subseteq {"HUP", "QUIT", "TERM", "USR2", "WINCH"}

Failed == -1   \* NGX_INVALID_PID
None == 0
SlotsAssumption == Slots \subseteq Nat \ {0}

VARIABLES
    table,    \* ngx_processes
    os,       \* the process behind each slot
    mail,     \* commands in its channel
    pending,  \* signals blocked in the master
    flags,    \* ngx_reap, ngx_quit, ...
    binary,   \* ngx_new_binary: None, Failed or a slot
    m,        \* the rest of the master: place in the loop, live, delay, sigio, ngx_noaccepting
    cycle,    \* generation of the configuration
    pidfile,  \* whose pid nginx.pid and nginx.pid.oldbin hold
    env       \* signals and faults so far, and what they did

vars == <<table, os, mail, pending, flags, binary, m, cycle, pidfile, env>>

Empty == [kind |-> "none", exiting |-> FALSE, exited |-> FALSE, respawn |-> FALSE,
          just |-> FALSE, cycle |-> 0]
Worker(just, c) == [kind |-> "worker", exiting |-> FALSE, exited |-> FALSE, respawn |-> TRUE,
                    just |-> just, cycle |-> c]
Binary == [Empty EXCEPT !.kind = "binary"]   \* NGX_PROCESS_DETACHED

Alive == {"run", "drain", "stuck"}

Used == {s \in Slots : table[s].kind # "none"}
Free == Slots \ Used
FirstFree(n) == {s \in Free : Cardinality({t \in Free : t < s}) < n}

At(place) == m.pc = place
Go(place) == m' = [m EXCEPT !.pc = place]
Fault == env.faults < MaxFaults
FaultHappens(n) == env' = [env EXCEPT !.faults = @ + n]

Init ==
    LET first == {s \in Slots : Cardinality({t \in Slots : t < s}) < Workers} IN
    /\ table = [s \in Slots |-> IF s \in first THEN Worker(FALSE, 1) ELSE Empty]
    /\ os = [s \in Slots |-> IF s \in first THEN "run" ELSE "none"]
    /\ mail = [s \in Slots |-> {}]
    /\ pending = {} /\ flags = {} /\ binary = None /\ cycle = 1
    /\ m = [pc |-> "suspend", live |-> TRUE, delay |-> 0, sigio |-> 0, noaccepting |-> FALSE]
    /\ pidfile = [pid |-> "us", oldbin |-> "nobody"]
    /\ env = [signals |-> 0, faults |-> 0, lost |-> FALSE, skipped |-> FALSE,
              revived |-> FALSE]

-----------------------------------------------------------------------------
(* ngx_signal_handler: sigsuspend returns after every pending signal was     *)
(* handled.  SIGCHLD collects all dead children (ngx_process_get_status).    *)

FlagOf == [HUP |-> "reconfigure", QUIT |-> "quit", TERM |-> "terminate", WINCH |-> "noaccept",
           USR2 |-> "change_binary", CHLD |-> "reap", ALRM |-> "sigalrm"]

Heard == IF binary > 0 THEN pending \ {"USR2"} ELSE pending

Collected(e, o) ==
    IF o = "zombie" THEN [e EXCEPT !.exited = TRUE]
    ELSE IF o = "fatal" THEN [e EXCEPT !.exited = TRUE, !.respawn = FALSE]
    ELSE e

Wake ==
    /\ At("suspend") /\ pending # {}
    /\ flags' = flags \cup {FlagOf[sig] : sig \in Heard}
    /\ IF "CHLD" \in pending
         THEN /\ table' = [s \in Slots |-> Collected(table[s], os[s])]
              /\ os' = [s \in Slots |-> IF os[s] \in {"zombie", "fatal"} THEN "none" ELSE os[s]]
         ELSE UNCHANGED <<table, os>>
    /\ pending' = {}
    /\ Go("reap")
    /\ UNCHANGED <<mail, binary, cycle, pidfile, env>>

-----------------------------------------------------------------------------
(* ngx_reap_children                                                         *)

Dead == {s \in Used : table[s].exited}
Leaving == flags \cap {"terminate", "quit"} # {}

Again == {s \in Dead : table[s].respawn /\ ~table[s].exiting /\ ~Leaving}

(* ngx_spawn_process into the slots of a set.  A fork may fail.              *)
Forked(S) == {T \in SUBSET S : Cardinality(S \ T) <= MaxFaults - env.faults}

BinaryGone == binary \in Dead

Reap ==
    /\ At("reap") /\ "reap" \in flags
    /\ \E T \in Forked(Again) :
         /\ table' = [s \in Slots |->
                        IF s \in T THEN [table[s] EXCEPT !.exited = FALSE, !.cycle = cycle]
                        ELSE IF s \in Dead \ Again THEN Empty ELSE table[s]]
         /\ os' = [s \in Slots |-> IF s \in T THEN "run" ELSE os[s]]
         /\ mail' = [s \in Slots |-> IF s \in Dead THEN {} ELSE mail[s]]
         /\ m' = [m EXCEPT !.pc = "decide", !.noaccepting = @ /\ ~BinaryGone,
                           !.live = T # {} \/ \E s \in Used \ Dead : table[s].kind = "worker"]
         /\ env' = [env EXCEPT !.faults = @ + Cardinality(Again \ T), !.revived = FALSE,
                               !.lost = @ \/ T # Again]
    /\ flags' = (flags \ {"reap"}) \cup (IF BinaryGone /\ m.noaccepting THEN {"restart"} ELSE {})
    /\ binary' = IF BinaryGone THEN None ELSE binary
    /\ pidfile' = IF BinaryGone THEN [pid |-> pidfile.oldbin, oldbin |-> "nobody"] ELSE pidfile
    /\ UNCHANGED <<pending, cycle>>

NothingToReap ==
    /\ At("reap") /\ "reap" \notin flags
    /\ Go("decide")
    /\ UNCHANGED <<table, os, mail, pending, flags, binary, cycle, pidfile, env>>

-----------------------------------------------------------------------------
(* ngx_signal_worker_processes.  The channel of a dead child whose respawn   *)
(* failed is closed: kill finds nobody, and the slot is reaped again.        *)

(* The variant does not spare the workers just started.                      *)
Told_Just(sig) == {s \in Used : table[s].kind = "worker"
                                /\ ~(sig = "quit" /\ table[s].exiting)}
Told(sig) == {s \in Used : /\ table[s].kind = "worker" /\ ~table[s].just
                           /\ ~(sig = "quit" /\ table[s].exiting)}

Unreachable(sig) == {s \in Told(sig) : table[s].exited}

(* the next signal spares them as well.                                      *)
Marked(s, sig) ==
    IF s \in Unreachable(sig) THEN [table[s] EXCEPT !.exiting = FALSE, !.just = FALSE]
    ELSE IF s \in Told(sig) THEN [table[s] EXCEPT !.exiting = TRUE, !.just = FALSE]
    ELSE [table[s] EXCEPT !.just = FALSE]

SignalWorkers(sig) ==
    LET told == Told(sig) \ Unreachable(sig) IN
        /\ table' = [s \in Slots |-> Marked(s, sig)]
        /\ IF sig = "kill"
             THEN /\ os' = [s \in Slots |-> IF s \in told /\ os[s] \in Alive THEN "zombie" ELSE os[s]]
                  /\ pending' = pending \cup (IF \E s \in told : os[s] \in Alive THEN {"CHLD"} ELSE {})
                  /\ UNCHANGED mail
             ELSE /\ mail' = [s \in Slots |-> IF s \in told THEN mail[s] \cup {sig} ELSE mail[s]]
                  /\ UNCHANGED <<os, pending>>
        /\ flags' = flags \cup (IF Unreachable(sig) # {} THEN {"reap"} ELSE {})

(* ngx_start_worker_processes                                                *)
StartWorkers(just) ==
    \E T \in Forked(FirstFree(Workers)) :
        /\ Cardinality(FirstFree(Workers)) = Workers   \* bound: Slots
        /\ table' = [s \in Slots |-> IF s \in T THEN Worker(just, cycle') ELSE table[s]]
        /\ os' = [s \in Slots |-> IF s \in T THEN "run" ELSE os[s]]
        /\ mail' = [s \in Slots |-> IF s \in T THEN {} ELSE mail[s]]
        /\ env' = [env EXCEPT !.faults = @ + Workers - Cardinality(T),
                              !.lost = @ \/ Cardinality(T) < Workers,
                              !.skipped = @ \/ (binary # None /\ ~just),
                              !.revived = @ \/ (binary # None /\ ~just)]

-----------------------------------------------------------------------------
(* The rest of ngx_master_process_cycle, in the order of its tests.          *)

Exits == ~m.live /\ Leaving

MasterExit ==
    /\ At("decide") /\ Exits
    /\ Go("exited")
    /\ pidfile' = IF binary # None THEN [pidfile EXCEPT !.oldbin = "nobody"]
                                   ELSE [pidfile EXCEPT !.pid = "nobody"]
    /\ UNCHANGED <<table, os, mail, pending, flags, binary, cycle, env>>

(* While sigio counts down, a wakeup tells nobody anything.                  *)
Terminate ==
    /\ At("decide") /\ ~Exits /\ "terminate" \in flags
    /\ LET d == IF m.delay = 0 THEN 1 ELSE m.delay IN
       IF m.sigio > 0
         THEN /\ m' = [m EXCEPT !.pc = "top", !.delay = d, !.sigio = @ - 1]
              /\ UNCHANGED <<table, os, mail, pending, flags>>
         ELSE /\ m' = [m EXCEPT !.pc = "top", !.delay = d, !.sigio = Workers + 2]
              /\ SignalWorkers(IF d > KillAfter THEN "kill" ELSE "term")
    /\ UNCHANGED <<binary, cycle, pidfile, env>>

Quit ==
    /\ At("decide") /\ ~Exits /\ "terminate" \notin flags /\ "quit" \in flags
    /\ SignalWorkers("quit")
    /\ Go("top")
    /\ UNCHANGED <<binary, cycle, pidfile, env>>

(* The top of the loop: the alarm doubles the delay.  The variant does not.  *)
Top_SameDelay ==
    /\ At("top")
    /\ m' = [m EXCEPT !.pc = "suspend", !.sigio = IF "sigalrm" \in flags THEN 0 ELSE @]
    /\ flags' = flags \ {"sigalrm"}
    /\ UNCHANGED <<table, os, mail, pending, binary, cycle, pidfile, env>>

Top ==
    /\ At("top")
    /\ IF m.delay > 0 /\ "sigalrm" \in flags
         THEN /\ m' = [m EXCEPT !.pc = "suspend", !.sigio = 0,
                                !.delay = IF @ > KillAfter THEN @ ELSE @ + 1]
              /\ flags' = flags \ {"sigalrm"}
         ELSE Go("suspend") /\ UNCHANGED flags
    /\ UNCHANGED <<table, os, mail, pending, binary, cycle, pidfile, env>>

GoOn(place) == At(place) /\ ~Leaving

(* A new binary runs: more workers, and no new configuration.                *)
Revive ==
    /\ GoOn("decide") /\ "reconfigure" \in flags /\ binary # None
    /\ flags' = flags \ {"reconfigure"}
    /\ cycle' = cycle
    /\ StartWorkers(FALSE)
    /\ m' = [m EXCEPT !.pc = "top", !.noaccepting = FALSE]
    /\ UNCHANGED <<pending, binary, pidfile>>

(* ngx_init_cycle refuses the new configuration.                             *)
ReloadFails ==
    /\ GoOn("decide") /\ "reconfigure" \in flags /\ binary = None /\ Fault
    /\ flags' = flags \ {"reconfigure"}
    /\ env' = [env EXCEPT !.faults = @ + 1, !.skipped = TRUE]
    /\ Go("top")
    /\ UNCHANGED <<table, os, mail, pending, binary, cycle, pidfile>>

Reload ==
    /\ GoOn("decide") /\ "reconfigure" \in flags /\ binary = None
    /\ flags' = flags \ {"reconfigure"}
    /\ cycle' = cycle + 1
    /\ StartWorkers(TRUE)
    /\ m' = [m EXCEPT !.pc = "started", !.live = TRUE]
    /\ UNCHANGED <<pending, binary, pidfile>>

TellOld ==
    /\ At("started")
    /\ SignalWorkers("quit")
    /\ Go("restart")
    /\ UNCHANGED <<binary, cycle, pidfile, env>>

NoReload ==
    /\ GoOn("decide") /\ "reconfigure" \notin flags
    /\ Go("restart")
    /\ UNCHANGED <<table, os, mail, pending, flags, binary, cycle, pidfile, env>>

(* The new binary has left after the workers were told to.                   *)
Restart ==
    /\ At("restart") /\ "restart" \in flags
    /\ flags' = flags \ {"restart"}
    /\ cycle' = cycle
    /\ StartWorkers(FALSE)
    /\ m' = [m EXCEPT !.pc = "change", !.live = TRUE]
    /\ UNCHANGED <<pending, binary, pidfile>>

NoRestart ==
    /\ At("restart") /\ "restart" \notin flags
    /\ Go("change")
    /\ UNCHANGED <<table, os, mail, pending, flags, binary, cycle, pidfile, env>>

(* ngx_exec_new_binary                                                       *)
ChangeBinary ==
    /\ At("change") /\ "change_binary" \in flags /\ Free # {}
    /\ LET s == CHOOSE t \in Free : t \in FirstFree(1) IN
       /\ table' = [table EXCEPT ![s] = Binary]
       /\ os' = [os EXCEPT ![s] = "run"]
       /\ binary' = s
    /\ pidfile' = [pid |-> "nobody", oldbin |-> pidfile.pid]
    /\ flags' = flags \ {"change_binary"}
    /\ Go("noaccept")
    /\ UNCHANGED <<mail, pending, cycle, env>>

(* The rename or the fork fails: the pid file is back at its name.           *)
ChangeBinaryFails ==
    /\ At("change") /\ "change_binary" \in flags /\ Fault
    /\ binary' = Failed
    /\ flags' = flags \ {"change_binary"}
    /\ Go("noaccept")
    /\ FaultHappens(1)
    /\ UNCHANGED <<table, os, mail, pending, cycle, pidfile>>

NoChange ==
    /\ At("change") /\ "change_binary" \notin flags
    /\ Go("noaccept")
    /\ UNCHANGED <<table, os, mail, pending, flags, binary, cycle, pidfile, env>>

NoAccept ==
    /\ At("noaccept") /\ "noaccept" \in flags
    /\ m' = [m EXCEPT !.pc = "forget", !.noaccepting = TRUE]
    /\ SignalWorkers("quit")
    /\ UNCHANGED <<binary, cycle, pidfile, env>>

NoAcceptDone ==
    /\ At("forget") \/ (At("noaccept") /\ "noaccept" \notin flags)
    /\ flags' = flags \ {"noaccept"}
    /\ Go("top")
    /\ UNCHANGED <<table, os, mail, pending, binary, cycle, pidfile, env>>

Master ==
    \/ Wake \/ Reap \/ NothingToReap \/ MasterExit \/ Terminate \/ Quit \/ Top
    \/ Revive \/ ReloadFails \/ Reload \/ TellOld \/ NoReload \/ Restart \/ NoRestart
    \/ ChangeBinary \/ ChangeBinaryFails \/ NoChange \/ NoAccept \/ NoAcceptDone

-----------------------------------------------------------------------------
(* Workers: ngx_channel_handler and ngx_worker_process_cycle.                *)

IsWorker(s) == table[s].kind = "worker"

Ends(s, how) ==
    /\ os' = [os EXCEPT ![s] = how]
    /\ mail' = [mail EXCEPT ![s] = {}]
    /\ pending' = IF At("exited") THEN pending ELSE pending \cup {"CHLD"}
    /\ UNCHANGED <<table, flags, binary, m, cycle>>

WorkerTerminates(s) ==
    /\ IsWorker(s) /\ os[s] \in {"run", "drain"} /\ "term" \in mail[s]
    /\ Ends(s, "zombie")
    /\ UNCHANGED <<pidfile, env>>

WorkerQuits(s) ==
    /\ IsWorker(s) /\ os[s] \in {"run", "drain"} /\ mail[s] = {"quit"}
    /\ os' = [os EXCEPT ![s] = "drain"]
    /\ mail' = [mail EXCEPT ![s] = {}]
    /\ UNCHANGED <<table, pending, flags, binary, m, cycle, pidfile, env>>

(* No timers are left.                                                       *)
WorkerDrained(s) ==
    /\ IsWorker(s) /\ os[s] = "drain"
    /\ Ends(s, "zombie")
    /\ UNCHANGED <<pidfile, env>>

(* A crash, or exit(2) of ngx_worker_process_init.                           *)
WorkerDies(s) ==
    /\ Fault /\ IsWorker(s) /\ os[s] \in Alive
    /\ \E how \in {"zombie", "fatal"} :
         /\ Ends(s, how)
         /\ env' = [env EXCEPT !.faults = @ + 1, !.lost = @ \/ how = "fatal"]
    /\ UNCHANGED pidfile

WorkerHangs(s) ==
    /\ Fault /\ IsWorker(s) /\ os[s] \in {"run", "drain"}
    /\ os' = [os EXCEPT ![s] = "stuck"]
    /\ FaultHappens(1)
    /\ UNCHANGED <<table, mail, pending, flags, binary, m, cycle, pidfile>>

(* The new binary writes nginx.pid; it leaves with or without deleting it.   *)
BinaryStarts(s) ==
    /\ table[s].kind = "binary" /\ os[s] = "run" /\ pidfile.pid = "nobody"
    /\ pidfile' = [pidfile EXCEPT !.pid = "new"]
    /\ UNCHANGED <<table, os, mail, pending, flags, binary, m, cycle, env>>

BinaryEnds(s) ==
    /\ table[s].kind = "binary" /\ os[s] = "run"
    /\ Ends(s, "zombie")
    /\ pidfile' \in {pidfile, [pidfile EXCEPT !.pid = "nobody"]}
    /\ UNCHANGED env

WorkerGoesOn(s) == WorkerTerminates(s) \/ WorkerQuits(s) \/ WorkerDrained(s)

(* kill by the operator, and the timer set while terminating.                *)
Send(sig) ==
    /\ ~At("exited") /\ env.signals < MaxSignals /\ sig \notin pending
    /\ pending' = pending \cup {sig}
    /\ env' = [env EXCEPT !.signals = @ + 1]
    /\ UNCHANGED <<table, os, mail, flags, binary, m, cycle, pidfile>>

Alarm ==
    /\ At("suspend") /\ m.delay > 0 /\ "ALRM" \notin pending
    /\ pending' = pending \cup {"ALRM"}
    /\ UNCHANGED <<table, os, mail, flags, binary, m, cycle, pidfile, env>>

Next ==
    \/ Master
    \/ \E s \in Slots : WorkerGoesOn(s) \/ WorkerDies(s) \/ WorkerHangs(s)
    \/ \E s \in Slots : BinaryStarts(s) \/ BinaryEnds(s)
    \/ \E sig \in Operator : Send(sig)
    \/ Alarm

Spec == Init /\ [][Next]_vars

-----------------------------------------------------------------------------
(* Properties                                                                *)

Places == {"suspend", "reap", "decide", "top", "started", "restart", "change", "noaccept",
           "forget", "exited"}

(* Types of the table, of the processes and of the flags.                    *)
TypeOK ==
    /\ table \in [Slots -> [kind : {"none", "worker", "binary"}, exiting : BOOLEAN,
                            exited : BOOLEAN, respawn : BOOLEAN, just : BOOLEAN, cycle : Nat]]
    /\ os \in [Slots -> Alive \cup {"none", "zombie", "fatal"}]
    /\ mail \in [Slots -> SUBSET {"quit", "term"}]
    /\ pending \subseteq DOMAIN FlagOf
    /\ flags \subseteq {FlagOf[sig] : sig \in DOMAIN FlagOf} \cup {"restart"}
    /\ binary \in Slots \cup {None, Failed} /\ cycle \in Nat
    /\ m.pc \in Places /\ m.live \in BOOLEAN /\ m.noaccepting \in BOOLEAN
    /\ m.delay \in 0..KillAfter + 1 /\ m.sigio \in 0..Workers + 2
    /\ pidfile \in [{"pid", "oldbin"} -> {"us", "new", "nobody"}]

Living == {s \in Slots : IsWorker(s) /\ os[s] \in Alive}

(* No worker outlives its master, unless the master revived workers beside a *)
(* new binary (which does not set "live") and no child was reaped since.     *)
OrphansOnlyRevived == At("exited") /\ ~env.revived => Living = {}

(* Whenever the master sleeps, every worker of an older configuration has    *)
(* been told to leave, however crashes, failed forks and reloads interleave. *)
OldOnesTold ==
    At("suspend") => \A s \in Living : table[s].cycle < cycle => table[s].exiting

(* A master that nobody asked to stop has a worker that accepts, or a dead   *)
(* one it is about to collect, whatever crashes; unless all hang, or a fork  *)
(* or an initialisation failed, which nobody tries again, or the restart     *)
(* waits behind a reload that failed (see FlagsServed).                      *)
ServesOrRecovers ==
    At("suspend") /\ ~Leaving /\ ~m.noaccepting /\ "noaccept" \notin flags =>
        \/ \E s \in Living : os[s] \in {"run", "stuck"} /\ ~table[s].exiting
        \/ "CHLD" \in pending
        \/ env.lost \/ "restart" \in flags

(* No flag but the lasting ones is left when the master goes to sleep, where *)
(* it would wait for an unrelated signal; except that "reap" waits when kill *)
(* found nobody, and the flags behind a reload that failed or was a revival. *)
FlagsServed ==
    At("suspend") =>
        flags \subseteq {"terminate", "quit", "reap"} \cup
            (IF Leaving \/ env.skipped THEN {"noaccept", "change_binary", "restart", "reconfigure",
                                             "sigalrm"}
             ELSE {})

(* The master's pid is in exactly one of the two files while it runs, and in *)
(* none afterwards, except after a failed change of the binary, when it      *)
(* deletes the wrong one.                                                    *)
PidFilesHonest ==
    LET ours == {f \in DOMAIN pidfile : pidfile[f] = "us"} IN
    IF At("exited") THEN binary # Failed => ours = {}
    ELSE ours = {IF binary > 0 THEN "oldbin" ELSE "pid"}

Stuck == \E s \in Slots : os[s] = "stuck"

(* A reload or a restart sets "live" also when all its forks failed, and     *)
(* only the death of a child lets the master look again.                     *)
NobodyLeft == env.lost /\ Living = {} /\ m.live

(* What a signal is sent for: number 1 SIGTERM, 2 SIGQUIT, 2 + n SIGHUP when *)
(* the n-th configuration is in use.                                         *)
Signalled(i) ==
    IF i <= 2 THEN <<"terminate", "quit">>[i] \in flags
    ELSE "reconfigure" \in flags /\ cycle = i - 2

(* And its effect: SIGTERM ends the master, and every worker before it, hung *)
(* or not; SIGQUIT ends it, unless a worker hangs; after SIGHUP there are    *)
(* workers with a newer configuration and no old ones, unless the            *)
(* configuration is bad, a worker hangs, a new binary is being tried or has  *)
(* failed, or the master has to leave.                                       *)
Served(i) ==
    \/ i <= 2 /\ (At("exited") \/ NobodyLeft)
    \/ i >= 2 /\ Stuck
    \/ i > 2 /\ \/ cycle > i - 2 /\ \A s \in Living : table[s].cycle > i - 2
                \/ Leaving \/ binary > 0 \/ binary = Failed \/ env.skipped

=============================================================================
