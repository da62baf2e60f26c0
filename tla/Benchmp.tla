------------------------------ MODULE Benchmp ------------------------------
(***************************************************************************)
(* lib_timing.c of lmbench: benchmp() forks the children that run a        *)
(* benchmark at the same time, leads them through warmup, measurement and  *)
(* cooldown over four pipes, gathers their results and gets rid of them.   *)
(*                                                                         *)
(* The benchmark itself is external.  Children and the parent may be       *)
(* killed, children may hang, fork() may fail.                             *)
(***************************************************************************)
EXTENDS Integers, Sequences, FiniteSets, SequencesExt

CONSTANTS
    Parallel,   \* children of the call
    Reps,       \* repetitions: measurements of each child
    Cleanup,    \* the benchmark has a cleanup function
    MaxFaults   \* bound: deaths, hangs, failed forks and signals

ParallelAssumption == Parallel \in Nat \ {0}
RepsAssumption == Reps \in Nat \ {0} /\ Cleanup \in BOOLEAN /\ MaxFaults \in Nat

Children == 1..Parallel

VARIABLES
    job,      \* children of this call of benchmp: 1 for the baseline
    parent,   \* pc, the loop's index i, flags of the signal handlers, results
    child,    \* state, measurements, flag of benchmp_sigterm, hung
    pipe,     \* bytes in start, result and exit; the messages in response
    faults    \* faults so far

vars == <<job, parent, child, pipe, faults>>

Unborn == [st |-> "none", i |-> 0, rcv |-> FALSE, hung |-> FALSE]
EmptyPipes == [response |-> <<>>, start |-> 0, result |-> 0, exit |-> 0, open |-> TRUE]

(* benchmp before the first fork; a call for several children first calls    *)
(* itself for one.  inherited is benchmp_sigterm_handler: what signal() gave *)
(* back, the default in the first call and benchmp_sigterm in the second.    *)
Entering(inherited) ==
    [pc |-> "fork", i |-> 0, sigchld |-> FALSE, sigterm |-> FALSE, watching |-> TRUE,
     inherited |-> inherited, merged |-> <<>>, alarmed |-> FALSE, time |-> FALSE]

Init ==
    /\ job = 1
    /\ parent = Entering("default")
    /\ child = [c \in Children |-> Unborn]
    /\ pipe = EmptyPipes
    /\ faults = 0

At(pc) == parent.pc = pc
Fault == faults < MaxFaults /\ faults' = faults + 1

Running(c) == child[c].st \notin {"none", "zombie", "reaped"}
Parented == ~At("dead")

(* A process ends: SIGCHLD goes to the parent, whose handler is used once.   *)
Noticed(p) == IF p.watching /\ Parented THEN [p EXCEPT !.sigchld = TRUE, !.watching = FALSE] ELSE p
Dies(c) == child' = [child EXCEPT ![c].st = "zombie"] /\ parent' = Noticed(parent)

(* SIGTERM to a child: until the benchmark is initialised benchmp_sigterm    *)
(* notes it.  Then it is benchmp_child_sigterm, which ends the child, but    *)
(* when the handler that was inherited is not the default, that one.  The    *)
(* benchmark's cleanup, which benchmp_child_sigterm calls, is external.      *)
Terminated(k) ==
    IF k.st \in {"none", "zombie", "reaped"} THEN k
    ELSE IF k.st = "init" THEN [k EXCEPT !.rcv = TRUE]
    ELSE IF parent.inherited = "default" THEN [k EXCEPT !.st = "zombie"]
    ELSE k

-----------------------------------------------------------------------------
(* The parent                                                                *)

Fork ==
    /\ At("fork") /\ parent.i < job /\ ~parent.sigterm
    /\ child' = [child EXCEPT ![parent.i + 1] = [Unborn EXCEPT !.st = "init"]]
    /\ parent' = [parent EXCEPT !.i = @ + 1]
    /\ UNCHANGED <<job, pipe, faults>>

(* SIGTERM, or fork() fails: children are told to end and awaited.           *)
ForkFails ==
    /\ At("fork") /\ parent.i < job
    /\ IF parent.sigterm THEN UNCHANGED faults ELSE Fault
    /\ parent' = [parent EXCEPT !.pc = "undo", !.watching = FALSE]
    /\ UNCHANGED <<job, child, pipe>>

Forked ==
    /\ At("fork") /\ parent.i = job
    /\ parent' = [parent EXCEPT !.i = 0,
                    !.pc = IF parent.sigchld \/ parent.sigterm THEN "error" ELSE "ready"]
    /\ UNCHANGED <<job, child, pipe, faults>>

Disturbed == parent.sigchld \/ parent.sigterm

(* Collects a byte from every child.                                         *)
Wanted == job - parent.i

Collect(pc, next) ==
    /\ At(pc) /\ ~Disturbed /\ pipe.response # <<>>
    /\ LET n == IF Len(pipe.response) < Wanted THEN Len(pipe.response) ELSE Wanted IN
         /\ pipe' = [pipe EXCEPT !.response = SubSeq(@, n + 1, Len(@))]
         /\ parent' = IF n = Wanted THEN [parent EXCEPT !.i = 0, !.pc = next]
                                    ELSE [parent EXCEPT !.i = @ + n]
    /\ UNCHANGED <<job, child, faults>>

CollectReady == Collect("ready", "start")
CollectDone == Collect("done", "ask")

SendStart ==
    /\ At("start")
    /\ pipe' = [pipe EXCEPT !.start = @ + job]
    /\ parent' = [parent EXCEPT !.pc = "done"]
    /\ UNCHANGED <<job, child, faults>>

Ask ==
    /\ At("ask")
    /\ pipe' = [pipe EXCEPT !.result = @ + 1]
    /\ parent' = [parent EXCEPT !.pc = "gather"]
    /\ UNCHANGED <<job, child, faults>>

Gather ==
    /\ At("gather") /\ ~Disturbed /\ pipe.response # <<>>
    /\ pipe' = [pipe EXCEPT !.response = Tail(@)]
    /\ parent' = [parent EXCEPT !.merged = Append(@, Head(pipe.response)), !.i = @ + 1,
                                !.pc = IF parent.i + 1 = job THEN "exit" ELSE "ask"]
    /\ UNCHANGED <<job, child, faults>>

Measured == \E k \in 1..Len(parent.merged) : parent.merged[k].n > 0

SendExit ==
    /\ At("exit")
    /\ pipe' = [pipe EXCEPT !.exit = @ + job, !.open = FALSE]
    /\ parent' = [parent EXCEPT !.watching = FALSE, !.time = Measured,
                                !.pc = "await", !.i = job]
    /\ UNCHANGED <<job, child, faults>>

GiveUp ==
    /\ parent.pc \in {"ready", "done", "gather"} /\ Disturbed
    /\ parent' = [parent EXCEPT !.pc = "error", !.i = 0, !.watching = FALSE]
    /\ UNCHANGED <<job, child, pipe, faults>>

(* error_exit of benchmp_parent: kill, then waitpid, for one after another.  *)
KillNext ==
    /\ At("error") /\ parent.i < job
    /\ child' = [child EXCEPT ![parent.i + 1] = Terminated(@)]
    /\ parent' = [parent EXCEPT !.pc = "wait", !.watching = FALSE]
    /\ UNCHANGED <<job, pipe, faults>>

WaitNext ==
    /\ At("wait") /\ child[parent.i + 1].st \in {"zombie", "reaped"}
    /\ child' = [child EXCEPT ![parent.i + 1].st = "reaped"]
    /\ parent' = [parent EXCEPT !.pc = "error", !.i = @ + 1]
    /\ UNCHANGED <<job, pipe, faults>>

ErrorDone ==
    /\ At("error") /\ parent.i = job
    /\ pipe' = [pipe EXCEPT !.open = FALSE]
    /\ parent' = [parent EXCEPT !.pc = "await"]
    /\ UNCHANGED <<job, child, faults>>

(* error_exit of benchmp: the same from the last to the first.               *)
UndoKill ==
    /\ At("undo") /\ parent.i > 0
    /\ child' = [child EXCEPT ![parent.i] = Terminated(@)]
    /\ parent' = [parent EXCEPT !.pc = "undowait"]
    /\ UNCHANGED <<job, pipe, faults>>

UndoWait ==
    /\ At("undowait") /\ child[parent.i].st \in {"zombie", "reaped"}
    /\ child' = [child EXCEPT ![parent.i].st = "reaped"]
    /\ parent' = [parent EXCEPT !.pc = "undo", !.i = @ - 1]
    /\ UNCHANGED <<job, pipe, faults>>

(* cleanup_exit: waitpid for every child, and SIGTERM for one that takes     *)
(* long. The variant waits for one too few.                                  *)
LastToWait_OffByOne == 1
LastToWait == 0

Await ==
    /\ At("await") /\ parent.i > LastToWait /\ child[parent.i].st \in {"zombie", "reaped"}
    /\ child' = [child EXCEPT ![parent.i].st = "reaped"]
    /\ parent' = [parent EXCEPT !.i = @ - 1, !.alarmed = FALSE]
    /\ UNCHANGED <<job, pipe, faults>>

Alarm ==
    /\ At("await") /\ parent.i > LastToWait /\ ~parent.alarmed /\ Running(parent.i)
    /\ child' = [child EXCEPT ![parent.i] = Terminated(@)]
    /\ parent' = [parent EXCEPT !.alarmed = TRUE]
    /\ UNCHANGED <<job, pipe, faults>>

Returning == (At("await") /\ parent.i = LastToWait) \/ (At("undo") /\ parent.i = 0)

Return ==
    /\ Returning /\ (job = Parallel \/ ~parent.time)
    /\ parent' = [parent EXCEPT !.pc = "returned"]
    /\ UNCHANGED <<job, child, pipe, faults>>

(* The baseline is done: the call goes on with pipes and children of its own.*)
Baseline ==
    /\ Returning /\ job < Parallel /\ parent.time
    /\ job' = Parallel
    /\ parent' = Entering("benchmp_sigterm")
    /\ child' = [c \in Children |-> Unborn]
    /\ pipe' = EmptyPipes
    /\ UNCHANGED faults

-----------------------------------------------------------------------------
(* A child: benchmp_child, then benchmp_interval again and again.            *)

Step(c, st) == Running(c) /\ ~child[c].hung /\ child[c].st = st

Goto(c, st) == child' = [child EXCEPT ![c].st = st] /\ UNCHANGED parent

(* write() to response: SIGPIPE ends the child when nobody can read.         *)
Write(c, st, message) ==
    IF pipe.open
      THEN Goto(c, st) /\ pipe' = [pipe EXCEPT !.response = Append(@, message)]
      ELSE Dies(c) /\ UNCHANGED pipe

(* read() from a pipe gets a byte, or the end of the file when the parent    *)
(* has closed it.                                                            *)
Readable(name) == pipe[name] > 0 \/ ~pipe.open
Taken(name) == [pipe EXCEPT ![name] = IF @ > 0 THEN @ - 1 ELSE 0]

Initialised(c) ==
    /\ Step(c, "init")
    /\ IF child[c].rcv THEN Dies(c) ELSE Goto(c, "warmup")
    /\ UNCHANGED <<job, pipe, faults>>

SendReady(c) ==
    /\ Step(c, "warmup") /\ Write(c, "ready", "ready")
    /\ UNCHANGED <<job, faults>>

Started(c) ==
    /\ Step(c, "ready") /\ Readable("start")
    /\ Goto(c, "timing") /\ pipe' = Taken("start")
    /\ UNCHANGED <<job, faults>>

Measure(c) ==
    /\ Step(c, "timing") /\ child[c].i < Reps - 1
    /\ child' = [child EXCEPT ![c].i = @ + 1]
    /\ UNCHANGED <<job, parent, pipe, faults>>

(* The last measurement; alone, a child also gives up when no number of      *)
(* iterations takes long enough.                                             *)
MeasureLast(c) ==
    /\ Step(c, "timing")
    /\ \E n \in {Reps} \cup (IF job = 1 THEN 0..child[c].i ELSE {}) :
         /\ n = Reps => child[c].i = Reps - 1
         /\ IF pipe.open
              THEN /\ child' = [child EXCEPT ![c].st = "cooldown", ![c].i = n]
                   /\ pipe' = [pipe EXCEPT !.response = Append(@, "done")]
                   /\ UNCHANGED parent
              ELSE Dies(c) /\ UNCHANGED pipe
    /\ UNCHANGED <<job, faults>>

(* select() and read() are two steps: several children may see one byte.     *)
SeesRequest(c) ==
    /\ Step(c, "cooldown") /\ Readable("result")
    /\ Goto(c, "asked")
    /\ UNCHANGED <<job, pipe, faults>>

AfterReport == "sent"

Report(c) ==
    /\ Step(c, "asked") /\ Readable("result")
    /\ IF pipe.open
         THEN /\ Goto(c, AfterReport)
              /\ pipe' = [Taken("result") EXCEPT
                             !.response = Append(@, [from |-> c, n |-> child[c].i])]
         ELSE Dies(c) /\ UNCHANGED pipe
    /\ UNCHANGED <<job, faults>>

Exit(c) ==
    /\ Step(c, "sent") /\ Readable("exit")
    /\ Dies(c) /\ pipe' = Taken("exit")
    /\ UNCHANGED <<job, faults>>

(* The parent is gone: a child with a cleanup function looks for it.         *)
Orphaned(c) ==
    /\ ~Parented /\ Cleanup /\ \E st \in {"warmup", "ready", "timing", "cooldown"} : Step(c, st)
    /\ Dies(c)
    /\ UNCHANGED <<job, pipe, faults>>

ChildStep(c) ==
    \/ Initialised(c) \/ SendReady(c) \/ Started(c) \/ Measure(c) \/ MeasureLast(c)
    \/ SeesRequest(c) \/ Report(c) \/ Exit(c) \/ Orphaned(c)

-----------------------------------------------------------------------------
(* Faults                                                                    *)

ChildKilled(c) == Running(c) /\ Fault /\ Dies(c) /\ UNCHANGED <<job, pipe>>

(* The benchmark's cleanup does not return.                                  *)
ChildHangs(c) ==
    /\ child[c].st = "sent" /\ ~child[c].hung /\ Fault
    /\ child' = [child EXCEPT ![c].hung = TRUE]
    /\ UNCHANGED <<job, parent, pipe>>

SigTerm ==
    /\ parent.pc \notin {"returned", "dead"} /\ ~parent.sigterm /\ Fault
    /\ parent' = [parent EXCEPT !.sigterm = TRUE]
    /\ UNCHANGED <<job, child, pipe>>

ParentKilled ==
    /\ parent.pc \notin {"returned", "dead"} /\ Fault
    /\ parent' = [parent EXCEPT !.pc = "dead"]
    /\ pipe' = [pipe EXCEPT !.open = FALSE]
    /\ UNCHANGED <<job, child>>

ParentStep ==
    \/ Fork \/ ForkFails \/ Forked \/ CollectReady \/ SendStart \/ CollectDone
    \/ Ask \/ Gather \/ SendExit \/ GiveUp \/ KillNext \/ WaitNext \/ ErrorDone
    \/ UndoKill \/ UndoWait \/ Await \/ Alarm \/ Return \/ Baseline

Ended == parent.pc \in {"returned", "dead"} /\ \A c \in Children : ~Running(c) \/ child[c].hung

Next ==
    \/ ParentStep \/ SigTerm \/ ParentKilled
    \/ \E c \in Children : ChildStep(c) \/ ChildKilled(c) \/ ChildHangs(c)
    \/ (Ended /\ UNCHANGED vars)

Spec == Init /\ [][Next]_vars

-----------------------------------------------------------------------------
(* Properties                                                                *)

(* Types.                                                                    *)
TypeOK ==
    /\ job \in {1, Parallel} /\ faults \in 0..MaxFaults
    /\ parent.pc \in {"fork", "ready", "start", "done", "ask", "gather", "exit", "error",
                      "wait", "undo", "undowait", "await", "returned", "dead"}
    /\ parent.i \in 0..job /\ parent.inherited \in {"default", "benchmp_sigterm"}
    /\ \A c \in Children :
         /\ child[c].st \in {"none", "init", "warmup", "ready", "timing", "cooldown", "asked",
                             "sent", "zombie", "reaped"}
         /\ child[c].i \in 0..Reps
    /\ pipe.start \in 0..job /\ pipe.result \in 0..1 /\ pipe.exit \in 0..job
    /\ Len(pipe.response) <= job

(* Every measurement is taken under the whole load: while one child          *)
(* measures, all of them run the benchmark; none is still being initialised, *)
(* and none waits in a read or has ended, unless a fault took it.            *)
LoadHeld ==
    faults = 0 => \A c, d \in 1..job : child[c].st = "timing" =>
        child[d].st \in {"ready", "timing", "cooldown"}

(* What is merged are the results of all children, one of each, with all     *)
(* their measurements when they ran together.                                *)
ResultsComplete ==
    parent.time =>
        /\ {parent.merged[k].from : k \in 1..Len(parent.merged)} = 1..job
        /\ Len(parent.merged) = job
        /\ job > 1 => \A k \in 1..job : parent.merged[k].n = Reps

(* A call that returns leaves no child behind, running or as a zombie.       *)
NoChildLeft ==
    At("returned") => \A c \in Children : child[c].st \in {"none", "reaped"}

=============================================================================
