------------------------------ MODULE WrkStats ------------------------------
(***************************************************************************)
(* stats.c of wrk: the statistics that all threads record into without a   *)
(* lock, and what main() makes of them once the threads have ended: the    *)
(* correction for coordinated omission, the mean and the percentiles.      *)
(***************************************************************************)
EXTENDS Integers, FiniteSets, Functions, FiniteSetsExt

CONSTANTS
    Threads,    \* threads, each recording one value
    Limit,      \* stats->limit: values from here on are not recorded
    Pipeline    \* answers for each recorded latency (cfg.pipeline)

ThreadsAssumption == IsFiniteSet(Threads)
LimitAssumption == Limit \in Nat \ {0}
StatsPipelineAssumption == Pipeline \in Nat \ {0}

UINT64_MAX == Limit + 1
Values == 0..Limit - 1

VARIABLES
    stats,   \* struct stats: data, count, min, max
    th,      \* each thread: pc, the value n, its copies of min and max
    phase    \* "record", "corrected"

vars == <<stats, th, phase>>

(* stats_alloc.                                                              *)
Init ==
    /\ stats = [data |-> [n \in Values |-> 0], count |-> 0, min |-> UINT64_MAX, max |-> 0]
    /\ th = [t \in Threads |-> [pc |-> "idle", n |-> 0, min |-> 0, max |-> 0]]
    /\ phase = "record"

At(t, pc) == phase = "record" /\ th[t].pc = pc
Goto(t, pc) == th' = [th EXCEPT ![t].pc = pc]

-----------------------------------------------------------------------------
(* stats_record, one action for each access to the shared structure.         *)

Call(t, n) ==
    /\ At(t, "idle")
    /\ th' = [th EXCEPT ![t].n = n, ![t].pc = IF n >= Limit THEN "refused" ELSE "data"]
    /\ UNCHANGED <<stats, phase>>

(* A thread also may have nothing to record.                                 *)
Skip(t) == At(t, "idle") /\ Goto(t, "refused") /\ UNCHANGED <<stats, phase>>

AddData(t) ==
    /\ At(t, "data") /\ Goto(t, "count")
    /\ stats' = [stats EXCEPT !.data[th[t].n] = @ + 1]
    /\ UNCHANGED phase

AddCount(t) ==
    /\ At(t, "count") /\ Goto(t, "min")
    /\ stats' = [stats EXCEPT !.count = @ + 1]
    /\ UNCHANGED phase

ReadMin(t) ==
    /\ At(t, "min")
    /\ th' = [th EXCEPT ![t].min = stats.min, ![t].pc = "max"]
    /\ UNCHANGED <<stats, phase>>

ReadMax(t) ==
    /\ At(t, "max")
    /\ th' = [th EXCEPT ![t].max = stats.max, ![t].pc = "casmin"]
    /\ UNCHANGED <<stats, phase>>

(* __sync_val_compare_and_swap: what is stored; what is returned, the value  *)
(* before, becomes the thread's copy and the loop tests again. The variant   *)
(* stores without comparing.                                                 *)
Swap_Store(shared, copy, n) == n
Swap(shared, copy, n) == IF shared = copy THEN n ELSE shared

CasMin(t) ==
    /\ At(t, "casmin") /\ th[t].n < th[t].min
    /\ stats' = [stats EXCEPT !.min = Swap(@, th[t].min, th[t].n)]
    /\ th' = [th EXCEPT ![t].min = stats.min]
    /\ UNCHANGED phase

MinDone(t) ==
    /\ At(t, "casmin") /\ th[t].n >= th[t].min
    /\ Goto(t, "casmax") /\ UNCHANGED <<stats, phase>>

CasMax(t) ==
    /\ At(t, "casmax") /\ th[t].n > th[t].max
    /\ stats' = [stats EXCEPT !.max = Swap(@, th[t].max, th[t].n)]
    /\ th' = [th EXCEPT ![t].max = stats.max]
    /\ UNCHANGED phase

MaxDone(t) ==
    /\ At(t, "casmax") /\ th[t].n <= th[t].max
    /\ Goto(t, "done") /\ UNCHANGED <<stats, phase>>

-----------------------------------------------------------------------------
(* stats_correct(stats, expected): the loops, the outer one over n from 2 *  *)
(* expected to max, the inner one over m = n - expected, n - 2*expected and  *)
(* so on while m > expected. after[n] is the data after round n.             *)

Steps(n, e) == {m \in e + 1..n - 1 : (n - m) % e = 0}

Round(d, n, e) == [m \in Values |-> IF m \in Steps(n, e) THEN d[m] + d[n] ELSE d[m]]

Total(data, N) == MapThenSumSet(LAMBDA n : data[n], N)

Corrected(s, e) ==
    LET after[n \in 0..s.max] ==
            IF n < 2 * e THEN s.data ELSE Round(after[n - 1], n, e)
        data == after[s.max]
    IN  [s EXCEPT !.data = data, !.count = @ + Total(data, Values) - Total(s.data, Values)]

(* stats_mean and stats_percentile go from min to max.                       *)
Seen(s) == {n \in Values : s.min <= n /\ n <= s.max}
Sum(s) == MapThenSumSet(LAMBDA n : s.data[n] * n, Seen(s))

(* The first value with at least rank samples up to it, or 0.                *)
Percentile(s, rank) ==
    LET reached == {n \in Seen(s) : Total(s.data, {k \in Seen(s) : k <= n}) >= rank}
    IN  IF reached = {} THEN 0 ELSE Min(reached)

(* main() after pthread_join: the interval is what one answer took on        *)
(* average. A connection waits for the answers to one batch before it sends  *)
(* the next, so that Pipeline answers take as long as one recorded latency   *)
(* or longer, and a refused value takes Limit or longer.                     *)
Answers == Pipeline * Cardinality({t \in Threads : th[t].pc = "done"})
Interval(e) == e > 0 /\ e * Answers + Answers > Sum(stats)

Correct(e) ==
    /\ phase = "record" /\ \A t \in Threads : th[t].pc \in {"done", "refused"}
    /\ Answers > 0 /\ Interval(e)
    /\ stats' = Corrected(stats, e)
    /\ phase' = "corrected"
    /\ UNCHANGED th

Record(t) ==
    \/ \E n \in 0..Limit : Call(t, n)
    \/ Skip(t) \/ AddData(t) \/ AddCount(t) \/ ReadMin(t) \/ ReadMax(t)
    \/ CasMin(t) \/ MinDone(t) \/ CasMax(t) \/ MaxDone(t)

Next == (\E t \in Threads : Record(t)) \/ \E e \in 1..Limit : Correct(e)

Spec == Init /\ [][Next]_vars

-----------------------------------------------------------------------------
(* Properties                                                                *)

Recorded == {t \in Threads : th[t].pc = "done"}
Settled == phase = "record" /\ \A t \in Threads : th[t].pc \in {"idle", "done", "refused"}

(* Types.                                                                    *)
TypeOK ==
    /\ stats \in [data : [Values -> Nat], count : Nat, min : Values \cup {UINT64_MAX}, max : Values]
    /\ th \in [Threads -> [pc : {"idle", "refused", "data", "count", "min", "max",
                                 "casmin", "casmax", "done"},
                           n : 0..Limit, min : Values \cup {UINT64_MAX}, max : Values]]
    /\ phase \in {"record", "corrected"}

(* Whenever no thread is in the middle of a call, nothing is lost of what    *)
(* the threads recorded in any interleaving: neither samples nor extremes.   *)
NothingLost ==
    Settled =>
        /\ \A n \in Values : stats.data[n] = Cardinality({t \in Recorded : th[t].n = n})
        /\ stats.count = Cardinality(Recorded)
        /\ Recorded # {} => /\ stats.min = Min({th[t].n : t \in Recorded})
                            /\ stats.max = Max({th[t].n : t \in Recorded})

(* The correction as it is meant: a sample of n also stands for the requests *)
(* that would have been sent at intervals e while it was awaited; each adds  *)
(* a sample of what it would have waited, if that is more than e.            *)
Meant(e, n) ==
    LET waited == {w \in Recorded \X (0..Limit) : th[w[1]].n - w[2] * e = n}
    IN  Cardinality({w \in waited : w[2] = 0 \/ n > e})

(* The loops, which read counts they have changed before, compute it.        *)
CorrectionMeant ==
    phase = "corrected" =>
        \E e \in 1..Limit : \A n \in Values : stats.data[n] = Meant(e, n)

(* The mean lies in the range that was seen, and the percentile of the last  *)
(* rank is found, after the correction too, when there is no pipelining.     *)
MeanSeen ==
    phase = "corrected" =>
        /\ Sum(stats) >= stats.min * stats.count /\ Sum(stats) <= stats.max * stats.count
        /\ Percentile(stats, stats.count) = stats.max

=============================================================================
