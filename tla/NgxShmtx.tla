------------------------------ MODULE NgxShmtx ------------------------------
(***************************************************************************)
(* ngx_shmtx.c: the mutex in shared memory that guards every zone and the  *)
(* accept queue.  The lock is the holder's pid, taken by compare-and-swap; *)
(* a process that has spun in vain counts itself in "wait", looks once     *)
(* more and sleeps on a semaphore.  The unlocker takes one from "wait" and *)
(* posts.                                                                  *)
(*                                                                         *)
(* Workers may die anywhere.  The master reaps them: it takes the lock     *)
(* from a dead holder and wakes a sleeper in its place, and starts a new   *)
(* worker.                                                                 *)
(***************************************************************************)
EXTENDS Integers, FiniteSets, Functions

CONSTANTS
    Workers,   \* processes that use the mutex
    Master,    \* the process that reaps them
    MaxLocks,  \* bound: calls of ngx_shmtx_lock and _trylock of each worker
    MaxKills   \* bound: workers that die

MasterAssumption == Master \notin Workers
BoundsAssumption == MaxLocks \in Nat /\ MaxKills \in Nat

Procs == Workers \cup {Master}
Free == 0   \* no pid
PidAssumption == Free \notin Procs

Places == {"idle", "spin", "count", "recheck", "uncount", "sleep", "try", "in", "wake", "take",
           "post", "dead", "reaped"}

VARIABLES
    lock,   \* *mtx->lock
    wait,   \* *mtx->wait
    sem,    \* value of the semaphore
    pc,     \* where each process is
    saw,    \* the value of "wait" it read in ngx_shmtx_wakeup
    calls,  \* calls made by each worker
    died    \* how many workers died at each place

vars == <<lock, wait, sem, pc, saw, calls, died>>

Init ==
    /\ lock = Free /\ wait = 0 /\ sem = 0
    /\ pc = [p \in Procs |-> "idle"]
    /\ saw = [p \in Procs |-> 0]
    /\ calls = [p \in Workers |-> 0]
    /\ died = [place \in Places |-> 0]

Kills == FoldFunction(+, 0, died)

At(p, place) == pc[p] = place
Go(p, place) == pc' = [pc EXCEPT ![p] = place]

-----------------------------------------------------------------------------
(* ngx_shmtx_lock                                                            *)

Call(p, place) ==
    /\ At(p, "idle") /\ calls[p] < MaxLocks
    /\ calls' = [calls EXCEPT ![p] = @ + 1]
    /\ Go(p, place)
    /\ UNCHANGED <<lock, wait, sem, saw, died>>

Lock(p) == Call(p, "spin")

(* *lock == 0 && cmp_set(lock, 0, pid), from any of the places it is tried.  *)
CmpSet(p, place, got, failed) ==
    /\ At(p, place)
    /\ IF lock = Free THEN lock' = p /\ Go(p, got) ELSE Go(p, failed) /\ UNCHANGED lock
    /\ UNCHANGED <<wait, sem, saw, calls, died>>

(* The last try of the spin; the earlier ones that fail change nothing.      *)
Spin(p) == CmpSet(p, "spin", "in", "count")

CountWaiter(p) ==
    /\ At(p, "count")
    /\ wait' = wait + 1
    /\ Go(p, "recheck")
    /\ UNCHANGED <<lock, sem, saw, calls, died>>

(* The variant goes to sleep without looking again.                          *)
Recheck_Skipped(p) == At(p, "recheck") /\ Go(p, "sleep")
                      /\ UNCHANGED <<lock, wait, sem, saw, calls, died>>
Recheck(p) == CmpSet(p, "recheck", "uncount", "sleep")

Uncount(p) ==
    /\ At(p, "uncount")
    /\ wait' = wait - 1
    /\ Go(p, "in")
    /\ UNCHANGED <<lock, sem, saw, calls, died>>

(* sem_wait returns; the loop begins again.                                  *)
Awake(p) ==
    /\ At(p, "sleep") /\ sem > 0
    /\ sem' = sem - 1
    /\ Go(p, "spin")
    /\ UNCHANGED <<lock, wait, saw, calls, died>>

(* ngx_shmtx_trylock                                                         *)
Trylock(p) == Call(p, "try")
TryOnce(p) == CmpSet(p, "try", "in", "idle")

-----------------------------------------------------------------------------
(* ngx_shmtx_unlock and ngx_shmtx_force_unlock, for a dead holder, both end  *)
(* in ngx_shmtx_wakeup, which every release must reach.                      *)
Release(p, holder) ==
    /\ IF lock = holder THEN lock' = Free /\ Go(p, "wake") ELSE Go(p, "idle") /\ UNCHANGED lock
    /\ UNCHANGED <<wait, sem, saw, calls, died>>

Unlock(p) == At(p, "in") /\ Release(p, p)

ReadWait(p) ==
    /\ At(p, "wake")
    /\ saw' = [saw EXCEPT ![p] = IF wait <= 0 THEN 0 ELSE wait]
    /\ Go(p, IF wait <= 0 THEN "idle" ELSE "take")
    /\ UNCHANGED <<lock, wait, sem, calls, died>>

(* cmp_set(wait, wait, wait - 1).                                            *)
TakeWaiter(p) ==
    /\ At(p, "take")
    /\ IF wait = saw[p] THEN wait' = wait - 1 /\ Go(p, "post")
                        ELSE Go(p, "wake") /\ UNCHANGED wait
    /\ saw' = [saw EXCEPT ![p] = 0]
    /\ UNCHANGED <<lock, sem, calls, died>>

Post(p) ==
    /\ At(p, "post")
    /\ sem' = sem + 1
    /\ Go(p, "idle")
    /\ UNCHANGED <<lock, wait, saw, calls, died>>

-----------------------------------------------------------------------------
(* Death of a worker, ngx_process_get_status and ngx_unlock_mutexes in the   *)
(* master, and the respawned worker.                                         *)

Kill(p) ==
    /\ Kills < MaxKills /\ pc[p] \notin {"dead", "reaped"}
    /\ died' = [died EXCEPT ![pc[p]] = @ + 1]
    /\ Go(p, "dead")
    /\ UNCHANGED <<lock, wait, sem, saw, calls>>

UnlockMutexes(p) ==
    /\ At(Master, "idle") /\ At(p, "dead")
    /\ lock' = IF lock = p THEN Free ELSE lock
    /\ pc' = [pc EXCEPT ![p] = "reaped", ![Master] = IF lock = p THEN "wake" ELSE "idle"]
    /\ UNCHANGED <<wait, sem, saw, calls, died>>

(* The handler has returned: ngx_reap_children starts the process anew.      *)
Respawn(p) ==
    /\ At(Master, "idle") /\ At(p, "reaped")
    /\ Go(p, "idle")
    /\ UNCHANGED <<lock, wait, sem, saw, calls, died>>

Wakeup(p) == ReadWait(p) \/ TakeWaiter(p) \/ Post(p)

Proceed(p) ==
    \/ Spin(p) \/ CountWaiter(p) \/ Recheck(p) \/ Uncount(p) \/ Awake(p) \/ TryOnce(p)
    \/ Unlock(p) \/ Wakeup(p)

Next ==
    \/ \E p \in Workers : Lock(p) \/ Trylock(p) \/ Proceed(p) \/ Kill(p)
    \/ \E p \in Workers : UnlockMutexes(p) \/ Respawn(p)
    \/ Wakeup(Master)

Spec == Init /\ [][Next]_vars

-----------------------------------------------------------------------------
(* Properties                                                                *)

(* Types of the shared words and of each process.                            *)
TypeOK ==
    /\ lock \in Procs \cup {Free} /\ wait \in Int /\ sem \in Nat
    /\ pc \in [Procs -> Places] /\ saw \in [Procs -> Int] /\ calls \in [Workers -> Nat]
    /\ died \in [Places -> Nat]

Inside(p) == pc[p] \in {"in", "uncount"}

(* No two processes hold the mutex, and the pid in it is the holder's: the   *)
(* master never takes it from a living one, and no new worker starts while   *)
(* its predecessor's pid is in it.                                           *)
Exclusive ==
    \A p \in Workers : Inside(p) => /\ lock = p
                                    /\ \A q \in Workers \ {p} : ~Inside(q)

Waiting == {p \in Workers : pc[p] \in {"recheck", "uncount", "sleep"}}
Posting == {p \in Procs : pc[p] = "post"}

(* The two counters together are the number of waiters, however the          *)
(* decrements of "wait" cross: "wait" may be negative while the semaphore    *)
(* has one too many.  A worker that dies as a waiter stays behind as a       *)
(* phantom that a later wakeup is spent on; one that dies between the        *)
(* decrement and sem_post takes a wakeup with it.                            *)
WakeupsConserved ==
    wait + sem + Cardinality(Posting) =
        Cardinality(Waiting) + died["recheck"] + died["uncount"] + died["sleep"] - died["post"]

(* Who will take a free mutex or wake somebody who does.                     *)
OnTheWay == {"spin", "count", "recheck", "wake", "take", "post"}
CutOff == \E place \in OnTheWay : died[place] > 0

(* A free mutex never has only sleepers: somebody is on the way, or died on  *)
(* it.  The death of a holder, or of a sleeper, strands nobody.              *)
NoLostWakeup ==
    lock = Free /\ (\E p \in Workers : pc[p] = "sleep") =>
        sem > 0 \/ CutOff \/ \E p \in Procs : pc[p] \in OnTheWay

=============================================================================
