---------------------------- MODULE NgxFileCache ----------------------------
(***************************************************************************)
(* The disk cache of upstream responses in the bundled nginx               *)
(* (http/ngx_http_file_cache.c, and how http/ngx_http_upstream.c uses it). *)
(* Workers, the cache manager and the cache loader share a zone of nodes   *)
(* under one mutex; the files themselves are opened, renamed and unlinked  *)
(* outside of it.                                                          *)
(*                                                                         *)
(* A locked section is one step, and so is a system call between two of    *)
(* them.  Process 0 is the manager, the others are requests.  Time is      *)
(* abstracted to what has passed: a file is fresh or stale, a lock has     *)
(* aged or not (lock_age), a node is inactive or not (inactive).  Every    *)
(* file counts one unit.  Responses that vary, cached errors, bypassing    *)
(* and min_uses above 1 are left out.                                      *)
(***************************************************************************)
EXTENDS Integers, FiniteSetsExt, SequencesExt

CONSTANTS Keys, Requests,
          MaxNodes,     \* nodes the zone has room for
          MaxSize,      \* max_size of the cache
          MaxDeaths,    \* processes that may die in the run
          MaxDrift,     \* how far the size may drift from that of the files
          CacheLock,    \* proxy_cache_lock
          Files         \* what may be on disk at the start

FileCacheAssumption ==
  /\ MaxNodes \in Nat \ {0} /\ MaxSize \in Nat /\ MaxDeaths \in Nat
  /\ MaxDrift \in Nat
  /\ CacheLock \in BOOLEAN
  /\ IsFiniteSet(Requests) /\ 0 \notin Requests  \* 0 is the manager
  /\ Files \subseteq [Keys -> {"none", "fresh", "stale"}]

VARIABLES sh,      \* the zone: its nodes, their queue, the counters
          disk,    \* the file of each key
          c,       \* what each process is doing
          load,    \* how far the loader is with each key
          deaths,
          raced    \* a request has found a node whose file was being deleted

vars == <<sh, disk, c, load, deaths, raced>>

Manager == 0
Procs == Requests \cup {Manager}
Ids == 1..MaxNodes
NoKey == "none"

NoNode == [live |-> FALSE, key |-> NoKey, count |-> 0, exists |-> FALSE,
           updating |-> FALSE, deleting |-> FALSE, size |-> 0,
           aged |-> FALSE, old |-> FALSE, lost |-> 0]

Idle == [pc |-> "idle", key |-> NoKey, node |-> 0, updating |-> FALSE,
         mine |-> FALSE, timedout |-> FALSE, fresh |-> FALSE, del |-> 0]

Init == /\ sh = [node |-> [n \in Ids |-> NoNode], queue |-> <<>>, size |-> 0,
                 cold |-> TRUE, watermark |-> MaxNodes + 1]
        /\ disk \in Files
        /\ c = [p \in Procs |-> Idle]
        /\ load = [k \in Keys |-> "todo"]
        /\ deaths = 0 /\ raced = FALSE

\* The size, held within a bound: see SizeExact for how it can drift.
Capped(x) == Max({-MaxDrift, Min({MaxNodes + MaxDrift, x})})

Live(s) == {n \in Ids : s.node[n].live}
Found(s, k) == {n \in Live(s) : s.node[n].key = k}
Go(p, pc) == c' = [c EXCEPT ![p].pc = pc]

\* ngx_queue_remove.
Removed(q, n) == RemoveAt(q, CHOOSE i \in DOMAIN q : q[i] = n)

Touch(s, n) == [s EXCEPT !.queue = <<n>> \o Removed(s.queue, n),
                         !.node[n].old = FALSE]

\* A new node for k, if the zone has room.
New(s, k, count, size) ==
  LET n == Min(Ids \ Live(s))
  IN [s EXCEPT !.node[n] = [NoNode EXCEPT !.live = TRUE, !.key = k,
                                          !.count = count, !.size = size,
                                          !.exists = size > 0],
               !.queue = <<n>> \o @, !.size = Capped(@ + size)]

\* ngx_queue_remove, ngx_rbtree_delete, ngx_slab_free_locked.
Gone(s, n) == [s EXCEPT !.node[n] = NoNode,
                        !.queue = Removed(s.queue, n)]

\* ngx_http_file_cache_set_watermark.
Full(s) == LET k == Cardinality(Live(s))
           IN [s EXCEPT !.watermark = k - k \div 8]

----------------------------------------------------------------------------
(* A request: ngx_http_file_cache_open.                                    *)

\* The new node of request r for k.  Its file is looked for only while the
\* loader has not finished.
Allocated(r, k) ==
  /\ sh' = New(sh, k, 1, 0)
  /\ c' = [c EXCEPT ![r] = [Idle EXCEPT !.pc = IF sh.cold THEN "open" ELSE "lock",
                                        !.key = k, !.node = Min(Ids \ Live(sh))]]

\* With the node at hand: is its file to be opened?
AtNode(s, n) == IF s.node[n].exists THEN "open" ELSE "lock"

\* Variant: a request that finds a node is not counted.
Exists_Uncounted(r, k) ==
  /\ c[r].pc = "idle"
  /\ \/ \E n \in Found(sh, k) :
          /\ sh' = Touch(sh, n)
          /\ raced' = (raced \/ sh.node[n].deleting)
          /\ c' = [c EXCEPT ![r] = [Idle EXCEPT !.pc = AtNode(sh, n),
                                                !.key = k, !.node = n]]
     \/ /\ Found(sh, k) = {} /\ Live(sh) # Ids
        /\ Allocated(r, k) /\ UNCHANGED raced
     \/ /\ Found(sh, k) = {} /\ Live(sh) = Ids
        /\ sh' = Full(sh) /\ UNCHANGED raced
        /\ c' = [c EXCEPT ![r] = [Idle EXCEPT !.pc = "forced", !.key = k]]
  /\ UNCHANGED <<disk, load, deaths>>

\* ngx_http_file_cache_exists, at the start of a request for k.
Exists(r, k) ==
  /\ c[r].pc = "idle"
  /\ \/ \E n \in Found(sh, k) :
          /\ sh' = [Touch(sh, n) EXCEPT !.node[n].count = @ + 1]
          /\ raced' = (raced \/ sh.node[n].deleting)
          /\ c' = [c EXCEPT ![r] = [Idle EXCEPT !.pc = AtNode(sh, n),
                                                !.key = k, !.node = n]]
     \/ /\ Found(sh, k) = {} /\ Live(sh) # Ids
        /\ Allocated(r, k) /\ UNCHANGED raced
     \/ /\ Found(sh, k) = {} /\ Live(sh) = Ids
        /\ sh' = Full(sh) /\ UNCHANGED raced
        /\ c' = [c EXCEPT ![r] = [Idle EXCEPT !.pc = "forced", !.key = k]]
  /\ UNCHANGED <<disk, load, deaths>>

\* ngx_http_file_cache_exists once more, after a wait: the node is held.
ExistsAgain(r) ==
  /\ c[r].pc = "again"
  /\ sh' = Touch(sh, c[r].node) /\ Go(r, AtNode(sh, c[r].node))
  /\ UNCHANGED <<disk, load, deaths, raced>>

\* Room was made, or not; the key is not looked up again.
Retry(r) ==
  /\ c[r].pc = "retry"
  /\ IF Live(sh) # Ids THEN Allocated(r, c[r].key)
     ELSE UNCHANGED sh /\ c' = [c EXCEPT ![r] = Idle]
  /\ UNCHANGED <<disk, load, deaths, raced>>

\* ngx_open_cached_file: the file may be gone.
OpenFile(r) ==
  /\ c[r].pc = "open"
  /\ c' = [c EXCEPT ![r].pc = IF disk[c[r].key] = "none" THEN "lock" ELSE "read",
                    ![r].fresh = disk[c[r].key] = "fresh"]
  /\ UNCHANGED <<sh, disk, load, deaths, raced>>

\* ngx_http_file_cache_read: a file found before the loader came by. Left out:
\* a file that is too short, of another version, key or CRC, which counts as none
\* (NGX_DECLINED).
Read(r) ==
  /\ c[r].pc = "read"
  /\ LET n == c[r].node
     IN sh' = IF sh.cold /\ ~sh.node[n].exists
              THEN [sh EXCEPT !.node[n].exists = TRUE, !.node[n].size = 1,
                              !.size = Capped(@ + 1)]
              ELSE sh
  /\ c' = [c EXCEPT ![r].pc = IF c[r].fresh THEN "serve" ELSE "stale",
                    ![r].fresh = FALSE]
  /\ UNCHANGED <<disk, load, deaths, raced>>

\* A stale file: the first to see it updates it; another one serves it or
\* fetches the response as well.
Stale(r) ==
  /\ c[r].pc = "stale"
  /\ LET n == c[r].node
     IN IF sh.node[n].updating
        THEN UNCHANGED sh /\ (Go(r, "serve") \/ Go(r, "fetch"))
        ELSE /\ sh' = [sh EXCEPT !.node[n].updating = TRUE]
             /\ c' = [c EXCEPT ![r].pc = "fetch", ![r].updating = TRUE,
                               ![r].mine = TRUE]
  /\ UNCHANGED <<disk, load, deaths, raced>>

\* A request keeps the lock_time it has set or seen; "mine" says that it is
\* still the node's.  The one that locks node n sets a new one.
Relocked(r, n) ==
  [p \in Procs |-> IF p = r THEN [c[p] EXCEPT !.pc = "fetch", !.updating = TRUE,
                                              !.mine = TRUE]
                   ELSE IF c[p].node = n THEN [c[p] EXCEPT !.mine = FALSE]
                   ELSE c[p]]

\* ngx_http_file_cache_lock.
Lock(r) ==
  /\ c[r].pc = "lock"
  /\ LET n == c[r].node
     IN IF CacheLock /\ (~sh.node[n].updating \/ sh.node[n].aged)
        THEN /\ sh' = [sh EXCEPT !.node[n].updating = TRUE, !.node[n].aged = FALSE]
             /\ c' = Relocked(r, n)
        ELSE /\ UNCHANGED sh
             /\ Go(r, IF ~CacheLock THEN "fetch"
                      ELSE IF c[r].timedout THEN "serve" ELSE "waiting")
  /\ UNCHANGED <<disk, load, deaths, raced>>

\* ngx_http_file_cache_lock_wait: the lock was released or has aged.
Wake(r) ==
  /\ c[r].pc = "waiting"
  /\ ~sh.node[c[r].node].updating \/ sh.node[c[r].node].aged
  /\ Go(r, "again")
  /\ UNCHANGED <<sh, disk, load, deaths, raced>>

WaitTimeout(r) ==
  /\ c[r].pc = "waiting"
  /\ c' = [c EXCEPT ![r].pc = "again", ![r].timedout = TRUE]
  /\ UNCHANGED <<sh, disk, load, deaths, raced>>

\* The response has come and its temporary file is renamed.
Rename(r) ==
  /\ c[r].pc = "fetch"
  /\ disk' = [disk EXCEPT ![c[r].key] = "fresh"] /\ Go(r, "renamed")
  /\ UNCHANGED <<sh, load, deaths, raced>>

Update(r) ==
  /\ c[r].pc \in {"fetch", "renamed"}
  /\ LET n == c[r].node
         ok == c[r].pc = "renamed"
         size == IF ok THEN 1 ELSE 0
     IN sh' = [sh EXCEPT !.size = Capped(@ + size - sh.node[n].size),
                         !.node[n] = [sh.node[n] EXCEPT !.count = @ - 1, !.size = size,
                                                        !.exists = @ \/ ok,
                                                        !.updating = FALSE]]
  /\ c' = [c EXCEPT ![r] = Idle]
  /\ UNCHANGED <<disk, load, deaths, raced>>

Released(s, r) ==
  LET n == c[r].node
      t == [s EXCEPT !.node[n].count = @ - 1,
                     !.node[n].updating = @ /\ ~(c[r].updating /\ c[r].mine)]
  IN IF ~t.node[n].exists /\ t.node[n].count = 0 THEN Gone(t, n) ELSE t

\* ngx_http_file_cache_free: the response was served, was not to be cached,
\* or did not come; the file could not be opened; the client left while the
\* request waited.
FreeCache(r) ==
  /\ c[r].pc \in {"serve", "fetch", "open", "again"}
  /\ sh' = Released(sh, r)
  /\ c' = [c EXCEPT ![r] = Idle]
  /\ UNCHANGED <<disk, load, deaths, raced>>

----------------------------------------------------------------------------
(* Deletion: by the manager, and by a request that found the zone full.    *)

After(p) == IF p = Manager THEN "idle" ELSE "retry"

\* ngx_http_file_cache_delete, up to the unlock: a node without a file just
\* goes, one with a file is held while the file is unlinked.
DeleteFrom(s, p, n) ==
  IF s.node[n].exists
  THEN /\ sh' = [s EXCEPT !.size = Capped(@ - s.node[n].size),
                          !.node[n].count = @ + 1, !.node[n].deleting = TRUE]
       /\ c' = [c EXCEPT ![p].pc = "unlink", ![p].del = n]
  ELSE sh' = Gone(s, n) /\ Go(p, After(p))

\* A failure to delete the file is only logged.
Unlink(p) ==
  /\ c[p].pc = "unlink"
  /\ UNCHANGED disk \/ disk' = [disk EXCEPT ![sh.node[c[p].del].key] = "none"]
  /\ Go(p, "relock")
  /\ UNCHANGED <<sh, load, deaths, raced>>

Relock(p) ==
  /\ c[p].pc = "relock"
  /\ LET n == c[p].del
         s == [sh EXCEPT !.node[n].count = @ - 1, !.node[n].deleting = FALSE]
     IN sh' = IF s.node[n].count = 0 THEN Gone(s, n) ELSE s
  /\ c' = [c EXCEPT ![p].pc = After(p), ![p].del = 0]
  /\ UNCHANGED <<disk, load, deaths, raced>>

\* ngx_http_file_cache_forced_expire: from the end of the queue, nodes in
\* use go to its head until one is found that is not. Left out: the bound of 20
\* tries, min_free, and the manager's releasing the mutex between its look at
\* size and count and the expiry.
ForcedExpire(p) ==
  /\ \/ c[p].pc = "forced"
     \/ /\ p = Manager /\ c[p].pc = "idle"
        /\ sh.size >= MaxSize \/ Cardinality(Live(sh)) >= sh.watermark
  /\ LET q == sh.queue
         i == SelectLastInSeq(q, LAMBDA n : sh.node[n].count = 0)
         moved == {q[j] : j \in (i + 1)..Len(q)}
         s == [sh EXCEPT !.queue = SubSeq(q, i + 1, Len(q)) \o SubSeq(q, 1, i),
                         !.node = [n \in Ids |-> [sh.node[n] EXCEPT !.old = @ /\ n \notin moved]]]
     IN IF i = 0 THEN sh' = s /\ Go(p, After(p)) ELSE DeleteFrom(s, p, q[i])
  /\ UNCHANGED <<disk, load, deaths, raced>>

Expire ==
  /\ c[Manager].pc = "idle"
  /\ sh.queue # <<>>
  /\ LET n == Last(sh.queue)
     IN /\ sh.node[n].old /\ (sh.node[n].count = 0 \/ ~sh.node[n].deleting)
        /\ IF sh.node[n].count = 0 THEN DeleteFrom(sh, Manager, n)
           ELSE sh' = Touch(sh, n) /\ UNCHANGED c
  /\ UNCHANGED <<disk, load, deaths, raced>>

----------------------------------------------------------------------------
(* The loader: ngx_http_file_cache_loader walks the files once.            *)

LoadSee(k) ==
  /\ sh.cold /\ load[k] = "todo"
  /\ load' = [load EXCEPT ![k] = IF disk[k] = "none" THEN "done" ELSE "seen"]
  /\ UNCHANGED <<sh, disk, c, deaths, raced>>

\* ngx_http_file_cache_add; a file that no node is left for is deleted. The code
\* deletes it after it released the mutex, which is one step here.
LoadAdd(k) ==
  /\ load[k] = "seen"
  /\ \/ \E n \in Found(sh, k) : sh' = Touch(sh, n) /\ UNCHANGED disk
     \/ /\ Found(sh, k) = {} /\ Live(sh) # Ids
        /\ sh' = New(sh, k, 0, 1) /\ UNCHANGED disk
     \/ /\ Found(sh, k) = {} /\ Live(sh) = Ids
        /\ sh' = Full(sh) /\ disk' = [disk EXCEPT ![k] = "none"]
  /\ load' = [load EXCEPT ![k] = "done"]
  /\ UNCHANGED <<c, deaths, raced>>

LoadEnd ==
  /\ sh.cold /\ \A k \in Keys : load[k] = "done"
  /\ sh' = [sh EXCEPT !.cold = FALSE]
  /\ UNCHANGED <<disk, c, load, deaths, raced>>

----------------------------------------------------------------------------
(* Time, and processes that die.                                           *)

FileAges(k) ==
  /\ disk[k] = "fresh"
  /\ disk' = [disk EXCEPT ![k] = "stale"]
  /\ UNCHANGED <<sh, c, load, deaths, raced>>

\* Only requests of a cache with proxy_cache_lock look at lock_time.
LockAges(n) ==
  /\ CacheLock /\ sh.node[n].updating /\ ~sh.node[n].aged
  /\ sh' = [sh EXCEPT !.node[n].aged = TRUE]
  /\ UNCHANGED <<disk, c, load, deaths, raced>>

\* The queue is in the order of the last use.
NodeAges ==
  /\ LET i == SelectLastInSeq(sh.queue, LAMBDA n : ~sh.node[n].old)
     IN i # 0 /\ sh' = [sh EXCEPT !.node[sh.queue[i]].old = TRUE]
  /\ UNCHANGED <<disk, c, load, deaths, raced>>

\* A process dies outside a locked section and leaves its counts.
Die(p) ==
  /\ deaths < MaxDeaths /\ c[p].pc # "idle"
  /\ deaths' = deaths + 1
  /\ sh' = [sh EXCEPT !.node = [n \in Ids |->
              [sh.node[n] EXCEPT !.lost = @ + (IF n = c[p].node THEN 1 ELSE 0)
                                            + (IF n = c[p].del THEN 1 ELSE 0)]]]
  /\ c' = [c EXCEPT ![p] = Idle]
  /\ UNCHANGED <<disk, load, raced>>

Serve(r) == \/ ExistsAgain(r) \/ Retry(r) \/ OpenFile(r) \/ Read(r) \/ Stale(r)
            \/ Lock(r) \/ Wake(r) \/ WaitTimeout(r)
            \/ Rename(r) \/ Update(r) \/ FreeCache(r)
DeleteStep(p) == ForcedExpire(p) \/ Unlink(p) \/ Relock(p)

Next == \/ \E r \in Requests : Serve(r) \/ \E k \in Keys : Exists(r, k)
        \/ \E p \in Procs : DeleteStep(p) \/ Die(p)
        \/ Expire
        \/ \E k \in Keys : LoadSee(k) \/ LoadAdd(k) \/ FileAges(k)
        \/ LoadEnd
        \/ \E n \in Ids : LockAges(n)
        \/ NodeAges

Spec == Init /\ [][Next]_vars

----------------------------------------------------------------------------

(* Type invariant of the file cache: reference counts stay within the        *)
(* requests that can hold a node, and the sizes in range.                    *)
TypeOK ==
  /\ \A n \in Ids : /\ sh.node[n].count \in 0..(Cardinality(Procs) + MaxDeaths)
                    /\ sh.node[n].size \in 0..1
                    /\ sh.node[n].live => sh.node[n].key \in Keys
  /\ sh.queue \in Seq(Ids)
  /\ \A p \in Procs : c[p].node \in Ids \cup {0} /\ c[p].del \in Ids \cup {0}
  /\ disk \in [Keys -> {"none", "fresh", "stale"}]

\* The count of a node is the number of requests that use it, its deleter,
\* and the processes that died with it.
CountExact ==
  \A n \in Live(sh) :
    sh.node[n].count = Cardinality({r \in Requests : c[r].node = n})
                       + Cardinality({p \in Procs : c[p].del = n}) + sh.node[n].lost

\* No process holds a node that was freed, or was freed and taken for
\* another key, also not across the unlock of a deletion.
HeldLive ==
  \A p \in Procs : /\ c[p].node # 0 => /\ sh.node[c[p].node].live
                                       /\ sh.node[c[p].node].key = c[p].key
                   /\ c[p].del # 0 => sh.node[c[p].del].deleting

\* The queue holds every node once.
QueueExact == /\ ToSet(sh.queue) = Live(sh)
              /\ Len(sh.queue) = Cardinality(Live(sh))

\* A node marked as being updated has a request that updates it and will
\* clear the mark: without a death no mark is left behind, whoever takes
\* the lock over from whom.
UpdatingOwned ==
  deaths = 0 => \A n \in Live(sh) : sh.node[n].updating =>
    \E r \in Requests : c[r].node = n /\ c[r].updating /\ c[r].mine

\* The size that max_size is compared with is that of the files of the
\* nodes, as long as no request found a node whose file was being deleted.
\* (Such a node lives on although its size was subtracted.)
SizeExact ==
  ~raced => sh.size = Cardinality({n \in Live(sh) : sh.node[n].size = 1
                                                     /\ ~sh.node[n].deleting})

============================================================================
