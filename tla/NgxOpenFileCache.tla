-------------------------- MODULE NgxOpenFileCache --------------------------
(***************************************************************************)
(* The cache of open files of the bundled nginx,                           *)
(* core/ngx_open_file_cache.c, which the benchmark's nginx.conf turns on:  *)
(* descriptors shared by the requests of a worker, kept open between them, *)
(* retested when they are older than open_file_cache_valid, dropped when   *)
(* unused for open_file_cache_inactive or when the cache is full.          *)
(*                                                                         *)
(* The file system is changed by others at any time, also between the      *)
(* stat() and the open() of one retest.  epoll has no vnode events, so     *)
(* file->event is always NULL and left out.  Times are ages, kept up to    *)
(* the value they are compared with, and so are the uses.                  *)
(***************************************************************************)
EXTENDS Integers, FiniteSets, SequencesExt

CONSTANTS
  Names,       \* file names
  Inodes,      \* what a name may refer to: files with these inodes
  Reqs,        \* requests of the worker
  CacheMax,    \* open_file_cache max=
  Inactive,    \* open_file_cache inactive=
  Valid,       \* open_file_cache_valid
  MinUses,     \* open_file_cache_min_uses
  CacheErrors, \* open_file_cache_errors
  MaxLost      \* bound: how often a name, switched away from the cached file,
               \* is back at it between the stat() and the open() of a retest

CacheAssumption ==
  /\ CacheMax \in Nat \ {0} /\ Inactive \in Nat /\ Valid \in Nat \ {0}
  /\ MinUses \in Nat \ {0}
  /\ CacheErrors \in BOOLEAN /\ MaxLost \in Nat
  /\ {"none", "dir"} \cap Inodes = {}

None == 0
Ids == 1..(Cardinality(Reqs) + CacheMax + 1 + MaxLost)  \* file structures, descriptors
DiskValues == Inodes \cup {"none", "dir"}

VARIABLES
  disk,   \* what each name refers to
  s,      \* the cache: file structures, tree, queue, count, descriptors
  req,    \* the file structure and descriptor each request was given
  seen,   \* the age of the last moment each name referred to each file
  down    \* the worker has exited and its cache is destroyed

vars == <<disk, s, req, seen, down>>

Unused == [used |-> FALSE, name |-> "", fd |-> None, err |-> FALSE,
           dir |-> FALSE, uniq |-> "none", uses |-> 0, count |-> 0,
           close |-> FALSE, created |-> 0, accessed |-> 0]

NoFile == [id |-> None, fd |-> None, uniq |-> "none"]

Init == /\ disk \in [Names -> Inodes]
        /\ s = [file |-> [i \in Ids |-> Unused], tree |-> [n \in Names |-> None],
                queue |-> <<>>, current |-> 0,
                fd |-> [i \in Ids |-> "closed"],
                lost |-> {}]  \* descriptors that file->fd lost (a history)
        /\ req = [r \in Reqs |-> NoFile]
        /\ seen = [n \in Names |-> [d \in Inodes |->
                     IF d = disk[n] THEN 0 ELSE Valid]]
        /\ down = FALSE

Lowest(S) == CHOOSE i \in S : \A j \in S : i <= j

FreeIds(c) == {i \in Ids : ~c.file[i].used}

FreeFds(c) == {i \in Ids : c.fd[i] = "closed"}

\* ngx_close_file.
CloseFd(c, fd) == IF fd = None THEN c ELSE [c EXCEPT !.fd[fd] = "closed"]

\* ngx_queue_remove.
Unqueued(c, i) == [c EXCEPT !.queue = SelectSeq(@, LAMBDA j : j # i)]

\* ngx_queue_insert_head, with the new access time.
Queued(c, i) == [c EXCEPT !.queue = <<i>> \o @, !.file[i].accessed = 0]

\* ngx_rbtree_delete and current--.
Unlinked(c, i) == [c EXCEPT !.tree[c.file[i].name] = None, !.current = @ - 1]

\* ngx_free.
Freed(c, i) == [c EXCEPT !.file[i] = Unused]

\* The end of ngx_close_cached_file: nobody uses the descriptor any more.
ShutUnused(c, i) ==
  IF c.file[i].count > 0 THEN c
  ELSE LET e == CloseFd([c EXCEPT !.file[i].fd = None], c.file[i].fd)
       IN IF c.file[i].close THEN Freed(e, i) ELSE e

\* ngx_close_cached_file.
CloseCached(c, i, min_uses) ==
  LET f == c.file[i]
  IN IF f.close THEN ShutUnused(c, i)
     ELSE LET e == Queued(Unqueued(c, i), i)
          IN IF f.uses >= min_uses \/ f.count > 0 THEN e ELSE ShutUnused(e, i)

\* One round of ngx_expire_old_cached_files.
ExpireLast(c, force) ==
  IF c.queue = <<>> THEN c
  ELSE LET i == Last(c.queue)
           e == Unlinked(Unqueued(c, i), i)
       IN IF ~force /\ c.file[i].accessed <= Inactive THEN c
          ELSE IF c.file[i].err \/ c.file[i].dir THEN Freed(e, i)
          ELSE CloseCached([e EXCEPT !.file[i].close = TRUE], i, 0)

\* ngx_expire_old_cached_files: the least recently used by force, when the
\* cache is full, and up to two inactive ones.
Expire(c, full) ==
  LET e == IF full THEN ExpireLast(c, TRUE) ELSE c
  IN ExpireLast(ExpireLast(e, FALSE), FALSE)

(***************************************************************************)
(* ngx_open_and_stat_file.  With a descriptor, or for a directory, stat()  *)
(* comes first and sees d1; if that does not settle it open() sees d2.     *)
(***************************************************************************)
Look(fd, uniq, test_dir, d1, d2) ==
  LET opened == [err |-> d2 = "none", dir |-> d2 = "dir", uniq |-> d2,
                 fd |-> IF d2 \in Inodes THEN "new" ELSE "none"]
      seenErr == [err |-> TRUE, dir |-> FALSE, uniq |-> "none", fd |-> "none"]
  IN IF fd # None
     THEN IF d1 = "none" THEN seenErr
          ELSE IF d1 = uniq
          THEN [err |-> FALSE, dir |-> FALSE, uniq |-> d1, fd |-> "kept"]
          ELSE opened
     ELSE IF test_dir /\ d1 = "none" THEN seenErr
     ELSE IF test_dir /\ d1 = "dir"
     THEN [err |-> FALSE, dir |-> TRUE, uniq |-> "dir", fd |-> "none"]
     ELSE opened

\* A descriptor for what was opened.
Descriptor(c, of) == IF of.fd = "new" THEN Lowest(FreeFds(c)) ELSE None

Opened(c, of) == IF of.fd = "new"
                 THEN [c EXCEPT !.fd[Lowest(FreeFds(c))] = of.uniq] ELSE c

\* The labels add_event and update: file i is what was just seen.
Updated(c, i, of) ==
  LET fd == IF of.fd = "kept" THEN c.file[i].fd ELSE Descriptor(c, of)
      e  == [Opened(c, of) EXCEPT !.file[i].fd = fd, !.file[i].err = of.err,
                                  !.file[i].created = 0]
  IN Queued(IF of.err THEN e
            ELSE [e EXCEPT !.file[i].uniq = of.uniq, !.file[i].dir = of.dir,
                           !.file[i].close = FALSE,
                           !.file[i].count = IF of.dir THEN @ ELSE @ + 1], i)

Room(c) == IF c.current >= CacheMax THEN Expire(c, TRUE) ELSE c

\* The label create: a new file structure for name n.
Created(c, n, of) ==
  LET e == Room(c)
      i == Lowest(FreeIds(e))
  IN Updated([e EXCEPT !.file[i] = [Unused EXCEPT !.used = TRUE, !.name = n,
                                                  !.uses = 1],
                       !.tree[n] = i, !.current = @ + 1], i, of)

\* Variant: a file in use is freed as well.
Dropped_Freed(c, i) == Freed(CloseFd(Unlinked(c, i), c.file[i].fd), i)

\* The label failed: file i is dropped.
Dropped(c, i) ==
  LET e == Unlinked(c, i)
  IN IF c.file[i].count = 0 THEN Freed(CloseFd(e, c.file[i].fd), i)
     ELSE [e EXCEPT !.file[i].close = TRUE]

Changed(c, i, n, of) ==
  IF c.file[i].count = 0
  THEN Updated(CloseFd(c, c.file[i].fd), i, of)
  ELSE Created([Unlinked(c, i) EXCEPT !.file[i].close = TRUE], n, of)

\* The retest saw another file, but opened the cached one again: update sets
\* file->fd to the new descriptor and closes the old one fd nowhere.
Overwritten(c, fd, of) ==
  IF of.fd = "new" /\ fd # None THEN [c EXCEPT !.lost = @ \cup {fd}] ELSE c

\* What a retest that saw "of" makes of file i.
Retested(c, i, n, of) ==
  LET f == c.file[i]
  IN IF of.err /\ ~CacheErrors THEN Dropped(c, i)
     ELSE IF f.dir \/ f.err \/ (~of.err /\ ~of.dir /\ of.uniq = f.uniq)
     THEN Updated(Overwritten(c, f.fd, of), i, of)
     ELSE Changed(c, i, n, of)

\* A file structure is used once more, and leaves the queue for now.
Touched(c, i) ==
  Unqueued([c EXCEPT !.file[i].uses = IF @ < MinUses THEN @ + 1 ELSE @], i)

IsHit(f) == f.created < Valid

Hit(c, i) ==
  LET f == c.file[i]
  IN Queued(IF f.err \/ f.dir THEN c
            ELSE [c EXCEPT !.file[i].count = @ + 1], i)

\* The cache after ngx_open_cached_file(n).
AfterOpen(n, d1, d2) ==
  LET i == s.tree[n]
      f == s.file[i]
      t == Touched(s, i)
      fresh == Look(None, "none", FALSE, d1, d2)
  IN IF i = None
     THEN IF fresh.err /\ ~CacheErrors THEN s ELSE Created(s, n, fresh)
     ELSE IF f.fd = None /\ ~f.err /\ ~f.dir
     THEN IF fresh.err /\ ~CacheErrors THEN Dropped(t, i)
          ELSE Updated(t, i, fresh)
     ELSE IF IsHit(f) THEN Hit(t, i)
     ELSE Retested(t, i, n, Look(f.fd, f.uniq, f.dir, d1, d2))

\* What the request is given: a file of the tree that has a descriptor.
Given(c, n) ==
  LET i == c.tree[n]
  IN IF i = None THEN NoFile
     ELSE IF c.file[i].err \/ c.file[i].dir THEN NoFile
     ELSE [id |-> i, fd |-> c.file[i].fd, uniq |-> c.file[i].uniq]

\* The file system changes between stat() and open(), or does not.
SeenByOpen(n) ==
  {d \in DiskValues : d = disk[n] \/ Cardinality(s.lost) < MaxLost
                      \/ s.tree[n] = None \/ d # s.file[s.tree[n]].uniq}

Looked(n, d) == [seen EXCEPT ![n] = [e \in Inodes |->
                   IF e = d THEN 0 ELSE @[e]]]

\* A request opens a file: ngx_open_cached_file.
Open(r, n) ==
  /\ ~down /\ req[r] = NoFile
  /\ \E d2 \in SeenByOpen(n) :
       /\ disk' = [disk EXCEPT ![n] = d2]
       /\ seen' = Looked(n, d2)
       /\ s' = AfterOpen(n, disk[n], d2)
       /\ req' = [req EXCEPT ![r] = Given(s', n)]
  /\ UNCHANGED down

\* A request ends: ngx_open_file_cleanup.
Cleanup(r) ==
  LET i == req[r].id
  IN /\ ~down /\ req[r] # NoFile
     /\ s' = Expire(CloseCached([s EXCEPT !.file[i].count = @ - 1], i, MinUses),
                    FALSE)
     /\ req' = [req EXCEPT ![r] = NoFile]
     /\ UNCHANGED <<disk, seen, down>>

\* The worker exits: ngx_open_file_cache_cleanup, which empties the queue.
Destroy ==
  /\ ~down /\ \A r \in Reqs : req[r] = NoFile
  /\ s' = FoldSeq(LAMBDA i, c : Freed(CloseFd(Unlinked(Unqueued(c, i), i),
                                              c.file[i].fd), i), s, s.queue)
  /\ down' = TRUE
  /\ UNCHANGED <<disk, req, seen>>

\* Somebody replaces, removes or creates a file.
Change(n, d) ==
  /\ ~down
  /\ disk[n] # d
  /\ disk' = [disk EXCEPT ![n] = d]
  /\ seen' = Looked(n, d)
  /\ UNCHANGED <<s, req, down>>

Older(a, max) == IF a < max THEN a + 1 ELSE a

\* A second passes.
Tick ==
  /\ ~down
  /\ s' = [s EXCEPT !.file = [i \in Ids |->
             [@[i] EXCEPT !.created = Older(@, IF s.file[i].used THEN Valid ELSE 0),
                          !.accessed = Older(@, IF s.file[i].used
                                                THEN Inactive + 1 ELSE 0)]]]
  /\ seen' = [n \in Names |-> [d \in Inodes |->
                IF d = disk[n] THEN 0 ELSE Older(seen[n][d], Valid)]]
  /\ UNCHANGED <<disk, req, down>>

\* The worker is gone.
Over == down /\ UNCHANGED vars

Next == \/ \E r \in Reqs : \/ \E n \in Names : Open(r, n)
                           \/ Cleanup(r)
        \/ \E n \in Names, d \in DiskValues : Change(n, d)
        \/ Tick
        \/ Destroy
        \/ Over

Spec == Init /\ [][Next]_vars

----------------------------------------------------------------------------

(* Type invariant of the open file cache: the files on disk, the entries and *)
(* the queue.                                                                *)
TypeOK ==
  /\ disk \in [Names -> DiskValues]
  /\ \A i \in Ids :
       /\ s.file[i].fd \in Ids \cup {None}
       /\ s.file[i].count \in 0..Cardinality(Reqs)
       /\ s.file[i].uses \in 0..MinUses
  /\ s.tree \in [Names -> Ids \cup {None}]
  /\ s.queue \in Seq(Ids)
  /\ s.fd \in [Ids -> Inodes \cup {"closed"}]
  /\ s.lost \subseteq Ids
  /\ \A r \in Reqs : req[r].id \in Ids \cup {None}

Files == {i \in Ids : s.file[i].used}

\* A request reads from the file it was given for as long as it holds it:
\* its descriptor is never closed, nor closed and given to another file, by
\* retests, evictions and other requests.
HeldValid ==
  \A r \in Reqs : req[r] # NoFile => s.fd[req[r].fd] = req[r].uniq

\* Every open descriptor belongs to exactly one file structure, so none is
\* leaked or closed twice, and none outlives the worker's cache; but for the
\* descriptors of retests whose stat() saw another file and whose open() the
\* cached one again: these belong to none and are never closed.
FdsOwned ==
  /\ \A fd \in Ids : s.fd[fd] # "closed"
       => Cardinality({i \in Files : s.file[i].fd = fd}) = (IF fd \in s.lost THEN 0 ELSE 1)
  /\ \A fd \in s.lost : s.fd[fd] # "closed"
  /\ \A i \in Files : s.file[i].fd # None => s.fd[s.file[i].fd] = s.file[i].uniq
  /\ down => Files = {}

\* A file structure counts the requests that hold it: it is not freed under
\* one of them and not kept after the last.
CountExact ==
  /\ \A i \in Files : s.file[i].count = Cardinality({r \in Reqs : req[r].id = i})
  /\ \A r \in Reqs : req[r] # NoFile => req[r].id \in Files
  /\ \A i \in Files : s.file[i].close => s.file[i].count > 0

\* The queue, the tree and the counter agree on which files are cached, each
\* name is cached once, and there are never more than max.
CachedOnce ==
  /\ IsInjective(s.queue)
  /\ ToSet(s.queue) = {s.tree[n] : n \in Names} \ {None}
  /\ \A n \in Names : s.tree[n] # None => s.file[s.tree[n]].name = n
  /\ ToSet(s.queue) = {i \in Files : ~s.file[i].close}
  /\ s.current = Len(s.queue) /\ s.current <= CacheMax

\* A request is never given a file that its name stopped referring to Valid
\* seconds ago or earlier, however often the file was used since.
NotStale ==
  \A r \in Reqs, n \in Names :
    req[r] = NoFile /\ req'[r] # NoFile /\ s'.file[req'[r].id].name = n
      => seen[n][req'[r].uniq] < Valid \/ disk'[n] = req'[r].uniq
============================================================================
