-------------------------- MODULE NgxFileCacheProofs --------------------------
(***************************************************************************)
(* Proofs about NgxFileCache, for any finite set of requests, any keys,    *)
(* any size of the zone and any number of processes that die.              *)
(***************************************************************************)
EXTENDS NgxFileCache, FiniteSetTheorems, SequenceTheorems, WellFoundedInduction, TLAPS

(* Every nonempty set of natural numbers has a least element.                *)
LEMMA LeastNatural ==
    ASSUME NEW T, T \subseteq Nat, T # {}
    PROVE  \E x \in T : \A y \in T : x <= y
<1>1. ASSUME NEW R, IsWellFoundedOn(R, Nat), \A x, y \in Nat : <<y, x>> \in R <=> y < x
      PROVE  \E x \in T : \A y \in T : x <= y
  <2>1. PICK x \in T : \A y \in T : ~ (<<y, x>> \in R)
    BY <1>1, WFMin
  <2>2. ASSUME NEW y \in T PROVE x <= y
    <3>1. x \in Nat /\ y \in Nat /\ ~(y < x)
      BY <1>1, <2>1
    <3> QED BY <3>1
  <2> QED BY <2>2
<1>2. \A x, y \in Nat : <<y, x>> \in OpToRel(<, Nat) <=> y < x
  BY DEF OpToRel
<1> QED BY <1>1, <1>2, NatLessThanWellFounded, Zenon

-----------------------------------------------------------------------------
(* A node in the queue                                                       *)

(* A node is taken out of the queue, wherever it is,                         *)
LEMMA ListRemove ==
    ASSUME NEW S, NEW s \in Seq(S), NEW i \in 1..Len(s), IsInjective(s)
    PROVE  /\ RemoveAt(s, i) \in Seq(S) /\ Len(RemoveAt(s, i)) = Len(s) - 1
           /\ IsInjective(RemoveAt(s, i))
           /\ ToSet(RemoveAt(s, i)) = ToSet(s) \ {s[i]}
           /\ s[i] \in ToSet(s) /\ s[i] \in S
<1> DEFINE n == Len(s)
           t == RemoveAt(s, i)
           at(k) == IF k < i THEN k ELSE k + 1
<1>1. n \in Nat /\ i \in 1..n /\ DOMAIN s = 1..n /\ \A k \in 1..n : s[k] \in S
  OBVIOUS
<1>2. t \in Seq(S) /\ Len(t) = n - 1 /\ \A k \in 1..(n - 1) : t[k] = s[at(k)]
  <2> DEFINE a == SubSeq(s, 1, i - 1)
             b == SubSeq(s, i + 1, n)
  <2>1. a \in Seq(S) /\ Len(a) = i - 1 /\ \A k \in 1..(i - 1) : a[k] = s[k]
    BY <1>1
  <2>2. b \in Seq(S) /\ Len(b) = n - i /\ \A k \in 1..(n - i) : b[k] = s[i + k]
    <3> DEFINE m == i + 1
    <3>1. m \in 1..(Len(s) + 1) /\ n \in (m - 1)..Len(s) /\ n - m + 1 = n - i
      BY <1>1
    <3> HIDE DEF m
    <3>2. /\ SubSeq(s, m, n) \in Seq(S) /\ Len(SubSeq(s, m, n)) = n - m + 1
          /\ \A k \in 1..(n - m + 1) : SubSeq(s, m, n)[k] = s[m + k - 1]
      BY <3>1, SubSeqProperties
    <3>3. \A k \in 1..(n - i) : m + k - 1 = i + k
      BY <1>1 DEF m
    <3>4. b = SubSeq(s, m, n)
      BY DEF m
    <3> HIDE DEF b
    <3> QED BY <3>1, <3>2, <3>3, <3>4
  <2>3. t = a \o b
    BY DEF RemoveAt
  <2> HIDE DEF a, b, t, n
  <2>4. t \in Seq(S) /\ Len(t) = n - 1
    BY <1>1, <2>1, <2>2, <2>3
  <2>5. ASSUME NEW k \in 1..(n - 1) PROVE t[k] = s[at(k)]
    <3>1. CASE k < i
      <4>1. k \in 1..Len(a) /\ k \in 1..(i - 1)
        BY <1>1, <2>1, <3>1
      <4>2. t[k] = a[k]
        BY <2>1, <2>2, <2>3, <4>1
      <4> QED BY <2>1, <3>1, <4>1, <4>2
    <3>2. CASE ~(k < i)
      <4> DEFINE j == k - (i - 1)
      <4>1. j \in 1..(n - i) /\ k = Len(a) + j /\ i + j = k + 1 /\ Len(b) = n - i
        BY <1>1, <2>1, <2>2, <3>2
      <4> HIDE DEF j
      <4>2. t[Len(a) + j] = b[j]
        <5>1. /\ k \in 1..(Len(a) + Len(b)) /\ ~(k <= Len(a)) /\ k - Len(a) = j
          BY <1>1, <2>1, <2>2, <3>2, <4>1
        <5>2. (a \o b)[k] = IF k <= Len(a) THEN a[k] ELSE b[k - Len(a)]
          BY <2>1, <2>2, <5>1, ConcatProperties
        <5> QED BY <2>3, <4>1, <5>1, <5>2
      <4> QED BY <2>2, <3>2, <4>1, <4>2
    <3> QED BY <3>1, <3>2
  <2> QED BY <2>4, <2>5
<1> HIDE DEF n, t
<1>3. DOMAIN t = 1..(n - 1)
  BY <1>2
<1>4. \A a, b \in 1..n : s[a] = s[b] => a = b
  BY <1>1 DEF IsInjective
<1>5. IsInjective(t)
  <2> SUFFICES ASSUME NEW a \in 1..(n - 1), NEW b \in 1..(n - 1), t[a] = t[b] PROVE a = b
    BY <1>3 DEF IsInjective
  <2>1. at(a) \in 1..n /\ at(b) \in 1..n /\ s[at(a)] = s[at(b)]
    BY <1>1, <1>2
  <2>2. at(a) = at(b)
    BY <1>4, <2>1
  <2> QED BY <1>1, <2>2
<1>6. ToSet(t) = {t[k] : k \in 1..(n - 1)} /\ ToSet(s) = {s[k] : k \in 1..n}
  BY <1>1, <1>3 DEF ToSet
<1>7. ASSUME NEW k \in 1..(n - 1) PROVE t[k] \in ToSet(s) \ {s[i]}
  <2>1. at(k) \in 1..n /\ at(k) # i
    BY <1>1
  <2> HIDE DEF at
  <2> QED BY <1>1, <1>2, <1>4, <1>6, <2>1
<1>8. ASSUME NEW k \in 1..n, k # i PROVE s[k] \in ToSet(t)
  <2>1. PICK j \in 1..(n - 1) : at(j) = k
    <3>1. CASE k < i
      <4>1. k \in 1..(n - 1) /\ at(k) = k
        BY <1>1, <3>1
      <4> QED BY <4>1
    <3>2. CASE k > i
      <4>1. k - 1 \in 1..(n - 1) /\ at(k - 1) = k
        BY <1>1, <3>2
      <4> QED BY <4>1
    <3> QED BY <1>1, <1>8, <3>1, <3>2
  <2> QED BY <1>2, <1>6, <2>1
<1>9. ToSet(t) = ToSet(s) \ {s[i]}
  BY <1>6, <1>7, <1>8
<1> QED BY <1>1, <1>2, <1>5, <1>6, <1>9 DEF n, t

(* and put at its head.                                                      *)
LEMMA ListPush ==
    ASSUME NEW S, NEW s \in Seq(S), IsInjective(s), NEW e \in S, e \notin ToSet(s)
    PROVE  /\ <<e>> \o s \in Seq(S) /\ Len(<<e>> \o s) = Len(s) + 1
           /\ IsInjective(<<e>> \o s)
           /\ ToSet(<<e>> \o s) = ToSet(s) \cup {e}
           /\ Tail(<<e>> \o s) = s
<1> DEFINE n == Len(s)
           t == <<e>> \o s
<1>1. n \in Nat /\ DOMAIN s = 1..n
  OBVIOUS
<1>2. t \in Seq(S) /\ Len(t) = n + 1 /\ t[1] = e /\ \A k \in 1..n : t[k + 1] = s[k]
  OBVIOUS
<1>3. Tail(t) = s
  <2>1. Tail(t) \in Seq(S) /\ Len(Tail(t)) = n /\ \A k \in 1..n : Tail(t)[k] = s[k]
    BY <1>1, <1>2
  <2> HIDE DEF t
  <2> QED BY <2>1, SeqEqual
<1> HIDE DEF t, n
<1>4. DOMAIN t = 1..(n + 1)
  BY <1>2
<1>5. \A k \in 2..(n + 1) : k - 1 \in 1..n /\ t[k] = s[k - 1]
  <2> SUFFICES ASSUME NEW k \in 2..(n + 1) PROVE k - 1 \in 1..n /\ t[k] = s[k - 1]
    OBVIOUS
  <2>1. k - 1 \in 1..n /\ (k - 1) + 1 = k
    BY <1>1
  <2>2. t[(k - 1) + 1] = s[k - 1]
    BY <1>2, <2>1
  <2> QED BY <2>1, <2>2
<1>6. ToSet(t) = {t[k] : k \in 1..(n + 1)} /\ ToSet(s) = {s[k] : k \in 1..n}
  BY <1>1, <1>4 DEF ToSet
<1>7. \A a, b \in 1..n : s[a] = s[b] => a = b
  BY <1>1 DEF IsInjective
<1>8. \A k \in 1..(n + 1) : k = 1 \/ k \in 2..(n + 1)
  BY <1>1
<1>9. \A k \in 2..(n + 1) : t[k] \in ToSet(s)
  BY <1>5, <1>6
<1>10. IsInjective(t)
  <2> SUFFICES ASSUME NEW a \in 1..(n + 1), NEW b \in 1..(n + 1), t[a] = t[b] PROVE a = b
    BY <1>4 DEF IsInjective
  <2>1. CASE a = 1 \/ b = 1
    BY <1>2, <1>8, <1>9, <2>1
  <2>2. CASE a \in 2..(n + 1) /\ b \in 2..(n + 1)
    <3>1. a - 1 \in 1..n /\ b - 1 \in 1..n /\ s[a - 1] = s[b - 1]
      BY <1>5, <2>2
    <3>2. a - 1 = b - 1
      BY <1>7, <3>1
    <3> QED BY <3>2
  <2> QED BY <1>8, <2>1, <2>2
<1>11. ToSet(t) = ToSet(s) \cup {e}
  <2>1. ToSet(t) \subseteq ToSet(s) \cup {e}
    BY <1>2, <1>6, <1>8, <1>9
  <2>2. e \in ToSet(t)
    <3>1. 1 \in 1..(n + 1)
      BY <1>1
    <3> QED BY <1>2, <1>6, <3>1
  <2>3. \A k \in 1..n : k + 1 \in 1..(n + 1) /\ t[k + 1] = s[k]
    BY <1>1, <1>2
  <2>4. ToSet(s) \subseteq ToSet(t)
    BY <1>6, <2>3
  <2> QED BY <2>1, <2>2, <2>4
<1> QED BY <1>2, <1>3, <1>10, <1>11 DEF t, n

-----------------------------------------------------------------------------
(* The inductive invariant                                                   *)

(* The steps of a request that holds a node, of one that looks for room, and *)
(* of a process that deletes.                                                *)
Holding == {"open", "lock", "read", "serve", "stale", "fetch", "renamed", "waiting", "again"}
Deleting == {"unlink", "relock"}
Steps == Holding \cup Deleting \cup {"idle", "forced", "retry"}

NodeRecord == [live : BOOLEAN, key : Keys \cup {NoKey}, count : Int, exists : BOOLEAN,
               updating : BOOLEAN, deleting : BOOLEAN, size : 0..1, aged : BOOLEAN,
               old : BOOLEAN, lost : Nat]
ZoneRecord == [node : [Ids -> NodeRecord], queue : Seq(Ids), size : Int, cold : BOOLEAN,
               watermark : Int]
ProcRecord == [pc : Steps, key : Keys \cup {NoKey}, node : Ids \cup {0}, updating : BOOLEAN,
               mine : BOOLEAN, timedout : BOOLEAN, fresh : BOOLEAN, del : Ids \cup {0}]

Typed ==
    /\ sh \in ZoneRecord /\ c \in [Procs -> ProcRecord]
    /\ disk \in [Keys -> {"none", "fresh", "stale"}]
    /\ deaths \in 0..MaxDeaths /\ raced \in BOOLEAN

(* What a process holds is what its step says.                               *)
PlacedAt(p, v) ==
    /\ v.node # 0 <=> v.pc \in Holding
    /\ v.del # 0 <=> v.pc \in Deleting
    /\ v.pc # "idle" => p = Manager \/ v.key \in Keys
    /\ p = Manager => v.pc \in {"idle"} \cup Deleting
    /\ v.updating => v.node # 0
Placed == \A p \in Procs : PlacedAt(p, c[p])

(* A node that is not there has nothing left of an earlier one; one with a   *)
(* size has a file, and so has one whose file is being deleted.              *)
NodeOK(m) ==
    /\ m.live => m.key \in Keys
    /\ ~m.live => m.count = 0 /\ ~m.updating /\ m.lost = 0 /\ ~m.exists
    /\ m.size = 1 \/ m.deleting => m.exists
    /\ m.lost <= deaths
NodesOK == \A n \in Ids : NodeOK(sh.node[n])

(* The count of a node, in use or not.                                       *)
Users(n) == {r \in Requests : c[r].node = n}
Deleters(n) == {p \in Procs : c[p].del = n}
Counted ==
    \A n \in Ids :
        sh.node[n].count = Cardinality(Users(n)) + Cardinality(Deleters(n)) + sh.node[n].lost

(* A node is deleted by one process, or was left by one that died.           *)
DeletedOnce ==
    /\ \A p, q \in Procs : c[p].del # 0 /\ c[p].del = c[q].del => p = q
    /\ \A n \in Ids : sh.node[n].deleting => Deleters(n) # {} \/ sh.node[n].lost > 0

(* Until a request finds a node whose file is being deleted, its deleter is  *)
(* the only one that holds it.                                               *)
DeletedAlone ==
    ~raced => \A n \in Ids : sh.node[n].deleting =>
        Users(n) = {} /\ (Deleters(n) # {} => sh.node[n].lost = 0)

Queued == IsInjective(sh.queue) /\ ToSet(sh.queue) = Live(sh)

FInv == /\ Typed /\ Placed /\ NodesOK /\ Counted /\ HeldLive /\ DeletedOnce
        /\ DeletedAlone /\ UpdatingOwned /\ SizeExact /\ Queued

-----------------------------------------------------------------------------
(* One process moves, and with it at most one node                           *)

Bit(b) == IF b THEN 1 ELSE 0

(* Two states of a node that differ in its age only.                         *)
Same(a, b) ==
    /\ a.live = b.live /\ a.key = b.key /\ a.count = b.count /\ a.exists = b.exists
    /\ a.updating = b.updating /\ a.deleting = b.deleting /\ a.size = b.size /\ a.lost = b.lost

(* Process p moves; it holds no node but n before and after, and only n      *)
(* changes.  (Whoever locks n takes the lock from the others that hold it.)  *)
Framed(p, n) ==
    /\ deaths' = deaths
    /\ \A k \in Ids : k # n => Same(sh'.node[k], sh.node[k])
    /\ \A q \in Procs : q # p =>
         /\ c'[q].pc = c[q].pc /\ c'[q].node = c[q].node /\ c'[q].del = c[q].del
         /\ c'[q].key = c[q].key /\ c'[q].updating = c[q].updating
         /\ c'[q].mine = c[q].mine \/ c[q].node = n
    /\ c[p].node \in {0, n} /\ c'[p].node \in {0, n} /\ c[p].del \in {0, n} /\ c'[p].del \in {0, n}
    /\ PlacedAt(p, c'[p])
    /\ NodeOK(sh'.node[n])

Balanced(p, n) ==
    sh'.node[n].count - sh'.node[n].lost - Bit(c'[p].node = n) - Bit(c'[p].del = n)
        = sh.node[n].count - sh.node[n].lost - Bit(c[p].node = n) - Bit(c[p].del = n)

Kept(p, n) ==
    /\ \/ sh'.node[n].live = sh.node[n].live /\ sh'.node[n].key = sh.node[n].key
       \/ ~sh.node[n].live \/ ~sh'.node[n].live
    /\ c'[p].node = n => sh'.node[n].live /\ sh'.node[n].key = c'[p].key
    /\ c'[p].del = n => sh'.node[n].deleting
    /\ sh.node[n].deleting => sh'.node[n].deleting \/ c[p].del = n \/ ~sh'.node[n].live

Marks(p, n) ==
    /\ c'[p].del = n /\ c[p].del # n => sh.node[n].count = 0 /\ sh'.node[n].lost = 0
    /\ sh'.node[n].deleting => (sh.node[n].deleting /\ sh'.node[n].lost = sh.node[n].lost)
                                 \/ (c'[p].del = n /\ c[p].del # n)
    /\ sh'.node[n].deleting /\ c[p].del = n => c'[p].del = n
    /\ ~raced' => ~raced
    /\ ~raced' /\ sh'.node[n].deleting /\ c'[p].node = n => c[p].node = n

OwnsIt(p, n) == c[p].node = n /\ c[p].updating /\ c[p].mine
Owns(p, n) ==
    /\ sh'.node[n].updating => OwnsIt(p, n)' \/ (sh.node[n].updating /\ ~OwnsIt(p, n))
    /\ OwnsIt(p, n)' \/ \A q \in Procs : q # p => c'[q].mine = c[q].mine
    /\ OwnsIt(p, n)' => p \in Requests

Weight(m) == Bit(m.live /\ m.size = 1 /\ ~m.deleting)
Sized(n) ==
    ~raced' => \/ sh'.size = Capped(sh.size + Weight(sh'.node[n]) - Weight(sh.node[n]))
               \/ sh'.size = sh.size /\ Weight(sh'.node[n]) = Weight(sh.node[n])

(* The constants.                                                            *)
LEMMA Facts ==
    ASSUME FileCacheAssumption
    PROVE  /\ MaxNodes \in Nat \ {0} /\ MaxDeaths \in Nat /\ MaxDrift \in Nat
           /\ IsFiniteSet(Ids) /\ Cardinality(Ids) = MaxNodes /\ 0 \notin Ids /\ Ids \subseteq Nat
           /\ IsFiniteSet(Requests) /\ IsFiniteSet(Procs) /\ Requests \subseteq Procs
           /\ Manager \in Procs /\ Manager \notin Requests
           /\ \A p \in Procs : p # Manager => p \in Requests
<1>1. /\ MaxNodes \in Nat \ {0} /\ MaxDeaths \in Nat /\ MaxDrift \in Nat /\ IsFiniteSet(Requests)
      /\ 0 \notin Requests
  BY DEF FileCacheAssumption
<1>2. IsFiniteSet(Ids) /\ Cardinality(Ids) = MaxNodes
  BY <1>1, FS_Interval DEF Ids
<1>3. 0 \notin Ids /\ Ids \subseteq Nat
  BY <1>1 DEF Ids
<1>4. IsFiniteSet(Procs)
  BY <1>1, FS_AddElement DEF Procs
<1> QED BY <1>1, <1>2, <1>3, <1>4 DEF Procs, Manager

(* A set that changes in one member.                                         *)
LEMMA OneMember ==
    ASSUME NEW A, IsFiniteSet(A), NEW S \in SUBSET A, NEW T \in SUBSET A, NEW p,
           \A q \in A : q # p => (q \in S <=> q \in T)
    PROVE  /\ IsFiniteSet(S) /\ Cardinality(S) \in Nat /\ Cardinality(T) \in Nat
           /\ Cardinality(T) = Cardinality(S) + Bit(p \in T) - Bit(p \in S)
<1>1. IsFiniteSet(S) /\ IsFiniteSet(T) /\ Cardinality(S) \in Nat /\ Cardinality(T) \in Nat
  BY FS_Subset, FS_CardinalityType
<1>2. CASE (p \in S <=> p \in T)
  <2>1. S = T
    BY <1>2
  <2> QED BY <1>1, <1>2, <2>1 DEF Bit
<1>3. CASE p \in T /\ p \notin S
  <2>1. T = S \cup {p}
    BY <1>3
  <2>2. Cardinality(T) = Cardinality(S) + 1
    BY <1>1, <1>3, <2>1, FS_AddElement
  <2> QED BY <1>1, <1>3, <2>2 DEF Bit
<1>4. CASE p \in S /\ p \notin T
  <2>1. S = T \cup {p}
    BY <1>4
  <2>2. Cardinality(S) = Cardinality(T) + 1
    BY <1>1, <1>4, <2>1, FS_AddElement
  <2> QED BY <1>1, <1>4, <2>2 DEF Bit
<1> QED BY <1>2, <1>3, <1>4

(* The users and deleters of the nodes when p moves.                         *)
LEMMA HoldersMove ==
    ASSUME FileCacheAssumption, FInv, Typed', NEW p \in Procs, NEW n \in Ids, Framed(p, n)
    PROVE  /\ \A k \in Ids : k # n => Users(k)' = Users(k) /\ Deleters(k)' = Deleters(k)
           /\ Cardinality(Users(n)') = Cardinality(Users(n)) + Bit(c'[p].node = n) - Bit(c[p].node = n)
           /\ Cardinality(Deleters(n)') = Cardinality(Deleters(n)) + Bit(c'[p].del = n) - Bit(c[p].del = n)
           /\ \A k \in Ids : Cardinality(Users(k)) \in Nat /\ Cardinality(Deleters(k)) \in Nat
           /\ Cardinality(Users(n)') \in Nat /\ Cardinality(Deleters(n)') \in Nat
<1>1. /\ n # 0 /\ IsFiniteSet(Requests) /\ IsFiniteSet(Procs) /\ Requests \subseteq Procs
      /\ 0 \notin Ids /\ \A q \in Procs : q # Manager => q \in Requests
  BY Facts
<1>2. /\ \A q \in Procs : q # p => c'[q].node = c[q].node /\ c'[q].del = c[q].del
      /\ c[p].node \in {0, n} /\ c'[p].node \in {0, n} /\ c[p].del \in {0, n} /\ c'[p].del \in {0, n}
  BY DEF Framed
<1>3. p = Manager => c[p].node = 0 /\ c'[p].node = 0
  BY DEF FInv, Placed, PlacedAt, Framed, Holding, Deleting
<1>4. \A k \in Ids : k # n => Users(k)' = Users(k) /\ Deleters(k)' = Deleters(k)
  BY <1>1, <1>2 DEF Users, Deleters
<1>5. \A k \in Ids : Users(k) \in SUBSET Requests /\ Users(k)' \in SUBSET Requests
                     /\ Deleters(k) \in SUBSET Procs /\ Deleters(k)' \in SUBSET Procs
  BY DEF Users, Deleters
<1>6. \A q \in Requests : q # p => (q \in Users(n) <=> q \in Users(n)')
  BY <1>1, <1>2 DEF Users
<1>7. \A q \in Procs : q # p => (q \in Deleters(n) <=> q \in Deleters(n)')
  BY <1>2 DEF Deleters
<1>8. (p \in Users(n) <=> c[p].node = n) /\ (p \in Users(n)' <=> c'[p].node = n)
  BY <1>1, <1>3 DEF Users
<1>9. (p \in Deleters(n) <=> c[p].del = n) /\ (p \in Deleters(n)' <=> c'[p].del = n)
  BY DEF Deleters
<1>10. /\ Cardinality(Users(n)) \in Nat /\ Cardinality(Users(n)') \in Nat
       /\ Cardinality(Users(n)') = Cardinality(Users(n)) + Bit(p \in Users(n)') - Bit(p \in Users(n))
  BY <1>1, <1>5, <1>6, OneMember
<1>11. /\ Cardinality(Deleters(n)) \in Nat /\ Cardinality(Deleters(n)') \in Nat
       /\ Cardinality(Deleters(n)') = Cardinality(Deleters(n)) + Bit(p \in Deleters(n)') - Bit(p \in Deleters(n))
  BY <1>1, <1>5, <1>7, OneMember
<1>12. \A k \in Ids : Cardinality(Users(k)) \in Nat /\ Cardinality(Deleters(k)) \in Nat
  BY <1>1, <1>5, FS_Subset, FS_CardinalityType
<1>13. /\ Bit(p \in Users(n)') = Bit(c'[p].node = n) /\ Bit(p \in Users(n)) = Bit(c[p].node = n)
       /\ Bit(p \in Deleters(n)') = Bit(c'[p].del = n) /\ Bit(p \in Deleters(n)) = Bit(c[p].del = n)
  BY <1>8, <1>9 DEF Bit
<1> QED BY <1>4, <1>10, <1>11, <1>12, <1>13

(* A node that counts nobody has no holders.                                 *)
LEMMA CountsNobody ==
    ASSUME FileCacheAssumption, NEW x, NEW n \in Ids, NEW lost \in Nat, x[Manager].node # n,
           0 = Cardinality({r \in Requests : x[r].node = n})
               + Cardinality({q \in Procs : x[q].del = n}) + lost
    PROVE  lost = 0 /\ \A q \in Procs : x[q].node # n /\ x[q].del # n
<1> DEFINE U == {r \in Requests : x[r].node = n}
           D == {q \in Procs : x[q].del = n}
<1>1. IsFiniteSet(U) /\ IsFiniteSet(D)
  <2>1. U \in SUBSET Requests /\ D \in SUBSET Procs
    OBVIOUS
  <2> QED BY <2>1, Facts, FS_Subset
<1> SUFFICES lost = 0 /\ U = {} /\ D = {}
  BY Facts
<1>2. 0 = Cardinality(U) + Cardinality(D) + lost
  OBVIOUS
<1> HIDE DEF U, D
<1>3. Cardinality(U) \in Nat /\ Cardinality(D) \in Nat
  BY <1>1, FS_CardinalityType
<1>4. Cardinality(U) = 0 /\ Cardinality(D) = 0 /\ lost = 0
  BY <1>2, <1>3
<1> QED BY <1>1, <1>4, FS_EmptySet

(* A node whose count is 0 is used and deleted by nobody, dead or alive.     *)
LEMMA Nobody ==
    ASSUME FileCacheAssumption, Typed, Placed, Counted, NEW n \in Ids, sh.node[n].count = 0
    PROVE  /\ sh.node[n].lost = 0 /\ Users(n) = {} /\ Deleters(n) = {}
           /\ \A q \in Procs : c[q].node # n /\ c[q].del # n
<1>1. sh.node[n].lost \in Nat
  BY DEF Typed, ZoneRecord, NodeRecord
<1>2. n # 0 /\ c[Manager].node = 0
  BY Facts DEF Placed, PlacedAt, Holding, Deleting
<1>3. 0 = Cardinality({r \in Requests : c[r].node = n})
          + Cardinality({q \in Procs : c[q].del = n}) + sh.node[n].lost
  BY DEF Counted, Users, Deleters
<1>4. sh.node[n].lost = 0 /\ \A q \in Procs : c[q].node # n /\ c[q].del # n
  BY <1>1, <1>2, <1>3, CountsNobody
<1> QED BY <1>4, Facts DEF Users, Deleters

(* The parts of the invariant when p moves, one by one.                      *)
LEMMA CountedMoves ==
    ASSUME FileCacheAssumption, FInv, Typed', NEW p \in Procs, NEW n \in Ids,
           Framed(p, n), Balanced(p, n)
    PROVE  Placed' /\ NodesOK' /\ Counted'
<1>1. \A k \in Ids : k # n => Same(sh'.node[k], sh.node[k])
  BY DEF Framed
<1>2. Placed'
  <2>1. ASSUME NEW q \in Procs PROVE PlacedAt(q, c[q])'
    <3>1. CASE q = p
      BY <3>1 DEF Framed
    <3>2. CASE q # p
      BY <3>2 DEF Framed, FInv, Placed, PlacedAt
    <3> QED BY <3>1, <3>2
  <2> QED BY <2>1 DEF Placed
<1>3. NodesOK'
  <2>1. ASSUME NEW k \in Ids PROVE NodeOK(sh.node[k])'
    <3>1. CASE k = n
      BY <3>1 DEF Framed, NodeOK
    <3>2. CASE k # n
      BY <1>1, <3>2 DEF Framed, FInv, NodesOK, NodeOK, Same
    <3> QED BY <3>1, <3>2
  <2> QED BY <2>1 DEF NodesOK
<1>4. Counted'
  <2>1. ASSUME NEW k \in Ids, k # n
        PROVE  sh'.node[k].count = Cardinality(Users(k)') + Cardinality(Deleters(k)') + sh'.node[k].lost
    BY <1>1, <2>1, HoldersMove DEF FInv, Counted, Same
  <2>2. sh'.node[n].count = Cardinality(Users(n)') + Cardinality(Deleters(n)') + sh'.node[n].lost
    <3>1. /\ sh'.node[n].count \in Int /\ sh'.node[n].lost \in Int
          /\ sh.node[n].count \in Int /\ sh.node[n].lost \in Int
      BY DEF Typed, FInv, ZoneRecord, NodeRecord
    <3>2. \A b \in BOOLEAN : Bit(b) \in Int
      BY DEF Bit
    <3>3. /\ Bit(c'[p].node = n) \in Int /\ Bit(c[p].node = n) \in Int
          /\ Bit(c'[p].del = n) \in Int /\ Bit(c[p].del = n) \in Int
      BY <3>2
    <3>4. sh.node[n].count = Cardinality(Users(n)) + Cardinality(Deleters(n)) + sh.node[n].lost
      BY DEF FInv, Counted
    <3> QED BY <3>1, <3>3, <3>4, HoldersMove DEF Balanced
  <2> QED BY <2>1, <2>2 DEF Counted
<1> QED BY <1>2, <1>3, <1>4

(* What a process holds stays live and keeps its key when one moves.         *)
LEMMA HeldMoves ==
    ASSUME FileCacheAssumption, FInv, Typed', Placed', NodesOK', Counted',
           NEW p \in Procs, NEW n \in Ids, Framed(p, n), Kept(p, n)
    PROVE  HeldLive'
<1>1. /\ \A q \in Procs : q # p => c'[q].node = c[q].node /\ c'[q].del = c[q].del /\ c'[q].key = c[q].key
      /\ \A k \in Ids : k # n => Same(sh'.node[k], sh.node[k])
      /\ c'[p].node \in {0, n} /\ c'[p].del \in {0, n}
  BY DEF Framed
<1>2. /\ \A q \in Procs : c'[q].node \in Ids \cup {0} /\ c'[q].del \in Ids \cup {0}
      /\ 0 \notin Ids
  BY Facts DEF Typed, ProcRecord
<1>3. ~sh'.node[n].live => \A q \in Procs : c'[q].node # n /\ c'[q].del # n
  <2>1. ASSUME ~sh'.node[n].live PROVE sh'.node[n].count = 0
    BY <2>1 DEF NodesOK, NodeOK
  <2>2. ASSUME sh'.node[n].count = 0 PROVE \A q \in Procs : c'[q].node # n /\ c'[q].del # n
    <3>1. sh'.node[n].lost \in Nat
      BY DEF Typed, ZoneRecord, NodeRecord
    <3>2. n # 0 /\ c'[Manager].node = 0
      BY Facts DEF Placed, PlacedAt, Holding, Deleting
    <3>3. 0 = Cardinality({r \in Requests : c'[r].node = n})
              + Cardinality({q \in Procs : c'[q].del = n}) + sh'.node[n].lost
      BY <2>2 DEF Counted, Users, Deleters
    <3> QED BY <3>1, <3>2, <3>3, CountsNobody
  <2> QED BY <2>1, <2>2
<1>4. ~sh.node[n].live => \A q \in Procs : c[q].node # n /\ c[q].del # n
  <2>1. ASSUME ~sh.node[n].live PROVE sh.node[n].count = 0
    BY <2>1 DEF FInv, NodesOK, NodeOK
  <2>2. ASSUME sh.node[n].count = 0 PROVE \A q \in Procs : c[q].node # n /\ c[q].del # n
    BY <2>2, Nobody DEF FInv
  <2> QED BY <2>1, <2>2
<1>5. ASSUME NEW q \in Procs, c'[q].node # 0
      PROVE  sh'.node[c'[q].node].live /\ sh'.node[c'[q].node].key = c'[q].key
  <2>1. CASE q = p
    BY <1>1, <1>5, <2>1 DEF Kept
  <2>2. CASE q # p
    <3>1. c[q].node = c'[q].node /\ c'[q].node \in Ids /\ c'[q].key = c[q].key
      BY <1>1, <1>2, <1>5, <2>2
    <3>2. sh.node[c[q].node].live /\ sh.node[c[q].node].key = c[q].key
      BY <1>5, <3>1 DEF FInv, HeldLive
    <3>3. CASE c[q].node # n
      BY <1>1, <3>1, <3>2, <3>3 DEF Same
    <3>4. CASE c[q].node = n
      BY <1>3, <1>4, <3>1, <3>2, <3>4 DEF Kept
    <3> QED BY <3>3, <3>4
  <2> QED BY <2>1, <2>2
<1>6. ASSUME NEW q \in Procs, c'[q].del # 0
      PROVE  sh'.node[c'[q].del].deleting
  <2>1. CASE q = p
    BY <1>1, <1>6, <2>1 DEF Kept
  <2>2. CASE q # p
    <3>1. c[q].del = c'[q].del /\ c'[q].del \in Ids
      BY <1>1, <1>2, <1>6, <2>2
    <3>2. sh.node[c[q].del].deleting
      BY <1>6, <3>1 DEF FInv, HeldLive
    <3>3. CASE c[q].del # n
      BY <1>1, <3>1, <3>2, <3>3 DEF Same
    <3>4. CASE c[q].del = n
      <4>1. c[p].del # n
        BY <1>2, <1>6, <2>2, <3>1, <3>4 DEF FInv, DeletedOnce
      <4> QED BY <1>3, <3>1, <3>2, <3>4, <4>1 DEF Kept
    <3> QED BY <3>3, <3>4
  <2> QED BY <2>1, <2>2
<1> QED BY <1>5, <1>6 DEF HeldLive

(* One deleter per marked node remains when one process moves.               *)
LEMMA MarksMove ==
    ASSUME FileCacheAssumption, FInv, Typed', NEW p \in Procs, NEW n \in Ids,
           Framed(p, n), Marks(p, n)
    PROVE  DeletedOnce' /\ DeletedAlone'
<1>1. /\ \A q \in Procs : q # p => c'[q].node = c[q].node /\ c'[q].del = c[q].del
      /\ \A k \in Ids : k # n => Same(sh'.node[k], sh.node[k])
      /\ c'[p].node \in {0, n} /\ c'[p].del \in {0, n} /\ c[p].node \in {0, n} /\ c[p].del \in {0, n}
  BY DEF Framed
<1>2. 0 \notin Ids /\ n # 0 /\ Requests \subseteq Procs
  BY Facts
<1>3. \A k \in Ids : k # n => Users(k)' = Users(k) /\ Deleters(k)' = Deleters(k)
  BY HoldersMove
<1>4. sh.node[n].count = 0 =>
         Users(n) = {} /\ Deleters(n) = {} /\ \A q \in Procs : c[q].node # n /\ c[q].del # n
  BY Nobody DEF FInv
<1>5. ASSUME NEW q \in Procs, NEW s \in Procs, c'[q].del # 0, c'[q].del = c'[s].del
      PROVE  q = s
  <2>1. CASE q # p /\ s # p
    BY <1>1, <1>5, <2>1 DEF FInv, DeletedOnce
  <2>2. ASSUME NEW t \in Procs, t # p, c'[t].del = n, c'[p].del = n PROVE FALSE
    <3>1. c[t].del = n
      BY <1>1, <2>2
    <3>2. c[p].del # n
      BY <1>2, <2>2, <3>1 DEF FInv, DeletedOnce
    <3> QED BY <1>4, <2>2, <3>1, <3>2 DEF Marks
  <2> QED BY <1>1, <1>5, <2>1, <2>2
<1>6. Deleters(n)' # {} <=> c'[p].del = n \/ \E q \in Procs : q # p /\ c[q].del = n
  BY <1>1 DEF Deleters
<1>7. Deleters(n) # {} <=> \E q \in Procs : c[q].del = n
  BY DEF Deleters
<1>8. ASSUME NEW k \in Ids, sh'.node[k].deleting
      PROVE  Deleters(k)' # {} \/ sh'.node[k].lost > 0
  <2>1. CASE k # n
    BY <1>1, <1>3, <1>8, <2>1 DEF FInv, DeletedOnce, Same
  <2>2. CASE k = n
    <3>1. CASE c'[p].del = n
      BY <1>6, <2>2, <3>1
    <3>2. CASE c'[p].del # n
      <4>1. c[p].del # n /\ sh.node[n].deleting /\ sh'.node[n].lost = sh.node[n].lost
        BY <1>8, <2>2, <3>2 DEF Marks
      <4>2. Deleters(n) # {} \/ sh.node[n].lost > 0
        BY <4>1 DEF FInv, DeletedOnce
      <4> QED BY <1>6, <1>7, <2>2, <4>1, <4>2
    <3> QED BY <3>1, <3>2
  <2> QED BY <2>1, <2>2
<1>9. ASSUME ~raced', NEW k \in Ids, sh'.node[k].deleting
      PROVE  Users(k)' = {} /\ (Deleters(k)' # {} => sh'.node[k].lost = 0)
  <2>1. ~raced
    BY <1>9 DEF Marks
  <2>2. CASE k # n
    BY <1>1, <1>3, <1>9, <2>1, <2>2 DEF FInv, DeletedAlone, Same
  <2>3. CASE k = n /\ c'[p].del = n /\ c[p].del # n
    <3>1. sh.node[n].count = 0 /\ sh'.node[n].lost = 0
      BY <2>3 DEF Marks
    <3>2. c'[p].node # n
      <4>1. c'[p].node = n => c[p].node = n
        BY <1>9, <2>3 DEF Marks
      <4> QED BY <1>4, <3>1, <4>1
    <3>3. \A q \in Requests : c'[q].node # n
      BY <1>1, <1>2, <1>4, <3>1, <3>2
    <3> QED BY <2>3, <3>1, <3>3 DEF Users
  <2>4. CASE k = n /\ ~(c'[p].del = n /\ c[p].del # n)
    <3>1. sh.node[n].deleting /\ sh'.node[n].lost = sh.node[n].lost
      BY <1>9, <2>4 DEF Marks
    <3>2. Users(n) = {} /\ (Deleters(n) # {} => sh.node[n].lost = 0)
      BY <2>1, <3>1 DEF FInv, DeletedAlone
    <3>3. c'[p].node = n => c[p].node = n
      BY <1>9, <2>4 DEF Marks
    <3>4. \A q \in Requests : c'[q].node # n
      BY <1>1, <1>2, <3>2, <3>3 DEF Users
    <3>5. Deleters(n)' # {} => Deleters(n) # {}
      BY <1>6, <1>7, <2>4
    <3> QED BY <2>4, <3>1, <3>2, <3>4, <3>5 DEF Users
  <2> QED BY <2>2, <2>3, <2>4
<1>10. DeletedOnce'
  BY <1>5, <1>8 DEF DeletedOnce
<1>11. DeletedAlone'
  BY <1>9 DEF DeletedAlone
<1> QED BY <1>10, <1>11

(* A mark of an update keeps its owner when one process moves.               *)
LEMMA OwnersMove ==
    ASSUME FileCacheAssumption, FInv, Typed', NodesOK', NEW p \in Procs, NEW n \in Ids,
           Framed(p, n), Owns(p, n)
    PROVE  UpdatingOwned'
<1> SUFFICES ASSUME deaths' = 0, NEW k \in Ids, sh'.node[k].live, sh'.node[k].updating
             PROVE  \E r \in Requests : c'[r].node = k /\ c'[r].updating /\ c'[r].mine
  BY DEF UpdatingOwned, Live
<1>1. /\ \A q \in Procs : q # p => /\ c'[q].node = c[q].node /\ c'[q].updating = c[q].updating
                                   /\ c'[q].mine = c[q].mine \/ c[q].node = n
      /\ \A j \in Ids : j # n => Same(sh'.node[j], sh.node[j])
      /\ c[p].node \in {0, n} /\ deaths' = deaths
  BY DEF Framed
<1>2. Requests \subseteq Procs /\ 0 \notin Ids
  BY Facts
<1>3. ASSUME sh.node[k].updating
      PROVE  \E r \in Requests : c[r].node = k /\ c[r].updating /\ c[r].mine
  <2>1. sh.node[k].live
    BY <1>3 DEF FInv, NodesOK, NodeOK
  <2> QED BY <1>1, <1>3, <2>1 DEF FInv, UpdatingOwned, Live
<1>4. CASE k # n
  <2>1. PICK r \in Requests : c[r].node = k /\ c[r].updating /\ c[r].mine
    BY <1>1, <1>3, <1>4 DEF Same
  <2>2. r # p
    BY <1>1, <1>2, <1>4, <2>1
  <2> QED BY <1>1, <1>2, <1>4, <2>1, <2>2
<1>5. CASE k = n /\ OwnsIt(p, n)'
  BY <1>5 DEF Owns, OwnsIt
<1>6. CASE k = n /\ ~OwnsIt(p, n)'
  <2>1. sh.node[n].updating /\ ~OwnsIt(p, n)
    BY <1>6 DEF Owns
  <2>2. PICK r \in Requests : c[r].node = k /\ c[r].updating /\ c[r].mine
    BY <1>3, <1>6, <2>1
  <2>3. r # p /\ c'[r].mine = c[r].mine
    BY <1>2, <1>6, <2>1, <2>2 DEF OwnsIt, Owns
  <2> QED BY <1>1, <1>2, <2>2, <2>3
<1> QED BY <1>4, <1>5, <1>6

(* What fits in the zone is not capped.                                      *)
LEMMA CappedFits ==
    ASSUME FileCacheAssumption, NEW x \in 0..MaxNodes
    PROVE  Capped(x) = x
<1>1. MaxNodes \in Nat /\ MaxDrift \in Nat
  BY Facts
<1> DEFINE y == Min({MaxNodes + MaxDrift, x})
<1>2. \E z \in {MaxNodes + MaxDrift, x} : \A w \in {MaxNodes + MaxDrift, x} : z <= w
  BY <1>1
<1>3. y = x
  BY <1>1, <1>2 DEF Min
<1> HIDE DEF y
<1>4. \A z \in {-MaxDrift, x} : (\A w \in {-MaxDrift, x} : z >= w) => z = x
  BY <1>1
<1>5. \E z \in {-MaxDrift, x} : \A w \in {-MaxDrift, x} : z >= w
  BY <1>1
<1>6. Max({-MaxDrift, x}) = x
  BY <1>4, <1>5 DEF Max
<1> QED BY <1>3, <1>6 DEF Capped, y

Weighty == {n \in Live(sh) : sh.node[n].size = 1 /\ ~sh.node[n].deleting}

(* The zone's size follows the node that changed.                            *)
LEMMA SizeMoves ==
    ASSUME FileCacheAssumption, FInv, Typed', NEW n \in Ids,
           \A k \in Ids : k # n => Same(sh'.node[k], sh.node[k]), Sized(n), ~raced' => ~raced
    PROVE  SizeExact'
<1> SUFFICES ASSUME ~raced' PROVE sh'.size = Cardinality(Weighty')
  BY DEF SizeExact, Weighty
<1>1. sh.size = Cardinality(Weighty)
  BY DEF FInv, SizeExact, Weighty
<1>2. Weighty \in SUBSET Ids /\ Weighty' \in SUBSET Ids
  BY DEF Weighty, Live
<1>3. \A k \in Ids : k # n => (k \in Weighty <=> k \in Weighty')
  BY DEF Same, Weighty, Live
<1>4. /\ Bit(n \in Weighty) = Weight(sh.node[n]) /\ Bit(n \in Weighty') = Weight(sh'.node[n])
  BY DEF Weight, Weighty, Live, Bit
<1>5. IsFiniteSet(Ids) /\ Cardinality(Ids) = MaxNodes /\ MaxNodes \in Nat
  BY Facts
<1>6. /\ Cardinality(Weighty) \in Nat /\ Cardinality(Weighty') \in Nat
      /\ Cardinality(Weighty') = Cardinality(Weighty) + Bit(n \in Weighty') - Bit(n \in Weighty)
  BY <1>2, <1>3, <1>5, OneMember
<1>7. Cardinality(Weighty') <= MaxNodes /\ Cardinality(Weighty) <= MaxNodes
  BY <1>2, <1>5, FS_Subset
<1>8. Weight(sh.node[n]) \in Int /\ Weight(sh'.node[n]) \in Int
  BY DEF Weight, Bit
<1>9. Cardinality(Weighty') = sh.size + Weight(sh'.node[n]) - Weight(sh.node[n])
  BY <1>1, <1>4, <1>6
<1>10. Capped(Cardinality(Weighty')) = Cardinality(Weighty')
  BY <1>5, <1>6, <1>7, CappedFits
<1>11. CASE sh'.size = Capped(sh.size + Weight(sh'.node[n]) - Weight(sh.node[n]))
  BY <1>9, <1>10, <1>11
<1>12. CASE sh'.size = sh.size /\ Weight(sh'.node[n]) = Weight(sh.node[n])
  BY <1>1, <1>6, <1>8, <1>9, <1>12
<1> QED BY <1>11, <1>12 DEF Sized

(* All of them.                                                              *)
LEMMA Moves ==
    ASSUME FileCacheAssumption, FInv, Typed', NEW p \in Procs, NEW n \in Ids,
           Framed(p, n), Balanced(p, n), Kept(p, n), Marks(p, n), Owns(p, n), Sized(n), Queued'
    PROVE  FInv'
<1>1. Placed' /\ NodesOK' /\ Counted'
  BY CountedMoves
<1>2. HeldLive'
  BY <1>1, HeldMoves
<1>3. DeletedOnce' /\ DeletedAlone'
  BY MarksMove
<1>4. UpdatingOwned'
  BY <1>1, OwnersMove
<1>5. SizeExact'
  BY SizeMoves DEF Framed, Marks
<1> QED BY <1>1, <1>2, <1>3, <1>4, <1>5 DEF FInv

-----------------------------------------------------------------------------
(* The queue                                                                 *)

(* ngx_queue_remove takes one node out and keeps the rest once each.         *)
LEMMA RemovedQueue ==
    ASSUME NEW q \in Seq(Ids), IsInjective(q), NEW n \in ToSet(q)
    PROVE  /\ Removed(q, n) \in Seq(Ids) /\ IsInjective(Removed(q, n))
           /\ ToSet(Removed(q, n)) = ToSet(q) \ {n}
<1> DEFINE i == CHOOSE i \in DOMAIN q : q[i] = n
<1>1. i \in DOMAIN q /\ q[i] = n
  BY DEF ToSet
<1>2. Removed(q, n) = RemoveAt(q, i)
  BY DEF Removed
<1> HIDE DEF i
<1>3. i \in 1..Len(q)
  BY <1>1
<1>4. /\ RemoveAt(q, i) \in Seq(Ids) /\ IsInjective(RemoveAt(q, i))
      /\ ToSet(RemoveAt(q, i)) = ToSet(q) \ {q[i]}
  BY <1>3, ListRemove
<1> QED BY <1>1, <1>2, <1>4

(* A node moved to the head leaves the queue with the same nodes.            *)
LEMMA TouchedQueue ==
    ASSUME NEW q \in Seq(Ids), IsInjective(q), NEW n \in ToSet(q)
    PROVE  /\ <<n>> \o Removed(q, n) \in Seq(Ids) /\ IsInjective(<<n>> \o Removed(q, n))
           /\ ToSet(<<n>> \o Removed(q, n)) = ToSet(q)
<1> DEFINE t == Removed(q, n)
<1>1. t \in Seq(Ids) /\ IsInjective(t) /\ ToSet(t) = ToSet(q) \ {n}
  BY RemovedQueue
<1>2. n \in Ids
  BY DEF ToSet
<1> HIDE DEF t
<1>3. <<n>> \o t \in Seq(Ids) /\ IsInjective(<<n>> \o t) /\ ToSet(<<n>> \o t) = ToSet(t) \cup {n}
  BY <1>1, <1>2, ListPush
<1>4. ToSet(<<n>> \o t) = ToSet(q)
  BY <1>1, <1>3
<1> QED BY <1>3, <1>4 DEF t

(* What a forced expiry passes over goes to the head.                        *)
LEMMA RotatedQueue ==
    ASSUME NEW q \in Seq(Ids), IsInjective(q), NEW i \in 0..Len(q)
    PROVE  LET t == SubSeq(q, i + 1, Len(q)) \o SubSeq(q, 1, i)
           IN  t \in Seq(Ids) /\ IsInjective(t) /\ ToSet(t) = ToSet(q)
<1> DEFINE n == Len(q)
           a == SubSeq(q, i + 1, n)
           b == SubSeq(q, 1, i)
           t == a \o b
           at(k) == IF k <= n - i THEN i + k ELSE k - (n - i)
<1>1. n \in Nat /\ i \in 0..n /\ DOMAIN q = 1..n /\ \A k \in 1..n : q[k] \in Ids
  OBVIOUS
<1>2. b \in Seq(Ids) /\ Len(b) = i /\ \A k \in 1..i : b[k] = q[k]
  BY <1>1
<1>3. a \in Seq(Ids) /\ Len(a) = n - i /\ \A k \in 1..(n - i) : a[k] = q[i + k]
  <2> DEFINE m == i + 1
  <2>1. m \in 1..(Len(q) + 1) /\ n \in (m - 1)..Len(q) /\ n - m + 1 = n - i
    BY <1>1
  <2> HIDE DEF m
  <2>2. /\ SubSeq(q, m, n) \in Seq(Ids) /\ Len(SubSeq(q, m, n)) = n - m + 1
        /\ \A k \in 1..(n - m + 1) : SubSeq(q, m, n)[k] = q[m + k - 1]
    BY <2>1, SubSeqProperties
  <2>3. \A k \in 1..(n - i) : m + k - 1 = i + k
    BY <1>1 DEF m
  <2>4. a = SubSeq(q, m, n)
    BY DEF m
  <2> HIDE DEF a
  <2> QED BY <2>1, <2>2, <2>3, <2>4
<1>4. t \in Seq(Ids) /\ Len(t) = n /\ \A k \in 1..n : t[k] = q[at(k)] /\ at(k) \in 1..n
  <2> HIDE DEF a, b, n
  <2>1. t \in Seq(Ids) /\ Len(t) = n
    <3>1. t \in Seq(Ids) /\ Len(t) = Len(a) + Len(b)
      BY <1>2, <1>3, ConcatProperties
    <3> HIDE DEF t
    <3> QED BY <1>1, <1>2, <1>3, <3>1
  <2>2. ASSUME NEW k \in 1..n PROVE t[k] = q[at(k)] /\ at(k) \in 1..n
    <3>1. k \in 1..(Len(a) + Len(b))
      BY <1>1, <1>2, <1>3
    <3>2. t[k] = IF k <= Len(a) THEN a[k] ELSE b[k - Len(a)]
      BY <1>2, <1>3, <3>1, ConcatProperties
    <3>3. CASE k <= n - i
      <4>1. k \in 1..(n - i) /\ at(k) = i + k /\ at(k) \in 1..n
        BY <1>1, <3>3
      <4> HIDE DEF at, t
      <4> QED BY <1>3, <3>2, <3>3, <4>1
    <3>4. CASE ~(k <= n - i)
      <4>1. k - (n - i) \in 1..i /\ at(k) = k - (n - i) /\ at(k) \in 1..n
        BY <1>1, <3>4
      <4> HIDE DEF at, t
      <4> QED BY <1>2, <1>3, <3>2, <3>4, <4>1
    <3> QED BY <3>3, <3>4
  <2> QED BY <2>1, <2>2
<1> HIDE DEF n, t
<1>5. DOMAIN t = 1..n
  BY <1>4
<1>6. IsInjective(t)
  <2> SUFFICES ASSUME NEW j \in 1..n, NEW k \in 1..n, t[j] = t[k] PROVE j = k
    BY <1>5 DEF IsInjective
  <2>1. at(j) = at(k)
    <3> HIDE DEF at
    <3> QED BY <1>1, <1>4 DEF IsInjective
  <2> QED BY <1>1, <2>1
<1>7. ASSUME NEW k \in 1..n PROVE \E j \in 1..n : at(j) = k
  <2>1. CASE k <= i
    <3>1. k + (n - i) \in 1..n /\ at(k + (n - i)) = k
      BY <1>1, <2>1
    <3> HIDE DEF at
    <3> QED BY <3>1
  <2>2. CASE ~(k <= i)
    <3>1. k - i \in 1..n /\ at(k - i) = k
      BY <1>1, <2>2
    <3> HIDE DEF at
    <3> QED BY <3>1
  <2> QED BY <2>1, <2>2
<1>8. ToSet(t) = {t[k] : k \in 1..n} /\ ToSet(q) = {q[k] : k \in 1..n}
  BY <1>1, <1>5 DEF ToSet
<1>9. ToSet(t) = ToSet(q)
  <2> HIDE DEF at
  <2>1. \A k \in 1..n : t[k] \in ToSet(q)
    BY <1>4, <1>8
  <2>2. \A k \in 1..n : q[k] \in ToSet(t)
    BY <1>4, <1>7, <1>8
  <2> QED BY <1>8, <2>1, <2>2
<1> QED BY <1>4, <1>6, <1>9 DEF t, n

(* A node of the queue that is wanted is found.                              *)
LEMMA LastSelected ==
    ASSUME NEW q \in Seq(Ids), NEW I, I \subseteq 1..Len(q)
    PROVE  I # {} => Max(I) \in I
<1> SUFFICES ASSUME I # {} PROVE \E x \in I : \A y \in I : x >= y
  BY DEF Max
<1> DEFINE n == Len(q)
           T == {n - x : x \in I}
<1>1. n \in Nat /\ \A x \in I : x \in Int /\ x <= n
  OBVIOUS
<1> HIDE DEF n
<1>2. T \subseteq Nat /\ T # {}
  <2>1. \A x \in I : n - x \in Nat
    BY <1>1
  <2>2. PICK x \in I : TRUE
    OBVIOUS
  <2>3. n - x \in T
    OBVIOUS
  <2> QED BY <2>1, <2>3
<1>3. PICK t \in T : \A s \in T : t <= s
  BY <1>2, LeastNatural
<1>4. PICK x \in I : t = n - x
  OBVIOUS
<1>5. ASSUME NEW y \in I PROVE x >= y
  <2>1. n - x <= n - y
    BY <1>3, <1>4
  <2> QED BY <1>1, <2>1
<1> QED BY <1>5

(* The bounded size is an integer.                                           *)
LEMMA CappedInt ==
    ASSUME FileCacheAssumption, NEW x \in Int
    PROVE  Capped(x) \in Int
<1>1. MaxNodes \in Nat /\ MaxDrift \in Nat
  BY Facts
<1> DEFINE y == Min({MaxNodes + MaxDrift, x})
<1>2. \E z \in {MaxNodes + MaxDrift, x} : \A w \in {MaxNodes + MaxDrift, x} : z <= w
  BY <1>1
<1>3. y \in Int
  BY <1>1, <1>2 DEF Min
<1> HIDE DEF y
<1>4. \E z \in {-MaxDrift, y} : \A w \in {-MaxDrift, y} : z >= w
  BY <1>1, <1>3
<1>5. Max({-MaxDrift, y}) \in Int
  BY <1>1, <1>3, <1>4 DEF Max
<1> QED BY <1>5 DEF Capped, y

-----------------------------------------------------------------------------
(* Steps after which everybody holds what he held                            *)

(* A step that changes no hold and no count keeps the invariant.             *)
LEMMA SameHold ==
    ASSUME FileCacheAssumption, FInv, Typed', Queued', NEW p \in Procs,
           deaths' = deaths, raced' = raced, sh'.size = sh.size,
           \A k \in Ids : Same(sh'.node[k], sh.node[k]),
           \A q \in Procs : q # p => c'[q] = c[q],
           c'[p].node = c[p].node, c'[p].del = c[p].del,
           c[p].node # 0 => /\ c'[p].updating = c[p].updating /\ c'[p].mine = c[p].mine
                            /\ c'[p].key = c[p].key,
           PlacedAt(p, c'[p])
    PROVE  FInv'
<1>1. c[p].node \in Ids \cup {0} /\ c[p].del \in Ids \cup {0} /\ 1 \in Ids /\ 0 \notin Ids
  BY Facts DEF FInv, Typed, ProcRecord, Ids
<1>2. c[p].node = 0 \/ c[p].del = 0
  BY DEF FInv, Placed, PlacedAt, Holding, Deleting
<1>3. PICK n \in Ids : c[p].node \in {0, n} /\ c[p].del \in {0, n}
  BY <1>1, <1>2
<1>4. Same(sh'.node[n], sh.node[n]) /\ NodeOK(sh.node[n])
  BY DEF FInv, NodesOK
<1>5. NodeOK(sh'.node[n])
  BY <1>4 DEF NodeOK, Same
<1>6. Framed(p, n)
  BY <1>3, <1>5 DEF Framed
<1>7. Balanced(p, n)
  BY <1>4 DEF Balanced, Same
<1>8. Kept(p, n)
  <2>1. n # 0
    BY <1>1
  <2>2. ASSUME c'[p].node = n PROVE sh'.node[n].live /\ sh'.node[n].key = c'[p].key
    <3>1. c[p].node = n /\ c'[p].key = c[p].key
      BY <2>1, <2>2
    <3>2. sh.node[n].live /\ sh.node[n].key = c[p].key
      BY <2>1, <3>1 DEF FInv, HeldLive
    <3> QED BY <1>4, <3>1, <3>2 DEF Same
  <2>3. c'[p].del = n => sh'.node[n].deleting
    BY <1>4, <2>1 DEF Same, FInv, HeldLive
  <2> QED BY <1>4, <2>2, <2>3 DEF Kept, Same
<1>9. Marks(p, n)
  BY <1>4 DEF Marks, Same
<1>10. OwnsIt(p, n)' <=> OwnsIt(p, n)
  BY <1>3, Facts DEF OwnsIt
<1>11. OwnsIt(p, n) => p \in Requests
  BY <1>1, Facts DEF OwnsIt, FInv, Placed, PlacedAt, Holding, Deleting
<1>12. Owns(p, n)
  BY <1>4, <1>10, <1>11 DEF Owns, Same
<1>13. Sized(n)
  BY <1>4 DEF Sized, Weight, Same
<1> QED BY <1>6, <1>7, <1>8, <1>9, <1>12, <1>13, Moves

-----------------------------------------------------------------------------
(* What the operators do to the zone                                         *)

(* A zone whose queue holds its nodes once.                                  *)
Sound(s) == s \in ZoneRecord /\ IsInjective(s.queue) /\ ToSet(s.queue) = Live(s)

(* Only the ages of the nodes and their order differ.                        *)
Alike(t, s) == t.size = s.size /\ t.cold = s.cold /\ \A k \in Ids : Same(t.node[k], s.node[k])

(* The zone itself is sound in every state of the invariant.                 *)
LEMMA ZoneSound ==
    ASSUME FInv
    PROVE  Sound(sh)
BY DEF FInv, Typed, Queued, Sound

(* Touching a node moves it in the queue and changes no count or mark.       *)
LEMMA Touched ==
    ASSUME NEW s, Sound(s), NEW n \in Live(s)
    PROVE  Sound(Touch(s, n)) /\ Alike(Touch(s, n), s)
<1> DEFINE t == Touch(s, n)
           q == <<n>> \o Removed(s.queue, n)
<1>1. s \in ZoneRecord /\ s.queue \in Seq(Ids) /\ IsInjective(s.queue) /\ n \in ToSet(s.queue) /\ n \in Ids
  BY DEF Sound, ZoneRecord, Live
<1>2. q \in Seq(Ids) /\ IsInjective(q) /\ ToSet(q) = ToSet(s.queue)
  BY <1>1, TouchedQueue
<1>3. t = [s EXCEPT !.queue = q, !.node[n].old = FALSE]
  BY DEF Touch
<1> HIDE DEF t, q
<1> DEFINE d == [s.node EXCEPT ![n].old = FALSE]
<1>11. s.node \in [Ids -> NodeRecord]
  BY <1>1 DEF ZoneRecord
<1>12. d \in [Ids -> NodeRecord] /\ \A k \in Ids : Same(d[k], s.node[k])
  BY <1>1, <1>11 DEF NodeRecord, Same
<1>13. t = [s EXCEPT !.queue = q, !.node = d]
  BY <1>1, <1>3 DEF ZoneRecord
<1> HIDE DEF d
<1>4. t \in ZoneRecord /\ t.queue = q /\ t.size = s.size /\ t.cold = s.cold /\ t.node = d
  BY <1>1, <1>2, <1>12, <1>13 DEF ZoneRecord
<1>5. ASSUME NEW k \in Ids PROVE Same(t.node[k], s.node[k])
  BY <1>4, <1>12
<1>6. Live(t) = Live(s)
  BY <1>5 DEF Live, Same
<1>7. Sound(t) /\ Alike(t, s)
  BY <1>1, <1>2, <1>4, <1>5, <1>6 DEF Sound, Alike
<1> QED BY <1>7 DEF t

(* The record of a free slot is a node that is not live.                     *)
LEMMA NoNodeTyped ==
    NoNode \in NodeRecord /\ NoNode.live = FALSE
BY DEF NoNode, NodeRecord, NoKey

(* A node removed from tree and queue leaves the others as they were.        *)
LEMMA WentAway ==
    ASSUME NEW s, Sound(s), NEW n \in Live(s)
    PROVE  /\ Sound(Gone(s, n)) /\ Gone(s, n).size = s.size /\ Gone(s, n).node[n] = NoNode
           /\ \A k \in Ids : k # n => Gone(s, n).node[k] = s.node[k]
<1> DEFINE t == Gone(s, n)
           q == Removed(s.queue, n)
<1>1. s \in ZoneRecord /\ s.queue \in Seq(Ids) /\ IsInjective(s.queue) /\ n \in ToSet(s.queue) /\ n \in Ids
      /\ s.node \in [Ids -> NodeRecord]
  BY DEF Sound, ZoneRecord, Live
<1>2. q \in Seq(Ids) /\ IsInjective(q) /\ ToSet(q) = Live(s) \ {n}
  BY <1>1, RemovedQueue DEF Sound
<1>3. t = [s EXCEPT !.node[n] = NoNode, !.queue = q]
  BY DEF Gone
<1> HIDE DEF t, q
<1>4. /\ t \in ZoneRecord /\ t.queue = q /\ t.size = s.size /\ t.node[n] = NoNode
      /\ \A k \in Ids : k # n => t.node[k] = s.node[k]
  BY <1>1, <1>2, <1>3, NoNodeTyped DEF ZoneRecord
<1>5. Live(t) = Live(s) \ {n}
  BY <1>4, NoNodeTyped DEF Live
<1>6. Sound(t)
  BY <1>2, <1>4, <1>5 DEF Sound
<1> QED BY <1>4, <1>6 DEF t

(* The node that is taken.                                                   *)
Taken(s) == Min(Ids \ Live(s))
Fresh(k, count, size) == [NoNode EXCEPT !.live = TRUE, !.key = k, !.count = count,
                                        !.size = size, !.exists = size > 0]

(* The fields of a node when it is added.                                    *)
LEMMA FreshTyped ==
    ASSUME NEW k \in Keys, NEW count \in Int, NEW size \in 0..1
    PROVE  /\ Fresh(k, count, size) \in NodeRecord /\ Fresh(k, count, size).live
           /\ Fresh(k, count, size).key = k /\ Fresh(k, count, size).count = count
           /\ Fresh(k, count, size).size = size /\ Fresh(k, count, size).lost = 0
           /\ Fresh(k, count, size).exists = (size = 1)
           /\ ~Fresh(k, count, size).updating /\ ~Fresh(k, count, size).deleting
<1> DEFINE e == size > 0
           f == [live |-> TRUE, key |-> k, count |-> count, exists |-> e, updating |-> FALSE,
                 deleting |-> FALSE, size |-> size, aged |-> FALSE, old |-> FALSE, lost |-> 0]
<1>1. e \in BOOLEAN /\ e = (size = 1)
  OBVIOUS
<1>11. Fresh(k, count, size) = [NoNode EXCEPT !.live = TRUE, !.key = k, !.count = count,
                                             !.size = size, !.exists = e]
  BY DEF Fresh
<1> HIDE DEF e
<1>2. Fresh(k, count, size) = f
  BY <1>1, <1>11 DEF NoNode
<1>3. f \in NodeRecord
  BY <1>1 DEF NodeRecord
<1> QED BY <1>1, <1>2, <1>3

(* The slot that is allocated is one that was free.                          *)
LEMMA TakenNode ==
    ASSUME FileCacheAssumption, NEW s, Live(s) # Ids
    PROVE  Taken(s) \in Ids /\ Taken(s) \notin Live(s)
<1> DEFINE T == Ids \ Live(s)
<1>1. T \subseteq Nat /\ T # {}
  BY Facts DEF Live
<1> HIDE DEF T
<1>2. \E x \in T : \A y \in T : x <= y
  BY <1>1, LeastNatural
<1>3. Min(T) \in T
  BY <1>2 DEF Min
<1> QED BY <1>3 DEF T, Taken

(* An added node is at the head of the queue, the others unchanged.          *)
LEMMA CameNew ==
    ASSUME FileCacheAssumption, NEW s, Sound(s), Live(s) # Ids,
           NEW k \in Keys, NEW count \in Int, NEW size \in 0..1
    PROVE  LET t == New(s, k, count, size)
               n == Taken(s)
           IN  /\ Sound(t) /\ t.size = Capped(s.size + size) /\ t.cold = s.cold
               /\ t.node[n] = Fresh(k, count, size)
               /\ \A j \in Ids : j # n => t.node[j] = s.node[j]
<1> DEFINE t == New(s, k, count, size)
           n == Taken(s)
           f == Fresh(k, count, size)
           q == <<n>> \o s.queue
           z == Capped(s.size + size)
<1>1. /\ s \in ZoneRecord /\ s.queue \in Seq(Ids) /\ IsInjective(s.queue) /\ s.node \in [Ids -> NodeRecord]
      /\ s.size \in Int /\ ToSet(s.queue) = Live(s)
  BY DEF Sound, ZoneRecord
<1>2. n \in Ids /\ n \notin Live(s)
  BY TakenNode
<1> HIDE DEF n
<1>3. q \in Seq(Ids) /\ IsInjective(q) /\ ToSet(q) = Live(s) \cup {n}
  BY <1>1, <1>2, ListPush
<1>4. z \in Int
  BY <1>1, CappedInt
<1>5. f \in NodeRecord /\ f.live
  BY FreshTyped
<1>6. t = [s EXCEPT !.node[n] = f, !.queue = q, !.size = z]
  BY DEF New, Taken, Fresh, n
<1> HIDE DEF t, f, q, z
<1>7. /\ t \in ZoneRecord /\ t.queue = q /\ t.size = z /\ t.cold = s.cold /\ t.node[n] = f
      /\ \A j \in Ids : j # n => t.node[j] = s.node[j]
  BY <1>1, <1>2, <1>3, <1>4, <1>5, <1>6 DEF ZoneRecord
<1>8. Live(t) = Live(s) \cup {n}
  BY <1>2, <1>5, <1>7 DEF Live
<1>9. Sound(t)
  BY <1>3, <1>7, <1>8 DEF Sound
<1> QED BY <1>7, <1>9 DEF t, f, q, z, n

(* Setting the watermark changes nothing else of the zone.                   *)
LEMMA WasFull ==
    ASSUME FileCacheAssumption, NEW s, Sound(s)
    PROVE  Sound(Full(s)) /\ Alike(Full(s), s)
<1> DEFINE t == Full(s)
           k == Cardinality(Live(s))
           w == k - k \div 8
<1>1. s \in ZoneRecord
  BY DEF Sound
<1>2. k \in Nat
  BY Facts, FS_Subset, FS_CardinalityType DEF Live
<1> HIDE DEF k
<1>3. w \in Int
  BY <1>2
<1>4. t = [s EXCEPT !.watermark = w]
  BY DEF Full, k
<1> HIDE DEF w, t
<1>5. /\ t \in ZoneRecord /\ t.queue = s.queue /\ t.size = s.size /\ t.cold = s.cold /\ t.node = s.node
  BY <1>1, <1>3, <1>4 DEF ZoneRecord
<1>6. Sound(t)
  BY <1>5 DEF Sound, Live
<1>7. Alike(t, s)
  BY <1>5 DEF Alike, Same
<1> QED BY <1>6, <1>7 DEF t

(* The zone after a forced expiry has passed over the nodes in use.          *)
Rotated(s, i) ==
    [s EXCEPT !.queue = SubSeq(s.queue, i + 1, Len(s.queue)) \o SubSeq(s.queue, 1, i),
              !.node = [n \in Ids |-> [s.node[n] EXCEPT
                          !.old = @ /\ n \notin {s.queue[j] : j \in (i + 1)..Len(s.queue)}]]]

(* Moving nodes from the tail to the head changes no node's count.           *)
LEMMA RotatedZone ==
    ASSUME NEW s, Sound(s), NEW i \in 0..Len(s.queue)
    PROVE  Sound(Rotated(s, i)) /\ Alike(Rotated(s, i), s)
<1> DEFINE t == Rotated(s, i)
           q == SubSeq(s.queue, i + 1, Len(s.queue)) \o SubSeq(s.queue, 1, i)
           m == {s.queue[j] : j \in (i + 1)..Len(s.queue)}
           d == [n \in Ids |-> [s.node[n] EXCEPT !.old = @ /\ n \notin m]]
<1>1. /\ s \in ZoneRecord /\ s.queue \in Seq(Ids) /\ IsInjective(s.queue) /\ ToSet(s.queue) = Live(s)
      /\ s.node \in [Ids -> NodeRecord]
  BY DEF Sound, ZoneRecord
<1>2. q \in Seq(Ids) /\ IsInjective(q) /\ ToSet(q) = ToSet(s.queue)
  BY <1>1, RotatedQueue
<1>3. t = [s EXCEPT !.queue = q, !.node = d]
  BY DEF Rotated
<1> HIDE DEF t, q, m
<1>4. ASSUME NEW k \in Ids PROVE d[k] \in NodeRecord /\ Same(d[k], s.node[k])
  BY <1>1 DEF NodeRecord, Same
<1>5. d \in [Ids -> NodeRecord]
  BY <1>4
<1> HIDE DEF d
<1>6. t \in ZoneRecord /\ t.queue = q /\ t.size = s.size /\ t.cold = s.cold /\ t.node = d
  BY <1>1, <1>2, <1>3, <1>5 DEF ZoneRecord
<1>7. Live(t) = Live(s)
  BY <1>4, <1>6 DEF Live, Same
<1>8. Sound(t) /\ Alike(t, s)
  BY <1>1, <1>2, <1>4, <1>6, <1>7 DEF Sound, Alike
<1> QED BY <1>8 DEF t


-----------------------------------------------------------------------------
(* Steps after which everybody holds what he held, action by action          *)

(* What a request holds at a step of Holding.                                *)
LEMMA Holds ==
    ASSUME FileCacheAssumption, FInv, NEW r \in Requests, c[r].pc \in Holding
    PROVE  /\ r \in Procs /\ r # Manager /\ c[r] \in ProcRecord
           /\ c[r].node \in Ids /\ c[r].node # 0 /\ c[r].del = 0
           /\ c[r].node \in Live(sh) /\ sh.node[c[r].node].live
           /\ sh.node[c[r].node].key = c[r].key /\ c[r].key \in Keys
<1>1. r \in Procs /\ r # Manager
  BY Facts
<1>2. c[r] \in ProcRecord
  BY <1>1 DEF FInv, Typed
<1>3. c[r].node # 0 /\ c[r].del = 0 /\ c[r].key \in Keys
  BY <1>1 DEF FInv, Placed, PlacedAt, Holding, Deleting
<1>4. c[r].node \in Ids
  BY <1>2, <1>3 DEF ProcRecord
<1>5. sh.node[c[r].node].live /\ sh.node[c[r].node].key = c[r].key
  BY <1>1, <1>3 DEF FInv, HeldLive
<1> QED BY <1>1, <1>2, <1>3, <1>4, <1>5 DEF Live

(* Nothing but the zone's order and ages, the disk and the step of p.        *)
LEMMA StepsOn ==
    ASSUME FileCacheAssumption, FInv, NEW p \in Procs, NEW v \in ProcRecord,
           c' = [c EXCEPT ![p] = v], Sound(sh'), Alike(sh', sh) \/ sh' = sh,
           disk' \in [Keys -> {"none", "fresh", "stale"}], deaths' = deaths, raced' = raced,
           v.node = c[p].node, v.del = c[p].del,
           c[p].node # 0 => v.updating = c[p].updating /\ v.mine = c[p].mine /\ v.key = c[p].key,
           PlacedAt(p, v)
    PROVE  FInv'
<1>1. c \in [Procs -> ProcRecord] /\ deaths \in 0..MaxDeaths /\ raced \in BOOLEAN
  BY DEF FInv, Typed
<1>2. c' \in [Procs -> ProcRecord] /\ c'[p] = v /\ \A q \in Procs : q # p => c'[q] = c[q]
  BY <1>1
<1>3. Typed'
  BY <1>1, <1>2 DEF Typed, Sound
<1>4. Queued'
  BY DEF Queued, Sound
<1>5. sh'.size = sh.size /\ \A k \in Ids : Same(sh'.node[k], sh.node[k])
  BY DEF Alike, Same
<1> QED BY <1>2, <1>3, <1>4, <1>5, SameHold

(* A request that goes on with the node it holds keeps the invariant.        *)
LEMMA HoldsOn ==
    ASSUME FileCacheAssumption, FInv, NEW r \in Requests, c[r].pc \in Holding, NEW v \in ProcRecord,
           c' = [c EXCEPT ![r] = v], Sound(sh'), Alike(sh', sh) \/ sh' = sh,
           disk' \in [Keys -> {"none", "fresh", "stale"}], deaths' = deaths, raced' = raced,
           v.pc \in Holding, v.node = c[r].node, v.del = c[r].del,
           v.updating = c[r].updating, v.mine = c[r].mine, v.key = c[r].key
    PROVE  FInv'
<1>1. /\ r \in Procs /\ r # Manager /\ c[r].node # 0 /\ c[r].del = 0 /\ c[r].key \in Keys
  BY Holds
<1>2. PlacedAt(r, v)
  BY <1>1 DEF PlacedAt, Holding, Deleting
<1> QED BY <1>1, <1>2, StepsOn

(* The zone stays, or one of its nodes is touched.                           *)
LEMMA ExistsAgainStep ==
    ASSUME FileCacheAssumption, FInv, NEW r \in Requests, ExistsAgain(r)
    PROVE  FInv'
<1> DEFINE n == c[r].node
           v == [c[r] EXCEPT !.pc = AtNode(sh, n)]
<1>1. c[r].pc = "again" /\ c[r].pc \in Holding
  BY DEF ExistsAgain, Holding
<1>2. r \in Procs /\ c[r] \in ProcRecord /\ n \in Live(sh)
  BY <1>1, Holds
<1>3. AtNode(sh, n) \in Holding /\ AtNode(sh, n) \in Steps
  BY DEF AtNode, Holding, Steps
<1>4. v \in ProcRecord /\ v.pc \in Holding /\ v.node = c[r].node /\ v.del = c[r].del
      /\ v.updating = c[r].updating /\ v.mine = c[r].mine /\ v.key = c[r].key
  BY <1>2, <1>3 DEF ProcRecord
<1>5. Sound(sh') /\ Alike(sh', sh)
  BY <1>2, ZoneSound, Touched DEF ExistsAgain
<1>6. c' = [c EXCEPT ![r] = v]
  BY DEF ExistsAgain, Go
<1>7. deaths' = deaths /\ raced' = raced /\ disk' = disk /\ disk \in [Keys -> {"none", "fresh", "stale"}]
  BY DEF ExistsAgain, FInv, Typed
<1> HIDE DEF v
<1> QED BY <1>1, <1>4, <1>5, <1>6, <1>7, HoldsOn

(* Opening the file of a node keeps the invariant.                           *)
LEMMA OpenFileStep ==
    ASSUME FileCacheAssumption, FInv, NEW r \in Requests, OpenFile(r)
    PROVE  FInv'
<1> DEFINE pc == IF disk[c[r].key] = "none" THEN "lock" ELSE "read"
           f == disk[c[r].key] = "fresh"
           v == [c[r] EXCEPT !.pc = pc, !.fresh = f]
<1>1. c[r].pc = "open" /\ c[r].pc \in Holding
  BY DEF OpenFile, Holding
<1>2. r \in Procs /\ c[r] \in ProcRecord
  BY <1>1, Holds
<1>3. pc \in Holding /\ pc \in Steps /\ f \in BOOLEAN
  BY DEF Holding, Steps
<1>4. c' = [c EXCEPT ![r] = v]
  BY DEF OpenFile
<1>5. deaths' = deaths /\ raced' = raced /\ disk' = disk /\ disk \in [Keys -> {"none", "fresh", "stale"}]
      /\ sh' = sh
  BY DEF OpenFile, FInv, Typed
<1> HIDE DEF pc, f
<1>6. v \in ProcRecord /\ v.pc \in Holding /\ v.node = c[r].node /\ v.del = c[r].del
      /\ v.updating = c[r].updating /\ v.mine = c[r].mine /\ v.key = c[r].key
  BY <1>2, <1>3 DEF ProcRecord
<1>7. Sound(sh')
  BY <1>5, ZoneSound
<1> HIDE DEF v
<1> QED BY <1>1, <1>4, <1>5, <1>6, <1>7, HoldsOn

(* A request goes from one step of Holding to another.                       *)
LEMMA GoesOn ==
    ASSUME FileCacheAssumption, FInv, NEW r \in Requests, c[r].pc \in Holding, NEW pc \in Holding,
           Go(r, pc), sh' = sh, disk' \in [Keys -> {"none", "fresh", "stale"}],
           deaths' = deaths, raced' = raced
    PROVE  FInv'
<1> DEFINE v == [c[r] EXCEPT !.pc = pc]
<1>1. c[r] \in ProcRecord
  BY Holds
<1>2. pc \in Steps
  BY DEF Steps
<1>3. v \in ProcRecord /\ v.pc \in Holding /\ v.node = c[r].node /\ v.del = c[r].del
      /\ v.updating = c[r].updating /\ v.mine = c[r].mine /\ v.key = c[r].key
  BY <1>1, <1>2 DEF ProcRecord
<1>4. c' = [c EXCEPT ![r] = v]
  BY DEF Go
<1>5. Sound(sh')
  BY ZoneSound
<1> HIDE DEF v
<1> QED BY <1>3, <1>4, <1>5, HoldsOn

(* A wakeup and a timeout of a waiting request keep the invariant.           *)
LEMMA WaitSteps ==
    ASSUME FileCacheAssumption, FInv, NEW r \in Requests, Wake(r) \/ WaitTimeout(r)
    PROVE  FInv'
<1>1. c[r].pc \in Holding /\ "again" \in Holding /\ "again" \in Steps
  BY DEF Wake, WaitTimeout, Holding, Steps
<1>2. deaths' = deaths /\ raced' = raced /\ disk' = disk /\ disk \in [Keys -> {"none", "fresh", "stale"}]
      /\ sh' = sh
  BY DEF Wake, WaitTimeout, FInv, Typed
<1>3. CASE Wake(r)
  BY <1>1, <1>2, <1>3, GoesOn DEF Wake
<1>4. CASE WaitTimeout(r)
  <2> DEFINE v == [c[r] EXCEPT !.pc = "again", !.timedout = TRUE]
  <2>1. c[r] \in ProcRecord
    BY <1>1, Holds
  <2>2. v \in ProcRecord /\ v.pc \in Holding /\ v.node = c[r].node /\ v.del = c[r].del
        /\ v.updating = c[r].updating /\ v.mine = c[r].mine /\ v.key = c[r].key
    BY <1>1, <2>1 DEF ProcRecord
  <2>3. c' = [c EXCEPT ![r] = v]
    BY <1>4 DEF WaitTimeout
  <2>4. Sound(sh')
    BY <1>2, ZoneSound
  <2> HIDE DEF v
  <2> QED BY <1>1, <1>2, <2>2, <2>3, <2>4, HoldsOn
<1> QED BY <1>3, <1>4

(* Renaming the temporary file over the cached one keeps the invariant.      *)
LEMMA RenameStep ==
    ASSUME FileCacheAssumption, FInv, NEW r \in Requests, Rename(r)
    PROVE  FInv'
<1>1. c[r].pc \in Holding /\ "renamed" \in Holding
  BY DEF Rename, Holding
<1>2. disk' \in [Keys -> {"none", "fresh", "stale"}]
  BY DEF Rename, FInv, Typed
<1> QED BY <1>1, <1>2, GoesOn DEF Rename

(* Steps of a process that deletes, of the loader and of time.               *)
LEMMA UnlinkStep ==
    ASSUME FileCacheAssumption, FInv, NEW p \in Procs, Unlink(p)
    PROVE  FInv'
<1> DEFINE v == [c[p] EXCEPT !.pc = "relock"]
<1>1. c[p].pc = "unlink" /\ c[p] \in ProcRecord /\ PlacedAt(p, c[p])
  BY DEF Unlink, FInv, Typed, Placed
<1>2. /\ v \in ProcRecord /\ v.pc = "relock" /\ v.node = c[p].node /\ v.del = c[p].del
      /\ v.updating = c[p].updating /\ v.mine = c[p].mine /\ v.key = c[p].key
  BY <1>1 DEF ProcRecord, Steps, Deleting
<1>3. c' = [c EXCEPT ![p] = v] /\ sh' = sh /\ deaths' = deaths /\ raced' = raced
  BY DEF Unlink, Go
<1>4. disk' \in [Keys -> {"none", "fresh", "stale"}]
  BY DEF Unlink, FInv, Typed
<1> HIDE DEF v
<1>5. PlacedAt(p, v)
  BY <1>1, <1>2 DEF PlacedAt, Holding, Deleting
<1>6. Sound(sh')
  BY <1>3, ZoneSound
<1> QED BY <1>2, <1>3, <1>4, <1>5, <1>6, StepsOn

(* No process moves.                                                         *)
LEMMA NobodyMoves ==
    ASSUME FileCacheAssumption, FInv, c' = c, Sound(sh'), Alike(sh', sh) \/ sh' = sh,
           disk' \in [Keys -> {"none", "fresh", "stale"}], deaths' = deaths, raced' = raced
    PROVE  FInv'
<1> DEFINE v == c[Manager]
<1>1. Manager \in Procs
  BY Facts
<1>2. v \in ProcRecord /\ c' = [c EXCEPT ![Manager] = v] /\ PlacedAt(Manager, v)
  BY <1>1 DEF FInv, Typed, Placed
<1> QED BY <1>1, <1>2, StepsOn

(* The mark of a node's lock or of its age.                                  *)
LEMMA MarkedZone ==
    ASSUME NEW s, Sound(s), NEW n \in Ids
    PROVE  /\ Sound([s EXCEPT !.node[n].aged = TRUE]) /\ Alike([s EXCEPT !.node[n].aged = TRUE], s)
           /\ Sound([s EXCEPT !.node[n].old = TRUE]) /\ Alike([s EXCEPT !.node[n].old = TRUE], s)
<1>1. s \in ZoneRecord /\ s.node \in [Ids -> NodeRecord]
  BY DEF Sound, ZoneRecord
<1>2. ASSUME NEW d \in [Ids -> NodeRecord], \A k \in Ids : Same(d[k], s.node[k])
      PROVE  Sound([s EXCEPT !.node = d]) /\ Alike([s EXCEPT !.node = d], s)
  <2> DEFINE t == [s EXCEPT !.node = d]
  <2>1. t \in ZoneRecord /\ t.node = d /\ t.queue = s.queue /\ t.size = s.size /\ t.cold = s.cold
    BY <1>1, <1>2 DEF ZoneRecord
  <2> HIDE DEF t
  <2>2. Live(t) = Live(s)
    BY <1>2, <2>1 DEF Live, Same
  <2>3. Sound(t) /\ Alike(t, s)
    BY <1>2, <2>1, <2>2 DEF Sound, Alike
  <2> QED BY <2>3 DEF t
<1> DEFINE a == [s.node EXCEPT ![n].aged = TRUE]
           b == [s.node EXCEPT ![n].old = TRUE]
<1>3. a \in [Ids -> NodeRecord] /\ \A k \in Ids : Same(a[k], s.node[k])
  BY <1>1 DEF NodeRecord, Same
<1>4. b \in [Ids -> NodeRecord] /\ \A k \in Ids : Same(b[k], s.node[k])
  BY <1>1 DEF NodeRecord, Same
<1>5. [s EXCEPT !.node[n].aged = TRUE] = [s EXCEPT !.node = a]
  BY <1>1 DEF ZoneRecord
<1>6. [s EXCEPT !.node[n].old = TRUE] = [s EXCEPT !.node = b]
  BY <1>1 DEF ZoneRecord
<1> HIDE DEF a, b
<1>7. Sound([s EXCEPT !.node = a]) /\ Alike([s EXCEPT !.node = a], s)
  BY <1>2, <1>3
<1>8. Sound([s EXCEPT !.node = b]) /\ Alike([s EXCEPT !.node = b], s)
  BY <1>2, <1>4
<1> QED BY <1>5, <1>6, <1>7, <1>8

(* The loader's walk and the ageing of a file keep the invariant.            *)
LEMMA LoadSteps ==
    ASSUME FileCacheAssumption, FInv,
           LoadEnd \/ \E k \in Keys : LoadSee(k) \/ FileAges(k)
    PROVE  FInv'
<1>1. sh \in ZoneRecord /\ disk \in [Keys -> {"none", "fresh", "stale"}]
  BY DEF FInv, Typed
<1>2. CASE LoadEnd
  <2>1. sh' = [sh EXCEPT !.cold = FALSE] /\ c' = c /\ deaths' = deaths /\ raced' = raced /\ disk' = disk
    BY <1>2 DEF LoadEnd
  <2>2. sh' \in ZoneRecord /\ sh'.queue = sh.queue /\ sh'.node = sh.node /\ sh'.size = sh.size
    BY <1>1, <2>1 DEF ZoneRecord
  <2>3. Sound(sh')
    BY <2>2, ZoneSound DEF Sound, Live
  <2>4. Typed' /\ Queued'
    BY <1>1, <2>1, <2>2, <2>3 DEF FInv, Typed, Sound, Queued
  <2>5. \A k \in Ids : Same(sh'.node[k], sh.node[k])
    BY <2>2 DEF Same
  <2>6. Manager \in Procs /\ PlacedAt(Manager, c'[Manager])
    BY <2>1, Facts DEF FInv, Placed
  <2> QED BY <2>1, <2>2, <2>4, <2>5, <2>6, SameHold
<1>3. ASSUME NEW k \in Keys, LoadSee(k) PROVE FInv'
  <2>1. sh' = sh /\ c' = c /\ deaths' = deaths /\ raced' = raced /\ disk' = disk
    BY <1>3 DEF LoadSee
  <2> QED BY <1>1, <2>1, ZoneSound, NobodyMoves
<1>4. ASSUME NEW k \in Keys, FileAges(k) PROVE FInv'
  <2>1. sh' = sh /\ c' = c /\ deaths' = deaths /\ raced' = raced
        /\ disk' \in [Keys -> {"none", "fresh", "stale"}]
    BY <1>1, <1>4 DEF FileAges
  <2> QED BY <1>1, <2>1, ZoneSound, NobodyMoves
<1> QED BY <1>2, <1>3, <1>4

(* The ageing of nodes and of locks keeps the invariant.                     *)
LEMMA AgeSteps ==
    ASSUME FileCacheAssumption, FInv, NodeAges \/ \E n \in Ids : LockAges(n)
    PROVE  FInv'
<1>1. disk' \in [Keys -> {"none", "fresh", "stale"}] /\ c' = c /\ deaths' = deaths /\ raced' = raced
  BY DEF FInv, Typed, NodeAges, LockAges
<1>2. ASSUME NEW n \in Ids, LockAges(n) PROVE FInv'
  <2>1. sh' = [sh EXCEPT !.node[n].aged = TRUE]
    BY <1>2 DEF LockAges
  <2>2. Sound(sh') /\ Alike(sh', sh)
    BY <2>1, ZoneSound, MarkedZone
  <2> QED BY <1>1, <2>2, NobodyMoves
<1>3. CASE NodeAges
  <2> DEFINE I == {j \in 1..Len(sh.queue) : ~sh.node[sh.queue[j]].old}
  <2>1. PICK i : i = SelectLastInSeq(sh.queue, LAMBDA n : ~sh.node[n].old)
    OBVIOUS
  <2>2. i # 0 /\ sh' = [sh EXCEPT !.node[sh.queue[i]].old = TRUE]
    BY <1>3, <2>1 DEF NodeAges
  <2>3. I # {} /\ i = Max(I)
    BY <2>1, <2>2 DEF SelectLastInSeq
  <2>4. sh.queue \in Seq(Ids)
    BY ZoneSound DEF Sound, ZoneRecord
  <2>5. i \in 1..Len(sh.queue)
    <3>1. I \subseteq 1..Len(sh.queue)
      OBVIOUS
    <3> HIDE DEF I
    <3>2. Max(I) \in I
      BY <2>3, <2>4, <3>1, LastSelected
    <3> QED BY <2>3, <3>1, <3>2
  <2>6. sh.queue[i] \in Ids
    BY <2>4, <2>5
  <2>7. Sound(sh') /\ Alike(sh', sh)
    BY <2>2, <2>6, ZoneSound, MarkedZone
  <2> QED BY <1>1, <2>7, NobodyMoves
<1> QED BY <1>2, <1>3


-----------------------------------------------------------------------------
(* Steps of one process with one node                                        *)

Owner(u, n) == u.node = n /\ u.updating /\ u.mine

(* Process p goes from u to v, node n from a to b: the frame.                *)
Around(p, n, a, b, u, v) ==
    /\ a = sh.node[n] /\ b = sh'.node[n] /\ u = c[p] /\ v = c'[p]
    /\ c' \in [Procs -> ProcRecord] /\ Sound(sh') /\ disk' = disk /\ deaths' = deaths
    /\ raced' \in BOOLEAN /\ (raced => raced')
    /\ \A k \in Ids : k # n => Same(sh'.node[k], sh.node[k])
    /\ \A q \in Procs : q # p =>
         /\ c'[q].pc = c[q].pc /\ c'[q].node = c[q].node /\ c'[q].del = c[q].del
         /\ c'[q].key = c[q].key /\ c'[q].updating = c[q].updating
         /\ c'[q].mine = c[q].mine \/ (c[q].node = n /\ Owner(v, n))
    /\ PlacedAt(p, v) /\ NodeOK(b)

(* The two of them.                                                          *)
Together(n, a, b, u, v) ==
    /\ u.node \in {0, n} /\ v.node \in {0, n} /\ u.del \in {0, n} /\ v.del \in {0, n}
    /\ b.count - b.lost - Bit(v.node = n) - Bit(v.del = n)
         = a.count - a.lost - Bit(u.node = n) - Bit(u.del = n)
    /\ (b.live = a.live /\ b.key = a.key) \/ ~a.live \/ ~b.live
    /\ v.node = n => b.live /\ b.key = v.key
    /\ v.del = n => b.deleting
    /\ a.deleting => b.deleting \/ u.del = n \/ ~b.live
    /\ v.del = n /\ u.del # n => a.count = 0 /\ b.lost = 0
    /\ b.deleting => (a.deleting /\ b.lost = a.lost) \/ (v.del = n /\ u.del # n)
    /\ b.deleting /\ u.del = n => v.del = n
    /\ b.updating => Owner(v, n) \/ (a.updating /\ ~Owner(u, n))

(* A step of one process that changes one node keeps the invariant.          *)
LEMMA OneMoves ==
    ASSUME FileCacheAssumption, FInv, NEW p \in Procs, NEW n \in Ids, NEW a, NEW b, NEW u, NEW v,
           Around(p, n, a, b, u, v), Together(n, a, b, u, v),
           ~raced' /\ b.deleting /\ v.node = n => u.node = n,
           ~raced' => \/ sh'.size = Capped(sh.size + Weight(b) - Weight(a))
                      \/ sh'.size = sh.size /\ Weight(b) = Weight(a)
    PROVE  FInv'
<1> USE DEF Around
<1>1. Typed'
  BY DEF FInv, Typed, Sound
<1>2. Queued'
  BY DEF Queued, Sound
<1>3. Framed(p, n)
  BY DEF Framed, Together
<1>4. Balanced(p, n)
  BY DEF Balanced, Together
<1>5. Kept(p, n)
  BY DEF Kept, Together
<1>6. Marks(p, n)
  BY DEF Marks, Together
<1>7. Owns(p, n)
  <2>1. OwnsIt(p, n) <=> Owner(u, n)
    BY DEF OwnsIt, Owner
  <2>2. OwnsIt(p, n)' <=> Owner(v, n)
    BY DEF OwnsIt, Owner
  <2>3. OwnsIt(p, n)' => p \in Requests
    BY <2>2, Facts DEF Owner, PlacedAt, Holding, Deleting
  <2>4. OwnsIt(p, n)' \/ \A q \in Procs : q # p => c'[q].mine = c[q].mine
    BY <2>2
  <2>5. sh'.node[n].updating => OwnsIt(p, n)' \/ (sh.node[n].updating /\ ~OwnsIt(p, n))
    BY <2>1, <2>2 DEF Together
  <2> QED BY <2>3, <2>4, <2>5 DEF Owns
<1>8. Sized(n)
  BY DEF Sized
<1> QED BY <1>1, <1>2, <1>3, <1>4, <1>5, <1>6, <1>7, <1>8, Moves

(* The others when only p moves.                                             *)
LEMMA OthersStay ==
    ASSUME FInv, NEW p \in Procs, NEW v \in ProcRecord, c' = [c EXCEPT ![p] = v], NEW X
    PROVE  /\ c' \in [Procs -> ProcRecord] /\ c'[p] = v
           /\ \A q \in Procs : q # p =>
                /\ c'[q].pc = c[q].pc /\ c'[q].node = c[q].node /\ c'[q].del = c[q].del
                /\ c'[q].key = c[q].key /\ c'[q].updating = c[q].updating
                /\ c'[q].mine = c[q].mine \/ X
BY DEF FInv, Typed

(* The zone when one node changes, and perhaps its size.                     *)
With(s, n, b, z) == [s EXCEPT !.node[n] = b, !.size = z]

(* A node replaced in place leaves queue and tree sound.                     *)
LEMMA NodeChanged ==
    ASSUME NEW s, Sound(s), NEW n \in Ids, NEW b \in NodeRecord, b.live = s.node[n].live,
           NEW z \in Int
    PROVE  /\ Sound(With(s, n, b, z)) /\ With(s, n, b, z).node[n] = b /\ With(s, n, b, z).size = z
           /\ \A k \in Ids : k # n => With(s, n, b, z).node[k] = s.node[k]
<1> DEFINE t == With(s, n, b, z)
<1>1. s \in ZoneRecord /\ t = [s EXCEPT !.node[n] = b, !.size = z]
  BY DEF Sound, With
<1> HIDE DEF t
<1>2. /\ t \in ZoneRecord /\ t.node[n] = b /\ t.size = z /\ t.queue = s.queue
      /\ \A k \in Ids : k # n => t.node[k] = s.node[k]
  BY <1>1 DEF ZoneRecord
<1>3. Live(t) = Live(s)
  BY <1>2 DEF Live
<1>4. Sound(t)
  BY <1>2, <1>3 DEF Sound
<1> QED BY <1>2, <1>4 DEF t

(* Processes that hold nothing, and the nodes.                               *)
LEMMA IdleTyped ==
    ASSUME FileCacheAssumption
    PROVE  /\ Idle \in ProcRecord /\ Idle.pc = "idle" /\ Idle.node = 0 /\ Idle.del = 0
           /\ ~Idle.updating /\ ~Idle.mine
           /\ \A p \in Procs : PlacedAt(p, Idle)
<1>1. Idle \in ProcRecord /\ Idle.pc = "idle" /\ Idle.node = 0 /\ Idle.del = 0 /\ ~Idle.updating
      /\ ~Idle.mine
  BY DEF Idle, ProcRecord, Steps
<1> QED BY <1>1 DEF PlacedAt, Holding, Deleting

(* The types of a node's fields.                                             *)
LEMMA NodeAt ==
    ASSUME FInv, NEW n \in Ids
    PROVE  /\ sh.node[n] \in NodeRecord /\ NodeOK(sh.node[n]) /\ sh.size \in Int
           /\ sh.node[n].count \in Int /\ sh.node[n].lost \in Nat /\ sh.node[n].size \in 0..1
           /\ sh.node[n].live \in BOOLEAN /\ sh.node[n].exists \in BOOLEAN
           /\ sh.node[n].updating \in BOOLEAN /\ sh.node[n].deleting \in BOOLEAN
           /\ deaths \in Nat /\ raced \in BOOLEAN
BY DEF FInv, Typed, NodesOK, ZoneRecord, NodeRecord

(* At the other steps a process holds and deletes nothing.                   *)
LEMMA HoldsNothing ==
    ASSUME FileCacheAssumption, FInv, NEW p \in Procs, c[p].pc \notin Holding \cup Deleting
    PROVE  c[p] \in ProcRecord /\ c[p].node = 0 /\ c[p].del = 0 /\ ~c[p].updating
BY DEF FInv, Typed, Placed, PlacedAt

(* A request finds a node.                                                   *)
LEMMA FoundStep ==
    ASSUME FileCacheAssumption, FInv, NEW r \in Requests, NEW k \in Keys, NEW n \in Found(sh, k),
           c[r].pc = "idle", sh' = [Touch(sh, n) EXCEPT !.node[n].count = @ + 1],
           raced' = (raced \/ sh.node[n].deleting),
           c' = [c EXCEPT ![r] = [Idle EXCEPT !.pc = AtNode(sh, n), !.key = k, !.node = n]],
           disk' = disk, deaths' = deaths
    PROVE  FInv'
<1> DEFINE t == Touch(sh, n)
           a == sh.node[n]
           b == [t.node[n] EXCEPT !.count = @ + 1]
           u == c[r]
           v == [Idle EXCEPT !.pc = AtNode(sh, n), !.key = k, !.node = n]
<1>1. n \in Live(sh) /\ n \in Ids /\ a.live /\ a.key = k
  BY DEF Found, Live
<1>2. r \in Procs /\ r # Manager /\ n # 0
  BY <1>1, Facts
<1>3. Sound(t) /\ Alike(t, sh)
  BY <1>1, ZoneSound, Touched
<1>4. u.node = 0 /\ u.del = 0 /\ ~u.updating
  BY <1>2, HoldsNothing DEF Holding, Deleting
<1>5. /\ v \in ProcRecord /\ v.pc \in Holding /\ v.node = n /\ v.del = 0 /\ ~v.updating /\ v.key = k
  BY <1>1 DEF Idle, ProcRecord, Steps, Holding, AtNode
<1>6. PlacedAt(r, v)
  BY <1>2, <1>5 DEF PlacedAt, Holding, Deleting
<1>7. a \in NodeRecord /\ NodeOK(a) /\ a.count \in Int /\ a.lost \in Nat /\ a.deleting \in BOOLEAN
      /\ raced \in BOOLEAN /\ sh.size \in Int
  BY <1>1, NodeAt
<1>8. t \in ZoneRecord /\ t.node[n] \in NodeRecord /\ Same(t.node[n], a) /\ t.size \in Int
      /\ t.size = sh.size
  BY <1>1, <1>3 DEF Sound, Alike, ZoneRecord
<1>9. /\ b \in NodeRecord /\ b.live = a.live /\ b.key = a.key /\ b.count = a.count + 1
      /\ b.exists = a.exists /\ b.updating = a.updating /\ b.deleting = a.deleting
      /\ b.size = a.size /\ b.lost = a.lost /\ b.live = t.node[n].live
  <2> HIDE DEF t, a
  <2> QED BY <1>7, <1>8 DEF NodeRecord, Same
<1>10. sh' = With(t, n, b, t.size)
  <2> HIDE DEF t
  <2>1. sh' = [t EXCEPT !.node[n].count = @ + 1]
    BY DEF t
  <2> QED BY <1>1, <1>8, <2>1 DEF ZoneRecord, With
<1> HIDE DEF t, b, v
<1>11. /\ Sound(sh') /\ sh'.node[n] = b /\ sh'.size = sh.size
       /\ \A j \in Ids : j # n => Same(sh'.node[j], sh.node[j])
  <2>1. /\ Sound(sh') /\ sh'.node[n] = b /\ sh'.size = t.size
        /\ \A j \in Ids : j # n => sh'.node[j] = t.node[j]
    <3> DEFINE z == t.size
               y == With(t, n, b, z)
    <3>1. n \in Ids /\ Sound(t) /\ b \in NodeRecord /\ b.live = t.node[n].live /\ z \in Int
      BY <1>1, <1>3, <1>8, <1>9
    <3> HIDE DEF z
    <3>2. /\ Sound(y) /\ y.node[n] = b /\ y.size = z
          /\ \A j \in Ids : j # n => y.node[j] = t.node[j]
      BY <3>1, NodeChanged
    <3>3. sh' = y
      BY <1>10 DEF z
    <3> HIDE DEF y
    <3> QED BY <3>2, <3>3 DEF z
  <2> QED BY <1>3, <1>8, <2>1 DEF Alike
<1>12. /\ c' \in [Procs -> ProcRecord] /\ c'[r] = v
       /\ \A q \in Procs : q # r =>
            /\ c'[q].pc = c[q].pc /\ c'[q].node = c[q].node /\ c'[q].del = c[q].del
            /\ c'[q].key = c[q].key /\ c'[q].updating = c[q].updating
            /\ c'[q].mine = c[q].mine \/ (c[q].node = n /\ Owner(v, n))
  BY <1>2, <1>5, OthersStay DEF v
<1> HIDE DEF a, u
<1>13. NodeOK(b)
  BY <1>1, <1>7, <1>9 DEF NodeOK, a
<1>14. b.count - b.lost - Bit(v.node = n) - Bit(v.del = n)
         = a.count - a.lost - Bit(u.node = n) - Bit(u.del = n)
  BY <1>2, <1>4, <1>5, <1>7, <1>9 DEF Bit
<1>15. Weight(b) = Weight(a)
  BY <1>9 DEF Weight
<1>16. a = sh.node[n] /\ u = c[r] /\ raced' \in BOOLEAN /\ raced' = (raced \/ a.deleting)
  BY <1>7 DEF a, u
<1>17. b.live /\ b.key = a.key /\ b.key = v.key /\ a.live
  BY <1>1, <1>5, <1>9 DEF a
<1>18. b.updating => a.updating /\ ~Owner(u, n)
  BY <1>2, <1>4, <1>9 DEF Owner
<1>19. Around(r, n, a, b, u, v)
  BY <1>6, <1>11, <1>12, <1>13, <1>16 DEF Around
<1>20. Together(n, a, b, u, v)
  BY <1>2, <1>4, <1>5, <1>9, <1>14, <1>17, <1>18 DEF Together
<1> QED BY <1>1, <1>2, <1>9, <1>11, <1>15, <1>16, <1>19, <1>20, OneMoves


(* The zone when node n is written or goes.                                  *)
LEMMA ZoneWith ==
    ASSUME NEW s, Sound(s), NEW n \in Ids, \A k \in Ids : k # n => Same(s.node[k], sh.node[k]),
           NEW b \in NodeRecord, b.live = s.node[n].live, NEW z \in Int, sh' = With(s, n, b, z)
    PROVE  /\ Sound(sh') /\ sh'.node[n] = b /\ sh'.size = z
           /\ \A k \in Ids : k # n => Same(sh'.node[k], sh.node[k])
<1> DEFINE y == With(s, n, b, z)
<1>1. /\ Sound(y) /\ y.node[n] = b /\ y.size = z
      /\ \A j \in Ids : j # n => y.node[j] = s.node[j]
  BY NodeChanged
<1>2. sh' = y
  OBVIOUS
<1> HIDE DEF y
<1> QED BY <1>1, <1>2

(* The zone after a node left it.                                            *)
LEMMA ZoneGone ==
    ASSUME NEW s, Sound(s), NEW n \in Live(s), \A k \in Ids : k # n => Same(s.node[k], sh.node[k]),
           sh' = Gone(s, n)
    PROVE  /\ Sound(sh') /\ sh'.node[n] = NoNode /\ sh'.size = s.size
           /\ \A k \in Ids : k # n => Same(sh'.node[k], sh.node[k])
<1> DEFINE y == Gone(s, n)
<1>1. /\ Sound(y) /\ y.node[n] = NoNode /\ y.size = s.size
      /\ \A j \in Ids : j # n => y.node[j] = s.node[j]
  BY WentAway
<1>2. sh' = y
  OBVIOUS
<1> HIDE DEF y
<1> QED BY <1>1, <1>2

(* What a step of one process at one node has to leave alone.                *)
LEMMA AroundOne ==
    ASSUME FInv, NEW p \in Procs, NEW n \in Ids, NEW v \in ProcRecord,
           c' = [c EXCEPT ![p] = v], Sound(sh'), disk' = disk, deaths' = deaths, raced' = raced,
           \A k \in Ids : k # n => Same(sh'.node[k], sh.node[k]),
           PlacedAt(p, v), NodeOK(sh'.node[n])
    PROVE  Around(p, n, sh.node[n], sh'.node[n], c[p], v)
<1>1. c \in [Procs -> ProcRecord] /\ raced \in BOOLEAN
  BY DEF FInv, Typed
<1>2. c' \in [Procs -> ProcRecord] /\ c'[p] = v /\ \A q \in Procs : q # p => c'[q] = c[q]
  BY <1>1
<1> QED BY <1>1, <1>2 DEF Around

(* Who holds a node is counted, with those that died.                        *)
LEMMA HolderCounted ==
    ASSUME FileCacheAssumption, FInv, NEW p \in Procs, NEW n \in Ids, c[p].node = n \/ c[p].del = n
    PROVE  sh.node[n].count >= 1 + sh.node[n].lost
<1>1. /\ IsFiniteSet(Requests) /\ IsFiniteSet(Procs) /\ n # 0
      /\ \A q \in Procs : q # Manager => q \in Requests
  BY Facts
<1>2. IsFiniteSet(Users(n)) /\ IsFiniteSet(Deleters(n))
  <2>1. Users(n) \in SUBSET Requests /\ Deleters(n) \in SUBSET Procs
    BY DEF Users, Deleters
  <2> QED BY <1>1, <2>1, FS_Subset
<1>3. Cardinality(Users(n)) \in Nat /\ Cardinality(Deleters(n)) \in Nat
  BY <1>2, FS_CardinalityType
<1>4. Users(n) # {} \/ Deleters(n) # {}
  <2>1. CASE c[p].node = n
    <3>1. p # Manager
      BY <1>1, <2>1 DEF FInv, Placed, PlacedAt, Holding, Deleting
    <3> QED BY <1>1, <2>1, <3>1 DEF Users
  <2>2. CASE c[p].del = n
    BY <2>2 DEF Deleters
  <2> QED BY <2>1, <2>2
<1>5. Cardinality(Users(n)) # 0 \/ Cardinality(Deleters(n)) # 0
  BY <1>2, <1>4, FS_EmptySet
<1>6. sh.node[n].count = Cardinality(Users(n)) + Cardinality(Deleters(n)) + sh.node[n].lost
  BY DEF FInv, Counted
<1>7. sh.node[n].lost \in Nat
  BY NodeAt
<1> QED BY <1>3, <1>5, <1>6, <1>7

(* A request that takes a new node.                                          *)
LEMMA AllocatedStep ==
    ASSUME FileCacheAssumption, FInv, NEW r \in Requests, NEW k \in Keys,
           c[r].pc \notin Holding \cup Deleting, Live(sh) # Ids, Allocated(r, k),
           disk' = disk, deaths' = deaths, raced' = raced
    PROVE  FInv'
<1> DEFINE n == Taken(sh)
           a == sh.node[n]
           b == Fresh(k, 1, 0)
           u == c[r]
           pc == IF sh.cold THEN "open" ELSE "lock"
           v == [Idle EXCEPT !.pc = pc, !.key = k, !.node = n]
<1>1. n \in Ids /\ n \notin Live(sh)
  BY TakenNode
<1>2. c' = [c EXCEPT ![r] = v] /\ sh' = New(sh, k, 1, 0)
  BY DEF Allocated, Taken
<1>3. r \in Procs /\ r # Manager /\ n # 0
  BY <1>1, Facts
<1> HIDE DEF n
<1>4. /\ Sound(sh') /\ sh'.size = Capped(sh.size + 0) /\ sh'.node[n] = b
      /\ \A j \in Ids : j # n => sh'.node[j] = sh.node[j]
  <2> DEFINE y == New(sh, k, 1, 0)
  <2>1. /\ Sound(y) /\ y.size = Capped(sh.size + 0) /\ y.node[n] = b
        /\ \A j \in Ids : j # n => y.node[j] = sh.node[j]
    BY ZoneSound, CameNew DEF n
  <2>2. sh' = y
    BY <1>2
  <2> HIDE DEF y, b
  <2> QED BY <2>1, <2>2
<1>5. /\ b \in NodeRecord /\ b.live /\ b.key = k /\ b.count = 1 /\ b.size = 0 /\ b.lost = 0
      /\ b.exists = FALSE /\ b.updating = FALSE /\ b.deleting = FALSE
  <2>1. /\ b \in NodeRecord /\ b.live /\ b.key = k /\ b.count = 1 /\ b.size = 0 /\ b.lost = 0
        /\ b.exists = (0 = 1) /\ ~b.updating /\ ~b.deleting
    BY FreshTyped
  <2> HIDE DEF b
  <2> QED BY <2>1 DEF NodeRecord
<1>6. /\ ~a.live /\ a.count = 0 /\ a.lost = 0 /\ ~a.updating /\ ~a.deleting /\ a.size # 1
      /\ sh.size \in Int /\ deaths \in Nat
  BY <1>1, NodeAt DEF Live, NodeOK
<1>7. u.node = 0 /\ u.del = 0
  BY <1>3, HoldsNothing
<1> HIDE DEF b
<1>8. pc \in Holding /\ pc \in Steps
  BY DEF Holding, Steps
<1> HIDE DEF pc
<1>9. v \in ProcRecord /\ v.pc \in Holding /\ v.node = n /\ v.del = 0 /\ ~v.updating /\ v.key = k
  BY <1>1, <1>8 DEF Idle, ProcRecord
<1> HIDE DEF v
<1>10. PlacedAt(r, v)
  BY <1>3, <1>9 DEF PlacedAt, Holding, Deleting
<1>11. NodeOK(b)
  BY <1>5, <1>6 DEF NodeOK
<1>12. \A j \in Ids : j # n => Same(sh'.node[j], sh.node[j])
  BY <1>4 DEF Same
<1>13. Around(r, n, a, b, u, v)
  BY <1>1, <1>2, <1>3, <1>4, <1>9, <1>10, <1>11, <1>12, AroundOne
<1> HIDE DEF a, u
<1>14. b.count - b.lost - Bit(v.node = n) - Bit(v.del = n)
         = a.count - a.lost - Bit(u.node = n) - Bit(u.del = n)
  <2>1. Bit(v.node = n) = 1 /\ Bit(v.del = n) = 0 /\ Bit(u.node = n) = 0 /\ Bit(u.del = n) = 0
    BY <1>3, <1>7, <1>9 DEF Bit
  <2> QED BY <1>5, <1>6, <2>1
<1>15. Together(n, a, b, u, v)
  BY <1>3, <1>5, <1>6, <1>7, <1>9, <1>14 DEF Together
<1>16. sh'.size = Capped(sh.size + Weight(b) - Weight(a))
  <2>1. Weight(b) = 0 /\ Weight(a) = 0
    BY <1>5, <1>6 DEF Weight, Bit
  <2>2. sh.size + Weight(b) - Weight(a) = sh.size + 0
    BY <1>6, <2>1
  <2> QED BY <1>4, <2>2
<1> QED BY <1>1, <1>3, <1>5, <1>13, <1>15, <1>16, OneMoves

(* ngx_http_file_cache_exists, on a first call, keeps the invariant.         *)
LEMMA ExistsStep ==
    ASSUME FileCacheAssumption, FInv, NEW r \in Requests, NEW k \in Keys, Exists(r, k)
    PROVE  FInv'
<1>1. c[r].pc = "idle" /\ disk' = disk /\ deaths' = deaths /\ c[r].pc \notin Holding \cup Deleting
  BY DEF Exists, Holding, Deleting
<1>2. CASE \E n \in Found(sh, k) :
             /\ sh' = [Touch(sh, n) EXCEPT !.node[n].count = @ + 1]
             /\ raced' = (raced \/ sh.node[n].deleting)
             /\ c' = [c EXCEPT ![r] = [Idle EXCEPT !.pc = AtNode(sh, n), !.key = k, !.node = n]]
  BY <1>1, <1>2, FoundStep
<1>3. CASE Found(sh, k) = {} /\ Live(sh) # Ids /\ Allocated(r, k) /\ UNCHANGED raced
  BY <1>1, <1>3, AllocatedStep
<1>4. CASE /\ Found(sh, k) = {} /\ Live(sh) = Ids /\ sh' = Full(sh) /\ UNCHANGED raced
           /\ c' = [c EXCEPT ![r] = [Idle EXCEPT !.pc = "forced", !.key = k]]
  <2> DEFINE v == [Idle EXCEPT !.pc = "forced", !.key = k]
  <2>1. v \in ProcRecord /\ v.pc = "forced" /\ v.key = k /\ v.node = 0 /\ v.del = 0 /\ ~v.updating
    BY DEF Idle, ProcRecord, Steps
  <2>2. c' = [c EXCEPT ![r] = v]
    BY <1>4
  <2> HIDE DEF v
  <2>3. r \in Procs /\ r # Manager /\ c[r].node = 0 /\ c[r].del = 0
    BY <1>1, Facts, HoldsNothing
  <2>4. PlacedAt(r, v)
    BY <2>1, <2>3 DEF PlacedAt, Holding, Deleting
  <2>5. Sound(sh') /\ Alike(sh', sh)
    BY <1>4, ZoneSound, WasFull
  <2>6. disk' \in [Keys -> {"none", "fresh", "stale"}]
    BY <1>1 DEF FInv, Typed
  <2> QED BY <1>1, <1>4, <2>1, <2>2, <2>3, <2>4, <2>5, <2>6, StepsOn
<1> QED BY <1>2, <1>3, <1>4 DEF Exists

(* The second allocation after a forced expiry keeps the invariant.          *)
LEMMA RetryStep ==
    ASSUME FileCacheAssumption, FInv, NEW r \in Requests, Retry(r)
    PROVE  FInv'
<1>1. /\ c[r].pc = "retry" /\ disk' = disk /\ deaths' = deaths /\ raced' = raced
      /\ c[r].pc \notin Holding \cup Deleting
  BY DEF Retry, Holding, Deleting
<1>2. r \in Procs /\ r # Manager /\ c[r].node = 0 /\ c[r].del = 0
  BY <1>1, Facts, HoldsNothing
<1>3. CASE Live(sh) # Ids
  <2>1. c[r].key \in Keys
    BY <1>1, <1>2 DEF FInv, Placed, PlacedAt
  <2> QED BY <1>1, <1>3, <2>1, AllocatedStep DEF Retry
<1>4. CASE Live(sh) = Ids
  <2>1. sh' = sh /\ c' = [c EXCEPT ![r] = Idle]
    BY <1>4 DEF Retry
  <2>2. disk' \in [Keys -> {"none", "fresh", "stale"}]
    BY <1>1 DEF FInv, Typed
  <2> QED BY <1>1, <1>2, <2>1, <2>2, IdleTyped, ZoneSound, StepsOn
<1> QED BY <1>3, <1>4


-----------------------------------------------------------------------------
(* Steps of a request that holds a node                                      *)

(* Reading the header of the cached file keeps the invariant.                *)
LEMMA ReadStep ==
    ASSUME FileCacheAssumption, FInv, NEW r \in Requests, Read(r)
    PROVE  FInv'
<1> DEFINE n == c[r].node
           a == sh.node[n]
           b == [a EXCEPT !.exists = TRUE, !.size = 1]
           u == c[r]
           pc == IF c[r].fresh THEN "serve" ELSE "stale"
           v == [u EXCEPT !.pc = pc, !.fresh = FALSE]
           z == Capped(sh.size + 1)
<1>1. c[r].pc = "read" /\ c[r].pc \in Holding
  BY DEF Read, Holding
<1>2. disk' = disk /\ deaths' = deaths /\ raced' = raced /\ c' = [c EXCEPT ![r] = v]
      /\ disk \in [Keys -> {"none", "fresh", "stale"}]
  BY DEF Read, FInv, Typed
<1>3. /\ r \in Procs /\ r # Manager /\ u \in ProcRecord /\ n \in Ids /\ n # 0 /\ u.del = 0
      /\ a.live /\ a.key = u.key /\ u.key \in Keys
  BY <1>1, Holds
<1>4. pc \in Holding /\ pc \in Steps
  BY DEF Holding, Steps
<1> HIDE DEF pc
<1>5. /\ v \in ProcRecord /\ v.pc \in Holding /\ v.node = n /\ v.del = u.del /\ v.key = u.key
      /\ v.updating = u.updating /\ v.mine = u.mine
  BY <1>3, <1>4 DEF ProcRecord
<1>6. CASE ~(sh.cold /\ ~a.exists)
  <2>1. sh' = sh
    BY <1>6 DEF Read
  <2> HIDE DEF v
  <2> QED BY <1>1, <1>2, <1>5, <2>1, ZoneSound, HoldsOn
<1>7. CASE sh.cold /\ ~a.exists
  <2>1. /\ a \in NodeRecord /\ NodeOK(a) /\ sh.size \in Int /\ a.count \in Int /\ a.lost \in Nat
        /\ a.size \in 0..1 /\ deaths \in Nat
    BY <1>3, NodeAt
  <2>2. z \in Int
    BY <2>1, CappedInt
  <2>3. sh' = [sh EXCEPT !.node[n].exists = TRUE, !.node[n].size = 1, !.size = z]
    BY <1>7 DEF Read
  <2>4. sh' = With(sh, n, b, z)
    <3> HIDE DEF z
    <3> QED BY <1>3, <2>3, ZoneSound DEF With, Sound, ZoneRecord
  <2> HIDE DEF z
  <2>5. /\ b \in NodeRecord /\ b.live = a.live /\ b.key = a.key /\ b.count = a.count /\ b.exists
        /\ b.updating = a.updating /\ b.deleting = a.deleting /\ b.size = 1 /\ b.lost = a.lost
    <3> HIDE DEF a
    <3>1. /\ b.live = a.live /\ b.key = a.key /\ b.count = a.count /\ b.exists = TRUE
          /\ b.updating = a.updating /\ b.deleting = a.deleting /\ b.size = 1 /\ b.lost = a.lost
      BY <2>1 DEF NodeRecord
    <3>2. TRUE \in BOOLEAN /\ 1 \in 0..1
      OBVIOUS
    <3>3. b \in NodeRecord
      BY <2>1, <3>2 DEF NodeRecord
    <3> QED BY <3>1, <3>3
  <2> HIDE DEF b, v
  <2>6. /\ Sound(sh') /\ sh'.node[n] = b /\ sh'.size = z
        /\ \A k \in Ids : k # n => Same(sh'.node[k], sh.node[k])
    <3>1. \A k \in Ids : k # n => Same(sh.node[k], sh.node[k])
      BY DEF Same
    <3> QED BY <1>3, <2>2, <2>4, <2>5, <3>1, ZoneSound, ZoneWith
  <2>7. PlacedAt(r, v)
    BY <1>3, <1>5 DEF PlacedAt, Holding, Deleting
  <2>8. NodeOK(b)
    <3> HIDE DEF a
    <3> QED BY <1>3, <2>1, <2>5 DEF NodeOK
  <2>9. Around(r, n, a, b, u, v)
    BY <1>2, <1>3, <1>5, <2>6, <2>7, <2>8, AroundOne
  <2> HIDE DEF a
  <2>10. Together(n, a, b, u, v)
    <3>1. u.node = n
      OBVIOUS
    <3> HIDE DEF u, n
    <3>2. Bit(v.node = n) = Bit(u.node = n) /\ Bit(v.del = n) = Bit(u.del = n)
      BY <1>5, <3>1 DEF Bit
    <3>3. b.count - b.lost - Bit(v.node = n) - Bit(v.del = n)
            = a.count - a.lost - Bit(u.node = n) - Bit(u.del = n)
      BY <2>5, <3>2
    <3>4. Owner(v, n) <=> Owner(u, n)
      BY <1>5, <3>1 DEF Owner
    <3> QED BY <1>3, <1>5, <2>5, <3>1, <3>3, <3>4 DEF Together
  <2>11. Weight(b) = 1 /\ Weight(a) = 0
    BY <1>3, <1>7, <2>1, <2>5 DEF Weight, Bit, NodeOK
  <2>12. sh'.size = Capped(sh.size + Weight(b) - Weight(a))
    <3>1. sh.size + Weight(b) - Weight(a) = sh.size + 1
      BY <2>1, <2>11
    <3> QED BY <2>6, <3>1 DEF z
  <2> QED BY <1>3, <1>5, <2>9, <2>10, <2>12, OneMoves
<1> QED BY <1>6, <1>7

(* A request takes a node's mark, also from others that wait for it.         *)
Takes(r, n, aged) ==
    /\ sh' = [sh EXCEPT !.node[n].updating = TRUE, !.node[n].aged = aged]
    /\ c' \in [Procs -> ProcRecord]
    /\ c'[r] = [c[r] EXCEPT !.pc = "fetch", !.updating = TRUE, !.mine = TRUE]
    /\ \A q \in Procs : q # r =>
         c'[q] = c[q] \/ (c[q].node = n /\ c'[q] = [c[q] EXCEPT !.mine = FALSE])

(* Taking the mark of an update makes the taker its owner.                   *)
LEMMA TakesMark ==
    ASSUME FileCacheAssumption, FInv, NEW r \in Requests, c[r].pc \in Holding,
           NEW n \in Ids, n = c[r].node, NEW aged \in BOOLEAN, Takes(r, n, aged),
           disk' = disk, deaths' = deaths, raced' = raced
    PROVE  FInv'
<1> DEFINE a == sh.node[n]
           b == [a EXCEPT !.updating = TRUE, !.aged = aged]
           u == c[r]
           v == [u EXCEPT !.pc = "fetch", !.updating = TRUE, !.mine = TRUE]
<1>1. /\ r \in Procs /\ r # Manager /\ u \in ProcRecord /\ n # 0 /\ u.del = 0 /\ u.node = n
      /\ a.live /\ a.key = u.key /\ u.key \in Keys
  BY Holds
<1>2. /\ v \in ProcRecord /\ v.pc = "fetch" /\ v.node = n /\ v.del = 0 /\ v.key = u.key
      /\ v.updating /\ v.mine
  BY <1>1 DEF ProcRecord, Steps, Holding
<1>3. /\ a \in NodeRecord /\ NodeOK(a) /\ sh.size \in Int /\ a.count \in Int /\ a.lost \in Nat
      /\ a.size \in 0..1 /\ raced \in BOOLEAN
  BY NodeAt
<1>4. sh' = With(sh, n, b, sh.size)
  BY ZoneSound DEF With, Sound, ZoneRecord, Takes
<1>5. /\ b \in NodeRecord /\ b.live = a.live /\ b.key = a.key /\ b.count = a.count /\ b.exists = a.exists
      /\ b.deleting = a.deleting /\ b.size = a.size /\ b.lost = a.lost
  <2> HIDE DEF a
  <2> QED BY <1>3 DEF NodeRecord
<1> HIDE DEF b, v
<1>6. /\ Sound(sh') /\ sh'.node[n] = b /\ sh'.size = sh.size
      /\ \A k \in Ids : k # n => Same(sh'.node[k], sh.node[k])
  <2> DEFINE z == sh.size
  <2>1. \A k \in Ids : k # n => Same(sh.node[k], sh.node[k])
    BY DEF Same
  <2>2. z \in Int /\ sh' = With(sh, n, b, z)
    BY <1>3, <1>4
  <2> HIDE DEF z
  <2>3. /\ Sound(sh') /\ sh'.node[n] = b /\ sh'.size = z
        /\ \A k \in Ids : k # n => Same(sh'.node[k], sh.node[k])
    BY <1>5, <2>1, <2>2, ZoneSound, ZoneWith
  <2> QED BY <2>3 DEF z
<1>7. PlacedAt(r, v)
  BY <1>1, <1>2 DEF PlacedAt, Holding, Deleting
<1>8. NodeOK(b)
  <2> HIDE DEF a
  <2> QED BY <1>1, <1>3, <1>5 DEF NodeOK
<1>9. Owner(v, n)
  BY <1>2 DEF Owner
<1>10. \A q \in Procs : q # r =>
         /\ c'[q].pc = c[q].pc /\ c'[q].node = c[q].node /\ c'[q].del = c[q].del
         /\ c'[q].key = c[q].key /\ c'[q].updating = c[q].updating
         /\ c'[q].mine = c[q].mine \/ (c[q].node = n /\ Owner(v, n))
  <2> SUFFICES ASSUME NEW q \in Procs, q # r
               PROVE  /\ c'[q].pc = c[q].pc /\ c'[q].node = c[q].node /\ c'[q].del = c[q].del
                      /\ c'[q].key = c[q].key /\ c'[q].updating = c[q].updating
                      /\ c'[q].mine = c[q].mine \/ c[q].node = n
    BY <1>9
  <2>0. c'[q] = c[q] \/ (c[q].node = n /\ c'[q] = [c[q] EXCEPT !.mine = FALSE])
    BY DEF Takes
  <2>1. c[q] \in ProcRecord
    BY DEF FInv, Typed
  <2>2. CASE c'[q] = c[q]
    BY <2>2
  <2>3. CASE c[q].node = n /\ c'[q] = [c[q] EXCEPT !.mine = FALSE]
    BY <2>1, <2>3 DEF ProcRecord
  <2> QED BY <2>0, <2>2, <2>3
<1>11. Around(r, n, a, b, u, v)
  <2>1. c' \in [Procs -> ProcRecord] /\ c'[r] = v
    BY DEF Takes, v
  <2> QED BY <1>1, <1>3, <1>6, <1>7, <1>8, <1>10, <2>1 DEF Around
<1> HIDE DEF a, u
<1>12. Together(n, a, b, u, v)
  <2>1. Bit(v.node = n) = Bit(u.node = n) /\ Bit(v.del = n) = Bit(u.del = n)
    BY <1>1, <1>2 DEF Bit
  <2>2. b.count - b.lost - Bit(v.node = n) - Bit(v.del = n)
          = a.count - a.lost - Bit(u.node = n) - Bit(u.del = n)
    BY <1>5, <2>1
  <2> QED BY <1>1, <1>2, <1>5, <1>9, <2>2 DEF Together
<1>13. Weight(b) = Weight(a)
  BY <1>5 DEF Weight
<1> QED BY <1>1, <1>6, <1>11, <1>12, <1>13, OneMoves

(* Finding the response stale keeps the invariant.                           *)
LEMMA StaleStep ==
    ASSUME FileCacheAssumption, FInv, NEW r \in Requests, Stale(r)
    PROVE  FInv'
<1> DEFINE n == c[r].node
<1>1. c[r].pc = "stale" /\ c[r].pc \in Holding /\ disk' = disk /\ deaths' = deaths /\ raced' = raced
      /\ disk' \in [Keys -> {"none", "fresh", "stale"}]
  BY DEF Stale, Holding, FInv, Typed
<1>2. r \in Procs /\ n \in Ids /\ c[r] \in ProcRecord /\ c \in [Procs -> ProcRecord]
  BY <1>1, Holds DEF FInv, Typed
<1>3. CASE sh.node[n].updating
  <2>1. sh' = sh /\ (Go(r, "serve") \/ Go(r, "fetch"))
    BY <1>3 DEF Stale
  <2>2. "serve" \in Holding /\ "fetch" \in Holding
    BY DEF Holding
  <2> QED BY <1>1, <2>1, <2>2, GoesOn
<1>4. CASE ~sh.node[n].updating
  <2> DEFINE aged == sh.node[n].aged
             v == [c[r] EXCEPT !.pc = "fetch", !.updating = TRUE, !.mine = TRUE]
  <2>1. sh' = [sh EXCEPT !.node[n].updating = TRUE] /\ c' = [c EXCEPT ![r] = v]
    BY <1>4 DEF Stale
  <2>2. aged \in BOOLEAN /\ sh.node[n] \in NodeRecord /\ sh \in ZoneRecord
    BY <1>2, NodeAt DEF NodeRecord, FInv, Typed
  <2>3. sh' = [sh EXCEPT !.node[n].updating = TRUE, !.node[n].aged = aged]
    BY <1>2, <2>1, <2>2 DEF ZoneRecord, NodeRecord
  <2>4. v \in ProcRecord
    BY <1>2 DEF ProcRecord, Steps, Holding
  <2>5. c' \in [Procs -> ProcRecord] /\ c'[r] = v /\ \A q \in Procs : q # r => c'[q] = c[q]
    <3> HIDE DEF v
    <3> QED BY <1>2, <2>1, <2>4
  <2> HIDE DEF aged
  <2>6. Takes(r, n, aged)
    BY <2>3, <2>5 DEF Takes
  <2> QED BY <1>1, <1>2, <2>2, <2>6, TakesMark
<1> QED BY <1>3, <1>4

(* ngx_http_file_cache_lock keeps the invariant.                             *)
LEMMA LockStep ==
    ASSUME FileCacheAssumption, FInv, NEW r \in Requests, Lock(r)
    PROVE  FInv'
<1> DEFINE n == c[r].node
<1>1. c[r].pc = "lock" /\ c[r].pc \in Holding /\ disk' = disk /\ deaths' = deaths /\ raced' = raced
      /\ disk' \in [Keys -> {"none", "fresh", "stale"}]
  BY DEF Lock, Holding, FInv, Typed
<1>2. r \in Procs /\ n \in Ids /\ c[r] \in ProcRecord /\ c \in [Procs -> ProcRecord]
  BY <1>1, Holds DEF FInv, Typed
<1>3. CASE CacheLock /\ (~sh.node[n].updating \/ sh.node[n].aged)
  <2>1. sh' = [sh EXCEPT !.node[n].updating = TRUE, !.node[n].aged = FALSE] /\ c' = Relocked(r, n)
    BY <1>3 DEF Lock
  <2>2. c'[r] = [c[r] EXCEPT !.pc = "fetch", !.updating = TRUE, !.mine = TRUE]
    BY <1>2, <2>1 DEF Relocked
  <2>3. \A q \in Procs : q # r =>
          c'[q] = c[q] \/ (c[q].node = n /\ c'[q] = [c[q] EXCEPT !.mine = FALSE])
    BY <2>1 DEF Relocked
  <2>4. c' \in [Procs -> ProcRecord]
    <3>1. \A u \in ProcRecord : /\ [u EXCEPT !.pc = "fetch", !.updating = TRUE, !.mine = TRUE] \in ProcRecord
                                /\ [u EXCEPT !.mine = FALSE] \in ProcRecord
      BY DEF ProcRecord, Steps, Holding
    <3>2. ASSUME NEW q \in Procs PROVE c'[q] \in ProcRecord
      <4>1. c[q] \in ProcRecord
        BY <1>2
      <4>2. CASE q = r
        BY <2>2, <3>1, <4>1, <4>2
      <4>3. CASE q # r
        BY <2>3, <3>1, <4>1, <4>3
      <4> QED BY <4>2, <4>3
    <3>3. c' = [q \in Procs |-> c'[q]]
      BY <2>1 DEF Relocked
    <3> QED BY <3>2, <3>3
  <2>5. Takes(r, n, FALSE)
    BY <2>1, <2>2, <2>3, <2>4 DEF Takes
  <2> QED BY <1>1, <1>2, <2>5, TakesMark
<1>4. CASE ~(CacheLock /\ (~sh.node[n].updating \/ sh.node[n].aged))
  <2> DEFINE pc == IF ~CacheLock THEN "fetch" ELSE IF c[r].timedout THEN "serve" ELSE "waiting"
  <2>1. sh' = sh /\ Go(r, pc)
    BY <1>4 DEF Lock
  <2>2. pc \in Holding
    BY DEF Holding
  <2> HIDE DEF pc
  <2> QED BY <1>1, <2>1, <2>2, GoesOn
<1> QED BY <1>3, <1>4


(* The file of a node in use is not being deleted, while no request found    *)
(* one whose file was.                                                       *)
LEMMA InUse ==
    ASSUME FileCacheAssumption, FInv, ~raced, NEW r \in Requests, NEW n \in Ids, c[r].node = n
    PROVE  ~sh.node[n].deleting
BY DEF FInv, DeletedAlone, Users

(* ngx_http_file_cache_update keeps the invariant.                           *)
LEMMA UpdateStep ==
    ASSUME FileCacheAssumption, FInv, NEW r \in Requests, Update(r)
    PROVE  FInv'
<1> DEFINE n == c[r].node
           a == sh.node[n]
           ok == c[r].pc = "renamed"
           size == IF ok THEN 1 ELSE 0
           e == a.exists \/ ok
           b == [a EXCEPT !.count = a.count - 1, !.size = size, !.exists = e, !.updating = FALSE]
           u == c[r]
           z == Capped(sh.size + size - a.size)
<1>1. c[r].pc \in Holding /\ disk' = disk /\ deaths' = deaths /\ raced' = raced
      /\ c' = [c EXCEPT ![r] = Idle]
  BY DEF Update, Holding
<1>2. /\ r \in Procs /\ n \in Ids /\ n # 0 /\ u.del = 0 /\ a.live
  BY <1>1, Holds
<1>3. /\ a \in NodeRecord /\ NodeOK(a) /\ sh.size \in Int /\ a.count \in Int /\ a.lost \in Nat
      /\ a.size \in 0..1 /\ raced \in BOOLEAN /\ a.exists \in BOOLEAN /\ a.deleting \in BOOLEAN
  BY <1>2, NodeAt
<1>4. size \in 0..1 /\ size \in Int /\ e \in BOOLEAN /\ (size = 1 => e) /\ (a.exists => e)
  BY <1>3
<1>5. z \in Int
  <2> HIDE DEF size
  <2>1. sh.size + size - a.size \in Int
    BY <1>3, <1>4
  <2> QED BY <2>1, CappedInt
<1>6. sh' = [sh EXCEPT !.size = z, !.node[n] = b]
  BY DEF Update
<1> HIDE DEF size, e, ok
<1>7. sh' = With(sh, n, b, z)
  <2> HIDE DEF b, z
  <2> QED BY <1>2, <1>6, ZoneSound DEF With, Sound, ZoneRecord
<1>8. /\ b \in NodeRecord /\ b.live = a.live /\ b.key = a.key /\ b.count = a.count - 1 /\ b.exists = e
      /\ b.updating = FALSE /\ b.deleting = a.deleting /\ b.size = size /\ b.lost = a.lost
  <2> HIDE DEF a
  <2>1. a.count - 1 \in Int /\ FALSE \in BOOLEAN
    BY <1>3
  <2> QED BY <1>3, <1>4, <2>1 DEF NodeRecord
<1> HIDE DEF b, z
<1>9. /\ Sound(sh') /\ sh'.node[n] = b /\ sh'.size = z
      /\ \A k \in Ids : k # n => Same(sh'.node[k], sh.node[k])
  <2>1. \A k \in Ids : k # n => Same(sh.node[k], sh.node[k])
    BY DEF Same
  <2> QED BY <1>2, <1>5, <1>7, <1>8, <2>1, ZoneSound, ZoneWith
<1>10. Idle \in ProcRecord /\ PlacedAt(r, Idle) /\ Idle.node = 0 /\ Idle.del = 0
  BY <1>2, IdleTyped
<1>11. NodeOK(b)
  <2> HIDE DEF a
  <2> QED BY <1>2, <1>3, <1>4, <1>8 DEF NodeOK
<1>12. Around(r, n, a, b, u, Idle)
  BY <1>1, <1>2, <1>9, <1>10, <1>11, AroundOne
<1>13. ~raced => ~a.deleting
  BY <1>2, InUse
<1>14. u.node = n
  OBVIOUS
<1> HIDE DEF a, n, u
<1>15. Together(n, a, b, u, Idle)
  <2>1. Bit(Idle.node = n) = 0 /\ Bit(Idle.del = n) = 0 /\ Bit(u.node = n) = 1 /\ Bit(u.del = n) = 0
    BY <1>2, <1>10, <1>14 DEF Bit
  <2>2. b.count - b.lost - Bit(Idle.node = n) - Bit(Idle.del = n)
          = a.count - a.lost - Bit(u.node = n) - Bit(u.del = n)
    BY <1>3, <1>8, <2>1
  <2> QED BY <1>2, <1>8, <1>10, <1>14, <2>2 DEF Together
<1>16. ~raced' => sh'.size = Capped(sh.size + Weight(b) - Weight(a))
  <2> SUFFICES ASSUME ~raced' PROVE sh'.size = Capped(sh.size + Weight(b) - Weight(a))
    OBVIOUS
  <2>1. ~a.deleting /\ ~b.deleting /\ a.live /\ b.live
    BY <1>1, <1>2, <1>8, <1>13
  <2>2. Weight(b) = size /\ Weight(a) = a.size
    BY <1>3, <1>4, <1>8, <2>1 DEF Weight, Bit
  <2> QED BY <1>9, <2>2 DEF z
<1> QED BY <1>2, <1>10, <1>12, <1>15, <1>16, OneMoves

(* A free slot has no count, mark, size or weight.                           *)
LEMMA NoNodeOK ==
    ASSUME NEW d \in Nat
    PROVE  /\ ~NoNode.live /\ NoNode.count = 0 /\ ~NoNode.updating /\ NoNode.lost = 0 /\ ~NoNode.exists
           /\ ~NoNode.deleting /\ NoNode.size = 0 /\ NoNode.lost <= d
           /\ Weight(NoNode) = 0
BY DEF NoNode, Weight, Bit

(* ngx_http_file_cache_free keeps the invariant.                             *)
LEMMA FreeStep ==
    ASSUME FileCacheAssumption, FInv, NEW r \in Requests, FreeCache(r)
    PROVE  FInv'
<1> DEFINE n == c[r].node
           a == sh.node[n]
           g == a.updating /\ ~(c[r].updating /\ c[r].mine)
           b == [a EXCEPT !.count = a.count - 1, !.updating = g]
           u == c[r]
           t == With(sh, n, b, sh.size)
<1>1. c[r].pc \in Holding /\ disk' = disk /\ deaths' = deaths /\ raced' = raced
      /\ c' = [c EXCEPT ![r] = Idle]
  BY DEF FreeCache, Holding
<1>2. /\ r \in Procs /\ n \in Ids /\ n # 0 /\ u.del = 0 /\ a.live
  BY <1>1, Holds
<1>3. /\ a \in NodeRecord /\ NodeOK(a) /\ sh.size \in Int /\ a.count \in Int /\ a.lost \in Nat
      /\ a.size \in 0..1 /\ raced \in BOOLEAN /\ a.exists \in BOOLEAN /\ a.deleting \in BOOLEAN
      /\ deaths \in Nat
  BY <1>2, NodeAt
<1>4. g \in BOOLEAN /\ (g => a.updating /\ ~Owner(u, n))
  BY DEF Owner
<1>5. sh' = IF ~t.node[n].exists /\ t.node[n].count = 0 THEN Gone(t, n) ELSE t
  <2> DEFINE y == [sh EXCEPT !.node[n].count = @ - 1,
                             !.node[n].updating = @ /\ ~(c[r].updating /\ c[r].mine)]
  <2>1. sh' = IF ~y.node[n].exists /\ y.node[n].count = 0 THEN Gone(y, n) ELSE y
    BY DEF FreeCache, Released
  <2>2. y = t
    <3>1. sh \in ZoneRecord
      BY ZoneSound DEF Sound
    <3>2. y = [sh EXCEPT !.node[n].count = a.count - 1, !.node[n].updating = g]
      BY <1>2, <1>3, <3>1 DEF ZoneRecord, NodeRecord
    <3> HIDE DEF y, g
    <3> QED BY <1>2, <3>1, <3>2 DEF With, ZoneRecord
  <2> HIDE DEF y, t
  <2> QED BY <2>1, <2>2
<1> HIDE DEF g
<1>6. /\ b \in NodeRecord /\ b.live = a.live /\ b.key = a.key /\ b.count = a.count - 1
      /\ b.exists = a.exists /\ b.updating = g /\ b.deleting = a.deleting /\ b.size = a.size
      /\ b.lost = a.lost
  <2> HIDE DEF a
  <2>1. a.count - 1 \in Int
    BY <1>3
  <2> QED BY <1>3, <1>4, <2>1 DEF NodeRecord
<1> HIDE DEF b
<1>7. /\ Sound(t) /\ t.node[n] = b /\ t.size = sh.size
      /\ \A k \in Ids : k # n => t.node[k] = sh.node[k]
  <2> DEFINE z == sh.size
             y == With(sh, n, b, z)
  <2>1. z \in Int /\ n \in Ids /\ b \in NodeRecord /\ b.live = sh.node[n].live /\ Sound(sh)
    BY <1>2, <1>3, <1>6, ZoneSound
  <2> HIDE DEF z, n
  <2>2. /\ Sound(y) /\ y.node[n] = b /\ y.size = z
        /\ \A k \in Ids : k # n => y.node[k] = sh.node[k]
    BY <2>1, NodeChanged
  <2> QED BY <2>2 DEF z
<1> HIDE DEF t
<1>8. \A k \in Ids : k # n => Same(t.node[k], sh.node[k])
  BY <1>7 DEF Same
<1>9. Idle \in ProcRecord /\ PlacedAt(r, Idle) /\ Idle.node = 0 /\ Idle.del = 0
  BY <1>2, IdleTyped
<1>10. u.node = n
  OBVIOUS
<1>11. a.count >= 1 + a.lost
  BY <1>2, HolderCounted
<1>12. CASE a.exists \/ a.count # 1
  <2>1. sh' = t
    <3>1. ~(~b.exists /\ b.count = 0)
      BY <1>3, <1>6, <1>12
    <3> QED BY <1>5, <1>7, <3>1
  <2>2. /\ Sound(sh') /\ sh'.node[n] = b /\ sh'.size = sh.size
        /\ \A k \in Ids : k # n => Same(sh'.node[k], sh.node[k])
    BY <1>7, <1>8, <2>1
  <2>3. NodeOK(b)
    <3> HIDE DEF a
    <3> QED BY <1>2, <1>3, <1>6 DEF NodeOK
  <2>4. Around(r, n, a, b, u, Idle)
    BY <1>1, <1>2, <1>9, <2>2, <2>3, AroundOne
  <2> HIDE DEF a, n, u
  <2>5. Together(n, a, b, u, Idle)
    <3>1. Bit(Idle.node = n) = 0 /\ Bit(Idle.del = n) = 0 /\ Bit(u.node = n) = 1 /\ Bit(u.del = n) = 0
      BY <1>2, <1>9, <1>10 DEF Bit
    <3>2. b.count - b.lost - Bit(Idle.node = n) - Bit(Idle.del = n)
            = a.count - a.lost - Bit(u.node = n) - Bit(u.del = n)
      BY <1>3, <1>6, <3>1
    <3> QED BY <1>2, <1>4, <1>6, <1>9, <1>10, <3>2 DEF Together
  <2>6. Weight(b) = Weight(a)
    BY <1>6 DEF Weight
  <2> QED BY <1>2, <1>9, <2>2, <2>4, <2>5, <2>6, OneMoves
<1>13. CASE ~a.exists /\ a.count = 1
  <2>1. sh' = Gone(t, n)
    <3>1. ~b.exists /\ b.count = 0
      BY <1>3, <1>6, <1>13
    <3> QED BY <1>5, <1>7, <3>1
  <2>2. n \in Live(t)
    BY <1>2, <1>6, <1>7 DEF Live
  <2>3. /\ Sound(sh') /\ sh'.node[n] = NoNode /\ sh'.size = sh.size
        /\ \A k \in Ids : k # n => Same(sh'.node[k], sh.node[k])
    BY <1>2, <1>7, <1>8, <2>1, <2>2, ZoneGone
  <2>4. /\ ~NoNode.live /\ NoNode.count = 0 /\ ~NoNode.updating /\ NoNode.lost = 0 /\ ~NoNode.exists
        /\ ~NoNode.deleting /\ NoNode.size = 0 /\ NoNode.lost <= deaths /\ Weight(NoNode) = 0
    BY <1>3, NoNodeOK
  <2>5. NodeOK(NoNode)
    BY <2>4 DEF NodeOK
  <2>6. Around(r, n, a, NoNode, u, Idle)
    BY <1>1, <1>2, <1>9, <2>3, <2>5, AroundOne
  <2> HIDE DEF a, n, u
  <2>7. Together(n, a, NoNode, u, Idle)
    <3>1. Bit(Idle.node = n) = 0 /\ Bit(Idle.del = n) = 0 /\ Bit(u.node = n) = 1 /\ Bit(u.del = n) = 0
      BY <1>2, <1>9, <1>10 DEF Bit
    <3>2. a.lost = 0
      BY <1>3, <1>11, <1>13
    <3>3. NoNode.count - NoNode.lost - Bit(Idle.node = n) - Bit(Idle.del = n)
            = a.count - a.lost - Bit(u.node = n) - Bit(u.del = n)
      BY <1>13, <2>4, <3>1, <3>2
    <3> QED BY <1>2, <1>9, <1>10, <2>4, <3>3 DEF Together
  <2>8. Weight(a) = 0
    BY <1>3, <1>13 DEF NodeOK, Weight, Bit
  <2> QED BY <1>2, <1>9, <2>3, <2>4, <2>6, <2>7, <2>8, OneMoves
<1> QED BY <1>3, <1>12, <1>13


-----------------------------------------------------------------------------
(* Deletions                                                                 *)

(* A node that nobody counts is not being deleted.                           *)
LEMMA Deletable ==
    ASSUME FileCacheAssumption, FInv, NEW n \in Ids, sh.node[n].count = 0
    PROVE  ~sh.node[n].deleting /\ sh.node[n].lost = 0
<1>1. sh.node[n].lost = 0 /\ Deleters(n) = {}
  BY Nobody DEF FInv
<1> QED BY <1>1 DEF FInv, DeletedOnce

(* A deletion of a node nobody uses keeps the invariant.                     *)
LEMMA DeleteStarts ==
    ASSUME FileCacheAssumption, FInv, NEW p \in Procs, c[p].pc \notin Holding \cup Deleting,
           p # Manager => c[p].key \in Keys,
           NEW s, Sound(s), Alike(s, sh), NEW n \in Live(s), s.node[n].count = 0,
           DeleteFrom(s, p, n), disk' = disk, deaths' = deaths, raced' = raced
    PROVE  FInv'
<1> DEFINE a == sh.node[n]
           d == s.node[n]
           b == [d EXCEPT !.count = d.count + 1, !.deleting = TRUE]
           u == c[p]
           z == Capped(s.size - d.size)
<1>1. n \in Ids /\ n # 0 /\ d.live
  BY Facts DEF Live
<1>2. u \in ProcRecord /\ u.node = 0 /\ u.del = 0 /\ ~u.updating
  BY HoldsNothing
<1>3. /\ a \in NodeRecord /\ NodeOK(a) /\ sh.size \in Int /\ a.count \in Int /\ a.lost \in Nat
      /\ a.size \in 0..1 /\ raced \in BOOLEAN /\ a.exists \in BOOLEAN /\ deaths \in Nat
  BY <1>1, NodeAt
<1>4. Same(d, a) /\ s.size = sh.size /\ \A k \in Ids : Same(s.node[k], sh.node[k])
  BY <1>1 DEF Alike
<1>5. s \in ZoneRecord /\ d \in NodeRecord
  BY <1>1 DEF Sound, ZoneRecord
<1>6. a.live /\ a.count = 0 /\ d.count = 0 /\ d.exists = a.exists /\ d.size = a.size
  BY <1>1, <1>4 DEF Same
<1>7. ~a.deleting /\ a.lost = 0
  BY <1>1, <1>6, Deletable
<1>8. CASE a.exists
  <2> DEFINE v == [u EXCEPT !.pc = "unlink", !.del = n]
  <2>1. /\ sh' = [s EXCEPT !.size = z, !.node[n].count = d.count + 1, !.node[n].deleting = TRUE]
        /\ c' = [c EXCEPT ![p] = v]
    BY <1>6, <1>8 DEF DeleteFrom
  <2>2. z \in Int
    <3>1. s.size - d.size \in Int
      BY <1>3, <1>4, <1>6
    <3> QED BY <3>1, CappedInt
  <2>3. sh' = With(s, n, b, z)
    <3> HIDE DEF z
    <3> QED BY <1>1, <1>5, <2>1 DEF With, ZoneRecord
  <2>4. /\ b \in NodeRecord /\ b.live = d.live /\ b.key = d.key /\ b.count = d.count + 1
        /\ b.exists = d.exists /\ b.updating = d.updating /\ b.deleting = TRUE /\ b.size = d.size
        /\ b.lost = d.lost
    <3> HIDE DEF d
    <3>1. d.count + 1 \in Int /\ TRUE \in BOOLEAN
      BY <1>6
    <3> QED BY <1>5, <3>1 DEF NodeRecord
  <2> HIDE DEF b, z
  <2>5. /\ Sound(sh') /\ sh'.node[n] = b /\ sh'.size = z
        /\ \A k \in Ids : k # n => Same(sh'.node[k], sh.node[k])
    BY <1>1, <1>4, <2>2, <2>3, <2>4, ZoneWith
  <2>6. v \in ProcRecord /\ v.pc = "unlink" /\ v.del = n /\ v.node = 0 /\ ~v.updating /\ v.key = u.key
    <3> HIDE DEF u
    <3> QED BY <1>1, <1>2 DEF ProcRecord, Steps, Deleting
  <2> HIDE DEF v
  <2>7. PlacedAt(p, v)
    BY <1>1, <2>6 DEF PlacedAt, Holding, Deleting
  <2>8. /\ b.live /\ b.key = a.key /\ b.count = 1 /\ b.exists /\ b.updating = a.updating
        /\ b.deleting /\ b.size = a.size /\ b.lost = 0
    BY <1>1, <1>4, <1>6, <1>7, <1>8, <2>4 DEF Same
  <2>9. NodeOK(b)
    <3> HIDE DEF a, d
    <3> QED BY <1>3, <1>6, <2>8 DEF NodeOK
  <2>10. Around(p, n, a, b, u, v)
    BY <1>1, <2>1, <2>5, <2>6, <2>7, <2>9, AroundOne
  <2> HIDE DEF a, u, d
  <2>11. Together(n, a, b, u, v)
    <3>1. Bit(v.node = n) = 0 /\ Bit(v.del = n) = 1 /\ Bit(u.node = n) = 0 /\ Bit(u.del = n) = 0
      BY <1>1, <1>2, <2>6 DEF Bit
    <3>2. b.count - b.lost - Bit(v.node = n) - Bit(v.del = n)
            = a.count - a.lost - Bit(u.node = n) - Bit(u.del = n)
      BY <1>6, <1>7, <2>8, <3>1
    <3>3. ~Owner(u, n)
      BY <1>1, <1>2 DEF Owner
    <3> QED BY <1>1, <1>2, <1>6, <1>7, <2>6, <2>8, <3>2, <3>3 DEF Together
  <2>12. Weight(b) = 0 /\ Weight(a) = a.size
    BY <1>3, <1>6, <1>7, <2>8 DEF Weight, Bit
  <2>13. sh'.size = Capped(sh.size + Weight(b) - Weight(a))
    <3>1. sh.size + Weight(b) - Weight(a) = s.size - d.size
      BY <1>3, <1>4, <1>6, <2>12
    <3> QED BY <2>5, <3>1 DEF z
  <2> QED BY <1>1, <2>6, <2>10, <2>11, <2>13, OneMoves
<1>9. CASE ~a.exists
  <2> DEFINE pc == After(p)
             v == [u EXCEPT !.pc = pc]
  <2>1. sh' = Gone(s, n) /\ c' = [c EXCEPT ![p] = v]
    BY <1>6, <1>9 DEF DeleteFrom, Go
  <2>2. /\ Sound(sh') /\ sh'.node[n] = NoNode /\ sh'.size = sh.size
        /\ \A k \in Ids : k # n => Same(sh'.node[k], sh.node[k])
    BY <1>1, <1>4, <2>1, ZoneGone
  <2>3. /\ ~NoNode.live /\ NoNode.count = 0 /\ ~NoNode.updating /\ NoNode.lost = 0 /\ ~NoNode.exists
        /\ ~NoNode.deleting /\ NoNode.size = 0 /\ NoNode.lost <= deaths /\ Weight(NoNode) = 0
    BY <1>3, NoNodeOK
  <2>4. NodeOK(NoNode)
    BY <2>3 DEF NodeOK
  <2>5. pc \in Steps /\ pc \notin Holding \cup Deleting /\ (p = Manager => pc = "idle")
    BY DEF After, Steps, Holding, Deleting
  <2> HIDE DEF pc
  <2>6. v \in ProcRecord /\ v.pc = pc /\ v.del = 0 /\ v.node = 0 /\ ~v.updating /\ v.key = u.key
    <3> HIDE DEF u
    <3> QED BY <1>1, <1>2, <2>5 DEF ProcRecord
  <2> HIDE DEF v
  <2>7. PlacedAt(p, v)
    BY <1>1, <2>5, <2>6 DEF PlacedAt
  <2>8. Around(p, n, a, NoNode, u, v)
    BY <1>1, <2>1, <2>2, <2>4, <2>6, <2>7, AroundOne
  <2> HIDE DEF a, u, d
  <2>9. Together(n, a, NoNode, u, v)
    <3>1. Bit(v.node = n) = 0 /\ Bit(v.del = n) = 0 /\ Bit(u.node = n) = 0 /\ Bit(u.del = n) = 0
      BY <1>1, <1>2, <2>6 DEF Bit
    <3>2. NoNode.count - NoNode.lost - Bit(v.node = n) - Bit(v.del = n)
            = a.count - a.lost - Bit(u.node = n) - Bit(u.del = n)
      BY <1>6, <1>7, <2>3, <3>1
    <3> QED BY <1>1, <1>2, <2>3, <2>6, <3>2 DEF Together
  <2>10. Weight(a) = 0
    BY <1>3, <1>9 DEF NodeOK, Weight, Bit
  <2> QED BY <1>1, <2>2, <2>3, <2>6, <2>8, <2>9, <2>10, OneMoves
<1> QED BY <1>8, <1>9

(* A zone is like itself.                                                    *)
LEMMA AlikeItself ==
    Alike(sh, sh)
BY DEF Alike, Same

(* ngx_http_file_cache_forced_expire keeps the invariant.                    *)
LEMMA ForcedExpireStep ==
    ASSUME FileCacheAssumption, FInv, NEW p \in Procs, ForcedExpire(p)
    PROVE  FInv'
<1> DEFINE q == sh.queue
           I == {j \in 1..Len(q) : sh.node[q[j]].count = 0}
<1>1. PICK i : i = SelectLastInSeq(q, LAMBDA n : sh.node[n].count = 0)
  OBVIOUS
<1> DEFINE s == Rotated(sh, i)
<1>2. disk' = disk /\ deaths' = deaths /\ raced' = raced
      /\ IF i = 0 THEN sh' = s /\ Go(p, After(p)) ELSE DeleteFrom(s, p, q[i])
  BY <1>1 DEF ForcedExpire, Rotated
<1>3. /\ c[p].pc \in {"forced", "idle"} /\ c[p].pc \notin Holding \cup Deleting
      /\ p # Manager => c[p].pc = "forced"
  BY DEF ForcedExpire, Holding, Deleting
<1>4. p # Manager => c[p].key \in Keys
  BY <1>3 DEF FInv, Placed, PlacedAt
<1>5. i = IF I # {} THEN Max(I) ELSE 0
  BY <1>1 DEF SelectLastInSeq
<1>6. q \in Seq(Ids) /\ Len(q) \in Nat /\ ToSet(q) = Live(sh)
  BY ZoneSound DEF Sound, ZoneRecord
<1>7. I # {} => Max(I) \in I
  <2>1. I \subseteq 1..Len(q)
    OBVIOUS
  <2> HIDE DEF I, q
  <2> QED BY <1>6, <2>1, LastSelected
<1>8. i \in 0..Len(q) /\ (i # 0 => i \in I)
  <2>1. CASE I = {}
    BY <1>5, <1>6, <2>1
  <2>2. CASE I # {}
    <3>1. i \in I
      BY <1>5, <1>7, <2>2
    <3>2. i \in 1..Len(q)
      BY <3>1
    <3> QED BY <1>6, <3>1, <3>2
  <2> QED BY <2>1, <2>2
<1>9. Sound(s) /\ Alike(s, sh)
  BY <1>8, ZoneSound, RotatedZone
<1> HIDE DEF s
<1>10. CASE i = 0
  <2> DEFINE v == [c[p] EXCEPT !.pc = After(p)]
  <2>1. sh' = s /\ c' = [c EXCEPT ![p] = v]
    BY <1>2, <1>10 DEF Go
  <2>2. c[p] \in ProcRecord /\ c[p].node = 0 /\ c[p].del = 0 /\ ~c[p].updating
    BY <1>3, HoldsNothing
  <2>3. After(p) \in Steps /\ After(p) \notin Holding \cup Deleting /\ (p = Manager => After(p) = "idle")
    BY DEF After, Steps, Holding, Deleting
  <2>4. v \in ProcRecord /\ v.pc = After(p) /\ v.del = 0 /\ v.node = 0 /\ ~v.updating /\ v.key = c[p].key
    BY <2>2, <2>3 DEF ProcRecord
  <2> HIDE DEF v
  <2>5. PlacedAt(p, v)
    BY <1>4, <2>3, <2>4 DEF PlacedAt
  <2>6. disk' \in [Keys -> {"none", "fresh", "stale"}]
    BY <1>2 DEF FInv, Typed
  <2> QED BY <1>2, <1>9, <2>1, <2>2, <2>4, <2>5, <2>6, StepsOn
<1>11. CASE i # 0
  <2> DEFINE n == q[i]
  <2>1. i \in 1..Len(q) /\ sh.node[n].count = 0
    BY <1>8, <1>11
  <2>2. n \in ToSet(q) /\ n \in Ids
    BY <1>6, <2>1 DEF ToSet
  <2>3. n \in Live(s) /\ s.node[n].count = 0
    BY <1>6, <1>9, <2>1, <2>2 DEF Alike, Same, Live
  <2>4. DeleteFrom(s, p, n)
    BY <1>2, <1>11
  <2> HIDE DEF n, q
  <2> QED BY <1>2, <1>3, <1>4, <1>9, <2>3, <2>4, DeleteStarts
<1> QED BY <1>10, <1>11

(* The manager's expiry keeps the invariant.                                 *)
LEMMA ExpireStep ==
    ASSUME FileCacheAssumption, FInv, Expire
    PROVE  FInv'
<1> DEFINE q == sh.queue
           n == Last(q)
<1>1. /\ disk' = disk /\ deaths' = deaths /\ raced' = raced /\ q # <<>> /\ c[Manager].pc = "idle"
      /\ IF sh.node[n].count = 0 THEN DeleteFrom(sh, Manager, n) ELSE sh' = Touch(sh, n) /\ c' = c
  BY DEF Expire
<1>2. q \in Seq(Ids) /\ ToSet(q) = Live(sh)
  BY ZoneSound DEF Sound, ZoneRecord
<1>3. n \in Live(sh)
  <2>1. Len(q) \in 1..Len(q) /\ n = q[Len(q)]
    BY <1>1, <1>2 DEF Last
  <2>2. n \in ToSet(q)
    BY <1>2, <2>1 DEF ToSet
  <2> QED BY <1>2, <2>2
<1>4. disk' \in [Keys -> {"none", "fresh", "stale"}]
  BY <1>1 DEF FInv, Typed
<1> HIDE DEF n
<1>5. CASE sh.node[n].count = 0
  <2>1. Manager \in Procs /\ c[Manager].pc \notin Holding \cup Deleting
    BY <1>1, Facts DEF Holding, Deleting
  <2> QED BY <1>1, <1>3, <1>5, <2>1, ZoneSound, AlikeItself, DeleteStarts
<1>6. CASE sh.node[n].count # 0
  <2>1. Sound(sh') /\ Alike(sh', sh)
    BY <1>1, <1>3, <1>6, ZoneSound, Touched
  <2> QED BY <1>1, <1>4, <1>6, <2>1, NobodyMoves
<1> QED BY <1>5, <1>6

(* Until a request finds the node, its deleter is the last that holds it.    *)
LEMMA DeleterLast ==
    ASSUME FileCacheAssumption, FInv, NEW p \in Procs, NEW n \in Ids, c[p].del = n, ~raced
    PROVE  sh.node[n].count = 1
<1>1. n # 0 /\ sh.node[n].deleting
  BY Facts DEF FInv, HeldLive
<1>2. Deleters(n) = {p}
  BY <1>1 DEF FInv, DeletedOnce, Deleters
<1>3. Users(n) = {} /\ sh.node[n].lost = 0
  BY <1>1, <1>2 DEF FInv, DeletedAlone
<1>4. Cardinality(Deleters(n)) = 1 /\ Cardinality(Users(n)) = 0
  BY <1>2, <1>3, FS_Singleton, FS_EmptySet
<1>5. sh.node[n].count = Cardinality(Users(n)) + Cardinality(Deleters(n)) + sh.node[n].lost
  BY DEF FInv, Counted
<1> QED BY <1>3, <1>4, <1>5

(* Taking the mutex again after the unlink keeps the invariant.              *)
LEMMA RelockStep ==
    ASSUME FileCacheAssumption, FInv, NEW p \in Procs, Relock(p)
    PROVE  FInv'
<1> DEFINE n == c[p].del
           a == sh.node[n]
           b == [a EXCEPT !.count = a.count - 1, !.deleting = FALSE]
           u == c[p]
           t == With(sh, n, b, sh.size)
           pc == After(p)
           v == [u EXCEPT !.pc = pc, !.del = 0]
<1>1. c[p].pc = "relock" /\ disk' = disk /\ deaths' = deaths /\ raced' = raced /\ c' = [c EXCEPT ![p] = v]
  BY DEF Relock
<1>2. /\ u \in ProcRecord /\ u.del # 0 /\ u.node = 0 /\ ~u.updating /\ (p # Manager => u.key \in Keys)
  BY <1>1 DEF FInv, Typed, Placed, PlacedAt, Holding, Deleting
<1>3. n \in Ids /\ a.deleting
  BY <1>2 DEF ProcRecord, FInv, HeldLive
<1>4. /\ a \in NodeRecord /\ NodeOK(a) /\ sh.size \in Int /\ a.count \in Int /\ a.lost \in Nat
      /\ a.size \in 0..1 /\ raced \in BOOLEAN /\ a.exists \in BOOLEAN /\ deaths \in Nat
  BY <1>3, NodeAt
<1>5. a.live /\ a.exists
  BY <1>3, <1>4 DEF NodeOK
<1>6. sh' = IF t.node[n].count = 0 THEN Gone(t, n) ELSE t
  <2> DEFINE y == [sh EXCEPT !.node[n].count = @ - 1, !.node[n].deleting = FALSE]
  <2>1. sh' = IF y.node[n].count = 0 THEN Gone(y, n) ELSE y
    BY DEF Relock
  <2>2. y = t
    BY <1>3, <1>4, ZoneSound DEF Sound, With, ZoneRecord, NodeRecord
  <2> HIDE DEF y, t
  <2> QED BY <2>1, <2>2
<1>7. /\ b \in NodeRecord /\ b.live = a.live /\ b.key = a.key /\ b.count = a.count - 1
      /\ b.exists = a.exists /\ b.updating = a.updating /\ b.deleting = FALSE /\ b.size = a.size
      /\ b.lost = a.lost
  <2> HIDE DEF a
  <2>1. a.count - 1 \in Int /\ FALSE \in BOOLEAN
    BY <1>4
  <2> QED BY <1>4, <2>1 DEF NodeRecord
<1> HIDE DEF b
<1>8. /\ Sound(t) /\ t.node[n] = b /\ t.size = sh.size
      /\ \A k \in Ids : k # n => t.node[k] = sh.node[k]
  <2> DEFINE z == sh.size
             y == With(sh, n, b, z)
  <2>1. z \in Int /\ n \in Ids /\ b \in NodeRecord /\ b.live = sh.node[n].live /\ Sound(sh)
    BY <1>3, <1>4, <1>7, ZoneSound
  <2> HIDE DEF z, n
  <2>2. /\ Sound(y) /\ y.node[n] = b /\ y.size = z
        /\ \A k \in Ids : k # n => y.node[k] = sh.node[k]
    BY <2>1, NodeChanged
  <2> QED BY <2>2 DEF z
<1> HIDE DEF t
<1>9. \A k \in Ids : k # n => Same(t.node[k], sh.node[k])
  BY <1>8 DEF Same
<1>10. pc \in Steps /\ pc \notin Holding \cup Deleting /\ (p = Manager => pc = "idle")
  BY DEF After, Steps, Holding, Deleting
<1> HIDE DEF pc
<1>11. v \in ProcRecord /\ v.pc = pc /\ v.del = 0 /\ v.node = 0 /\ ~v.updating /\ v.key = u.key
  <2> HIDE DEF u
  <2> QED BY <1>2, <1>10 DEF ProcRecord
<1> HIDE DEF v
<1>12. PlacedAt(p, v)
  BY <1>2, <1>10, <1>11 DEF PlacedAt
<1>13. a.count >= 1 + a.lost
  BY <1>3, HolderCounted
<1>14. ~raced => a.count = 1
  BY <1>3, DeleterLast
<1>15. u.del = n
  OBVIOUS
<1>16. CASE a.count # 1
  <2>1. sh' = t
    BY <1>4, <1>6, <1>7, <1>8, <1>16
  <2>2. /\ Sound(sh') /\ sh'.node[n] = b /\ \A k \in Ids : k # n => Same(sh'.node[k], sh.node[k])
    BY <1>8, <1>9, <2>1
  <2>3. NodeOK(b)
    <3> HIDE DEF a
    <3> QED BY <1>4, <1>5, <1>7 DEF NodeOK
  <2>4. Around(p, n, a, b, u, v)
    BY <1>1, <1>3, <1>11, <1>12, <2>2, <2>3, AroundOne
  <2> HIDE DEF a, n, u
  <2>5. Together(n, a, b, u, v)
    <3>1. Bit(v.node = n) = 0 /\ Bit(v.del = n) = 0 /\ Bit(u.node = n) = 0 /\ Bit(u.del = n) = 1
      BY <1>2, <1>11, <1>15 DEF Bit
    <3>2. b.count - b.lost - Bit(v.node = n) - Bit(v.del = n)
            = a.count - a.lost - Bit(u.node = n) - Bit(u.del = n)
      BY <1>4, <1>7, <3>1
    <3>3. ~Owner(u, n)
      BY <1>2, <1>15 DEF Owner
    <3> QED BY <1>2, <1>7, <1>11, <1>15, <3>2, <3>3 DEF Together
  <2> QED BY <1>1, <1>3, <1>7, <1>14, <1>16, <2>4, <2>5, OneMoves
<1>17. CASE a.count = 1
  <2>1. sh' = Gone(t, n)
    BY <1>6, <1>7, <1>8, <1>17
  <2>2. n \in Live(t)
    BY <1>3, <1>5, <1>7, <1>8 DEF Live
  <2>3. /\ Sound(sh') /\ sh'.node[n] = NoNode /\ sh'.size = sh.size
        /\ \A k \in Ids : k # n => Same(sh'.node[k], sh.node[k])
    BY <1>8, <1>9, <2>1, <2>2, ZoneGone
  <2>4. /\ ~NoNode.live /\ NoNode.count = 0 /\ ~NoNode.updating /\ NoNode.lost = 0 /\ ~NoNode.exists
        /\ ~NoNode.deleting /\ NoNode.size = 0 /\ NoNode.lost <= deaths /\ Weight(NoNode) = 0
    BY <1>4, NoNodeOK
  <2>5. NodeOK(NoNode)
    BY <2>4 DEF NodeOK
  <2>6. Around(p, n, a, NoNode, u, v)
    BY <1>1, <1>3, <1>11, <1>12, <2>3, <2>5, AroundOne
  <2>7. Weight(a) = 0
    BY <1>3 DEF Weight, Bit
  <2> HIDE DEF a, n, u
  <2>8. Together(n, a, NoNode, u, v)
    <3>1. Bit(v.node = n) = 0 /\ Bit(v.del = n) = 0 /\ Bit(u.node = n) = 0 /\ Bit(u.del = n) = 1
      BY <1>2, <1>11, <1>15 DEF Bit
    <3>2. a.lost = 0
      BY <1>4, <1>13, <1>17
    <3>3. NoNode.count - NoNode.lost - Bit(v.node = n) - Bit(v.del = n)
            = a.count - a.lost - Bit(u.node = n) - Bit(u.del = n)
      BY <1>17, <2>4, <3>1, <3>2
    <3> QED BY <1>2, <1>11, <1>15, <2>4, <3>3 DEF Together
  <2> QED BY <1>3, <2>3, <2>4, <2>6, <2>7, <2>8, OneMoves
<1> QED BY <1>16, <1>17


-----------------------------------------------------------------------------
(* The loader adds a node, and a process dies                                *)

(* A node the loader adds keeps the invariant.                               *)
LEMMA LoadNewStep ==
    ASSUME FileCacheAssumption, FInv, NEW k \in Keys, Live(sh) # Ids, sh' = New(sh, k, 0, 1),
           c' = c, disk' = disk, deaths' = deaths, raced' = raced
    PROVE  FInv'
<1> DEFINE n == Taken(sh)
           a == sh.node[n]
           b == Fresh(k, 0, 1)
<1>1. n \in Ids /\ n \notin Live(sh) /\ n # 0
  BY TakenNode, Facts
<1> HIDE DEF n
<1>2. /\ Sound(sh') /\ sh'.size = Capped(sh.size + 1) /\ sh'.node[n] = b
      /\ \A j \in Ids : j # n => sh'.node[j] = sh.node[j]
  <2> DEFINE y == New(sh, k, 0, 1)
  <2>1. /\ Sound(y) /\ y.size = Capped(sh.size + 1) /\ y.node[n] = b
        /\ \A j \in Ids : j # n => y.node[j] = sh.node[j]
    BY ZoneSound, CameNew DEF n
  <2>2. sh' = y
    OBVIOUS
  <2> HIDE DEF y, b
  <2> QED BY <2>1, <2>2
<1>3. /\ b.live /\ b.key = k /\ b.count = 0 /\ b.size = 1 /\ b.lost = 0
      /\ b.exists /\ ~b.updating /\ ~b.deleting
  <2>1. /\ b.live /\ b.key = k /\ b.count = 0 /\ b.size = 1 /\ b.lost = 0
        /\ b.exists = (1 = 1) /\ ~b.updating /\ ~b.deleting
    BY FreshTyped
  <2> HIDE DEF b
  <2> QED BY <2>1
<1> HIDE DEF b
<1>4. /\ ~a.live /\ a.count = 0 /\ a.lost = 0 /\ ~a.updating /\ ~a.deleting /\ a.size # 1
      /\ sh.size \in Int /\ deaths \in Nat
  BY <1>1, NodeAt DEF Live, NodeOK
<1>5. Users(n) = {} /\ Deleters(n) = {} /\ \A q \in Procs : c[q].node # n /\ c[q].del # n
  BY <1>1, <1>4, Nobody DEF FInv
<1>6. \A j \in Ids : Users(j)' = Users(j) /\ Deleters(j)' = Deleters(j)
  BY DEF Users, Deleters
<1>7. Typed'
  BY <1>2 DEF FInv, Typed, Sound
<1>8. Placed'
  BY DEF FInv, Placed, PlacedAt
<1>9. NodesOK'
  <2>1. ASSUME NEW j \in Ids PROVE NodeOK(sh.node[j])'
    <3>1. CASE j = n
      <4>1. sh'.node[j] = b
        BY <1>2, <3>1
      <4> QED BY <1>3, <1>4, <4>1 DEF NodeOK
    <3>2. CASE j # n
      <4>1. sh'.node[j] = sh.node[j] /\ NodeOK(sh.node[j])
        BY <1>2, <3>2 DEF FInv, NodesOK
      <4> QED BY <4>1 DEF NodeOK
    <3> QED BY <3>1, <3>2
  <2> QED BY <2>1 DEF NodesOK
<1>10. Counted'
  <2>1. ASSUME NEW j \in Ids
        PROVE  sh'.node[j].count = Cardinality(Users(j)') + Cardinality(Deleters(j)') + sh'.node[j].lost
    <3>1. sh.node[j].count = Cardinality(Users(j)) + Cardinality(Deleters(j)) + sh.node[j].lost
      BY DEF FInv, Counted
    <3>2. sh'.node[j].count = sh.node[j].count /\ sh'.node[j].lost = sh.node[j].lost
      BY <1>2, <1>3, <1>4
    <3> QED BY <1>6, <3>1, <3>2
  <2> QED BY <2>1 DEF Counted
<1>11. HeldLive'
  <2>1. ASSUME NEW q \in Procs
        PROVE  /\ c[q].node # 0 => /\ sh'.node[c[q].node].live /\ sh'.node[c[q].node].key = c[q].key
               /\ c[q].del # 0 => sh'.node[c[q].del].deleting
    <3>1. c[q].node \in Ids \cup {0} /\ c[q].del \in Ids \cup {0}
      BY DEF FInv, Typed, ProcRecord
    <3>2. /\ c[q].node # 0 => sh'.node[c[q].node] = sh.node[c[q].node]
          /\ c[q].del # 0 => sh'.node[c[q].del] = sh.node[c[q].del]
      BY <1>2, <1>5, <3>1
    <3> QED BY <3>2 DEF FInv, HeldLive
  <2> QED BY <2>1 DEF HeldLive
<1>12. DeletedOnce'
  <2>1. ASSUME NEW j \in Ids, sh'.node[j].deleting PROVE Deleters(j)' # {} \/ sh'.node[j].lost > 0
    <3>1. j # n /\ sh'.node[j] = sh.node[j]
      BY <1>2, <1>3, <2>1
    <3> QED BY <1>6, <2>1, <3>1 DEF FInv, DeletedOnce
  <2>2. \A p, q \in Procs : c'[p].del # 0 /\ c'[p].del = c'[q].del => p = q
    BY DEF FInv, DeletedOnce
  <2> QED BY <2>1, <2>2 DEF DeletedOnce
<1>13. DeletedAlone'
  <2>1. ASSUME ~raced', NEW j \in Ids, sh'.node[j].deleting
        PROVE  Users(j)' = {} /\ (Deleters(j)' # {} => sh'.node[j].lost = 0)
    <3>1. j # n /\ sh'.node[j] = sh.node[j]
      BY <1>2, <1>3, <2>1
    <3> QED BY <1>6, <2>1, <3>1 DEF FInv, DeletedAlone
  <2> QED BY <2>1 DEF DeletedAlone
<1>14. UpdatingOwned'
  <2>1. ASSUME deaths' = 0, NEW j \in Ids, sh'.node[j].live, sh'.node[j].updating
        PROVE  \E r \in Requests : c'[r].node = j /\ c'[r].updating /\ c'[r].mine
    <3>1. j # n /\ sh'.node[j] = sh.node[j]
      BY <1>2, <1>3, <2>1
    <3> QED BY <2>1, <3>1 DEF FInv, UpdatingOwned, Live
  <2> QED BY <2>1 DEF UpdatingOwned, Live
<1>15. SizeExact'
  <2>1. Weight(sh'.node[n]) = 1 /\ Weight(sh.node[n]) = 0
    BY <1>2, <1>3, <1>4 DEF Weight, Bit
  <2>2. sh.size + Weight(sh'.node[n]) - Weight(sh.node[n]) = sh.size + 1
    BY <1>4, <2>1
  <2>3. Sized(n)
    BY <1>2, <2>2 DEF Sized
  <2>4. \A j \in Ids : j # n => Same(sh'.node[j], sh.node[j])
    BY <1>2 DEF Same
  <2> QED BY <1>1, <1>7, <2>3, <2>4, SizeMoves
<1>16. Queued'
  BY <1>2 DEF Queued, Sound
<1> QED BY <1>7, <1>8, <1>9, <1>10, <1>11, <1>12, <1>13, <1>14, <1>15, <1>16 DEF FInv

(* ngx_http_file_cache_add keeps the invariant.                              *)
LEMMA LoadAddStep ==
    ASSUME FileCacheAssumption, FInv, NEW k \in Keys, LoadAdd(k)
    PROVE  FInv'
<1>1. c' = c /\ deaths' = deaths /\ raced' = raced /\ disk \in [Keys -> {"none", "fresh", "stale"}]
  BY DEF LoadAdd, FInv, Typed
<1>2. ASSUME NEW n \in Found(sh, k), sh' = Touch(sh, n), disk' = disk PROVE FInv'
  <2>1. n \in Live(sh)
    BY DEF Found
  <2>2. Sound(sh') /\ Alike(sh', sh)
    BY <1>2, <2>1, ZoneSound, Touched
  <2> QED BY <1>1, <1>2, <2>2, NobodyMoves
<1>3. CASE Live(sh) # Ids /\ sh' = New(sh, k, 0, 1) /\ disk' = disk
  BY <1>1, <1>3, LoadNewStep
<1>4. CASE sh' = Full(sh) /\ disk' = [disk EXCEPT ![k] = "none"]
  <2>1. disk' \in [Keys -> {"none", "fresh", "stale"}]
    BY <1>1, <1>4
  <2>2. Sound(sh') /\ Alike(sh', sh)
    BY <1>4, ZoneSound, WasFull
  <2> QED BY <1>1, <2>1, <2>2, NobodyMoves
<1> QED BY <1>2, <1>3, <1>4 DEF LoadAdd

(* A process dies: what it held is lost, and stays counted.                  *)
LEMMA DieStep ==
    ASSUME FileCacheAssumption, FInv, NEW p \in Procs, Die(p)
    PROVE  FInv'
<1> DEFINE u == c[p]
           x(n) == (IF n = u.node THEN 1 ELSE 0) + (IF n = u.del THEN 1 ELSE 0)
           d == [n \in Ids |-> [sh.node[n] EXCEPT !.lost = @ + (IF n = u.node THEN 1 ELSE 0)
                                                            + (IF n = u.del THEN 1 ELSE 0)]]
<1>1. /\ deaths < MaxDeaths /\ deaths' = deaths + 1 /\ disk' = disk /\ raced' = raced
      /\ sh' = [sh EXCEPT !.node = d] /\ c' = [c EXCEPT ![p] = Idle]
  BY DEF Die
<1>2. u.node = 0 \/ u.del = 0
  BY DEF FInv, Placed, PlacedAt, Holding, Deleting
<1>3. 0 \notin Ids /\ Requests \subseteq Procs /\ IsFiniteSet(Requests) /\ IsFiniteSet(Procs)
      /\ MaxDeaths \in Nat
  BY Facts
<1>4. \A n \in Ids : x(n) = Bit(u.node = n) + Bit(u.del = n) /\ x(n) \in 0..1
  BY <1>2, <1>3 DEF Bit
<1>5. Sound(sh) /\ sh \in ZoneRecord /\ sh.node \in [Ids -> NodeRecord] /\ c \in [Procs -> ProcRecord]
      /\ deaths \in 0..MaxDeaths /\ disk \in [Keys -> {"none", "fresh", "stale"}] /\ raced \in BOOLEAN
  BY ZoneSound DEF FInv, Typed, ZoneRecord
<1>6. ASSUME NEW n \in Ids
      PROVE  /\ d[n] \in NodeRecord /\ d[n].lost = sh.node[n].lost + x(n)
             /\ d[n].live = sh.node[n].live /\ d[n].key = sh.node[n].key
             /\ d[n].count = sh.node[n].count /\ d[n].exists = sh.node[n].exists
             /\ d[n].updating = sh.node[n].updating /\ d[n].deleting = sh.node[n].deleting
             /\ d[n].size = sh.node[n].size
  <2> DEFINE m == sh.node[n]
             y == x(n)
  <2>1. m \in NodeRecord /\ y \in 0..1 /\ m.lost \in Nat
    BY <1>4, <1>5 DEF NodeRecord
  <2>2. d[n] = [m EXCEPT !.lost = m.lost + y]
    <3>1. d[n] = [m EXCEPT !.lost = m.lost + (IF n = u.node THEN 1 ELSE 0) + (IF n = u.del THEN 1 ELSE 0)]
      OBVIOUS
    <3>2. m.lost + (IF n = u.node THEN 1 ELSE 0) + (IF n = u.del THEN 1 ELSE 0) = m.lost + y
      <4> HIDE DEF m, u
      <4> QED BY <2>1
    <3> HIDE DEF d, m, y, u
    <3> QED BY <3>1, <3>2
  <2> HIDE DEF m, y, d, x
  <2>3. m.lost + y \in Nat
    BY <2>1
  <2>4. /\ d[n] \in NodeRecord /\ d[n].lost = m.lost + y
        /\ d[n].live = m.live /\ d[n].key = m.key /\ d[n].count = m.count /\ d[n].exists = m.exists
        /\ d[n].updating = m.updating /\ d[n].deleting = m.deleting /\ d[n].size = m.size
    BY <2>1, <2>2, <2>3 DEF NodeRecord
  <2> QED BY <2>4 DEF m, y
<1>7. d \in [Ids -> NodeRecord]
  <2>1. d = [n \in Ids |-> d[n]]
    OBVIOUS
  <2> HIDE DEF d
  <2> QED BY <1>6, <2>1
<1> HIDE DEF d, x
<1>8. sh' \in ZoneRecord /\ sh'.node = d /\ sh'.queue = sh.queue /\ sh'.size = sh.size
  BY <1>1, <1>5, <1>7 DEF ZoneRecord
<1>9. Live(sh') = Live(sh)
  BY <1>6, <1>8 DEF Live
<1>10. Sound(sh')
  BY <1>5, <1>8, <1>9 DEF Sound
<1>11. /\ Idle \in ProcRecord /\ Idle.node = 0 /\ Idle.del = 0 /\ PlacedAt(p, Idle)
  BY IdleTyped
<1>12. /\ c' \in [Procs -> ProcRecord] /\ c'[p] = Idle /\ \A q \in Procs : q # p => c'[q] = c[q]
  BY <1>1, <1>5, <1>11
<1>13. Typed'
  BY <1>1, <1>3, <1>5, <1>8, <1>12 DEF Typed
<1>14. Placed'
  <2>1. ASSUME NEW q \in Procs PROVE PlacedAt(q, c'[q])
    <3>1. CASE q = p
      BY <1>11, <1>12, <3>1
    <3>2. CASE q # p
      BY <1>12, <3>2 DEF FInv, Placed
    <3> QED BY <3>1, <3>2
  <2> QED BY <2>1 DEF Placed, PlacedAt
<1>15. \A n \in Ids : x(n) # 0 => sh.node[n].live
  <2> SUFFICES ASSUME NEW n \in Ids, x(n) # 0 PROVE sh.node[n].live
    OBVIOUS
  <2>1. n # 0 /\ (u.node = n \/ u.del = n)
    BY <1>3, <1>4 DEF Bit
  <2>2. CASE u.node = n
    BY <2>1, <2>2 DEF FInv, HeldLive
  <2>3. CASE u.del = n
    BY <2>1, <2>3 DEF FInv, HeldLive, NodesOK, NodeOK
  <2> QED BY <2>1, <2>2, <2>3
<1>16. NodesOK'
  <2>1. ASSUME NEW n \in Ids PROVE NodeOK(sh.node[n])'
    <3> DEFINE m == sh.node[n]
               w == sh'.node[n]
    <3>1. NodeOK(m) /\ m.lost \in Nat
      BY NodeAt
    <3>2. /\ w.lost = m.lost + x(n) /\ w.live = m.live /\ w.key = m.key /\ w.count = m.count
          /\ w.exists = m.exists /\ w.updating = m.updating /\ w.deleting = m.deleting /\ w.size = m.size
      BY <1>6, <1>8
    <3>3. x(n) \in 0..1 /\ (x(n) # 0 => m.live) /\ deaths \in Nat
      BY <1>3, <1>4, <1>5, <1>15
    <3> HIDE DEF m, w
    <3>4. w.lost <= deaths + 1
      BY <3>1, <3>2, <3>3 DEF NodeOK
    <3>5. /\ w.live => w.key \in Keys
          /\ ~w.live => w.count = 0 /\ ~w.updating /\ ~w.exists
          /\ w.size = 1 \/ w.deleting => w.exists
      BY <3>1, <3>2 DEF NodeOK
    <3>6. ~w.live => w.lost = 0
      BY <3>1, <3>2, <3>3 DEF NodeOK
    <3>7. w.lost <= deaths'
      BY <1>1, <3>4
    <3> QED BY <3>5, <3>6, <3>7 DEF NodeOK, w
  <2> QED BY <2>1 DEF NodesOK
<1>17. Counted' /\ \A n \in Ids : Users(n)' = Users(n) \ {p} /\ Deleters(n)' = Deleters(n) \ {p}
  <2>1. ASSUME NEW n \in Ids
        PROVE  /\ sh'.node[n].count = Cardinality(Users(n)') + Cardinality(Deleters(n)') + sh'.node[n].lost
               /\ Users(n)' = Users(n) \ {p} /\ Deleters(n)' = Deleters(n) \ {p}
    <3>1. Users(n)' = Users(n) \ {p}
      BY <1>3, <1>11, <1>12 DEF Users
    <3>2. Deleters(n)' = Deleters(n) \ {p}
      BY <1>3, <1>11, <1>12 DEF Deleters
    <3>3. Users(n) \in SUBSET Requests /\ Deleters(n) \in SUBSET Procs
          /\ Users(n)' \in SUBSET Requests /\ Deleters(n)' \in SUBSET Procs
      BY <3>1, <3>2 DEF Users, Deleters
    <3>4. (p \in Users(n) <=> u.node = n) /\ (p \in Deleters(n) <=> u.del = n)
      <4>1. u.node = n => p \in Requests
        BY <1>3, Facts DEF FInv, Placed, PlacedAt, Holding, Deleting
      <4> QED BY <4>1 DEF Users, Deleters
    <3>5. \A q \in Requests : q # p => (q \in Users(n) <=> q \in Users(n)')
      BY <3>1
    <3>6. \A q \in Procs : q # p => (q \in Deleters(n) <=> q \in Deleters(n)')
      BY <3>2
    <3>7. /\ Cardinality(Users(n)) \in Nat /\ Cardinality(Users(n)') \in Nat
          /\ Cardinality(Users(n)') = Cardinality(Users(n)) + Bit(p \in Users(n)') - Bit(p \in Users(n))
      <4>1. IsFiniteSet(Requests)
        BY <1>3
      <4> QED BY <3>3, <3>5, <4>1, OneMember
    <3>8. /\ Cardinality(Deleters(n)) \in Nat /\ Cardinality(Deleters(n)') \in Nat
          /\ Cardinality(Deleters(n)') = Cardinality(Deleters(n)) + Bit(p \in Deleters(n)')
                                         - Bit(p \in Deleters(n))
      BY <1>3, <3>3, <3>6, OneMember
    <3>9. /\ Bit(p \in Users(n)') = 0 /\ Bit(p \in Deleters(n)') = 0
          /\ Bit(p \in Users(n)) = Bit(u.node = n) /\ Bit(p \in Deleters(n)) = Bit(u.del = n)
      BY <3>1, <3>2, <3>4 DEF Bit
    <3>10. sh.node[n].count = Cardinality(Users(n)) + Cardinality(Deleters(n)) + sh.node[n].lost
      BY DEF FInv, Counted
    <3>11. sh'.node[n].count = sh.node[n].count /\ sh'.node[n].lost = sh.node[n].lost + x(n)
      BY <1>6, <1>8
    <3>12. /\ sh.node[n].lost \in Nat /\ x(n) = Bit(u.node = n) + Bit(u.del = n)
           /\ Bit(u.node = n) \in Int /\ Bit(u.del = n) \in Int
      BY <1>4, NodeAt DEF Bit
    <3>13. sh'.node[n].count = Cardinality(Users(n)') + Cardinality(Deleters(n)') + sh'.node[n].lost
      <4> DEFINE e == Bit(u.node = n)
                 f == Bit(u.del = n)
      <4>1. Cardinality(Users(n)') = Cardinality(Users(n)) - e
        BY <3>7, <3>9, <3>12
      <4>2. Cardinality(Deleters(n)') = Cardinality(Deleters(n)) - f
        BY <3>8, <3>9, <3>12
      <4>3. sh'.node[n].lost = sh.node[n].lost + e + f /\ e \in Int /\ f \in Int
        BY <3>11, <3>12
      <4> HIDE DEF e, f
      <4> QED BY <3>7, <3>8, <3>10, <3>11, <3>12, <4>1, <4>2, <4>3
    <3> QED BY <3>1, <3>2, <3>13
  <2> QED BY <2>1 DEF Counted
<1>18. HeldLive'
  <2>1. ASSUME NEW q \in Procs
        PROVE  /\ c'[q].node # 0 => /\ sh'.node[c'[q].node].live /\ sh'.node[c'[q].node].key = c'[q].key
               /\ c'[q].del # 0 => sh'.node[c'[q].del].deleting
    <3>1. CASE q = p
      BY <1>11, <1>12, <3>1
    <3>2. CASE q # p
      <4>1. c'[q] = c[q] /\ c[q].node \in Ids \cup {0} /\ c[q].del \in Ids \cup {0}
        BY <1>12, <3>2 DEF FInv, Typed, ProcRecord
      <4>2. \A n \in Ids : /\ sh'.node[n].live = sh.node[n].live /\ sh'.node[n].key = sh.node[n].key
                           /\ sh'.node[n].deleting = sh.node[n].deleting
        BY <1>6, <1>8
      <4> QED BY <4>1, <4>2 DEF FInv, HeldLive
    <3> QED BY <3>1, <3>2
  <2> QED BY <2>1 DEF HeldLive
<1>19. DeletedOnce'
  <2>1. ASSUME NEW n \in Ids, sh'.node[n].deleting PROVE Deleters(n)' # {} \/ sh'.node[n].lost > 0
    <3>1. /\ sh'.node[n].deleting = sh.node[n].deleting /\ sh'.node[n].lost = sh.node[n].lost + x(n)
          /\ sh.node[n].lost \in Nat /\ x(n) \in 0..1
      BY <1>4, <1>6, <1>8, NodeAt
    <3>2. Deleters(n) # {} \/ sh.node[n].lost > 0
      BY <2>1, <3>1 DEF FInv, DeletedOnce
    <3>3. CASE u.del = n
      <4>1. x(n) = 1
        BY <1>4, <3>3 DEF Bit
      <4> QED BY <3>1, <4>1
    <3>4. CASE u.del # n
      <4>1. p \notin Deleters(n)
        BY <3>4 DEF Deleters
      <4>2. Deleters(n)' = Deleters(n)
        BY <1>17, <4>1
      <4> QED BY <3>1, <3>2, <4>2
    <3> QED BY <3>3, <3>4
  <2>2. ASSUME NEW q \in Procs, NEW s \in Procs, c'[q].del # 0, c'[q].del = c'[s].del PROVE q = s
    BY <1>11, <1>12, <2>2 DEF FInv, DeletedOnce
  <2> QED BY <2>1, <2>2 DEF DeletedOnce
<1>20. DeletedAlone'
  <2>1. ASSUME ~raced', NEW n \in Ids, sh'.node[n].deleting
        PROVE  Users(n)' = {} /\ (Deleters(n)' # {} => sh'.node[n].lost = 0)
    <3>1. /\ sh'.node[n].deleting = sh.node[n].deleting /\ sh'.node[n].lost = sh.node[n].lost + x(n)
          /\ sh.node[n].lost \in Nat
      BY <1>6, <1>8, NodeAt
    <3>2. Users(n) = {} /\ (Deleters(n) # {} => sh.node[n].lost = 0)
      BY <1>1, <2>1, <3>1 DEF FInv, DeletedAlone
    <3>3. Users(n)' = {}
      BY <1>17, <3>2
    <3>4. ASSUME Deleters(n)' # {} PROVE sh'.node[n].lost = 0
      <4>1. PICK q \in Procs : q # p /\ c[q].del = n
        BY <1>17, <3>4 DEF Deleters
      <4>2. u.del # n
        BY <1>3, <4>1 DEF FInv, DeletedOnce
      <4>3. u.node # n
        <5>1. u.node = n => p \in Requests
          BY <1>3, Facts DEF FInv, Placed, PlacedAt, Holding, Deleting
        <5> QED BY <3>2, <5>1 DEF Users
      <4>4. x(n) = 0
        BY <1>4, <4>2, <4>3 DEF Bit
      <4>5. sh.node[n].lost = 0
        BY <3>2, <4>1 DEF Deleters
      <4> QED BY <3>1, <4>4, <4>5
    <3> QED BY <3>3, <3>4
  <2> QED BY <2>1 DEF DeletedAlone
<1>21. UpdatingOwned'
  <2>1. deaths' # 0
    BY <1>1, <1>3, <1>5
  <2> QED BY <2>1 DEF UpdatingOwned
<1>22. SizeExact'
  <2>1. Weighty' = Weighty
    BY <1>6, <1>8, <1>9 DEF Weighty, Live
  <2>2. ASSUME ~raced' PROVE sh'.size = Cardinality(Weighty')
    BY <1>1, <1>8, <2>1, <2>2 DEF FInv, SizeExact, Weighty
  <2> QED BY <2>2 DEF SizeExact, Weighty
<1>23. Queued'
  BY <1>10 DEF Queued, Sound
<1> QED BY <1>13, <1>14, <1>16, <1>17, <1>18, <1>19, <1>20, <1>21, <1>22, <1>23 DEF FInv


-----------------------------------------------------------------------------
(* The invariant, and what follows from it                                   *)

(* The empty zone satisfies the invariant.                                   *)
LEMMA InitStep ==
    ASSUME FileCacheAssumption, Init
    PROVE  FInv
<1>1. /\ sh = [node |-> [n \in Ids |-> NoNode], queue |-> <<>>, size |-> 0,
               cold |-> TRUE, watermark |-> MaxNodes + 1]
      /\ c = [p \in Procs |-> Idle] /\ disk \in Files /\ deaths = 0 /\ raced = FALSE
  BY DEF Init
<1>2. /\ \A n \in Ids : sh.node[n] = NoNode
      /\ sh.queue = <<>> /\ sh.size = 0
  BY <1>1
<1>3. /\ ~NoNode.live /\ NoNode.count = 0 /\ ~NoNode.updating /\ NoNode.lost = 0 /\ ~NoNode.exists
      /\ ~NoNode.deleting /\ NoNode.size = 0
  BY NoNodeOK
<1>4. /\ Idle \in ProcRecord /\ Idle.node = 0 /\ Idle.del = 0 /\ \A p \in Procs : PlacedAt(p, Idle)
  BY IdleTyped
<1>5. MaxNodes \in Nat /\ MaxDeaths \in Nat /\ Files \subseteq [Keys -> {"none", "fresh", "stale"}]
      /\ 0 \notin Ids /\ Requests \subseteq Procs
  BY Facts DEF FileCacheAssumption
<1>6. Typed
  <2>1. [n \in Ids |-> NoNode] \in [Ids -> NodeRecord]
    BY NoNodeTyped
  <2>2. <<>> \in Seq(Ids) /\ MaxNodes + 1 \in Int
    BY <1>5
  <2>3. sh \in ZoneRecord
    BY <1>1, <2>1, <2>2 DEF ZoneRecord
  <2>4. c \in [Procs -> ProcRecord]
    BY <1>1, <1>4
  <2>5. deaths \in 0..MaxDeaths /\ raced \in BOOLEAN /\ disk \in [Keys -> {"none", "fresh", "stale"}]
    <3>1. deaths \in 0..MaxDeaths
      BY <1>5 DEF Init
    <3>2. raced \in BOOLEAN /\ disk \in [Keys -> {"none", "fresh", "stale"}]
      BY <1>5, Zenon DEF Init
    <3> QED BY <3>1, <3>2
  <2> QED BY <2>3, <2>4, <2>5 DEF Typed
<1>7. Placed
  BY <1>1, <1>4 DEF Placed
<1>8. NodesOK
  BY <1>1, <1>2, <1>3 DEF NodesOK, NodeOK
<1>9. \A p \in Procs : c[p].node = 0 /\ c[p].del = 0
  BY <1>1, <1>4
<1>10. \A n \in Ids : Users(n) = {} /\ Deleters(n) = {}
  BY <1>5, <1>9 DEF Users, Deleters
<1>11. Counted
  <2>1. Cardinality({}) = 0
    BY FS_EmptySet
  <2>2. ASSUME NEW n \in Ids
        PROVE  sh.node[n].count = Cardinality(Users(n)) + Cardinality(Deleters(n)) + sh.node[n].lost
    <3>1. sh.node[n].count = 0 /\ sh.node[n].lost = 0
      BY <1>2, <1>3
    <3>2. Cardinality(Users(n)) = 0 /\ Cardinality(Deleters(n)) = 0
      BY <1>10, <2>1
    <3> QED BY <3>1, <3>2
  <2> QED BY <2>2 DEF Counted
<1>12. HeldLive
  BY <1>9 DEF HeldLive
<1>13. DeletedOnce /\ DeletedAlone
  BY <1>2, <1>3, <1>9 DEF DeletedOnce, DeletedAlone
<1>14. Live(sh) = {}
  BY <1>2, <1>3 DEF Live
<1>15. UpdatingOwned
  BY <1>14 DEF UpdatingOwned
<1>16. SizeExact
  <2>1. {n \in Live(sh) : sh.node[n].size = 1 /\ ~sh.node[n].deleting} = {}
    BY <1>14
  <2> QED BY <1>2, <2>1, FS_EmptySet DEF SizeExact
<1>17. Queued
  BY <1>2, <1>14 DEF Queued, IsInjective, ToSet
<1> QED BY <1>6, <1>7, <1>8, <1>11, <1>12, <1>13, <1>15, <1>16, <1>17 DEF FInv

(* Every step keeps the invariant.                                           *)
LEMMA NextStep ==
    ASSUME FileCacheAssumption, FInv, [Next]_vars
    PROVE  FInv'
<1>1. ASSUME NEW r \in Requests, Serve(r) PROVE FInv'
  <2>1. CASE ExistsAgain(r) \/ Retry(r) \/ OpenFile(r) \/ Read(r)
    BY <2>1, ExistsAgainStep, RetryStep, OpenFileStep, ReadStep
  <2>2. CASE Stale(r) \/ Lock(r) \/ Wake(r) \/ WaitTimeout(r)
    BY <2>2, StaleStep, LockStep, WaitSteps
  <2>3. CASE Rename(r) \/ Update(r) \/ FreeCache(r)
    BY <2>3, RenameStep, UpdateStep, FreeStep
  <2> QED BY <1>1, <2>1, <2>2, <2>3 DEF Serve
<1>2. ASSUME NEW r \in Requests, NEW k \in Keys, Exists(r, k) PROVE FInv'
  BY <1>2, ExistsStep
<1>3. ASSUME NEW p \in Procs, DeleteStep(p) PROVE FInv'
  BY <1>3, ForcedExpireStep, UnlinkStep, RelockStep DEF DeleteStep
<1>4. ASSUME NEW p \in Procs, Die(p) PROVE FInv'
  BY <1>4, DieStep
<1>5. CASE Expire
  BY <1>5, ExpireStep
<1>6. ASSUME NEW k \in Keys, LoadAdd(k) PROVE FInv'
  BY <1>6, LoadAddStep
<1>7. CASE LoadEnd \/ \E k \in Keys : LoadSee(k) \/ FileAges(k)
  BY <1>7, LoadSteps
<1>8. CASE NodeAges \/ \E n \in Ids : LockAges(n)
  BY <1>8, AgeSteps
<1>9. CASE UNCHANGED vars
  <2>1. sh' = sh /\ c' = c /\ disk' = disk /\ deaths' = deaths /\ raced' = raced
    BY <1>9 DEF vars
  <2>2. disk' \in [Keys -> {"none", "fresh", "stale"}]
    BY <2>1 DEF FInv, Typed
  <2>3. Sound(sh')
    BY <2>1, ZoneSound
  <2> QED BY <2>1, <2>2, <2>3, NobodyMoves
<1> QED BY <1>1, <1>2, <1>3, <1>4, <1>5, <1>6, <1>7, <1>8, <1>9 DEF Next

(* The inductive invariant of the zone of ngx_http_file_cache.c: whatever    *)
(* requests, the manager, the loader and deaths between two locked sections  *)
(* do, a process holds what its step says, and the nodes agree with it.      *)
THEOREM FileCacheInvariant ==
    ASSUME FileCacheAssumption PROVE Spec => []FInv
<1>1. Init => FInv
  BY InitStep
<1>2. FInv /\ [Next]_vars => FInv'
  BY NextStep
<1> QED BY <1>1, <1>2, PTL DEF Spec

(* The count of a node is bounded by the processes and the deaths.           *)
LEMMA CountBounded ==
    ASSUME FileCacheAssumption, FInv, NEW n \in Ids
    PROVE  sh.node[n].count \in 0..(Cardinality(Procs) + MaxDeaths)
<1>1. /\ IsFiniteSet(Procs) /\ Requests \subseteq Procs /\ n # 0 /\ MaxDeaths \in Nat
  BY Facts
<1> DEFINE U == Users(n)
           D == Deleters(n)
<1>2. U \in SUBSET Procs /\ D \in SUBSET Procs /\ U \cup D \in SUBSET Procs
  BY <1>1 DEF Users, Deleters
<1>3. U \cap D = {}
  <2>1. ASSUME NEW q \in Procs, c[q].node = n, c[q].del = n PROVE FALSE
    BY <1>1, <2>1 DEF FInv, Placed, PlacedAt, Holding, Deleting
  <2> QED BY <1>1, <2>1 DEF Users, Deleters
<1>4. sh.node[n].count = Cardinality(U) + Cardinality(D) + sh.node[n].lost
  BY DEF FInv, Counted
<1> HIDE DEF U, D
<1>5. IsFiniteSet(U) /\ IsFiniteSet(D) /\ Cardinality(U) \in Nat /\ Cardinality(D) \in Nat
      /\ Cardinality(Procs) \in Nat
  BY <1>1, <1>2, FS_Subset, FS_CardinalityType
<1>6. Cardinality(U \cup D) = Cardinality(U) + Cardinality(D)
  <2>1. Cardinality(U \cup D) = Cardinality(U) + Cardinality(D) - Cardinality(U \cap D)
    BY <1>5, FS_Union
  <2>2. Cardinality(U \cap D) = 0
    BY <1>3, FS_EmptySet
  <2> QED BY <1>5, <2>1, <2>2
<1>7. Cardinality(U \cup D) <= Cardinality(Procs)
  BY <1>1, <1>2, FS_Subset
<1>8. sh.node[n].lost \in Nat /\ sh.node[n].lost <= deaths /\ deaths \in 0..MaxDeaths
  BY NodeAt DEF NodeOK, FInv, Typed
<1>9. sh.node[n].lost <= MaxDeaths
  BY <1>1, <1>8
<1> QED BY <1>1, <1>4, <1>5, <1>6, <1>7, <1>8, <1>9

(* Reference counts of ngx_http_file_cache_node_t stay within the processes  *)
(* that can hold a node and those that died with one.                        *)
THEOREM FileCacheTypeOK ==
    ASSUME FileCacheAssumption PROVE Spec => []TypeOK
<1>1. FInv => TypeOK
  <2> SUFFICES ASSUME FInv PROVE TypeOK
    OBVIOUS
  <2>1. ASSUME NEW n \in Ids
        PROVE  /\ sh.node[n].count \in 0..(Cardinality(Procs) + MaxDeaths)
               /\ sh.node[n].size \in 0..1 /\ (sh.node[n].live => sh.node[n].key \in Keys)
    BY CountBounded, NodeAt DEF NodeOK
  <2>2. sh.queue \in Seq(Ids) /\ disk \in [Keys -> {"none", "fresh", "stale"}]
    BY DEF FInv, Typed, ZoneRecord
  <2>3. \A p \in Procs : c[p].node \in Ids \cup {0} /\ c[p].del \in Ids \cup {0}
    BY DEF FInv, Typed, ProcRecord
  <2> QED BY <2>1, <2>2, <2>3 DEF TypeOK
<1> QED BY <1>1, FileCacheInvariant, PTL

(* The count of a node is exactly the requests that use it, its deleter and  *)
(* the processes that died with it: ngx_http_file_cache_free, the deletion   *)
(* and the update never count one twice or forget one.                       *)
THEOREM CountExactHolds ==
    ASSUME FileCacheAssumption PROVE Spec => []CountExact
<1>1. FInv => CountExact
  BY DEF FInv, Counted, CountExact, Users, Deleters, Live
<1> QED BY <1>1, FileCacheInvariant, PTL

(* No process holds a node that ngx_http_file_cache_free or a deletion has   *)
(* freed, or that was taken for another key since, also not across the       *)
(* unlock around the unlink of a file.                                       *)
THEOREM HeldLiveHolds ==
    ASSUME FileCacheAssumption PROVE Spec => []HeldLive
<1>1. FInv => HeldLive
  BY DEF FInv
<1> QED BY <1>1, FileCacheInvariant, PTL

(* The queue of cache->sh->queue holds every node of the zone once, through  *)
(* touching, forced expiry, deletion and loading.                            *)
THEOREM QueueExactHolds ==
    ASSUME FileCacheAssumption PROVE Spec => []QueueExact
<1>1. FInv => QueueExact
  <2> SUFFICES ASSUME FInv PROVE QueueExact
    OBVIOUS
  <2> DEFINE q == sh.queue
             n == Len(q)
             T == Live(sh)
  <2>1. q \in Seq(Ids) /\ IsInjective(q) /\ ToSet(q) = T
    BY ZoneSound DEF Sound, ZoneRecord
  <2>2. n \in Nat /\ DOMAIN q = 1..n
    BY <2>1
  <2>3. q \in [1..n -> T]
    BY <2>1, <2>2 DEF ToSet
  <2> HIDE DEF q, n, T
  <2>4. q \in Bijection(1..n, T)
    <3>1. \A a, b \in 1..n : q[a] = q[b] => a = b
      BY <2>1, <2>2 DEF IsInjective
    <3>2. \A t \in T : \E i \in 1..n : q[i] = t
      BY <2>1, <2>2 DEF ToSet
    <3> QED BY <2>2, <2>3, <3>1, <3>2 DEF Bijection, Injection, Surjection, IsInjective
  <2>5. IsFiniteSet(1..n) /\ Cardinality(1..n) = n
    <3>1. IsFiniteSet(1..n) /\ Cardinality(1..n) = IF 1 > n THEN 0 ELSE n - 1 + 1
      BY <2>2, FS_Interval
    <3> QED BY <2>2, <3>1
  <2>6. ExistsBijection(1..n, T)
    BY <2>4 DEF ExistsBijection
  <2>7. Cardinality(T) = n
    BY <2>5, <2>6, FS_Bijection
  <2> QED BY <2>1, <2>7 DEF QueueExact, q, n, T
<1> QED BY <1>1, FileCacheInvariant, PTL

(* Without a death, a node marked by ngx_http_file_cache_lock or as stale    *)
(* has a request that updates it and will clear the mark, whoever took the   *)
(* lock over from whom.                                                      *)
THEOREM UpdatingOwnedHolds ==
    ASSUME FileCacheAssumption PROVE Spec => []UpdatingOwned
<1>1. FInv => UpdatingOwned
  BY DEF FInv
<1> QED BY <1>1, FileCacheInvariant, PTL

(* The size that max_size is compared with is that of the files, until a     *)
(* request finds a node whose file is being deleted.                         *)
THEOREM SizeExactHolds ==
    ASSUME FileCacheAssumption PROVE Spec => []SizeExact
<1>1. FInv => SizeExact
  BY DEF FInv
<1> QED BY <1>1, FileCacheInvariant, PTL


==============================================================================
