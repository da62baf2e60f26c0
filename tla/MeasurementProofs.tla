------------------------- MODULE MeasurementProofs -------------------------
(***************************************************************************)
(* Proofs about the programs that measure, whatever the number of their    *)
(* threads or children: stats_record of wrk (WrkStats), which takes no     *)
(* lock, and benchmp of lmbench (Benchmp), which leads its children        *)
(* through a measurement.  Nothing relates the two.                        *)
(***************************************************************************)
EXTENDS WrkStats, Sequences, FiniteSetTheorems, TLAPS

(* The constants, with the threads that wrk starts finitely many.            *)
StatsAssumption == ThreadsAssumption /\ LimitAssumption

-----------------------------------------------------------------------------
(* The inductive invariant of the recording                                  *)

(* The places of stats_record, by what the thread has done before them.      *)
Added == {"count", "min", "max", "casmin", "casmax", "done"}
CountedIn == {"min", "max", "casmin", "casmax", "done"}
MinRead == {"max", "casmin", "casmax", "done"}
MaxRead == {"casmin", "casmax", "done"}
MinLeft == {"casmax", "done"}

(* The threads that have added their sample n, and those that have counted.  *)
Adders(n) == {t \in Threads : th[t].pc \in Added /\ th[t].n = n}
Counters == {t \in Threads : th[t].pc \in CountedIn}

(* Only a value below the limit is recorded.                                 *)
Typed ==
    /\ TypeOK
    /\ \A t \in Threads : th[t].pc \notin {"idle", "refused"} => th[t].n \in Values

(* The array and the counter, at every moment of every call.                 *)
SamplesKept == \A n \in Values : stats.data[n] = Cardinality(Adders(n))
CountKept == stats.count = Cardinality(Counters)

(* The minimum is some thread's value, no more than that of a thread that    *)
(* has left the first loop, and only falls: a copy of it is never below it.  *)
MinKept ==
    /\ stats.min = UINT64_MAX \/ \E t \in Threads : th[t].pc \in MaxRead /\ th[t].n = stats.min
    /\ \A t \in Threads : th[t].pc \in MinLeft => stats.min <= th[t].n
    /\ \A t \in Threads : th[t].pc \in MinRead => stats.min <= th[t].min

(* The maximum likewise; it starts at 0.                                     *)
MaxKept ==
    /\ stats.max = 0 \/ \E t \in Threads : th[t].pc \in MinLeft /\ th[t].n = stats.max
    /\ \A t \in Threads : th[t].pc = "done" => th[t].n <= stats.max
    /\ \A t \in Threads : th[t].pc \in MaxRead => th[t].max <= stats.max

Recording == Typed /\ SamplesKept /\ CountKept /\ MinKept /\ MaxKept
IInv == phase = "record" => Recording

-----------------------------------------------------------------------------
(* Lemmas about one step of one thread                                       *)

(* Threads are counted with natural numbers.                                 *)
LEMMA FiniteCounts ==
    ASSUME StatsAssumption
    PROVE  /\ \A n : IsFiniteSet(Adders(n)) /\ Cardinality(Adders(n)) \in Nat
           /\ IsFiniteSet(Counters) /\ Cardinality(Counters) \in Nat
<1>1. \A n : Adders(n) \subseteq Threads
  BY DEF Adders
<1>2. Counters \subseteq Threads
  BY DEF Counters
<1>3. IsFiniteSet(Threads)
  BY DEF StatsAssumption, ThreadsAssumption
<1> QED BY <1>1, <1>2, <1>3, FS_Subset, FS_CardinalityType

(* A thread that moves without passing one of the two increments disturbs    *)
(* neither the array nor the counter.                                        *)
LEMMA QuietCounts ==
    ASSUME Recording, NEW t \in Threads,
           \A u \in Threads : u # t => th'[u] = th[u],
           th'[t].n = th[t].n \/ th[t].pc = "idle",
           th'[t].pc \in Added <=> th[t].pc \in Added,
           th'[t].pc \in CountedIn <=> th[t].pc \in CountedIn,
           stats'.data = stats.data, stats'.count = stats.count
    PROVE  SamplesKept' /\ CountKept'
<1>1. \A n : Adders(n)' = Adders(n)
  BY DEF Adders, Added
<1>2. Counters' = Counters
  BY DEF Counters
<1> QED BY <1>1, <1>2 DEF Recording, SamplesKept, CountKept

(* The types of a thread's record and of the structure.                      *)
LEMMA RecordTypes ==
    ASSUME StatsAssumption, Typed
    PROVE  /\ Limit \in Nat \ {0} /\ UINT64_MAX = Limit + 1 /\ UINT64_MAX \in Nat
           /\ stats.data \in [Values -> Nat] /\ stats.count \in Nat
           /\ stats.min \in Values \cup {UINT64_MAX} /\ stats.max \in Values
           /\ stats.min \in Nat /\ stats.max \in Nat
           /\ \A t \in Threads : /\ th[t].n \in 0..Limit /\ th[t].n \in Nat
                                 /\ th[t].min \in Values \cup {UINT64_MAX} /\ th[t].min \in Nat
                                 /\ th[t].max \in Values /\ th[t].max \in Nat
<1>1. Limit \in Nat \ {0} /\ UINT64_MAX = Limit + 1 /\ UINT64_MAX \in Nat
  BY DEF StatsAssumption, LimitAssumption, UINT64_MAX
<1>2. /\ \A x \in Values \cup {UINT64_MAX} : x \in Nat
      /\ \A x \in Values : x \in Nat
      /\ \A x \in 0..Limit : x \in Nat
  BY <1>1 DEF Values
<1>3. /\ stats.data \in [Values -> Nat] /\ stats.count \in Nat
      /\ stats.min \in Values \cup {UINT64_MAX} /\ stats.max \in Values
      /\ \A t \in Threads : /\ th[t].n \in 0..Limit /\ th[t].max \in Values
                            /\ th[t].min \in Values \cup {UINT64_MAX}
  BY DEF Typed, TypeOK
<1> QED BY <1>1, <1>2, <1>3

(* A call begins, or there is nothing to record.                             *)
LEMMA CallStep ==
    ASSUME StatsAssumption, Recording, NEW t \in Threads,
           (\E n \in 0..Limit : Call(t, n)) \/ Skip(t)
    PROVE  Recording'
<1>1. /\ th[t].pc = "idle" /\ UNCHANGED stats /\ UNCHANGED phase
      /\ \A u \in Threads : u # t => th'[u] = th[u]
      /\ th' \in [Threads -> [pc : {"idle", "refused", "data", "count", "min", "max",
                                   "casmin", "casmax", "done"},
                             n : 0..Limit, min : Values \cup {UINT64_MAX}, max : Values]]
      /\ th'[t].pc \in {"refused", "data"}
      /\ th'[t].pc = "data" => th'[t].n \in Values
  <2>1. ASSUME NEW n \in 0..Limit, Call(t, n) PROVE <1>1!:
    <3>1. /\ th[t].pc = "idle" /\ UNCHANGED <<stats, phase>>
          /\ th' = [th EXCEPT ![t].n = n, ![t].pc = IF n >= Limit THEN "refused" ELSE "data"]
      BY <2>1 DEF Call, At
    <3>2. n >= Limit \/ n \in Values
      BY RecordTypes DEF Recording, Values
    <3> QED BY <3>1, <3>2 DEF Recording, Typed, TypeOK
  <2>2. ASSUME Skip(t) PROVE <1>1!:
    <3>1. /\ th[t].pc = "idle" /\ UNCHANGED <<stats, phase>>
          /\ th' = [th EXCEPT ![t].pc = "refused"]
      BY <2>2 DEF Skip, Goto, At
    <3> QED BY <3>1 DEF Recording, Typed, TypeOK
  <2> QED BY <2>1, <2>2
<1>3. Typed'
  BY <1>1 DEF Recording, Typed, TypeOK
<1>4. SamplesKept' /\ CountKept'
  BY <1>1, QuietCounts DEF Added, CountedIn
<1>5. MinKept'
  BY <1>1 DEF Recording, MinKept, MaxRead, MinLeft, MinRead
<1>6. MaxKept'
  BY <1>1 DEF Recording, MaxKept, MaxRead, MinLeft
<1> QED BY <1>3, <1>4, <1>5, <1>6 DEF Recording

(* The sample goes into the array.                                           *)
LEMMA AddDataStep ==
    ASSUME StatsAssumption, Recording, NEW t \in Threads, AddData(t)
    PROVE  Recording'
<1> DEFINE n == th[t].n
<1>1. /\ th[t].pc = "data" /\ th' = [th EXCEPT ![t].pc = "count"]
      /\ stats' = [stats EXCEPT !.data[n] = @ + 1] /\ phase' = phase
  BY DEF AddData, At, Goto
<1>2. n \in Values /\ stats.data[n] \in Nat
  BY <1>1, RecordTypes DEF Recording, Typed
<1>3. /\ \A u \in Threads : u # t => th'[u] = th[u]
      /\ th'[t].pc = "count" /\ th'[t].n = n
      /\ stats'.data[n] = stats.data[n] + 1
      /\ \A k \in Values : k # n => stats'.data[k] = stats.data[k]
      /\ stats'.count = stats.count /\ stats'.min = stats.min /\ stats'.max = stats.max
  BY <1>1, <1>2 DEF Recording, Typed, TypeOK
<1>4. Typed'
  BY <1>1, <1>2, <1>3 DEF Recording, Typed, TypeOK
<1>5. SamplesKept'
  <2> SUFFICES ASSUME NEW k \in Values PROVE stats'.data[k] = Cardinality(Adders(k)')
      BY DEF SamplesKept
  <2>1. stats.data[k] = Cardinality(Adders(k)) /\ IsFiniteSet(Adders(k))
    BY FiniteCounts DEF Recording, SamplesKept
  <2>2. CASE k = n
    <3>1. t \notin Adders(k) /\ Adders(k)' = Adders(k) \cup {t}
      BY <1>1, <1>3, <2>2 DEF Adders, Added
    <3>2. Cardinality(Adders(k) \cup {t}) = Cardinality(Adders(k)) + 1
      BY <2>1, <3>1, FS_AddElement
    <3> QED BY <1>3, <2>1, <2>2, <3>1, <3>2
  <2>3. CASE k # n
    <3>1. Adders(k)' = Adders(k)
      BY <1>3, <2>3 DEF Adders
    <3> QED BY <1>3, <2>1, <2>3, <3>1
  <2> QED BY <2>2, <2>3
<1>6. CountKept'
  <2>1. Counters' = Counters
    BY <1>1, <1>3 DEF Counters, CountedIn
  <2> QED BY <1>3, <2>1 DEF Recording, CountKept
<1>7. MinKept'
  BY <1>1, <1>3 DEF Recording, MinKept, MaxRead, MinLeft, MinRead
<1>8. MaxKept'
  BY <1>1, <1>3 DEF Recording, MaxKept, MaxRead, MinLeft
<1> QED BY <1>4, <1>5, <1>6, <1>7, <1>8 DEF Recording

(* The sample is counted.                                                    *)
LEMMA AddCountStep ==
    ASSUME StatsAssumption, Recording, NEW t \in Threads, AddCount(t)
    PROVE  Recording'
<1>1. /\ th[t].pc = "count" /\ th' = [th EXCEPT ![t].pc = "min"]
      /\ stats' = [stats EXCEPT !.count = @ + 1] /\ phase' = phase
  BY DEF AddCount, At, Goto
<1>2. /\ \A u \in Threads : u # t => th'[u] = th[u]
      /\ th'[t].pc = "min" /\ th'[t].n = th[t].n
      /\ stats'.count = stats.count + 1
      /\ stats'.data = stats.data /\ stats'.min = stats.min /\ stats'.max = stats.max
  BY <1>1 DEF Recording, Typed, TypeOK
<1>3. Typed'
  BY <1>1, <1>2 DEF Recording, Typed, TypeOK
<1>4. SamplesKept'
  <2>1. \A n : Adders(n)' = Adders(n)
    BY <1>1, <1>2 DEF Adders, Added
  <2> QED BY <1>2, <2>1 DEF Recording, SamplesKept
<1>5. CountKept'
  <2>1. t \notin Counters /\ Counters' = Counters \cup {t}
    BY <1>1, <1>2 DEF Counters, CountedIn
  <2>2. Cardinality(Counters \cup {t}) = Cardinality(Counters) + 1
    BY <2>1, FiniteCounts, FS_AddElement
  <2> QED BY <1>2, <2>1, <2>2 DEF Recording, CountKept
<1>6. MinKept'
  BY <1>1, <1>2 DEF Recording, MinKept, MaxRead, MinLeft, MinRead
<1>7. MaxKept'
  BY <1>1, <1>2 DEF Recording, MaxKept, MaxRead, MinLeft
<1> QED BY <1>3, <1>4, <1>5, <1>6, <1>7 DEF Recording

(* The thread copies the minimum, then the maximum.                          *)
LEMMA ReadStep ==
    ASSUME StatsAssumption, Recording, NEW t \in Threads, ReadMin(t) \/ ReadMax(t)
    PROVE  Recording'
<1> stats.min \in Nat /\ stats.max \in Nat
  BY RecordTypes DEF Recording
<1>1. CASE ReadMin(t)
  <2>1. /\ th[t].pc = "min" /\ th' = [th EXCEPT ![t].min = stats.min, ![t].pc = "max"]
        /\ UNCHANGED <<stats, phase>>
    BY <1>1 DEF ReadMin, At
  <2>2. /\ \A u \in Threads : u # t => th'[u] = th[u]
        /\ th'[t].pc = "max" /\ th'[t].n = th[t].n /\ th'[t].min = stats.min
    BY <2>1 DEF Recording, Typed, TypeOK
  <2>3. Typed'
    BY <2>1, <2>2 DEF Recording, Typed, TypeOK
  <2>4. SamplesKept' /\ CountKept'
    BY <2>1, <2>2, QuietCounts DEF Added, CountedIn
  <2>5. MinKept'
    <3>1. \A u \in Threads : th'[u].pc \in MinRead => stats.min <= th'[u].min
      <4> SUFFICES ASSUME NEW u \in Threads, th'[u].pc \in MinRead
                   PROVE  stats.min <= th'[u].min
        OBVIOUS
      <4>1. CASE u = t
        BY <2>2, <4>1
      <4>2. CASE u # t
        BY <2>2, <4>2 DEF Recording, MinKept
      <4> QED BY <4>1, <4>2
    <3> QED BY <2>1, <2>2, <3>1 DEF Recording, MinKept, MaxRead, MinLeft
  <2>6. MaxKept'
    BY <2>1, <2>2 DEF Recording, MaxKept, MaxRead, MinLeft
  <2> QED BY <2>3, <2>4, <2>5, <2>6 DEF Recording
<1>2. CASE ReadMax(t)
  <2>1. /\ th[t].pc = "max" /\ th' = [th EXCEPT ![t].max = stats.max, ![t].pc = "casmin"]
        /\ UNCHANGED <<stats, phase>>
    BY <1>2 DEF ReadMax, At
  <2>2. /\ \A u \in Threads : u # t => th'[u] = th[u]
        /\ th'[t].pc = "casmin" /\ th'[t].n = th[t].n /\ th'[t].min = th[t].min
        /\ th'[t].max = stats.max
    BY <2>1 DEF Recording, Typed, TypeOK
  <2>3. Typed'
    BY <2>1, <2>2 DEF Recording, Typed, TypeOK
  <2>4. SamplesKept' /\ CountKept'
    BY <2>1, <2>2, QuietCounts DEF Added, CountedIn
  <2>5. MinKept'
    BY <2>1, <2>2 DEF Recording, MinKept, MaxRead, MinLeft, MinRead
  <2>6. MaxKept'
    <3>1. \A u \in Threads : th'[u].pc \in MaxRead => th'[u].max <= stats.max
      <4> SUFFICES ASSUME NEW u \in Threads, th'[u].pc \in MaxRead
                   PROVE  th'[u].max <= stats.max
        OBVIOUS
      <4>1. CASE u = t
        BY <2>2, <4>1
      <4>2. CASE u # t
        BY <2>2, <4>2 DEF Recording, MaxKept
      <4> QED BY <4>1, <4>2
    <3> QED BY <2>1, <2>2, <3>1 DEF Recording, MaxKept, MaxRead, MinLeft
  <2> QED BY <2>3, <2>4, <2>5, <2>6 DEF Recording
<1> QED BY <1>1, <1>2

(* A turn of the first loop: the minimum falls to n or stays, and what the   *)
(* thread compares with next time is what the minimum was.                   *)
LEMMA CasMinStep ==
    ASSUME StatsAssumption, Recording, NEW t \in Threads, CasMin(t)
    PROVE  Recording'
<1> DEFINE n == th[t].n
<1>0. /\ n \in Values /\ n \in Nat /\ stats.min \in Nat /\ stats.min \in Values \cup {UINT64_MAX}
      /\ th[t].min \in Nat /\ th[t].pc = "casmin" /\ n < th[t].min
      /\ \A u \in Threads : th[u].n \in Nat /\ th[u].min \in Nat
  BY RecordTypes DEF CasMin, At, Recording, Typed
<1> DEFINE low == IF stats.min = th[t].min THEN n ELSE stats.min
<1>1. /\ th' = [th EXCEPT ![t].min = stats.min] /\ stats' = [stats EXCEPT !.min = low]
      /\ phase' = phase
  BY DEF CasMin, Swap
<1>2. low \in Values \cup {UINT64_MAX} /\ low \in Nat /\ low <= stats.min
  BY <1>0
<1>3. /\ low = n \/ low = stats.min
      /\ low = n => th[t].pc \in MaxRead
  BY <1>0 DEF MaxRead
<1> HIDE DEF low
<1>4. /\ \A u \in Threads : u # t => th'[u] = th[u]
      /\ th'[t].pc = th[t].pc /\ th'[t].n = n /\ th'[t].min = stats.min /\ th'[t].max = th[t].max
      /\ stats'.data = stats.data /\ stats'.count = stats.count
      /\ stats'.min = low /\ stats'.max = stats.max
  BY <1>1 DEF Recording, Typed, TypeOK
<1>5. Typed'
  BY <1>1, <1>2, <1>4 DEF Recording, Typed, TypeOK
<1>6. SamplesKept' /\ CountKept'
  BY <1>0, <1>4, QuietCounts
<1>7. MinKept'
  <2>1. low = UINT64_MAX \/ \E u \in Threads : th'[u].pc \in MaxRead /\ th'[u].n = low
    <3>1. \A u \in Threads : th'[u].pc = th[u].pc /\ th'[u].n = th[u].n
      BY <1>4
    <3> QED BY <1>3, <3>1 DEF Recording, MinKept
  <2>2. ASSUME NEW u \in Threads, th'[u].pc \in MinLeft PROVE low <= th'[u].n
    <3>1. u # t /\ stats.min <= th[u].n
      BY <1>0, <1>4, <2>2 DEF Recording, MinKept, MinLeft
    <3> QED BY <1>0, <1>2, <1>4, <3>1
  <2>3. ASSUME NEW u \in Threads, th'[u].pc \in MinRead PROVE low <= th'[u].min
    <3>1. CASE u = t
      BY <1>2, <1>4, <3>1
    <3>2. CASE u # t
      <4>1. stats.min <= th[u].min
        BY <1>4, <2>3, <3>2 DEF Recording, MinKept
      <4> QED BY <1>0, <1>2, <1>4, <3>2, <4>1
    <3> QED BY <3>1, <3>2
  <2> QED BY <1>4, <2>1, <2>2, <2>3 DEF MinKept, UINT64_MAX
<1>8. MaxKept'
  <2>1. \A u \in Threads : th'[u].pc = th[u].pc /\ th'[u].n = th[u].n /\ th'[u].max = th[u].max
    BY <1>4
  <2> QED BY <1>4, <2>1 DEF Recording, MaxKept
<1> QED BY <1>5, <1>6, <1>7, <1>8 DEF Recording

(* A turn of the second loop: the maximum rises to n or stays.               *)
LEMMA CasMaxStep ==
    ASSUME StatsAssumption, Recording, NEW t \in Threads, CasMax(t)
    PROVE  Recording'
<1> DEFINE n == th[t].n
<1>0. /\ n \in Values /\ n \in Nat /\ stats.max \in Nat /\ stats.max \in Values
      /\ th[t].max \in Nat /\ th[t].pc = "casmax" /\ n > th[t].max
      /\ \A u \in Threads : th[u].n \in Nat /\ th[u].max \in Nat
  BY RecordTypes DEF CasMax, At, Recording, Typed
<1> DEFINE high == IF stats.max = th[t].max THEN n ELSE stats.max
<1>1. /\ th' = [th EXCEPT ![t].max = stats.max] /\ stats' = [stats EXCEPT !.max = high]
      /\ phase' = phase
  BY DEF CasMax, Swap
<1>2. high \in Values /\ high \in Nat /\ stats.max <= high
  BY <1>0
<1>3. /\ high = n \/ high = stats.max
      /\ high = n => th[t].pc \in MinLeft
  BY <1>0 DEF MinLeft
<1> HIDE DEF high
<1>4. /\ \A u \in Threads : u # t => th'[u] = th[u]
      /\ th'[t].pc = th[t].pc /\ th'[t].n = n /\ th'[t].max = stats.max /\ th'[t].min = th[t].min
      /\ stats'.data = stats.data /\ stats'.count = stats.count
      /\ stats'.max = high /\ stats'.min = stats.min
  BY <1>1 DEF Recording, Typed, TypeOK
<1>5. Typed'
  BY <1>1, <1>2, <1>4 DEF Recording, Typed, TypeOK
<1>6. SamplesKept' /\ CountKept'
  BY <1>0, <1>4, QuietCounts
<1>7. MaxKept'
  <2>1. high = 0 \/ \E u \in Threads : th'[u].pc \in MinLeft /\ th'[u].n = high
    <3>1. \A u \in Threads : th'[u].pc = th[u].pc /\ th'[u].n = th[u].n
      BY <1>4
    <3> QED BY <1>3, <3>1 DEF Recording, MaxKept
  <2>2. ASSUME NEW u \in Threads, th'[u].pc = "done" PROVE th'[u].n <= high
    <3>1. u # t /\ th[u].n <= stats.max
      BY <1>0, <1>4, <2>2 DEF Recording, MaxKept
    <3> QED BY <1>0, <1>2, <1>4, <3>1
  <2>3. ASSUME NEW u \in Threads, th'[u].pc \in MaxRead PROVE th'[u].max <= high
    <3>1. CASE u = t
      BY <1>2, <1>4, <3>1
    <3>2. CASE u # t
      <4>1. th[u].max <= stats.max
        BY <1>4, <2>3, <3>2 DEF Recording, MaxKept
      <4> QED BY <1>0, <1>2, <1>4, <3>2, <4>1
    <3> QED BY <3>1, <3>2
  <2> QED BY <1>4, <2>1, <2>2, <2>3 DEF MaxKept
<1>8. MinKept'
  <2>1. \A u \in Threads : th'[u].pc = th[u].pc /\ th'[u].n = th[u].n /\ th'[u].min = th[u].min
    BY <1>4
  <2> QED BY <1>4, <2>1 DEF Recording, MinKept, UINT64_MAX
<1> QED BY <1>5, <1>6, <1>7, <1>8 DEF Recording

(* A loop ends when the thread's value is no longer beyond the copy, and so  *)
(* not beyond the shared extreme either.                                     *)
LEMMA LoopDoneStep ==
    ASSUME StatsAssumption, Recording, NEW t \in Threads, MinDone(t) \/ MaxDone(t)
    PROVE  Recording'
<1>1. PICK from \in {"casmin", "casmax"} :
         /\ th[t].pc = from
         /\ th' = [th EXCEPT ![t].pc = IF from = "casmin" THEN "casmax" ELSE "done"]
         /\ from = "casmin" => th[t].n >= th[t].min
         /\ from = "casmax" => th[t].n <= th[t].max
         /\ stats' = stats /\ phase' = phase
  BY DEF MinDone, MaxDone, At, Goto
<1>2. /\ \A u \in Threads : u # t => th'[u] = th[u]
      /\ th'[t].pc = IF from = "casmin" THEN "casmax" ELSE "done"
      /\ th'[t].n = th[t].n /\ th'[t].min = th[t].min /\ th'[t].max = th[t].max
  BY <1>1 DEF Recording, Typed, TypeOK
<1>3. Typed'
  BY <1>1, <1>2 DEF Recording, Typed, TypeOK
<1>4. SamplesKept' /\ CountKept'
  BY <1>1, <1>2, QuietCounts DEF Added, CountedIn
<1>5. /\ stats.min <= th[t].n
      /\ from = "casmax" => th[t].n <= stats.max
  <2>1. /\ stats.min \in Nat /\ stats.max \in Nat
        /\ th[t].n \in Nat /\ th[t].min \in Nat /\ th[t].max \in Nat
    BY RecordTypes DEF Recording
  <2>2. /\ from = "casmin" => stats.min <= th[t].min
        /\ from = "casmax" => stats.min <= th[t].n /\ th[t].max <= stats.max
    BY <1>1 DEF Recording, MinKept, MaxKept, MinRead, MaxRead, MinLeft
  <2> QED BY <1>1, <2>1, <2>2
<1>6. MinKept'
  BY <1>1, <1>2, <1>5 DEF Recording, MinKept, MaxRead, MinLeft, MinRead, UINT64_MAX
<1>7. MaxKept'
  BY <1>1, <1>2, <1>5 DEF Recording, MaxKept, MaxRead, MinLeft
<1> QED BY <1>3, <1>4, <1>6, <1>7 DEF Recording

-----------------------------------------------------------------------------
(* The theorems                                                              *)

(* Before the first call all is empty.                                       *)
LEMMA RecordingStarts ==
    ASSUME StatsAssumption, Init
    PROVE  Recording
<1>1. /\ stats.data = [n \in Values |-> 0] /\ stats.count = 0
      /\ stats.min = UINT64_MAX /\ stats.max = 0
      /\ \A t \in Threads : th[t].pc = "idle"
  BY DEF Init
<1>2. 0 \in Values /\ 0 \in 0..Limit
  BY DEF StatsAssumption, LimitAssumption, Values
<1>3. Typed
  BY <1>1, <1>2 DEF Init, Typed, TypeOK
<1>4. (\A n : Adders(n) = {}) /\ Counters = {}
  BY <1>1 DEF Adders, Counters, Added, CountedIn
<1>5. SamplesKept /\ CountKept
  BY <1>1, <1>4, FS_EmptySet DEF SamplesKept, CountKept
<1>6. MinKept /\ MaxKept
  BY <1>1 DEF MinKept, MaxKept, MinRead, MaxRead, MinLeft
<1> QED BY <1>3, <1>5, <1>6 DEF Recording

(* Every step of every thread keeps it; the correction comes after the last. *)
LEMMA RecordingStep ==
    ASSUME StatsAssumption, IInv, [Next]_vars
    PROVE  IInv'
<1> SUFFICES ASSUME phase' = "record" PROVE Recording'
  BY DEF IInv
<1>1. ASSUME NEW t \in Threads, Record(t) PROVE Recording'
  <2>1. Recording
    BY <1>1 DEF IInv, Record, Call, Skip, AddData, AddCount, ReadMin, ReadMax, CasMin, MinDone,
                CasMax, MaxDone, At
  <2> QED BY <1>1, <2>1, CallStep, AddDataStep, AddCountStep, ReadStep, CasMinStep, CasMaxStep,
             LoopDoneStep DEF Record
<1>2. ASSUME NEW e \in 1..Limit, Correct(e) PROVE FALSE
  BY <1>2 DEF Correct
<1>3. CASE UNCHANGED vars
  <2>1. Recording /\ stats' = stats /\ th' = th /\ phase' = phase
    BY <1>3 DEF IInv, vars
  <2> QED BY <2>1 DEF Recording, Typed, TypeOK, SamplesKept, CountKept, MinKept, MaxKept,
                      Adders, Counters, UINT64_MAX, Values
<1> QED BY <1>1, <1>2, <1>3 DEF Next

(* While threads record, the array, the counter and the extremes are what    *)
(* the accesses to them so far amount to, in every interleaving.             *)
THEOREM RecordingInvariant == ASSUME StatsAssumption PROVE Spec => []IInv
<1>1. Init => IInv
  BY RecordingStarts DEF IInv
<1>2. IInv /\ [Next]_vars => IInv'
  BY RecordingStep
<1> QED BY <1>1, <1>2, PTL DEF Spec

(* Between two calls, what the threads hold is what the structure holds.     *)
LEMMA SettledMeans ==
    ASSUME StatsAssumption, IInv
    PROVE  NothingLost
<1> SUFFICES ASSUME Settled
             PROVE  /\ \A n \in Values : stats.data[n] = Cardinality({t \in Recorded : th[t].n = n})
                    /\ stats.count = Cardinality(Recorded)
                    /\ Recorded # {} => /\ stats.min = Min({th[t].n : t \in Recorded})
                                        /\ stats.max = Max({th[t].n : t \in Recorded})
  BY DEF NothingLost
<1>1. Recording /\ \A t \in Threads : th[t].pc \in {"idle", "done", "refused"}
  BY DEF Settled, IInv
<1>2. \A n : {t \in Recorded : th[t].n = n} = Adders(n)
  BY <1>1 DEF Recorded, Adders, Added
<1>3. Recorded = Counters
  BY <1>1 DEF Recorded, Counters, CountedIn
<1>4. ASSUME Recorded # {}
      PROVE  stats.min = Min({th[t].n : t \in Recorded}) /\ stats.max = Max({th[t].n : t \in Recorded})
  <2> DEFINE R == {th[t].n : t \in Recorded}
  <2>1. /\ stats.min \in Nat /\ stats.max \in Nat /\ \A r \in R : r \in Nat /\ r < UINT64_MAX
        /\ UINT64_MAX \in Nat
    <3>1. \A t \in Recorded : th[t].n \in Values
      BY <1>1 DEF Recording, Typed, Recorded
    <3> QED BY <1>1, <3>1, RecordTypes DEF Recording, Values
  <2>2. \A r \in R : stats.min <= r /\ r <= stats.max
    BY <1>1 DEF Recording, MinKept, MaxKept, MinLeft, Recorded
  <2>3. PICK first \in R : TRUE
    BY <1>4
  <2>4. stats.min \in R
    <3>1. stats.min # UINT64_MAX
      <4>1. first \in Nat /\ first < UINT64_MAX /\ stats.min <= first
        BY <2>1, <2>2
      <4> QED BY <2>1, <4>1
    <3>2. PICK t \in Threads : th[t].pc \in MaxRead /\ th[t].n = stats.min
      BY <1>1, <3>1 DEF Recording, MinKept
    <3>3. t \in Recorded
      BY <1>1, <3>2 DEF MaxRead, Recorded
    <3> QED BY <3>2, <3>3
  <2>5. stats.max \in R
    <3>1. CASE stats.max = 0
      <4>1. first \in Nat /\ first <= 0
        BY <2>1, <2>2, <3>1
      <4>2. first = stats.max
        BY <3>1, <4>1
      <4> QED BY <4>2
    <3>2. CASE stats.max # 0
      <4>1. PICK t \in Threads : th[t].pc \in MinLeft /\ th[t].n = stats.max
        BY <1>1, <3>2 DEF Recording, MaxKept
      <4>2. t \in Recorded
        BY <1>1, <4>1 DEF MinLeft, Recorded
      <4> QED BY <4>1, <4>2
    <3> QED BY <3>1, <3>2
  <2> HIDE DEF R
  <2>6. stats.min = Min(R) /\ stats.max = Max(R)
    BY <2>1, <2>2, <2>4, <2>5 DEF Min, Max
  <2> QED BY <2>6 DEF R
<1> QED BY <1>1, <1>2, <1>3, <1>4 DEF Recording, SamplesKept, CountKept

(* Whenever no thread is in the middle of stats_record, the array and the    *)
(* counter hold every sample of every thread once, and min and max are the   *)
(* extremes of the samples: no increment and no extreme was lost, however    *)
(* the threads' accesses interleaved.                                        *)
THEOREM NothingLostHolds == ASSUME StatsAssumption PROVE Spec => []NothingLost
<1>1. IInv => NothingLost
  BY SettledMeans
<1> QED BY <1>1, RecordingInvariant, PTL


-----------------------------------------------------------------------------
(* benchmp: the constants and the variables of Benchmp                       *)

CONSTANTS Parallel, Reps, Cleanup, MaxFaults
VARIABLES job, parent, child, pipe, faults

B == INSTANCE Benchmp

BenchmpAssumption == B!ParallelAssumption /\ B!RepsAssumption

-----------------------------------------------------------------------------
(* The inductive invariant of benchmp                                        *)

(* The places of the parent while it leads the children, and all of them;    *)
(* the states of a child that runs, of one that has ended, and all of them.  *)
Leading == {"fork", "ready", "start", "done", "ask", "gather", "exit"}
Places == Leading \cup {"error", "wait", "undo", "undowait", "await", "returned", "dead"}
Alive == {"init", "warmup", "ready", "timing", "cooldown", "asked", "sent"}
Gone == {"zombie", "reaped"}
States == {"none"} \cup Alive \cup Gone

Jobs == 1..job
Results == [from : B!Children, n : 0..Reps]
Messages == {"ready", "done"} \cup Results

ParentRecord ==
    [pc : Places, i : Nat, sigchld : BOOLEAN, sigterm : BOOLEAN, watching : BOOLEAN,
     inherited : {"default", "benchmp_sigterm"}, merged : Seq(Results), alarmed : BOOLEAN,
     time : BOOLEAN]
ChildRecord == [st : States, i : 0..Reps, rcv : BOOLEAN, hung : BOOLEAN]
PipeRecord == [response : Seq(Messages), start : Nat, result : Nat, exit : Nat, open : BOOLEAN]

BTyped ==
    /\ job \in {1, Parallel} /\ faults \in 0..MaxFaults
    /\ parent \in ParentRecord /\ child \in [B!Children -> ChildRecord] /\ pipe \in PipeRecord

Bounded ==
    /\ parent.i <= job
    /\ pipe.start <= job /\ pipe.result <= 1 /\ pipe.exit <= job /\ Len(pipe.response) <= job

(* All children of the call are in one of the states S or have ended; the    *)
(* children that are not in one of them; the bytes that were collected.      *)
Only(S) == \A c \in Jobs : child[c].st \in S \cup Gone
Past(S) == {c \in Jobs : child[c].st \notin S}
Collected == IF parent.pc \in {"ready", "done"} THEN parent.i ELSE 0

Early == {"none", "init", "warmup"}
Busy == {"ready", "timing"}
Asked == {"cooldown", "asked", "sent"}

(* The three rounds of messages.  In the first two a child that has not      *)
(* answered has no byte in the pipe, so that as many bytes as children mean  *)
(* that all of them have answered; in the third there is one token, the byte *)
(* of the request or the answer to it.                                       *)
StageReady ==
    /\ Only(Early \cup {"ready"}) /\ pipe.start = 0 /\ pipe.result = 0
    /\ Len(pipe.response) + Collected <= Cardinality(Past(Early))
StageDone ==
    /\ Only(Busy \cup {"cooldown"}) /\ pipe.result = 0
    /\ Len(pipe.response) + Collected <= Cardinality(Past(Busy))
StageResult ==
    /\ Only(Asked) /\ pipe.result + Len(pipe.response) <= 1
    /\ \A k \in 1..Len(pipe.response) : pipe.response[k] \in Results

Staged ==
    /\ pipe.open => pipe.exit = 0 /\ (StageReady \/ StageDone \/ StageResult)
    /\ parent.pc \in Leading => pipe.open
    /\ B!At("dead") => ~pipe.open
    /\ parent.pc \in {"fork", "ready", "start"} => StageReady
    /\ B!At("start") => Only({"ready"}) /\ pipe.response = <<>>
    /\ B!At("done") => StageDone
    /\ parent.pc \in {"ask", "gather", "exit"} => StageResult
    /\ B!At("ask") => pipe.response = <<>> /\ pipe.result = 0

Indexed ==
    /\ parent.pc \in {"ready", "start", "done", "ask", "gather", "wait"} => parent.i < job
    /\ B!At("start") => parent.i = 0
    /\ B!At("undowait") => parent.i > 0

(* A child of several that has measured has measured Reps times.             *)
Whole == job > 1 => \A c \in Jobs : child[c].st \in Asked => child[c].i = Reps

(* The results in the pipe and those that are merged are of children that    *)
(* have reported, one of each.                                               *)
Distinct(s) == \A k, l \in 1..Len(s) : s[k].from = s[l].from => k = l
Apart(s, t) == \A k \in 1..Len(s), l \in 1..Len(t) : s[k].from # t[l].from
Final(s) == \A k \in 1..Len(s) : s[k].from \in Jobs /\ (job > 1 => s[k].n = Reps)
Reported(s) == \A k \in 1..Len(s) : child[s[k].from].st \in {"sent"} \cup Gone

Gathering ==
    /\ Len(parent.merged) = IF B!At("exit") THEN job ELSE parent.i
    /\ Distinct(parent.merged) /\ Apart(parent.merged, pipe.response)
    /\ Final(parent.merged) /\ Reported(parent.merged)
    /\ Final(pipe.response) /\ Reported(pipe.response)
Merged == Distinct(parent.merged) /\ Len(parent.merged) = job /\ Final(parent.merged)

Merging ==
    /\ parent.pc \in {"fork", "ready", "start", "done"} => parent.merged = <<>>
    /\ parent.pc \in {"ask", "gather", "exit"} => Gathering
    /\ parent.time => parent.pc \in {"await", "returned", "dead"} /\ Merged

(* The children that are not there, or no more.                              *)
Left(S, i) == \A c \in B!Children : c > i => child[c].st \in S
Reaping ==
    /\ B!At("fork") => Left({"none"}, parent.i)
    /\ parent.pc \in (Leading \ {"fork"}) \cup {"error", "wait"} => Left({"none"}, job)
    /\ parent.pc \in {"undo", "undowait", "await"} => Left({"none", "reaped"}, parent.i)
    /\ B!At("returned") => Left({"none", "reaped"}, 0)

(* Without a fault nobody ends or is told to before the results are there.   *)
Faultless ==
    faults = 0 =>
        /\ ~parent.sigterm /\ parent.pc \in Leading \cup {"await", "returned"}
        /\ parent.pc \in Leading =>
             ~parent.sigchld /\ \A c \in B!Children : ~child[c].rcv /\ child[c].st \notin Gone
        /\ parent.pc \notin Leading => ~pipe.open /\ Only(Asked)

BInv == BTyped /\ Bounded /\ Staged /\ Indexed /\ Whole /\ Merging /\ Reaping /\ Faultless

-----------------------------------------------------------------------------
(* Lemmas about the children of a call                                       *)

(* The children of the call are among those that can be.                     *)
LEMMA JobsFacts ==
    ASSUME BenchmpAssumption, BTyped
    PROVE  /\ job \in Nat /\ job > 0 /\ Parallel \in Nat /\ job <= Parallel
           /\ Jobs \subseteq B!Children /\ Reps \in Nat /\ Reps > 0 /\ MaxFaults \in Nat
           /\ \A c \in B!Children : c \in Int /\ c > 0
BY DEF BenchmpAssumption, B!ParallelAssumption, B!RepsAssumption, BTyped, Jobs, B!Children

(* How many children can be past a round.                                    *)
LEMMA PastFacts ==
    ASSUME BenchmpAssumption, BTyped, NEW S
    PROVE  /\ IsFiniteSet(Past(S)) /\ Cardinality(Past(S)) \in Nat
           /\ Cardinality(Past(S)) <= job
           /\ job <= Cardinality(Past(S)) => \A c \in Jobs : child[c].st \notin S
<1>1. IsFiniteSet(Jobs) /\ Cardinality(Jobs) = job
  BY JobsFacts, FS_Interval DEF Jobs
<1>2. Past(S) \in SUBSET Jobs
  BY DEF Past
<1>3. /\ IsFiniteSet(Past(S)) /\ Cardinality(Past(S)) \in Nat
      /\ Cardinality(Past(S)) <= job /\ (job = Cardinality(Past(S)) => Jobs = Past(S))
  BY <1>1, <1>2, FS_Subset, FS_CardinalityType
<1>4. job <= Cardinality(Past(S)) => job = Cardinality(Past(S))
  BY <1>3, JobsFacts
<1> QED BY <1>3, <1>4 DEF Past

(* One child passes, or none does.                                           *)
LEMMA PastMoves ==
    ASSUME BenchmpAssumption, BTyped, NEW S, NEW c \in B!Children, NEW k,
           job' = job, child' = [child EXCEPT ![c] = k]
    PROVE  /\ (child[c].st \in S <=> k.st \in S) => Past(S)' = Past(S)
           /\ c \notin Jobs => Past(S)' = Past(S)
           /\ c \in Jobs /\ child[c].st \in S /\ k.st \notin S =>
                Cardinality(Past(S)') = Cardinality(Past(S)) + 1
           /\ (k.st \in S => child[c].st \in S) =>
                /\ Cardinality(Past(S)') \in Nat
                /\ Cardinality(Past(S)) <= Cardinality(Past(S)')
<1>1. \A d \in Jobs : child'[d] = IF d = c THEN k ELSE child[d]
  BY JobsFacts DEF BTyped
<1>2. Jobs' = Jobs
  BY DEF Jobs
<1>3. (child[c].st \in S <=> k.st \in S) \/ c \notin Jobs => Past(S)' = Past(S)
  BY <1>1, <1>2 DEF Past
<1>4. ASSUME c \in Jobs, child[c].st \in S, k.st \notin S
      PROVE  Cardinality(Past(S)') = Cardinality(Past(S)) + 1
  <2>1. Past(S)' = Past(S) \cup {c}
    BY <1>1, <1>2, <1>4 DEF Past
  <2>2. c \notin Past(S)
    BY <1>4 DEF Past
  <2>3. IsFiniteSet(Past(S))
    BY PastFacts
  <2> QED BY <2>1, <2>2, <2>3, FS_AddElement
<1>5. ASSUME k.st \in S => child[c].st \in S
      PROVE  /\ Cardinality(Past(S)') \in Nat
             /\ Cardinality(Past(S)) <= Cardinality(Past(S)')
  <2>1. Cardinality(Past(S)) \in Nat
    BY PastFacts
  <2>2. CASE (child[c].st \in S <=> k.st \in S) \/ c \notin Jobs
    BY <1>3, <2>1, <2>2
  <2>3. CASE c \in Jobs /\ child[c].st \in S /\ k.st \notin S
    BY <1>4, <2>1, <2>3
  <2> QED BY <1>5, <2>2, <2>3
<1> QED BY <1>3, <1>4, <1>5

(* A child that runs, while the pipes are open, is one of the call.          *)
LEMMA RunningJobs ==
    ASSUME BenchmpAssumption, BInv, NEW c \in B!Children, B!Running(c), pipe.open
    PROVE  c \in Jobs
<1>1. ~B!At("dead") /\ parent.pc \in Places /\ parent.i \in Nat /\ parent.i <= job
  BY DEF BInv, BTyped, ParentRecord, Staged, Bounded
<1>2. \E i \in Int : i <= job /\ Left({"none", "reaped"}, i)
  <2>1. CASE B!At("fork") \/ parent.pc \in {"undo", "undowait", "await"}
    BY <1>1, <2>1 DEF BInv, Reaping, Left
  <2>2. CASE parent.pc \in (Leading \ {"fork"}) \cup {"error", "wait"}
    BY <2>2, JobsFacts DEF BInv, Reaping, Left
  <2>3. CASE B!At("returned")
    BY <2>3, JobsFacts DEF BInv, Reaping
  <2> QED BY <1>1, <2>1, <2>2, <2>3 DEF B!At, Places, Leading
<1> QED BY <1>2, JobsFacts DEF B!Running, Left, Jobs, B!Children, BInv

-----------------------------------------------------------------------------
(* Lemmas about one child that moves                                         *)

(* What the parent's loops count and the ends of the lists do not change.    *)
LEMMA ChildFrame ==
    ASSUME BenchmpAssumption, BInv, NEW c \in B!Children, B!Running(c), NEW k,
           job' = job, child' = [child EXCEPT ![c] = k],
           parent'.pc = parent.pc, parent'.i = parent.i,
           c \in Jobs /\ job > 1 /\ k.st \in Asked => k.i = Reps
    PROVE  Indexed' /\ Whole' /\ Reaping'
<1>1. \A d \in B!Children : child'[d] = IF d = c THEN k ELSE child[d]
  BY DEF BInv, BTyped
<1>2. Jobs' = Jobs /\ Jobs \subseteq B!Children
  BY JobsFacts DEF Jobs, BInv
<1>3. Indexed'
  BY DEF BInv, Indexed, B!At
<1>4. Whole'
  BY <1>1, <1>2 DEF BInv, Whole
<1>5. \A i : Left({"none"}, i) => Left({"none"}, i)'
  BY <1>1 DEF Left, B!Running
<1>6. \A i : Left({"none", "reaped"}, i) => Left({"none", "reaped"}, i)'
  BY <1>1 DEF Left, B!Running
<1>7. Reaping'
  BY <1>5, <1>6 DEF BInv, Reaping, B!At, Left
<1> QED BY <1>3, <1>4, <1>7

(* The rounds, when a child moves on in one or ends.                         *)
LEMMA ReadyKept ==
    ASSUME BenchmpAssumption, BTyped, NEW c \in B!Children, NEW k,
           job' = job, child' = [child EXCEPT ![c] = k], Collected \in Nat,
           Collected' \in Nat, Collected' <= Collected,
           StageReady, c \in Jobs => k.st \in Early \cup {"ready"} \cup Gone,
           k.st \in Early => child[c].st \in Early,
           pipe'.response = pipe.response, pipe'.start = pipe.start, pipe'.result = pipe.result
    PROVE  StageReady'
<1>1. \A d \in Jobs : child'[d] = IF d = c THEN k ELSE child[d]
  BY JobsFacts DEF BTyped
<1>2. Jobs' = Jobs
  BY DEF Jobs
<1>3. Only(Early \cup {"ready"})'
  BY <1>1, <1>2 DEF StageReady, Only
<1>4. /\ Cardinality(Past(Early)') \in Nat
      /\ Cardinality(Past(Early)) <= Cardinality(Past(Early)')
  BY PastMoves
<1>5. Len(pipe.response) \in Nat /\ Cardinality(Past(Early)) \in Nat
  BY PastFacts DEF BTyped, PipeRecord
<1> QED BY <1>3, <1>4, <1>5 DEF StageReady

LEMMA DoneKept ==
    ASSUME BenchmpAssumption, BTyped, NEW c \in B!Children, NEW k,
           job' = job, child' = [child EXCEPT ![c] = k], Collected \in Nat,
           Collected' \in Nat, Collected' <= Collected,
           StageDone, c \in Jobs => k.st \in Busy \cup {"cooldown"} \cup Gone,
           k.st \in Busy => child[c].st \in Busy,
           pipe'.response = pipe.response, pipe'.result = pipe.result
    PROVE  StageDone'
<1>1. \A d \in Jobs : child'[d] = IF d = c THEN k ELSE child[d]
  BY JobsFacts DEF BTyped
<1>2. Jobs' = Jobs
  BY DEF Jobs
<1>3. Only(Busy \cup {"cooldown"})'
  BY <1>1, <1>2 DEF StageDone, Only
<1>4. /\ Cardinality(Past(Busy)') \in Nat
      /\ Cardinality(Past(Busy)) <= Cardinality(Past(Busy)')
  BY PastMoves
<1>5. Len(pipe.response) \in Nat /\ Cardinality(Past(Busy)) \in Nat
  BY PastFacts DEF BTyped, PipeRecord
<1> QED BY <1>3, <1>4, <1>5 DEF StageDone

LEMMA ResultKept ==
    ASSUME BenchmpAssumption, BTyped, NEW c \in B!Children, NEW k,
           job' = job, child' = [child EXCEPT ![c] = k],
           StageResult, c \in Jobs => k.st \in Asked \cup Gone,
           pipe'.response = pipe.response, pipe'.result = pipe.result
    PROVE  StageResult'
<1>1. \A d \in Jobs : child'[d] = IF d = c THEN k ELSE child[d]
  BY JobsFacts DEF BTyped
<1>2. Jobs' = Jobs
  BY DEF Jobs
<1>3. Only(Asked)'
  BY <1>1, <1>2 DEF StageResult, Only
<1>4. Results' = Results
  BY DEF Results, B!Children
<1> QED BY <1>3, <1>4 DEF StageResult

(* The results, when no child that has reported comes back.                  *)
LEMMA MergingKept ==
    ASSUME BenchmpAssumption, BInv, NEW c \in B!Children, B!Running(c), NEW k,
           job' = job, child' = [child EXCEPT ![c] = k],
           parent'.pc = parent.pc, parent'.i = parent.i, parent'.merged = parent.merged,
           parent'.time = parent.time, child[c].st = "sent" => k.st \in {"sent"} \cup Gone,
           parent.pc \in {"ask", "gather", "exit"} => pipe'.response = pipe.response
    PROVE  Merging'
<1>1. \A d \in B!Children : child'[d] = IF d = c THEN k ELSE child[d]
  BY DEF BInv, BTyped
<1>2. Jobs' = Jobs /\ Jobs \subseteq B!Children
  BY JobsFacts DEF Jobs, BInv
<1>3. parent.pc \in {"ask", "gather", "exit"} => Gathering'
  <2> SUFFICES ASSUME parent.pc \in {"ask", "gather", "exit"}
               PROVE  Gathering'
    OBVIOUS
  <2>1. Gathering
    BY DEF BInv, Merging
  <2>2. Final(parent.merged)' /\ Reported(parent.merged)'
    BY <1>1, <1>2, <2>1 DEF Gathering, Final, Reported, B!Running, Gone
  <2>3. Final(pipe.response)' /\ Reported(pipe.response)'
    BY <1>1, <1>2, <2>1 DEF Gathering, Final, Reported, B!Running, Gone
  <2>4. Distinct(parent.merged)' /\ Apart(parent.merged, pipe.response)'
    BY <2>1 DEF Gathering, Distinct, Apart
  <2> QED BY <2>1, <2>2, <2>3, <2>4 DEF Gathering, B!At
<1>4. Merged => Merged'
  BY <1>2 DEF Merged, Distinct, Final
<1> QED BY <1>3, <1>4 DEF BInv, Merging

(* The count of collected bytes is a number and depends on the parent only.  *)
LEMMA CollectedSame ==
    ASSUME BTyped
    PROVE  /\ Collected \in Nat
           /\ parent'.pc = parent.pc /\ parent'.i = parent.i =>
                Collected' = Collected /\ Collected' \in Nat /\ Collected' <= Collected
BY DEF Collected, BTyped, ParentRecord

(* A child ends, by itself or by a signal that is not its parent's.          *)
LEMMA EndingStep ==
    ASSUME BenchmpAssumption, BInv, NEW c \in B!Children, B!Running(c), B!Dies(c),
           job' = job, faults' \in 0..MaxFaults, faults' = faults + 1 \/ faults' = faults,
           pipe' \in PipeRecord, pipe'.response = pipe.response, pipe'.start = pipe.start,
           pipe'.result = pipe.result, pipe'.open = pipe.open, pipe'.exit <= pipe.exit,
           pipe.open => pipe'.exit = pipe.exit,
           faults' = 0 => parent.pc \notin Leading
    PROVE  BInv'
<1> DEFINE k == [child[c] EXCEPT !.st = "zombie"]
<1>1. BTyped
  BY DEF BInv
<1>2. child[c] \in ChildRecord
  BY <1>1 DEF BTyped
<1>3. k \in ChildRecord /\ k.st = "zombie" /\ k.i = child[c].i /\ k.rcv = child[c].rcv
  BY <1>2 DEF ChildRecord, States, Gone
<1>4. child' = [child EXCEPT ![c] = k]
  BY <1>1 DEF B!Dies, BTyped
<1>5. /\ parent' \in ParentRecord
      /\ parent'.pc = parent.pc /\ parent'.i = parent.i /\ parent'.merged = parent.merged
      /\ parent'.time = parent.time /\ parent'.sigterm = parent.sigterm
  BY <1>1 DEF B!Dies, B!Noticed, BTyped, ParentRecord
<1> HIDE DEF k
<1>6. BTyped'
  BY <1>1, <1>3, <1>4, <1>5
     DEF BTyped, ParentRecord, ChildRecord, PipeRecord, Results, Messages, B!Children
<1>7. Bounded'
  <2>1. job \in Nat /\ pipe.exit \in Nat /\ pipe'.exit \in Nat
    BY <1>1, JobsFacts DEF BTyped, PipeRecord
  <2> QED BY <1>5, <2>1 DEF BInv, Bounded
<1>8. Collected \in Nat /\ Collected' \in Nat /\ Collected' <= Collected
  BY <1>1, <1>5, CollectedSame
<1>9. Staged'
  <2>1. k.st \in Gone /\ k.st \notin Early /\ k.st \notin Busy
    BY <1>3 DEF Gone, Early, Busy
  <2>2. ASSUME StageReady PROVE StageReady'
    BY <1>1, <1>4, <1>8, <2>1, <2>2, ReadyKept
  <2>3. ASSUME StageDone PROVE StageDone'
    BY <1>1, <1>4, <1>8, <2>1, <2>3, DoneKept
  <2>4. StageResult => StageResult'
    BY <1>1, <1>4, <2>1, ResultKept
  <2>5. Only({"ready"}) => Only({"ready"})'
    <3>1. \A d \in Jobs : child'[d] = IF d = c THEN k ELSE child[d]
      BY <1>1, <1>4, JobsFacts DEF BTyped
    <3> QED BY <2>1, <3>1 DEF Only, Jobs
  <2> QED BY <1>5, <2>2, <2>3, <2>4, <2>5 DEF BInv, Staged, B!At
<1>10. Indexed' /\ Whole' /\ Reaping'
  BY <1>3, <1>4, <1>5, ChildFrame DEF Asked
<1>11. Merging'
  BY <1>3, <1>4, <1>5, MergingKept DEF Gone
<1>12. Faultless'
  <2> SUFFICES ASSUME faults' = 0
               PROVE  Faultless'
    BY DEF Faultless
  <2>1. faults = 0
    BY <1>1 DEF BTyped
  <2>2. ~parent.sigterm /\ parent.pc \in {"await", "returned"} /\ ~pipe.open /\ Only(Asked)
    BY <2>1 DEF BInv, Faultless
  <2>3. \A d \in Jobs : child'[d] = IF d = c THEN k ELSE child[d]
    BY <1>1, <1>4, JobsFacts DEF BTyped
  <2>4. Only(Asked)'
    BY <1>3, <2>2, <2>3 DEF Only, Jobs, Gone
  <2> QED BY <1>5, <2>2, <2>4 DEF Faultless, Leading
<1> QED BY <1>6, <1>7, <1>9, <1>10, <1>11, <1>12 DEF BInv

(* A child moves on without ending, when the round it is in allows it.       *)
LEMMA MovingStep ==
    ASSUME BenchmpAssumption, BInv, NEW c \in B!Children, B!Running(c), NEW k \in ChildRecord,
           child' = [child EXCEPT ![c] = k], UNCHANGED <<job, parent>>,
           faults' \in 0..MaxFaults, faults' = faults + 1 \/ faults' = faults,
           k.st \notin Gone, k.rcv = child[c].rcv, child[c].st \in Asked => k.st \in Asked,
           c \in Jobs /\ job > 1 /\ k.st \in Asked => k.i = Reps,
           pipe' \in PipeRecord, pipe'.open = pipe.open, Bounded', Staged', Merging'
    PROVE  BInv'
<1>1. BTyped
  BY DEF BInv
<1>2. BTyped'
  BY <1>1 DEF BTyped, ParentRecord, ChildRecord, PipeRecord, Results, Messages, B!Children
<1>3. Indexed' /\ Whole' /\ Reaping'
  BY ChildFrame
<1>4. Faultless'
  <2> SUFFICES ASSUME faults' = 0
               PROVE  Faultless'
    BY DEF Faultless
  <2>1. faults = 0
    BY <1>1 DEF BTyped
  <2>2. \A d \in B!Children : child'[d] = IF d = c THEN k ELSE child[d]
    BY <1>1 DEF BTyped
  <2>3. CASE parent.pc \in Leading
    BY <2>1, <2>2, <2>3 DEF BInv, Faultless
  <2>4. CASE parent.pc \notin Leading
    <3>1. Only(Asked)'
      BY <1>1, <2>1, <2>2, <2>4, JobsFacts DEF BInv, Faultless, Only, Jobs, B!Running, Gone
    <3> QED BY <2>1, <2>4, <3>1 DEF BInv, Faultless
  <2> QED BY <2>3, <2>4
<1> QED BY <1>2, <1>3, <1>4 DEF BInv

(* The rounds, when a child moves within one: it does not answer, and what   *)
(* it reads is at most the byte that starts the measurement.                 *)
LEMMA StagedKept ==
    ASSUME BenchmpAssumption, BInv, NEW c \in B!Children, B!Running(c), NEW k,
           job' = job, child' = [child EXCEPT ![c] = k], UNCHANGED parent,
           pipe'.response = pipe.response, pipe'.result = pipe.result,
           pipe'.open = pipe.open, pipe'.exit = pipe.exit,
           pipe.start = 0 => pipe'.start = pipe.start,
           \/ child[c].st \in {"init", "warmup"} /\ k.st \in {"init", "warmup"}
           \/ /\ child[c].st \in Busy /\ k.st = "timing"
              /\ child[c].st = "ready" => ~pipe.open \/ pipe.start # 0
           \/ /\ child[c].st \in Asked /\ k.st \in Asked
              /\ child[c].st = "cooldown" => k.st = "cooldown" \/ ~pipe.open \/ pipe.result # 0
    PROVE  Staged'
<1>1. CASE ~pipe.open
  BY <1>1 DEF BInv, Staged, B!At, Leading
<1>2. CASE pipe.open
  <2>1. c \in Jobs /\ BTyped
    BY <1>2, RunningJobs DEF BInv
  <2>2. Collected \in Nat /\ Collected' \in Nat /\ Collected' <= Collected
    BY <2>1, CollectedSame
  <2>3. ASSUME StageReady PROVE StageReady' /\ ~Only({"ready"})
    <3>1. child[c].st \in {"init", "warmup"} /\ k.st \in {"init", "warmup"}
      BY <1>2, <2>1, <2>3 DEF StageReady, Only, Early, Busy, Asked, Gone
    <3>2. child[c].st \in Early /\ k.st \in Early /\ child[c].st \notin {"ready"} \cup Gone
      BY <3>1 DEF Early, Gone
    <3>3. pipe'.start = pipe.start
      BY <2>3 DEF StageReady
    <3> QED BY <2>1, <2>2, <2>3, <3>2, <3>3, ReadyKept DEF Only
  <2>4. ASSUME StageDone PROVE StageDone'
    <3>1. child[c].st \in Busy \cup {"cooldown"}
      BY <2>1, <2>4 DEF StageDone, Only, B!Running, Gone
    <3>2. CASE child[c].st \in Busy
      <4>1. k.st \in Busy
        BY <3>2 DEF Busy, Asked
      <4> QED BY <2>1, <2>2, <2>4, <3>2, <4>1, DoneKept
    <3>3. CASE child[c].st = "cooldown"
      <4>1. k.st = "cooldown"
        BY <1>2, <2>4, <3>3 DEF StageDone, Busy
      <4> QED BY <2>1, <2>2, <2>4, <4>1, DoneKept DEF Busy
    <3> QED BY <3>1, <3>2, <3>3
  <2>5. ASSUME StageResult PROVE StageResult'
    <3>1. k.st \in Asked
      BY <2>1, <2>5 DEF StageResult, Only, B!Running, Gone, Asked, Busy
    <3> QED BY <2>1, <2>5, <3>1, ResultKept
  <2>6. ~B!At("start")
    BY <1>2, <2>3 DEF BInv, Staged, B!At
  <2> QED BY <1>2, <2>3, <2>4, <2>5, <2>6 DEF BInv, Staged, B!At
<1> QED BY <1>1, <1>2

-----------------------------------------------------------------------------
(* The steps of a child                                                      *)

(* The record of the child after Goto.                                       *)
LEMMA GotoRecord ==
    ASSUME BTyped, NEW c \in B!Children, NEW st \in States, child' = [child EXCEPT ![c].st = st]
    PROVE  \E k \in ChildRecord : /\ child' = [child EXCEPT ![c] = k]
                                  /\ k.st = st /\ k.i = child[c].i /\ k.rcv = child[c].rcv
<1> DEFINE k == [child[c] EXCEPT !.st = st]
<1>1. child[c] \in ChildRecord
  BY DEF BTyped
<1>2. k \in ChildRecord /\ k.st = st /\ k.i = child[c].i /\ k.rcv = child[c].rcv
  BY <1>1 DEF ChildRecord
<1>3. child' = [child EXCEPT ![c] = k]
  BY DEF BTyped
<1> QED BY <1>2, <1>3

LEMMA InitialisedStep ==
    ASSUME BenchmpAssumption, BInv, NEW c \in B!Children, B!Initialised(c)
    PROVE  BInv'
<1>1. BTyped /\ B!Running(c) /\ child[c].st = "init" /\ UNCHANGED <<job, pipe, faults>>
  BY DEF BInv, B!Initialised, B!Step
<1>2. pipe \in PipeRecord /\ pipe.exit \in Nat /\ faults \in 0..MaxFaults
  BY <1>1 DEF BTyped, PipeRecord
<1>3. CASE child[c].rcv
  <2>1. B!Dies(c)
    BY <1>3 DEF B!Initialised
  <2>2. faults = 0 => parent.pc \notin Leading
    BY <1>3 DEF BInv, Faultless
  <2> QED BY <1>1, <1>2, <2>1, <2>2, EndingStep
<1>4. CASE ~child[c].rcv
  <2>1. child' = [child EXCEPT ![c].st = "warmup"] /\ UNCHANGED parent
    BY <1>4 DEF B!Initialised, B!Goto
  <2>2. PICK k \in ChildRecord : /\ child' = [child EXCEPT ![c] = k]
                                 /\ k.st = "warmup" /\ k.i = child[c].i /\ k.rcv = child[c].rcv
    <3>1. BTyped /\ "warmup" \in States
      BY <1>1 DEF States, Alive
    <3> QED BY <2>1, <3>1, GotoRecord
  <2>3. Staged'
    BY <1>1, <2>1, <2>2, StagedKept
  <2>4. Merging'
    BY <1>1, <2>1, <2>2, MergingKept
  <2>5. Bounded'
    BY <1>1, <2>1 DEF BInv, Bounded
  <2> QED BY <1>1, <1>2, <2>1, <2>2, <2>3, <2>4, <2>5, MovingStep DEF Gone, Asked
<1> QED BY <1>3, <1>4

(* A byte that a child writes answers a round that it is in: there is room   *)
(* for it, and no results are being gathered.                                *)
LEMMA SendReadyStep ==
    ASSUME BenchmpAssumption, BInv, NEW c \in B!Children, B!SendReady(c)
    PROVE  BInv'
<1>1. BTyped /\ B!Running(c) /\ child[c].st = "warmup" /\ UNCHANGED <<job, faults>>
  BY DEF BInv, B!SendReady, B!Step
<1>2. pipe \in PipeRecord /\ pipe.exit \in Nat /\ faults \in 0..MaxFaults
  BY <1>1 DEF BTyped, PipeRecord
<1>3. CASE ~pipe.open
  <2>1. B!Dies(c) /\ pipe' = pipe
    BY <1>3 DEF B!SendReady, B!Write
  <2>2. faults = 0 => parent.pc \notin Leading
    BY <1>3 DEF BInv, Staged
  <2> QED BY <1>1, <1>2, <2>1, <2>2, EndingStep
<1>4. CASE pipe.open
  <2>1. /\ child' = [child EXCEPT ![c].st = "ready"] /\ UNCHANGED parent
        /\ pipe' = [pipe EXCEPT !.response = Append(pipe.response, "ready")]
    BY <1>4 DEF B!SendReady, B!Write, B!Goto
  <2>2. PICK k \in ChildRecord : /\ child' = [child EXCEPT ![c] = k]
                                 /\ k.st = "ready" /\ k.i = child[c].i /\ k.rcv = child[c].rcv
    <3>1. BTyped /\ "ready" \in States
      BY <1>1 DEF States, Alive
    <3> QED BY <2>1, <3>1, GotoRecord
  <2>3. /\ pipe.response \in Seq(Messages) /\ Len(pipe.response) \in Nat
        /\ Append(pipe.response, "ready") \in Seq(Messages)
        /\ Len(Append(pipe.response, "ready")) = Len(pipe.response) + 1
    BY <1>2 DEF PipeRecord, Messages
  <2>4. /\ pipe' \in PipeRecord /\ pipe'.response = Append(pipe.response, "ready")
        /\ pipe'.start = pipe.start /\ pipe'.result = pipe.result
        /\ pipe'.exit = pipe.exit /\ pipe'.open = pipe.open
    BY <1>2, <2>1, <2>3 DEF PipeRecord
  <2>5. c \in Jobs
    BY <1>1, <1>4, RunningJobs
  <2>6. ~StageDone /\ ~StageResult /\ ~Only({"ready"})
    BY <1>1, <2>5 DEF StageDone, StageResult, Only, Busy, Asked, Gone
  <2>7. StageReady /\ parent.pc \notin {"start", "done", "ask", "gather", "exit"}
    BY <1>4, <2>6 DEF BInv, Staged, B!At
  <2>8. /\ Cardinality(Past(Early)) \in Nat /\ Cardinality(Past(Early)) < job
        /\ Cardinality(Past(Early)') = Cardinality(Past(Early)) + 1
    <3>1. child[c].st \in Early /\ k.st \notin Early
      BY <1>1, <2>2 DEF Early
    <3>2. Cardinality(Past(Early)) \in Nat /\ ~(job <= Cardinality(Past(Early)))
      BY <1>1, <2>5, <3>1, PastFacts
    <3>3. Cardinality(Past(Early)') = Cardinality(Past(Early)) + 1
      BY <1>1, <2>2, <2>5, <3>1, PastMoves
    <3> QED BY <1>1, <3>2, <3>3, JobsFacts
  <2>9. Collected \in Nat /\ Collected' = Collected
    BY <1>1, <2>1, CollectedSame
  <2>10. StageReady'
    <3>1. \A d \in Jobs : child'[d] = IF d = c THEN k ELSE child[d]
      BY <1>1, <2>2, JobsFacts DEF BTyped
    <3>2. Only(Early \cup {"ready"})'
      BY <1>1, <2>2, <2>7, <3>1 DEF StageReady, Only, Jobs
    <3>3. Len(pipe'.response) + Collected' <= Cardinality(Past(Early)')
      BY <2>3, <2>4, <2>7, <2>8, <2>9 DEF StageReady
    <3> QED BY <2>4, <2>7, <3>2, <3>3 DEF StageReady
  <2>11. Staged'
    BY <1>4, <2>1, <2>4, <2>7, <2>10 DEF BInv, Staged, B!At
  <2>12. Bounded'
    <3>1. Len(pipe'.response) <= job
      BY <1>1, <2>3, <2>4, <2>7, <2>8, <2>9, JobsFacts DEF StageReady
    <3> QED BY <1>1, <2>1, <2>4, <3>1 DEF BInv, Bounded
  <2>13. Merging'
    BY <1>1, <2>1, <2>2, <2>7, MergingKept
  <2> QED BY <1>1, <1>2, <2>1, <2>2, <2>4, <2>11, <2>12, <2>13, MovingStep DEF Gone, Asked
<1> QED BY <1>3, <1>4

(* The pipes after a read.                                                   *)
LEMMA TakenRecord ==
    ASSUME pipe \in PipeRecord
    PROVE  /\ \A name \in {"start", "result", "exit"} :
                /\ B!Taken(name) \in PipeRecord
                /\ B!Taken(name).response = pipe.response /\ B!Taken(name).open = pipe.open
           /\ LET t == B!Taken("start") IN
                /\ t.result = pipe.result /\ t.exit = pipe.exit
                /\ t.start <= pipe.start /\ (pipe.start = 0 => t.start = 0)
           /\ LET t == B!Taken("exit") IN
                /\ t.result = pipe.result /\ t.start = pipe.start
                /\ t.exit <= pipe.exit
           /\ LET t == B!Taken("result") IN
                /\ t.start = pipe.start /\ t.exit = pipe.exit
                /\ t.result = IF pipe.result > 0 THEN pipe.result - 1 ELSE 0
BY DEF B!Taken, PipeRecord

LEMMA StartedStep ==
    ASSUME BenchmpAssumption, BInv, NEW c \in B!Children, B!Started(c)
    PROVE  BInv'
<1>1. /\ BTyped /\ B!Running(c) /\ child[c].st = "ready" /\ UNCHANGED <<job, parent, faults>>
      /\ child' = [child EXCEPT ![c].st = "timing"] /\ pipe' = B!Taken("start")
      /\ pipe.start > 0 \/ ~pipe.open
  BY DEF BInv, B!Started, B!Step, B!Goto, B!Readable
<1>2. pipe \in PipeRecord /\ pipe.start \in Nat /\ faults \in 0..MaxFaults
  BY <1>1 DEF BTyped, PipeRecord
<1>3. /\ pipe' \in PipeRecord /\ pipe'.start \in Nat
      /\ pipe'.response = pipe.response /\ pipe'.open = pipe.open
      /\ pipe'.result = pipe.result /\ pipe'.exit = pipe.exit
      /\ pipe'.start <= pipe.start /\ (pipe.start = 0 => pipe'.start = pipe.start)
  BY <1>1, <1>2, TakenRecord DEF PipeRecord
<1>4. PICK k \in ChildRecord : /\ child' = [child EXCEPT ![c] = k]
                               /\ k.st = "timing" /\ k.i = child[c].i /\ k.rcv = child[c].rcv
  <2>1. BTyped /\ child' = [child EXCEPT ![c].st = "timing"] /\ "timing" \in States
    BY <1>1 DEF States, Alive
  <2> QED BY <2>1, GotoRecord
<1>5. Staged'
  <2>1. /\ child[c].st \in Busy /\ k.st = "timing"
        /\ child[c].st = "ready" => ~pipe.open \/ pipe.start # 0
    BY <1>1, <1>2, <1>4 DEF Busy
  <2> QED BY <1>1, <1>3, <1>4, <2>1, StagedKept
<1>6. Merging'
  BY <1>1, <1>3, <1>4, MergingKept
<1>7. Bounded'
  BY <1>1, <1>2, <1>3, JobsFacts DEF BInv, Bounded
<1> QED BY <1>1, <1>2, <1>3, <1>4, <1>5, <1>6, <1>7, MovingStep DEF Gone, Asked

LEMMA MeasureStep ==
    ASSUME BenchmpAssumption, BInv, NEW c \in B!Children, B!Measure(c)
    PROVE  BInv'
<1> DEFINE k == [child[c] EXCEPT !.i = child[c].i + 1]
<1>1. /\ BTyped /\ B!Running(c) /\ child[c].st = "timing" /\ child[c].i < Reps - 1
      /\ UNCHANGED <<job, parent, pipe, faults>>
  BY DEF BInv, B!Measure, B!Step
<1>2. child[c] \in ChildRecord /\ pipe \in PipeRecord /\ faults \in 0..MaxFaults
  BY <1>1 DEF BTyped
<1>3. k \in ChildRecord /\ k.st = "timing" /\ k.rcv = child[c].rcv
  BY <1>1, <1>2, JobsFacts DEF ChildRecord
<1>4. child' = [child EXCEPT ![c] = k]
  BY <1>1 DEF B!Measure, BTyped
<1> HIDE DEF k
<1>5. Staged'
  BY <1>1, <1>3, <1>4, StagedKept DEF Busy
<1>6. Merging'
  BY <1>1, <1>3, <1>4, MergingKept
<1>7. Bounded'
  BY <1>1 DEF BInv, Bounded
<1> QED BY <1>1, <1>2, <1>3, <1>4, <1>5, <1>6, <1>7, MovingStep DEF Gone, Asked

LEMMA MeasureLastStep ==
    ASSUME BenchmpAssumption, BInv, NEW c \in B!Children, B!MeasureLast(c)
    PROVE  BInv'
<1>1. BTyped /\ B!Running(c) /\ child[c].st = "timing" /\ UNCHANGED <<job, faults>>
  BY DEF BInv, B!MeasureLast, B!Step
<1>2. /\ pipe \in PipeRecord /\ pipe.exit \in Nat /\ faults \in 0..MaxFaults
      /\ child[c] \in ChildRecord
  BY <1>1 DEF BTyped, PipeRecord
<1>3. CASE ~pipe.open
  <2>1. B!Dies(c) /\ pipe' = pipe
    BY <1>3 DEF B!MeasureLast
  <2>2. faults = 0 => parent.pc \notin Leading
    BY <1>3 DEF BInv, Staged
  <2> QED BY <1>1, <1>2, <2>1, <2>2, EndingStep
<1>4. CASE pipe.open
  <2>1. PICK n \in {Reps} \cup (IF job = 1 THEN 0..child[c].i ELSE {}) :
            /\ child' = [child EXCEPT ![c].st = "cooldown", ![c].i = n]
            /\ pipe' = [pipe EXCEPT !.response = Append(pipe.response, "done")]
            /\ UNCHANGED parent
    BY <1>4 DEF B!MeasureLast
  <2> DEFINE k == [child[c] EXCEPT !.st = "cooldown", !.i = n]
  <2>2. /\ n \in 0..Reps /\ (job > 1 => n = Reps)
    BY <1>1, <1>2, <2>1, JobsFacts DEF ChildRecord
  <2>3. /\ k \in ChildRecord /\ k.st = "cooldown" /\ k.i = n /\ k.rcv = child[c].rcv
        /\ child' = [child EXCEPT ![c] = k]
    BY <1>1, <1>2, <2>1, <2>2 DEF ChildRecord, States, Alive, BTyped
  <2> HIDE DEF k
  <2>4. /\ pipe.response \in Seq(Messages) /\ Len(pipe.response) \in Nat
        /\ Append(pipe.response, "done") \in Seq(Messages)
        /\ Len(Append(pipe.response, "done")) = Len(pipe.response) + 1
    BY <1>2 DEF PipeRecord, Messages
  <2>5. /\ pipe' \in PipeRecord /\ pipe'.response = Append(pipe.response, "done")
        /\ pipe'.start = pipe.start /\ pipe'.result = pipe.result
        /\ pipe'.exit = pipe.exit /\ pipe'.open = pipe.open
    BY <1>2, <2>1, <2>4 DEF PipeRecord
  <2>6. c \in Jobs
    BY <1>1, <1>4, RunningJobs
  <2>7. ~StageReady /\ ~StageResult
    BY <1>1, <2>6 DEF StageReady, StageResult, Only, Early, Asked, Gone
  <2>8. StageDone /\ parent.pc \notin {"fork", "ready", "start", "ask", "gather", "exit"}
    BY <1>4, <2>7 DEF BInv, Staged, B!At
  <2>9. /\ Cardinality(Past(Busy)) \in Nat /\ Cardinality(Past(Busy)) < job
        /\ Cardinality(Past(Busy)') = Cardinality(Past(Busy)) + 1
    <3>1. child[c].st \in Busy /\ k.st \notin Busy
      BY <1>1, <2>3 DEF Busy
    <3>2. Cardinality(Past(Busy)) \in Nat /\ ~(job <= Cardinality(Past(Busy)))
      BY <1>1, <2>6, <3>1, PastFacts
    <3>3. Cardinality(Past(Busy)') = Cardinality(Past(Busy)) + 1
      BY <1>1, <2>3, <2>6, <3>1, PastMoves
    <3> QED BY <1>1, <3>2, <3>3, JobsFacts
  <2>10. Collected \in Nat /\ Collected' = Collected
    BY <1>1, <2>1, CollectedSame
  <2>11. StageDone'
    <3>1. \A d \in Jobs : child'[d] = IF d = c THEN k ELSE child[d]
      BY <1>1, <2>3, JobsFacts DEF BTyped
    <3>2. Only(Busy \cup {"cooldown"})'
      BY <1>1, <2>3, <2>8, <3>1 DEF StageDone, Only, Jobs
    <3>3. Len(pipe'.response) + Collected' <= Cardinality(Past(Busy)')
      BY <2>4, <2>5, <2>8, <2>9, <2>10 DEF StageDone
    <3> QED BY <2>5, <2>8, <3>2, <3>3 DEF StageDone
  <2>12. Staged'
    BY <1>4, <2>1, <2>5, <2>8, <2>11 DEF BInv, Staged, B!At
  <2>13. Bounded'
    <3>1. Len(pipe'.response) <= job
      BY <1>1, <2>4, <2>5, <2>8, <2>9, <2>10, JobsFacts DEF StageDone
    <3> QED BY <1>1, <2>1, <2>5, <3>1 DEF BInv, Bounded
  <2>14. Merging'
    BY <1>1, <2>1, <2>3, <2>8, MergingKept
  <2> QED BY <1>1, <1>2, <2>1, <2>2, <2>3, <2>5, <2>12, <2>13, <2>14, MovingStep DEF Gone, Asked
<1> QED BY <1>3, <1>4

LEMMA SeesRequestStep ==
    ASSUME BenchmpAssumption, BInv, NEW c \in B!Children, B!SeesRequest(c)
    PROVE  BInv'
<1>1. /\ BTyped /\ B!Running(c) /\ child[c].st = "cooldown"
      /\ UNCHANGED <<job, parent, pipe, faults>>
      /\ child' = [child EXCEPT ![c].st = "asked"] /\ (pipe.result > 0 \/ ~pipe.open)
  BY DEF BInv, B!SeesRequest, B!Step, B!Goto, B!Readable
<1>2. pipe \in PipeRecord /\ pipe.result \in Nat /\ faults \in 0..MaxFaults
  BY <1>1 DEF BTyped, PipeRecord
<1>3. PICK k \in ChildRecord : /\ child' = [child EXCEPT ![c] = k]
                               /\ k.st = "asked" /\ k.i = child[c].i /\ k.rcv = child[c].rcv
  <2>1. BTyped /\ child' = [child EXCEPT ![c].st = "asked"] /\ "asked" \in States
    BY <1>1 DEF States, Alive
  <2> QED BY <2>1, GotoRecord
<1>4. Staged'
  <2>1. /\ child[c].st \in Asked /\ k.st \in Asked
        /\ child[c].st = "cooldown" => k.st = "cooldown" \/ ~pipe.open \/ pipe.result # 0
    BY <1>1, <1>2, <1>3 DEF Asked
  <2> QED BY <1>1, <1>3, <2>1, StagedKept
<1>5. Merging'
  BY <1>1, <1>3, MergingKept
<1>6. Bounded'
  BY <1>1 DEF BInv, Bounded
<1>7. job > 1 /\ c \in Jobs => k.i = Reps
  BY <1>1, <1>3 DEF BInv, Whole, Asked
<1> QED BY <1>1, <1>2, <1>3, <1>4, <1>5, <1>6, <1>7, MovingStep DEF Gone, Asked

(* The token goes back as a result, the only one of its child.               *)
LEMMA ReportStep ==
    ASSUME BenchmpAssumption, BInv, NEW c \in B!Children, B!Report(c)
    PROVE  BInv'
<1>1. /\ BTyped /\ B!Running(c) /\ child[c].st = "asked" /\ UNCHANGED <<job, faults>>
      /\ pipe.result > 0 \/ ~pipe.open
  BY DEF BInv, B!Report, B!Step, B!Readable
<1>2. /\ pipe \in PipeRecord /\ pipe.exit \in Nat /\ faults \in 0..MaxFaults
      /\ child[c] \in ChildRecord /\ pipe.result \in Nat
  BY <1>1 DEF BTyped, PipeRecord
<1>3. CASE ~pipe.open
  <2>1. B!Dies(c) /\ pipe' = pipe
    BY <1>3 DEF B!Report
  <2>2. faults = 0 => parent.pc \notin Leading
    BY <1>3 DEF BInv, Staged
  <2> QED BY <1>1, <1>2, <2>1, <2>2, EndingStep
<1>4. CASE pipe.open
  <2> DEFINE m == [from |-> c, n |-> child[c].i]
  <2>1. /\ child' = [child EXCEPT ![c].st = "sent"] /\ UNCHANGED parent
        /\ pipe' = [B!Taken("result") EXCEPT !.response = Append(B!Taken("result").response, m)]
    BY <1>4 DEF B!Report, B!AfterReport, B!Goto
  <2>2. PICK k \in ChildRecord : /\ child' = [child EXCEPT ![c] = k]
                                 /\ k.st = "sent" /\ k.i = child[c].i /\ k.rcv = child[c].rcv
    <3>1. BTyped /\ "sent" \in States
      BY <1>1 DEF States, Alive
    <3> QED BY <2>1, <3>1, GotoRecord
  <2>3. m \in Results /\ m.from = c /\ m.n = child[c].i
    BY <1>2 DEF ChildRecord, Results
  <2> HIDE DEF m
  <2>4. c \in Jobs
    BY <1>1, <1>4, RunningJobs
  <2>5. StageResult /\ parent.pc \notin {"fork", "ready", "start", "done", "ask"}
    <3>1. ~StageReady /\ ~StageDone
      BY <1>1, <1>2, <1>4 DEF StageReady, StageDone
    <3> QED BY <1>1, <1>2, <1>4, <3>1 DEF BInv, Staged, B!At
  <2>6. pipe.result = 1 /\ pipe.response = <<>>
    <3>1. pipe.response \in Seq(Messages) /\ Len(pipe.response) \in Nat
      BY <1>2 DEF PipeRecord
    <3>2. pipe.result = 1 /\ Len(pipe.response) = 0
      BY <1>1, <1>2, <1>4, <2>5, <3>1 DEF StageResult
    <3> QED BY <3>1, <3>2
  <2>7. /\ pipe' \in PipeRecord /\ pipe'.response = <<m>>
        /\ pipe'.start = pipe.start /\ pipe'.result = 0
        /\ pipe'.exit = pipe.exit /\ pipe'.open = pipe.open
    <3>1. /\ B!Taken("result") \in PipeRecord /\ B!Taken("result").response = <<>>
          /\ B!Taken("result").open = pipe.open /\ B!Taken("result").exit = pipe.exit
          /\ B!Taken("result").start = pipe.start /\ B!Taken("result").result = 0
      BY <1>2, <2>6, TakenRecord
    <3>2. Append(B!Taken("result").response, m) = <<m>> /\ <<m>> \in Seq(Messages)
      <4>1. m \in Messages
        BY <2>3 DEF Messages
      <4>2. Append(<<>>, m) = <<m>> /\ <<m>> \in Seq(Messages)
        BY <4>1
      <4> QED BY <3>1, <4>2
    <3> QED BY <2>1, <3>1, <3>2 DEF PipeRecord
  <2>8. Len(pipe'.response) = 1 /\ pipe'.response[1] = m
    BY <2>7
  <2>9. \A d \in B!Children : child'[d] = IF d = c THEN k ELSE child[d]
    BY <1>1, <2>2 DEF BTyped
  <2>10. Jobs' = Jobs /\ Jobs \subseteq B!Children /\ Results' = Results
    BY <1>1, JobsFacts DEF Jobs, Results, B!Children
  <2>11. StageResult'
    <3>1. Only(Asked)'
      BY <2>2, <2>5, <2>9, <2>10 DEF StageResult, Only, Asked
    <3> QED BY <2>3, <2>7, <2>8, <2>10, <3>1 DEF StageResult
  <2>12. Staged'
    BY <1>4, <2>1, <2>5, <2>7, <2>11 DEF BInv, Staged, B!At
  <2>13. Bounded'
    BY <1>1, <1>2, <2>1, <2>7, <2>8, JobsFacts DEF BInv, Bounded
  <2>14. Merging'
    <3>1. ASSUME parent.pc \in {"ask", "gather", "exit"} PROVE Gathering'
      <4>1. Gathering
        BY <3>1 DEF BInv, Merging
      <4>2. \A l \in 1..Len(parent.merged) :
                /\ parent.merged[l].from \in Jobs /\ parent.merged[l].from # c
                /\ child'[parent.merged[l].from] = child[parent.merged[l].from]
        BY <1>1, <2>9, <2>10, <4>1 DEF Gathering, Final, Reported, Gone
      <4>3. Final(parent.merged)' /\ Reported(parent.merged)' /\ Distinct(parent.merged)'
        BY <1>1, <2>1, <2>10, <4>1, <4>2 DEF Gathering, Final, Reported, Distinct
      <4>4. Apart(parent.merged, pipe.response)'
        BY <2>1, <2>3, <2>8, <4>2 DEF Apart
      <4>5. m.n = Reps \/ job <= 1
        BY <1>1, <2>3, <2>4, JobsFacts DEF BInv, Whole, Asked
      <4>6. Final(pipe.response)' /\ Reported(pipe.response)'
        BY <1>1, <2>2, <2>3, <2>4, <2>8, <2>9, <2>10, <4>5, JobsFacts DEF Final, Reported
      <4> QED BY <1>1, <2>1, <4>1, <4>3, <4>4, <4>6 DEF Gathering, B!At
    <3>2. Merged => Merged'
      BY <1>1, <2>1 DEF Merged, Distinct, Final, Jobs
    <3> QED BY <2>1, <2>5, <3>1, <3>2 DEF BInv, Merging
  <2>15. job > 1 => k.i = Reps
    BY <1>1, <2>2, <2>4 DEF BInv, Whole, Asked
  <2> QED BY <1>1, <1>2, <2>1, <2>2, <2>7, <2>12, <2>13, <2>14, <2>15, MovingStep DEF Gone, Asked
<1> QED BY <1>3, <1>4

LEMMA ExitStep ==
    ASSUME BenchmpAssumption, BInv, NEW c \in B!Children, B!Exit(c)
    PROVE  BInv'
<1>1. /\ BTyped /\ B!Running(c) /\ B!Dies(c) /\ UNCHANGED <<job, faults>> /\ pipe' = B!Taken("exit")
      /\ pipe.exit > 0 \/ ~pipe.open
  BY DEF BInv, B!Exit, B!Step, B!Readable
<1>2. /\ pipe \in PipeRecord /\ faults \in 0..MaxFaults /\ pipe.exit \in Nat
  BY <1>1 DEF BTyped, PipeRecord
<1>3. ~pipe.open /\ parent.pc \notin Leading
  BY <1>1, <1>2 DEF BInv, Staged
<1>4. /\ pipe' \in PipeRecord /\ pipe'.response = pipe.response /\ pipe'.start = pipe.start
      /\ pipe'.result = pipe.result /\ pipe'.open = pipe.open /\ pipe'.exit <= pipe.exit
  BY <1>1, <1>2, TakenRecord
<1> QED BY <1>1, <1>2, <1>3, <1>4, EndingStep

LEMMA OrphanedStep ==
    ASSUME BenchmpAssumption, BInv, NEW c \in B!Children, B!Orphaned(c)
    PROVE  BInv'
<1>1. BTyped /\ B!Running(c) /\ B!Dies(c) /\ UNCHANGED <<job, pipe, faults>> /\ B!At("dead")
  BY DEF BInv, B!Orphaned, B!Step, B!Parented
<1>2. /\ pipe \in PipeRecord /\ faults \in 0..MaxFaults /\ pipe.exit \in Nat
      /\ parent.pc \notin Leading
  BY <1>1 DEF BTyped, PipeRecord, B!At, Leading
<1> QED BY <1>1, <1>2, EndingStep

LEMMA ChildKilledStep ==
    ASSUME BenchmpAssumption, BInv, NEW c \in B!Children, B!ChildKilled(c)
    PROVE  BInv'
<1>1. /\ BTyped /\ B!Running(c) /\ B!Dies(c) /\ UNCHANGED <<job, pipe>>
      /\ faults < MaxFaults /\ faults' = faults + 1
  BY DEF BInv, B!ChildKilled, B!Fault
<1>2. /\ pipe \in PipeRecord /\ faults' \in 0..MaxFaults /\ pipe.exit \in Nat /\ faults' # 0
  BY <1>1, JobsFacts DEF BTyped, PipeRecord
<1> QED BY <1>1, <1>2, EndingStep

LEMMA ChildHangsStep ==
    ASSUME BenchmpAssumption, BInv, NEW c \in B!Children, B!ChildHangs(c)
    PROVE  BInv'
<1> DEFINE k == [child[c] EXCEPT !.hung = TRUE]
<1>1. /\ BTyped /\ B!Running(c) /\ child[c].st = "sent" /\ UNCHANGED <<job, parent, pipe>>
      /\ faults < MaxFaults /\ faults' = faults + 1
  BY DEF BInv, B!ChildHangs, B!Fault, B!Running
<1>2. child[c] \in ChildRecord /\ pipe \in PipeRecord /\ faults' \in 0..MaxFaults
  BY <1>1, JobsFacts DEF BTyped
<1>3. k \in ChildRecord /\ k.st = "sent" /\ k.rcv = child[c].rcv /\ k.i = child[c].i
  BY <1>1, <1>2 DEF ChildRecord
<1>4. child' = [child EXCEPT ![c] = k]
  BY <1>1 DEF B!ChildHangs, BTyped
<1> HIDE DEF k
<1>5. Staged'
  <2>1. /\ child[c].st \in Asked /\ k.st \in Asked /\ child[c].st # "cooldown"
    BY <1>1, <1>3 DEF Asked
  <2> QED BY <1>1, <1>4, <2>1, StagedKept
<1>6. Merging'
  BY <1>1, <1>3, <1>4, MergingKept
<1>7. Bounded'
  BY <1>1 DEF BInv, Bounded
<1>8. c \in Jobs /\ job > 1 => k.i = Reps
  BY <1>1, <1>3 DEF BInv, Whole, Asked
<1> QED BY <1>1, <1>2, <1>3, <1>4, <1>5, <1>6, <1>7, <1>8, MovingStep DEF Gone, Asked

-----------------------------------------------------------------------------
(* The ends of benchmp: a child is told to end, or is awaited                *)

Closing == {"error", "wait", "undo", "undowait", "await"}

(* One child ends or stays as it is, and one loop of the parent goes on.     *)
LEMMA ClosingStep ==
    ASSUME BenchmpAssumption, BInv, NEW c \in B!Children, NEW k \in ChildRecord,
           child' = [child EXCEPT ![c] = k], UNCHANGED <<job, pipe, faults>>,
           k.st = child[c].st \/ k.st \in Gone, k.i = child[c].i,
           parent' \in ParentRecord, parent.pc \in Closing, parent'.pc \in Closing,
           parent.pc = "await" <=> parent'.pc = "await", parent'.i <= job,
           parent'.merged = parent.merged, parent'.time = parent.time,
           parent'.sigterm = parent.sigterm, Indexed', Reaping'
    PROVE  BInv'
<1>1. BTyped /\ pipe \in PipeRecord
  BY DEF BInv, BTyped
<1>2. BTyped'
  BY <1>1 DEF BTyped, ParentRecord, ChildRecord, PipeRecord, Results, Messages, B!Children
<1>3. Bounded'
  BY DEF BInv, Bounded
<1>4. \A d \in B!Children : child'[d] = IF d = c THEN k ELSE child[d]
  BY <1>1 DEF BTyped
<1>5. Jobs' = Jobs /\ Jobs \subseteq B!Children
  BY <1>1, JobsFacts DEF Jobs
<1>6. parent.pc \notin Leading /\ parent'.pc \notin Leading /\ parent'.pc # "dead"
  BY DEF Closing, Leading
<1>7. Staged'
  <2>1. Collected \in Nat /\ Collected' \in Nat /\ Collected' <= Collected
    BY DEF Collected, Closing
  <2>2. ASSUME StageReady PROVE StageReady'
    <3>1. /\ c \in Jobs => k.st \in Early \cup {"ready"} \cup Gone
          /\ k.st \in Early => child[c].st \in Early
      BY <2>2 DEF StageReady, Only, Early, Gone
    <3> QED BY <1>1, <2>1, <2>2, <3>1, ReadyKept
  <2>3. ASSUME StageDone PROVE StageDone'
    <3>1. /\ c \in Jobs => k.st \in Busy \cup {"cooldown"} \cup Gone
          /\ k.st \in Busy => child[c].st \in Busy
      BY <2>3 DEF StageDone, Only, Busy, Gone
    <3> QED BY <1>1, <2>1, <2>3, <3>1, DoneKept
  <2>4. ASSUME StageResult PROVE StageResult'
    <3>1. c \in Jobs => k.st \in Asked \cup Gone
      BY <2>4 DEF StageResult, Only
    <3> QED BY <1>1, <2>4, <3>1, ResultKept
  <2> QED BY <1>6, <2>2, <2>3, <2>4 DEF BInv, Staged, B!At, Leading
<1>8. Whole'
  BY <1>4, <1>5 DEF BInv, Whole, Asked, Gone
<1>9. Merging'
  <2>1. Merged => Merged'
    BY <1>5 DEF Merged, Distinct, Final
  <2> QED BY <1>6, <2>1 DEF BInv, Merging, Leading, Closing
<1>10. Faultless'
  <2> SUFFICES ASSUME faults = 0
               PROVE  Faultless'
    BY DEF Faultless
  <2>1. parent.pc = "await" /\ Only(Asked) /\ ~pipe.open /\ ~parent.sigterm
    BY <1>6 DEF BInv, Faultless, Closing, Leading
  <2>2. Only(Asked)'
    BY <1>4, <1>5, <2>1 DEF Only
  <2> QED BY <1>6, <2>1, <2>2 DEF Faultless, Leading
<1> QED BY <1>2, <1>3, <1>7, <1>8, <1>9, <1>10 DEF BInv

(* The parent's record at another place, with another index.                 *)
LEMMA ParentAt ==
    ASSUME parent \in ParentRecord, NEW pc \in Places, NEW i \in Nat, NEW w \in BOOLEAN,
           NEW a \in BOOLEAN,
           parent' = [parent EXCEPT !.pc = pc, !.i = i, !.watching = w, !.alarmed = a]
    PROVE  /\ parent' \in ParentRecord /\ parent'.pc = pc /\ parent'.i = i
           /\ parent'.merged = parent.merged /\ parent'.time = parent.time
           /\ parent'.sigterm = parent.sigterm /\ parent'.sigchld = parent.sigchld
BY DEF ParentRecord

(* A child after SIGTERM of its parent.                                      *)
LEMMA TerminatedRecord ==
    ASSUME BTyped, NEW c \in B!Children
    PROVE  /\ B!Terminated(child[c]) \in ChildRecord /\ B!Terminated(child[c]).i = child[c].i
           /\ B!Terminated(child[c]).st = child[c].st \/ B!Terminated(child[c]).st \in Gone
<1>1. child[c] \in ChildRecord
  BY DEF BTyped
<1> QED BY <1>1 DEF B!Terminated, ChildRecord, States, Gone

LEMMA KillNextStep ==
    ASSUME BenchmpAssumption, BInv, B!KillNext
    PROVE  BInv'
<1> DEFINE c == parent.i + 1
           k == B!Terminated(child[c])
<1>1. /\ BTyped /\ parent.pc = "error" /\ parent.i < job /\ UNCHANGED <<job, pipe, faults>>
      /\ parent' = [parent EXCEPT !.pc = "wait", !.watching = FALSE]
  BY DEF BInv, B!KillNext, B!At
<1>2. parent \in ParentRecord /\ parent.i \in Nat
  BY <1>1 DEF BTyped, ParentRecord
<1>3. c \in B!Children /\ c <= job
  BY <1>1, <1>2, JobsFacts DEF B!Children
<1>4. k \in ChildRecord /\ k.i = child[c].i /\ (k.st = child[c].st \/ k.st \in Gone)
  BY <1>1, <1>3, TerminatedRecord
<1>5. child' = [child EXCEPT ![c] = k]
  BY DEF B!KillNext
<1>6. /\ parent' \in ParentRecord /\ parent'.pc = "wait" /\ parent'.i = parent.i
      /\ parent'.merged = parent.merged /\ parent'.time = parent.time
      /\ parent'.sigterm = parent.sigterm
  BY <1>1, <1>2 DEF ParentRecord, Places
<1> HIDE DEF k
<1>7. Indexed'
  BY <1>1, <1>6 DEF Indexed, B!At
<1>8. Reaping'
  <2>1. Left({"none"}, job)
    BY <1>1 DEF BInv, Reaping, Leading
  <2>2. Left({"none"}, job)'
    BY <1>1, <1>2, <1>3, <1>5, <2>1, JobsFacts DEF Left, BTyped
  <2> QED BY <1>1, <1>6, <2>2 DEF Reaping, B!At
<1> HIDE DEF c
<1> QED BY <1>1, <1>2, <1>3, <1>4, <1>5, <1>6, <1>7, <1>8, ClosingStep DEF Closing, BInv, Bounded

LEMMA WaitNextStep ==
    ASSUME BenchmpAssumption, BInv, B!WaitNext
    PROVE  BInv'
<1> DEFINE c == parent.i + 1
           k == [child[c] EXCEPT !.st = "reaped"]
<1>1. /\ BTyped /\ parent.pc = "wait" /\ UNCHANGED <<job, pipe, faults>>
      /\ parent' = [parent EXCEPT !.pc = "error", !.i = parent.i + 1]
  BY DEF BInv, B!WaitNext, B!At
<1>2. parent \in ParentRecord /\ parent.i \in Nat /\ parent.i < job
  BY <1>1 DEF BTyped, ParentRecord, BInv, Indexed
<1>3. c \in B!Children /\ c <= job
  BY <1>1, <1>2, JobsFacts DEF B!Children
<1>4. k \in ChildRecord /\ k.i = child[c].i /\ k.st \in Gone
  BY <1>1, <1>3 DEF BTyped, ChildRecord, States, Gone
<1>5. child' = [child EXCEPT ![c] = k]
  BY <1>1, <1>3 DEF B!WaitNext, BTyped
<1>6. /\ parent' \in ParentRecord /\ parent'.pc = "error" /\ parent'.i = c
      /\ parent'.merged = parent.merged /\ parent'.time = parent.time
      /\ parent'.sigterm = parent.sigterm
  <2>1. /\ parent.i + 1 \in Nat /\ "error" \in Places
        /\ parent.watching \in BOOLEAN /\ parent.alarmed \in BOOLEAN
    BY <1>1, <1>2 DEF Places, ParentRecord
  <2>2. parent' = [parent EXCEPT !.pc = "error", !.i = parent.i + 1,
                                 !.watching = parent.watching, !.alarmed = parent.alarmed]
    BY <1>1, <1>2 DEF ParentRecord
  <2> QED BY <1>2, <2>1, <2>2, ParentAt
<1> HIDE DEF k
<1>7. Indexed'
  BY <1>1, <1>6 DEF Indexed, B!At
<1>8. Reaping'
  <2>1. Left({"none"}, job)
    BY <1>1 DEF BInv, Reaping, Leading
  <2>2. Left({"none"}, job)'
    BY <1>1, <1>2, <1>3, <1>5, <2>1, JobsFacts DEF Left, BTyped
  <2> QED BY <1>1, <1>6, <2>2 DEF Reaping, B!At
<1> HIDE DEF c
<1> QED BY <1>1, <1>3, <1>4, <1>5, <1>6, <1>7, <1>8, ClosingStep DEF Closing

LEMMA UndoKillStep ==
    ASSUME BenchmpAssumption, BInv, B!UndoKill
    PROVE  BInv'
<1> DEFINE c == parent.i
           k == B!Terminated(child[c])
<1>1. /\ BTyped /\ parent.pc = "undo" /\ parent.i > 0 /\ UNCHANGED <<job, pipe, faults>>
      /\ parent' = [parent EXCEPT !.pc = "undowait"]
  BY DEF BInv, B!UndoKill, B!At
<1>2. parent \in ParentRecord /\ parent.i \in Nat /\ parent.i <= job
  BY <1>1 DEF BTyped, ParentRecord, BInv, Bounded
<1>3. c \in B!Children
  BY <1>1, <1>2, JobsFacts DEF B!Children
<1>4. k \in ChildRecord /\ k.i = child[c].i /\ (k.st = child[c].st \/ k.st \in Gone)
  BY <1>1, <1>3, TerminatedRecord
<1>5. child' = [child EXCEPT ![c] = k]
  BY DEF B!UndoKill
<1>6. /\ parent' \in ParentRecord /\ parent'.pc = "undowait" /\ parent'.i = parent.i
      /\ parent'.merged = parent.merged /\ parent'.time = parent.time
      /\ parent'.sigterm = parent.sigterm
  BY <1>1, <1>2 DEF ParentRecord, Places
<1> HIDE DEF k
<1>7. Indexed'
  BY <1>1, <1>6 DEF Indexed, B!At
<1>8. Reaping'
  <2>1. Left({"none", "reaped"}, parent.i)
    BY <1>1 DEF BInv, Reaping
  <2>2. Left({"none", "reaped"}, parent.i)'
    BY <1>1, <1>2, <1>5, <1>6, <2>1, JobsFacts DEF Left, BTyped
  <2> QED BY <1>6, <2>2 DEF Reaping, B!At, Leading
<1> HIDE DEF c
<1> QED BY <1>1, <1>2, <1>3, <1>4, <1>5, <1>6, <1>7, <1>8, ClosingStep DEF Closing

LEMMA UndoWaitStep ==
    ASSUME BenchmpAssumption, BInv, B!UndoWait
    PROVE  BInv'
<1> DEFINE c == parent.i
           k == [child[c] EXCEPT !.st = "reaped"]
<1>1. /\ BTyped /\ parent.pc = "undowait" /\ parent.i > 0 /\ UNCHANGED <<job, pipe, faults>>
      /\ parent' = [parent EXCEPT !.pc = "undo", !.i = parent.i - 1]
  BY DEF BInv, B!UndoWait, B!At, Indexed
<1>2. parent \in ParentRecord /\ parent.i \in Nat /\ parent.i <= job
  BY <1>1 DEF BTyped, ParentRecord, BInv, Bounded
<1>3. c \in B!Children
  BY <1>1, <1>2, JobsFacts DEF B!Children
<1>4. k \in ChildRecord /\ k.i = child[c].i /\ k.st \in Gone /\ k.st = "reaped"
  BY <1>1, <1>3 DEF BTyped, ChildRecord, States, Gone
<1>5. child' = [child EXCEPT ![c] = k]
  BY <1>1, <1>3 DEF B!UndoWait, BTyped
<1>6. /\ parent' \in ParentRecord /\ parent'.pc = "undo" /\ parent'.i = parent.i - 1
      /\ parent'.merged = parent.merged /\ parent'.time = parent.time
      /\ parent'.sigterm = parent.sigterm
  <2>1. /\ parent.i - 1 \in Nat /\ "undo" \in Places
        /\ parent.watching \in BOOLEAN /\ parent.alarmed \in BOOLEAN
    BY <1>1, <1>2 DEF Places, ParentRecord
  <2>2. parent' = [parent EXCEPT !.pc = "undo", !.i = parent.i - 1,
                                 !.watching = parent.watching, !.alarmed = parent.alarmed]
    BY <1>1, <1>2 DEF ParentRecord
  <2> QED BY <1>2, <2>1, <2>2, ParentAt
<1> HIDE DEF k
<1>7. Indexed'
  BY <1>1, <1>6 DEF Indexed, B!At
<1>8. Reaping'
  <2>1. Left({"none", "reaped"}, parent.i)
    BY <1>1 DEF BInv, Reaping
  <2>2. Left({"none", "reaped"}, parent.i)'
    BY <1>1, <1>2, <1>4, <1>5, <1>6, <2>1, JobsFacts DEF Left, BTyped
  <2> QED BY <1>6, <2>2 DEF Reaping, B!At, Leading
<1>9. parent'.i <= job
  BY <1>1, <1>2, <1>6, JobsFacts
<1> HIDE DEF c
<1> QED BY <1>1, <1>3, <1>4, <1>5, <1>6, <1>7, <1>8, <1>9, ClosingStep DEF Closing

LEMMA AwaitStep ==
    ASSUME BenchmpAssumption, BInv, B!Await
    PROVE  BInv'
<1> DEFINE c == parent.i
           k == [child[c] EXCEPT !.st = "reaped"]
<1>1. /\ BTyped /\ parent.pc = "await" /\ parent.i > 0 /\ UNCHANGED <<job, pipe, faults>>
      /\ parent' = [parent EXCEPT !.i = parent.i - 1, !.alarmed = FALSE]
  BY DEF BInv, B!Await, B!At, B!LastToWait
<1>2. parent \in ParentRecord /\ parent.i \in Nat /\ parent.i <= job
  BY <1>1 DEF BTyped, ParentRecord, BInv, Bounded
<1>3. c \in B!Children
  BY <1>1, <1>2, JobsFacts DEF B!Children
<1>4. k \in ChildRecord /\ k.i = child[c].i /\ k.st \in Gone /\ k.st = "reaped"
  BY <1>1, <1>3 DEF BTyped, ChildRecord, States, Gone
<1>5. child' = [child EXCEPT ![c] = k]
  BY <1>1, <1>3 DEF B!Await, BTyped
<1>6. /\ parent' \in ParentRecord /\ parent'.pc = "await" /\ parent'.i = parent.i - 1
      /\ parent'.merged = parent.merged /\ parent'.time = parent.time
      /\ parent'.sigterm = parent.sigterm
  <2>1. /\ parent.i - 1 \in Nat /\ "await" \in Places
        /\ parent.watching \in BOOLEAN /\ parent.alarmed \in BOOLEAN
    BY <1>1, <1>2 DEF Places, ParentRecord
  <2>2. parent' = [parent EXCEPT !.pc = "await", !.i = parent.i - 1,
                                 !.watching = parent.watching, !.alarmed = FALSE]
    BY <1>1, <1>2 DEF ParentRecord
  <2> QED BY <1>2, <2>1, <2>2, ParentAt
<1> HIDE DEF k
<1>7. Indexed'
  BY <1>1, <1>6 DEF Indexed, B!At
<1>8. Reaping'
  <2>1. Left({"none", "reaped"}, parent.i)
    BY <1>1 DEF BInv, Reaping
  <2>2. Left({"none", "reaped"}, parent.i)'
    BY <1>1, <1>2, <1>4, <1>5, <1>6, <2>1, JobsFacts DEF Left, BTyped
  <2> QED BY <1>6, <2>2 DEF Reaping, B!At, Leading
<1>9. parent'.i <= job
  BY <1>1, <1>2, <1>6, JobsFacts
<1> HIDE DEF c
<1> QED BY <1>1, <1>3, <1>4, <1>5, <1>6, <1>7, <1>8, <1>9, ClosingStep DEF Closing

LEMMA AlarmStep ==
    ASSUME BenchmpAssumption, BInv, B!Alarm
    PROVE  BInv'
<1> DEFINE c == parent.i
           k == B!Terminated(child[c])
<1>1. /\ BTyped /\ parent.pc = "await" /\ parent.i > 0 /\ UNCHANGED <<job, pipe, faults>>
      /\ parent' = [parent EXCEPT !.alarmed = TRUE]
  BY DEF BInv, B!Alarm, B!At, B!LastToWait
<1>2. parent \in ParentRecord /\ parent.i \in Nat /\ parent.i <= job
  BY <1>1 DEF BTyped, ParentRecord, BInv, Bounded
<1>3. c \in B!Children
  BY <1>1, <1>2, JobsFacts DEF B!Children
<1>4. k \in ChildRecord /\ k.i = child[c].i /\ (k.st = child[c].st \/ k.st \in Gone)
  BY <1>1, <1>3, TerminatedRecord
<1>5. child' = [child EXCEPT ![c] = k]
  BY DEF B!Alarm
<1>6. /\ parent' \in ParentRecord /\ parent'.pc = "await" /\ parent'.i = parent.i
      /\ parent'.merged = parent.merged /\ parent'.time = parent.time
      /\ parent'.sigterm = parent.sigterm
  BY <1>1, <1>2 DEF ParentRecord, Places
<1> HIDE DEF k
<1>7. Indexed'
  BY <1>1, <1>6 DEF Indexed, B!At
<1>8. Reaping'
  <2>1. Left({"none", "reaped"}, parent.i)
    BY <1>1 DEF BInv, Reaping
  <2>2. Left({"none", "reaped"}, parent.i)'
    BY <1>1, <1>2, <1>5, <1>6, <2>1, JobsFacts DEF Left, BTyped
  <2> QED BY <1>6, <2>2 DEF Reaping, B!At, Leading
<1> HIDE DEF c
<1> QED BY <1>1, <1>2, <1>3, <1>4, <1>5, <1>6, <1>7, <1>8, ClosingStep DEF Closing

-----------------------------------------------------------------------------
(* The steps of the parent that leave the children alone                     *)

LEMMA SettledStep ==
    ASSUME BInv, UNCHANGED <<job, child>>, parent' \in ParentRecord, pipe' \in PipeRecord,
           faults' \in 0..MaxFaults,
           Bounded', Staged', Indexed', Merging', Reaping', Faultless'
    PROVE  BInv'
<1>1. BTyped'
  BY DEF BInv, BTyped, ParentRecord, ChildRecord, PipeRecord, Results, Messages, B!Children
<1>2. Whole'
  BY DEF BInv, Whole, Jobs
<1> QED BY <1>1, <1>2 DEF BInv

(* What is said of the children stays true, and so does a round of messages  *)
(* whose pipes are not touched.                                              *)
LEMMA SettledFacts ==
    ASSUME BenchmpAssumption, BInv, UNCHANGED <<job, child>>
    PROVE  /\ Jobs' = Jobs
           /\ \A S : Only(S)' = Only(S)
           /\ \A S : Past(S)' = Past(S)
           /\ \A S, i : Left(S, i)' = Left(S, i)
           /\ Left({"none"}, job) => Left({"none", "reaped"}, job)
           /\ Left({"none"}, parent.i) => Left({"none", "reaped"}, parent.i)
<1>1. Jobs' = Jobs
  BY DEF Jobs
<1>2. \A S : Only(S)' = Only(S)
  BY <1>1 DEF Only
<1>3. \A S : Past(S)' = Past(S)
  BY <1>1 DEF Past
<1>4. \A S, i : Left(S, i)' = Left(S, i)
  BY DEF Left
<1>5. \A i : Left({"none"}, i) => Left({"none", "reaped"}, i)
  BY DEF Left
<1> QED BY <1>1, <1>2, <1>3, <1>4, <1>5

LEMMA StagesSame ==
    ASSUME BenchmpAssumption, BInv, UNCHANGED <<job, child>>, parent' \in ParentRecord,
           pipe'.response = pipe.response, pipe'.start = pipe.start,
           pipe'.result = pipe.result,
           \/ parent'.pc = parent.pc /\ parent'.i = parent.i
           \/ parent'.pc \notin {"ready", "done"} \/ parent'.i = 0
    PROVE  /\ StageReady => StageReady'
           /\ StageDone => StageDone'
           /\ StageResult => StageResult'
<1>1. BTyped
  BY DEF BInv
<1>2. Collected \in Nat /\ Collected' \in Nat /\ Collected' <= Collected
  BY <1>1 DEF Collected, BTyped, ParentRecord
<1>3. Len(pipe.response) \in Nat
  BY <1>1 DEF BTyped, PipeRecord
<1>4. /\ Only(Early \cup {"ready"})' = Only(Early \cup {"ready"}) /\ Past(Early)' = Past(Early)
      /\ Only(Busy \cup {"cooldown"})' = Only(Busy \cup {"cooldown"}) /\ Past(Busy)' = Past(Busy)
      /\ Only(Asked)' = Only(Asked)
  BY SettledFacts
<1>5. Cardinality(Past(Early)) \in Nat /\ Cardinality(Past(Busy)) \in Nat
  BY <1>1, PastFacts
<1>6. StageReady => StageReady'
  BY <1>2, <1>3, <1>4, <1>5 DEF StageReady
<1>7. StageDone => StageDone'
  BY <1>2, <1>3, <1>4, <1>5 DEF StageDone
<1>8. StageResult => StageResult'
  BY <1>4 DEF StageResult, Results, B!Children
<1> QED BY <1>6, <1>7, <1>8

(* While it leads the children, the parent has no result yet.                *)
LEMMA NoTime ==
    ASSUME BInv, parent.pc \notin {"await", "returned", "dead"}
    PROVE  ~parent.time
BY DEF BInv, Merging

LEMMA ForkFailsStep ==
    ASSUME BenchmpAssumption, BInv, B!ForkFails
    PROVE  BInv'
<1>1. /\ BTyped /\ parent.pc = "fork" /\ parent.i < job /\ UNCHANGED <<job, child, pipe>>
      /\ parent' = [parent EXCEPT !.pc = "undo", !.watching = FALSE]
      /\ IF parent.sigterm THEN faults' = faults ELSE faults < MaxFaults /\ faults' = faults + 1
  BY DEF BInv, B!ForkFails, B!At, B!Fault
<1>2. parent \in ParentRecord /\ pipe \in PipeRecord /\ faults \in 0..MaxFaults
  BY <1>1 DEF BTyped
<1>3. /\ parent' \in ParentRecord /\ parent'.pc = "undo" /\ parent'.i = parent.i
      /\ parent'.time = parent.time
  BY <1>1, <1>2 DEF ParentRecord, Places
<1>4. faults' \in 0..MaxFaults /\ faults' # 0
  <2>1. parent.sigterm => faults # 0
    BY DEF BInv, Faultless
  <2> QED BY <1>1, <1>2, <2>1, JobsFacts
<1>5. Bounded'
  BY <1>1, <1>3 DEF BInv, Bounded
<1>6. Staged'
  BY <1>1, <1>3, StagesSame DEF BInv, Staged, B!At, Leading
<1>7. Indexed'
  BY <1>3 DEF Indexed, B!At
<1>8. Merging'
  BY <1>1, <1>3, NoTime DEF Merging
<1>9. Reaping'
  <2>1. Left({"none"}, parent.i)
    BY <1>1 DEF BInv, Reaping, B!At
  <2>2. Left({"none", "reaped"}, parent.i)'
    BY <1>1, <1>3, <2>1, SettledFacts DEF Left
  <2> QED BY <1>3, <2>2 DEF Reaping, B!At, Leading
<1>10. Faultless'
  BY <1>4 DEF Faultless
<1> QED BY <1>1, <1>2, <1>3, <1>4, <1>5, <1>6, <1>7, <1>8, <1>9, <1>10, SettledStep

LEMMA ForkedStep ==
    ASSUME BenchmpAssumption, BInv, B!Forked
    PROVE  BInv'
<1>1. /\ BTyped /\ parent.pc = "fork" /\ parent.i = job /\ UNCHANGED <<job, child, pipe, faults>>
      /\ parent' = [parent EXCEPT !.i = 0,
                      !.pc = IF parent.sigchld \/ parent.sigterm THEN "error" ELSE "ready"]
  BY DEF BInv, B!Forked, B!At
<1>2. parent \in ParentRecord /\ pipe \in PipeRecord /\ faults \in 0..MaxFaults
  BY <1>1 DEF BTyped
<1>3. /\ parent' \in ParentRecord /\ parent'.i = 0 /\ parent'.merged = parent.merged
      /\ parent'.time = parent.time /\ parent'.sigterm = parent.sigterm
      /\ parent'.sigchld = parent.sigchld
      /\ parent'.pc = IF parent.sigchld \/ parent.sigterm THEN "error" ELSE "ready"
  <2> DEFINE p == IF parent.sigchld \/ parent.sigterm THEN "error" ELSE "ready"
  <2>1. p \in Places /\ parent' = [parent EXCEPT !.i = 0, !.pc = p]
    BY <1>1 DEF Places, Leading
  <2> HIDE DEF p
  <2>2. /\ parent' \in ParentRecord /\ parent'.i = 0 /\ parent'.merged = parent.merged
        /\ parent'.time = parent.time /\ parent'.sigterm = parent.sigterm
        /\ parent'.sigchld = parent.sigchld /\ parent'.pc = p
    BY <1>2, <2>1 DEF ParentRecord
  <2> QED BY <2>2 DEF p
<1>4. Bounded' /\ 0 < job
  BY <1>1, <1>3, JobsFacts DEF BInv, Bounded
<1>5. Staged'
  BY <1>1, <1>3, StagesSame DEF BInv, Staged, B!At, Leading
<1>6. Indexed'
  BY <1>1, <1>3, <1>4 DEF Indexed, B!At
<1>7. Merging'
  BY <1>1, <1>3, NoTime DEF BInv, Merging
<1>8. Reaping'
  <2>1. Left({"none"}, job)
    BY <1>1 DEF BInv, Reaping, B!At
  <2>2. Left({"none"}, job)'
    BY <1>1, <2>1, SettledFacts DEF Left
  <2> QED BY <1>3, <2>2 DEF Reaping, B!At
<1>9. Faultless'
  BY <1>1, <1>3 DEF BInv, Faultless, Leading
<1> QED BY <1>1, <1>2, <1>3, <1>4, <1>5, <1>6, <1>7, <1>8, <1>9, SettledStep

LEMMA GiveUpStep ==
    ASSUME BenchmpAssumption, BInv, B!GiveUp
    PROVE  BInv'
<1>1. /\ BTyped /\ parent.pc \in {"ready", "done", "gather"} /\ B!Disturbed
      /\ UNCHANGED <<job, child, pipe, faults>>
      /\ parent' = [parent EXCEPT !.pc = "error", !.i = 0, !.watching = FALSE]
  BY DEF BInv, B!GiveUp
<1>2. parent \in ParentRecord /\ pipe \in PipeRecord /\ faults \in 0..MaxFaults
  BY <1>1 DEF BTyped
<1>3. parent' \in ParentRecord /\ parent'.i = 0 /\ parent'.time = parent.time /\ parent'.pc = "error"
  BY <1>1, <1>2 DEF ParentRecord, Places
<1>4. Bounded'
  BY <1>1, <1>3, JobsFacts DEF BInv, Bounded
<1>5. Staged'
  BY <1>1, <1>3, StagesSame DEF BInv, Staged, B!At, Leading
<1>6. Indexed'
  BY <1>3 DEF Indexed, B!At
<1>7. Merging'
  BY <1>1, <1>3, NoTime DEF BInv, Merging
<1>8. Reaping'
  <2>1. Left({"none"}, job)
    BY <1>1 DEF BInv, Reaping, Leading
  <2>2. Left({"none"}, job)'
    BY <1>1, <2>1, SettledFacts DEF Left
  <2> QED BY <1>3, <2>2 DEF Reaping, B!At
<1>9. Faultless'
  BY <1>1 DEF BInv, Faultless, B!Disturbed, Leading
<1> QED BY <1>1, <1>2, <1>3, <1>4, <1>5, <1>6, <1>7, <1>8, <1>9, SettledStep

LEMMA ErrorDoneStep ==
    ASSUME BenchmpAssumption, BInv, B!ErrorDone
    PROVE  BInv'
<1>1. /\ BTyped /\ parent.pc = "error" /\ parent.i = job /\ UNCHANGED <<job, child, faults>>
      /\ pipe' = [pipe EXCEPT !.open = FALSE]
      /\ parent' = [parent EXCEPT !.pc = "await"]
  BY DEF BInv, B!ErrorDone, B!At
<1>2. parent \in ParentRecord /\ pipe \in PipeRecord /\ faults \in 0..MaxFaults
  BY <1>1 DEF BTyped
<1>3. parent' \in ParentRecord /\ parent'.i = job /\ parent'.time = parent.time /\ parent'.pc = "await"
  BY <1>1, <1>2 DEF ParentRecord, Places
<1>4. /\ pipe' \in PipeRecord /\ ~pipe'.open /\ pipe'.response = pipe.response
      /\ pipe'.start = pipe.start /\ pipe'.result = pipe.result /\ pipe'.exit = pipe.exit
  BY <1>1, <1>2 DEF PipeRecord
<1>5. Bounded'
  BY <1>1, <1>3, <1>4, JobsFacts DEF BInv, Bounded
<1>6. Staged'
  BY <1>3, <1>4 DEF Staged, B!At, Leading
<1>7. Indexed'
  BY <1>3 DEF Indexed, B!At
<1>8. Merging'
  BY <1>1, <1>3, NoTime DEF Merging
<1>9. Reaping'
  <2>1. Left({"none"}, job)
    BY <1>1 DEF BInv, Reaping
  <2>2. Left({"none", "reaped"}, parent.i)'
    BY <1>1, <1>3, <2>1, SettledFacts DEF Left
  <2> QED BY <1>3, <2>2 DEF Reaping, B!At, Leading
<1>10. Faultless'
  BY <1>1 DEF BInv, Faultless, Leading
<1> QED BY <1>1, <1>2, <1>3, <1>4, <1>5, <1>6, <1>7, <1>8, <1>9, <1>10, SettledStep

LEMMA ReturnStep ==
    ASSUME BenchmpAssumption, BInv, B!Return
    PROVE  BInv'
<1>1. /\ BTyped /\ UNCHANGED <<job, child, pipe, faults>>
      /\ parent.pc \in {"await", "undo"} /\ parent.i = 0
      /\ parent' = [parent EXCEPT !.pc = "returned"]
  BY DEF BInv, B!Return, B!Returning, B!At, B!LastToWait
<1>2. parent \in ParentRecord /\ pipe \in PipeRecord /\ faults \in 0..MaxFaults
  BY <1>1 DEF BTyped
<1>3. /\ parent' \in ParentRecord /\ parent'.i = 0 /\ parent'.time = parent.time
      /\ parent'.pc = "returned" /\ parent'.merged = parent.merged
      /\ parent'.sigterm = parent.sigterm
  BY <1>1, <1>2 DEF ParentRecord, Places
<1>4. Bounded'
  BY <1>1, <1>3, JobsFacts DEF BInv, Bounded
<1>5. Staged'
  BY <1>1, <1>3, StagesSame DEF BInv, Staged, B!At, Leading
<1>6. Indexed'
  BY <1>3 DEF Indexed, B!At
<1>7. Merging'
  <2>1. Merged => Merged'
    BY <1>1, <1>3 DEF Merged, Distinct, Final, Jobs
  <2> QED BY <1>3, <2>1 DEF BInv, Merging
<1>8. Reaping'
  <2>1. Left({"none", "reaped"}, 0)
    BY <1>1 DEF BInv, Reaping
  <2>2. Left({"none", "reaped"}, 0)'
    BY <1>1, <2>1, SettledFacts DEF Left
  <2> QED BY <1>3, <2>2 DEF Reaping, B!At, Leading
<1>9. Faultless'
  <2>1. Only(Asked) => Only(Asked)'
    BY <1>1, SettledFacts
  <2> QED BY <1>1, <1>3, <2>1 DEF BInv, Faultless, Leading
<1> QED BY <1>1, <1>2, <1>3, <1>4, <1>5, <1>6, <1>7, <1>8, <1>9, SettledStep

LEMMA SigTermStep ==
    ASSUME BenchmpAssumption, BInv, B!SigTerm
    PROVE  BInv'
<1>1. /\ BTyped /\ UNCHANGED <<job, child, pipe>>
      /\ parent' = [parent EXCEPT !.sigterm = TRUE]
      /\ faults < MaxFaults /\ faults' = faults + 1
  BY DEF BInv, B!SigTerm, B!Fault
<1>2. parent \in ParentRecord /\ pipe \in PipeRecord /\ faults' \in 0..MaxFaults /\ faults' # 0
  BY <1>1, JobsFacts DEF BTyped
<1>3. /\ parent' \in ParentRecord /\ parent'.i = parent.i /\ parent'.time = parent.time
      /\ parent'.pc = parent.pc /\ parent'.merged = parent.merged
  BY <1>1, <1>2 DEF ParentRecord, Places
<1>4. Bounded'
  BY <1>1, <1>3 DEF BInv, Bounded
<1>5. Staged'
  <2>1. Only({"ready"}) => Only({"ready"})'
    BY <1>1, SettledFacts
  <2> QED BY <1>1, <1>3, <2>1, StagesSame DEF BInv, Staged, B!At
<1>6. Indexed'
  BY <1>1, <1>3 DEF BInv, Indexed, B!At
<1>7. Merging'
  <2>1. Merged => Merged'
    BY <1>1, <1>3 DEF Merged, Distinct, Final, Jobs
  <2>2. Gathering => Gathering'
    BY <1>1, <1>3 DEF Gathering, Distinct, Apart, Reported, Final, Jobs, B!At
  <2> QED BY <1>3, <2>1, <2>2 DEF BInv, Merging
<1>8. Reaping'
  BY <1>1, <1>3 DEF BInv, Reaping, B!At, Left
<1>9. Faultless'
  BY <1>2 DEF Faultless
<1> QED BY <1>1, <1>2, <1>3, <1>4, <1>5, <1>6, <1>7, <1>8, <1>9, SettledStep

LEMMA ParentKilledStep ==
    ASSUME BenchmpAssumption, BInv, B!ParentKilled
    PROVE  BInv'
<1>1. /\ BTyped /\ UNCHANGED <<job, child>>
      /\ parent' = [parent EXCEPT !.pc = "dead"] /\ pipe' = [pipe EXCEPT !.open = FALSE]
      /\ faults < MaxFaults /\ faults' = faults + 1
  BY DEF BInv, B!ParentKilled, B!Fault
<1>2. parent \in ParentRecord /\ pipe \in PipeRecord /\ faults' \in 0..MaxFaults /\ faults' # 0
  BY <1>1, JobsFacts DEF BTyped
<1>3. /\ parent' \in ParentRecord /\ parent'.i = parent.i /\ parent'.time = parent.time
      /\ parent'.pc = "dead" /\ parent'.merged = parent.merged
  BY <1>1, <1>2 DEF ParentRecord, Places
<1>4. /\ pipe' \in PipeRecord /\ ~pipe'.open /\ pipe'.response = pipe.response
      /\ pipe'.start = pipe.start /\ pipe'.result = pipe.result /\ pipe'.exit = pipe.exit
  BY <1>1, <1>2 DEF PipeRecord
<1>5. Bounded'
  BY <1>1, <1>3, <1>4 DEF BInv, Bounded
<1>6. Staged'
  BY <1>3, <1>4 DEF Staged, B!At, Leading
<1>7. Indexed'
  BY <1>3 DEF Indexed, B!At
<1>8. Merging'
  <2>1. Merged => Merged'
    BY <1>1, <1>3 DEF Merged, Distinct, Final, Jobs
  <2> QED BY <1>3, <2>1 DEF BInv, Merging
<1>9. Reaping'
  BY <1>3 DEF Reaping, B!At, Leading
<1>10. Faultless'
  BY <1>2 DEF Faultless
<1> QED BY <1>1, <1>2, <1>3, <1>4, <1>5, <1>6, <1>7, <1>8, <1>9, <1>10, SettledStep

-----------------------------------------------------------------------------
(* The steps of the parent that lead the children                            *)

LEMMA ForkStep ==
    ASSUME BenchmpAssumption, BInv, B!Fork
    PROVE  BInv'
<1> DEFINE c == parent.i + 1
           k == [B!Unborn EXCEPT !.st = "init"]
<1>1. /\ BTyped /\ parent.pc = "fork" /\ parent.i < job /\ UNCHANGED <<job, pipe, faults>>
      /\ child' = [child EXCEPT ![c] = k]
      /\ parent' = [parent EXCEPT !.i = parent.i + 1]
  BY DEF BInv, B!Fork, B!At
<1>2. parent \in ParentRecord /\ pipe \in PipeRecord /\ faults \in 0..MaxFaults /\ parent.i \in Nat
  BY <1>1 DEF BTyped, ParentRecord
<1>3. c \in B!Children /\ c \in Jobs /\ c <= job /\ c \in Nat /\ parent.i <= c
  BY <1>1, <1>2, JobsFacts DEF B!Children, Jobs
<1>4. k \in ChildRecord /\ k.st = "init" /\ k.rcv = FALSE
  <2>1. 0 \in 0..Reps /\ "init" \in States
    BY <1>1, JobsFacts DEF States, Alive
  <2>2. B!Unborn \in ChildRecord /\ B!Unborn.rcv = FALSE
    BY <2>1 DEF B!Unborn, ChildRecord, States
  <2> QED BY <2>1, <2>2 DEF ChildRecord
<1>5. /\ parent' \in ParentRecord /\ parent'.pc = "fork" /\ parent'.i = c
      /\ parent'.merged = parent.merged /\ parent'.time = parent.time
      /\ parent'.sigterm = parent.sigterm /\ parent'.sigchld = parent.sigchld
  <2>1. /\ c \in Nat /\ "fork" \in Places /\ parent.watching \in BOOLEAN
        /\ parent.alarmed \in BOOLEAN
    BY <1>2, <1>3 DEF Places, Leading, ParentRecord
  <2>2. parent' = [parent EXCEPT !.pc = "fork", !.i = c, !.watching = parent.watching,
                                 !.alarmed = parent.alarmed]
    BY <1>1, <1>2 DEF ParentRecord
  <2> QED BY <1>2, <2>1, <2>2, ParentAt
<1>6. Left({"none"}, parent.i) /\ child[c].st = "none"
  <2>1. Left({"none"}, parent.i)
    BY <1>1 DEF BInv, Reaping, B!At
  <2> QED BY <1>2, <1>3, <2>1 DEF Left
<1> HIDE DEF k, c
<1>7. BTyped'
  BY <1>1, <1>2, <1>3, <1>4, <1>5
     DEF BTyped, ParentRecord, ChildRecord, PipeRecord, Results, Messages, B!Children
<1>8. \A d \in B!Children : child'[d] = IF d = c THEN k ELSE child[d]
  BY <1>1 DEF BTyped
<1>9. Jobs' = Jobs /\ Jobs \subseteq B!Children
  BY <1>1, JobsFacts DEF Jobs
<1>10. Bounded'
  BY <1>1, <1>3, <1>5 DEF BInv, Bounded
<1>11. Staged'
  <2>1. StageReady /\ pipe.open /\ pipe.exit = 0
    BY <1>1 DEF BInv, Staged, Leading
  <2>2. Collected \in Nat /\ Collected' \in Nat /\ Collected' <= Collected
    BY <1>1, <1>5 DEF Collected
  <2>3. k.st \in Early /\ child[c].st \in Early
    BY <1>4, <1>6 DEF Early
  <2>4. StageReady'
    BY <1>1, <1>3, <2>1, <2>2, <2>3, ReadyKept
  <2> QED BY <1>1, <1>5, <2>1, <2>4 DEF Staged, B!At, Leading
<1>12. Indexed'
  BY <1>5 DEF Indexed, B!At
<1>13. Whole'
  BY <1>1, <1>4, <1>8, <1>9 DEF BInv, Whole, Asked
<1>14. Merging'
  BY <1>1, <1>5, NoTime DEF BInv, Merging
<1>15. Reaping'
  <2>1. Left({"none"}, parent.i)'
    <3>1. ASSUME NEW d \in B!Children, d > c PROVE child'[d].st \in {"none"}
      <4>1. d > parent.i /\ d # c
        BY <1>2, <1>3, <3>1 DEF B!Children
      <4> QED BY <1>6, <1>8, <4>1 DEF Left
    <3> QED BY <1>5, <3>1 DEF Left, B!Children
  <2> QED BY <1>5, <2>1 DEF Reaping, B!At
<1>16. Faultless'
  BY <1>1, <1>4, <1>5, <1>8 DEF BInv, Faultless, Leading, Gone
<1> QED BY <1>7, <1>10, <1>11, <1>12, <1>13, <1>14, <1>15, <1>16 DEF BInv

LEMMA SendStartStep ==
    ASSUME BenchmpAssumption, BInv, B!SendStart
    PROVE  BInv'
<1>1. /\ BTyped /\ parent.pc = "start" /\ UNCHANGED <<job, child, faults>>
      /\ pipe' = [pipe EXCEPT !.start = pipe.start + job]
      /\ parent' = [parent EXCEPT !.pc = "done"]
  BY DEF BInv, B!SendStart, B!At
<1>2. /\ parent \in ParentRecord /\ pipe \in PipeRecord /\ faults \in 0..MaxFaults
      /\ job \in Nat
  BY <1>1, JobsFacts DEF BTyped
<1>3. /\ parent' \in ParentRecord /\ parent'.pc = "done" /\ parent'.i = parent.i
      /\ parent'.merged = parent.merged /\ parent'.time = parent.time
      /\ parent'.sigterm = parent.sigterm /\ parent'.sigchld = parent.sigchld
  BY <1>1, <1>2 DEF ParentRecord, Places, Leading
<1>4. /\ StageReady /\ Only({"ready"}) /\ pipe.response = <<>> /\ pipe.open /\ pipe.exit = 0
      /\ parent.i = 0 /\ parent.i < job
  BY <1>1 DEF BInv, Staged, Indexed, B!At, Leading
<1>5. /\ pipe' \in PipeRecord /\ pipe'.open /\ pipe'.response = <<>>
      /\ pipe'.start = job /\ pipe'.result = 0 /\ pipe'.exit = 0
  <2>1. pipe.start = 0 /\ pipe.result = 0 /\ pipe.start + job = job
    BY <1>2, <1>4 DEF StageReady
  <2> QED BY <1>1, <1>2, <1>4, <2>1 DEF PipeRecord
<1>6. Bounded'
  BY <1>1, <1>2, <1>3, <1>4, <1>5 DEF Bounded
<1>7. Staged'
  <2>1. Only(Busy \cup {"cooldown"})'
    BY <1>1, <1>4 DEF Only, Jobs, Busy
  <2>2. Collected' = 0
    BY <1>3, <1>4 DEF Collected
  <2>3. Cardinality(Past(Busy)) \in Nat /\ Past(Busy)' = Past(Busy)
    BY <1>1, PastFacts, SettledFacts
  <2>4. StageDone'
    BY <1>5, <2>1, <2>2, <2>3 DEF StageDone
  <2> QED BY <1>3, <1>5, <2>4 DEF Staged, B!At
<1>8. Indexed'
  BY <1>1, <1>3, <1>4 DEF Indexed, B!At
<1>9. Merging'
  BY <1>1, <1>3, NoTime DEF BInv, Merging
<1>10. Reaping'
  BY <1>1, <1>3 DEF BInv, Reaping, B!At, Left, Leading
<1>11. Faultless'
  BY <1>1, <1>3 DEF BInv, Faultless, Leading
<1> QED BY <1>1, <1>2, <1>3, <1>5, <1>6, <1>7, <1>8, <1>9, <1>10, <1>11, SettledStep

LEMMA AskStep ==
    ASSUME BenchmpAssumption, BInv, B!Ask
    PROVE  BInv'
<1>1. /\ BTyped /\ parent.pc = "ask" /\ UNCHANGED <<job, child, faults>>
      /\ pipe' = [pipe EXCEPT !.result = pipe.result + 1]
      /\ parent' = [parent EXCEPT !.pc = "gather"]
  BY DEF BInv, B!Ask, B!At
<1>2. /\ parent \in ParentRecord /\ pipe \in PipeRecord /\ faults \in 0..MaxFaults
  BY <1>1 DEF BTyped
<1>3. /\ parent' \in ParentRecord /\ parent'.pc = "gather" /\ parent'.i = parent.i
      /\ parent'.merged = parent.merged /\ parent'.time = parent.time
      /\ parent'.sigterm = parent.sigterm /\ parent'.sigchld = parent.sigchld
  BY <1>1, <1>2 DEF ParentRecord, Places, Leading
<1>4. /\ StageResult /\ pipe.response = <<>> /\ pipe.result = 0 /\ pipe.open /\ pipe.exit = 0
      /\ parent.i < job
  BY <1>1 DEF BInv, Staged, Indexed, B!At, Leading
<1>5. /\ pipe' \in PipeRecord /\ pipe'.open /\ pipe'.response = <<>>
      /\ pipe'.start = pipe.start /\ pipe'.result = 1 /\ pipe'.exit = 0
  BY <1>1, <1>2, <1>4 DEF PipeRecord
<1>6. Bounded'
  BY <1>1, <1>3, <1>4, <1>5 DEF BInv, Bounded
<1>7. Staged'
  <2>1. Only(Asked)'
    BY <1>1, <1>4 DEF Only, Jobs, StageResult
  <2>2. StageResult'
    BY <1>5, <2>1 DEF StageResult
  <2> QED BY <1>3, <1>5, <2>2 DEF Staged, B!At
<1>8. Indexed'
  BY <1>1, <1>3, <1>4 DEF Indexed, B!At
<1>9. Merging'
  <2>1. Gathering
    BY <1>1 DEF BInv, Merging
  <2>2. Gathering'
    BY <1>1, <1>3, <1>4, <1>5, <2>1 DEF Gathering, Distinct, Apart, Final, Reported, Jobs, B!At
  <2> QED BY <1>1, <1>3, <2>2, NoTime DEF Merging
<1>10. Reaping'
  BY <1>1, <1>3 DEF BInv, Reaping, B!At, Left, Leading
<1>11. Faultless'
  BY <1>1, <1>3 DEF BInv, Faultless, Leading
<1> QED BY <1>1, <1>2, <1>3, <1>5, <1>6, <1>7, <1>8, <1>9, <1>10, <1>11, SettledStep

LEMMA SendExitStep ==
    ASSUME BenchmpAssumption, BInv, B!SendExit
    PROVE  BInv'
<1>1. /\ BTyped /\ parent.pc = "exit" /\ UNCHANGED <<job, child, faults>>
      /\ pipe' = [pipe EXCEPT !.exit = pipe.exit + job, !.open = FALSE]
      /\ parent' = [parent EXCEPT !.watching = FALSE, !.time = B!Measured,
                                  !.pc = "await", !.i = job]
  BY DEF BInv, B!SendExit, B!At
<1>2. /\ parent \in ParentRecord /\ pipe \in PipeRecord /\ faults \in 0..MaxFaults
      /\ job \in Nat /\ B!Measured \in BOOLEAN
  BY <1>1, JobsFacts DEF BTyped, B!Measured
<1>3. /\ parent' \in ParentRecord /\ parent'.pc = "await" /\ parent'.i = job
      /\ parent'.merged = parent.merged /\ parent'.sigterm = parent.sigterm
  BY <1>1, <1>2 DEF ParentRecord, Places
<1>4. /\ StageResult /\ pipe.exit = 0 /\ Gathering
  BY <1>1 DEF BInv, Staged, Leading, Merging
<1>5. /\ pipe' \in PipeRecord /\ ~pipe'.open /\ pipe'.response = pipe.response
      /\ pipe'.start = pipe.start /\ pipe'.result = pipe.result /\ pipe'.exit = job
  <2>1. pipe.exit + job = job
    BY <1>2, <1>4
  <2> QED BY <1>1, <1>2, <2>1 DEF PipeRecord
<1>6. Bounded'
  BY <1>1, <1>2, <1>3, <1>5 DEF BInv, Bounded
<1>7. Staged'
  BY <1>3, <1>5 DEF Staged, B!At, Leading
<1>8. Indexed'
  BY <1>3 DEF Indexed, B!At
<1>9. Merging'
  <2>1. Merged'
    BY <1>1, <1>3, <1>4 DEF Merged, Gathering, Distinct, Final, Jobs, B!At
  <2> QED BY <1>3, <2>1 DEF Merging
<1>10. Reaping'
  <2>1. Left({"none"}, job)
    BY <1>1 DEF BInv, Reaping, Leading
  <2>2. Left({"none", "reaped"}, parent.i)'
    BY <1>1, <1>3, <2>1 DEF Left
  <2> QED BY <1>3, <2>2 DEF Reaping, B!At, Leading
<1>11. Faultless'
  <2>1. Only(Asked)'
    BY <1>1, <1>4 DEF Only, Jobs, StageResult
  <2> QED BY <1>1, <1>3, <1>5, <2>1 DEF BInv, Faultless, Leading
<1> QED BY <1>1, <1>2, <1>3, <1>5, <1>6, <1>7, <1>8, <1>9, <1>10, <1>11, SettledStep

(* The parent takes all that is in the pipe, and goes on when it has a byte  *)
(* of every child.                                                           *)
LEMMA CollectFacts ==
    ASSUME BenchmpAssumption, BInv, NEW pc \in {"ready", "done"}, NEW next \in Places,
           B!Collect(pc, next), Len(pipe.response) + parent.i <= job
    PROVE  /\ parent.pc = pc /\ ~B!Disturbed /\ UNCHANGED <<job, child, faults>>
           /\ pipe' \in PipeRecord /\ pipe'.response = <<>> /\ pipe'.start = pipe.start
           /\ pipe'.result = pipe.result /\ pipe'.exit = pipe.exit /\ pipe'.open = pipe.open
           /\ parent' \in ParentRecord /\ parent'.merged = parent.merged
           /\ parent'.time = parent.time /\ parent'.sigterm = parent.sigterm
           /\ parent'.sigchld = parent.sigchld
           /\ \/ /\ Len(pipe.response) + parent.i < job
                 /\ parent'.pc = pc /\ parent'.i = Len(pipe.response) + parent.i
              \/ /\ Len(pipe.response) + parent.i = job
                 /\ parent'.pc = next /\ parent'.i = 0
<1> DEFINE n == IF Len(pipe.response) < B!Wanted THEN Len(pipe.response) ELSE B!Wanted
<1>1. /\ parent.pc = pc /\ ~B!Disturbed /\ UNCHANGED <<job, child, faults>>
      /\ pipe' = [pipe EXCEPT !.response = SubSeq(pipe.response, n + 1, Len(pipe.response))]
      /\ parent' = IF n = B!Wanted THEN [parent EXCEPT !.i = 0, !.pc = next]
                                 ELSE [parent EXCEPT !.i = parent.i + n]
  BY DEF B!Collect, B!At
<1>2. /\ BTyped /\ parent \in ParentRecord /\ pipe \in PipeRecord /\ parent.i \in Nat /\ job \in Nat
      /\ pipe.response \in Seq(Messages) /\ Len(pipe.response) \in Nat
  BY JobsFacts DEF BInv, BTyped, ParentRecord, PipeRecord
<1>3. n = Len(pipe.response)
  BY <1>2 DEF B!Wanted
<1>4. n = B!Wanted <=> Len(pipe.response) + parent.i = job
  BY <1>2, <1>3 DEF B!Wanted
<1> HIDE DEF n
<1>5. SubSeq(pipe.response, n + 1, Len(pipe.response)) = <<>>
  BY <1>2, <1>3
<1>6. /\ pipe' \in PipeRecord /\ pipe'.response = <<>> /\ pipe'.start = pipe.start
      /\ pipe'.result = pipe.result /\ pipe'.exit = pipe.exit /\ pipe'.open = pipe.open
  <2>1. pipe' = [pipe EXCEPT !.response = <<>>]
    BY <1>1, <1>5
  <2>2. <<>> \in Seq(Messages)
    OBVIOUS
  <2> QED BY <1>2, <2>1, <2>2 DEF PipeRecord
<1>7. CASE Len(pipe.response) + parent.i = job
  <2>1. parent' = [parent EXCEPT !.i = 0, !.pc = next]
    BY <1>1, <1>4, <1>7
  <2>2. /\ parent' \in ParentRecord /\ parent'.merged = parent.merged
        /\ parent'.time = parent.time /\ parent'.sigterm = parent.sigterm
        /\ parent'.sigchld = parent.sigchld /\ parent'.pc = next /\ parent'.i = 0
    BY <1>2, <2>1 DEF ParentRecord
  <2> QED BY <1>1, <1>6, <1>7, <2>2
<1>8. CASE Len(pipe.response) + parent.i # job
  <2> DEFINE i == Len(pipe.response) + parent.i
  <2>1. i < job /\ i \in Nat
    BY <1>2, <1>8
  <2>2. parent' = [parent EXCEPT !.i = i]
    BY <1>1, <1>2, <1>3, <1>4, <1>8
  <2> HIDE DEF i
  <2>3. /\ parent' \in ParentRecord /\ parent'.merged = parent.merged
        /\ parent'.time = parent.time /\ parent'.sigterm = parent.sigterm
        /\ parent'.sigchld = parent.sigchld /\ parent'.pc = parent.pc /\ parent'.i = i
    BY <1>2, <2>1, <2>2 DEF ParentRecord
  <2> QED BY <1>1, <1>6, <2>1, <2>3 DEF i
<1> QED BY <1>7, <1>8

LEMMA CollectReadyStep ==
    ASSUME BenchmpAssumption, BInv, B!CollectReady
    PROVE  BInv'
<1>1. /\ BTyped /\ parent.pc = "ready" /\ parent.i \in Nat /\ job \in Nat /\ job > 0
      /\ faults \in 0..MaxFaults /\ Len(pipe.response) \in Nat
  BY JobsFacts DEF BInv, B!CollectReady, B!Collect, B!At, BTyped, ParentRecord, PipeRecord
<1>2. StageReady /\ pipe.open /\ pipe.exit = 0 /\ Collected = parent.i
  BY <1>1 DEF BInv, Staged, Leading, Collected
<1>3. /\ Cardinality(Past(Early)) \in Nat /\ Cardinality(Past(Early)) <= job
      /\ Len(pipe.response) + parent.i <= Cardinality(Past(Early))
      /\ job <= Cardinality(Past(Early)) => \A c \in Jobs : child[c].st \notin Early
  BY <1>1, <1>2, PastFacts DEF StageReady
<1>4. /\ ~B!Disturbed /\ UNCHANGED <<job, child, faults>>
      /\ pipe' \in PipeRecord /\ pipe'.response = <<>> /\ pipe'.start = pipe.start
      /\ pipe'.result = pipe.result /\ pipe'.exit = pipe.exit /\ pipe'.open = pipe.open
      /\ parent' \in ParentRecord /\ parent'.merged = parent.merged
      /\ parent'.time = parent.time /\ parent'.sigterm = parent.sigterm
      /\ parent'.sigchld = parent.sigchld
      /\ \/ /\ Len(pipe.response) + parent.i < job
            /\ parent'.pc = "ready" /\ parent'.i = Len(pipe.response) + parent.i
         \/ /\ Len(pipe.response) + parent.i = job
            /\ parent'.pc = "start" /\ parent'.i = 0
  <2>1. Len(pipe.response) + parent.i <= job /\ "start" \in Places /\ B!Collect("ready", "start")
    BY <1>1, <1>3 DEF Places, Leading, B!CollectReady
  <2> QED BY <2>1, CollectFacts
<1>5. parent'.pc \in {"ready", "start"} /\ parent'.i \in Nat /\ parent'.i < job
  BY <1>1, <1>4
<1>6. Bounded'
  BY <1>1, <1>4, <1>5 DEF BInv, Bounded
<1>7. Staged'
  <2>1. Collected' \in Nat /\ Collected' <= Cardinality(Past(Early))
    BY <1>1, <1>3, <1>4 DEF Collected
  <2>2. Past(Early)' = Past(Early) /\ Only(Early \cup {"ready"})'
    BY <1>2, <1>4, SettledFacts DEF StageReady
  <2>3. StageReady'
    BY <1>2, <1>3, <1>4, <2>1, <2>2 DEF StageReady
  <2>4. parent'.pc = "start" => Only({"ready"})'
    <3> SUFFICES ASSUME parent'.pc = "start" PROVE Only({"ready"})'
      OBVIOUS
    <3>1. \A c \in Jobs : child[c].st \notin Early
      BY <1>3, <1>4
    <3> QED BY <1>2, <1>4, <3>1 DEF StageReady, Only, Jobs
  <2> QED BY <1>2, <1>4, <1>5, <2>3, <2>4 DEF Staged, B!At
<1>8. Indexed'
  BY <1>4, <1>5 DEF Indexed, B!At
<1>9. Merging'
  BY <1>1, <1>4, <1>5, NoTime DEF BInv, Merging
<1>10. Reaping'
  BY <1>1, <1>4, <1>5 DEF BInv, Reaping, B!At, Left, Leading
<1>11. Faultless'
  BY <1>1, <1>4, <1>5 DEF BInv, Faultless, Leading
<1> QED BY <1>1, <1>4, <1>6, <1>7, <1>8, <1>9, <1>10, <1>11, SettledStep

LEMMA CollectDoneStep ==
    ASSUME BenchmpAssumption, BInv, B!CollectDone
    PROVE  BInv'
<1>1. /\ BTyped /\ parent.pc = "done" /\ parent.i \in Nat /\ job \in Nat /\ job > 0
      /\ faults \in 0..MaxFaults /\ Len(pipe.response) \in Nat
  BY JobsFacts DEF BInv, B!CollectDone, B!Collect, B!At, BTyped, ParentRecord, PipeRecord
<1>2. StageDone /\ pipe.open /\ pipe.exit = 0 /\ Collected = parent.i
  BY <1>1 DEF BInv, Staged, Leading, Collected, B!At
<1>3. /\ Cardinality(Past(Busy)) \in Nat /\ Cardinality(Past(Busy)) <= job
      /\ Len(pipe.response) + parent.i <= Cardinality(Past(Busy))
      /\ job <= Cardinality(Past(Busy)) => \A c \in Jobs : child[c].st \notin Busy
  BY <1>1, <1>2, PastFacts DEF StageDone
<1>4. /\ ~B!Disturbed /\ UNCHANGED <<job, child, faults>>
      /\ pipe' \in PipeRecord /\ pipe'.response = <<>> /\ pipe'.start = pipe.start
      /\ pipe'.result = pipe.result /\ pipe'.exit = pipe.exit /\ pipe'.open = pipe.open
      /\ parent' \in ParentRecord /\ parent'.merged = parent.merged
      /\ parent'.time = parent.time /\ parent'.sigterm = parent.sigterm
      /\ parent'.sigchld = parent.sigchld
      /\ \/ /\ Len(pipe.response) + parent.i < job
            /\ parent'.pc = "done" /\ parent'.i = Len(pipe.response) + parent.i
         \/ /\ Len(pipe.response) + parent.i = job
            /\ parent'.pc = "ask" /\ parent'.i = 0
  <2>1. Len(pipe.response) + parent.i <= job /\ "ask" \in Places /\ B!Collect("done", "ask")
    BY <1>1, <1>3 DEF Places, Leading, B!CollectDone
  <2> QED BY <2>1, CollectFacts
<1>5. parent'.pc \in {"done", "ask"} /\ parent'.i \in Nat /\ parent'.i < job
  BY <1>1, <1>4
<1>6. Bounded'
  BY <1>1, <1>4, <1>5 DEF BInv, Bounded
<1>7. ASSUME parent'.pc = "done" PROVE Staged' /\ Merging'
  <2>1. Collected' \in Nat /\ Collected' <= Cardinality(Past(Busy))
    BY <1>1, <1>3, <1>4 DEF Collected
  <2>2. Past(Busy)' = Past(Busy) /\ Only(Busy \cup {"cooldown"})'
    BY <1>2, <1>4, SettledFacts DEF StageDone
  <2>3. StageDone'
    BY <1>2, <1>3, <1>4, <2>1, <2>2 DEF StageDone
  <2>4. Staged'
    BY <1>2, <1>4, <1>7, <2>3 DEF Staged, B!At
  <2>5. Merging'
    BY <1>1, <1>4, <1>7, NoTime DEF BInv, Merging
  <2> QED BY <2>4, <2>5
<1>8. ASSUME parent'.pc = "ask" PROVE Staged' /\ Merging'
  <2>1. Len(pipe.response) + parent.i = job /\ parent'.i = 0
    BY <1>4, <1>8
  <2>2. \A c \in Jobs : child[c].st \notin Busy
    BY <1>3, <2>1
  <2>3. Only(Asked)'
    BY <1>2, <1>4, <2>2 DEF StageDone, Only, Jobs, Busy, Asked
  <2>4. pipe.result = 0
    BY <1>2 DEF StageDone
  <2>5. StageResult'
    BY <1>4, <2>3, <2>4 DEF StageResult
  <2>6. Staged'
    BY <1>2, <1>4, <1>8, <2>4, <2>5 DEF Staged, B!At
  <2>7. parent'.merged = <<>>
    BY <1>1, <1>4 DEF BInv, Merging
  <2>8. Gathering'
    BY <1>4, <1>8, <2>1, <2>7 DEF Gathering, Distinct, Apart, Final, Reported, B!At
  <2>9. Merging'
    BY <1>1, <1>4, <1>8, <2>8, NoTime DEF Merging
  <2> QED BY <2>6, <2>9
<1>9. Indexed'
  BY <1>4, <1>5 DEF Indexed, B!At
<1>10. Reaping'
  BY <1>1, <1>4, <1>5 DEF BInv, Reaping, B!At, Left, Leading
<1>11. Faultless'
  BY <1>1, <1>4, <1>5 DEF BInv, Faultless, Leading
<1> QED BY <1>1, <1>4, <1>5, <1>6, <1>7, <1>8, <1>9, <1>10, <1>11, SettledStep

(* The token comes back with a result of a child that none is merged of.     *)
LEMMA GatherStep ==
    ASSUME BenchmpAssumption, BInv, B!Gather
    PROVE  BInv'
<1> DEFINE m == Head(pipe.response)
           p == IF parent.i + 1 = job THEN "exit" ELSE "ask"
           merged == Append(parent.merged, m)
<1>1. /\ BTyped /\ parent.pc = "gather" /\ pipe.response # <<>> /\ UNCHANGED <<job, child, faults>>
      /\ pipe' = [pipe EXCEPT !.response = Tail(pipe.response)]
      /\ parent' = [parent EXCEPT !.merged = merged, !.i = parent.i + 1, !.pc = p]
  BY DEF BInv, B!Gather, B!At
<1>2. /\ parent \in ParentRecord /\ pipe \in PipeRecord /\ faults \in 0..MaxFaults
      /\ parent.i \in Nat /\ job \in Nat /\ parent.merged \in Seq(Results)
      /\ pipe.response \in Seq(Messages) /\ pipe.result \in Nat
  BY <1>1, JobsFacts DEF BTyped, ParentRecord, PipeRecord
<1>3. /\ StageResult /\ pipe.open /\ pipe.exit = 0 /\ Gathering /\ parent.i < job
  BY <1>1 DEF BInv, Staged, Leading, Merging, Indexed
<1>4. /\ Len(pipe.response) = 1 /\ pipe.result = 0 /\ m = pipe.response[1]
      /\ Tail(pipe.response) = <<>>
  <2>1. Len(pipe.response) \in Nat /\ Len(pipe.response) # 0
    BY <1>1, <1>2
  <2>2. pipe.result + Len(pipe.response) <= 1 /\ pipe.result \in Nat
    BY <1>2, <1>3 DEF StageResult
  <2>3. Len(pipe.response) = 1 /\ pipe.result = 0
    <3>1. \A a, b \in Nat : a + b <= 1 /\ b # 0 => b = 1 /\ a = 0
      OBVIOUS
    <3> QED BY <2>1, <2>2, <3>1
  <2>4. m = pipe.response[1]
    BY <1>2, <2>3
  <2>5. Tail(pipe.response) \in Seq(Messages) /\ Len(Tail(pipe.response)) = 0
    BY <1>2, <2>3, <1>1
  <2>6. Tail(pipe.response) = <<>>
    <3>1. \A s \in Seq(Messages) : Len(s) = 0 => s = <<>>
      OBVIOUS
    <3> QED BY <2>5, <3>1
  <2> QED BY <2>3, <2>4, <2>6
<1>5. m \in Results
  BY <1>3, <1>4 DEF StageResult
<1>6. /\ merged \in Seq(Results) /\ Len(merged) = Len(parent.merged) + 1
      /\ \A k \in 1..Len(parent.merged) : merged[k] = parent.merged[k]
      /\ merged[Len(parent.merged) + 1] = m /\ Len(parent.merged) \in Nat
  BY <1>2, <1>5
<1>7. Len(parent.merged) = parent.i
  BY <1>1, <1>3 DEF Gathering, B!At
<1>8. p \in {"exit", "ask"} /\ parent.i + 1 \in Nat
      /\ (p = "exit" => parent.i + 1 = job) /\ (p = "ask" => parent.i + 1 < job)
  BY <1>2, <1>3
<1> HIDE DEF m, merged, p
<1>9. /\ parent' \in ParentRecord /\ parent'.pc = p /\ parent'.i = parent.i + 1
      /\ parent'.merged = merged /\ parent'.time = parent.time
      /\ parent'.sigterm = parent.sigterm /\ parent'.sigchld = parent.sigchld
  <2> DEFINE i == parent.i + 1
  <2>1. p \in Places /\ i \in Nat
    BY <1>8 DEF Places, Leading
  <2>2. parent' = [parent EXCEPT !.merged = merged, !.i = i, !.pc = p]
    BY <1>1
  <2> HIDE DEF i
  <2>3. /\ parent' \in ParentRecord /\ parent'.pc = p /\ parent'.i = i
        /\ parent'.merged = merged /\ parent'.time = parent.time
        /\ parent'.sigterm = parent.sigterm /\ parent'.sigchld = parent.sigchld
    BY <1>2, <1>6, <2>1, <2>2 DEF ParentRecord
  <2> QED BY <2>3 DEF i
<1>10. /\ pipe' \in PipeRecord /\ pipe'.response = <<>> /\ pipe'.start = pipe.start
       /\ pipe'.result = 0 /\ pipe'.exit = 0 /\ pipe'.open
  <2>1. pipe' = [pipe EXCEPT !.response = <<>>]
    BY <1>1, <1>4
  <2>2. <<>> \in Seq(Messages)
    OBVIOUS
  <2> QED BY <1>2, <1>3, <1>4, <2>1, <2>2 DEF PipeRecord
<1>11. Bounded'
  <2>1. parent'.i <= job /\ Len(pipe'.response) <= job
    BY <1>2, <1>3, <1>9, <1>10
  <2> QED BY <1>1, <1>2, <1>10, <2>1 DEF BInv, Bounded
<1>12. Staged'
  <2>1. Only(Asked)'
    BY <1>1, <1>3 DEF StageResult, Only, Jobs
  <2>2. StageResult'
    BY <1>10, <2>1 DEF StageResult
  <2> QED BY <1>8, <1>9, <1>10, <2>2 DEF Staged, B!At
<1>13. Indexed'
  BY <1>1, <1>8, <1>9 DEF Indexed, B!At
<1>14. Merging'
  <2>1. m.from \in Jobs /\ (job > 1 => m.n = Reps) /\ child[m.from].st \in {"sent"} \cup Gone
    BY <1>3, <1>4 DEF Gathering, Final, Reported
  <2>2. \A k \in 1..Len(parent.merged) : parent.merged[k].from # m.from
    BY <1>3, <1>4 DEF Gathering, Apart
  <2>3. \A k \in 1..Len(merged) : k \in 1..Len(parent.merged) \/ k = Len(parent.merged) + 1
    BY <1>6
  <2>4. Distinct(merged)
    <3>1. ASSUME NEW k \in 1..Len(merged), NEW l \in 1..Len(merged),
                 merged[k].from = merged[l].from
          PROVE  k = l
      <4>1. CASE k \in 1..Len(parent.merged) /\ l \in 1..Len(parent.merged)
        BY <1>3, <1>6, <3>1, <4>1 DEF Gathering, Distinct
      <4>2. CASE k = Len(parent.merged) + 1 /\ l \in 1..Len(parent.merged)
        BY <1>6, <2>2, <3>1, <4>2
      <4>3. CASE l = Len(parent.merged) + 1 /\ k \in 1..Len(parent.merged)
        BY <1>6, <2>2, <3>1, <4>3
      <4> QED BY <2>3, <4>1, <4>2, <4>3
    <3> QED BY <3>1 DEF Distinct
  <2>5. Final(merged) /\ Reported(merged)
    <3>1. ASSUME NEW k \in 1..Len(merged)
          PROVE  /\ merged[k].from \in Jobs /\ (job > 1 => merged[k].n = Reps)
                 /\ child[merged[k].from].st \in {"sent"} \cup Gone
      <4>1. CASE k \in 1..Len(parent.merged)
        BY <1>3, <1>6, <4>1 DEF Gathering, Final, Reported
      <4>2. CASE k = Len(parent.merged) + 1
        BY <1>6, <2>1, <4>2
      <4> QED BY <2>3, <4>1, <4>2
    <3> QED BY <3>1 DEF Final, Reported
  <2>6. Len(merged) = parent.i + 1
    BY <1>6, <1>7
  <2>7. Distinct(parent.merged)' /\ Final(parent.merged)' /\ Reported(parent.merged)'
    BY <1>1, <1>9, <2>4, <2>5 DEF Distinct, Final, Reported, Jobs
  <2>8. /\ Apart(parent.merged, pipe.response)' /\ Final(pipe.response)'
        /\ Reported(pipe.response)'
    BY <1>10 DEF Apart, Final, Reported
  <2>9. Len(parent'.merged) = IF parent'.pc = "exit" THEN job' ELSE parent'.i
    BY <1>1, <1>8, <1>9, <2>6
  <2>10. Gathering'
    BY <2>7, <2>8, <2>9 DEF Gathering, B!At
  <2> QED BY <1>1, <1>8, <1>9, <2>10, NoTime DEF Merging
<1>15. Reaping'
  BY <1>1, <1>8, <1>9 DEF BInv, Reaping, B!At, Left, Leading
<1>16. Faultless'
  BY <1>1, <1>8, <1>9 DEF BInv, Faultless, Leading
<1> QED BY <1>1, <1>2, <1>9, <1>10, <1>11, <1>12, <1>13, <1>14, <1>15, <1>16, SettledStep

(* The first call, and the second one after the baseline.                    *)
LEMMA InitInv ==
    ASSUME BenchmpAssumption, B!Init
    PROVE  BInv
<1>1. /\ Parallel \in Nat /\ Parallel > 0 /\ Reps \in Nat /\ MaxFaults \in Nat
      /\ 0 \in 0..Reps /\ 0 \in 0..MaxFaults /\ job = 1 /\ faults = 0
  BY DEF B!Init, BenchmpAssumption, B!ParallelAssumption, B!RepsAssumption
<1>2. <<>> \in Seq(Results) /\ <<>> \in Seq(Messages) /\ "fork" \in Places
  BY DEF Places, Leading
<1>3. /\ parent \in ParentRecord /\ parent.pc = "fork" /\ parent.i = 0 /\ parent.merged = <<>>
      /\ ~parent.sigchld /\ ~parent.sigterm /\ ~parent.time
  BY <1>2 DEF B!Init, B!Entering, ParentRecord
<1>4. /\ pipe \in PipeRecord /\ pipe.response = <<>> /\ pipe.start = 0 /\ pipe.result = 0
      /\ pipe.exit = 0 /\ pipe.open
  BY <1>2 DEF B!Init, B!EmptyPipes, PipeRecord
<1>5. /\ child \in [B!Children -> ChildRecord]
      /\ \A c \in B!Children : child[c].st = "none" /\ ~child[c].rcv
  <2>1. B!Unborn \in ChildRecord /\ B!Unborn.st = "none" /\ B!Unborn.rcv = FALSE
    BY <1>1 DEF B!Unborn, ChildRecord, States
  <2> QED BY <2>1 DEF B!Init
<1>6. BTyped
  BY <1>1, <1>3, <1>4, <1>5 DEF BTyped
<1>7. Bounded
  BY <1>1, <1>3, <1>4 DEF Bounded
<1>8. Staged
  <2>1. Only(Early \cup {"ready"})
    BY <1>5, <1>6, JobsFacts DEF Only, Early
  <2>2. Cardinality(Past(Early)) \in Nat /\ Collected = 0
    BY <1>3, <1>6, PastFacts DEF Collected
  <2>3. StageReady
    BY <1>4, <2>1, <2>2 DEF StageReady
  <2> QED BY <1>3, <1>4, <2>3 DEF Staged, B!At
<1>9. Indexed /\ Whole /\ Merging
  BY <1>1, <1>3 DEF Indexed, Whole, Merging, B!At
<1>10. Reaping
  BY <1>3, <1>5 DEF Reaping, B!At, Left
<1>11. Faultless
  BY <1>3, <1>5 DEF Faultless, Leading, Gone
<1> QED BY <1>6, <1>7, <1>8, <1>9, <1>10, <1>11 DEF BInv

LEMMA BaselineStep ==
    ASSUME BenchmpAssumption, BInv, B!Baseline
    PROVE  BInv'
<1>1. /\ Parallel \in Nat /\ Parallel > 0 /\ Reps \in Nat /\ MaxFaults \in Nat
      /\ 0 \in 0..Reps /\ faults \in 0..MaxFaults /\ job' = Parallel /\ faults' = faults
  BY JobsFacts DEF BInv, B!Baseline, BTyped
<1>2. <<>> \in Seq(Results) /\ <<>> \in Seq(Messages) /\ "fork" \in Places
  BY DEF Places, Leading
<1>3. /\ parent' \in ParentRecord /\ parent'.pc = "fork" /\ parent'.i = 0
      /\ parent'.merged = <<>> /\ ~parent'.sigchld /\ ~parent'.sigterm /\ ~parent'.time
  BY <1>2 DEF B!Baseline, B!Entering, ParentRecord
<1>4. /\ pipe' \in PipeRecord /\ pipe'.response = <<>> /\ pipe'.start = 0 /\ pipe'.result = 0
      /\ pipe'.exit = 0 /\ pipe'.open
  BY <1>2 DEF B!Baseline, B!EmptyPipes, PipeRecord
<1>5. /\ child' \in [B!Children -> ChildRecord]
      /\ \A c \in B!Children : child'[c].st = "none" /\ ~child'[c].rcv
  <2>1. B!Unborn \in ChildRecord /\ B!Unborn.st = "none" /\ B!Unborn.rcv = FALSE
    BY <1>1 DEF B!Unborn, ChildRecord, States
  <2> QED BY <2>1 DEF B!Baseline
<1>6. BTyped'
  BY <1>1, <1>3, <1>4, <1>5
     DEF BTyped, ParentRecord, ChildRecord, PipeRecord, Results, Messages, B!Children
<1>7. Bounded'
  BY <1>1, <1>3, <1>4 DEF Bounded
<1>8. Staged'
  <2>1. Jobs' = B!Children
    BY <1>1 DEF Jobs, B!Children
  <2>2. Only(Early \cup {"ready"})'
    BY <1>5, <2>1 DEF Only, Early
  <2>3. Past(Early)' = {}
    BY <1>5, <2>1 DEF Past, Early
  <2>4. Cardinality(Past(Early)') = 0 /\ Collected' = 0
    BY <1>3, <2>3, FS_EmptySet DEF Collected
  <2>5. StageReady'
    BY <1>4, <2>2, <2>4 DEF StageReady
  <2> QED BY <1>3, <1>4, <2>5 DEF Staged, B!At
<1>9. Indexed' /\ Merging'
  BY <1>3 DEF Indexed, Merging, B!At
<1>10. Whole'
  BY <1>1, <1>5 DEF Whole, Jobs, B!Children, Asked
<1>11. Reaping'
  BY <1>3, <1>5 DEF Reaping, B!At, Left
<1>12. Faultless'
  BY <1>3, <1>5 DEF Faultless, Leading, Gone
<1> QED BY <1>6, <1>7, <1>8, <1>9, <1>10, <1>11, <1>12 DEF BInv

-----------------------------------------------------------------------------
(* The theorems                                                              *)

LEMMA BenchmpStep ==
    ASSUME BenchmpAssumption, BInv, [B!Next]_B!vars
    PROVE  BInv'
<1>1. CASE UNCHANGED B!vars
  <2>1. UNCHANGED <<job, parent, child, pipe, faults>>
    BY <1>1 DEF B!vars
  <2>2. BTyped' /\ Bounded' /\ Indexed' /\ Whole'
    BY <2>1 DEF BInv, BTyped, ParentRecord, ChildRecord, PipeRecord, Results, Messages, B!Children,
                Bounded, Indexed, Whole, Jobs, B!At
  <2>3. Staged'
    BY <2>1 DEF BInv, Staged, StageReady, StageDone, StageResult, Only, Past, Collected, Jobs,
                Results, B!Children, B!At
  <2>4. Merging'
    <3>1. Gathering => Gathering'
      BY <2>1 DEF Gathering, Distinct, Apart, Final, Reported, Jobs, B!At
    <3>2. Merged => Merged'
      BY <2>1 DEF Merged, Distinct, Final, Jobs
    <3> QED BY <2>1, <3>1, <3>2 DEF BInv, Merging
  <2>5. Reaping' /\ Faultless'
    BY <2>1 DEF BInv, Reaping, Faultless, Left, Only, Jobs, B!At
  <2> QED BY <2>2, <2>3, <2>4, <2>5 DEF BInv
<1>2. CASE B!ParentStep
  BY <1>2, ForkStep, ForkFailsStep, ForkedStep, CollectReadyStep, SendStartStep, CollectDoneStep,
     AskStep, GatherStep, SendExitStep, GiveUpStep, KillNextStep, WaitNextStep, ErrorDoneStep,
     UndoKillStep, UndoWaitStep, AwaitStep, AlarmStep, ReturnStep, BaselineStep DEF B!ParentStep
<1>3. CASE B!SigTerm \/ B!ParentKilled
  BY <1>3, SigTermStep, ParentKilledStep
<1>4. ASSUME NEW c \in B!Children, B!ChildStep(c) \/ B!ChildKilled(c) \/ B!ChildHangs(c)
      PROVE  BInv'
  BY <1>4, InitialisedStep, SendReadyStep, StartedStep, MeasureStep, MeasureLastStep,
     SeesRequestStep, ReportStep, ExitStep, OrphanedStep, ChildKilledStep, ChildHangsStep
     DEF B!ChildStep
<1> QED BY <1>1, <1>2, <1>3, <1>4 DEF B!Next

(* The children and the parent keep to the rounds of messages, whoever of    *)
(* them is killed or hangs, at any moment.                                   *)
THEOREM BenchmpInvariant == ASSUME BenchmpAssumption PROVE B!Spec => []BInv
<1>1. B!Init => BInv
  BY InitInv
<1>2. BInv /\ [B!Next]_B!vars => BInv'
  BY BenchmpStep
<1> QED BY <1>1, <1>2, PTL DEF B!Spec

(* Types, with the bounds of the bytes in each pipe.                         *)
THEOREM BenchmpTypeOK == ASSUME BenchmpAssumption PROVE B!Spec => []B!TypeOK
<1>1. BInv => B!TypeOK
  <2> SUFFICES ASSUME BInv PROVE B!TypeOK
    OBVIOUS
  <2>1. BTyped /\ Bounded /\ job \in Nat
    BY JobsFacts DEF BInv
  <2>2. /\ parent.pc \in Places /\ parent.i \in Nat
        /\ parent.inherited \in {"default", "benchmp_sigterm"}
    BY <2>1 DEF BTyped, ParentRecord
  <2>3. pipe.start \in Nat /\ pipe.result \in Nat /\ pipe.exit \in Nat
    BY <2>1 DEF BTyped, PipeRecord
  <2>4. \A c \in B!Children : child[c].st \in States /\ child[c].i \in 0..Reps
    BY <2>1 DEF BTyped, ChildRecord
  <2>5. parent.i \in 0..job /\ pipe.start \in 0..job /\ pipe.result \in 0..1 /\ pipe.exit \in 0..job
    BY <2>1, <2>2, <2>3 DEF Bounded
  <2>6. job \in {1, Parallel} /\ faults \in 0..MaxFaults /\ Len(pipe.response) <= job
    BY <2>1 DEF BTyped, Bounded
  <2> QED BY <2>2, <2>4, <2>5, <2>6 DEF B!TypeOK, Places, Leading, States, Alive, Gone
<1> QED BY <1>1, BenchmpInvariant, PTL

(* Every measurement is taken under the whole load, for any number of        *)
(* children and in any order of their messages.                              *)
THEOREM LoadHeldHolds == ASSUME BenchmpAssumption PROVE B!Spec => []B!LoadHeld
<1>1. BInv => B!LoadHeld
  <2> SUFFICES ASSUME BInv, faults = 0, NEW c \in Jobs, NEW d \in Jobs, child[c].st = "timing"
               PROVE  child[d].st \in {"ready", "timing", "cooldown"}
    BY DEF B!LoadHeld, Jobs
  <2>1. parent.pc \in Leading
    BY DEF BInv, Faultless, Only, Asked, Gone
  <2>2. child[d].st \notin Gone
    BY <2>1, JobsFacts DEF BInv, Faultless
  <2>3. StageDone
    BY <2>1 DEF BInv, Staged, StageReady, StageResult, Only, Early, Asked, Gone
  <2> QED BY <2>2, <2>3 DEF StageDone, Only, Busy
<1> QED BY <1>1, BenchmpInvariant, PTL

(* The merged results are one of each child, with all its measurements.      *)
THEOREM ResultsCompleteHolds == ASSUME BenchmpAssumption PROVE B!Spec => []B!ResultsComplete
<1>1. BInv => B!ResultsComplete
  <2> SUFFICES ASSUME BInv, parent.time
               PROVE  /\ {parent.merged[k].from : k \in 1..Len(parent.merged)} = 1..job
                      /\ Len(parent.merged) = job
                      /\ job > 1 => \A k \in 1..job : parent.merged[k].n = Reps
    BY DEF B!ResultsComplete
  <2>1. Merged /\ job \in Nat
    BY JobsFacts DEF BInv, Merging
  <2> DEFINE f == [k \in Jobs |-> parent.merged[k].from]
  <2>2. f \in [Jobs -> Jobs] /\ \A k, l \in Jobs : f[k] = f[l] => k = l
    BY <2>1 DEF Merged, Distinct, Final, Jobs
  <2> HIDE DEF f
  <2>3. f \in Injection(Jobs, Jobs)
    BY <2>2 DEF Injection, IsInjective
  <2>4. IsFiniteSet(Jobs)
    BY <2>1, FS_Interval DEF Jobs
  <2>5. f \in Surjection(Jobs, Jobs)
    BY <2>3, <2>4, FS_Injection
  <2>6. \A d \in Jobs : \E k \in Jobs : f[k] = d
    BY <2>5 DEF Surjection
  <2>7. {parent.merged[k].from : k \in Jobs} = Jobs
    BY <2>2, <2>6 DEF f
  <2> QED BY <2>1, <2>7 DEF Merged, Final, Jobs
<1> QED BY <1>1, BenchmpInvariant, PTL

(* A call that returns has reaped all its children, on every path out.       *)
THEOREM NoChildLeftHolds == ASSUME BenchmpAssumption PROVE B!Spec => []B!NoChildLeft
<1>1. BInv => B!NoChildLeft
  BY JobsFacts DEF BInv, Reaping, B!NoChildLeft, Left
<1> QED BY <1>1, BenchmpInvariant, PTL
=============================================================================
