--------------------------- MODULE TopologyProofs ---------------------------
(***************************************************************************)
(* The scripts' arithmetic on machines of any size: help.py splits the     *)
(* CPUs between the VM and the host, and nginx.sh the NUMA nodes into the  *)
(* local and the remote ones.                                              *)
(***************************************************************************)
EXTENDS MCTopology, FiniteSetTheorems, TLAPS

-----------------------------------------------------------------------------
(* The CPUs of the test VM                                                   *)

(* What a written list was computed from.                                    *)
FromConfig ==
    /\ config \in Config
    /\ status = "written" =>
          /\ list = Whole(config)
          /\ config.num % 2 = 0 /\ config.num > 0
          /\ Len(config.ranges) \in {1, 2}
          /\ config.test < config.num

(* An even number is twice its half.                                         *)
LEMMA HalfOfEven ==
    ASSUME NEW n \in Nat, n % 2 = 0, n > 0
    PROVE  /\ n \div 2 \in Nat \ {0}
           /\ n = 2 * (n \div 2)
BY SMT

(* A list that help.py wrote is the list of its arguments, which it accepted.*)
LEMMA ListFromConfig == Spec => []FromConfig
<1>1. Init => FromConfig
    BY ConfigsAssumption DEF Init, FromConfig
<1>2. FromConfig /\ [Next]_vars => FromConfig'
    BY DEF FromConfig, Next, vars, Rejects, Nothing, Writes, End
<1> QED BY <1>1, <1>2, PTL DEF Spec

(* The arguments, field by field.                                            *)
LEMMA Fields ==
    ASSUME NEW c \in Config
    PROVE  /\ c.start \in Nat /\ c.num \in Nat /\ c.all \in Nat /\ c.test \in Nat
           /\ \A k \in 1..Len(c.ranges) : c.ranges[k].lo \in Nat /\ c.ranges[k].hi \in Nat
           /\ Len(c.ranges) \in {1, 2} => First(c) \in Nat
           /\ Len(c.ranges) = 2 => Second(c) \in Nat
<1>1. /\ c.start \in Nat /\ c.num \in Nat /\ c.all \in Nat /\ c.test \in Nat
      /\ c.ranges \in Seq(Ranges)
    BY DEF Config
<1>2. ASSUME NEW k \in 1..Len(c.ranges)
      PROVE  c.ranges[k].lo \in Nat /\ c.ranges[k].hi \in Nat
    <2>1. c.ranges[k] \in Ranges
        BY <1>1
    <2> QED BY <2>1 DEF Ranges
<1>3. Len(c.ranges) \in {1, 2} => First(c) \in Nat
    BY <1>1, <1>2 DEF First
<1>4. Len(c.ranges) = 2 => Second(c) \in Nat
    BY <1>1, <1>2 DEF Second
<1> QED BY <1>1, <1>2, <1>3, <1>4

(* On a node of one range vcpu_array counts up from the first CPU.           *)
LEMMA CountsUp ==
    ASSUME NEW c \in Config, Len(c.ranges) = 1
    PROVE  \A i \in 1..c.num : Vcpu(c)[i] = First(c) + i - 1
BY DEF Vcpu

(* On a node of two, the CPUs of each alternate: every place of vcpu_array   *)
(* is the first or the second of a pair of siblings.                         *)
LEMMA TwoRanges ==
    ASSUME NEW c \in Config, Len(c.ranges) = 2, c.num % 2 = 0, c.num > 0
    PROVE  /\ First(c) \in Nat /\ Second(c) \in Nat
           /\ \A h \in 0 .. Half(c) - 1 : /\ 2 * h + 1 \in 1..c.num
                                          /\ 2 * h + 2 \in 1..c.num
                                          /\ Vcpu(c)[2 * h + 1] = First(c) + h
                                          /\ Vcpu(c)[2 * h + 2] = Second(c) + h
           /\ \A i \in 1..c.num : \E h \in 0 .. Half(c) - 1 : i = 2 * h + 1 \/ i = 2 * h + 2
<1>1. /\ First(c) \in Nat /\ Second(c) \in Nat /\ c.num \in Nat
    BY Fields
<1>2. Half(c) \in Nat /\ c.num = 2 * Half(c)
    BY <1>1, HalfOfEven DEF Half
<1>3. ASSUME NEW h \in 0 .. Half(c) - 1
      PROVE  /\ 2 * h + 1 \in 1..c.num
             /\ 2 * h + 2 \in 1..c.num
             /\ Vcpu(c)[2 * h + 1] = First(c) + h
             /\ Vcpu(c)[2 * h + 2] = Second(c) + h
    <2>1. 2 * h + 1 \in 1..c.num /\ 2 * h + 2 \in 1..c.num
        BY <1>2
    <2>2. /\ (2 * h + 1) % 2 = 1 /\ (2 * h + 1 - 1) \div 2 = h
          /\ (2 * h + 2) % 2 = 0 /\ (2 * h + 2 - 1) \div 2 = h
        BY <1>2
    <2> QED BY <1>1, <2>1, <2>2 DEF Vcpu
<1>4. ASSUME NEW i \in 1..c.num
      PROVE  \E h \in 0 .. Half(c) - 1 : i = 2 * h + 1 \/ i = 2 * h + 2
    <2>1. /\ (i - 1) \div 2 \in 0 .. Half(c) - 1
          /\ i = 2 * ((i - 1) \div 2) + 1 \/ i = 2 * ((i - 1) \div 2) + 2
        BY <1>1, <1>2
    <2> QED BY <2>1
<1> QED BY <1>1, <1>3, <1>4

(* The isolated CPUs of a node of two ranges are two runs of half the VM's   *)
(* CPUs; the CPUs of the VM are those.                                       *)
LEMMA TwoRuns ==
    ASSUME NEW c \in Config, Len(c.ranges) = 2, c.num % 2 = 0, c.num > 0
    PROVE  /\ Half(c) \in Nat \ {0}
           /\ Vcpu(c)[c.num - 1] = First(c) + Half(c) - 1
           /\ Last(c) = Second(c) + Half(c) - 1
           /\ {Vcpu(c)[i] : i \in 1..c.num} = Isolated(c)
<1>1. /\ Half(c) \in Nat \ {0} /\ c.num = 2 * Half(c)
    BY Fields, HalfOfEven DEF Half
<1>2. /\ Vcpu(c)[c.num - 1] = First(c) + Half(c) - 1
      /\ Last(c) = Second(c) + Half(c) - 1
    <2>1. Half(c) - 1 \in 0 .. Half(c) - 1
        BY <1>1
    <2>2. /\ 2 * (Half(c) - 1) + 1 = c.num - 1
          /\ 2 * (Half(c) - 1) + 2 = c.num
        BY <1>1
    <2>3. /\ Vcpu(c)[2 * (Half(c) - 1) + 1] = First(c) + (Half(c) - 1)
          /\ Vcpu(c)[2 * (Half(c) - 1) + 2] = Second(c) + (Half(c) - 1)
        BY <2>1, TwoRanges
    <2> QED BY <1>1, <2>2, <2>3, Fields DEF Last
<1>3. Isolated(c) = (First(c) .. First(c) + Half(c) - 1) \cup (Second(c) .. Second(c) + Half(c) - 1)
    BY <1>2 DEF Isolated
<1>4. ASSUME NEW i \in 1..c.num
      PROVE  Vcpu(c)[i] \in Isolated(c)
    <2>1. PICK h \in 0 .. Half(c) - 1 : i = 2 * h + 1 \/ i = 2 * h + 2
        BY TwoRanges
    <2>2. Vcpu(c)[i] = First(c) + h \/ Vcpu(c)[i] = Second(c) + h
        BY <2>1, TwoRanges
    <2>3. First(c) \in Nat /\ Second(c) \in Nat /\ h \in Nat /\ h <= Half(c) - 1
        BY <1>1, <2>1, Fields
    <2>4. /\ First(c) + h \in First(c) .. First(c) + Half(c) - 1
          /\ Second(c) + h \in Second(c) .. Second(c) + Half(c) - 1
        BY <1>1, <2>3
    <2> QED BY <1>3, <2>2, <2>4
<1>5. ASSUME NEW p \in Isolated(c)
      PROVE  \E i \in 1..c.num : Vcpu(c)[i] = p
    <2>1. CASE p \in First(c) .. First(c) + Half(c) - 1
        <3>1. p - First(c) \in 0 .. Half(c) - 1
            BY <1>1, <2>1, Fields
        <3>2. /\ 2 * (p - First(c)) + 1 \in 1..c.num
              /\ Vcpu(c)[2 * (p - First(c)) + 1] = First(c) + (p - First(c))
            BY <3>1, TwoRanges
        <3>3. First(c) + (p - First(c)) = p
            BY <2>1, <1>1, Fields
        <3> QED BY <3>2, <3>3
    <2>2. CASE p \in Second(c) .. Second(c) + Half(c) - 1
        <3>1. p - Second(c) \in 0 .. Half(c) - 1
            BY <1>1, <2>2, Fields
        <3>2. /\ 2 * (p - Second(c)) + 2 \in 1..c.num
              /\ Vcpu(c)[2 * (p - Second(c)) + 2] = Second(c) + (p - Second(c))
            BY <3>1, TwoRanges
        <3>3. Second(c) + (p - Second(c)) = p
            BY <2>2, <1>1, Fields
        <3> QED BY <3>2, <3>3
    <2> QED BY <1>3, <2>1, <2>2
<1> QED BY <1>1, <1>2, <1>4, <1>5

(* The same of a node of one range: one run.                                 *)
LEMMA OneRun ==
    ASSUME NEW c \in Config, Len(c.ranges) = 1, c.num > 0
    PROVE  /\ Last(c) = First(c) + c.num - 1
           /\ {Vcpu(c)[i] : i \in 1..c.num} = Isolated(c)
<1>1. c.num \in Nat \ {0} /\ First(c) \in Nat
    BY Fields
<1>2. Last(c) = First(c) + c.num - 1
    BY <1>1, CountsUp DEF Last
<1>3. ASSUME NEW i \in 1..c.num
      PROVE  Vcpu(c)[i] \in Isolated(c)
    BY <1>1, <1>2, CountsUp DEF Isolated
<1>4. ASSUME NEW p \in Isolated(c)
      PROVE  \E i \in 1..c.num : Vcpu(c)[i] = p
    <2>1. p \in First(c) .. First(c) + c.num - 1
        BY <1>2 DEF Isolated
    <2>2. /\ p - First(c) + 1 \in 1..c.num
          /\ First(c) + (p - First(c) + 1) - 1 = p
        BY <1>1, <2>1
    <2> QED BY <2>2, CountsUp
<1> QED BY <1>2, <1>3, <1>4

(* Where the room that Fits asks for leaves the VM's CPUs.                   *)
LEMMA Placed ==
    ASSUME NEW c \in Config, Fits(c)
    PROVE  /\ Len(c.ranges) = 1 => First(c) + c.num <= c.all
           /\ Len(c.ranges) = 2 /\ Half(c) \in Nat =>
                 First(c) + Half(c) <= Second(c) /\ Second(c) + Half(c) <= c.all
<1>1. CASE Len(c.ranges) = 1
    <2>1. /\ c.ranges[1].lo \in Nat /\ c.ranges[1].hi \in Nat
          /\ c.start \in Nat /\ c.num \in Nat /\ c.all \in Nat
        BY <1>1, Fields
    <2>2. Room(c, c.ranges[1], c.num)
        BY <1>1 DEF Fits
    <2> QED BY <1>1, <2>1, <2>2 DEF Room, First
<1>2. CASE Len(c.ranges) = 2 /\ Half(c) \in Nat
    <2>1. /\ c.ranges[1].lo \in Nat /\ c.ranges[1].hi \in Nat
          /\ c.ranges[2].lo \in Nat /\ c.ranges[2].hi \in Nat
          /\ c.start \in Nat /\ c.all \in Nat
        BY <1>2, Fields
    <2>2. /\ Room(c, c.ranges[1], Half(c)) /\ Room(c, c.ranges[2], Half(c))
          /\ c.ranges[1].hi < c.ranges[2].lo
        BY <1>2 DEF Fits
    <2> QED BY <1>2, <2>1, <2>2 DEF Room, First, Second
<1> QED BY <1>1, <1>2

(* No CPU is in vcpu_array twice.                                            *)
LEMMA Distinct ==
    ASSUME NEW c \in Config, Fits(c), Len(c.ranges) \in {1, 2}, c.num % 2 = 0, c.num > 0,
           NEW i \in 1..c.num, NEW j \in 1..c.num, Vcpu(c)[i] = Vcpu(c)[j]
    PROVE  i = j
<1>1. CASE Len(c.ranges) = 1
    BY <1>1, CountsUp, Fields
<1>2. CASE Len(c.ranges) = 2
    <2>1. First(c) + Half(c) <= Second(c)
        BY <1>2, TwoRuns, Placed
    <2>2. PICK h \in 0 .. Half(c) - 1 : i = 2 * h + 1 \/ i = 2 * h + 2
        BY <1>2, TwoRanges
    <2>3. PICK g \in 0 .. Half(c) - 1 : j = 2 * g + 1 \/ j = 2 * g + 2
        BY <1>2, TwoRanges
    <2>4. /\ Vcpu(c)[2 * h + 1] = First(c) + h /\ Vcpu(c)[2 * h + 2] = Second(c) + h
          /\ Vcpu(c)[2 * g + 1] = First(c) + g /\ Vcpu(c)[2 * g + 2] = Second(c) + g
        BY <1>2, TwoRanges
    <2>5. First(c) \in Nat /\ Second(c) \in Nat /\ Half(c) \in Nat
        BY <1>2, Fields, TwoRuns
    <2> QED BY <2>1, <2>2, <2>3, <2>4, <2>5
<1> QED BY <1>1, <1>2

(* The runs of the isolated CPUs and those of the others fill the machine    *)
(* and do not overlap.                                                       *)
LEMMA CpusCut ==
    ASSUME NEW c \in Config, Fits(c), Len(c.ranges) \in {1, 2}, c.num % 2 = 0, c.num > 0
    PROVE  /\ Isolated(c) \cap Others(c) = {}
           /\ Isolated(c) \cup Others(c) = 0 .. c.all - 1
<1>1. CASE Len(c.ranges) = 1
    <2>1. First(c) \in Nat /\ c.num \in Nat /\ c.all \in Nat
        BY <1>1, Fields
    <2>2. Last(c) = First(c) + c.num - 1 /\ Last(c) < c.all
        BY <1>1, <2>1, OneRun, Placed
    <2> QED BY <1>1, <2>1, <2>2 DEF Isolated, Others, AboveLast
<1>2. CASE Len(c.ranges) = 2
    <2>1. /\ First(c) \in Nat /\ Second(c) \in Nat /\ Half(c) \in Nat \ {0} /\ c.all \in Nat
        BY <1>2, Fields, TwoRuns
    <2>2. /\ Vcpu(c)[c.num - 1] = First(c) + Half(c) - 1
          /\ Last(c) = Second(c) + Half(c) - 1
        BY <1>2, TwoRuns
    <2>3. First(c) + Half(c) <= Second(c) /\ Last(c) < c.all
        BY <1>2, <2>1, <2>2, Placed
    <2> QED BY <1>2, <2>1, <2>2, <2>3 DEF Isolated, Others, AboveLast
<1> QED BY <1>1, <1>2

(* Whatever the machine, a list that help.py writes isolates exactly the     *)
(* CPUs of the VM and leaves exactly the others to the host, as long as the  *)
(* node has room for the VM.                                                 *)
THEOREM CpusSplit == Spec => []CpusPartitioned
<1>1. FromConfig => CpusPartitioned
    <2>1. SUFFICES ASSUME FromConfig, status = "written", Fits(config)
                   PROVE  /\ list.isolated = Vcpus
                          /\ list.isolated \cap list.others = {}
                          /\ list.isolated \cup list.others = 0 .. config.all - 1
                          /\ \A i, j \in 1..config.num : list.vcpu[i] = list.vcpu[j] => i = j
        BY DEF CpusPartitioned
    <2>2. /\ config \in Config /\ config.num % 2 = 0 /\ config.num > 0
          /\ Len(config.ranges) \in {1, 2}
          /\ list.vcpu = Vcpu(config)
          /\ list.isolated = Isolated(config)
          /\ list.others = Others(config)
        BY <2>1 DEF FromConfig, Whole
    <2>3. list.isolated = Vcpus
        BY <2>2, OneRun, TwoRuns DEF Vcpus
    <2>4. /\ list.isolated \cap list.others = {}
          /\ list.isolated \cup list.others = 0 .. config.all - 1
        BY <2>1, <2>2, CpusCut
    <2>5. ASSUME NEW i \in 1..config.num, NEW j \in 1..config.num,
                 list.vcpu[i] = list.vcpu[j]
          PROVE  i = j
        BY <2>1, <2>2, <2>5, Distinct
    <2> QED BY <2>3, <2>4, <2>5
<1> QED BY <1>1, ListFromConfig, PTL

(* The emulator and the I/O thread: two CPUs of the VM's node that are the   *)
(* host's.                                                                   *)
LEMMA PinsOutside ==
    ASSUME NEW c \in Config, Fits(c), Len(c.ranges) \in {1, 2}, c.num % 2 = 0, c.num > 0
    PROVE  /\ First(c) - 1 # IoPin(c)
           /\ First(c) - 1 \in Others(c) /\ IoPin(c) \in Others(c)
           /\ \A p \in {First(c) - 1, IoPin(c)} : \E k \in 1..Len(c.ranges) :
                 p \in c.ranges[k].lo .. c.ranges[k].hi
<1>1. CASE Len(c.ranges) = 1
    <2>1. /\ c.ranges[1].lo \in Nat /\ c.ranges[1].hi \in Nat
          /\ c.start \in Nat /\ c.num \in Nat /\ c.start >= 2
          /\ Room(c, c.ranges[1], c.num)
        BY <1>1, Fields DEF Fits
    <2>2. First(c) = c.ranges[1].lo + c.start /\ IoPin(c) = First(c) - 2
        BY <1>1 DEF First, IoPin
    <2>3. First(c) - 1 \in Others(c) /\ IoPin(c) \in Others(c)
        BY <1>1, <2>1, <2>2 DEF Others
    <2>4. \A p \in {First(c) - 1, IoPin(c)} : p \in c.ranges[1].lo .. c.ranges[1].hi
        BY <2>1, <2>2 DEF Room
    <2> QED BY <1>1, <2>1, <2>2, <2>3, <2>4
<1>2. CASE Len(c.ranges) = 2
    <2>1. /\ c.ranges[1].lo \in Nat /\ c.ranges[1].hi \in Nat
          /\ c.ranges[2].lo \in Nat /\ c.ranges[2].hi \in Nat
          /\ c.start \in Nat /\ c.start >= 2 /\ Half(c) \in Nat \ {0}
          /\ Room(c, c.ranges[1], Half(c)) /\ Room(c, c.ranges[2], Half(c))
          /\ c.ranges[1].hi < c.ranges[2].lo
        <3>1. Half(c) \in Nat \ {0}
            BY <1>2, TwoRuns
        <3>2. /\ c.start >= 2 /\ c.ranges[1].hi < c.ranges[2].lo
              /\ Room(c, c.ranges[1], Half(c)) /\ Room(c, c.ranges[2], Half(c))
            BY <1>2 DEF Fits
        <3>3. 1 \in 1..Len(c.ranges) /\ 2 \in 1..Len(c.ranges)
            BY <1>2
        <3> QED BY <3>1, <3>2, <3>3, Fields
    <2>2. /\ First(c) = c.ranges[1].lo + c.start /\ Second(c) = c.ranges[2].lo + c.start
          /\ IoPin(c) = Second(c) - 1
        BY <1>2 DEF First, Second, IoPin
    <2>3. Vcpu(c)[c.num - 1] = First(c) + Half(c) - 1
        BY <1>2, TwoRuns
    <2>4. First(c) - 1 \in 0 .. First(c) - 1
          /\ Second(c) - 1 \in First(c) + Half(c) - 1 + 1 .. Second(c) - 1
        BY <2>1, <2>2 DEF Room
    <2>5. First(c) - 1 \in Others(c) /\ IoPin(c) \in Others(c)
        BY <1>2, <2>2, <2>3, <2>4 DEF Others
    <2>6. /\ First(c) - 1 \in c.ranges[1].lo .. c.ranges[1].hi
          /\ IoPin(c) \in c.ranges[2].lo .. c.ranges[2].hi
          /\ First(c) - 1 # IoPin(c)
        BY <2>1, <2>2 DEF Room
    <2> QED BY <1>2, <2>5, <2>6
<1> QED BY <1>1, <1>2

(* A slice of eight, cut off at the end of the array.                        *)
LEMMA SliceLength ==
    ASSUME NEW t \in Nat, NEW m \in Nat, t < m
    PROVE  /\ (IF t + 8 <= m THEN 8 ELSE m - t) \in 1..8
           /\ t + (IF t + 8 <= m THEN 8 ELSE m - t) <= m
OBVIOUS

(* The CPUs of the host's test are a slice of vcpu_array.                    *)
LEMMA TestSlice ==
    ASSUME NEW c \in Config, c.test < c.num, NEW i \in 1..Len(HostTest(c))
    PROVE  /\ HostTest(c)[i] = Vcpu(c)[c.test + i] /\ c.test + i \in 1..c.num
           /\ c.start = c.test => GuestTest(c)[i] + 1 = c.test + i
<1> DEFINE n == IF c.test + 8 <= c.num THEN 8 ELSE c.num - c.test
<1>1. c.test \in Nat /\ c.num \in Nat /\ c.start \in Nat
    BY Fields
<1>2. n \in 1..8 /\ c.test + n <= c.num
    BY <1>1, SliceLength
<1>3. Len(HostTest(c)) = n
    <2> HIDE DEF n
    <2>1. HostTest(c) = [j \in 1..n |-> Vcpu(c)[c.test + j]]
        BY DEF HostTest, n
    <2> QED BY <1>2, <2>1
<1>4. i \in 1..n /\ i \in 1..8
    BY <1>2, <1>3
<1>5. HostTest(c)[i] = Vcpu(c)[c.test + i]
    BY <1>4 DEF HostTest
<1>6. c.test + i \in 1..c.num
    BY <1>1, <1>2, <1>4
<1>7. GuestTest(c)[i] = c.start + i - 1
    BY <1>4 DEF GuestTest
<1>8. c.start = c.test => GuestTest(c)[i] + 1 = c.test + i
    BY <1>1, <1>4, <1>7
<1> QED BY <1>5, <1>6, <1>8

(* The emulator, the I/O thread and the test have the CPUs they should, on   *)
(* every machine whose node has room for the VM.                             *)
THEOREM PinsSeparate == Spec => []PinsApart
<1>1. FromConfig => PinsApart
    <2>1. SUFFICES ASSUME FromConfig, status = "written", Fits(config)
                   PROVE  /\ list.emulator # list.io
                          /\ {list.emulator, list.io} \subseteq list.others
                          /\ \A p \in {list.emulator, list.io} : \E k \in 1..Len(config.ranges) :
                                p \in config.ranges[k].lo .. config.ranges[k].hi
                          /\ \A i \in 1..Len(list.hostTest) :
                                /\ list.hostTest[i] \in list.isolated
                                /\ config.start = config.test =>
                                      list.vcpu[list.guestTest[i] + 1] = list.hostTest[i]
        BY DEF PinsApart
    <2>2. /\ config \in Config /\ config.num % 2 = 0 /\ config.num > 0
          /\ Len(config.ranges) \in {1, 2} /\ config.test < config.num
          /\ list.vcpu = Vcpu(config) /\ list.isolated = Isolated(config)
          /\ list.others = Others(config)
          /\ list.emulator = First(config) - 1 /\ list.io = IoPin(config)
          /\ list.hostTest = HostTest(config) /\ list.guestTest = GuestTest(config)
        BY <2>1 DEF FromConfig, Whole
    <2>3. /\ list.emulator # list.io
          /\ {list.emulator, list.io} \subseteq list.others
          /\ \A p \in {list.emulator, list.io} : \E k \in 1..Len(config.ranges) :
                p \in config.ranges[k].lo .. config.ranges[k].hi
        BY <2>1, <2>2, PinsOutside
    <2>4. {Vcpu(config)[i] : i \in 1..config.num} = Isolated(config)
        BY <2>2, OneRun, TwoRuns
    <2>5. ASSUME NEW i \in 1..Len(list.hostTest)
          PROVE  /\ list.hostTest[i] \in list.isolated
                 /\ config.start = config.test =>
                       list.vcpu[list.guestTest[i] + 1] = list.hostTest[i]
        BY <2>2, <2>4, TestSlice
    <2> QED BY <2>3, <2>5
<1> QED BY <1>1, ListFromConfig, PTL

-----------------------------------------------------------------------------
(* The NUMA nodes local to the NIC                                           *)

(* What nginx_on_one_socket_handle computes for one machine.                 *)
Split(m) ==
    LET local == NodesOf(m, "socketl")
        remote == NodesOf(m, "socketr")
    IN  /\ m.nic \in local /\ local \cap remote = {}
        /\ m.sockets = 2 /\ m.nodes % 2 = 0 =>
               local \cup remote = 0..m.nodes-1 /\ Cardinality(local) = Cardinality(remote)

(* As many nodes as sockets: the NIC's own node, and its neighbour among the *)
(* first two.                                                                *)
LEMMA NodePerSocket ==
    ASSUME NEW m, m.nodes \in Nat, m.nic \in 0..m.nodes-1, m.sockets = m.nodes
    PROVE  Split(m)
<1> DEFINE local == NodesOf(m, "socketl")
           remote == NodesOf(m, "socketr")
<1>1. local = {m.nic} /\ remote = {1 - m.nic} \cap 0..m.nodes-1
  BY DEF NodesOf
<1>2. m.nic \in local /\ local \cap remote = {}
  BY <1>1
<1>3. ASSUME m.sockets = 2
      PROVE  local \cup remote = 0..m.nodes-1 /\ Cardinality(local) = Cardinality(remote)
  <2>1. 0..m.nodes-1 = {0, 1} /\ m.nic \in {0, 1}
    BY <1>3
  <2>2. remote = {1 - m.nic} /\ local \cup remote = {0, 1}
    <3>1. CASE m.nic = 0
      BY <1>1, <2>1, <3>1
    <3>2. CASE m.nic = 1
      BY <1>1, <2>1, <3>2
    <3> QED BY <2>1, <3>1, <3>2
  <2> QED BY <1>1, <2>1, <2>2, FS_Singleton
<1> QED BY <1>2, <1>3 DEF Split

(* Otherwise the nodes are cut in two after those of the first socket.       *)
LEMMA NodesCut ==
    ASSUME NEW m, m.nodes \in Nat, m.sockets \in Nat \ {0}, m.nic \in 0..m.nodes-1,
           m.sockets # m.nodes
    PROVE  Split(m)
<1> DEFINE local == NodesOf(m, "socketl")
           remote == NodesOf(m, "socketr")
           cut == PerSocket(m)
           low == 0..cut-1
           high == cut..m.nodes-1
<1>1. cut \in Int
  BY DEF PerSocket
<1>2. IF m.nic < cut THEN local = low /\ remote = high ELSE local = high /\ remote = low
  BY DEF NodesOf, LowHalf
<1>3. m.nic \in local /\ local \cap remote = {}
  BY <1>1, <1>2
<1>4. ASSUME m.sockets = 2, m.nodes % 2 = 0
      PROVE  local \cup remote = 0..m.nodes-1 /\ Cardinality(local) = Cardinality(remote)
  <2>1. cut \in Nat /\ m.nodes = 2 * cut
    BY <1>4 DEF PerSocket
  <2> HIDE DEF cut
  <2>2. low \cup high = 0..m.nodes-1
    BY <2>1
  <2>3. Cardinality(low) = IF 0 > cut - 1 THEN 0 ELSE (cut - 1) - 0 + 1
    <3>1. cut - 1 \in Int /\ 0 \in Int
      BY <2>1
    <3>2. \A b \in Int : Cardinality(0..b) = IF 0 > b THEN 0 ELSE b - 0 + 1
      BY <3>1, FS_Interval, Zenon
    <3> QED BY <3>1, <3>2
  <2>4. Cardinality(high) = IF cut > m.nodes - 1 THEN 0 ELSE (m.nodes - 1) - cut + 1
    <3>1. cut \in Int /\ m.nodes - 1 \in Int
      BY <2>1
    <3> QED BY <3>1, FS_Interval
  <2>5. Cardinality(low) = cut /\ Cardinality(high) = cut
    BY <2>1, <2>3, <2>4
  <2> QED BY <1>2, <2>2, <2>5
<1> QED BY <1>3, <1>4 DEF Split

(* On every machine whose NIC is on one of its nodes, the NIC's node is      *)
(* called local by nginx_on_one_socket_handle, no node is called both local  *)
(* and remote, and two sockets with as many nodes each are split evenly.     *)
THEOREM NodesSplitHolds == TopologySpec => []NodesSplit
<1>1. ASSUME NEW m \in Machines PROVE Split(m)
  <2>1. m.nodes \in Nat /\ m.sockets \in Nat \ {0} /\ m.nic \in 0..m.nodes-1
    BY DEF Machines
  <2> QED BY <2>1, NodePerSocket, NodesCut
<1>2. Split(OneNode)
  <2>1. OneNode.nodes = 1 /\ OneNode.sockets = 1 /\ OneNode.nic = 0
    BY DEF OneNode
  <2> QED BY <2>1, NodePerSocket
<1>3. TopologyInit => Split(machine)
  BY <1>1, <1>2 DEF TopologyInit
<1>4. Split(machine) /\ [Next /\ UNCHANGED machine]_<<vars, machine>> => Split(machine)'
  BY DEF Split
<1>5. Split(machine) => NodesSplit
  BY DEF Split, NodesSplit
<1> QED BY <1>3, <1>4, <1>5, PTL DEF TopologySpec

=============================================================================
