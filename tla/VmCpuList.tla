----------------------------- MODULE VmCpuList -----------------------------
(***************************************************************************)
(* help.py of the environment scripts: which CPUs of a NUMA node the test  *)
(* VM is pinned to, which are isolated from the host's scheduler and which *)
(* are left to it, and the CPUs the fio test uses on the host and in the   *)
(* guest.  Lists and ranges of CPUs that end in kernel arguments are sets. *)
(***************************************************************************)
EXTENDS Integers, Sequences

CONSTANT Configs   \* the arguments help.py is called with

Ranges == [lo : Nat, hi : Nat]

(* The ranges of "NUMA nodeN CPU(s)", VM_CPU_START_INDEX, VM_CPU_NUM, all    *)
(* CPUs of the machine, TEST_BIND_CPU_START_INDEX.                           *)
Config == [ranges : Seq(Ranges), start : Nat, num : Nat, all : Nat, test : Nat]

ASSUME ConfigsAssumption == Configs \subseteq Config

VARIABLES
    config,   \* the arguments of this call
    status,   \* "called", or how it ended
    list      \* vm-cpu-list

vars == <<config, status, list>>

NoList == [vcpu |-> <<>>, isolated |-> {}, others |-> {}, emulator |-> -1, io |-> -1,
           hostTest |-> <<>>, guestTest |-> <<>>]

Init == config \in Configs /\ status = "called" /\ list = NoList

-----------------------------------------------------------------------------
(* vcpu_array: one range is used from start on; of two, the siblings of the  *)
(* hyperthreads, one CPU each in turn.                                       *)
First(c) == c.ranges[1].lo + c.start
Second(c) == c.ranges[2].lo + c.start
Half(c) == c.num \div 2

Vcpu(c) ==
    [i \in 1..c.num |->
        IF Len(c.ranges) = 1
        THEN First(c) + i - 1
        ELSE (IF i % 2 = 1 THEN First(c) ELSE Second(c)) + (i - 1) \div 2]

Last(c) == Vcpu(c)[c.num]

(* isolcpu_str and restcpu_str.  The variant of the latter begins the part   *)
(* between the two ranges one CPU early.                                     *)
Isolated(c) ==
    IF Len(c.ranges) = 1
    THEN First(c) .. Last(c)
    ELSE (First(c) .. Vcpu(c)[c.num - 1]) \cup (Second(c) .. Last(c))

AboveLast(c) == IF Last(c) < c.all - 1 THEN Last(c) + 1 .. c.all - 1 ELSE {}

Others_Early(c) ==
    IF Len(c.ranges) = 1
    THEN 0 .. First(c) - 1 \cup AboveLast(c)
    ELSE (0 .. First(c) - 1) \cup (Vcpu(c)[c.num - 1] .. Second(c) - 1) \cup AboveLast(c)

Others(c) ==
    IF Len(c.ranges) = 1
    THEN (0 .. First(c) - 1) \cup AboveLast(c)
    ELSE (0 .. First(c) - 1) \cup (Vcpu(c)[c.num - 1] + 1 .. Second(c) - 1) \cup AboveLast(c)

(* VM_IO_PIN_CPU; the variant takes the emulator's CPU.                      *)
IoPin_Same(c) == First(c) - 1
IoPin(c) == IF Len(c.ranges) = 1 THEN First(c) - 2 ELSE Second(c) - 1

(* The eight CPUs of a test: a slice of vcpu_array on the host, which may be *)
(* shorter; in the guest eight numbers from start_index on.                  *)
HostTest(c) ==
    [i \in 1..(IF c.test + 8 <= c.num THEN 8 ELSE c.num - c.test) |-> Vcpu(c)[c.test + i]]
GuestTest(c) == [i \in 1..8 |-> c.start + i - 1]

Whole(c) ==
    [vcpu |-> Vcpu(c), isolated |-> Isolated(c), others |-> Others(c),
     emulator |-> First(c) - 1, io |-> IoPin(c),
     hostTest |-> HostTest(c), guestTest |-> GuestTest(c)]

(* write_vm_cpu_tune fails at TEST_HOST_LIST1, with all but the test CPUs in *)
(* the file.                                                                 *)
Partial(c) == [Whole(c) EXCEPT !.hostTest = <<>>, !.guestTest = <<>>]

-----------------------------------------------------------------------------
End(result, file) == status' = result /\ list' = file /\ UNCHANGED config

(* An odd number exits with 1, none at all is an index error.                *)
Rejects ==
    /\ status = "called"
    /\ config.num % 2 # 0 \/ (config.num = 0 /\ Len(config.ranges) \in {1, 2})
    /\ End("failed", NoList)

(* A node of more than two ranges: exit 0, and no file.                      *)
Nothing ==
    /\ status = "called"
    /\ config.num % 2 = 0 /\ Len(config.ranges) \notin {1, 2}
    /\ End("nothing", NoList)

Writes ==
    /\ status = "called"
    /\ config.num % 2 = 0 /\ config.num > 0 /\ Len(config.ranges) \in {1, 2}
    /\ IF config.test < config.num
       THEN End("written", Whole(config))
       ELSE End("failed", Partial(config))

Next == Rejects \/ Nothing \/ Writes

Spec == Init /\ [][Next]_vars

-----------------------------------------------------------------------------
(* Properties                                                                *)

(* The node has the CPUs the VM is to have, and two below them; help.py does *)
(* not check this.                                                           *)
Room(c, r, num) == c.start + num <= r.hi - r.lo + 1 /\ r.hi < c.all

Fits(c) ==
    /\ c.start >= 2
    /\ Len(c.ranges) = 1 => Room(c, c.ranges[1], c.num)
    /\ Len(c.ranges) = 2 => /\ Room(c, c.ranges[1], Half(c))
                            /\ Room(c, c.ranges[2], Half(c))
                            /\ c.ranges[1].hi < c.ranges[2].lo

Vcpus == {list.vcpu[i] : i \in 1..config.num}

(* isolcpus and rcu_nocbs name exactly the CPUs of the VM, no two of its     *)
(* CPUs are the same, and kthread_cpus and irqaffinity name exactly the      *)
(* others.                                                                   *)
CpusPartitioned ==
    status = "written" /\ Fits(config) =>
        /\ list.isolated = Vcpus
        /\ list.isolated \cap list.others = {}
        /\ list.isolated \cup list.others = 0 .. config.all - 1
        /\ \A i, j \in 1..config.num : list.vcpu[i] = list.vcpu[j] => i = j

(* The emulator and the I/O thread have a CPU each, on the VM's node and     *)
(* outside the isolated ones; the host's test runs on CPUs of the VM; and    *)
(* when the two start indexes agree, guest and host test the same CPUs.      *)
PinsApart ==
    status = "written" /\ Fits(config) =>
        /\ list.emulator # list.io
        /\ {list.emulator, list.io} \subseteq list.others
        /\ \A p \in {list.emulator, list.io} : \E k \in 1..Len(config.ranges) :
              p \in config.ranges[k].lo .. config.ranges[k].hi
        /\ \A i \in 1..Len(list.hostTest) :
              /\ list.hostTest[i] \in list.isolated
              /\ config.start = config.test =>
                    list.vcpu[list.guestTest[i] + 1] = list.hostTest[i]

=============================================================================
