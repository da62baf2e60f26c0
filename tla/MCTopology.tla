----------------------------- MODULE MCTopology -----------------------------
(* The scripts' arithmetic on a machine's CPUs and NUMA nodes, for TLC:      *)
(* VmCpuList over every machine of up to MaxCpus CPUs, and NumaTopology over *)
(* every machine of up to MaxSockets sockets and MaxNodes nodes.             *)
EXTENDS VmCpuList, NumaTopology

CONSTANTS MaxCpus, Starts, Nums, MaxSockets, MaxNodes

VARIABLE machine   \* what dmidecode, numactl and lspci say to nginx.sh

SmallRanges == {r \in [lo : 0..MaxCpus-1, hi : 0..MaxCpus-1] : r.lo <= r.hi}

(* One range, two in order, and three that stand for more than two.          *)
RangeLists ==
    {<<r>> : r \in SmallRanges}
    \cup {<<r, s>> : r \in SmallRanges, s \in SmallRanges}
    \cup {<<[lo |-> k, hi |-> k], [lo |-> k + 2, hi |-> k + 2], [lo |-> k + 4, hi |-> k + 4]>> :
             k \in 0..1}

SmallConfigs ==
    [ranges : RangeLists, start : Starts, num : Nums, all : {MaxCpus}, test : {0, 2, 3}]

OneRange == [ranges |-> <<[lo |-> 0, hi |-> 3]>>, start |-> 2, num |-> 2, all |-> MaxCpus, test |-> 0]

Machines ==
    {m \in [sockets : 1..MaxSockets, nodes : 1..MaxNodes, nic : 0..MaxNodes-1] :
        m.nic < m.nodes}

OneNode == [sockets |-> 1, nodes |-> 1, nic |-> 0]

(* The two computations have nothing to do with each other: every call of    *)
(* help.py with one machine, and every machine with one call.                *)
TopologyInit ==
    \/ machine = OneNode /\ Init
    \/ machine \in Machines /\ config = OneRange /\ Init

TopologySpec == TopologyInit /\ [][Next /\ UNCHANGED machine]_<<vars, machine>>

(* nginx_on_one_socket_handle: the NIC's node is among the nodes called      *)
(* local and no node is called both local and remote; with two sockets and   *)
(* as many nodes on each, the two lists cover all nodes and are equally long.*)
NodesSplit ==
    LET local == NodesOf(machine, "socketl")
        remote == NodesOf(machine, "socketr")
    IN  /\ machine.nic \in local /\ local \cap remote = {}
        /\ machine.sockets = 2 /\ machine.nodes % 2 = 0 =>
               /\ local \cup remote = 0..machine.nodes-1
               /\ Cardinality(local) = Cardinality(remote)

=============================================================================
