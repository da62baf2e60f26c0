---------------------------- MODULE NumaTopology ----------------------------
(***************************************************************************)
(* How nginx_on_one_socket_handle of nginx.sh decides which NUMA nodes are *)
(* on the NIC's socket and which are on the other one.  A machine is a     *)
(* record: its sockets (dmidecode), its nodes (numactl -H), the node of    *)
(* the NIC (lspci).                                                        *)
(***************************************************************************)
EXTENDS Integers, FiniteSetsExt

(* "result" in the script.                                                   *)
PerSocket(m) == m.nodes \div m.sockets

(* The comparison "[ $nic_node -lt $result ]", and with -le in its place.    *)
LowHalf_Inclusive(m) == m.nic <= PerSocket(m)
LowHalf(m) == m.nic < PerSocket(m)

(* The nodes start_node..end_node; a node that numactl does not list has no  *)
(* CPUs.                                                                     *)
NodesOf(m, which) ==
    IF m.sockets # m.nodes
    THEN IF LowHalf(m) <=> (which = "socketl")
         THEN 0 .. PerSocket(m) - 1
         ELSE PerSocket(m) .. m.nodes - 1
    ELSE {IF which = "socketl" THEN m.nic ELSE 1 - m.nic} \cap 0 .. m.nodes - 1

(* The number of words of socket_cpulist.                                    *)
CpusOf(m, which, cpus) == MapThenSumSet(LAMBDA n : cpus[n], NodesOf(m, which))

=============================================================================
