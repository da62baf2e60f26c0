------------------------------ MODULE NginxPlan ------------------------------
(***************************************************************************)
(* The test plan that nginx.sh (the server under test) and wrk.sh (the     *)
(* load generator) walk through, each on its own and each with its own     *)
(* copy of the loops.  A position is one handshake of the plan:            *)
(*                                                                         *)
(*   op = "conf"    the client asks how many nodes or CPUs there are       *)
(*   op = "start"   the client asks to start the test it names             *)
(*   op = "finish"  the client says that test is over                      *)
(*   op = "done"    the loops are exhausted                                *)
(*                                                                         *)
(* The text the scripts send is "<op><tag>"; the tag is the rest of the    *)
(* position: "$mode-$crc-core$core", "$mode-node$node-core$core",          *)
(* "$mode-server", "getnodenum", "$mode-node$node" and so on.              *)
(***************************************************************************)
EXTENDS Integers

CONSTANTS
    NumModes,    \* number of entries of nginxmode[] (five in the scripts)
    GzipModes,   \* the entries served compressed (httplonggzip)
    NodeNum,     \* NUMA nodes of the server, node_num
    NodeCpus,    \* CPUs of each node, cpuid_count
    SocketCpus   \* CPUs of the NIC's socket and of the other, socket_cpucount

Sockets == {"socketl", "socketr"}

ASSUME NumModesAssumption == NumModes \in Nat \ {0}
ASSUME GzipModesAssumption == GzipModes \subseteq 1..NumModes
ASSUME NodeNumAssumption == NodeNum \in Nat \ {0}
ASSUME NodeCpusAssumption == NodeCpus \in [0..NodeNum-1 -> Nat]
ASSUME SocketCpusAssumption == SocketCpus \in [Sockets -> Nat]

-----------------------------------------------------------------------------
(* Positions.  A field a handshake's text does not hold is 0, and the node   *)
(* of a position outside any node is -1.                                     *)

Phases == Sockets \cup {"node", "server", "stats"}
Args == Phases \cup {"all"}

Position == [ph   : Phases \cup {"none"},
             op   : {"conf", "start", "finish", "done"},
             mode : Nat, node : Nat \cup {-1}, core : Nat]

At(ph, op, mode, node, core) ==
    [ph |-> ph, op |-> op, mode |-> mode, node |-> node, core |-> core]

Done == At("none", "done", 0, -1, 0)
Conf(ph) == At(ph, "conf", 0, -1, 0)
NodeConf(mode, node) == At("node", "conf", mode, node, 0)
StartOf(ph, mode, node, core) == At(ph, "start", mode, node, core)

(* serverhandle asks nothing before its first test, the others begin with a  *)
(* question.                                                                 *)
PhaseStart(ph) == IF ph = "server" THEN StartOf("server", 1, -1, 0) ELSE Conf(ph)

(* The "case $3 in" of nginx.sh and the "case $2 in" of wrk.sh.              *)
First(arg) == PhaseStart(IF arg = "all" THEN "socketl" ELSE arg)

PhaseAfter(arg, ph) ==
    IF arg # "all" \/ ph = "stats"
    THEN Done
    ELSE PhaseStart(CASE ph = "socketl" -> "socketr"
                      [] ph = "socketr" -> "node"
                      [] ph = "node"    -> "server"
                      [] OTHER          -> "stats")

(* The core ladder of a unit with count CPUs: the for loop tries 1, 2, 4 ... *)
(* while core <= count, and the "max is not 2^n" branch after it tries the   *)
(* value the loop variable was left with.                                    *)
Tested(count, core) == core <= count \/ 2 * count # core

(* After the handshakes of a node: the next node of this mode, the first     *)
(* node of the next mode, or the end of nodehandle.  The variant has <= for  *)
(* < in the loop over the nodes.                                             *)
NodeAfter_PastLast(arg, mode, node, nodes) ==
    CASE node < nodes -> NodeConf(mode, node + 1)
      [] node >= nodes /\ mode < NumModes -> NodeConf(mode + 1, 0)
      [] OTHER -> PhaseAfter(arg, "node")

NodeAfter(arg, mode, node, nodes) ==
    CASE node + 1 < nodes -> NodeConf(mode, node + 1)
      [] node + 1 >= nodes /\ mode < NumModes -> NodeConf(mode + 1, 0)
      [] OTHER -> PhaseAfter(arg, "node")

ModeAfter(arg, p, nodes) ==
    CASE p.ph = "node" -> NodeAfter(arg, p.mode, p.node, nodes)
      [] p.ph \in Sockets /\ p.mode < NumModes -> StartOf(p.ph, p.mode + 1, -1, 1)
      [] p.ph = "server" /\ p.mode < NumModes -> StartOf("server", p.mode + 1, -1, 0)
      [] OTHER -> PhaseAfter(arg, p.ph)

(* The handshake after p, for a script that was started with arg and counts  *)
(* nodes NUMA nodes, and count CPUs in the unit it is working on.            *)
Successor(arg, p, nodes, count) ==
    CASE p.op = "conf" /\ p.ph \in Sockets -> StartOf(p.ph, 1, -1, 1)
      [] p.op = "conf" /\ p.ph = "node" /\ p.node = -1 ->
           IF nodes > 0 THEN NodeConf(1, 0) ELSE PhaseAfter(arg, "node")
      [] p.op = "conf" /\ p.ph = "node" /\ p.node # -1 ->
           StartOf("node", p.mode, p.node, 1)
      [] p.op = "conf" /\ p.ph = "stats" -> Done
      [] p.op = "start" -> [p EXCEPT !.op = "finish"]
      [] p.op = "finish" /\ p.ph # "server" /\ p.core <= count
                         /\ Tested(count, 2 * p.core) ->
           StartOf(p.ph, p.mode, p.node, 2 * p.core)
      [] OTHER -> ModeAfter(arg, p, nodes)

-----------------------------------------------------------------------------
(* What the server knows of itself.                                          *)

CpuCount(p) == IF p.ph \in Sockets THEN SocketCpus[p.ph]
               ELSE IF p.ph = "node" /\ p.node \in 0..NodeNum-1 THEN NodeCpus[p.node]
               ELSE 0

(* The number get_nginx_server_info sends back ("getservername" sends a host *)
(* name, on which nothing depends); the variant is one short.                *)
Answer_OneShort(p) == IF p.ph = "node" /\ p.node = -1 THEN NodeNum - 1 ELSE CpuCount(p)
Answer(p) == IF p.ph = "node" /\ p.node = -1 THEN NodeNum ELSE CpuCount(p)

(* The directives of nginx.conf a test depends on: gzip, worker_processes    *)
(* (0 stands for auto), and worker_cpu_affinity as the unit whose CPUs it    *)
(* names and how many masks it holds; serverhandle deletes that line.  The   *)
(* variant leaves the loop of cpu_str_to_affinity one mask early.            *)
NginxConf == [gzip : BOOLEAN, workers : Nat,
              unit : (Phases \cup {"none"}) \X (Nat \cup {-1}), masks : Nat]

ConfFor_OneMaskLess(p) ==
    [gzip    |-> p.mode \in GzipModes,
     workers |-> p.core,
     unit    |-> IF p.ph = "server" THEN <<"none", -1>> ELSE <<p.ph, p.node>>,
     masks   |-> (IF p.core <= CpuCount(p) THEN p.core ELSE CpuCount(p)) - 1]

ConfFor(p) ==
    [gzip    |-> p.mode \in GzipModes,
     workers |-> p.core,
     unit    |-> IF p.ph = "server" THEN <<"none", -1>> ELSE <<p.ph, p.node>>,
     masks   |-> IF p.core <= CpuCount(p) THEN p.core ELSE CpuCount(p)]

(* nginx rejects a worker_cpu_affinity directive without an argument.        *)
Loadable(c) == c.unit # <<"none", -1>> => c.masks > 0

(* grep -q: the text found contains the text looked for, so a number at the  *)
(* end only has to begin with the expected one (core1 is found in core16).   *)
(* CPU and node numbers have at most three digits.                           *)
DigitPrefix(a, b) == \/ b = a
                     \/ a > 0 /\ b \in 10 * a .. 10 * a + 9
                     \/ a > 0 /\ b \in 100 * a .. 100 * a + 99

Contains(found, expected) ==
    /\ found.op = expected.op
    /\ found.ph = expected.ph
    /\ found.mode = expected.mode
    /\ IF expected.op = "conf"
       THEN DigitPrefix(expected.node, found.node)
       ELSE found.node = expected.node /\ DigitPrefix(expected.core, found.core)

=============================================================================
