---------------------------- MODULE MCNginxBench ----------------------------
(* Instances of NginxBench for TLC.                                          *)
EXTENDS NginxBench, NumaTopology, TLC

(* Two nodes, one per socket: three CPUs next to the NIC, one on the other. *)
TwoNodes == [sockets |-> 2, nodes |-> 2, nic |-> 0]
SmallNodes == 0 :> 3 @@ 1 :> 1
SmallSockets == [s \in Sockets |-> CpusOf(TwoNodes, s, SmallNodes)]

(* Nine CPUs next to the NIC: cores 1, 2, 4, 8 and 16, so that the text of   *)
(* one test (core1) is found in the text of another (core16).                *)
WideNodes == 0 :> 9 @@ 1 :> 1
WideSockets == [s \in Sockets |-> CpusOf(TwoNodes, s, WideNodes)]

Faults(serverlaunch, clientlaunch, kill, loss, stop, start) ==
    [serverlaunch |-> serverlaunch, clientlaunch |-> clientlaunch,
     kill |-> kill, loss |-> loss, stop |-> stop, start |-> start]

OnceEach == Faults(1, 1, 0, 0, 0, 0)
KillsAndLosses == Faults(2, 2, 2, 1, 0, 0)
NginxTrouble == Faults(2, 1, 1, 0, 1, 1)

=============================================================================
