--------------------------- MODULE NginxBenchProofs ---------------------------
(***************************************************************************)
(* Proofs about NginxBench, for every plan, every topology and every       *)
(* budget of kills, restarts, losses and failed restarts of nginx: its     *)
(* invariants, and that nginx.sh and wrk.sh implement BenchReport:         *)
(* result.txt grows by the tests of the plan, in order and without a gap,  *)
(* and no more of them were measured on a wrong nginx than stops of nginx  *)
(* have failed.                                                            *)
(***************************************************************************)
EXTENDS NginxBench, TLAPS, SequenceTheorems, FiniteSetTheorems

-----------------------------------------------------------------------------
(* The plan                                                                  *)

USE NumModesAssumption, NodeNumAssumption

(* The constructors of positions build positions.                            *)
LEMMA PhaseStartType ==
    ASSUME NEW ph \in Phases
    PROVE  /\ PhaseStart(ph) \in Position
           /\ PhaseStart(ph).op \in {"conf", "start"}
           /\ PhaseStart(ph).mode <= NumModes
           /\ PhaseStart(ph).node = -1
BY DEF PhaseStart, StartOf, Conf, At, Position, Phases, Sockets

(* A script begins with a question or with the first whole-server test.      *)
LEMMA FirstType ==
    ASSUME NEW arg \in Args
    PROVE  /\ First(arg) \in Position
           /\ First(arg).op \in {"conf", "start"}
           /\ First(arg).mode <= NumModes
           /\ First(arg).node = -1
           /\ First(arg).op = "start" => First(arg) = StartOf("server", 1, -1, 0)
BY DEF First, PhaseStart, StartOf, Conf, At, Position, Args, Phases, Sockets

(* The phase after another begins, or the plan is done.                      *)
LEMMA PhaseAfterType ==
    ASSUME NEW arg \in Args, NEW ph \in Phases \cup {"none"}
    PROVE  /\ PhaseAfter(arg, ph) \in Position
           /\ PhaseAfter(arg, ph).op # "finish"
           /\ PhaseAfter(arg, ph).mode <= NumModes
           /\ PhaseAfter(arg, ph).node = -1
<1>1. Done \in Position /\ Done.op = "done" /\ Done.mode = 0 /\ Done.node = -1
  BY DEF Done, At, Position
<1>2. \A q \in Phases : PhaseStart(q).op # "finish"
  BY PhaseStartType
<1>3. {"socketl", "socketr", "node", "server", "stats"} \subseteq Phases
  BY DEF Phases, Sockets
<1> QED BY <1>1, <1>2, <1>3, PhaseStartType DEF PhaseAfter

(* The next mode of a phase, or the next phase, is a position of the plan.   *)
LEMMA ModeAfterType ==
    ASSUME NEW arg \in Args, NEW p \in Position, NEW nodes \in Int
    PROVE  /\ ModeAfter(arg, p, nodes) \in Position
           /\ ModeAfter(arg, p, nodes).op # "finish"
           /\ p.mode <= NumModes /\ p.node < nodes /\ nodes > 0 =>
                 /\ ModeAfter(arg, p, nodes).mode <= NumModes
                 /\ ModeAfter(arg, p, nodes).node < nodes
<1>1. p.mode \in Nat /\ p.node \in Nat \cup {-1} /\ p.ph \in Phases \cup {"none"}
  BY DEF Position
<1>2. PhaseAfter(arg, "node") \in Position /\ PhaseAfter(arg, p.ph) \in Position
  BY <1>1, PhaseAfterType DEF Phases
<1> DEFINE A == PhaseAfter(arg, "node")
           B == PhaseAfter(arg, p.ph)
<1>3. /\ A \in Position /\ A.op # "finish" /\ A.mode <= NumModes /\ A.node = -1
      /\ B \in Position /\ B.op # "finish" /\ B.mode <= NumModes /\ B.node = -1
  BY <1>1, PhaseAfterType DEF Phases
<1> HIDE DEF A, B
<1>4. ModeAfter(arg, p, nodes) =
        CASE p.ph = "node" ->
               (CASE p.node + 1 < nodes -> NodeConf(p.mode, p.node + 1)
                  [] p.node + 1 >= nodes /\ p.mode < NumModes -> NodeConf(p.mode + 1, 0)
                  [] OTHER -> A)
          [] p.ph \in Sockets /\ p.mode < NumModes -> StartOf(p.ph, p.mode + 1, -1, 1)
          [] p.ph = "server" /\ p.mode < NumModes -> StartOf("server", p.mode + 1, -1, 0)
          [] OTHER -> B
  BY DEF ModeAfter, NodeAfter, A, B
<1>5. CASE p.ph = "node"
  BY <1>1, <1>3, <1>4, <1>5 DEF NodeConf, At, Position, Phases, Sockets
<1>6. CASE p.ph # "node"
  BY <1>1, <1>3, <1>4, <1>6 DEF StartOf, At, Position, Phases, Sockets
<1> QED BY <1>5, <1>6

(* The plan after any handshake but a start goes on to something else than   *)
(* the end of a test; after a start it goes on to the end of that test.      *)
LEMMA SuccessorType ==
    ASSUME NEW arg \in Args, NEW p \in Position, NEW nodes \in Int, NEW count \in Int
    PROVE  /\ Successor(arg, p, nodes, count) \in Position
           /\ p.op = "start" => Successor(arg, p, nodes, count) = SameTest(p)
           /\ p.op # "start" => Successor(arg, p, nodes, count).op # "finish"
           /\ p.mode <= NumModes /\ p.node < nodes /\ nodes > 0 =>
                 /\ Successor(arg, p, nodes, count).mode <= NumModes
                 /\ Successor(arg, p, nodes, count).node < nodes
<1> DEFINE A == PhaseAfter(arg, "node")
           B == ModeAfter(arg, p, nodes)
<1>1. /\ A \in Position /\ A.op # "finish" /\ A.mode <= NumModes /\ A.node = -1
  BY PhaseAfterType DEF Phases
<1>2. /\ B \in Position /\ B.op # "finish"
      /\ p.mode <= NumModes /\ p.node < nodes /\ nodes > 0 =>
             B.mode <= NumModes /\ B.node < nodes
  BY ModeAfterType
<1>3. /\ p.mode \in Nat /\ p.node \in Nat \cup {-1} /\ p.ph \in Phases \cup {"none"}
      /\ p.core \in Nat /\ p.op \in {"conf", "start", "finish", "done"}
  BY DEF Position
<1> HIDE DEF A, B
<1>4. Successor(arg, p, nodes, count) =
          CASE p.op = "conf" /\ p.ph \in Sockets -> StartOf(p.ph, 1, -1, 1)
            [] p.op = "conf" /\ p.ph = "node" /\ p.node = -1 ->
                 IF nodes > 0 THEN NodeConf(1, 0) ELSE A
            [] p.op = "conf" /\ p.ph = "node" /\ p.node # -1 ->
                 StartOf("node", p.mode, p.node, 1)
            [] p.op = "conf" /\ p.ph = "stats" -> Done
            [] p.op = "start" -> [p EXCEPT !.op = "finish"]
            [] p.op = "finish" /\ p.ph # "server" /\ p.core <= count
                               /\ Tested(count, 2 * p.core) ->
                 StartOf(p.ph, p.mode, p.node, 2 * p.core)
            [] OTHER -> B
  BY DEF Successor, A, B
<1>5. CASE p.op = "conf"
  BY <1>1, <1>2, <1>3, <1>4, <1>5
     DEF StartOf, NodeConf, Done, At, Position, Phases, Sockets
<1>6. CASE p.op = "start"
  BY <1>3, <1>4, <1>6 DEF Position, SameTest
<1>7. CASE p.op = "finish" /\ p.ph # "server" /\ p.core <= count /\ Tested(count, 2 * p.core)
  BY <1>3, <1>4, <1>7 DEF StartOf, At, Position, Phases, Sockets
<1>8. CASE p.op \in {"finish", "done"}
           /\ ~(p.op = "finish" /\ p.ph # "server" /\ p.core <= count /\ Tested(count, 2 * p.core))
  <2>1. Successor(arg, p, nodes, count) = B
    BY <1>4, <1>8
  <2> QED BY <2>1, <1>2, <1>8
<1> QED BY <1>3, <1>5, <1>6, <1>7, <1>8

(* grep both ways is equality.                                               *)
LEMMA ContainsBoth ==
    ASSUME NEW p \in Position, NEW q \in Position,
           p.op = "start", Contains(p, q), Contains(q, p)
    PROVE  p = q
<1>1. /\ p.op = q.op /\ p.ph = q.ph /\ p.mode = q.mode /\ p.node = q.node
      /\ DigitPrefix(q.core, p.core) /\ DigitPrefix(p.core, q.core)
  BY DEF Contains
<1>2. p.core \in Nat /\ q.core \in Nat
  BY DEF Position
<1>3. p.core = q.core
  BY <1>1, <1>2 DEF DigitPrefix
<1> QED BY <1>1, <1>3 DEF Position

(* The first text of a whole-server run is found in no other text.           *)
LEMMA ContainsFirst ==
    ASSUME NEW arg \in Args, NEW p \in Position,
           First(arg).op = "start", Contains(p, First(arg))
    PROVE  p = First(arg)
<1>1. First(arg) = [ph |-> "server", op |-> "start", mode |-> 1, node |-> -1, core |-> 0]
  BY FirstType DEF StartOf, At
<1>2. p.op = "start" /\ p.ph = "server" /\ p.mode = 1 /\ p.node = -1 /\ DigitPrefix(0, p.core)
  BY <1>1 DEF Contains
<1>3. p.core = 0
  BY <1>2 DEF DigitPrefix, Position
<1> QED BY <1>1, <1>2, <1>3 DEF Position

(* A number of CPUs is a number.                                             *)
LEMMA CpuCountType ==
    ASSUME NEW p \in Position
    PROVE  CpuCount(p) \in Nat
BY SocketCpusAssumption, NodeCpusAssumption DEF CpuCount

(* The seds of nginx.sh write a configuration, and never that of a stopped   *)
(* nginx.                                                                    *)
LEMMA ConfForType ==
    ASSUME NEW p \in Position
    PROVE  /\ ConfFor(p) \in NginxConf
           /\ ConfFor([p EXCEPT !.op = "finish"]) = ConfFor(p)
           /\ ConfFor(p) # Down
<1>1. CpuCount(p) \in Nat
  BY CpuCountType
<1>2. ConfFor(p) \in NginxConf
  BY <1>1 DEF ConfFor, NginxConf, Position
<1>3. CpuCount([p EXCEPT !.op = "finish"]) = CpuCount(p)
  BY DEF CpuCount, Position
<1>4. ConfFor([p EXCEPT !.op = "finish"]) = ConfFor(p)
  BY <1>3 DEF ConfFor, Position
<1>5. ConfFor(p).unit[1] \in Phases \cup {"none"}
  BY DEF ConfFor, Position
<1>6. ConfFor(p) # Down
  BY <1>5 DEF Down, Phases, Sockets
<1> QED BY <1>2, <1>4, <1>6

-----------------------------------------------------------------------------
(* Types                                                                     *)

(* nginx.sh between two handshakes has the type of srv.                      *)
LEMMA ServerAtType ==
    ASSUME NEW arg \in Args, NEW p \in Position
    PROVE  /\ ServerAt(arg, p) \in
                  [pc : {"off", "configure", "restart", "listen", "reply", "exit"},
                   pos : Position, arg : Args]
           /\ ServerAt(arg, p).pos = p /\ ServerAt(arg, p).arg = arg
           /\ ServerAt(arg, p).pc = IF p.op = "start" THEN "configure"
                                    ELSE IF p.op = "done" THEN "exit" ELSE "listen"
BY DEF ServerAt

(* wrk.sh between two handshakes has the type of cli.                        *)
LEMMA ClientAtType ==
    ASSUME NEW arg \in Args, NEW p \in Position, NEW nodes \in Int, NEW count \in Int
    PROVE  /\ ClientAt(arg, p, nodes, count) \in
                  [pc : {"off", "send", "await", "wrk", "running", "exit"},
                   pos : Position, arg : Args, nodes : Int, count : Int]
           /\ ClientAt(arg, p, nodes, count).pos = p
           /\ ClientAt(arg, p, nodes, count).arg = arg
           /\ ClientAt(arg, p, nodes, count).pc = IF p.op = "done" THEN "exit" ELSE "send"
BY DEF ClientAt

(* The nginx.conf that setup.sh installs is a configuration.                 *)
LEMMA StockType == Stock \in NginxConf
BY DEF Stock, NginxConf, Phases, Sockets

(* Counting a fault keeps the type of the counters.                          *)
LEMMA SpendType ==
    ASSUME NEW kind \in FaultKinds, used \in [FaultKinds -> Nat], Spend(kind)
    PROVE  /\ used' \in [FaultKinds -> Nat]
           /\ \A k \in FaultKinds : used'[k] = 0 => used[k] = 0
           /\ used'[kind] # 0
BY DEF Spend

(* What wrk.sh writes to result.txt is a line.                               *)
LEMMA EntryType ==
    ASSUME NEW kind \in {"start", "starterror", "sec", "finish", "finisherror"},
           NEW p \in Position, NEW on \in SUBSET (NginxConf \cup {Down})
    PROVE  Entry(kind, p, on) \in Line
BY DEF Entry, Line

(* A line appended to result.txt is its last one; the others stay.           *)
LEMMA AppendLine ==
    ASSUME NEW file \in Seq(Line), NEW line \in Line
    PROVE  /\ Append(file, line) \in Seq(Line)
           /\ Append(file, line) # <<>>
           /\ Len(Append(file, line)) = Len(file) + 1
           /\ Append(file, line)[Len(file) + 1] = line
           /\ \A i \in 1..Len(file) : Append(file, line)[i] = file[i]
BY AppendProperties

(* Every step keeps the types.                                               *)
LEMMA TypeStep ==
    ASSUME TypeOK, [Next]_vars
    PROVE  TypeOK'
<1> USE DEF TypeOK
<1>1. ASSUME NEW arg \in ServerArgs, ServerLaunch(arg) PROVE TypeOK'
  <2>1. arg \in Args
    BY ArgsAssumption
  <2>2. srv' = ServerAt(arg, First(arg)) /\ First(arg) \in Position
        /\ First(arg).mode <= NumModes /\ First(arg).node = -1
    BY <1>1, <2>1, FirstType DEF ServerLaunch
  <2>3. conf' \in NginxConf
    BY <1>1, StockType DEF ServerLaunch, Recopied
  <2>4. used' \in [FaultKinds -> Nat]
    BY <1>1, SpendType DEF ServerLaunch, FaultKinds
  <2> QED BY <1>1, <2>1, <2>2, <2>3, <2>4, ServerAtType DEF ServerLaunch
<1>2. ASSUME NEW arg \in ClientArgs, ClientLaunch(arg) PROVE TypeOK'
  <2>1. arg \in Args
    BY ArgsAssumption
  <2>2. cli' = ClientAt(arg, First(arg), 0, 0) /\ First(arg) \in Position
    BY <1>2, <2>1, FirstType DEF ClientLaunch
  <2>3. result' \in Seq(Line)
    BY <1>2 DEF ClientLaunch
  <2>4. used' \in [FaultKinds -> Nat]
    BY <1>2, SpendType DEF ClientLaunch, FaultKinds
  <2> QED BY <1>2, <2>1, <2>2, <2>3, <2>4, ClientAtType DEF ClientLaunch
<1>3. CASE StopNginx \/ StopNginxFails
  <2>1. PICK after \in NginxConf \cup {Down} : Reconfigure(after)
    BY <1>3 DEF StopNginx, StopNginxFails
  <2>2. conf' \in NginxConf
    BY <2>1, ConfForType DEF Reconfigure
  <2>3. used' \in [FaultKinds -> Nat]
    BY <1>3, SpendType DEF StopNginx, StopNginxFails, FaultKinds
  <2> QED BY <2>1, <2>2, <2>3 DEF Reconfigure, Meets
<1>4. CASE StartNginx \/ StartNginxFails
  <2>1. PICK after \in NginxConf \cup {Down} : Restarted(after)
    BY <1>4 DEF StartNginx, StartNginxFails
  <2>2. used' \in [FaultKinds -> Nat]
    BY <1>4, SpendType DEF StartNginx, StartNginxFails, FaultKinds
  <2> QED BY <2>1, <2>2 DEF Restarted, Meets
<1>5. NoMessage \in Message
  BY DEF NoMessage, Message, Done, At, Position
<1>6. CASE ServerReceive
  BY <1>5, <1>6 DEF ServerReceive
<1>7. CASE ServerReply \/ ServerReplyLost
  <2>1. ServerAdvance
    BY <1>7 DEF ServerReply, ServerReplyLost
  <2>2. CpuCount(srv.pos) \in Nat
    BY CpuCountType
  <2>3. /\ ServerNext(srv.pos) \in Position
        /\ ServerNext(srv.pos).mode <= NumModes
        /\ ServerNext(srv.pos).node < NodeNum
    <3>1. /\ srv.arg \in Args /\ srv.pos \in Position
          /\ srv.pos.mode <= NumModes /\ srv.pos.node < NodeNum
          /\ NodeNum \in Int /\ NodeNum > 0 /\ CpuCount(srv.pos) \in Int
      BY <2>2
    <3> QED BY <3>1, SuccessorType DEF ServerNext
  <2>4. conf' \in NginxConf
    BY <2>1, StockType DEF ServerAdvance, Recopied
  <2>5. used' \in [FaultKinds -> Nat]
    BY <1>7, SpendType DEF ServerReply, ServerReplyLost, FaultKinds
  <2>6. Reply(srv.pos) \in Message
    BY <2>2 DEF Reply, Number, Text, Answer, Message, Done, At, Position
  <2>7. inbox' \in [Hosts -> Message]
    BY <1>7, <2>6 DEF ServerReply, ServerReplyLost, Hosts
  <2> QED BY <2>1, <2>3, <2>4, <2>5, <2>7, ServerAtType DEF ServerAdvance
<1>8. CASE ServerKilled
  BY <1>5, <1>8, SpendType DEF ServerKilled, FaultKinds
<1>9. CASE ClientSend \/ ClientSendLost
  <2>1. ClientAsked
    BY <1>9 DEF ClientSend, ClientSendLost
  <2>2. used' \in [FaultKinds -> Nat]
    BY <1>9, SpendType DEF ClientSend, ClientSendLost, FaultKinds
  <2>3. Text(cli.pos) \in Message
    BY DEF Text, Message
  <2>4. inbox' \in [Hosts -> Message]
    BY <1>9, <2>3 DEF ClientSend, ClientSendLost, Hosts
  <2> QED BY <2>1, <2>2, <2>4 DEF ClientAsked
<1>10. CASE ClientAnswered
  <2> DEFINE num == inbox["client"].num
             ofNodes == cli.pos.ph = "node" /\ cli.pos.node = -1
             nodes == IF ofNodes THEN num ELSE cli.nodes
             count == IF ofNodes THEN cli.count ELSE num
             next == Successor(cli.arg, cli.pos, nodes, count)
  <2>1. nodes \in Int /\ count \in Int
    BY DEF Message, Hosts
  <2>2. cli' = ClientAt(cli.arg, next, nodes, count)
    BY <1>10 DEF ClientAnswered
  <2>3. cli.arg \in Args /\ cli.pos \in Position
    OBVIOUS
  <2> HIDE DEF nodes, count
  <2>4. next \in Position
    BY <2>1, <2>3, SuccessorType
  <2> HIDE DEF next
  <2>5. cli' \in [pc : {"off", "send", "await", "wrk", "running", "exit"},
                  pos : Position, arg : Args, nodes : Int, count : Int]
    BY <2>1, <2>2, <2>3, <2>4, ClientAtType
  <2>6. \A m : Section(m) \subseteq Line
    BY DEF Section, Kept
  <2>7. csv' \in [1..NumModes -> SUBSET Line]
    BY <1>10, <2>6 DEF ClientAnswered
  <2>8. inbox' \in [Hosts -> Message]
    BY <1>10, <1>5 DEF ClientAnswered
  <2> QED BY <1>10, <2>5, <2>7, <2>8 DEF ClientAnswered
<1>11. ClientNext \in Position
  BY SuccessorType DEF ClientNext
<1>12. ASSUME NEW op, NEW good \in {"start", "finish"}, NEW bad \in {"starterror", "finisherror"},
              NEW then \in [pc : {"off", "send", "await", "wrk", "running", "exit"},
                           pos : Position, arg : Args, nodes : Int, count : Int],
              ClientChecked(op, good, bad, then)
       PROVE  TypeOK'
  <2>1. Entry(good, cli.pos, {}) \in Line /\ Entry(bad, cli.pos, {}) \in Line
    BY EntryType
  <2>2. result' \in Seq(Line)
    <3>1. result' \in {Append(result, Entry(good, cli.pos, {})),
                       Append(result, Entry(bad, cli.pos, {}))}
      BY <1>12 DEF ClientChecked
    <3>2. result \in Seq(Line)
      OBVIOUS
    <3>3. /\ Append(result, Entry(good, cli.pos, {})) \in Seq(Line)
          /\ Append(result, Entry(bad, cli.pos, {})) \in Seq(Line)
      BY ONLY <2>1, <3>2, AppendLine
    <3> QED BY ONLY <3>1, <3>3
  <2> QED BY <1>5, <1>12, <2>2 DEF ClientChecked
<1>13. CASE ClientStarted
  BY <1>11, <1>12, <1>13 DEF ClientStarted
<1>14. CASE ClientFinished
  BY <1>11, <1>12, <1>14, ClientAtType DEF ClientFinished
<1>15. CASE WrkRun
  BY <1>15 DEF WrkRun
<1>16. CASE WrkFails
  BY <1>16 DEF WrkFails
<1>17. CASE WrkEnds
  <2>1. Entry("sec", cli.pos, seen) \in Line
    BY EntryType
  <2>2. result' \in Seq(Line)
    BY <1>17, <2>1, AppendLine DEF WrkEnds
  <2> QED BY <1>17, <2>2 DEF WrkEnds
<1>18. CASE ClientKilled
  BY <1>5, <1>18, SpendType DEF ClientKilled, FaultKinds
<1>19. CASE UNCHANGED vars
  BY <1>19 DEF vars
<1> QED
  BY <1>1, <1>2, <1>3, <1>4, <1>6, <1>7, <1>8, <1>9, <1>10, <1>13, <1>14, <1>15,
     <1>16, <1>17, <1>18, <1>19
     DEF Next, ServerStep, ClientStep, Fault, Terminated

(* The types hold in every state the two scripts reach.                      *)
THEOREM TypeCorrect == Spec => []TypeOK
<1>1. Init => TypeOK
  BY StockType DEF Init, TypeOK, Args, Message, NoMessage, Done, At, Position, Phases
<1>2. TypeOK /\ [Next]_vars => TypeOK'
  BY TypeStep
<1> QED BY <1>1, <1>2, PTL DEF Spec

-----------------------------------------------------------------------------
(* The lockstep                                                              *)

USE DEF InSession, Gone, Fresh

(* Starting nginx.sh keeps the lockstep.                                     *)
LEMMA LockstepServerLaunch ==
    ASSUME TypeOK, Lockstep, NEW arg \in ServerArgs, ServerLaunch(arg)
    PROVE  Lockstep'
<1>1. arg \in Args
  BY ArgsAssumption
<1>2. /\ srv'.pos = First(arg) /\ srv'.pc \in {"configure", "listen"}
      /\ srv'.pc = "configure" => srv'.pos.op = "start"
      /\ srv'.pc = "listen" => srv'.pos.op = "conf"
      /\ srv'.pos.op # "finish" /\ srv'.pos.op # "done"
  BY <1>1, FirstType, ServerAtType DEF ServerLaunch
<1>3. srv.pc \in {"off", "exit"} /\ UNCHANGED <<cli, inbox, nginx, seen, result>>
  BY DEF ServerLaunch
<1>4. \A k \in FaultKinds : used'[k] = 0 => used[k] = 0
  BY SpendType DEF ServerLaunch, FaultKinds, TypeOK
<1>5. inbox["server"] = NoMessage
  BY <1>3 DEF Lockstep, TurnsOK
<1>6. PlacesOK'
  BY <1>2, <1>3 DEF Lockstep, PlacesOK
<1>7. TurnsOK'
  BY <1>2, <1>3, <1>5 DEF Lockstep, TurnsOK
<1>8. SessionOK'
  BY <1>2, <1>3 DEF Lockstep, SessionOK
<1>9. NginxOK'
  BY <1>2, <1>3, <1>4 DEF Lockstep, NginxOK, PlacesOK
<1>10. TailOK'
  BY <1>2, <1>3, <1>4 DEF Lockstep, TailOK, LastLine, SameTest, FaultKinds
<1> QED BY <1>6, <1>7, <1>8, <1>9, <1>10 DEF Lockstep

(* Starting wrk.sh keeps the lockstep.                                       *)
LEMMA LockstepClientLaunch ==
    ASSUME TypeOK, Lockstep, NEW arg \in ClientArgs, ClientLaunch(arg)
    PROVE  Lockstep'
<1>1. arg \in Args
  BY ArgsAssumption
<1>2. /\ cli'.pos = First(arg) /\ cli'.arg = arg /\ cli'.pc = "send"
      /\ cli'.pos.op \in {"conf", "start"}
  BY <1>1, FirstType, ClientAtType DEF ClientLaunch
<1>3. cli.pc \in {"off", "exit"} /\ UNCHANGED <<srv, inbox, conf, nginx, seen>>
  BY DEF ClientLaunch
<1>4. \A k \in FaultKinds : used'[k] = 0 => used[k] = 0
  BY SpendType DEF ClientLaunch, FaultKinds, TypeOK
<1>5. inbox["client"] = NoMessage
  BY <1>3 DEF Lockstep, TurnsOK
<1>6. PlacesOK'
  BY <1>2, <1>3 DEF Lockstep, PlacesOK
<1>7. TurnsOK'
  BY <1>2, <1>3, <1>5 DEF Lockstep, TurnsOK
<1>8. SessionOK'
  BY <1>2, <1>3, <1>5 DEF SessionOK
<1>9. NginxOK'
  BY <1>2, <1>3, <1>4 DEF Lockstep, NginxOK, FaultKinds
<1>10. TailOK'
  BY <1>2 DEF TailOK
<1> QED BY <1>6, <1>7, <1>8, <1>9, <1>10 DEF Lockstep

(* The seds and the stop of nginx_restart keep the lockstep.                 *)
LEMMA LockstepStop ==
    ASSUME TypeOK, Lockstep, StopNginx \/ StopNginxFails
    PROVE  Lockstep'
<1>1. /\ srv.pc = "configure" /\ srv.pos.op = "start"
      /\ srv'.pc = "restart" /\ srv'.pos = srv.pos
      /\ conf' = ConfFor(srv.pos) /\ UNCHANGED <<cli, inbox, result>>
  BY DEF StopNginx, StopNginxFails, Reconfigure, TypeOK, Lockstep, PlacesOK
<1>2. /\ used'["stop"] = 0 => used["stop"] = 0
      /\ used'["stop"] = 0 => nginx' = Down
  BY SpendType DEF StopNginx, StopNginxFails, Reconfigure, TypeOK, FaultKinds
<1>3. PlacesOK'
  BY <1>1 DEF Lockstep, PlacesOK
<1>4. TurnsOK'
  BY <1>1 DEF Lockstep, TurnsOK
<1>5. SessionOK'
  BY <1>1 DEF Lockstep, SessionOK
<1>6. NginxOK'
  BY <1>1, <1>2 DEF NginxOK
<1>7. TailOK'
  BY <1>1, <1>2 DEF Lockstep, TailOK, LastLine, SameTest
<1> QED BY <1>3, <1>4, <1>5, <1>6, <1>7 DEF Lockstep

(* The start of nginx_restart keeps the lockstep.                            *)
LEMMA LockstepStart ==
    ASSUME TypeOK, Lockstep, StartNginx \/ StartNginxFails
    PROVE  Lockstep'
<1>1. /\ srv.pc = "restart" /\ srv.pos.op = "start"
      /\ srv'.pc = "listen" /\ srv'.pos = srv.pos
      /\ UNCHANGED <<cli, inbox, conf, result>>
  BY DEF StartNginx, StartNginxFails, Restarted, TypeOK, Lockstep, PlacesOK
<1>2. used'["stop"] = 0 => used["stop"] = 0
  BY SpendType DEF StartNginx, StartNginxFails, TypeOK, FaultKinds
<1>3. inbox["server"] = NoMessage
  BY <1>1 DEF Lockstep, TurnsOK
<1>4. used["stop"] = 0 => nginx' \in {ConfFor(srv.pos), Down}
  BY <1>1 DEF StartNginx, StartNginxFails, Restarted, Lockstep, NginxOK
<1>5. PlacesOK'
  BY <1>1 DEF Lockstep, PlacesOK
<1>6. TurnsOK'
  BY <1>1, <1>3 DEF Lockstep, TurnsOK
<1>7. SessionOK'
  BY <1>1 DEF Lockstep, SessionOK
<1>8. NginxOK'
  BY <1>1, <1>2, <1>4 DEF NginxOK, Lockstep, PlacesOK
<1>9. TailOK'
  BY <1>1, <1>2 DEF Lockstep, TailOK, LastLine, SameTest
<1> QED BY <1>5, <1>6, <1>7, <1>8, <1>9 DEF Lockstep

(* The check of a text received by nginx.sh keeps the lockstep.              *)
LEMMA LockstepServerReceive ==
    ASSUME TypeOK, Lockstep, ServerReceive
    PROVE  Lockstep'
<1>1. /\ srv.pc = "listen" /\ srv'.pos = srv.pos
      /\ srv'.pc = IF Contains(inbox["server"].pos, srv.pos) THEN "reply" ELSE "exit"
      /\ inbox["server"] # NoMessage
      /\ inbox'["server"] = NoMessage /\ inbox'["client"] = inbox["client"]
      /\ UNCHANGED <<cli, conf, nginx, seen, result, used>>
  BY DEF ServerReceive, TypeOK, Hosts
<1>2. /\ inbox["client"] = NoMessage
      /\ cli.pc \in {"send", "wrk", "running"} => Fresh
      /\ cli.pc = "await" => Fresh \/ inbox["server"].pos = cli.pos
  BY <1>1 DEF Lockstep, TurnsOK, Text
<1>3. Contains(inbox["server"].pos, srv.pos) => inbox["server"].pos.op = srv.pos.op
  BY DEF Contains
<1>4. cli.arg \in Args /\ First(cli.arg).op # "finish"
  BY FirstType DEF TypeOK
<1>5. PlacesOK'
  BY <1>1 DEF Lockstep, PlacesOK
<1>6. TurnsOK'
  BY <1>1, <1>2 DEF Lockstep, TurnsOK
<1>7. SessionOK'
  BY <1>1, <1>2, <1>3, <1>4 DEF Lockstep, SessionOK
<1>8. NginxOK'
  BY <1>1 DEF Lockstep, NginxOK
<1>9. TailOK'
  BY <1>1 DEF Lockstep, TailOK, LastLine, SameTest
<1> QED BY <1>5, <1>6, <1>7, <1>8, <1>9 DEF Lockstep

(* Where the server goes after a reply.                                      *)
LEMMA ServerAdvanceEffect ==
    ASSUME TypeOK, Lockstep, ServerAdvance
    PROVE  /\ srv.pc = "reply" /\ srv'.pc \in {"configure", "listen", "exit"}
           /\ srv.pos.op = "start" => srv'.pos = SameTest(srv.pos) /\ srv'.pc = "listen"
           /\ srv.pos.op # "start" => srv'.pos.op # "finish"
           /\ srv'.pc = "configure" => srv'.pos.op = "start"
           /\ srv'.pc = "listen" => srv'.pos.op \in {"conf", "finish"}
           /\ UNCHANGED <<cli, nginx, seen, result>>
<1>1. srv.arg \in Args /\ srv.pos \in Position /\ NodeNum \in Int /\ CpuCount(srv.pos) \in Int
  BY CpuCountType DEF TypeOK
<1>2. /\ ServerNext(srv.pos) \in Position
      /\ srv.pos.op = "start" => ServerNext(srv.pos) = SameTest(srv.pos)
      /\ srv.pos.op # "start" => ServerNext(srv.pos).op # "finish"
  BY <1>1, SuccessorType DEF ServerNext
<1>3. ServerNext(srv.pos).op \in {"conf", "start", "finish", "done"}
      /\ (srv.pos.op = "start" => SameTest(srv.pos).op = "finish")
  BY <1>1, <1>2 DEF Position, SameTest
<1> QED BY <1>1, <1>2, <1>3, ServerAtType DEF ServerAdvance

(* A reply that wrk.sh takes for the start of its test comes from nginx.sh   *)
(* at that very test, although each of them only greps for the other's text. *)
LEMMA ReplyMatches ==
    ASSUME TypeOK, Lockstep, ServerReply,
           cli.pos.op = "start", Contains(Reply(srv.pos).pos, cli.pos)
    PROVE  srv.pos = cli.pos
<1>1. cli.pc = "await" /\ srv.pc = "reply"
  BY DEF ServerReply, ServerAdvance, Accepting
<1>2. Fresh \/ Contains(cli.pos, srv.pos)
  BY <1>1 DEF Lockstep, TurnsOK
<1>3. cli.pos \in Position /\ srv.pos \in Position /\ cli.arg \in Args
  BY DEF TypeOK
<1>4. Reply(srv.pos).pos.op = "start"
  BY DEF Contains
<1>5. Reply(srv.pos).pos = srv.pos /\ srv.pos.op = "start"
  BY <1>4 DEF Reply, Number, Text, Done, At
<1>6. CASE Fresh
  BY <1>3, <1>5, <1>6, ContainsFirst
<1>7. CASE Contains(cli.pos, srv.pos)
  BY <1>3, <1>5, <1>7, ContainsBoth
<1> QED BY <1>2, <1>6, <1>7

(* A reply to a client at the end of a test comes from that test.            *)
LEMMA FinishMatches ==
    ASSUME TypeOK, Lockstep, ServerReply, cli.pos.op = "finish"
    PROVE  srv.pos = cli.pos /\ srv.pc = "reply"
<1>1. cli.pc = "await" /\ srv.pc = "reply" /\ inbox["client"] = NoMessage
  BY DEF ServerReply, ServerAdvance, Accepting
<1>2. cli.arg \in Args /\ First(cli.arg).op # "finish"
  BY FirstType DEF TypeOK
<1>3. Contains(cli.pos, srv.pos)
  BY <1>1, <1>2 DEF Lockstep, TurnsOK
<1>4. srv.pos.op = "finish"
  BY <1>3 DEF Contains
<1> QED BY <1>1, <1>4 DEF Lockstep, SessionOK

(* A reply of nginx.sh keeps the lockstep: it is here that the client's      *)
(* test becomes the server's.                                                *)
LEMMA LockstepServerReply ==
    ASSUME TypeOK, Lockstep, ServerReply
    PROVE  Lockstep'
<1>1. ServerAdvance /\ used' = used
  BY DEF ServerReply
<1>2. /\ cli.pc = "await" /\ inbox["client"] = NoMessage
      /\ inbox'["client"] = Reply(srv.pos) /\ inbox'["server"] = inbox["server"]
  BY DEF ServerReply, Accepting, TypeOK, Hosts
<1>3. /\ inbox["server"] = NoMessage
      /\ Fresh \/ Contains(cli.pos, srv.pos)
  BY <1>1, <1>2, ServerAdvanceEffect DEF Lockstep, TurnsOK
<1>4. /\ cli.pos \in Position /\ srv.pos \in Position /\ cli.arg \in Args
      /\ First(cli.arg).op # "finish"
  BY FirstType DEF TypeOK
<1>5. ASSUME cli.pos.op = "start", Contains(Reply(srv.pos).pos, cli.pos)
      PROVE  srv.pos = cli.pos
  BY <1>5, ReplyMatches
<1>6. cli.pos.op = "finish" => srv.pos = cli.pos
  BY FinishMatches
<1>7. PlacesOK'
  BY <1>1, ServerAdvanceEffect DEF Lockstep, PlacesOK
<1>8. TurnsOK'
  BY <1>1, <1>2, <1>3, ServerAdvanceEffect DEF TurnsOK
<1>9. SessionOK'
  <2>1. ASSUME cli'.pos.op = "start", Contains(inbox'["client"].pos, cli'.pos)
        PROVE  InSession(SameTest(cli.pos))'
    <3>1. cli' = cli
      BY <1>1, ServerAdvanceEffect
    <3>2. srv.pos = cli.pos /\ srv.pos.op = "start"
      BY <1>2, <1>5, <2>1, <3>1
    <3> QED BY <1>1, <3>1, <3>2, ServerAdvanceEffect
  <2>2. Reply(srv.pos) # NoMessage
    BY CpuCountType, <1>4 DEF Reply, Number, Text, NoMessage, Answer, Message
  <2> QED BY <1>1, <1>2, <2>1, <2>2, ServerAdvanceEffect DEF SessionOK
<1>10. NginxOK'
  <2>1. ConfFor(SameTest(srv.pos)) = ConfFor(srv.pos)
    BY <1>4, ConfForType DEF SameTest
  <2>2. used["stop"] = 0 /\ srv.pos.op = "start" => nginx \in {ConfFor(srv.pos), Down}
    BY <1>1, ServerAdvanceEffect DEF Lockstep, NginxOK
  <2> QED BY <1>1, <1>2, <2>1, <2>2, ServerAdvanceEffect DEF NginxOK
<1>11. TailOK'
  BY <1>1, <1>2, <1>6, ServerAdvanceEffect DEF Lockstep, TailOK, LastLine, SameTest
<1> QED BY <1>7, <1>8, <1>9, <1>10, <1>11 DEF Lockstep

(* A lost reply keeps the lockstep: the server goes on without the client.   *)
LEMMA LockstepServerReplyLost ==
    ASSUME TypeOK, Lockstep, ServerReplyLost
    PROVE  Lockstep'
<1>1. ServerAdvance /\ inbox' = inbox /\ (used'["stop"] = 0 => used["stop"] = 0)
  BY SpendType DEF ServerReplyLost, TypeOK, FaultKinds
<1>2. /\ cli.pos \in Position /\ srv.pos \in Position /\ cli.arg \in Args
      /\ First(cli.arg).op # "finish"
  BY FirstType DEF TypeOK
<1>3. /\ inbox["server"] = NoMessage /\ inbox["client"] = NoMessage
      /\ cli.pc \in {"send", "wrk", "running"} => Fresh
      /\ cli.pc = "await" => Fresh \/ Contains(cli.pos, srv.pos)
  BY <1>1, ServerAdvanceEffect DEF Lockstep, TurnsOK
<1>4. cli.pos.op = "finish" /\ cli.pc \in {"wrk", "running", "send", "await"} =>
          srv.pos.op = "finish"
  BY <1>2, <1>3 DEF Contains
<1>5. PlacesOK'
  BY <1>1, ServerAdvanceEffect DEF Lockstep, PlacesOK
<1>6. TurnsOK'
  BY <1>1, <1>3, ServerAdvanceEffect DEF TurnsOK
<1>7. SessionOK'
  BY <1>1, <1>3, <1>4, ServerAdvanceEffect DEF SessionOK
<1>8. NginxOK'
  <2>1. ConfFor(SameTest(srv.pos)) = ConfFor(srv.pos)
    BY <1>2, ConfForType DEF SameTest
  <2>2. used["stop"] = 0 /\ srv.pos.op = "start" => nginx \in {ConfFor(srv.pos), Down}
    BY <1>1, ServerAdvanceEffect DEF Lockstep, NginxOK
  <2>3. cli.pc # "running"
    BY <1>2, <1>3 DEF Lockstep, PlacesOK
  <2> QED BY <1>1, <2>1, <2>2, <2>3, ServerAdvanceEffect DEF NginxOK
<1>9. TailOK'
  <2>1. cli.pc \notin {"wrk", "running"}
    BY <1>2, <1>3 DEF Lockstep, PlacesOK
  <2>2. cli.pos.op = "finish" /\ cli.pc \in {"send", "await"} => srv'.pos.op # "finish"
    BY <1>1, <1>4, ServerAdvanceEffect
  <2> QED BY <1>1, <1>3, <2>1, <2>2, ServerAdvanceEffect DEF TailOK
<1> QED BY <1>5, <1>6, <1>7, <1>8, <1>9 DEF Lockstep

(* Killing nginx.sh keeps the lockstep.                                      *)
LEMMA LockstepServerKilled ==
    ASSUME TypeOK, Lockstep, ServerKilled
    PROVE  Lockstep'
<1>1. /\ srv'.pc = "off" /\ srv'.pos = srv.pos
      /\ inbox'["server"] = NoMessage /\ inbox'["client"] = inbox["client"]
      /\ (used'["stop"] = 0 => used["stop"] = 0)
      /\ UNCHANGED <<cli, conf, nginx, seen, result>>
  BY SpendType DEF ServerKilled, TypeOK, FaultKinds, Hosts
<1>2. PlacesOK'
  BY <1>1 DEF Lockstep, PlacesOK
<1>3. TurnsOK'
  BY <1>1 DEF Lockstep, TurnsOK
<1>4. SessionOK'
  BY <1>1 DEF SessionOK
<1>5. NginxOK'
  BY <1>1 DEF NginxOK
<1>6. TailOK'
  BY <1>1 DEF Lockstep, TailOK, LastLine, SameTest
<1> QED BY <1>2, <1>3, <1>4, <1>5, <1>6 DEF Lockstep

(* A text of wrk.sh, lost or not, keeps the lockstep.                        *)
LEMMA LockstepClientSend ==
    ASSUME TypeOK, Lockstep, ClientSend \/ ClientSendLost
    PROVE  Lockstep'
<1>1. /\ cli.pc = "send" /\ cli'.pc = "await" /\ cli'.pos = cli.pos /\ cli'.arg = cli.arg
      /\ used'["stop"] = 0 => used["stop"] = 0
      /\ inbox'["client"] = inbox["client"]
      /\ inbox'["server"] # inbox["server"] =>
            srv.pc = "listen" /\ inbox'["server"] = Text(cli.pos)
      /\ UNCHANGED <<srv, conf, nginx, seen, result>>
  BY SpendType DEF ClientSend, ClientSendLost, ClientAsked, Accepting, TypeOK, FaultKinds, Hosts
<1>2. /\ inbox["client"] = NoMessage
      /\ ~Fresh => srv.pc # "reply" /\ inbox["server"] = NoMessage
  BY <1>1 DEF Lockstep, TurnsOK
<1>3. PlacesOK'
  BY <1>1 DEF Lockstep, PlacesOK
<1>4. TurnsOK'
  BY <1>1, <1>2 DEF Lockstep, TurnsOK
<1>5. SessionOK'
  BY <1>1, <1>2 DEF Lockstep, SessionOK
<1>6. NginxOK'
  BY <1>1 DEF Lockstep, NginxOK
<1>7. TailOK'
  BY <1>1, <1>2 DEF Lockstep, TailOK, LastLine
<1> QED BY <1>3, <1>4, <1>5, <1>6, <1>7 DEF Lockstep

(* A reply has come: the server has moved on and is waiting.                 *)
LEMMA ReplyTaken ==
    ASSUME TypeOK, Lockstep, inbox["client"] # NoMessage,
           inbox' = [inbox EXCEPT !["client"] = NoMessage]
    PROVE  /\ inbox'["client"] = NoMessage /\ inbox'["server"] = NoMessage
           /\ inbox["server"] = NoMessage /\ srv.pc # "reply"
BY DEF TypeOK, Hosts, Lockstep, TurnsOK

(* The answer to a question keeps the lockstep.                              *)
LEMMA LockstepClientAnswered ==
    ASSUME TypeOK, Lockstep, ClientAnswered
    PROVE  Lockstep'
<1> DEFINE num == inbox["client"].num
           ofNodes == cli.pos.ph = "node" /\ cli.pos.node = -1
           nodes == IF ofNodes THEN num ELSE cli.nodes
           count == IF ofNodes THEN cli.count ELSE num
           next == Successor(cli.arg, cli.pos, nodes, count)
<1>1. nodes \in Int /\ count \in Int /\ cli.arg \in Args /\ cli.pos \in Position
  BY DEF TypeOK, Message, Hosts
<1>2. cli' = ClientAt(cli.arg, next, nodes, count) /\ cli.pos.op = "conf"
  BY DEF ClientAnswered
<1> HIDE DEF nodes, count
<1>3. next \in Position /\ next.op # "finish"
  BY <1>1, <1>2, SuccessorType
<1> HIDE DEF next
<1>4. cli'.pc \in {"exit", "send"} /\ cli'.pos.op # "finish"
      /\ (cli'.pc = "send" => cli'.pos.op # "done")
  BY <1>1, <1>2, <1>3, ClientAtType
<1>5. /\ inbox'["client"] = NoMessage /\ inbox'["server"] = NoMessage
      /\ inbox["server"] = NoMessage /\ srv.pc # "reply"
      /\ UNCHANGED <<srv, conf, nginx, seen, result, used>>
  BY ReplyTaken DEF ClientAnswered
<1>6. PlacesOK'
  BY <1>4, <1>5 DEF Lockstep, PlacesOK
<1>7. TurnsOK'
  BY <1>4, <1>5 DEF TurnsOK
<1>8. SessionOK'
  BY <1>4, <1>5 DEF SessionOK
<1>9. NginxOK'
  BY <1>4, <1>5 DEF Lockstep, NginxOK
<1>10. TailOK'
  BY <1>4, <1>5 DEF TailOK
<1> QED BY <1>6, <1>7, <1>8, <1>9, <1>10 DEF Lockstep

(* A check that fails ends the client.                                       *)
LEMMA LockstepClientEnds ==
    ASSUME TypeOK, Lockstep, inbox["client"] # NoMessage,
           inbox' = [inbox EXCEPT !["client"] = NoMessage],
           cli' = [cli EXCEPT !.pc = "exit"],
           UNCHANGED <<srv, conf, nginx, seen, csv, used>>
    PROVE  Lockstep'
<1>1. /\ inbox'["client"] = NoMessage /\ inbox'["server"] = NoMessage
      /\ srv.pc # "reply" /\ cli'.pc = "exit"
  BY ReplyTaken DEF TypeOK
<1> QED BY <1>1 DEF Lockstep, PlacesOK, TurnsOK, SessionOK, NginxOK, TailOK

(* The reply to a start keeps the lockstep: the test is in session.          *)
LEMMA LockstepClientStarted ==
    ASSUME TypeOK, Lockstep, ClientStarted
    PROVE  Lockstep'
<1>1. /\ inbox["client"] # NoMessage /\ cli.pos.op = "start"
      /\ inbox' = [inbox EXCEPT !["client"] = NoMessage]
      /\ UNCHANGED <<srv, conf, nginx, seen, csv, used>>
  BY DEF ClientStarted, ClientChecked
<1>2. CASE ~Contains(inbox["client"].pos, cli.pos)
  BY <1>1, <1>2, LockstepClientEnds DEF ClientStarted, ClientChecked
<1>3. CASE Contains(inbox["client"].pos, cli.pos)
  <2>1. /\ cli.pos \in Position /\ cli.arg \in Args
        /\ cli.nodes \in Int /\ cli.count \in Int /\ result \in Seq(Line)
    BY DEF TypeOK
  <2>2. ClientNext = SameTest(cli.pos)
    BY <1>1, <2>1, SuccessorType DEF ClientNext
  <2>3. /\ cli'.pc = "wrk" /\ cli'.pos = SameTest(cli.pos) /\ cli'.arg = cli.arg
        /\ result' = Append(result, Entry("start", cli.pos, {}))
    BY <1>3, <2>2 DEF ClientStarted, ClientChecked, TypeOK
  <2>4. SameTest(cli.pos).op = "finish"
    BY <2>1 DEF SameTest, Position
  <2>5. /\ inbox'["client"] = NoMessage /\ inbox'["server"] = NoMessage
        /\ srv.pc # "reply"
    BY <1>1, ReplyTaken
  <2>6. /\ result' # <<>> /\ LastLine' = Entry("start", cli.pos, {})
    <3>1. Entry("start", cli.pos, {}) \in Line
      BY <2>1, EntryType
    <3> QED BY <2>1, <2>3, <3>1, AppendLine DEF LastLine
  <2>7. PlacesOK'
    BY <1>1, <2>3, <2>4 DEF Lockstep, PlacesOK
  <2>8. TurnsOK'
    BY <1>1, <2>3, <2>5 DEF TurnsOK
  <2>9. SessionOK'
    BY <1>1, <1>3, <2>3, <2>4, <2>5 DEF Lockstep, SessionOK
  <2>10. NginxOK'
    BY <1>1, <2>3 DEF Lockstep, NginxOK
  <2>11. TailOK'
    BY <1>1, <2>3, <2>6 DEF TailOK, Entry
  <2> QED BY <2>7, <2>8, <2>9, <2>10, <2>11 DEF Lockstep
<1> QED BY <1>2, <1>3

(* The reply to a finish keeps the lockstep.                                 *)
LEMMA LockstepClientFinished ==
    ASSUME TypeOK, Lockstep, ClientFinished
    PROVE  Lockstep'
<1>1. /\ inbox["client"] # NoMessage /\ cli.pos.op = "finish"
      /\ inbox' = [inbox EXCEPT !["client"] = NoMessage]
      /\ UNCHANGED <<srv, conf, nginx, seen, csv, used>>
  BY DEF ClientFinished, ClientChecked
<1>2. CASE ~Contains(inbox["client"].pos, cli.pos)
  BY <1>1, <1>2, LockstepClientEnds DEF ClientFinished, ClientChecked
<1>3. CASE Contains(inbox["client"].pos, cli.pos)
  <2>1. /\ cli.pos \in Position /\ cli.arg \in Args
        /\ cli.nodes \in Int /\ cli.count \in Int
    BY DEF TypeOK
  <2>2. ClientNext \in Position /\ ClientNext.op # "finish"
    BY <1>1, <2>1, SuccessorType DEF ClientNext
  <2>3. cli' = ClientAt(cli.arg, ClientNext, cli.nodes, cli.count)
    BY <1>3 DEF ClientFinished, ClientChecked
  <2>4. /\ cli'.pc \in {"exit", "send"} /\ cli'.pos.op # "finish"
        /\ (cli'.pc = "send" => cli'.pos.op # "done")
    BY <2>1, <2>2, <2>3, ClientAtType
  <2>5. /\ inbox'["client"] = NoMessage /\ inbox'["server"] = NoMessage
        /\ srv.pc # "reply"
    BY <1>1, ReplyTaken
  <2> QED BY <1>1, <2>4, <2>5
          DEF Lockstep, PlacesOK, TurnsOK, SessionOK, NginxOK, TailOK
<1> QED BY <1>2, <1>3

(* The start of wrk keeps the lockstep: it meets the test's own nginx.       *)
LEMMA LockstepWrkRun ==
    ASSUME TypeOK, Lockstep, WrkRun
    PROVE  Lockstep'
<1>1. /\ cli.pc = "wrk" /\ cli'.pc = "running" /\ cli'.pos = cli.pos /\ cli'.arg = cli.arg
      /\ nginx # Down /\ seen' = {nginx}
      /\ UNCHANGED <<srv, inbox, conf, nginx, result, used>>
  BY DEF WrkRun, TypeOK
<1>2. PlacesOK'
  BY <1>1 DEF Lockstep, PlacesOK
<1>3. TurnsOK'
  BY <1>1 DEF Lockstep, TurnsOK
<1>4. SessionOK'
  BY <1>1 DEF Lockstep, SessionOK
<1>5. NginxOK'
  BY <1>1 DEF Lockstep, NginxOK, PlacesOK
<1>6. TailOK'
  BY <1>1 DEF Lockstep, TailOK, LastLine
<1> QED BY <1>2, <1>3, <1>4, <1>5, <1>6 DEF Lockstep

(* A wrk that cannot connect keeps the lockstep.                             *)
LEMMA LockstepWrkFails ==
    ASSUME TypeOK, Lockstep, WrkFails
    PROVE  Lockstep'
<1>1. /\ cli.pc = "wrk" /\ cli'.pc = "send" /\ cli'.pos = cli.pos /\ cli'.arg = cli.arg
      /\ cli.pos.ph = "server" /\ cli.pos.op = "finish"
      /\ UNCHANGED <<srv, inbox, conf, nginx, seen, result, used>>
  BY DEF WrkFails, TypeOK, Lockstep, PlacesOK
<1>2. PlacesOK'
  BY <1>1 DEF Lockstep, PlacesOK
<1>3. TurnsOK'
  BY <1>1 DEF Lockstep, TurnsOK
<1>4. SessionOK'
  BY <1>1 DEF Lockstep, SessionOK
<1>5. NginxOK'
  BY <1>1 DEF Lockstep, NginxOK
<1>6. TailOK'
  BY <1>1 DEF Lockstep, TailOK, LastLine
<1> QED BY <1>2, <1>3, <1>4, <1>5, <1>6 DEF Lockstep

(* The end of wrk keeps the lockstep: its report is the last line.           *)
LEMMA LockstepWrkEnds ==
    ASSUME TypeOK, Lockstep, WrkEnds
    PROVE  Lockstep'
<1>1. /\ cli.pc = "running" /\ cli'.pc = "send" /\ cli'.pos = cli.pos /\ cli'.arg = cli.arg
      /\ cli.pos.op = "finish"
      /\ result' = Append(result, Entry("sec", cli.pos, seen))
      /\ UNCHANGED <<srv, inbox, conf, nginx, seen, used>>
  BY DEF WrkEnds, TypeOK, Lockstep, PlacesOK
<1>2. result' # <<>> /\ LastLine' = Entry("sec", cli.pos, seen)
  <2>1. Entry("sec", cli.pos, seen) \in Line /\ result \in Seq(Line)
    BY EntryType DEF TypeOK
  <2> QED BY <1>1, <2>1, AppendLine DEF LastLine
<1>3. inbox["client"] = NoMessage
  BY <1>1 DEF Lockstep, TurnsOK
<1>4. PlacesOK'
  BY <1>1 DEF Lockstep, PlacesOK
<1>5. TurnsOK'
  BY <1>1 DEF Lockstep, TurnsOK
<1>6. SessionOK'
  BY <1>1 DEF Lockstep, SessionOK
<1>7. NginxOK'
  BY <1>1 DEF Lockstep, NginxOK
<1>8. TailOK'
  <2>1. used["stop"] = 0 /\ InSession(cli.pos) => seen = {ConfFor(cli.pos)}
    BY <1>1 DEF Lockstep, NginxOK
  <2> QED BY <1>1, <1>2, <1>3, <2>1 DEF TailOK
<1> QED BY <1>4, <1>5, <1>6, <1>7, <1>8 DEF Lockstep

(* Killing wrk.sh keeps the lockstep.                                        *)
LEMMA LockstepClientKilled ==
    ASSUME TypeOK, Lockstep, ClientKilled
    PROVE  Lockstep'
<1>1. /\ cli'.pc = "off"
      /\ inbox'["client"] = NoMessage /\ inbox'["server"] = inbox["server"]
      /\ (used'["stop"] = 0 => used["stop"] = 0)
      /\ UNCHANGED <<srv, conf, nginx, seen, result>>
  BY SpendType DEF ClientKilled, TypeOK, FaultKinds, Hosts
<1> QED BY <1>1 DEF Lockstep, PlacesOK, TurnsOK, SessionOK, NginxOK, TailOK

(* Every step keeps the lockstep.                                            *)
LEMMA LockstepStep ==
    ASSUME TypeOK, Lockstep, [Next]_vars
    PROVE  Lockstep'
<1>1. CASE UNCHANGED vars
  BY <1>1 DEF vars, Lockstep, PlacesOK, TurnsOK, SessionOK, NginxOK, TailOK, LastLine
<1> QED
  BY <1>1, LockstepServerLaunch, LockstepClientLaunch, LockstepStop, LockstepStart,
     LockstepServerReceive, LockstepServerReply, LockstepServerReplyLost,
     LockstepServerKilled, LockstepClientSend, LockstepClientAnswered,
     LockstepClientStarted, LockstepClientFinished, LockstepWrkRun, LockstepWrkFails,
     LockstepWrkEnds, LockstepClientKilled
     DEF Next, ServerStep, ClientStep, Fault, Terminated

(* The two scripts stay in lockstep, or the server is gone from the client's *)
(* test, whatever is killed, restarted or lost.                              *)
THEOREM LockstepHolds == Spec => []Lockstep
<1>1. Init => Lockstep
  BY DEF Init, Hosts, Lockstep, PlacesOK, TurnsOK, SessionOK, NginxOK, TailOK
<1>2. TypeOK /\ Lockstep /\ [Next]_vars => Lockstep'
  BY LockstepStep
<1> QED BY <1>1, <1>2, TypeCorrect, PTL DEF Spec

(* The port carries one text at a time, one way.                             *)
THEOREM OneText == Spec => []OneTextInFlight
<1>1. Lockstep => OneTextInFlight
  BY DEF Lockstep, TurnsOK, OneTextInFlight
<1> QED BY <1>1, LockstepHolds, PTL

-----------------------------------------------------------------------------
(* What a finished test vouches for                                          *)

(* A line appended to the file leaves the verdict on the earlier ones alone. *)
LEMMA VouchedAppend ==
    ASSUME TypeOK, NEW line \in Line, result' = Append(result, line),
           FinishedTestsVouched, used' = used,
           used["stop"] = 0 /\ line.kind = "finish" =>
               /\ result # <<>>
               /\ LastLine.test.op = (IF LastLine.kind = "sec" THEN "finish" ELSE "start")
               /\ [LastLine.test EXCEPT !.op = "finish"] = line.test
               /\ \/ LastLine.kind = "sec" /\ LastLine.on = {ConfFor(line.test)}
                  \/ LastLine.kind = "start" /\ line.test.ph = "server"
    PROVE  FinishedTestsVouched'
<1> SUFFICES ASSUME used["stop"] = 0, NEW i \in DOMAIN result', result'[i].kind = "finish"
             PROVE  Vouched(i)'
  BY DEF FinishedTestsVouched
<1>1. /\ result \in Seq(Line) /\ Len(result) \in Nat /\ DOMAIN result = 1..Len(result)
      /\ result' \in Seq(Line) /\ Len(result') = Len(result) + 1
      /\ DOMAIN result' = 1..Len(result) + 1
      /\ result'[Len(result) + 1] = line
      /\ \A k \in 1..Len(result) : result'[k] = result[k]
  BY AppendLine DEF TypeOK
<1>2. CASE i \in 1..Len(result)
  <2>1. Vouched(i)
    BY <1>1, <1>2 DEF FinishedTestsVouched
  <2>2. result'[i] = result[i] /\ (i > 1 => result'[i - 1] = result[i - 1])
    BY <1>1, <1>2
  <2> QED BY <2>1, <2>2 DEF Vouched
<1>3. CASE i = Len(result) + 1
  <2>1. result # <<>> /\ line.kind = "finish" /\ result'[i] = line
    BY <1>1, <1>3
  <2>2. Len(result) > 0
    BY <1>1, <2>1, EmptySeq
  <2>3. i > 1 /\ i - 1 = Len(result) /\ result'[i - 1] = LastLine
    <3>1. Len(result) \in 1..Len(result)
      BY <1>1, <2>2
    <3>2. result'[Len(result)] = result[Len(result)]
      BY <1>1, <3>1
    <3>3. i > 1 /\ i - 1 = Len(result)
      BY <1>1, <1>3, <2>2
    <3> QED BY <3>2, <3>3 DEF LastLine
  <2> QED BY <2>1, <2>3 DEF Vouched
<1> QED BY <1>1, <1>2, <1>3

(* Every step keeps the finished tests vouched for.                          *)
LEMMA VouchedStep ==
    ASSUME TypeOK, Lockstep, FinishedTestsVouched, [Next]_vars
    PROVE  FinishedTestsVouched'
<1>1. cli.pos \in Position /\ used \in [FaultKinds -> Nat] /\ seen \in SUBSET (NginxConf \cup {Down})
  BY DEF TypeOK
<1>2. CASE result' = result /\ (used'["stop"] = 0 => used["stop"] = 0)
  BY <1>2 DEF FinishedTestsVouched, Vouched
<1>3. ASSUME NEW arg \in ClientArgs, ClientLaunch(arg) PROVE FinishedTestsVouched'
  <2>1. used'["stop"] = 0 => used["stop"] = 0
    BY <1>1, <1>3, SpendType DEF ClientLaunch, FaultKinds
  <2>2. CASE result' = <<>>
    BY <2>2 DEF FinishedTestsVouched
  <2> QED BY <1>2, <1>3, <2>1, <2>2 DEF ClientLaunch
<1>4. CASE WrkEnds
  <2>1. Entry("sec", cli.pos, seen) \in Line /\ Entry("sec", cli.pos, seen).kind # "finish"
    BY <1>1, EntryType DEF Entry
  <2> QED BY <1>4, <2>1, VouchedAppend DEF WrkEnds
<1>5. CASE ClientStarted
  <2>1. PICK kind \in {"start", "starterror"} : result' = Append(result, Entry(kind, cli.pos, {}))
    BY <1>5 DEF ClientStarted, ClientChecked
  <2>2. Entry(kind, cli.pos, {}) \in Line /\ Entry(kind, cli.pos, {}).kind # "finish"
    BY <1>1, EntryType DEF Entry
  <2>3. used' = used
    BY <1>5 DEF ClientStarted, ClientChecked
  <2> QED BY <2>1, <2>2, <2>3, VouchedAppend
<1>6. CASE ClientFinished
  <2>1. PICK kind \in {"finish", "finisherror"} : result' = Append(result, Entry(kind, cli.pos, {}))
    BY <1>6 DEF ClientFinished, ClientChecked
  <2>2. /\ cli.pc = "await" /\ cli.pos.op = "finish" /\ inbox["client"] # NoMessage
        /\ used' = used
    BY <1>6 DEF ClientFinished, ClientChecked
  <2>3. /\ Entry(kind, cli.pos, {}) \in Line /\ Entry(kind, cli.pos, {}).test = cli.pos
    BY <1>1, EntryType DEF Entry
  <2>4. SameTest(cli.pos) = cli.pos
    BY <1>1, <2>2 DEF SameTest, Position
  <2>5. used["stop"] = 0 =>
          /\ result # <<>>
          /\ LastLine.test.op = (IF LastLine.kind = "sec" THEN "finish" ELSE "start")
          /\ SameTest(LastLine.test) = cli.pos
          /\ \/ LastLine.kind = "sec" /\ LastLine.on = {ConfFor(cli.pos)}
             \/ LastLine.kind = "start" /\ cli.pos.ph = "server"
    BY <2>2, <2>4 DEF Lockstep, TailOK, Entry
  <2> HIDE DEF LastLine
  <2> QED BY <2>1, <2>2, <2>3, <2>5, VouchedAppend DEF SameTest
<1>7. CASE StopNginx \/ StopNginxFails
  BY <1>1, <1>2, <1>7, SpendType DEF StopNginx, StopNginxFails, Reconfigure, FaultKinds
<1>8. CASE StartNginx \/ StartNginxFails
  BY <1>1, <1>2, <1>8, SpendType DEF StartNginx, StartNginxFails, Restarted, FaultKinds
<1>9. CASE ServerReply \/ ServerReplyLost
  BY <1>1, <1>2, <1>9, SpendType DEF ServerReply, ServerReplyLost, ServerAdvance, FaultKinds
<1>10. CASE ClientSend \/ ClientSendLost
  BY <1>1, <1>2, <1>10, SpendType DEF ClientSend, ClientSendLost, ClientAsked, FaultKinds
<1>11. CASE ServerKilled \/ ClientKilled
  BY <1>1, <1>2, <1>11, SpendType DEF ServerKilled, ClientKilled, FaultKinds
<1>12. ASSUME NEW arg \in ServerArgs, ServerLaunch(arg) PROVE FinishedTestsVouched'
  BY <1>1, <1>2, <1>12, SpendType DEF ServerLaunch, FaultKinds
<1>13. CASE ServerReceive \/ ClientAnswered \/ WrkRun \/ WrkFails \/ UNCHANGED vars
  BY <1>2, <1>13 DEF ServerReceive, ClientAnswered, WrkRun, WrkFails, vars
<1> QED
  BY <1>3, <1>4, <1>5, <1>6, <1>7, <1>8, <1>9, <1>10, <1>11, <1>12, <1>13
     DEF Next, ServerStep, ClientStep, Fault, Terminated

(* Every finished test in result.txt was measured, from the first request to *)
(* the last, on its own configuration (or is a whole-server test without a   *)
(* report), for every plan and topology and through any number of kills,     *)
(* restarts with any argument, and lost texts, as long as no stop failed.    *)
THEOREM VouchedHolds == Spec => []FinishedTestsVouched
<1>1. Init => FinishedTestsVouched
  BY DEF Init, FinishedTestsVouched
<1>2. TypeOK /\ Lockstep /\ FinishedTestsVouched /\ [Next]_vars => FinishedTestsVouched'
  BY VouchedStep
<1> QED BY <1>1, <1>2, TypeCorrect, LockstepHolds, PTL DEF Spec
-----------------------------------------------------------------------------
(* nginx under load                                                          *)

(* Until a script is killed, a client past the start of a test has the       *)
(* server waiting for the end of that test.                                  *)
Held ==
    used["kill"] = 0 =>
        /\ cli.pos.op = "start" /\ inbox["client"] # NoMessage
           /\ Contains(inbox["client"].pos, cli.pos) => InSession(SameTest(cli.pos))
        /\ cli.pc \in {"wrk", "running"} => InSession(cli.pos)

(* While the server is held, only the client can move it.                    *)
LEMMA HeldWaits ==
    ASSUME TypeOK, Lockstep, Held, used["kill"] = 0,
           \/ cli.pc \in {"wrk", "running"}
           \/ /\ cli.pos.op = "start" /\ inbox["client"] # NoMessage
              /\ Contains(inbox["client"].pos, cli.pos)
    PROVE  srv.pc = "listen" /\ inbox["server"] = NoMessage
<1>1. cli.pc \in {"wrk", "running"} => ~Fresh
  BY FirstType DEF TypeOK, Lockstep, PlacesOK
<1> QED BY <1>1 DEF Held, Lockstep, TurnsOK

(* Nothing that happened is forgotten.                                       *)
LEMMA UsedGrows ==
    ASSUME TypeOK, [Next]_vars
    PROVE  \A k \in FaultKinds : used'[k] = 0 => used[k] = 0
<1>1. used \in [FaultKinds -> Nat]
  BY DEF TypeOK
<1>2. CASE UNCHANGED used
  BY <1>2
<1>3. ASSUME NEW kind \in FaultKinds, Spend(kind)
      PROVE  \A k \in FaultKinds : used'[k] = 0 => used[k] = 0
  BY <1>1, <1>3, SpendType
<1> QED
  BY <1>2, <1>3
     DEF Next, ServerStep, ClientStep, Fault, Terminated, vars, ServerLaunch, ClientLaunch,
         StopNginx, StopNginxFails, StartNginx, StartNginxFails, ServerReceive, ServerReply,
         ServerReplyLost, ServerKilled, ClientSend, ClientSendLost, ClientAnswered,
         ClientStarted, ClientFinished, ClientChecked, WrkRun, WrkFails, WrkEnds,
         ClientKilled, FaultKinds

(* Every step keeps the server held.                                         *)
LEMMA HeldStep ==
    ASSUME TypeOK, Lockstep, Held, [Next]_vars
    PROVE  Held'
<1>1. used'["kill"] = 0 => used["kill"] = 0
  BY UsedGrows DEF FaultKinds
<1>2. ASSUME NEW arg \in ServerArgs, ServerLaunch(arg) PROVE Held'
  BY <1>1, <1>2, HeldWaits DEF ServerLaunch, Held
<1>3. CASE StopNginx \/ StopNginxFails \/ StartNginx \/ StartNginxFails
  BY <1>1, <1>3, HeldWaits
     DEF StopNginx, StopNginxFails, StartNginx, StartNginxFails, Reconfigure, Restarted, Held
<1>4. CASE ServerReceive
  <2>1. inbox'["client"] = inbox["client"]
    BY <1>4 DEF ServerReceive, TypeOK, Hosts
  <2> QED BY <1>1, <1>4, <2>1, HeldWaits DEF ServerReceive, Held
<1>5. CASE ServerReply
  <2>1. /\ cli.pc = "await" /\ inbox'["client"] = Reply(srv.pos) /\ ServerAdvance
    BY <1>5 DEF ServerReply, Accepting, TypeOK, Hosts
  <2>2. srv.pos.op = "start" => srv'.pos = SameTest(srv.pos) /\ srv'.pc = "listen"
    BY <2>1, ServerAdvanceEffect
  <2>3. cli' = cli
    BY <2>1 DEF ServerAdvance
  <2>4. ASSUME cli.pos.op = "start", Contains(Reply(srv.pos).pos, cli.pos)
        PROVE  srv'.pos = SameTest(cli.pos) /\ srv'.pc = "listen"
    BY <1>5, <2>2, <2>4, ReplyMatches
  <2> QED BY <2>1, <2>3, <2>4 DEF Held
<1>6. CASE ServerReplyLost
  BY <1>1, <1>6, HeldWaits DEF ServerReplyLost, ServerAdvance, Held
<1>7. CASE ServerKilled \/ ClientKilled
  BY <1>7, SpendType DEF ServerKilled, ClientKilled, FaultKinds, TypeOK, Held
<1>8. ASSUME NEW arg \in ClientArgs, ClientLaunch(arg) PROVE Held'
  <2>1. cli'.pc \in {"send", "exit"} /\ inbox' = inbox
    BY <1>8, ArgsAssumption, FirstType, ClientAtType DEF ClientLaunch
  <2>2. inbox["client"] = NoMessage
    BY <1>8 DEF ClientLaunch, Lockstep, TurnsOK
  <2> QED BY <2>1, <2>2 DEF Held
<1>9. CASE ClientSend \/ ClientSendLost
  <2>1. cli.pc = "send" /\ cli'.pc = "await" /\ inbox'["client"] = inbox["client"]
    BY <1>9 DEF ClientSend, ClientSendLost, ClientAsked, TypeOK, Hosts
  <2>2. inbox["client"] = NoMessage
    BY <2>1 DEF Lockstep, TurnsOK
  <2> QED BY <2>1, <2>2 DEF Held
<1>10. CASE ClientAnswered
  <2>1. inbox'["client"] = NoMessage
    BY <1>10 DEF ClientAnswered, TypeOK, Hosts
  <2>2. cli'.pc \notin {"wrk", "running"}
    BY <1>10 DEF ClientAnswered, ClientAt
  <2> QED BY <2>1, <2>2 DEF Held
<1>11. CASE ClientStarted
  <2>1. inbox'["client"] = NoMessage /\ cli.pos.op = "start" /\ inbox["client"] # NoMessage
        /\ srv' = srv
    BY <1>11 DEF ClientStarted, ClientChecked, TypeOK, Hosts
  <2>2. ClientNext = SameTest(cli.pos)
    <3>1. cli.pos \in Position /\ cli.arg \in Args /\ cli.nodes \in Int /\ cli.count \in Int
      BY DEF TypeOK
    <3> QED BY <2>1, <3>1, SuccessorType DEF ClientNext
  <2>3. cli'.pc = "wrk" => Contains(inbox["client"].pos, cli.pos) /\ cli'.pos = SameTest(cli.pos)
    BY <1>11, <2>2 DEF ClientStarted, ClientChecked, TypeOK
  <2>4. cli'.pc # "running"
    BY <1>11 DEF ClientStarted, ClientChecked, TypeOK
  <2> QED BY <1>1, <2>1, <2>3, <2>4 DEF Held
<1>12. CASE ClientFinished
  <2>1. inbox'["client"] = NoMessage
    BY <1>12 DEF ClientFinished, ClientChecked, TypeOK, Hosts
  <2>2. cli'.pc \notin {"wrk", "running"}
    BY <1>12 DEF ClientFinished, ClientChecked, ClientAt, TypeOK
  <2> QED BY <2>1, <2>2 DEF Held
<1>13. CASE WrkRun \/ WrkFails \/ WrkEnds
  <2>1. /\ cli.pc \in {"wrk", "running"} /\ cli'.pos = cli.pos
        /\ UNCHANGED <<srv, inbox, used>>
    BY <1>13 DEF WrkRun, WrkFails, WrkEnds, TypeOK
  <2>2. inbox["client"] = NoMessage
    BY <2>1 DEF Lockstep, TurnsOK
  <2> QED BY <2>1, <2>2 DEF Held
<1>14. CASE UNCHANGED vars
  BY <1>14 DEF vars, Held
<1> QED
  BY <1>2, <1>3, <1>4, <1>5, <1>6, <1>7, <1>8, <1>9, <1>10, <1>11, <1>12, <1>13, <1>14
     DEF Next, ServerStep, ClientStep, Fault, Terminated

(* Until a script is killed, nginx_restart and a wrk run of wrk.sh exclude   *)
(* each other, for every plan and topology and whatever is lost or started   *)
(* again.                                                                    *)
THEOREM NoRestart == Spec => NoRestartUnderLoad
<1>1. Init => Held
  BY DEF Init, Held, Hosts
<1>2. TypeOK /\ Lockstep /\ Held /\ [Next]_vars => Held'
  BY HeldStep
<1>3. TypeOK /\ Lockstep /\ Held /\ [Next]_vars
      => [cli.pc = "running" /\ used["kill"] = 0 => nginx' = nginx]_vars
  <2> SUFFICES ASSUME TypeOK, Lockstep, Held, [Next]_vars, cli.pc = "running", used["kill"] = 0
               PROVE  nginx' = nginx
    OBVIOUS
  <2>1. srv.pc = "listen"
    BY HeldWaits
  <2> QED
    BY <2>1 DEF Next, ServerStep, ClientStep, Fault, Terminated, vars, ServerLaunch, ClientLaunch,
         StopNginx, StopNginxFails, StartNginx, StartNginxFails, Reconfigure, Restarted,
         ServerReceive, ServerReply, ServerReplyLost, ServerAdvance, ServerKilled, ClientSend,
         ClientSendLost, ClientAsked, ClientAnswered, ClientStarted, ClientFinished,
         ClientChecked, WrkRun, WrkFails, WrkEnds, ClientKilled
<1> QED BY <1>1, <1>2, <1>3, TypeCorrect, LockstepHolds, PTL DEF Spec, NoRestartUnderLoad

-----------------------------------------------------------------------------
(* The sections of the statistics                                            *)

(* A restart that worked left nginx up for a whole-server test.              *)
UpOK ==
    used["start"] = 0 /\ srv.pc \in {"listen", "reply"}
    /\ srv.pos.op \in {"start", "finish"} /\ srv.pos.ph = "server" => nginx # Down

(* Where result.txt ends while wrk.sh runs, and that wrk.sh stats adds       *)
(* nothing to it.                                                            *)
EndOK ==
    /\ cli.pc \in {"send", "await"} /\ cli.pos.op \in {"conf", "start"} /\ cli.arg # "stats" =>
           result = <<>> \/ LastLine.kind = "finish"
    /\ cli.pc \in {"send", "await", "wrk", "running"} /\ cli.arg = "stats" =>
           cli.pos = Conf("stats")
    /\ used["start"] = 0 /\ cli.pos.op = "finish" /\ cli.pc \in {"send", "await"}
       /\ (InSession(cli.pos) \/ inbox["client"] # NoMessage) =>
           result # <<>> /\ LastLine.kind = "sec"

(* The line after the start of a test is a report of the same mode, and      *)
(* nothing follows a start that failed.                                      *)
RowsOK ==
    used["start"] = 0 =>
        \A i \in DOMAIN result : i < Len(result) =>
            /\ result[i].kind # "starterror"
            /\ result[i].kind = "start" =>
                   result[i + 1].kind = "sec" /\ result[i + 1].test.mode = result[i].test.mode

(* In a file of such rows, grep -A2 finds only rows of the mode it looks for.*)
LEMMA SectionPure ==
    ASSUME TypeOK, RowsOK, used["start"] = 0, NEW m \in 1..NumModes, NEW row \in Section(m)
    PROVE  row.test.mode = m
<1>1. PICK k \in Kept, i \in Kept :
        /\ row = result[k] /\ i <= k
        /\ result[i].kind # "sec" /\ result[i].test.mode = m
        /\ \A n \in Between(i, k) : Between(i, k) = {n} /\ result[n].kind # "sec"
  BY DEF Section
<1>2. /\ Len(result) \in Nat /\ DOMAIN result = 1..Len(result)
      /\ i \in 1..Len(result) /\ k \in 1..Len(result)
      /\ result[i].kind \in {"start", "starterror"}
  BY <1>1 DEF Kept, TypeOK
<1>3. CASE k = i
  BY <1>1, <1>3
<1>4. CASE i < k
  <2>1. i < Len(result) /\ i + 1 \in 1..Len(result)
    BY <1>2, <1>4
  <2>2. result[i + 1].kind = "sec" /\ result[i + 1].test.mode = m
    BY <1>1, <1>2, <2>1 DEF RowsOK
  <2>3. i + 1 \in Kept
    BY <1>2, <2>1, <2>2 DEF Kept
  <2>4. k = i + 1
    <3> SUFFICES ASSUME i + 1 < k PROVE FALSE
      BY <1>2, <1>4
    <3>1. i + 1 \in Between(i, k)
      BY <1>2, <2>3 DEF Between
    <3> QED BY <1>1, <2>2, <3>1
  <2> QED BY <1>1, <2>2, <2>4
<1> QED BY <1>1, <1>2, <1>3, <1>4

(* A line appended where the file ends well keeps its rows.                  *)
LEMMA RowsAppend ==
    ASSUME TypeOK, RowsOK, NEW line \in Line, result' = Append(result, line), used' = used,
           used["start"] = 0 => \/ result = <<>>
                               \/ /\ LastLine.kind # "starterror"
                                  /\ LastLine.kind = "start" =>
                                        line.kind = "sec" /\ line.test.mode = LastLine.test.mode
    PROVE  RowsOK'
<1> SUFFICES ASSUME used["start"] = 0, NEW i \in DOMAIN result', i < Len(result')
             PROVE  /\ result'[i].kind # "starterror"
                    /\ result'[i].kind = "start" =>
                          /\ result'[i + 1].kind = "sec"
                          /\ result'[i + 1].test.mode = result'[i].test.mode
  BY DEF RowsOK
<1>1. /\ result \in Seq(Line) /\ Len(result) \in Nat /\ DOMAIN result = 1..Len(result)
      /\ result' \in Seq(Line) /\ Len(result') = Len(result) + 1
      /\ DOMAIN result' = 1..Len(result) + 1
      /\ result'[Len(result) + 1] = line
      /\ \A k \in 1..Len(result) : result'[k] = result[k]
  BY AppendLine DEF TypeOK
<1>2. i \in 1..Len(result) /\ result'[i] = result[i]
  BY <1>1
<1>3. CASE i < Len(result)
  <2>1. i + 1 \in 1..Len(result)
    BY <1>1, <1>2, <1>3
  <2>2. result'[i + 1] = result[i + 1]
    BY <1>1, <2>1
  <2> QED BY <1>1, <1>2, <1>3, <2>2 DEF RowsOK
<1>4. CASE i = Len(result)
  <2>1. result # <<>>
    BY <1>1, <1>2
  <2>2. result'[i] = LastLine /\ result'[i + 1] = line
    BY <1>1, <1>2, <1>4 DEF LastLine
  <2> QED BY <2>1, <2>2
<1> QED BY <1>1, <1>2, <1>3, <1>4

(* Every step keeps nginx up for the whole-server tests.                     *)
LEMMA UpStep ==
    ASSUME TypeOK, Lockstep, UpOK, [Next]_vars
    PROVE  UpOK'
<1>1. used'["start"] = 0 => used["start"] = 0
  BY UsedGrows DEF FaultKinds
<1>2. ASSUME NEW arg \in ServerArgs, ServerLaunch(arg) PROVE UpOK'
  BY <1>2, ArgsAssumption, FirstType, ServerAtType DEF ServerLaunch, UpOK
<1>3. CASE StopNginx \/ StopNginxFails
  BY <1>3 DEF StopNginx, StopNginxFails, Reconfigure, UpOK, TypeOK
<1>4. CASE StartNginx
  <2>1. srv.pc = "restart" /\ srv.pos \in Position /\ srv'.pos = srv.pos
    BY <1>4 DEF StartNginx, Restarted, TypeOK
  <2>2. conf = ConfFor(srv.pos) /\ conf # Down
    BY <2>1, ConfForType DEF Lockstep, NginxOK
  <2>3. srv.pos.ph = "server" => Loadable(conf)
    BY <2>2 DEF ConfFor, Loadable
  <2> QED BY <1>4, <2>1, <2>2, <2>3 DEF StartNginx, Restarted, UpOK
<1>5. CASE StartNginxFails
  BY <1>5, SpendType DEF StartNginxFails, UpOK, TypeOK, FaultKinds
<1>6. CASE ServerReply \/ ServerReplyLost
  <2>1. ServerAdvance
    BY <1>6 DEF ServerReply, ServerReplyLost
  <2>2. srv.pos \in Position /\ SameTest(srv.pos).ph = srv.pos.ph
    BY DEF TypeOK, Position, SameTest
  <2> QED BY <1>1, <2>1, <2>2, ServerAdvanceEffect DEF UpOK
<1>7. CASE ServerReceive
  BY <1>7 DEF ServerReceive, UpOK, TypeOK
<1>8. CASE ServerKilled
  BY <1>8 DEF ServerKilled, UpOK, TypeOK
<1>9. CASE UNCHANGED <<srv, nginx>>
  BY <1>1, <1>9 DEF UpOK
<1> QED
  BY <1>2, <1>3, <1>4, <1>5, <1>6, <1>7, <1>8, <1>9
     DEF Next, ServerStep, ClientStep, Fault, Terminated, vars, ClientLaunch, ClientSend,
         ClientSendLost, ClientAsked, ClientAnswered, ClientStarted, ClientFinished,
         ClientChecked, WrkRun, WrkFails, WrkEnds, ClientKilled

(* A step of nginx.sh leaves the end of result.txt as wrk.sh needs it.       *)
LEMMA EndServer ==
    ASSUME TypeOK, Lockstep, EndOK,
           UNCHANGED <<cli, result>>, used'["start"] = 0 => used["start"] = 0,
           cli.pos.op = "finish" /\ cli.pc \in {"send", "await"}
           /\ (InSession(cli.pos)' \/ inbox'["client"] # NoMessage) =>
               InSession(cli.pos) \/ inbox["client"] # NoMessage
    PROVE  EndOK'
BY DEF EndOK, LastLine

(* Every step keeps the end of result.txt.                                   *)
LEMMA EndStep ==
    ASSUME TypeOK, Lockstep, UpOK, EndOK, [Next]_vars
    PROVE  EndOK'
<1>1. used'["start"] = 0 => used["start"] = 0
  BY UsedGrows DEF FaultKinds
<1>2. /\ cli.pos \in Position /\ cli.arg \in Args /\ cli.nodes \in Int /\ cli.count \in Int
      /\ result \in Seq(Line) /\ First(cli.arg).op # "finish"
  BY FirstType DEF TypeOK
<1>3. ASSUME NEW arg \in ServerArgs, ServerLaunch(arg) PROVE EndOK'
  <2>1. srv'.pos.op # "finish"
    BY <1>3, ArgsAssumption, FirstType, ServerAtType DEF ServerLaunch
  <2> QED BY <1>1, <1>3, <2>1, EndServer DEF ServerLaunch
<1>4. CASE StopNginx \/ StopNginxFails \/ StartNginx \/ StartNginxFails
  <2>1. srv'.pos.op = "start" /\ UNCHANGED <<cli, result, inbox>>
    BY <1>4 DEF StopNginx, StopNginxFails, StartNginx, StartNginxFails, Reconfigure,
                Restarted, TypeOK, Lockstep, PlacesOK
  <2> QED BY <1>1, <2>1, EndServer
<1>5. CASE ServerReceive
  <2>1. inbox'["client"] = inbox["client"] /\ srv'.pos = srv.pos /\ srv.pc = "listen"
        /\ UNCHANGED <<cli, result, used>>
    BY <1>5 DEF ServerReceive, TypeOK, Hosts
  <2> QED BY <2>1, EndServer
<1>6. CASE ServerReply
  <2>1. UNCHANGED <<cli, result, used>>
    BY <1>6 DEF ServerReply, ServerAdvance
  <2>2. cli.pos.op = "finish" => InSession(cli.pos)
    BY <1>6, FinishMatches
  <2> QED BY <2>1, <2>2, EndServer
<1>7. CASE ServerReplyLost
  <2>1. ServerAdvance /\ UNCHANGED <<cli, result, inbox>>
    BY <1>7 DEF ServerReplyLost, ServerAdvance
  <2>2. cli.pos.op = "finish" /\ cli.pc \in {"send", "await"} => srv.pos.op = "finish"
    BY <1>2, <2>1, ServerAdvanceEffect DEF Lockstep, TurnsOK, Contains
  <2>3. cli.pos.op = "finish" /\ cli.pc \in {"send", "await"} => srv'.pos.op # "finish"
    BY <2>1, <2>2, ServerAdvanceEffect
  <2> QED BY <1>1, <2>1, <2>3, EndServer
<1>8. CASE ServerKilled
  <2>1. srv'.pc = "off" /\ inbox'["client"] = inbox["client"] /\ UNCHANGED <<cli, result>>
    BY <1>8 DEF ServerKilled, TypeOK, Hosts
  <2> QED BY <1>1, <2>1, EndServer
<1>9. ASSUME NEW arg \in ClientArgs, ClientLaunch(arg) PROVE EndOK'
  <2>1. arg \in Args
    BY ArgsAssumption
  <2>2. /\ cli'.pos = First(arg) /\ cli'.arg = arg /\ cli'.pc = "send"
        /\ cli'.pos.op \in {"conf", "start"}
    BY <1>9, <2>1, FirstType, ClientAtType DEF ClientLaunch
  <2>3. arg = "stats" => First(arg) = Conf("stats")
    BY DEF First, PhaseStart
  <2> QED BY <1>9, <2>2, <2>3 DEF ClientLaunch, EndOK
<1>10. CASE ClientSend \/ ClientSendLost
  <2>1. /\ cli.pc = "send" /\ cli'.pc = "await" /\ cli'.pos = cli.pos /\ cli'.arg = cli.arg
        /\ inbox'["client"] = inbox["client"] /\ UNCHANGED <<srv, result>>
    BY <1>10 DEF ClientSend, ClientSendLost, ClientAsked, TypeOK, Hosts
  <2> QED BY <1>1, <2>1 DEF EndOK, LastLine
<1>11. CASE ClientAnswered
  <2> DEFINE num == inbox["client"].num
             ofNodes == cli.pos.ph = "node" /\ cli.pos.node = -1
             nodes == IF ofNodes THEN num ELSE cli.nodes
             count == IF ofNodes THEN cli.count ELSE num
             next == Successor(cli.arg, cli.pos, nodes, count)
  <2>1. nodes \in Int /\ count \in Int /\ cli.arg \in Args /\ cli.pos \in Position
    BY DEF TypeOK, Message, Hosts
  <2>2. cli' = ClientAt(cli.arg, next, nodes, count) /\ cli.pos.op = "conf" /\ cli.pc = "await"
        /\ result' = result
    BY <1>11 DEF ClientAnswered
  <2> HIDE DEF nodes, count
  <2>3. next \in Position /\ next.op # "finish"
    BY <2>1, <2>2, SuccessorType
  <2>4. cli.pos = Conf("stats") => next = Done
    BY DEF Successor, Conf, At, Sockets
  <2> HIDE DEF next
  <2>5. /\ cli'.arg = cli.arg /\ cli'.pos = next
        /\ cli'.pc = IF next.op = "done" THEN "exit" ELSE "send"
    BY <2>1, <2>2, <2>3, ClientAtType
  <2>6. cli.arg = "stats" => cli'.pc = "exit"
    BY <2>2, <2>4, <2>5 DEF EndOK, Done, At
  <2> QED BY <2>2, <2>3, <2>5, <2>6 DEF EndOK, LastLine
<1>12. CASE ClientStarted
  <2>1. cli'.pc \in {"wrk", "exit"} /\ cli'.arg = cli.arg
        /\ cli.pc = "await" /\ cli.pos.op = "start"
    BY <1>12 DEF ClientStarted, ClientChecked, TypeOK
  <2>2. cli.arg # "stats"
    BY <2>1 DEF EndOK, Conf, At
  <2> QED BY <2>1, <2>2 DEF EndOK
<1>13. CASE ClientFinished
  <2>1. cli.pc = "await" /\ cli.pos.op = "finish"
    BY <1>13 DEF ClientFinished, ClientChecked
  <2>2. cli.arg # "stats"
    BY <2>1 DEF EndOK, Conf, At
  <2>3. CASE cli'.pc = "exit" /\ cli'.arg = cli.arg
    BY <2>2, <2>3 DEF EndOK
  <2>4. CASE /\ cli' = ClientAt(cli.arg, ClientNext, cli.nodes, cli.count)
             /\ result' = Append(result, Entry("finish", cli.pos, {}))
    <3>1. ClientNext \in Position /\ ClientNext.op # "finish"
      BY <1>2, <2>1, SuccessorType DEF ClientNext
    <3>2. cli'.pos.op # "finish" /\ cli'.arg = cli.arg /\ cli'.pc \in {"send", "exit"}
      BY <1>2, <2>4, <3>1, ClientAtType
    <3>3. Entry("finish", cli.pos, {}) \in Line /\ Entry("finish", cli.pos, {}).kind = "finish"
      BY <1>2, EntryType DEF Entry
    <3>4. LastLine'.kind = "finish"
      BY <1>2, <2>4, <3>3, AppendLine DEF LastLine
    <3> QED BY <2>2, <3>2, <3>4 DEF EndOK
  <2> QED BY <1>13, <2>3, <2>4 DEF ClientFinished, ClientChecked, TypeOK
<1>14. CASE WrkRun \/ WrkFails \/ WrkEnds
  <2>1. /\ cli.pc \in {"wrk", "running"} /\ cli'.pos = cli.pos /\ cli'.arg = cli.arg
        /\ UNCHANGED <<srv, inbox, nginx, used>> /\ cli.pos.op = "finish"
    BY <1>14 DEF WrkRun, WrkFails, WrkEnds, TypeOK, Lockstep, PlacesOK
  <2>2. inbox["client"] = NoMessage
    BY <2>1 DEF Lockstep, TurnsOK
  <2>3. cli.arg # "stats"
    BY <2>1 DEF EndOK, Conf, At
  <2>4. CASE WrkRun
    BY <2>1, <2>3, <2>4 DEF WrkRun, EndOK, TypeOK
  <2>5. CASE WrkFails
    <3>1. used["start"] = 0 => ~InSession(cli.pos)
      BY <2>1, <2>5 DEF WrkFails, UpOK
    <3> QED BY <2>1, <2>2, <2>3, <3>1 DEF EndOK
  <2>6. CASE WrkEnds
    <3>1. /\ Entry("sec", cli.pos, seen) \in Line /\ Entry("sec", cli.pos, seen).kind = "sec"
          /\ result' = Append(result, Entry("sec", cli.pos, seen))
      BY <2>6, EntryType DEF TypeOK, Entry, WrkEnds
    <3>2. result' # <<>> /\ LastLine'.kind = "sec"
      BY <1>2, <3>1, AppendLine DEF LastLine
    <3> QED BY <2>1, <2>3, <3>2 DEF EndOK
  <2> QED BY <1>14, <2>4, <2>5, <2>6
<1>15. CASE ClientKilled
  BY <1>15 DEF ClientKilled, EndOK, TypeOK
<1>16. CASE UNCHANGED vars
  BY <1>16 DEF vars, EndOK, LastLine
<1> QED
  BY <1>3, <1>4, <1>5, <1>6, <1>7, <1>8, <1>9, <1>10, <1>11, <1>12, <1>13, <1>14, <1>15, <1>16
     DEF Next, ServerStep, ClientStep, Fault, Terminated

(* Every step keeps the rows of result.txt.                                  *)
LEMMA RowsStep ==
    ASSUME TypeOK, Lockstep, EndOK, RowsOK, [Next]_vars
    PROVE  RowsOK'
<1>1. used'["start"] = 0 => used["start"] = 0
  BY UsedGrows DEF FaultKinds
<1>2. /\ cli.pos \in Position /\ seen \in SUBSET (NginxConf \cup {Down})
  BY DEF TypeOK
<1>3. CASE result' = result
  BY <1>1, <1>3 DEF RowsOK
<1>4. CASE result' = <<>>
  BY <1>4 DEF RowsOK
<1>5. CASE ClientStarted
  <2>1. PICK kind \in {"start", "starterror"} : result' = Append(result, Entry(kind, cli.pos, {}))
    BY <1>5 DEF ClientStarted, ClientChecked
  <2>2. Entry(kind, cli.pos, {}) \in Line
    BY <1>2, EntryType
  <2>3. cli.pc = "await" /\ cli.pos.op = "start" /\ used' = used
    BY <1>5 DEF ClientStarted, ClientChecked
  <2>4. result = <<>> \/ LastLine.kind = "finish"
    BY <2>3 DEF EndOK, Conf, At
  <2> HIDE DEF LastLine
  <2> QED BY <2>1, <2>2, <2>3, <2>4, RowsAppend
<1>6. CASE ClientFinished
  <2>1. PICK kind \in {"finish", "finisherror"} : result' = Append(result, Entry(kind, cli.pos, {}))
    BY <1>6 DEF ClientFinished, ClientChecked
  <2>2. Entry(kind, cli.pos, {}) \in Line
    BY <1>2, EntryType
  <2>3. /\ cli.pc = "await" /\ cli.pos.op = "finish" /\ used' = used
        /\ inbox["client"] # NoMessage
    BY <1>6 DEF ClientFinished, ClientChecked
  <2>4. used["start"] = 0 => LastLine.kind = "sec"
    BY <2>3 DEF EndOK
  <2> HIDE DEF LastLine
  <2> QED BY <2>1, <2>2, <2>3, <2>4, RowsAppend
<1>7. CASE WrkEnds
  <2>1. result' = Append(result, Entry("sec", cli.pos, seen)) /\ used' = used
        /\ cli.pc = "running"
    BY <1>7 DEF WrkEnds
  <2>2. /\ Entry("sec", cli.pos, seen) \in Line
        /\ Entry("sec", cli.pos, seen).kind = "sec" /\ Entry("sec", cli.pos, seen).test = cli.pos
    BY <1>2, EntryType DEF Entry
  <2>3. result # <<>> /\ LastLine.kind = "start" /\ SameTest(LastLine.test) = cli.pos
    BY <2>1 DEF Lockstep, TailOK
  <2>4. LastLine \in Line
    BY <2>3 DEF LastLine, TypeOK
  <2>5. cli.pos.mode = LastLine.test.mode
    BY <2>3, <2>4 DEF SameTest, Line, Position
  <2> HIDE DEF LastLine
  <2> QED BY <2>1, <2>2, <2>3, <2>5, RowsAppend
<1> QED
  BY <1>3, <1>4, <1>5, <1>6, <1>7
     DEF Next, ServerStep, ClientStep, Fault, Terminated, vars, ServerLaunch, ClientLaunch,
         StopNginx, StopNginxFails, StartNginx, StartNginxFails, Reconfigure, Restarted,
         ServerReceive, ServerReply, ServerReplyLost, ServerAdvance, ServerKilled, ClientSend,
         ClientSendLost, ClientAsked, ClientAnswered, WrkRun, WrkFails, ClientKilled

(* A step writes sections of the mode they are named after.                  *)
LEMMA SectionsStep ==
    ASSUME TypeOK, RowsOK, SectionsPure, [Next]_vars
    PROVE  SectionsPure'
<1>1. used'["start"] = 0 => used["start"] = 0
  BY UsedGrows DEF FaultKinds
<1>2. CASE csv' = csv
  BY <1>1, <1>2 DEF SectionsPure
<1>3. CASE csv' = [m \in 1..NumModes |-> Section(m)]
  BY <1>1, <1>3, SectionPure DEF SectionsPure
<1> QED
  BY <1>2, <1>3
     DEF Next, ServerStep, ClientStep, Fault, Terminated, vars, ServerLaunch, ClientLaunch,
         StopNginx, StopNginxFails, StartNginx, StartNginxFails, Reconfigure, Restarted,
         ServerReceive, ServerReply, ServerReplyLost, ServerAdvance, ServerKilled, ClientSend,
         ClientSendLost, ClientAsked, ClientAnswered, ClientStarted, ClientFinished,
         ClientChecked, WrkRun, WrkFails, WrkEnds, ClientKilled

(* statisticshandle puts every row in the section of its own mode, through   *)
(* kills, losses, restarts and stops of nginx that fail, for every plan and  *)
(* topology, as long as no start of nginx failed.                            *)
THEOREM SectionsPureHolds == Spec => []SectionsPure
<1>1. Init => UpOK /\ EndOK /\ RowsOK /\ SectionsPure
  BY DEF Init, UpOK, EndOK, RowsOK, SectionsPure
<1>2. TypeOK /\ Lockstep /\ UpOK /\ EndOK /\ RowsOK /\ SectionsPure /\ [Next]_vars
      => UpOK' /\ EndOK' /\ RowsOK' /\ SectionsPure'
  BY UpStep, EndStep, RowsStep, SectionsStep
<1> QED BY <1>1, <1>2, TypeCorrect, LockstepHolds, PTL DEF Spec

-----------------------------------------------------------------------------
(* A pair that nothing disturbs                                              *)

(* The handshakes the scripts really have.                                   *)
WellFormed(p) ==
    /\ p.op = "conf" => p.ph \in Sockets \cup {"node", "stats"}
    /\ p.op \in {"start", "finish"} => p.ph \in Sockets \cup {"node", "server"}
    /\ p.op \in {"start", "finish"} /\ p.ph = "node" => p.node # -1
    /\ p.op = "done" => p = Done

(* What wrk.sh must have been told to go on from p as nginx.sh does.         *)
Knows(p, nodes, count) ==
    /\ WellFormed(p)
    /\ p.ph = "node" /\ p.node # -1 => nodes = NodeNum
    /\ p.op \in {"start", "finish"} /\ p.ph # "server" => count = CpuCount(p)

(* A phase begins with a handshake of the plan.                              *)
LEMMA KnowsPhaseStart ==
    ASSUME NEW ph \in Phases, NEW nodes, NEW count
    PROVE  Knows(PhaseStart(ph), nodes, count)
BY DEF Knows, WellFormed, PhaseStart, StartOf, Conf, At, Phases, Sockets

(* So does the phase after another, or the plan is done.                     *)
LEMMA KnowsPhaseAfter ==
    ASSUME NEW arg, NEW ph, NEW nodes, NEW count
    PROVE  Knows(PhaseAfter(arg, ph), nodes, count)
<1>1. Knows(Done, nodes, count)
  BY DEF Knows, WellFormed, Done, At
<1>2. \A q \in {"socketr", "node", "server", "stats"} : Knows(PhaseStart(q), nodes, count)
  BY KnowsPhaseStart DEF Phases, Sockets
<1> QED BY <1>1, <1>2 DEF PhaseAfter

(* The two scripts, each with its own copy of the loops, go on to the same   *)
(* handshake when wrk.sh has been told the numbers nginx.sh works with.      *)
LEMMA SameSuccessor ==
    ASSUME NEW arg, NEW p \in Position, NEW nodes \in Int, NEW count \in Int,
           Knows(p, nodes, count),
           p.op = "conf" => IF p.ph = "node" /\ p.node = -1 THEN nodes = NodeNum
                            ELSE count = CpuCount(p)
    PROVE  /\ Successor(arg, p, nodes, count) = Successor(arg, p, NodeNum, CpuCount(p))
           /\ Knows(Successor(arg, p, nodes, count), nodes, count)
<1>1. /\ p.mode \in Nat /\ p.node \in Nat \cup {-1} /\ p.ph \in Phases \cup {"none"}
      /\ p.core \in Nat /\ p.op \in {"conf", "start", "finish", "done"}
  BY DEF Position
<1> DEFINE A == PhaseAfter(arg, "node")
           B == PhaseAfter(arg, p.ph)
<1>2. Knows(A, nodes, count) /\ Knows(B, nodes, count)
  BY KnowsPhaseAfter
<1> HIDE DEF A, B
<1> DEFINE N(n) == CASE p.node + 1 < n -> NodeConf(p.mode, p.node + 1)
                     [] p.node + 1 >= n /\ p.mode < NumModes -> NodeConf(p.mode + 1, 0)
                     [] OTHER -> A
           M(n) == CASE p.ph = "node" -> N(n)
                     [] p.ph \in Sockets /\ p.mode < NumModes -> StartOf(p.ph, p.mode + 1, -1, 1)
                     [] p.ph = "server" /\ p.mode < NumModes -> StartOf("server", p.mode + 1, -1, 0)
                     [] OTHER -> B
           S(n, c) == CASE p.op = "conf" /\ p.ph \in Sockets -> StartOf(p.ph, 1, -1, 1)
                        [] p.op = "conf" /\ p.ph = "node" /\ p.node = -1 ->
                             IF n > 0 THEN NodeConf(1, 0) ELSE A
                        [] p.op = "conf" /\ p.ph = "node" /\ p.node # -1 ->
                             StartOf("node", p.mode, p.node, 1)
                        [] p.op = "conf" /\ p.ph = "stats" -> Done
                        [] p.op = "start" -> [p EXCEPT !.op = "finish"]
                        [] p.op = "finish" /\ p.ph # "server" /\ p.core <= c
                                           /\ Tested(c, 2 * p.core) ->
                             StartOf(p.ph, p.mode, p.node, 2 * p.core)
                        [] OTHER -> M(n)
<1>3. \A n, c : Successor(arg, p, n, c) = S(n, c)
  BY DEF Successor, ModeAfter, NodeAfter, A, B
<1>4. CASE p.op = "conf" /\ p.ph \in Sockets
  <2>1. S(nodes, count) = StartOf(p.ph, 1, -1, 1)
        /\ S(NodeNum, CpuCount(p)) = StartOf(p.ph, 1, -1, 1)
    BY <1>4 DEF Sockets
  <2>2. CpuCount(StartOf(p.ph, 1, -1, 1)) = CpuCount(p)
    BY <1>4 DEF CpuCount, StartOf, At
  <2> QED BY <1>3, <1>4, <2>1, <2>2 DEF Knows, WellFormed, StartOf, At, Sockets
<1>5. CASE p.op = "conf" /\ p.ph = "node" /\ p.node = -1
  <2>1. nodes = NodeNum
    BY <1>5
  <2>2. S(nodes, count) = NodeConf(1, 0) /\ S(NodeNum, CpuCount(p)) = NodeConf(1, 0)
    BY <1>5, <2>1 DEF Sockets
  <2>3. Knows(NodeConf(1, 0), nodes, count)
    BY <2>1 DEF Knows, WellFormed, NodeConf, At
  <2> QED BY <1>3, <2>2, <2>3
<1>6. CASE p.op = "conf" /\ p.ph = "node" /\ p.node # -1
  <2>1. S(nodes, count) = StartOf("node", p.mode, p.node, 1)
        /\ S(NodeNum, CpuCount(p)) = StartOf("node", p.mode, p.node, 1)
    BY <1>6 DEF Sockets
  <2>2. CpuCount(StartOf("node", p.mode, p.node, 1)) = CpuCount(p)
    BY <1>6 DEF CpuCount, StartOf, At, Sockets
  <2>3. nodes = NodeNum /\ count = CpuCount(p)
    BY <1>6 DEF Knows
  <2> QED BY <1>3, <1>6, <2>1, <2>2, <2>3 DEF Knows, WellFormed, StartOf, At, Sockets
<1>7. CASE p.op = "conf" /\ p.ph = "stats"
  <2>1. S(nodes, count) = Done /\ S(NodeNum, CpuCount(p)) = Done
    BY <1>7 DEF Sockets
  <2> QED BY <1>3, <2>1 DEF Knows, WellFormed, Done, At
<1>8. CASE p.op = "start"
  <2>1. S(nodes, count) = SameTest(p) /\ S(NodeNum, CpuCount(p)) = SameTest(p)
    BY <1>8 DEF SameTest
  <2>2. CpuCount(SameTest(p)) = CpuCount(p)
    BY DEF CpuCount, SameTest, Position
  <2> QED BY <1>3, <1>8, <2>1, <2>2 DEF Knows, WellFormed, SameTest, Position
<1>9. CASE p.op = "finish" /\ p.ph \in Sockets
  <2>1. count = CpuCount(p)
    BY <1>9 DEF Knows, Sockets
  <2>2. M(nodes) = M(NodeNum)
    BY <1>9 DEF Sockets
  <2>3. S(nodes, count) = S(NodeNum, CpuCount(p))
    BY <1>9, <2>1, <2>2
  <2>4. \A mode, node, core : CpuCount(StartOf(p.ph, mode, node, core)) = CpuCount(p)
    BY <1>9 DEF CpuCount, StartOf, At
  <2>5. \A mode, node, core : Knows(StartOf(p.ph, mode, node, core), nodes, count)
    BY <1>9, <2>1, <2>4 DEF Knows, WellFormed, StartOf, At, Sockets
  <2>6. S(nodes, count) \in {StartOf(p.ph, p.mode, p.node, 2 * p.core),
                             StartOf(p.ph, p.mode + 1, -1, 1), B}
    BY <1>9 DEF Sockets
  <2> QED BY <1>2, <1>3, <2>3, <2>5, <2>6
<1>10. CASE p.op = "finish" /\ p.ph = "node"
  <2>1. count = CpuCount(p) /\ nodes = NodeNum /\ p.node # -1
    BY <1>10 DEF Knows, WellFormed
  <2>2. \A core : CpuCount(StartOf(p.ph, p.mode, p.node, core)) = CpuCount(p)
    BY <1>10 DEF CpuCount, StartOf, At, Sockets
  <2>3. \A core : Knows(StartOf(p.ph, p.mode, p.node, core), nodes, count)
    BY <1>10, <2>1, <2>2 DEF Knows, WellFormed, StartOf, At, Sockets
  <2>4. \A mode, node : Knows(NodeConf(mode, node), nodes, count)
    BY <2>1 DEF Knows, WellFormed, NodeConf, At
  <2>5. S(nodes, count) \in {StartOf(p.ph, p.mode, p.node, 2 * p.core),
                             NodeConf(p.mode, p.node + 1), NodeConf(p.mode + 1, 0), A}
    BY <1>10 DEF Sockets
  <2> QED BY <1>2, <1>3, <2>1, <2>3, <2>4, <2>5
<1>11. CASE p.op = "finish" /\ p.ph = "server"
  <2>1. S(nodes, count) = M(nodes) /\ S(NodeNum, CpuCount(p)) = M(NodeNum)
    BY <1>11
  <2>2. M(nodes) = M(NodeNum) /\ M(nodes) \in {StartOf("server", p.mode + 1, -1, 0), B}
    BY <1>11 DEF Sockets
  <2>3. Knows(StartOf("server", p.mode + 1, -1, 0), nodes, count)
    BY DEF Knows, WellFormed, StartOf, At
  <2> QED BY <1>2, <1>3, <2>1, <2>2, <2>3
<1>12. CASE p.op = "done"
  <2>1. p.ph = "none"
    BY <1>12 DEF Knows, WellFormed, Done, At
  <2>2. S(nodes, count) = B /\ S(NodeNum, CpuCount(p)) = B
    BY <1>12, <2>1 DEF Sockets
  <2> QED BY <1>2, <1>3, <2>2
<1> QED BY <1>1, <1>4, <1>5, <1>6, <1>7, <1>8, <1>9, <1>10, <1>11, <1>12 DEF Knows, WellFormed

(* A text is found in itself.                                                *)
LEMMA ContainsSelf ==
    ASSUME NEW p PROVE Contains(p, p)
BY DEF Contains, DigitPrefix

(* No "is error" line.                                                       *)
ErrorFree == \A i \in DOMAIN result : result[i].kind \notin {"starterror", "finisherror"}

NothingSent == inbox["server"] = NoMessage /\ inbox["client"] = NoMessage

(* Both scripts are at the same handshake.                                   *)
Abreast ==
    /\ srv.pos = cli.pos
    /\ \/ cli.pc = "send" /\ srv.pc \in {"configure", "restart", "listen"} /\ NothingSent
       \/ /\ cli.pc = "await" /\ srv.pc = "listen"
          /\ inbox["server"] = Text(cli.pos) /\ inbox["client"] = NoMessage
       \/ cli.pc = "await" /\ srv.pc = "reply" /\ NothingSent
       \/ cli.pc \in {"wrk", "running"} /\ srv.pc = "listen" /\ NothingSent
       \/ cli.pc = "exit" /\ srv.pc = "exit" /\ srv.pos = Done /\ NothingSent

(* The server has replied and gone on; the client has not read the reply.    *)
Ahead ==
    /\ srv.pos = Successor(cli.arg, cli.pos, NodeNum, CpuCount(cli.pos))
    /\ cli.pc = "await" /\ cli.pos.op # "done"
    /\ inbox["client"] = Reply(cli.pos) /\ inbox["server"] = NoMessage
    /\ srv.pc \in {"configure", "restart", "listen"} \/ (srv.pc = "exit" /\ srv.pos = Done)

Together == Knows(cli.pos, cli.nodes, cli.count) /\ ErrorFree /\ (Abreast \/ Ahead)

(* One of the scripts has not been started yet, and the other waits for it.  *)
Alone ==
    /\ used["serverlaunch"] = 0 => srv.pc = "off"
    /\ used["serverlaunch"] # 0 =>
           srv.pos = First(srv.arg) /\ srv.pc \in {"configure", "restart", "listen"}
    /\ used["clientlaunch"] = 0 => cli.pc = "off"
    /\ used["clientlaunch"] # 0 =>
           /\ cli.pos = First(cli.arg) /\ cli.pc = "send"
    /\ NothingSent /\ result = <<>>

Paired ==
    used["kill"] = 0 /\ used["loss"] = 0 =>
        /\ used["serverlaunch"] <= 1 /\ used["clientlaunch"] <= 1
           /\ (used["serverlaunch"] = 0 \/ used["clientlaunch"] = 0) => Alone
        /\ OrderlyPair => Together

(* A pair that is together has made no error.                                *)
LEMMA TogetherNoError ==
    ASSUME TypeOK, Paired PROVE NoErrorExit
BY DEF Paired, OrderlyPair, Together, Abreast, Ahead, ErrorFree, NoErrorExit

(* A step of nginx.sh keeps the pair together.                               *)
LEMMA TogetherServer ==
    ASSUME TypeOK, Lockstep, Together, srv.arg = cli.arg,
           \/ StopNginx \/ StopNginxFails \/ StartNginx \/ StartNginxFails
           \/ ServerReceive \/ ServerReply
    PROVE  Together' /\ srv'.arg = srv.arg /\ cli' = cli
<1>1. CASE StopNginx \/ StopNginxFails \/ StartNginx \/ StartNginxFails
  <2>1. /\ srv.pc \in {"configure", "restart"} /\ srv'.pc \in {"restart", "listen"}
        /\ srv'.pos = srv.pos /\ srv'.arg = srv.arg
        /\ UNCHANGED <<cli, inbox, result>>
    BY <1>1 DEF StopNginx, StopNginxFails, StartNginx, StartNginxFails, Reconfigure,
                Restarted, TypeOK
  <2>2. CASE Abreast
    BY <2>1, <2>2 DEF Together, Abreast, ErrorFree, NothingSent
  <2>3. CASE Ahead
    BY <2>1, <2>3 DEF Together, Ahead, ErrorFree
  <2> QED BY <2>1, <2>2, <2>3 DEF Together
<1>2. CASE ServerReceive
  <2>1. /\ srv.pc = "listen" /\ inbox["server"] # NoMessage
        /\ inbox'["server"] = NoMessage /\ inbox'["client"] = inbox["client"]
        /\ srv'.pos = srv.pos /\ srv'.arg = srv.arg
        /\ srv'.pc = IF Contains(inbox["server"].pos, srv.pos) THEN "reply" ELSE "exit"
        /\ UNCHANGED <<cli, result>>
    BY <1>2 DEF ServerReceive, TypeOK, Hosts
  <2>2. /\ srv.pos = cli.pos /\ cli.pc = "await" /\ inbox["server"] = Text(cli.pos)
        /\ inbox["client"] = NoMessage
    BY <2>1 DEF Together, Abreast, Ahead, NothingSent
  <2>3. srv'.pc = "reply"
    BY <2>1, <2>2, ContainsSelf DEF Text
  <2> QED BY <2>1, <2>2, <2>3 DEF Together, Abreast, ErrorFree, NothingSent
<1>3. CASE ServerReply
  <2>1. /\ srv.pc = "reply" /\ cli.pc = "await"
        /\ srv' = ServerAt(srv.arg, ServerNext(srv.pos))
        /\ inbox'["client"] = Reply(srv.pos) /\ inbox'["server"] = inbox["server"]
        /\ UNCHANGED <<cli, result>>
    BY <1>3 DEF ServerReply, ServerAdvance, Accepting, TypeOK, Hosts
  <2>2. srv.pos = cli.pos /\ inbox["server"] = NoMessage /\ cli.pos.op # "done"
    BY <2>1 DEF Together, Abreast, Ahead, NothingSent, Lockstep, PlacesOK
  <2>3. /\ cli.pos \in Position /\ cli.arg \in Args /\ cli.nodes \in Int /\ cli.count \in Int
        /\ CpuCount(cli.pos) \in Int /\ NodeNum \in Int
    BY CpuCountType DEF TypeOK
  <2> DEFINE next == Successor(cli.arg, cli.pos, NodeNum, CpuCount(cli.pos))
  <2>4. next = ServerNext(srv.pos)
    BY <2>2 DEF ServerNext
  <2>5. next \in Position /\ next.op \in {"conf", "start", "finish", "done"}
    BY <2>3, SuccessorType DEF Position
  <2>6. next.op = "done" => next = Done
    <3>1. Knows(cli.pos, NodeNum, CpuCount(cli.pos))
      BY DEF Together, Knows
    <3>2. Knows(next, NodeNum, CpuCount(cli.pos))
      BY <2>3, <3>1, SameSuccessor
    <3> QED BY <3>2 DEF Knows, WellFormed
  <2> HIDE DEF next
  <2>7. /\ srv'.pos = next /\ srv'.arg = srv.arg
        /\ srv'.pc = IF next.op = "start" THEN "configure"
                     ELSE IF next.op = "done" THEN "exit" ELSE "listen"
    BY <2>1, <2>3, <2>4, <2>5, ServerAtType
  <2>8. next = Successor(cli'.arg, cli'.pos, NodeNum, CpuCount(cli'.pos))
    BY <2>1 DEF next
  <2>9. srv'.pc \in {"configure", "listen"} \/ (srv'.pc = "exit" /\ srv'.pos = Done)
    BY <2>5, <2>6, <2>7
  <2>10. Ahead'
    <3>1. inbox'["client"] = Reply(cli'.pos) /\ inbox'["server"] = NoMessage
      BY <2>1, <2>2
    <3>2. cli'.pc = "await" /\ cli'.pos.op # "done"
      BY <2>1, <2>2
    <3> QED BY <2>7, <2>8, <2>9, <3>1, <3>2 DEF Ahead
  <2> QED BY <2>1, <2>7, <2>10 DEF Together, ErrorFree
<1> QED BY <1>1, <1>2, <1>3

(* A good line keeps result.txt free of errors.                              *)
LEMMA ErrorFreeAppend ==
    ASSUME TypeOK, ErrorFree, NEW line \in Line, result' = Append(result, line),
           line.kind \notin {"starterror", "finisherror"}
    PROVE  ErrorFree'
<1>1. /\ result \in Seq(Line) /\ Len(result) \in Nat /\ DOMAIN result = 1..Len(result)
      /\ DOMAIN result' = 1..Len(result) + 1
      /\ result'[Len(result) + 1] = line
      /\ \A k \in 1..Len(result) : result'[k] = result[k]
  BY AppendLine DEF TypeOK
<1> SUFFICES ASSUME NEW i \in DOMAIN result'
             PROVE  result'[i].kind \notin {"starterror", "finisherror"}
  BY DEF ErrorFree
<1>2. CASE i \in 1..Len(result)
  BY <1>1, <1>2 DEF ErrorFree
<1>3. CASE i = Len(result) + 1
  BY <1>1, <1>3
<1> QED BY <1>1, <1>2, <1>3

(* A client that has its reply and knows its numbers comes to where the      *)
(* server went.                                                              *)
LEMMA CatchesUp ==
    ASSUME TypeOK, Lockstep, Ahead, NEW next \in Position,
           next = Successor(cli.arg, cli.pos, NodeNum, CpuCount(cli.pos)),
           Knows(next, cli'.nodes, cli'.count),
           inbox' = [inbox EXCEPT !["client"] = NoMessage], srv' = srv, ErrorFree',
           cli'.pos = next,
           \/ cli'.pc = IF next.op = "done" THEN "exit" ELSE "send"
           \/ cli'.pc = "wrk" /\ next.op = "finish"
    PROVE  Together'
<1>1. srv.pos = next /\ inbox'["client"] = NoMessage /\ inbox'["server"] = NoMessage
  BY DEF Ahead, TypeOK, Hosts
<1>2. NothingSent'
  BY <1>1 DEF NothingSent
<1>3. next.op = "done" => srv.pc = "exit" /\ srv.pos = Done
  BY <1>1 DEF Ahead, Lockstep, PlacesOK, Knows, WellFormed
<1>4. next.op # "done" => srv.pc \in {"configure", "restart", "listen"}
  BY <1>1 DEF Ahead, Done, At
<1>5. next.op = "finish" => srv.pc = "listen"
  BY <1>1, <1>4 DEF Lockstep, PlacesOK
<1>6. Abreast'
  BY <1>1, <1>2, <1>3, <1>4, <1>5 DEF Abreast
<1> QED BY <1>6 DEF Together

(* A step of wrk.sh keeps the pair together.                                 *)
LEMMA TogetherClient ==
    ASSUME TypeOK, Lockstep, Together,
           \/ ClientSend \/ ClientAnswered \/ ClientStarted \/ ClientFinished
           \/ WrkRun \/ WrkFails \/ WrkEnds
    PROVE  Together' /\ srv' = srv /\ cli'.arg = cli.arg
<1>1. /\ cli.pos \in Position /\ cli.arg \in Args /\ cli.nodes \in Int /\ cli.count \in Int
  BY DEF TypeOK
<1>2. CASE ClientSend
  <2>1. /\ cli.pc = "send" /\ cli'.pc = "await" /\ cli'.pos = cli.pos /\ cli'.arg = cli.arg
        /\ cli'.nodes = cli.nodes /\ cli'.count = cli.count
        /\ srv.pc = "listen" /\ UNCHANGED <<srv, result>>
        /\ inbox'["client"] = inbox["client"] /\ inbox'["server"] = Text(cli.pos)
    BY <1>2 DEF ClientSend, ClientAsked, Accepting, TypeOK, Hosts
  <2> QED BY <2>1 DEF Together, Abreast, Ahead, ErrorFree, NothingSent
<1>3. CASE WrkRun \/ WrkFails
  <2>1. /\ cli.pc = "wrk" /\ cli'.pc \in {"send", "running"}
        /\ cli'.pos = cli.pos /\ cli'.arg = cli.arg
        /\ cli'.nodes = cli.nodes /\ cli'.count = cli.count
        /\ UNCHANGED <<srv, inbox, result>>
    BY <1>3 DEF WrkRun, WrkFails, TypeOK
  <2> QED BY <2>1 DEF Together, Abreast, Ahead, ErrorFree, NothingSent
<1>4. CASE WrkEnds
  <2>1. /\ cli.pc = "running" /\ cli'.pc = "send"
        /\ cli'.pos = cli.pos /\ cli'.arg = cli.arg
        /\ cli'.nodes = cli.nodes /\ cli'.count = cli.count
        /\ UNCHANGED <<srv, inbox>> /\ result' = Append(result, Entry("sec", cli.pos, seen))
    BY <1>4 DEF WrkEnds, TypeOK
  <2>2. Entry("sec", cli.pos, seen) \in Line /\ Entry("sec", cli.pos, seen).kind = "sec"
    BY <1>1, EntryType DEF TypeOK, Entry
  <2>3. ErrorFree'
    BY <2>1, <2>2, ErrorFreeAppend DEF Together
  <2> QED BY <2>1, <2>3 DEF Together, Abreast, Ahead, NothingSent
<1>5. ASSUME cli.pc = "await", inbox["client"] # NoMessage PROVE Ahead
  BY <1>5 DEF Together, Abreast, NothingSent
<1>6. CASE ClientAnswered
  <2> DEFINE num == inbox["client"].num
             ofNodes == cli.pos.ph = "node" /\ cli.pos.node = -1
             nodes == IF ofNodes THEN num ELSE cli.nodes
             count == IF ofNodes THEN cli.count ELSE num
             next == Successor(cli.arg, cli.pos, nodes, count)
  <2>1. Ahead /\ cli.pos.op = "conf"
    BY <1>5, <1>6 DEF ClientAnswered
  <2>2. num = Answer(cli.pos)
    BY <2>1 DEF Ahead, Reply, Number
  <2>3. IF ofNodes THEN nodes = NodeNum ELSE count = CpuCount(cli.pos)
    BY <2>2 DEF Answer
  <2>4. cli' = ClientAt(cli.arg, next, nodes, count) /\ UNCHANGED <<srv, result>>
        /\ inbox' = [inbox EXCEPT !["client"] = NoMessage]
    BY <1>6 DEF ClientAnswered
  <2>5. nodes \in Int /\ count \in Int
    BY <1>1 DEF TypeOK, Message, Hosts
  <2>6. Knows(cli.pos, nodes, count)
    BY <2>1 DEF Together, Knows
  <2> HIDE DEF nodes, count
  <2>7. /\ next = Successor(cli.arg, cli.pos, NodeNum, CpuCount(cli.pos))
        /\ Knows(next, nodes, count)
    BY <1>1, <2>1, <2>3, <2>5, <2>6, SameSuccessor
  <2>8. next \in Position
    BY <1>1, <2>5, SuccessorType
  <2> HIDE DEF next
  <2>9. /\ cli'.pos = next /\ cli'.arg = cli.arg /\ cli'.nodes = nodes /\ cli'.count = count
        /\ cli'.pc = IF next.op = "done" THEN "exit" ELSE "send"
    BY <2>4 DEF ClientAt
  <2>10. ErrorFree'
    BY <2>4 DEF Together, ErrorFree
  <2> QED BY <2>1, <2>4, <2>7, <2>8, <2>9, <2>10, CatchesUp
<1>7. ASSUME NEW op \in {"start", "finish"}, NEW good \in {"start", "finish"}, NEW bad, NEW then,
             ClientChecked(op, good, bad, then),
             then.pos = ClientNext, then.arg = cli.arg,
             then.nodes = cli.nodes, then.count = cli.count,
             \/ then.pc = IF ClientNext.op = "done" THEN "exit" ELSE "send"
             \/ then.pc = "wrk" /\ ClientNext.op = "finish"
      PROVE  Together' /\ srv' = srv /\ cli'.arg = cli.arg
  <2>1. Ahead /\ cli.pos.op = op
    BY <1>5, <1>7 DEF ClientChecked
  <2>2. inbox["client"].pos = cli.pos
    BY <2>1 DEF Ahead, Reply, Text
  <2>3. cli' = then /\ result' = Append(result, Entry(good, cli.pos, {})) /\ srv' = srv
        /\ inbox' = [inbox EXCEPT !["client"] = NoMessage]
    BY <1>7, <2>2, ContainsSelf DEF ClientChecked
  <2>4. Entry(good, cli.pos, {}) \in Line /\ Entry(good, cli.pos, {}).kind = good
    BY <1>1, EntryType DEF Entry
  <2>5. ErrorFree'
    BY <2>3, <2>4, ErrorFreeAppend DEF Together
  <2>6. Knows(cli.pos, cli.nodes, cli.count)
    BY DEF Together
  <2>7. /\ ClientNext = Successor(cli.arg, cli.pos, NodeNum, CpuCount(cli.pos))
        /\ Knows(ClientNext, cli.nodes, cli.count)
    BY <1>1, <2>1, <2>6, SameSuccessor DEF ClientNext
  <2>8. ClientNext \in Position
    BY <1>1, SuccessorType DEF ClientNext
  <2> QED BY <1>7, <2>1, <2>3, <2>5, <2>7, <2>8, CatchesUp
<1>8. CASE ClientStarted
  <2>1. ClientNext = SameTest(cli.pos) /\ SameTest(cli.pos).op = "finish"
    <3>1. cli.pos.op = "start"
      BY <1>8 DEF ClientStarted, ClientChecked
    <3>2. SameTest(cli.pos).op = "finish"
      BY <1>1 DEF SameTest, Position
    <3> QED BY <1>1, <3>1, <3>2, SuccessorType DEF ClientNext
  <2> DEFINE then == [cli EXCEPT !.pc = "wrk", !.pos = ClientNext]
  <2>2. /\ then.pos = ClientNext /\ then.arg = cli.arg /\ then.pc = "wrk"
        /\ then.nodes = cli.nodes /\ then.count = cli.count
    BY DEF TypeOK
  <2>3. ClientChecked("start", "start", "starterror", then)
    BY <1>8 DEF ClientStarted
  <2> HIDE DEF then
  <2> QED BY <1>7, <2>1, <2>2, <2>3
<1>9. CASE ClientFinished
  <2> DEFINE then == ClientAt(cli.arg, ClientNext, cli.nodes, cli.count)
  <2>1. /\ then.pos = ClientNext /\ then.arg = cli.arg
        /\ then.nodes = cli.nodes /\ then.count = cli.count
        /\ then.pc = IF ClientNext.op = "done" THEN "exit" ELSE "send"
    BY DEF ClientAt
  <2>2. ClientChecked("finish", "finish", "finisherror", then)
    BY <1>9 DEF ClientFinished
  <2> HIDE DEF then
  <2> QED BY <1>7, <2>1, <2>2
<1> QED BY <1>2, <1>3, <1>4, <1>6, <1>8, <1>9

(* A pair of which one script has not been started stays so until it is.     *)
LEMMA AloneStep ==
    ASSUME TypeOK, Alone, used["serverlaunch"] = 0 \/ used["clientlaunch"] = 0,
           \A k \in {"serverlaunch", "clientlaunch", "kill", "loss"} : used'[k] = used[k],
           [Next]_vars
    PROVE  Alone'
<1>1. CASE StopNginx \/ StopNginxFails \/ StartNginx \/ StartNginxFails
  <2>1. /\ srv.pc \in {"configure", "restart"} /\ srv'.pc \in {"restart", "listen"}
        /\ srv'.pos = srv.pos /\ srv'.arg = srv.arg /\ UNCHANGED <<cli, inbox, result>>
    BY <1>1 DEF StopNginx, StopNginxFails, StartNginx, StartNginxFails, Reconfigure,
                Restarted, TypeOK
  <2> QED BY <2>1 DEF Alone, NothingSent
<1>2. CASE UNCHANGED vars
  BY <1>2 DEF vars, Alone, NothingSent
<1>3. used["serverlaunch"] = 0 => srv.pc = "off"
  BY DEF Alone
<1>4. used["clientlaunch"] = 0 => cli.pc = "off"
  BY DEF Alone
<1>5. ~ServerReceive /\ ~ClientSend
  BY <1>3, <1>4 DEF Alone, NothingSent, ServerReceive, ClientSend, ClientAsked, Accepting
<1>6. \A k \in {"serverlaunch", "clientlaunch", "kill", "loss"} : ~Spend(k)
  BY DEF Spend, TypeOK, FaultKinds
<1>7. srv.pc # "reply" /\ cli.pc \in {"off", "send"}
  BY DEF Alone, TypeOK
<1> QED
  BY <1>1, <1>2, <1>5, <1>6, <1>7
     DEF Next, ServerStep, ClientStep, Fault, Terminated, ServerLaunch, ClientLaunch,
         ServerReply, ServerReplyLost, ServerAdvance, ServerKilled, ClientSendLost,
         ClientAnswered, ClientStarted, ClientFinished, ClientChecked, WrkRun, WrkFails,
         WrkEnds, ClientKilled

(* Where a script that is started begins.                                    *)
LEMMA LaunchPlaces ==
    ASSUME NEW arg \in Args
    PROVE  /\ ServerAt(arg, First(arg)).pc \in {"configure", "listen"}
           /\ ServerAt(arg, First(arg)).pos = First(arg) /\ ServerAt(arg, First(arg)).arg = arg
           /\ ClientAt(arg, First(arg), 0, 0).pc = "send"
           /\ ClientAt(arg, First(arg), 0, 0).pos = First(arg)
           /\ ClientAt(arg, First(arg), 0, 0).arg = arg
           /\ \A nodes, count : Knows(First(arg), nodes, count)
<1>1. First(arg) \in Position /\ First(arg).op \in {"conf", "start"}
  BY FirstType
<1>2. \A nodes, count : Knows(First(arg), nodes, count)
  BY KnowsPhaseStart DEF First, Args, Phases, Sockets
<1> QED BY <1>1, <1>2 DEF ServerAt, ClientAt

(* Starting nginx.sh keeps the pairing.                                      *)
LEMMA PairedServerLaunch ==
    ASSUME TypeOK, Paired, NEW arg \in ServerArgs, ServerLaunch(arg)
    PROVE  Paired'
<1>1. /\ arg \in Args /\ used \in [FaultKinds -> Nat]
      /\ used'["serverlaunch"] = used["serverlaunch"] + 1
      /\ \A k \in FaultKinds \ {"serverlaunch"} : used'[k] = used[k]
      /\ \A k \in FaultKinds : used[k] \in Nat
  BY ArgsAssumption DEF ServerLaunch, Spend, FaultKinds, TypeOK
<1>2. srv' = ServerAt(arg, First(arg)) /\ UNCHANGED <<cli, inbox, result>>
  BY DEF ServerLaunch
<1>3. ASSUME used["kill"] = 0, used["loss"] = 0, used["serverlaunch"] = 0,
             used["clientlaunch"] <= 1
      PROVE  Alone
  BY <1>1, <1>3 DEF Paired, FaultKinds
<1>4. ASSUME used'["kill"] = 0, used'["loss"] = 0, used'["serverlaunch"] <= 1,
             used'["clientlaunch"] = 0
      PROVE  Alone'
  <2>1. used["serverlaunch"] = 0 /\ used["clientlaunch"] = 0 /\ Alone
    BY <1>1, <1>3, <1>4 DEF FaultKinds
  <2>2. used'["serverlaunch"] = 1
    BY <1>1, <2>1
  <2> QED BY <1>1, <1>2, <1>4, <2>1, <2>2, LaunchPlaces DEF Alone, NothingSent
<1>5. ASSUME used'["kill"] = 0, used'["loss"] = 0, OrderlyPair' PROVE Together'
  <2>1. used["serverlaunch"] = 0 /\ used["clientlaunch"] = 1 /\ Alone /\ srv'.arg = cli.arg
    BY <1>1, <1>2, <1>3, <1>5 DEF OrderlyPair, FaultKinds
  <2>2. cli.pos = First(cli.arg) /\ cli.pc = "send" /\ NothingSent /\ result = <<>>
    BY <2>1 DEF Alone
  <2>3. srv'.arg = arg /\ srv'.pos = cli.pos /\ srv'.pc \in {"configure", "listen"}
    BY <1>1, <1>2, <2>1, <2>2, LaunchPlaces
  <2>4. Knows(cli.pos, cli.nodes, cli.count)
    BY <1>1, <2>1, <2>2, <2>3, LaunchPlaces
  <2> QED BY <1>2, <2>2, <2>3, <2>4 DEF Together, Abreast, ErrorFree, NothingSent
<1>6. ~(used'["serverlaunch"] = 0)
  BY <1>1 DEF FaultKinds
<1> QED BY <1>4, <1>5, <1>6 DEF Paired

(* Starting wrk.sh keeps the pairing.                                        *)
LEMMA PairedClientLaunch ==
    ASSUME TypeOK, Paired, NEW arg \in ClientArgs, ClientLaunch(arg)
    PROVE  Paired'
<1>1. /\ arg \in Args /\ used \in [FaultKinds -> Nat]
      /\ used'["clientlaunch"] = used["clientlaunch"] + 1
      /\ \A k \in FaultKinds \ {"clientlaunch"} : used'[k] = used[k]
      /\ \A k \in FaultKinds : used[k] \in Nat
  BY ArgsAssumption DEF ClientLaunch, Spend, FaultKinds, TypeOK
<1>2. /\ cli' = ClientAt(arg, First(arg), 0, 0) /\ UNCHANGED <<srv, inbox>>
      /\ result = <<>> => result' = <<>>
  BY DEF ClientLaunch
<1>3. ASSUME used["kill"] = 0, used["loss"] = 0, used["clientlaunch"] = 0,
             used["serverlaunch"] <= 1
      PROVE  Alone
  BY <1>1, <1>3 DEF Paired, FaultKinds
<1>4. ASSUME used'["kill"] = 0, used'["loss"] = 0, used'["clientlaunch"] <= 1,
             used'["serverlaunch"] = 0
      PROVE  Alone'
  <2>1. used["clientlaunch"] = 0 /\ used["serverlaunch"] = 0 /\ Alone
    BY <1>1, <1>3, <1>4 DEF FaultKinds
  <2>2. used'["clientlaunch"] = 1
    BY <1>1, <2>1
  <2> QED BY <1>1, <1>2, <1>4, <2>1, <2>2, LaunchPlaces DEF Alone, NothingSent
<1>5. ASSUME used'["kill"] = 0, used'["loss"] = 0, OrderlyPair' PROVE Together'
  <2>1. used["clientlaunch"] = 0 /\ used["serverlaunch"] = 1 /\ Alone /\ srv.arg = arg
    BY <1>1, <1>2, <1>3, <1>5, LaunchPlaces DEF OrderlyPair, FaultKinds
  <2>2. /\ srv.pos = First(srv.arg) /\ srv.pc \in {"configure", "restart", "listen"}
        /\ NothingSent /\ result' = <<>>
    BY <1>2, <2>1 DEF Alone
  <2>3. cli'.pos = srv.pos /\ cli'.pc = "send" /\ Knows(cli'.pos, cli'.nodes, cli'.count)
    BY <1>1, <1>2, <2>1, <2>2, LaunchPlaces
  <2> QED BY <1>2, <2>2, <2>3 DEF Together, Abreast, ErrorFree, NothingSent
<1>6. ~(used'["clientlaunch"] = 0)
  BY <1>1 DEF FaultKinds
<1> QED BY <1>4, <1>5, <1>6 DEF Paired

(* Every step keeps the pairing.                                             *)
LEMMA PairedStep ==
    ASSUME TypeOK, Lockstep, Paired, [Next]_vars
    PROVE  Paired'
<1>1. CASE ServerKilled \/ ClientKilled \/ ServerReplyLost \/ ClientSendLost
  <2>1. used'["kill"] # 0 \/ used'["loss"] # 0
    BY <1>1, SpendType
       DEF ServerKilled, ClientKilled, ServerReplyLost, ClientSendLost, FaultKinds, TypeOK
  <2> QED BY <2>1 DEF Paired
<1>2. ASSUME \A k \in {"serverlaunch", "clientlaunch", "kill", "loss"} : used'[k] = used[k],
             OrderlyPair' => OrderlyPair,
             OrderlyPair => Together'
      PROVE  Paired'
  <2>1. ASSUME used["kill"] = 0, used["loss"] = 0,
               used["serverlaunch"] <= 1, used["clientlaunch"] <= 1,
               used["serverlaunch"] = 0 \/ used["clientlaunch"] = 0
        PROVE  Alone'
    BY <1>2, <2>1, AloneStep DEF Paired
  <2> QED BY <1>2, <2>1 DEF Paired
<1>3. CASE StopNginx \/ StopNginxFails \/ StartNginx \/ StartNginxFails
           \/ ServerReceive \/ ServerReply
  <2>1. \A k \in {"serverlaunch", "clientlaunch", "kill", "loss"} : used'[k] = used[k]
    BY <1>3 DEF StopNginx, StopNginxFails, StartNginx, StartNginxFails, ServerReceive,
                ServerReply, Spend, TypeOK, FaultKinds
  <2>2. srv'.arg = srv.arg /\ cli' = cli
    BY <1>3 DEF StopNginx, StopNginxFails, StartNginx, StartNginxFails, ServerReceive,
                ServerReply, Reconfigure, Restarted, ServerAdvance, ServerAt, TypeOK
  <2>3. OrderlyPair' => OrderlyPair
    BY <2>1, <2>2 DEF OrderlyPair
  <2>4. OrderlyPair => Together'
    BY <1>3, TogetherServer DEF Paired, OrderlyPair
  <2> QED BY <1>2, <2>1, <2>3, <2>4
<1>4. CASE ClientSend \/ ClientAnswered \/ ClientStarted \/ ClientFinished
           \/ WrkRun \/ WrkFails \/ WrkEnds
  <2>1. used' = used /\ srv' = srv
    BY <1>4 DEF ClientSend, ClientAsked, ClientAnswered, ClientStarted, ClientFinished,
                ClientChecked, WrkRun, WrkFails, WrkEnds
  <2>2. cli'.arg = cli.arg
    <3>1. CASE ClientAnswered
      BY <3>1 DEF ClientAnswered, ClientAt
    <3>2. CASE ClientStarted \/ ClientFinished
      <4>1. \/ cli' = [cli EXCEPT !.pc = "exit"]
            \/ cli' = [cli EXCEPT !.pc = "wrk", !.pos = ClientNext]
            \/ cli' = ClientAt(cli.arg, ClientNext, cli.nodes, cli.count)
        BY <3>2 DEF ClientStarted, ClientFinished, ClientChecked
      <4>2. ClientAt(cli.arg, ClientNext, cli.nodes, cli.count).arg = cli.arg
        BY DEF ClientAt
      <4>3. /\ [cli EXCEPT !.pc = "exit"].arg = cli.arg
            /\ [cli EXCEPT !.pc = "wrk", !.pos = ClientNext].arg = cli.arg
        BY DEF TypeOK
      <4> QED BY <4>1, <4>2, <4>3
    <3>3. CASE ClientSend \/ WrkRun \/ WrkFails \/ WrkEnds
      BY <3>3 DEF ClientSend, ClientAsked, WrkRun, WrkFails, WrkEnds, TypeOK
    <3> QED BY <1>4, <3>1, <3>2, <3>3
  <2>3. OrderlyPair' => OrderlyPair
    BY <2>1, <2>2 DEF OrderlyPair
  <2>4. OrderlyPair => Together'
    BY <1>4, TogetherClient DEF Paired, OrderlyPair
  <2> QED BY <1>2, <2>1, <2>3, <2>4
<1>5. CASE UNCHANGED vars
  BY <1>5 DEF vars, Paired, OrderlyPair, Together, Abreast, Ahead, ErrorFree, Alone, NothingSent
<1> QED
  BY <1>1, <1>3, <1>4, <1>5, PairedServerLaunch, PairedClientLaunch
     DEF Next, ServerStep, ClientStep, Fault, Terminated

(* A pair started once each with the same argument takes none of the "is     *)
(* error" exits, on any topology and plan, as long as nothing is lost or     *)
(* killed: the texts, the two copies of the loops and the numbers sent       *)
(* across agree all the way.                                                 *)
THEOREM NoErrorHolds == Spec => []NoErrorExit
<1>1. Init => Paired
  BY DEF Init, Paired, Alone, OrderlyPair, NothingSent, Hosts, FaultKinds
<1>2. TypeOK /\ Lockstep /\ Paired /\ [Next]_vars => Paired'
  BY PairedStep
<1>3. TypeOK /\ Paired => NoErrorExit
  BY TogetherNoError
<1> QED BY <1>1, <1>2, <1>3, TypeCorrect, LockstepHolds, PTL DEF Spec

HIDE DEF InSession, Gone, Fresh

-----------------------------------------------------------------------------
(* Where the two scripts are, through kills, restarts and losses             *)

(* The handshakes of the plan, with the fields each leaves empty.            *)
Regular(p) ==
    /\ WellFormed(p)
    /\ p.op = "conf" =>
          /\ p.core = 0
          /\ p.node = -1 => p.mode = 0
          /\ p.node # -1 => p.ph = "node" /\ p.mode > 0
    /\ p.op \in {"start", "finish"} => p.mode > 0
    /\ p.op \in {"start", "finish"} /\ p.ph # "server" => p.core > 0
    /\ p.op \in {"start", "finish"} /\ p.ph = "server" => p.core = 0 /\ p.node = -1

(* The handshake that nothing but the answer to Conf(ph) leads to.           *)
Opening(ph) == IF ph \in Sockets THEN StartOf(ph, 1, -1, 1) ELSE NodeConf(1, 0)

Live == cli.pc \in {"send", "await", "wrk", "running"}
Up == srv.pc \notin {"off", "exit"}

(* nginx.sh has had no text since it was started.                            *)
Anew == srv.pos = First(srv.arg)

(* wrk.sh took the reply to a question of its dead predecessor for its own:  *)
(* nobody will ever answer it.                                               *)
Misled ==
    /\ cli.pc \in {"send", "await"} /\ inbox["client"] = NoMessage
    /\ First(cli.arg).op = "conf" /\ First(cli.arg).ph # "stats"
    /\ cli.pos = Opening(First(cli.arg).ph)
    /\ Up => srv.pos # cli.pos

(* The scripts are at the same handshake, or the one that was started last   *)
(* is at its first, or the client waits for a reply nobody will send.        *)
Level ==
    \/ srv.pos = cli.pos \/ Anew
    \/ cli.pc = "await" /\ inbox["server"] = NoMessage /\ srv.pc # "reply"

(* The reply on its way to wrk.sh is the reply to its text; or wrk.sh has    *)
(* just been started, and nginx.sh is not where an answer would have left it,*)
(* or the reply is not the one wrk.sh accepts.                               *)
ReplyOK ==
    \/ /\ inbox["client"] = Reply(cli.pos)
       /\ Up => Anew \/ srv.pos = Successor(srv.arg, cli.pos, NodeNum, CpuCount(cli.pos))
    \/ Fresh /\ cli.pos.op = "conf" /\ (Up /\ cli.pos.ph # "stats" => srv.pos # Opening(cli.pos.ph))
    \/ Fresh /\ cli.pos.op = "start" /\ ~Contains(inbox["client"].pos, cli.pos)

LinedUp ==
    /\ Regular(srv.pos) /\ Regular(cli.pos)
    /\ cli.arg = "stats" => cli.pos \in {Conf("stats"), Done}
    /\ Live => Knows(cli.pos, cli.nodes, cli.count) \/ Misled
    /\ Live /\ ~Fresh /\ ~Misled /\ inbox["client"] = NoMessage /\ Up => Level
    /\ inbox["client"] # NoMessage => ReplyOK

-----------------------------------------------------------------------------
(* The order of the report                                                   *)

(* The test wrk.sh is in or comes to next.                                   *)
Coming == Report!TestFrom(cli.arg,
              IF cli.pos.op = "finish" THEN [cli.pos EXCEPT !.op = "start"] ELSE cli.pos)

InOrder == Live /\ cli.arg # "stats" => Report!NextTest = Coming

-----------------------------------------------------------------------------
(* One test per failed stop                                                  *)

(* nginx runs with a configuration that is not that of the server's test.    *)
Tainted ==
    /\ srv.pc \in {"restart", "listen", "reply"} /\ srv.pos.op \in {"start", "finish"}
    /\ nginx \notin {ConfFor(srv.pos), Down}

(* A test measured on it is over, but for the reply to wrk.sh.               *)
Pending ==
    /\ cli.pos.op = "finish" /\ inbox["client"] # NoMessage
    /\ LastLine.on \notin Report!Measured(cli.pos)

(* What wrk.sh has measured in a session is the nginx of the session.        *)
MeasuredOK ==
    /\ \A i \in DOMAIN result : result[i].kind = "finish" => i > 1
    /\ cli.pc = "running" /\ InSession(cli.pos) => nginx # Down /\ seen = {nginx}
    /\ cli.pc \in {"wrk", "running"} => result # <<>> /\ LastLine.on = {}
    /\ cli.pos.op = "finish" /\ cli.pc \in {"send", "await"} => result # <<>>
    /\ cli.pos.op = "finish" /\ cli.pc \in {"send", "await"} /\ inbox["client"] = NoMessage
       /\ InSession(cli.pos) =>
          \/ nginx # Down /\ LastLine.on = {nginx}
          \/ cli.pos.ph = "server" /\ LastLine.on = {}

SpoiledLines == Report!Spoiled(Reported)

One(b) == IF b THEN 1 ELSE 0

Accounted == Cardinality(SpoiledLines) + One(Tainted) + One(Pending) <= used["stop"]

IInv == LinedUp /\ InOrder /\ MeasuredOK /\ Accounted

-----------------------------------------------------------------------------
(* The plan                                                                  *)

(* A phase begins with a handshake of the plan.                              *)
LEMMA RegularStart ==
    ASSUME NEW ph \in Phases
    PROVE  Regular(PhaseStart(ph))
BY DEF Regular, WellFormed, PhaseStart, StartOf, Conf, At, Phases, Sockets

(* So does a script.                                                         *)
LEMMA RegularFirst ==
    ASSUME NEW arg \in Args
    PROVE  Regular(First(arg))
BY RegularStart DEF First, Args, Phases, Sockets

(* After a phase comes the next one's first handshake, or nothing; and       *)
(* nothing for a script that was asked for one phase.                        *)
LEMMA PhaseAfterIs ==
    ASSUME NEW arg, NEW ph
    PROVE  /\ \/ PhaseAfter(arg, ph) = Done
              \/ \E q \in {"socketr", "node", "server", "stats"} : PhaseAfter(arg, ph) = PhaseStart(q)
           /\ arg # "all" => PhaseAfter(arg, ph) = Done
BY DEF PhaseAfter

(* What comes after a phase is a handshake of the plan, or the end.          *)
LEMMA RegularAfter ==
    ASSUME NEW arg, NEW ph
    PROVE  Regular(PhaseAfter(arg, ph))
<1>1. Regular(Done)
  BY DEF Regular, WellFormed, Done, At
<1>2. \A q \in {"socketr", "node", "server", "stats"} : Regular(PhaseStart(q))
  BY RegularStart DEF Phases, Sockets
<1> QED BY <1>1, <1>2, PhaseAfterIs

(* The loops, handshake by handshake.                                        *)
LEMMA SuccessorIs ==
    ASSUME NEW arg, NEW p \in Position, NEW n \in Int, NEW c \in Int, Regular(p)
    PROVE  LET next == Successor(arg, p, n, c) IN
           /\ p.op = "conf" /\ p.ph \in Sockets => next = StartOf(p.ph, 1, -1, 1)
           /\ p.op = "conf" /\ p.ph = "node" /\ p.node = -1 =>
                 next = IF n > 0 THEN NodeConf(1, 0) ELSE PhaseAfter(arg, "node")
           /\ p.op = "conf" /\ p.ph = "node" /\ p.node # -1 =>
                 next = StartOf("node", p.mode, p.node, 1)
           /\ p.op = "conf" /\ p.ph = "stats" => next = Done
           /\ p.op = "start" => next = SameTest(p)
           /\ p.op = "finish" /\ p.ph \in Sockets =>
                 next \in {StartOf(p.ph, p.mode, p.node, 2 * p.core),
                           StartOf(p.ph, p.mode + 1, -1, 1), PhaseAfter(arg, p.ph)}
           /\ p.op = "finish" /\ p.ph = "node" =>
                 next \in {StartOf(p.ph, p.mode, p.node, 2 * p.core), NodeConf(p.mode, p.node + 1),
                           NodeConf(p.mode + 1, 0), PhaseAfter(arg, "node")}
           /\ p.op = "finish" /\ p.ph = "server" =>
                 next \in {StartOf("server", p.mode + 1, -1, 0), PhaseAfter(arg, "server")}
           /\ p.op = "done" => next = PhaseAfter(arg, "none")
<1> DEFINE A == PhaseAfter(arg, "node")
           B == PhaseAfter(arg, p.ph)
           N == CASE p.node + 1 < n -> NodeConf(p.mode, p.node + 1)
                  [] p.node + 1 >= n /\ p.mode < NumModes -> NodeConf(p.mode + 1, 0)
                  [] OTHER -> A
           M == CASE p.ph = "node" -> N
                  [] p.ph \in Sockets /\ p.mode < NumModes -> StartOf(p.ph, p.mode + 1, -1, 1)
                  [] p.ph = "server" /\ p.mode < NumModes -> StartOf("server", p.mode + 1, -1, 0)
                  [] OTHER -> B
           S == CASE p.op = "conf" /\ p.ph \in Sockets -> StartOf(p.ph, 1, -1, 1)
                  [] p.op = "conf" /\ p.ph = "node" /\ p.node = -1 ->
                       IF n > 0 THEN NodeConf(1, 0) ELSE A
                  [] p.op = "conf" /\ p.ph = "node" /\ p.node # -1 ->
                       StartOf("node", p.mode, p.node, 1)
                  [] p.op = "conf" /\ p.ph = "stats" -> Done
                  [] p.op = "start" -> [p EXCEPT !.op = "finish"]
                  [] p.op = "finish" /\ p.ph # "server" /\ p.core <= c /\ Tested(c, 2 * p.core) ->
                       StartOf(p.ph, p.mode, p.node, 2 * p.core)
                  [] OTHER -> M
<1>1. Successor(arg, p, n, c) = S
  BY DEF Successor, ModeAfter, NodeAfter
<1> HIDE DEF A, B
<1>2. CASE p.op = "conf"
  BY <1>1, <1>2 DEF Sockets, A
<1>3. CASE p.op = "start"
  BY <1>1, <1>3 DEF SameTest
<1>4. CASE p.op = "finish" /\ p.ph \in Sockets
  BY <1>1, <1>4 DEF Sockets, B
<1>5. CASE p.op = "finish" /\ p.ph = "node"
  BY <1>1, <1>5 DEF Sockets, A
<1>6. CASE p.op = "finish" /\ p.ph = "server"
  BY <1>1, <1>6 DEF Sockets, B
<1>7. CASE p.op = "done"
  <2>1. p.ph = "none"
    BY <1>7 DEF Regular, WellFormed, Done, At
  <2> QED BY <1>1, <1>7, <2>1 DEF Sockets, B
<1>8. /\ p.op \in {"conf", "start", "finish", "done"}
      /\ p.op = "finish" => p.ph \in Sockets \cup {"node", "server"}
  BY DEF Position, Regular, WellFormed
<1> QED BY <1>2, <1>3, <1>4, <1>5, <1>6, <1>7, <1>8 DEF Sockets

(* The loops lead from handshake to handshake of the plan, whatever numbers  *)
(* a script works with.                                                      *)
LEMMA RegularSuccessor ==
    ASSUME NEW arg \in Args, NEW p \in Position, NEW n \in Int, NEW c \in Int, Regular(p)
    PROVE  Regular(Successor(arg, p, n, c))
<1> DEFINE next == Successor(arg, p, n, c)
<1> SUFFICES Regular(next)
  OBVIOUS
<1> HIDE DEF next
<1>1. /\ p.mode \in Nat /\ p.node \in Nat \cup {-1} /\ p.core \in Nat
      /\ p.op \in {"conf", "start", "finish", "done"}
  BY DEF Position
<1>2. Regular(Done)
  BY DEF Regular, WellFormed, Done, At
<1>3. CASE p.op = "conf" /\ p.ph \in Sockets
  <2>1. next = StartOf(p.ph, 1, -1, 1)
    BY <1>3, SuccessorIs DEF next
  <2> QED BY <1>3, <2>1 DEF Regular, WellFormed, StartOf, At, Sockets
<1>4. CASE p.op = "conf" /\ p.ph = "node" /\ p.node = -1
  <2>1. next \in {NodeConf(1, 0), PhaseAfter(arg, "node")}
    BY <1>4, SuccessorIs DEF next
  <2>2. Regular(NodeConf(1, 0))
    BY DEF Regular, WellFormed, NodeConf, At
  <2> QED BY <2>1, <2>2, RegularAfter
<1>5. CASE p.op = "conf" /\ p.ph = "node" /\ p.node # -1
  <2>1. next = StartOf("node", p.mode, p.node, 1)
    BY <1>5, SuccessorIs DEF next
  <2> QED BY <1>1, <1>5, <2>1 DEF Regular, WellFormed, StartOf, At, Sockets
<1>6. CASE p.op = "conf" /\ p.ph = "stats"
  BY <1>2, <1>6, SuccessorIs DEF next
<1>7. CASE p.op = "start"
  <2>1. next = SameTest(p)
    BY <1>7, SuccessorIs DEF next
  <2> QED BY <1>1, <1>7, <2>1 DEF Regular, WellFormed, SameTest, Position
<1>8. CASE p.op = "finish" /\ p.ph \in Sockets
  <2>1. next \in {StartOf(p.ph, p.mode, p.node, 2 * p.core),
                  StartOf(p.ph, p.mode + 1, -1, 1), PhaseAfter(arg, p.ph)}
    BY <1>8, SuccessorIs DEF next
  <2>2. /\ Regular(StartOf(p.ph, p.mode, p.node, 2 * p.core))
        /\ Regular(StartOf(p.ph, p.mode + 1, -1, 1))
    BY <1>1, <1>8 DEF Regular, WellFormed, StartOf, At, Sockets
  <2> QED BY <2>1, <2>2, RegularAfter
<1>9. CASE p.op = "finish" /\ p.ph = "node"
  <2>1. next \in {StartOf(p.ph, p.mode, p.node, 2 * p.core), NodeConf(p.mode, p.node + 1),
                  NodeConf(p.mode + 1, 0), PhaseAfter(arg, "node")}
    BY <1>9, SuccessorIs DEF next
  <2>2. p.node \in Nat /\ p.mode > 0 /\ p.core > 0
    BY <1>1, <1>9 DEF Regular, WellFormed
  <2>3. /\ Regular(StartOf(p.ph, p.mode, p.node, 2 * p.core))
        /\ Regular(NodeConf(p.mode, p.node + 1)) /\ Regular(NodeConf(p.mode + 1, 0))
    BY <1>1, <1>9, <2>2 DEF Regular, WellFormed, StartOf, NodeConf, At, Sockets
  <2> QED BY <2>1, <2>3, RegularAfter
<1>10. CASE p.op = "finish" /\ p.ph = "server"
  <2>1. next \in {StartOf("server", p.mode + 1, -1, 0), PhaseAfter(arg, "server")}
    BY <1>10, SuccessorIs DEF next
  <2>2. Regular(StartOf("server", p.mode + 1, -1, 0))
    BY <1>1 DEF Regular, WellFormed, StartOf, At, Sockets
  <2> QED BY <2>1, <2>2, RegularAfter
<1>11. CASE p.op = "done"
  <2>1. next = PhaseAfter(arg, "none")
    BY <1>11, SuccessorIs DEF next
  <2> QED BY <2>1, RegularAfter
<1> QED BY <1>1, <1>3, <1>4, <1>5, <1>6, <1>7, <1>8, <1>9, <1>10, <1>11 DEF Regular, WellFormed

(* Only the answer to the first question of a phase leads to its opening.    *)
LEMMA OpeningAfterConf ==
    ASSUME NEW arg \in Args, NEW p \in Position, NEW n \in Int, NEW c \in Int, Regular(p),
           NEW ph \in Sockets \cup {"node"}, Successor(arg, p, n, c) = Opening(ph)
    PROVE  p = Conf(ph)
<1> DEFINE next == Successor(arg, p, n, c)
<1>1. /\ p.mode \in Nat /\ p.node \in Nat \cup {-1} /\ p.core \in Nat
      /\ p.op \in {"conf", "start", "finish", "done"}
      /\ p.op = "finish" => p.ph \in Sockets \cup {"node", "server"}
      /\ p.op = "conf" => p.ph \in Sockets \cup {"node", "stats"}
  BY DEF Position, Regular, WellFormed
<1>2. /\ next = Opening(ph)
      /\ Opening(ph).mode = 1 /\ Opening(ph).ph = ph
      /\ Opening(ph).op = IF ph \in Sockets THEN "start" ELSE "conf"
      /\ Opening(ph).node = IF ph \in Sockets THEN -1 ELSE 0
      /\ Opening(ph).core = IF ph \in Sockets THEN 1 ELSE 0
  BY DEF Opening, StartOf, NodeConf, At, Sockets
<1> HIDE DEF next
<1>3. ASSUME NEW q, NEW a PROVE next # PhaseAfter(a, q)
  <2>1. Done.mode = 0
    BY DEF Done, At
  <2>2. \A r \in {"socketr", "node", "server", "stats"} :
           PhaseStart(r).mode = 0 \/ PhaseStart(r).ph = "server"
    BY DEF PhaseStart, Conf, StartOf, At
  <2> QED BY <1>2, <2>1, <2>2, PhaseAfterIs DEF Sockets
<1>4. CASE p.op = "conf" /\ p.ph \in Sockets
  <2>1. next = StartOf(p.ph, 1, -1, 1)
    BY <1>4, SuccessorIs DEF next
  <2>2. p.ph = ph
    BY <1>2, <2>1 DEF StartOf, At
  <2>3. p.node = -1 /\ p.mode = 0 /\ p.core = 0
    BY <1>1, <1>4 DEF Regular, Sockets
  <2> QED BY <1>4, <2>2, <2>3 DEF Conf, At, Position
<1>5. CASE p.op = "conf" /\ p.ph = "node" /\ p.node = -1
  <2>1. next \in {NodeConf(1, 0), PhaseAfter(arg, "node")}
    BY <1>5, SuccessorIs DEF next
  <2>4. next = NodeConf(1, 0)
    BY <1>3, <2>1
  <2>2. ph = "node"
    BY <1>2, <2>4 DEF NodeConf, At
  <2>3. p.mode = 0 /\ p.core = 0
    BY <1>1, <1>5 DEF Regular
  <2> QED BY <1>5, <2>2, <2>3 DEF Conf, At, Position
<1>6. CASE p.op = "conf" /\ p.ph = "node" /\ p.node # -1
  <2>1. next = StartOf("node", p.mode, p.node, 1)
    BY <1>6, SuccessorIs DEF next
  <2> QED BY <1>2, <2>1 DEF StartOf, At, Sockets
<1>7. CASE p.op = "conf" /\ p.ph = "stats"
  <2>1. next = Done
    BY <1>7, SuccessorIs DEF next
  <2> QED BY <1>2, <2>1 DEF Done, At
<1>8. CASE p.op = "start"
  <2>1. next = SameTest(p)
    BY <1>8, SuccessorIs DEF next
  <2> QED BY <1>2, <2>1 DEF SameTest, Position
<1>9. CASE p.op = "finish" /\ p.ph \in Sockets
  <2>1. next \in {StartOf(p.ph, p.mode, p.node, 2 * p.core), StartOf(p.ph, p.mode + 1, -1, 1)}
    BY <1>3, <1>9, SuccessorIs DEF next
  <2>2. p.mode > 0 /\ p.core > 0
    BY <1>9 DEF Regular, Sockets
  <2>3. p.mode + 1 # 1 /\ 2 * p.core # 1 /\ 2 * p.core # 0
    BY <1>1, <2>2
  <2> QED BY <1>2, <2>1, <2>3 DEF StartOf, At
<1>10. CASE p.op = "finish" /\ p.ph = "node"
  <2>1. next \in {StartOf(p.ph, p.mode, p.node, 2 * p.core), NodeConf(p.mode, p.node + 1),
                  NodeConf(p.mode + 1, 0)}
    BY <1>3, <1>10, SuccessorIs DEF next
  <2>2. p.node \in Nat /\ p.mode > 0 /\ p.core > 0
    BY <1>1, <1>10 DEF Regular, WellFormed
  <2>3. p.mode + 1 # 1 /\ 2 * p.core # 1 /\ 2 * p.core # 0 /\ p.node + 1 # 0 /\ p.node + 1 # -1
    BY <1>1, <2>2
  <2> QED BY <1>2, <2>1, <2>3 DEF StartOf, NodeConf, At
<1>11. CASE p.op = "finish" /\ p.ph = "server"
  <2>1. next \in {StartOf("server", p.mode + 1, -1, 0), PhaseAfter(arg, "server")}
    BY <1>11, SuccessorIs DEF next
  <2>2. next = StartOf("server", p.mode + 1, -1, 0)
    BY <1>3, <2>1
  <2> QED BY <1>2, <2>2 DEF StartOf, At, Sockets
<1>12. CASE p.op = "done"
  <2>1. next = PhaseAfter(arg, "none")
    BY <1>12, SuccessorIs DEF next
  <2> QED BY <1>3, <2>1
<1> QED BY <1>1, <1>4, <1>5, <1>6, <1>7, <1>8, <1>9, <1>10, <1>11, <1>12

(* Two scripts with different arguments go on to the same handshake, or one  *)
(* of them has come to its end.                                              *)
LEMMA OtherArgument ==
    ASSUME NEW a, NEW b, NEW p \in Position, NEW n \in Int, NEW c \in Int, a # "all"
    PROVE  Successor(a, p, n, c) \in {Successor(b, p, n, c), Done}
<1>1. PhaseAfter(a, "node") = Done /\ PhaseAfter(a, p.ph) = Done
  BY PhaseAfterIs
<1>2. NodeAfter(a, p.mode, p.node, n) \in {NodeAfter(b, p.mode, p.node, n), Done}
  BY <1>1 DEF NodeAfter
<1>3. ModeAfter(a, p, n) \in {ModeAfter(b, p, n), Done}
  BY <1>1, <1>2 DEF ModeAfter
<1> QED BY <1>1, <1>3 DEF Successor

(* The text a script begins with is found in no other.                       *)
LEMMA ContainsAnew ==
    ASSUME NEW arg \in Args, NEW p \in Position, Regular(p), Contains(p, First(arg))
    PROVE  p = First(arg)
<1>1. CASE First(arg).op = "start"
  BY <1>1, ContainsFirst
<1>2. CASE First(arg).op = "conf"
  <2>1. PICK ph \in Phases \ {"server"} : First(arg) = Conf(ph)
    BY <1>2 DEF First, PhaseStart, StartOf, Conf, At, Args, Phases, Sockets
  <2>2. p.op = "conf" /\ p.ph = ph /\ p.mode = 0 /\ DigitPrefix(-1, p.node)
    BY <2>1 DEF Contains, Conf, At
  <2>3. p.node = -1 /\ p.core = 0
    BY <2>2 DEF DigitPrefix, Regular
  <2> QED BY <2>1, <2>2, <2>3 DEF Conf, At, Position
<1> QED BY <1>1, <1>2, FirstType

(* Nor is another found in it.                                               *)
LEMMA ContainsFresh ==
    ASSUME NEW arg \in Args, NEW p \in Position, Regular(p), Contains(First(arg), p)
    PROVE  p = First(arg)
<1>1. p.core \in Nat /\ p.node \in Nat \cup {-1}
  BY DEF Position
<1>2. CASE First(arg).op = "start"
  <2>1. First(arg) = [ph |-> "server", op |-> "start", mode |-> 1, node |-> -1, core |-> 0]
    BY <1>2, FirstType DEF StartOf, At
  <2>2. p.op = "start" /\ p.ph = "server" /\ p.mode = 1 /\ p.node = -1 /\ p.core = 0
    BY <1>1, <2>1 DEF Contains, Regular
  <2> QED BY <2>1, <2>2 DEF Position
<1>3. CASE First(arg).op = "conf"
  <2>1. PICK ph \in Phases \ {"server"} : First(arg) = Conf(ph)
    BY <1>3 DEF First, PhaseStart, StartOf, Conf, At, Args, Phases, Sockets
  <2>2. p.op = "conf" /\ p.ph = ph /\ p.mode = 0
    BY <2>1 DEF Contains, Conf, At
  <2>3. p.node = -1 /\ p.core = 0
    BY <2>2 DEF Regular
  <2> QED BY <2>1, <2>2, <2>3 DEF Conf, At, Position
<1> QED BY <1>2, <1>3, FirstType

(* Nor in an opening.                                                        *)
LEMMA ContainsOpening ==
    ASSUME NEW ph \in Sockets \cup {"node"}, NEW p \in Position, Regular(p),
           Contains(Opening(ph), p)
    PROVE  p = Opening(ph)
<1>1. p.core \in Nat /\ p.node \in Nat \cup {-1} /\ p.mode \in Nat
  BY DEF Position
<1>2. CASE ph \in Sockets
  <2>1. Opening(ph) = [ph |-> ph, op |-> "start", mode |-> 1, node |-> -1, core |-> 1]
    BY <1>2 DEF Opening, StartOf, At
  <2>2. /\ p.op = "start" /\ p.ph = ph /\ p.mode = 1 /\ p.node = -1 /\ p.core > 0
        /\ DigitPrefix(p.core, 1)
    BY <1>2, <2>1 DEF Contains, Regular, Sockets
  <2>3. p.core = 1
    BY <1>1, <2>2 DEF DigitPrefix
  <2> QED BY <2>1, <2>2, <2>3 DEF Position
<1>3. CASE ph = "node"
  <2>1. Opening(ph) = [ph |-> "node", op |-> "conf", mode |-> 1, node |-> 0, core |-> 0]
    BY <1>3 DEF Opening, NodeConf, At, Sockets
  <2>2. /\ p.op = "conf" /\ p.ph = "node" /\ p.mode = 1 /\ p.core = 0
        /\ DigitPrefix(p.node, 0)
    BY <2>1 DEF Contains, Regular
  <2>3. p.node = 0
    BY <1>1, <2>2 DEF DigitPrefix
  <2> QED BY <2>1, <2>2, <2>3 DEF Position
<1> QED BY <1>2, <1>3

(* No script begins with an opening.                                         *)
LEMMA FirstNotOpening ==
    ASSUME NEW arg \in Args, NEW ph \in Sockets \cup {"node"}
    PROVE  First(arg) # Opening(ph)
<1>1. Opening(ph).mode = 1 /\ Opening(ph).ph = ph
  BY DEF Opening, StartOf, NodeConf, At
<1>2. First(arg).mode = 0 \/ First(arg).ph = "server"
  BY DEF First, PhaseStart, StartOf, Conf, At
<1> QED BY <1>1, <1>2 DEF Sockets

(* A script that begins with a question asks it of its first phase.          *)
LEMMA FirstConf ==
    ASSUME NEW arg \in Args, First(arg).op = "conf"
    PROVE  /\ First(arg).ph \in Sockets \cup {"node", "stats"}
           /\ First(arg) = Conf(First(arg).ph)
           /\ First(arg).ph = "node" => arg = "node"
           /\ First(arg).ph = "stats" <=> arg = "stats"
BY DEF First, PhaseStart, StartOf, Conf, At, Args, Phases, Sockets

-----------------------------------------------------------------------------
(* The scripts stay lined up                                                 *)

(* The types the steps below use.                                            *)
LEMMA Kinds ==
    ASSUME TypeOK
    PROVE  /\ srv.pos \in Position /\ srv.arg \in Args
           /\ cli.pos \in Position /\ cli.arg \in Args /\ cli.nodes \in Int /\ cli.count \in Int
           /\ CpuCount(srv.pos) \in Int /\ CpuCount(cli.pos) \in Int /\ NodeNum \in Int
           /\ inbox["client"] \in Message
<1>1. /\ srv.pos \in Position /\ srv.arg \in Args
      /\ cli.pos \in Position /\ cli.arg \in Args /\ cli.nodes \in Int /\ cli.count \in Int
  BY DEF TypeOK
<1>2. CpuCount(srv.pos) \in Int /\ CpuCount(cli.pos) \in Int /\ NodeNum \in Int
  BY <1>1, CpuCountType
<1>3. inbox["client"] \in Message
  BY DEF TypeOK, Hosts
<1> QED BY <1>1, <1>2, <1>3

(* A client that was misled is past its first handshake, at an opening.      *)
LEMMA MisledAway ==
    ASSUME TypeOK, Misled
    PROVE  /\ ~Fresh /\ First(cli.arg).ph \in Sockets \cup {"node"}
           /\ cli.pos = Opening(First(cli.arg).ph)
<1>1. First(cli.arg).ph \in Sockets \cup {"node"}
  BY Kinds, FirstConf DEF Misled
<1> QED BY <1>1, Kinds, FirstNotOpening DEF Misled, Fresh

(* A server that replies has heard the client, or the client is new.         *)
LEMMA ReplierLevel ==
    ASSUME TypeOK, Lockstep, LinedUp, srv.pc = "reply", cli.pc = "await"
    PROVE  /\ ~Misled
           /\ ~Fresh => srv.pos = cli.pos
<1>1. ~Fresh => Contains(cli.pos, srv.pos)
  BY DEF Lockstep, TurnsOK
<1>2. Regular(srv.pos) /\ Regular(cli.pos)
  BY DEF LinedUp
<1>3. ~Misled
  <2> SUFFICES ASSUME Misled PROVE FALSE
    OBVIOUS
  <2>1. srv.pos = cli.pos
    BY <1>1, <1>2, Kinds, MisledAway, ContainsOpening
  <2> QED BY <2>1 DEF Misled, Up
<1>4. inbox["client"] = NoMessage
  BY DEF Lockstep, TurnsOK
<1>5. ASSUME ~Fresh PROVE srv.pos = cli.pos
  <2>1. srv.pos = cli.pos \/ Anew
    BY <1>3, <1>4, <1>5 DEF LinedUp, Level, Live, Up
  <2> QED BY <1>1, <1>2, <1>5, <2>1, Kinds, ContainsAnew DEF Anew
<1> QED BY <1>3, <1>5

(* nginx.sh rewrites nginx.conf and restarts nginx where it stands.          *)
LEMMA LinedRestart ==
    ASSUME TypeOK, LinedUp, StopNginx \/ StopNginxFails \/ StartNginx \/ StartNginxFails
    PROVE  LinedUp'
<1>1. /\ srv.pc \in {"configure", "restart"} /\ srv'.pc \in {"restart", "listen"}
      /\ srv'.pos = srv.pos /\ srv'.arg = srv.arg /\ UNCHANGED <<cli, inbox>>
  BY DEF StopNginx, StopNginxFails, StartNginx, StartNginxFails, Reconfigure, Restarted, TypeOK
<1> QED BY <1>1 DEF LinedUp, Live, Up, Fresh, Misled, Level, Anew, ReplyOK

(* nginx.sh takes a text and checks it.                                      *)
LEMMA LinedReceive ==
    ASSUME TypeOK, Lockstep, LinedUp, ServerReceive
    PROVE  LinedUp'
<1>1. /\ srv.pc = "listen" /\ srv'.pc \in {"reply", "exit"} /\ inbox["server"] # NoMessage
      /\ srv'.pos = srv.pos /\ srv'.arg = srv.arg /\ cli' = cli
      /\ inbox'["client"] = inbox["client"]
  BY DEF ServerReceive, TypeOK, Hosts
<1>2. inbox["client"] = NoMessage
  BY <1>1 DEF Lockstep, TurnsOK
<1> QED BY <1>1, <1>2 DEF LinedUp, Live, Up, Fresh, Misled, Level, Anew

(* nginx.sh replies, and goes on to its next handshake.                      *)
LEMMA LinedReply ==
    ASSUME TypeOK, Lockstep, LinedUp, ServerReply
    PROVE  LinedUp'
<1> DEFINE next == Successor(srv.arg, srv.pos, NodeNum, CpuCount(srv.pos))
<1>1. /\ srv.pc = "reply" /\ cli.pc = "await" /\ cli' = cli
      /\ srv' = ServerAt(srv.arg, next) /\ inbox'["client"] = Reply(srv.pos)
  BY DEF ServerReply, ServerAdvance, ServerNext, Accepting, TypeOK, Hosts
<1>2. next \in Position /\ Regular(next)
  BY Kinds, SuccessorType, RegularSuccessor DEF LinedUp
<1>3. ASSUME NEW ph \in Sockets \cup {"node"}, next = Opening(ph)
      PROVE  srv.pos = Conf(ph)
  BY <1>3, Kinds, OpeningAfterConf DEF LinedUp
<1> HIDE DEF next
<1>4. srv'.pos = next /\ srv'.arg = srv.arg
  BY <1>1 DEF ServerAt
<1>5. Reply(srv.pos) # NoMessage
  <2>1. Answer(srv.pos) \in Nat
    <3>1. CpuCount(srv.pos) \in Nat
      BY Kinds, CpuCountType
    <3> QED BY <3>1 DEF Answer
  <2>2. srv.pos.op # "done"
    BY <1>1 DEF Lockstep, PlacesOK
  <2> QED BY <2>1, <2>2 DEF Reply, Number, Text, NoMessage, Done, At
<1>6. ~Misled /\ (~Fresh => srv.pos = cli.pos)
  BY <1>1, ReplierLevel
<1>7. Knows(cli.pos, cli.nodes, cli.count)
  BY <1>1, <1>6 DEF LinedUp, Live
<1>8. ReplyOK'
  <2>1. CASE srv.pos = cli.pos
    BY <1>1, <1>4, <2>1 DEF ReplyOK, next
  <2>2. CASE srv.pos # cli.pos /\ cli.pos.op = "conf"
    <3>1. Fresh /\ Fresh'
      BY <1>1, <1>6, <2>2 DEF Fresh
    <3>2. ASSUME cli.pos.ph # "stats" PROVE next # Opening(cli.pos.ph)
      <4>1. cli.pos = Conf(cli.pos.ph) /\ cli.pos.ph \in Sockets \cup {"node"}
        BY <2>2, <3>1, <3>2, Kinds, FirstConf DEF Fresh
      <4> QED BY <1>3, <2>2, <4>1
    <3> QED BY <1>1, <1>4, <2>2, <3>1, <3>2 DEF ReplyOK
  <2>3. CASE srv.pos # cli.pos /\ cli.pos.op # "conf"
    <3>1. Fresh /\ Fresh' /\ cli.pos.op = "start"
      BY <1>1, <1>6, <2>3, Kinds, FirstType DEF Fresh
    <3>2. Reply(srv.pos).pos \in {Done, srv.pos} /\ Done.op = "done"
      BY DEF Reply, Number, Text, Done, At
    <3>3. ~Contains(Done, cli.pos)
      BY <3>1, <3>2 DEF Contains
    <3>4. ~Contains(srv.pos, cli.pos)
      BY <2>3, <3>1, Kinds, ContainsFirst DEF Fresh
    <3> QED BY <1>1, <3>1, <3>2, <3>3, <3>4 DEF ReplyOK
  <2> QED BY <2>1, <2>2, <2>3
<1> QED BY <1>1, <1>2, <1>4, <1>5, <1>7, <1>8 DEF LinedUp, Live

(* The same when the reply is lost: the client waits for good.               *)
LEMMA LinedReplyLost ==
    ASSUME TypeOK, Lockstep, LinedUp, ServerReplyLost
    PROVE  LinedUp'
<1> DEFINE next == Successor(srv.arg, srv.pos, NodeNum, CpuCount(srv.pos))
<1>1. /\ srv.pc = "reply" /\ srv' = ServerAt(srv.arg, next) /\ UNCHANGED <<cli, inbox>>
  BY DEF ServerReplyLost, ServerAdvance, ServerNext
<1>2. next \in Position /\ Regular(next)
  BY Kinds, SuccessorType, RegularSuccessor DEF LinedUp
<1> HIDE DEF next
<1>3. srv'.pos = next /\ srv'.arg = srv.arg /\ srv'.pc # "reply"
  BY <1>1, <1>2, Kinds, ServerAtType
<1>4. inbox["client"] = NoMessage /\ inbox["server"] = NoMessage
  BY <1>1 DEF Lockstep, TurnsOK
<1>5. CASE cli.pc = "await"
  <2>1. Knows(cli.pos, cli.nodes, cli.count)
    BY <1>1, <1>5, ReplierLevel DEF LinedUp, Live
  <2> QED BY <1>1, <1>2, <1>3, <1>4, <1>5, <2>1 DEF LinedUp, Live, Level
<1>6. CASE cli.pc # "await"
  <2>1. Live => Fresh /\ Knows(cli.pos, cli.nodes, cli.count)
    <3>1. Live => Fresh
      BY <1>1, <1>6 DEF Lockstep, TurnsOK, Live
    <3> QED BY <3>1, MisledAway DEF LinedUp
  <2> QED BY <1>1, <1>2, <1>3, <1>4, <2>1 DEF LinedUp, Live, Fresh
<1> QED BY <1>5, <1>6

(* nginx.sh is killed,                                                       *)
LEMMA LinedServerKilled ==
    ASSUME TypeOK, LinedUp, ServerKilled
    PROVE  LinedUp'
<1>1. /\ srv'.pc = "off" /\ srv'.pos = srv.pos /\ srv'.arg = srv.arg /\ cli' = cli
      /\ inbox'["client"] = inbox["client"]
  BY DEF ServerKilled, TypeOK, Hosts
<1> QED BY <1>1 DEF LinedUp, Live, Up, Fresh, Misled, ReplyOK

(* and started again, at the beginning of any plan.                          *)
LEMMA LinedServerLaunch ==
    ASSUME TypeOK, Lockstep, LinedUp, NEW arg \in ServerArgs, ServerLaunch(arg)
    PROVE  LinedUp'
<1>1. arg \in Args /\ UNCHANGED <<cli, inbox>>
      /\ srv.pc \in {"off", "exit"} /\ srv' = ServerAt(arg, First(arg))
  BY ArgsAssumption DEF ServerLaunch
<1>2. srv'.pos = First(arg) /\ srv'.arg = arg /\ Anew' /\ Regular(First(arg))
  BY <1>1, RegularFirst DEF ServerAt, Anew
<1>3. Misled => Misled'
  BY <1>1, <1>2, MisledAway, FirstNotOpening DEF Misled
<1>4. inbox["client"] # NoMessage => ReplyOK'
  <2>1. ASSUME Fresh, cli.pos.op = "conf", cli.pos.ph # "stats"
        PROVE  First(arg) # Opening(cli.pos.ph)
    BY <1>1, <2>1, Kinds, FirstConf, FirstNotOpening DEF Fresh
  <2> QED BY <1>1, <1>2, <2>1 DEF LinedUp, ReplyOK, Fresh
<1> QED BY <1>1, <1>2, <1>3, <1>4 DEF LinedUp, Live, Level

(* wrk.sh is started.                                                        *)
LEMMA LinedClientLaunch ==
    ASSUME TypeOK, Lockstep, LinedUp, NEW arg \in ClientArgs, ClientLaunch(arg)
    PROVE  LinedUp'
<1>1. arg \in Args /\ UNCHANGED <<srv, inbox>>
      /\ cli.pc \in {"off", "exit"} /\ cli' = ClientAt(arg, First(arg), 0, 0)
  BY ArgsAssumption DEF ClientLaunch
<1>2. /\ cli'.pos = First(arg) /\ cli'.arg = arg /\ Fresh' /\ Regular(First(arg))
      /\ Knows(First(arg), cli'.nodes, cli'.count)
  BY <1>1, RegularFirst, LaunchPlaces DEF Fresh
<1>3. inbox["client"] = NoMessage
  BY <1>1 DEF Lockstep, TurnsOK
<1>4. arg = "stats" => First(arg) = Conf("stats")
  BY DEF First, PhaseStart
<1> QED BY <1>1, <1>2, <1>3, <1>4 DEF LinedUp

(* wrk.sh sends its text, or the text is lost.                               *)
LEMMA LinedSend ==
    ASSUME TypeOK, Lockstep, LinedUp, ClientSend \/ ClientSendLost
    PROVE  LinedUp'
<1>1. /\ cli.pc = "send" /\ cli'.pc = "await" /\ cli'.pos = cli.pos /\ cli'.arg = cli.arg
      /\ cli'.nodes = cli.nodes /\ cli'.count = cli.count /\ srv' = srv
      /\ inbox'["client"] = inbox["client"]
  BY DEF ClientSend, ClientSendLost, ClientAsked, TypeOK, Hosts
<1>2. inbox["client"] = NoMessage
  BY <1>1 DEF Lockstep, TurnsOK
<1> QED BY <1>1, <1>2 DEF LinedUp, Live, Up, Fresh, Misled, Level, Anew

(* wrk runs.                                                                 *)
LEMMA LinedWrk ==
    ASSUME TypeOK, Lockstep, LinedUp, WrkRun \/ WrkFails \/ WrkEnds
    PROVE  LinedUp'
<1>1. /\ cli.pc \in {"wrk", "running"} /\ cli'.pc \in {"running", "send"}
      /\ cli'.pos = cli.pos /\ cli'.arg = cli.arg
      /\ cli'.nodes = cli.nodes /\ cli'.count = cli.count /\ UNCHANGED <<srv, inbox>>
  BY DEF WrkRun, WrkFails, WrkEnds, TypeOK
<1>2. inbox["client"] = NoMessage
  BY <1>1 DEF Lockstep, TurnsOK
<1> QED BY <1>1, <1>2 DEF LinedUp, Live, Up, Fresh, Misled, Level, Anew

(* wrk.sh is killed.                                                         *)
LEMMA LinedClientKilled ==
    ASSUME TypeOK, LinedUp, ClientKilled
    PROVE  LinedUp'
<1>1. /\ cli'.pc = "off" /\ cli'.pos = cli.pos /\ cli'.arg = cli.arg /\ srv' = srv
      /\ inbox'["client"] = NoMessage
  BY DEF ClientKilled, TypeOK, Hosts
<1> QED BY <1>1 DEF LinedUp, Live

(* The statistics are the last thing a script does.                          *)
LEMMA StatsLast ==
    ASSUME NEW arg, NEW n, NEW c
    PROVE  Successor(arg, Conf("stats"), n, c) = Done
BY DEF Successor, Conf, At, Sockets

(* A client that reads the reply to its text comes level with the server.    *)
LEMMA ComesLevel ==
    ASSUME TypeOK, Lockstep, Up,
           Anew \/ srv.pos = Successor(srv.arg, cli.pos, NodeNum, CpuCount(cli.pos)),
           Successor(cli.arg, cli.pos, NodeNum, CpuCount(cli.pos)) # Done
    PROVE  Anew \/ srv.pos = Successor(cli.arg, cli.pos, NodeNum, CpuCount(cli.pos))
<1> DEFINE S(arg) == Successor(arg, cli.pos, NodeNum, CpuCount(cli.pos))
<1>1. srv.pos # Done
  <2>1. srv.pc \in {"configure", "restart", "listen", "reply"}
    BY DEF Up, TypeOK
  <2> QED BY <2>1 DEF Lockstep, PlacesOK, Done, At
<1>2. CASE cli.arg = srv.arg
  BY <1>2
<1>3. CASE cli.arg # "all"
  BY <1>3, Kinds, OtherArgument
<1>4. CASE srv.arg # "all"
  <2>1. S(srv.arg) \in {S(cli.arg), Done}
    BY <1>4, Kinds, OtherArgument
  <2> QED BY <1>1, <2>1
<1> QED BY <1>2, <1>3, <1>4

(* Where the client goes when it was told the truth.                         *)
LEMMA TakesReply ==
    ASSUME TypeOK, Lockstep, LinedUp, cli.pc = "await",
           inbox["client"] = Reply(cli.pos), Reply(cli.pos) # NoMessage, cli.pos.op # "done",
           Up => Anew \/ srv.pos = Successor(srv.arg, cli.pos, NodeNum, CpuCount(cli.pos)),
           NEW nodes \in Int, NEW count \in Int,
           IF cli.pos.op = "conf"
           THEN IF cli.pos.ph = "node" /\ cli.pos.node = -1
                THEN nodes = NodeNum /\ count = cli.count
                ELSE nodes = cli.nodes /\ count = CpuCount(cli.pos)
           ELSE nodes = cli.nodes /\ count = cli.count
    PROVE  LET next == Successor(cli.arg, cli.pos, nodes, count) IN
           /\ next = Successor(cli.arg, cli.pos, NodeNum, CpuCount(cli.pos))
           /\ next \in Position /\ Regular(next) /\ Knows(next, nodes, count)
           /\ cli.arg = "stats" => next = Done
           /\ Up /\ next # Done => Anew \/ srv.pos = next
<1> DEFINE next == Successor(cli.arg, cli.pos, nodes, count)
<1>1. Knows(cli.pos, cli.nodes, cli.count) /\ Regular(cli.pos)
  BY DEF LinedUp, Live, Misled
<1>2. Knows(cli.pos, nodes, count)
  BY <1>1 DEF Knows
<1>3. next = Successor(cli.arg, cli.pos, NodeNum, CpuCount(cli.pos)) /\ Knows(next, nodes, count)
  BY <1>2, Kinds, SameSuccessor
<1>4. next \in Position /\ Regular(next)
  BY <1>1, Kinds, SuccessorType, RegularSuccessor
<1>5. ASSUME cli.arg = "stats" PROVE next = Done
  <2>1. cli.pos = Conf("stats")
    BY <1>5 DEF LinedUp, Done, At
  <2> QED BY <2>1, StatsLast
<1>6. Up /\ next # Done => Anew \/ srv.pos = next
  BY <1>3, ComesLevel
<1> QED BY <1>3, <1>4, <1>5, <1>6

(* wrk.sh takes the answer to its question as it comes.                      *)
LEMMA LinedAnswered ==
    ASSUME TypeOK, Lockstep, LinedUp, ClientAnswered
    PROVE  LinedUp'
<1> DEFINE num == inbox["client"].num
           ofNodes == cli.pos.ph = "node" /\ cli.pos.node = -1
           nodes == IF ofNodes THEN num ELSE cli.nodes
           count == IF ofNodes THEN cli.count ELSE num
           next == Successor(cli.arg, cli.pos, nodes, count)
<1>1. /\ cli.pc = "await" /\ cli.pos.op = "conf" /\ inbox["client"] # NoMessage /\ srv' = srv
      /\ cli' = ClientAt(cli.arg, next, nodes, count) /\ inbox'["client"] = NoMessage
  BY DEF ClientAnswered, TypeOK, Hosts
<1>2. nodes \in Int /\ count \in Int
  BY Kinds DEF Message
<1>3. num = Answer(cli.pos) => IF ofNodes THEN nodes = NodeNum ELSE count = CpuCount(cli.pos)
  BY DEF Answer
<1>4. IF ofNodes THEN count = cli.count ELSE nodes = cli.nodes
  OBVIOUS
<1>5. Regular(cli.pos) /\ ReplyOK
  BY <1>1 DEF LinedUp
<1> HIDE DEF nodes, count
<1>6. next \in Position /\ Regular(next)
  BY <1>2, <1>5, Kinds, SuccessorType, RegularSuccessor
<1>7. /\ ClientAt(cli.arg, next, nodes, count).pc = IF next.op = "done" THEN "exit" ELSE "send"
      /\ ClientAt(cli.arg, next, nodes, count).pos = next
      /\ ClientAt(cli.arg, next, nodes, count).arg = cli.arg
      /\ ClientAt(cli.arg, next, nodes, count).nodes = nodes
      /\ ClientAt(cli.arg, next, nodes, count).count = count
  BY DEF ClientAt
<1>8. CASE inbox["client"] = Reply(cli.pos)
           /\ (Up => Anew \/ srv.pos = Successor(srv.arg, cli.pos, NodeNum, CpuCount(cli.pos)))
  <2>1. num = Answer(cli.pos)
    BY <1>1, <1>8 DEF Reply, Number
  <2>2. /\ Knows(next, nodes, count) /\ (cli.arg = "stats" => next = Done)
        /\ Up /\ next # Done => Anew \/ srv.pos = next
    BY <1>1, <1>2, <1>3, <1>4, <1>8, <2>1, TakesReply
  <2> HIDE DEF next
  <2>3. next.op # "done" => next # Done
    BY DEF Done, At
  <2> QED BY <1>1, <1>5, <1>6, <1>7, <2>2, <2>3 DEF LinedUp, Live, Level, Up, Anew
<1>9. CASE Fresh /\ cli.pos.op = "conf" /\ (Up /\ cli.pos.ph # "stats" => srv.pos # Opening(cli.pos.ph))
  <2>1. /\ cli.pos = Conf(cli.pos.ph) /\ cli.pos.ph \in Sockets \cup {"node", "stats"}
        /\ cli.pos.ph = "node" => cli.arg = "node"
        /\ cli.pos.ph = "stats" <=> cli.arg = "stats"
    BY <1>9, Kinds, FirstConf DEF Fresh
  <2>5. /\ cli.pos.op = "conf" /\ Regular(cli.pos) /\ cli.pos \in Position
        /\ nodes \in Int /\ count \in Int
    BY <1>1, <1>2, <1>5, Kinds
  <2>2. \/ next = Done
        \/ cli.pos.ph # "stats" /\ next = Opening(cli.pos.ph)
    <3>1. CASE cli.pos.ph \in Sockets
      <4>1. next = StartOf(cli.pos.ph, 1, -1, 1)
        BY <2>5, <3>1, SuccessorIs
      <4> QED BY <3>1, <4>1 DEF Opening, Sockets
    <3>2. CASE cli.pos.ph = "node"
      <4>1. cli.pos.node = -1
        BY <2>1 DEF Conf, At
      <4>2. next \in {NodeConf(1, 0), PhaseAfter("node", "node")}
        BY <2>1, <2>5, <3>2, <4>1, SuccessorIs
      <4> QED BY <3>2, <4>2, PhaseAfterIs DEF Opening, Sockets
    <3>3. CASE cli.pos.ph = "stats"
      BY <2>5, <3>3, SuccessorIs
    <3> QED BY <2>1, <3>1, <3>2, <3>3
  <2> HIDE DEF next
  <2>3. CASE next = Done
    <3>1. cli'.pc = "exit" /\ cli'.pos = Done /\ cli'.arg = cli.arg
      BY <1>1, <1>7, <2>3 DEF Done, At
    <3> QED BY <1>1, <1>6, <2>3, <3>1 DEF LinedUp, Live
  <2>4. CASE cli.pos.ph # "stats" /\ next = Opening(cli.pos.ph)
    <3>1. cli'.pc = "send" /\ cli'.pos = next /\ cli'.arg = cli.arg
      BY <1>1, <1>7, <2>1, <2>4 DEF Opening, StartOf, NodeConf, At
    <3>2. Misled'
      BY <1>1, <1>9, <2>4, <3>1 DEF Misled, Fresh, Up
    <3> QED BY <1>1, <1>6, <2>1, <2>4, <3>1, <3>2 DEF LinedUp
  <2> QED BY <2>2, <2>3, <2>4
<1> QED BY <1>1, <1>5, <1>8, <1>9 DEF ReplyOK

(* The two halves of request_test_start and request_test_finish.             *)
LEMMA LinedChecked ==
    ASSUME TypeOK, Lockstep, LinedUp,
           NEW op \in {"start", "finish"}, NEW good, NEW bad, NEW then,
           ClientChecked(op, good, bad, then),
           then.pos = ClientNext, then.arg = cli.arg,
           then.nodes = cli.nodes, then.count = cli.count,
           \/ then.pc = IF ClientNext.op = "done" THEN "exit" ELSE "send"
           \/ then.pc = "wrk" /\ ClientNext.op = "finish"
    PROVE  LinedUp'
<1>1. /\ cli.pc = "await" /\ cli.pos.op = op /\ inbox["client"] # NoMessage /\ srv' = srv
      /\ inbox'["client"] = NoMessage
      /\ IF Contains(inbox["client"].pos, cli.pos)
         THEN cli' = then ELSE cli' = [cli EXCEPT !.pc = "exit"]
  BY DEF ClientChecked, TypeOK, Hosts
<1>2. Regular(cli.pos) /\ Regular(srv.pos) /\ ReplyOK
  BY <1>1 DEF LinedUp
<1>3. CASE ~Contains(inbox["client"].pos, cli.pos)
  <2>1. cli'.pc = "exit" /\ cli'.pos = cli.pos /\ cli'.arg = cli.arg
    BY <1>1, <1>3 DEF TypeOK
  <2> QED BY <1>1, <2>1 DEF LinedUp, Live
<1>4. CASE Contains(inbox["client"].pos, cli.pos)
  <2>1. /\ inbox["client"] = Reply(cli.pos)
        /\ Up => Anew \/ srv.pos = Successor(srv.arg, cli.pos, NodeNum, CpuCount(cli.pos))
    BY <1>1, <1>2, <1>4 DEF ReplyOK
  <2>2. /\ Regular(ClientNext) /\ Knows(ClientNext, cli.nodes, cli.count)
        /\ cli.arg = "stats" => ClientNext = Done
        /\ Up /\ ClientNext # Done => Anew \/ srv.pos = ClientNext
    BY <1>1, <2>1, Kinds, TakesReply DEF ClientNext
  <2>3. ClientNext.op # "done" => ClientNext # Done
    BY DEF Done, At
  <2>4. cli' = then
    BY <1>1, <1>4
  <2> QED BY <1>1, <1>2, <2>2, <2>3, <2>4 DEF LinedUp, Live, Level, Up, Anew
<1> QED BY <1>3, <1>4

(* request_test_start hears of the start,                                    *)
LEMMA LinedStarted ==
    ASSUME TypeOK, Lockstep, LinedUp, ClientStarted
    PROVE  LinedUp'
<1> DEFINE then == [cli EXCEPT !.pc = "wrk", !.pos = ClientNext]
<1>1. ClientChecked("start", "start", "starterror", then)
  BY DEF ClientStarted
<1>2. ClientNext.op = "finish"
  <2>1. cli.pos.op = "start"
    BY <1>1 DEF ClientChecked
  <2>2. ClientNext = SameTest(cli.pos)
    BY <2>1, Kinds, SuccessorType DEF ClientNext
  <2> QED BY <2>2, Kinds DEF SameTest, Position
<1>3. /\ then.pos = ClientNext /\ then.arg = cli.arg /\ then.pc = "wrk"
      /\ then.nodes = cli.nodes /\ then.count = cli.count
  BY DEF TypeOK
<1> HIDE DEF then
<1> QED BY <1>1, <1>2, <1>3, LinedChecked

(* and request_test_finish of the end of a test.                             *)
LEMMA LinedFinished ==
    ASSUME TypeOK, Lockstep, LinedUp, ClientFinished
    PROVE  LinedUp'
<1> DEFINE then == ClientAt(cli.arg, ClientNext, cli.nodes, cli.count)
<1>1. ClientChecked("finish", "finish", "finisherror", then)
  BY DEF ClientFinished
<1>2. /\ then.pos = ClientNext /\ then.arg = cli.arg
      /\ then.nodes = cli.nodes /\ then.count = cli.count
      /\ then.pc = IF ClientNext.op = "done" THEN "exit" ELSE "send"
  BY DEF ClientAt
<1> HIDE DEF then
<1> QED BY <1>1, <1>2, LinedChecked

(* Every step leaves the scripts lined up.                                   *)
LEMMA LinedStep ==
    ASSUME TypeOK, Lockstep, LinedUp, [Next]_vars
    PROVE  LinedUp'
<1>1. CASE UNCHANGED vars
  BY <1>1 DEF vars, LinedUp, Live, Up, Fresh, Misled, Level, Anew, ReplyOK
<1> QED
  BY <1>1, LinedRestart, LinedReceive, LinedReply, LinedReplyLost, LinedServerKilled,
     LinedServerLaunch, LinedClientLaunch, LinedSend, LinedWrk, LinedClientKilled,
     LinedAnswered, LinedStarted, LinedFinished
     DEF Next, ServerStep, ClientStep, Fault, Terminated

-----------------------------------------------------------------------------
(* What wrk.sh has measured                                                  *)

(* The handshake nginx.sh goes on to.                                        *)
LEMMA ServerOnward ==
    ASSUME TypeOK
    PROVE  LET next == Successor(srv.arg, srv.pos, NodeNum, CpuCount(srv.pos)) IN
           /\ next \in Position
           /\ srv.pos.op = "start" => next = SameTest(srv.pos)
           /\ srv.pos.op # "start" => next.op # "finish"
<1>1. /\ srv.arg \in Args /\ srv.pos \in Position
      /\ NodeNum \in Int /\ CpuCount(srv.pos) \in Int
  BY Kinds
<1> QED BY <1>1, SuccessorType

(* A server that holds the client's test open after a step of its own held   *)
(* it open before, and left nginx alone.                                     *)
LEMMA SessionKept ==
    ASSUME TypeOK, TypeOK', Lockstep, LinedUp, cli.pos.op = "finish", Live, InSession(cli.pos)',
           \/ StopNginx \/ StopNginxFails \/ StartNginx \/ StartNginxFails
           \/ ServerReceive \/ ServerReply \/ ServerReplyLost \/ ServerKilled
           \/ \E arg \in ServerArgs : ServerLaunch(arg)
    PROVE  InSession(cli.pos) /\ nginx' = nginx
<1>1. cli' = cli
  BY DEF StopNginx, StopNginxFails, StartNginx, StartNginxFails, Reconfigure, Restarted,
         ServerReceive, ServerReply, ServerReplyLost, ServerAdvance, ServerKilled, ServerLaunch
<1>2. srv'.pos = cli.pos /\ srv'.pc \in {"listen", "reply"}
  BY <1>1 DEF InSession
<1>3. ~Fresh
  BY Kinds, FirstType DEF Fresh
<1>4. CASE StopNginx \/ StopNginxFails \/ StartNginx \/ StartNginxFails
  <2>1. srv.pc \in {"configure", "restart"} /\ srv'.pos = srv.pos
    BY <1>4 DEF StopNginx, StopNginxFails, StartNginx, StartNginxFails, Reconfigure, Restarted,
                TypeOK
  <2> QED BY <1>2, <2>1 DEF Lockstep, PlacesOK
<1>5. CASE ServerReceive
  BY <1>2, <1>5 DEF ServerReceive, InSession, TypeOK
<1>6. CASE ServerReply \/ ServerReplyLost
  <2>1. srv.pc = "reply" /\ srv' = ServerAt(srv.arg, ServerNext(srv.pos))
    BY <1>6 DEF ServerReply, ServerReplyLost, ServerAdvance
  <2>2. cli.pos = Successor(srv.arg, srv.pos, NodeNum, CpuCount(srv.pos))
    BY <1>2, <2>1 DEF ServerAt, ServerNext
  <2>3. srv.pos.op = "start"
    <3>1. \/ srv.pos.op = "start"
          \/ Successor(srv.arg, srv.pos, NodeNum, CpuCount(srv.pos)).op # "finish"
      BY ServerOnward
    <3> QED BY <2>2, <3>1
  <2>4. cli.pc = "await"
    BY <1>3, <2>1 DEF Live, Lockstep, TurnsOK
  <2> QED BY <1>3, <2>1, <2>3, <2>4, ReplierLevel
<1>7. CASE ServerKilled
  BY <1>2, <1>7 DEF ServerKilled, TypeOK
<1>8. ASSUME NEW arg \in ServerArgs, ServerLaunch(arg) PROVE FALSE
  <2>1. arg \in Args /\ srv' = ServerAt(arg, First(arg))
    BY <1>8, ArgsAssumption DEF ServerLaunch
  <2> QED BY <1>2, <2>1, FirstType DEF ServerAt
<1> QED BY <1>4, <1>5, <1>6, <1>7, <1>8

(* No step of nginx.sh disturbs what a session has measured.                 *)
LEMMA MeasuredServer ==
    ASSUME TypeOK, TypeOK', Lockstep, LinedUp, MeasuredOK,
           \/ StopNginx \/ StopNginxFails \/ StartNginx \/ StartNginxFails
           \/ ServerReceive \/ ServerReply \/ ServerReplyLost \/ ServerKilled
           \/ \E arg \in ServerArgs : ServerLaunch(arg)
    PROVE  MeasuredOK'
<1>1. /\ cli' = cli /\ result' = result
      /\ inbox'["client"] = NoMessage => inbox["client"] = NoMessage
  BY DEF StopNginx, StopNginxFails, StartNginx, StartNginxFails, Reconfigure, Restarted,
         ServerReceive, ServerReply, ServerReplyLost, ServerAdvance, ServerKilled, ServerLaunch,
         Accepting, TypeOK, Hosts
<1>2. ASSUME cli.pc \in {"running", "send", "await"}, cli.pos.op = "finish", InSession(cli.pos)'
      PROVE  InSession(cli.pos) /\ nginx' = nginx
  BY <1>2, SessionKept DEF Live
<1>3. cli.pc = "running" => cli.pos.op = "finish"
  BY DEF Lockstep, PlacesOK
<1>4. ASSUME cli.pc = "running" PROVE seen' = seen \/ ~InSession(cli.pos)'
  <2>1. CASE nginx' = nginx
    <3>1. InSession(cli.pos)' => seen = {nginx}
      BY <1>2, <1>3, <1>4 DEF MeasuredOK
    <3>2. seen' \in {seen, seen \cup {nginx'}}
      BY DEF StopNginx, StopNginxFails, StartNginx, StartNginxFails, Reconfigure, Restarted,
             ServerReceive, ServerReply, ServerReplyLost, ServerAdvance, ServerKilled,
             ServerLaunch, Meets
    <3> QED BY <2>1, <3>1, <3>2
  <2>2. CASE nginx' # nginx
    BY <1>2, <1>3, <1>4, <2>2
  <2> QED BY <2>1, <2>2
<1> QED BY <1>1, <1>2, <1>3, <1>4 DEF MeasuredOK, LastLine

(* The lines "start" and "finish" frame a measurement.                       *)
LEMMA MeasuredChecked ==
    ASSUME TypeOK, Lockstep, LinedUp, MeasuredOK, ClientStarted \/ ClientFinished
    PROVE  MeasuredOK'
<1>1. /\ cli.pc = "await" /\ nginx' = nginx /\ srv' = srv /\ inbox["client"] # NoMessage
      /\ result \in Seq(Line) /\ cli.pos \in Position
  BY DEF ClientStarted, ClientFinished, ClientChecked, TypeOK
<1>2. ClientNext \in Position /\ (cli.pos.op # "start" => ClientNext.op # "finish")
  BY Kinds, SuccessorType DEF ClientNext
<1>3. ASSUME NEW line \in Line, line.kind = "finish" => result # <<>>, result' = Append(result, line)
      PROVE  \A i \in DOMAIN result' : result'[i].kind = "finish" => i > 1
  <2>1. /\ Len(result') = Len(result) + 1 /\ result' \in Seq(Line)
        /\ result'[Len(result) + 1] = line
        /\ \A i \in 1..Len(result) : result'[i] = result[i]
    BY <1>1, <1>3, AppendLine
  <2>2. result # <<>> => Len(result) > 0
    BY <1>1, EmptySeq
  <2>3. \A i \in 1..Len(result) : result[i].kind = "finish" => i > 1
    BY <1>1 DEF MeasuredOK
  <2> QED BY <1>1, <1>3, <2>1, <2>2, <2>3
<1>4. CASE Contains(inbox["client"].pos, cli.pos) /\ ClientStarted
  <2>1. /\ cli'.pc = "wrk" /\ result' = Append(result, Entry("start", cli.pos, {}))
    BY <1>4 DEF ClientStarted, ClientChecked, TypeOK
  <2>2. Entry("start", cli.pos, {}) \in Line /\ Entry("start", cli.pos, {}).on = {}
        /\ Entry("start", cli.pos, {}).kind = "start"
    BY <1>1, EntryType DEF Entry
  <2>3. result' # <<>> /\ LastLine'.on = {}
    BY <1>1, <2>1, <2>2, AppendLine DEF LastLine
  <2> QED BY <1>3, <2>1, <2>2, <2>3 DEF MeasuredOK
<1>5. CASE Contains(inbox["client"].pos, cli.pos) /\ ClientFinished
  <2>1. /\ cli.pos.op = "finish" /\ result' = Append(result, Entry("finish", cli.pos, {}))
        /\ cli' = ClientAt(cli.arg, ClientNext, cli.nodes, cli.count)
    BY <1>5 DEF ClientFinished, ClientChecked
  <2>2. cli'.pos.op # "finish" /\ cli'.pc \in {"send", "exit"}
    BY <1>2, <2>1 DEF ClientAt
  <2>3. Entry("finish", cli.pos, {}) \in Line /\ result # <<>>
    BY <1>1, <2>1, EntryType DEF MeasuredOK
  <2> QED BY <1>3, <2>1, <2>2, <2>3 DEF MeasuredOK
<1>6. CASE ~Contains(inbox["client"].pos, cli.pos)
  <2>1. PICK kind \in {"starterror", "finisherror"} :
            cli'.pc = "exit" /\ result' = Append(result, Entry(kind, cli.pos, {}))
    BY <1>6 DEF ClientStarted, ClientFinished, ClientChecked, TypeOK
  <2>2. Entry(kind, cli.pos, {}) \in Line /\ Entry(kind, cli.pos, {}).kind # "finish"
    BY <1>1, EntryType DEF Entry
  <2> QED BY <1>3, <2>1, <2>2 DEF MeasuredOK
<1> QED BY <1>4, <1>5, <1>6

(* The end of a wrk run puts what it met into result.txt.                    *)
LEMMA MeasuredWrkEnds ==
    ASSUME TypeOK, Lockstep, MeasuredOK, WrkEnds
    PROVE  MeasuredOK'
<1> DEFINE line == Entry("sec", cli.pos, seen)
<1>1. /\ cli.pc = "running" /\ cli'.pc = "send" /\ cli'.pos = cli.pos
      /\ UNCHANGED <<srv, inbox, nginx>> /\ result' = Append(result, line)
      /\ result \in Seq(Line)
  BY DEF WrkEnds, TypeOK
<1>2. line \in Line /\ line.on = seen /\ line.kind = "sec"
  BY Kinds, EntryType DEF Entry, TypeOK
<1> HIDE DEF line
<1>3. /\ Len(result') = Len(result) + 1 /\ result' # <<>> /\ result'[Len(result) + 1] = line
      /\ \A i \in 1..Len(result) : result'[i] = result[i]
      /\ result' \in Seq(Line)
  BY <1>1, <1>2, AppendLine
<1>4. LastLine'.on = seen
  BY <1>2, <1>3 DEF LastLine
<1>5. \A i \in DOMAIN result' : result'[i].kind = "finish" => i > 1
  <2>1. \A i \in 1..Len(result) : result[i].kind = "finish" => i > 1
    BY <1>1 DEF MeasuredOK
  <2> QED BY <1>1, <1>2, <1>3, <2>1
<1> QED BY <1>1, <1>3, <1>4, <1>5 DEF MeasuredOK, InSession

(* Every step keeps what was measured.                                       *)
LEMMA MeasuredStep ==
    ASSUME TypeOK, TypeOK', Lockstep, LinedUp, MeasuredOK, [Next]_vars
    PROVE  MeasuredOK'
<1>1. CASE UNCHANGED vars
  BY <1>1 DEF vars, MeasuredOK, InSession, LastLine
<1>2. ASSUME NEW arg \in ClientArgs, ClientLaunch(arg) PROVE MeasuredOK'
  <2>1. /\ arg \in Args /\ cli' = ClientAt(arg, First(arg), 0, 0)
        /\ result' \in {result, <<>>}
    BY <1>2, ArgsAssumption DEF ClientLaunch
  <2>2. cli'.pc = "send" /\ cli'.pos = First(arg) /\ First(arg).op # "finish"
    BY <2>1, LaunchPlaces, FirstType
  <2> QED BY <2>1, <2>2 DEF MeasuredOK
<1>3. CASE ClientSend \/ ClientSendLost
  <2>1. /\ cli.pc = "send" /\ cli'.pc = "await" /\ cli'.pos = cli.pos
        /\ UNCHANGED <<srv, nginx, result>>
    BY <1>3 DEF ClientSend, ClientSendLost, ClientAsked, TypeOK
  <2>2. inbox["client"] = NoMessage
    BY <2>1 DEF Lockstep, TurnsOK
  <2> QED BY <2>1, <2>2 DEF MeasuredOK, InSession, LastLine
<1>4. CASE ClientAnswered
  <2>1. /\ cli.pos.op = "conf" /\ result' = result
        /\ \E nodes, count \in Int :
              cli' = ClientAt(cli.arg, Successor(cli.arg, cli.pos, nodes, count), nodes, count)
    BY <1>4, Kinds DEF ClientAnswered, Message
  <2>2. cli'.pos.op # "finish" /\ cli'.pc \in {"send", "exit"}
    BY <2>1, Kinds, SuccessorType DEF ClientAt
  <2> QED BY <2>1, <2>2 DEF MeasuredOK
<1>5. CASE WrkRun
  BY <1>5 DEF WrkRun, MeasuredOK, LastLine, TypeOK
<1>6. CASE WrkFails
  BY <1>6 DEF WrkFails, MeasuredOK, LastLine, TypeOK
<1>7. CASE ClientKilled
  BY <1>7 DEF ClientKilled, MeasuredOK, TypeOK
<1> QED
  BY <1>1, <1>2, <1>3, <1>4, <1>5, <1>6, <1>7, MeasuredServer, MeasuredChecked, MeasuredWrkEnds
     DEF Next, ServerStep, ClientStep, Fault, Terminated

-----------------------------------------------------------------------------
(* One spoiled test per failed stop                                          *)

(* The plan of the report is the plan of the scripts.                        *)
LEMMA SameConf ==
    ASSUME NEW p
    PROVE  Report!Measured(p) = {{ConfFor(p)}} \cup (IF p.ph = "server" THEN {{}} ELSE {})
<1>1. Report!CpuCount(p) = CpuCount(p)
  BY DEF Report!CpuCount, CpuCount, Report!Sockets, Sockets
<1>2. Report!ConfFor(p) = ConfFor(p)
  BY <1>1 DEF Report!ConfFor, ConfFor
<1> QED BY <1>2 DEF Report!Measured

(* The spoiled tests of result.txt, line by line.                            *)
LEMMA SpoiledAre ==
    SpoiledLines = {i \in DOMAIN result : /\ result[i].kind = "finish"
                                          /\ result[i - 1].on \notin Report!Measured(result[i].test)}
BY DEF SpoiledLines, Report!Spoiled, Reported

(* A file has finitely many lines,                                           *)
LEMMA LinesFinite ==
    ASSUME NEW file \in Seq(Line), NEW S \in SUBSET DOMAIN file
    PROVE  IsFiniteSet(S) /\ Cardinality(S) \in Nat
<1>1. Len(file) \in Nat /\ DOMAIN file = 1..Len(file)
  OBVIOUS
<1>2. IsFiniteSet(1..Len(file))
  BY <1>1, FS_Interval
<1> QED BY <1>1, <1>2, FS_Subset, FS_CardinalityType

(* and finitely many spoiled tests.                                          *)
LEMMA SpoiledFinite ==
    /\ TypeOK => IsFiniteSet(SpoiledLines) /\ Cardinality(SpoiledLines) \in Nat
    /\ TypeOK' => Cardinality(SpoiledLines') \in Nat
<1>1. SpoiledLines \subseteq DOMAIN result /\ SpoiledLines' \subseteq DOMAIN result'
  BY DEF SpoiledLines, Report!Spoiled, Reported
<1>2. (TypeOK => result \in Seq(Line)) /\ (TypeOK' => result' \in Seq(Line))
  BY DEF TypeOK
<1> QED BY <1>1, <1>2, LinesFinite

(* A new line of result.txt leaves the spoiled tests as they are, or is the  *)
(* end of one more.                                                          *)
LEMMA SpoiledAppend ==
    ASSUME TypeOK, TypeOK', MeasuredOK, NEW line \in Line, result' = Append(result, line),
           line.kind = "finish" => result # <<>>
    PROVE  /\ Cardinality(SpoiledLines') <= Cardinality(SpoiledLines) + 1
           /\ Cardinality(SpoiledLines') > Cardinality(SpoiledLines) =>
                 line.kind = "finish" /\ LastLine.on \notin Report!Measured(line.test)
<1>1. /\ result \in Seq(Line) /\ Len(result) \in Nat
      /\ DOMAIN result = 1..Len(result) /\ DOMAIN result' = 1..(Len(result) + 1)
      /\ result'[Len(result) + 1] = line /\ \A i \in 1..Len(result) : result'[i] = result[i]
  <2>1. result \in Seq(Line)
    BY DEF TypeOK
  <2> QED BY <2>1, AppendLine
<1>2. SpoiledLines' = {i \in DOMAIN result' :
                          /\ result'[i].kind = "finish"
                          /\ result'[i - 1].on \notin Report!Measured(result'[i].test)}
  BY DEF SpoiledLines, Report!Spoiled, Reported
<1>3. ASSUME NEW i \in 1..Len(result) PROVE i \in SpoiledLines' <=> i \in SpoiledLines
  <2>1. CASE result[i].kind # "finish"
    BY <1>1, <1>2, <1>3, <2>1, SpoiledAre
  <2>2. CASE result[i].kind = "finish"
    <3>1. i - 1 \in 1..Len(result)
      BY <1>1, <1>3, <2>2 DEF MeasuredOK
    <3>2. result'[i] = result[i] /\ result'[i - 1] = result[i - 1]
          /\ i \in DOMAIN result /\ i \in DOMAIN result'
      BY <1>1, <1>3, <3>1
    <3> QED BY <1>2, <3>2, SpoiledAre
  <2> QED BY <2>1, <2>2
<1> DEFINE new == Len(result) + 1
<1>4. /\ SpoiledLines \subseteq 1..Len(result) /\ SpoiledLines' \subseteq 1..Len(result) \cup {new}
      /\ new \notin SpoiledLines
  BY <1>1, <1>2, SpoiledAre
<1>5. new \in SpoiledLines' => line.kind = "finish" /\ LastLine.on \notin Report!Measured(line.test)
  <2> SUFFICES ASSUME new \in SpoiledLines'
               PROVE  line.kind = "finish" /\ LastLine.on \notin Report!Measured(line.test)
    OBVIOUS
  <2>1. /\ line.kind = "finish" /\ result'[new - 1].on \notin Report!Measured(line.test)
    BY <1>1, <1>2
  <2>2. Len(result) \in 1..Len(result) /\ new - 1 = Len(result)
    <3>1. Len(result) # 0
      BY <1>1, <2>1, EmptySeq
    <3> QED BY <1>1, <3>1
  <2> QED BY <1>1, <2>1, <2>2 DEF LastLine
<1> HIDE DEF new
<1>6. CASE new \in SpoiledLines'
  <2>1. SpoiledLines' = SpoiledLines \cup {new}
    BY <1>3, <1>4, <1>6
  <2>2. Cardinality(SpoiledLines') = Cardinality(SpoiledLines) + 1
    BY <1>4, <2>1, SpoiledFinite, FS_AddElement
  <2> QED BY <1>5, <1>6, <2>2, SpoiledFinite
<1>7. CASE new \notin SpoiledLines'
  <2>1. SpoiledLines' = SpoiledLines
    BY <1>3, <1>4, <1>7
  <2> QED BY <2>1, SpoiledFinite
<1> QED BY <1>6, <1>7

(* The account is kept by a step that does not add to its left side.         *)
LEMMA AccountKept ==
    ASSUME TypeOK, TypeOK', Accounted, used'["stop"] >= used["stop"],
           Cardinality(SpoiledLines') + One(Tainted)' + One(Pending)'
               <= Cardinality(SpoiledLines) + One(Tainted) + One(Pending)
    PROVE  Accounted'
<1>1. Cardinality(SpoiledLines) \in Nat /\ Cardinality(SpoiledLines') \in Nat
  BY SpoiledFinite
<1>2. used["stop"] \in Nat /\ used'["stop"] \in Nat
  BY DEF TypeOK, FaultKinds
<1>3. One(Tainted) \in Nat /\ One(Pending) \in Nat /\ One(Tainted)' \in Nat /\ One(Pending)' \in Nat
  BY DEF One
<1> QED BY <1>1, <1>2, <1>3 DEF Accounted

(* A step that writes nothing, spoils nothing and fails no stop.             *)
LEMMA AccountFrame ==
    ASSUME TypeOK, TypeOK', Accounted, result' = result, used'["stop"] >= used["stop"],
           Tainted' => Tainted, Pending' => Pending
    PROVE  Accounted'
<1>1. SpoiledLines' = SpoiledLines
  BY DEF SpoiledLines, Report!Spoiled, Reported
<1>2. One(Tainted)' <= One(Tainted) /\ One(Pending)' <= One(Pending)
  BY DEF One
<1>3. One(Tainted) \in Nat /\ One(Pending) \in Nat /\ One(Tainted)' \in Nat /\ One(Pending)' \in Nat
  BY DEF One
<1>4. Cardinality(SpoiledLines) \in Nat
  BY SpoiledFinite
<1> HIDE DEF Tainted, Pending
<1>5. Cardinality(SpoiledLines') + One(Tainted)' + One(Pending)'
          <= Cardinality(SpoiledLines) + One(Tainted) + One(Pending)
  BY <1>1, <1>2, <1>3, <1>4
<1> QED BY <1>5, AccountKept

(* A test that begins on an nginx that was not stopped is paid for.          *)
LEMMA AccountRestart ==
    ASSUME TypeOK, TypeOK', Lockstep, Accounted,
           StopNginx \/ StopNginxFails \/ StartNginx \/ StartNginxFails
    PROVE  Accounted'
<1>1. /\ srv.pc \in {"configure", "restart"} /\ srv'.pos = srv.pos
      /\ UNCHANGED <<cli, inbox, result>> /\ used["stop"] \in Nat
  BY DEF StopNginx, StopNginxFails, StartNginx, StartNginxFails, Reconfigure, Restarted, TypeOK,
         FaultKinds
<1>2. Pending' = Pending
  BY <1>1 DEF Pending, LastLine
<1>3. CASE StopNginx
  <2>1. nginx' = Down /\ used' = used
    BY <1>3 DEF StopNginx, Reconfigure
  <2> QED BY <1>1, <1>2, <2>1, AccountFrame DEF Tainted
<1>4. CASE StartNginxFails
  <2>1. nginx' = Down /\ used'["stop"] = used["stop"]
    BY <1>4 DEF StartNginxFails, Restarted, Spend, TypeOK, FaultKinds
  <2> QED BY <1>1, <1>2, <2>1, AccountFrame DEF Tainted
<1>5. CASE StartNginx
  <2>1. srv.pc = "restart" /\ nginx' \in {conf, nginx} /\ used' = used
    BY <1>5 DEF StartNginx, Restarted
  <2>2. conf = ConfFor(srv.pos)
    BY <2>1 DEF Lockstep, NginxOK
  <2>3. Tainted' => Tainted
    BY <1>1, <2>1, <2>2 DEF Tainted
  <2> QED BY <1>1, <1>2, <2>1, <2>3, AccountFrame
<1>6. CASE StopNginxFails
  <2>1. srv.pc = "configure" /\ used'["stop"] = used["stop"] + 1
    BY <1>6 DEF StopNginxFails, Reconfigure, Spend, TypeOK, FaultKinds
  <2>2. ~Tainted
    BY <2>1 DEF Tainted
  <2>3. SpoiledLines' = SpoiledLines
    BY <1>1 DEF SpoiledLines, Report!Spoiled, Reported
  <2>4. Cardinality(SpoiledLines) \in Nat
    BY SpoiledFinite
  <2>5. One(Tainted) = 0 /\ One(Tainted)' \in {0, 1} /\ One(Pending)' = One(Pending)
        /\ One(Pending) \in Nat
    BY <1>2, <2>2 DEF One
  <2> QED BY <1>1, <2>1, <2>3, <2>4, <2>5 DEF Accounted
<1> QED BY <1>3, <1>4, <1>5, <1>6

(* A spoiled test that ends goes over from the server to the client.         *)
LEMMA AccountReply ==
    ASSUME TypeOK, TypeOK', Lockstep, LinedUp, MeasuredOK, Accounted, ServerReply \/ ServerReplyLost
    PROVE  Accounted'
<1> DEFINE next == Successor(srv.arg, srv.pos, NodeNum, CpuCount(srv.pos))
<1>1. /\ srv.pc = "reply" /\ srv' = ServerAt(srv.arg, next)
      /\ UNCHANGED <<cli, nginx, result>>
      /\ used'["stop"] = used["stop"] /\ used["stop"] \in Nat
  BY DEF ServerReply, ServerReplyLost, ServerAdvance, ServerNext, Spend, TypeOK, FaultKinds
<1>2. /\ next \in Position /\ (srv.pos.op = "start" => next = SameTest(srv.pos))
      /\ srv.pos.op # "start" => next.op # "finish"
  BY ServerOnward
<1> HIDE DEF next
<1>3. srv'.pos = next /\ srv'.pc = IF next.op = "start" THEN "configure"
                                   ELSE IF next.op = "done" THEN "exit" ELSE "listen"
  BY <1>1, <1>2, Kinds, ServerAtType
<1>4. inbox["client"] = NoMessage /\ ~Pending
  BY <1>1 DEF Lockstep, TurnsOK, Pending
<1>5. Tainted' => srv.pos.op = "start" /\ Tainted
  <2> SUFFICES ASSUME Tainted' PROVE srv.pos.op = "start" /\ Tainted
    OBVIOUS
  <2>1. srv'.pc = "listen" /\ next.op = "finish" /\ nginx \notin {ConfFor(next), Down}
    BY <1>1, <1>3 DEF Tainted
  <2>2. srv.pos.op = "start" /\ next = SameTest(srv.pos)
    BY <1>2, <2>1
  <2>3. ConfFor(next) = ConfFor(srv.pos)
    BY <2>2, Kinds, ConfForType DEF SameTest
  <2> QED BY <1>1, <2>1, <2>2, <2>3 DEF Tainted
<1>6. Pending' => srv.pos.op = "finish" /\ Tainted
  <2> SUFFICES ASSUME Pending' PROVE srv.pos.op = "finish" /\ Tainted
    OBVIOUS
  <2>1. /\ cli.pos.op = "finish" /\ inbox'["client"] # NoMessage
        /\ LastLine.on \notin Report!Measured(cli.pos)
    BY <1>1 DEF Pending, LastLine
  <2>2. cli.pc = "await"
    BY <1>4, <2>1 DEF ServerReply, ServerReplyLost, Accepting
  <2>3. ~Fresh
    BY <2>1, Kinds, FirstType DEF Fresh
  <2>4. srv.pos = cli.pos
    BY <1>1, <2>2, <2>3, ReplierLevel
  <2>5. \/ nginx # Down /\ LastLine.on = {nginx}
        \/ cli.pos.ph = "server" /\ LastLine.on = {}
    BY <1>1, <1>4, <2>1, <2>2, <2>4 DEF MeasuredOK, InSession
  <2>6. nginx # Down /\ nginx # ConfFor(cli.pos)
    BY <2>1, <2>5, SameConf
  <2> QED BY <1>1, <2>1, <2>4, <2>6 DEF Tainted
<1>7. SpoiledLines' = SpoiledLines
  BY <1>1 DEF SpoiledLines, Report!Spoiled, Reported
<1>8. Cardinality(SpoiledLines) \in Nat
  BY SpoiledFinite
<1>9. /\ One(Tainted)' + One(Pending)' <= One(Tainted) + One(Pending)
      /\ One(Tainted)' \in Nat /\ One(Pending)' \in Nat
      /\ One(Tainted) \in Nat /\ One(Pending) \in Nat
  BY <1>4, <1>5, <1>6 DEF One
<1>10. Cardinality(SpoiledLines') + One(Tainted)' + One(Pending)'
           <= Cardinality(SpoiledLines) + One(Tainted) + One(Pending)
  BY <1>7, <1>8, <1>9
<1> QED BY <1>1, <1>10, AccountKept

(* A line that ends a spoiled test was owed; the others cost nothing.        *)
LEMMA AccountAppend ==
    ASSUME TypeOK, TypeOK', MeasuredOK, Accounted, UNCHANGED <<srv, nginx, used>>,
           NEW line \in Line, result' = Append(result, line),
           line.kind = "finish" => /\ result # <<>> /\ line.test = cli.pos
                                   /\ cli.pos.op = "finish" /\ inbox["client"] # NoMessage,
           inbox'["client"] = NoMessage
    PROVE  Accounted'
<1>1. /\ Cardinality(SpoiledLines') <= Cardinality(SpoiledLines) + 1
      /\ Cardinality(SpoiledLines') > Cardinality(SpoiledLines) =>
            line.kind = "finish" /\ LastLine.on \notin Report!Measured(line.test)
  BY SpoiledAppend
<1>2. Cardinality(SpoiledLines') \in Nat /\ Cardinality(SpoiledLines) \in Nat
  BY SpoiledFinite
<1>3. Cardinality(SpoiledLines') > Cardinality(SpoiledLines) => Pending
  BY <1>1 DEF Pending
<1>4. ~Pending' /\ (Tainted' <=> Tainted)
  BY DEF Pending, Tainted
<1>5. /\ One(Tainted)' = One(Tainted) /\ One(Pending)' = 0 /\ One(Tainted) \in Nat
      /\ One(Pending) = IF Pending THEN 1 ELSE 0
  BY <1>4 DEF One
<1>6. Cardinality(SpoiledLines') <= Cardinality(SpoiledLines) + One(Pending)
  BY <1>1, <1>2, <1>3, <1>5
<1>7. One(Pending) \in Nat
  BY <1>5
<1>8. Cardinality(SpoiledLines') + One(Tainted)' + One(Pending)'
          <= Cardinality(SpoiledLines) + One(Tainted) + One(Pending)
  BY <1>2, <1>5, <1>6, <1>7
<1>9. used'["stop"] >= used["stop"]
  BY DEF TypeOK, FaultKinds
<1> QED BY <1>8, <1>9, AccountKept

(* Every step keeps the account.                                             *)
LEMMA AccountedStep ==
    ASSUME TypeOK, TypeOK', Lockstep, LinedUp, MeasuredOK, Accounted, [Next]_vars
    PROVE  Accounted'
<1>0. used["stop"] \in Nat
  BY DEF TypeOK, FaultKinds
<1>1. CASE UNCHANGED vars
  BY <1>0, <1>1, AccountFrame DEF vars, Tainted, Pending, LastLine
<1>2. CASE ServerReceive
  <2>1. /\ srv.pc = "listen" /\ srv'.pos = srv.pos /\ inbox'["client"] = inbox["client"]
        /\ UNCHANGED <<cli, nginx, result, used>>
    BY <1>2 DEF ServerReceive, TypeOK, Hosts
  <2> QED BY <1>0, <2>1, AccountFrame DEF Tainted, Pending, LastLine
<1>3. CASE ServerKilled
  <2>1. /\ srv'.pc = "off" /\ inbox'["client"] = inbox["client"] /\ UNCHANGED <<cli, result>>
        /\ used'["stop"] = used["stop"]
    BY <1>3 DEF ServerKilled, Spend, TypeOK, Hosts, FaultKinds
  <2> QED BY <1>0, <2>1, AccountFrame DEF Tainted, Pending, LastLine
<1>4. ASSUME NEW arg \in ServerArgs, ServerLaunch(arg) PROVE Accounted'
  <2>1. /\ arg \in Args /\ srv' = ServerAt(arg, First(arg)) /\ UNCHANGED <<cli, inbox, result>>
        /\ used'["stop"] = used["stop"]
    BY <1>4, ArgsAssumption DEF ServerLaunch, Spend, TypeOK, FaultKinds
  <2>2. ~Tainted'
    <3>1. First(arg).op \in {"conf", "start"}
      BY <2>1, FirstType
    <3> QED BY <2>1, <3>1 DEF Tainted, ServerAt
  <2> QED BY <1>0, <2>1, <2>2, AccountFrame DEF Pending, LastLine
<1>5. ASSUME NEW arg \in ClientArgs, ClientLaunch(arg) PROVE Accounted'
  <2>1. /\ arg \in Args /\ cli' = ClientAt(arg, First(arg), 0, 0) /\ result' \in {result, <<>>}
        /\ used'["stop"] = used["stop"] /\ UNCHANGED <<srv, nginx>>
    BY <1>5, ArgsAssumption DEF ClientLaunch, Spend, TypeOK, FaultKinds
  <2>2. ~Pending'
    BY <2>1, LaunchPlaces, FirstType DEF Pending
  <2>3. Tainted' <=> Tainted
    BY <2>1 DEF Tainted
  <2>4. CASE result' = result
    BY <1>0, <2>1, <2>2, <2>3, <2>4, AccountFrame
  <2>5. CASE result' = <<>>
    <3>1. SpoiledLines' = {}
      BY <2>5 DEF SpoiledLines, Report!Spoiled, Reported
    <3>2. Cardinality(SpoiledLines') = 0 /\ Cardinality(SpoiledLines) \in Nat
      BY <3>1, FS_EmptySet, SpoiledFinite
    <3>3. One(Tainted)' = One(Tainted) /\ One(Pending)' = 0
          /\ One(Tainted) \in Nat /\ One(Pending) \in Nat
      BY <2>2, <2>3 DEF One
    <3>4. Cardinality(SpoiledLines') + One(Tainted)' + One(Pending)'
              <= Cardinality(SpoiledLines) + One(Tainted) + One(Pending)
      BY <3>2, <3>3
    <3> QED BY <1>0, <2>1, <3>4, AccountKept
  <2> QED BY <2>1, <2>4, <2>5
<1>6. CASE ClientSend \/ ClientSendLost
  <2>1. /\ cli.pc = "send" /\ inbox'["client"] = inbox["client"] /\ UNCHANGED <<srv, nginx, result>>
        /\ used'["stop"] = used["stop"]
    BY <1>6 DEF ClientSend, ClientSendLost, ClientAsked, Spend, TypeOK, Hosts, FaultKinds
  <2>2. inbox["client"] = NoMessage
    BY <2>1 DEF Lockstep, TurnsOK
  <2> QED BY <1>0, <2>1, <2>2, AccountFrame DEF Tainted, Pending
<1>7. CASE ClientAnswered \/ ClientKilled
  <2>1. /\ inbox'["client"] = NoMessage /\ UNCHANGED <<srv, nginx, result>>
        /\ used'["stop"] = used["stop"]
    BY <1>7 DEF ClientAnswered, ClientKilled, Spend, TypeOK, Hosts, FaultKinds
  <2> QED BY <1>0, <2>1, AccountFrame DEF Tainted, Pending
<1>8. CASE WrkRun \/ WrkFails
  <2>1. /\ cli.pc = "wrk" /\ UNCHANGED <<srv, nginx, result, used, inbox>>
    BY <1>8 DEF WrkRun, WrkFails
  <2>2. inbox["client"] = NoMessage
    BY <2>1 DEF Lockstep, TurnsOK
  <2> QED BY <1>0, <2>1, <2>2, AccountFrame DEF Tainted, Pending
<1>9. CASE WrkEnds
  <2>1. /\ cli.pc = "running" /\ UNCHANGED <<srv, nginx, used, inbox>>
        /\ result' = Append(result, Entry("sec", cli.pos, seen))
    BY <1>9 DEF WrkEnds
  <2>2. inbox["client"] = NoMessage
    BY <2>1 DEF Lockstep, TurnsOK
  <2>3. Entry("sec", cli.pos, seen) \in Line /\ Entry("sec", cli.pos, seen).kind = "sec"
    BY Kinds, EntryType DEF Entry, TypeOK
  <2> QED BY <2>1, <2>2, <2>3, AccountAppend
<1>10. CASE ClientStarted \/ ClientFinished
  <2>1. PICK kind \in {"start", "starterror", "finish", "finisherror"} :
            /\ result' = Append(result, Entry(kind, cli.pos, {}))
            /\ kind = "finish" => cli.pos.op = "finish"
    BY <1>10 DEF ClientStarted, ClientFinished, ClientChecked
  <2>2. /\ cli.pc = "await" /\ inbox["client"] # NoMessage /\ inbox'["client"] = NoMessage
        /\ UNCHANGED <<srv, nginx, used>>
    BY <1>10 DEF ClientStarted, ClientFinished, ClientChecked, TypeOK, Hosts
  <2>3. /\ Entry(kind, cli.pos, {}) \in Line /\ Entry(kind, cli.pos, {}).kind = kind
        /\ Entry(kind, cli.pos, {}).test = cli.pos
    BY Kinds, EntryType DEF Entry
  <2>4. kind = "finish" => result # <<>>
    BY <2>1, <2>2 DEF MeasuredOK
  <2> QED BY <2>1, <2>2, <2>3, <2>4, AccountAppend
<1> QED
  BY <1>1, <1>2, <1>3, <1>4, <1>5, <1>6, <1>7, <1>8, <1>9, <1>10, AccountRestart, AccountReply
     DEF Next, ServerStep, ClientStep, Fault, Terminated

-----------------------------------------------------------------------------
(* The order of the report                                                   *)

(* The handshake after p for a script that knows the machine.                *)
Onward(arg, p) == Successor(arg, p, NodeNum, CpuCount(p))

(* The report's copy of the plan is the plan of the scripts.                 *)
LEMMA SamePlan ==
    ASSUME NEW arg, NEW p
    PROVE  /\ Report!Successor(arg, p, NodeNum, Report!CpuCount(p)) = Onward(arg, p)
           /\ Report!First(arg) = First(arg)
<1>1. Report!CpuCount(p) = CpuCount(p)
  BY DEF Report!CpuCount, CpuCount, Report!Sockets, Sockets
<1>2. \A ph, op, mode, node, core : Report!At(ph, op, mode, node, core) = At(ph, op, mode, node, core)
  BY DEF Report!At, At
<1>3. /\ \A ph, mode, node, core : Report!StartOf(ph, mode, node, core) = StartOf(ph, mode, node, core)
      /\ \A mode, node : Report!NodeConf(mode, node) = NodeConf(mode, node)
      /\ \A ph : Report!Conf(ph) = Conf(ph)
      /\ Report!Done = Done /\ Report!Sockets = Sockets
  BY <1>2 DEF Report!StartOf, StartOf, Report!NodeConf, NodeConf, Report!Conf, Conf,
              Report!Done, Done, Report!Sockets, Sockets
<1>4. \A ph : Report!PhaseStart(ph) = PhaseStart(ph)
  BY <1>3 DEF Report!PhaseStart, PhaseStart
<1>5. \A ph : Report!PhaseAfter(arg, ph) = PhaseAfter(arg, ph)
  BY <1>3, <1>4 DEF Report!PhaseAfter, PhaseAfter
<1>6. \A mode, node : Report!NodeAfter(arg, mode, node, NodeNum) = NodeAfter(arg, mode, node, NodeNum)
  BY <1>3, <1>5 DEF Report!NodeAfter, NodeAfter
<1>7. Report!ModeAfter(arg, p, NodeNum) = ModeAfter(arg, p, NodeNum)
  BY <1>3, <1>5, <1>6 DEF Report!ModeAfter, ModeAfter
<1>8. Report!Successor(arg, p, NodeNum, CpuCount(p)) = Successor(arg, p, NodeNum, CpuCount(p))
  BY <1>3, <1>5, <1>7 DEF Report!Successor, Successor, Report!Tested, Tested
<1>9. Report!First(arg) = First(arg)
  BY <1>4 DEF Report!First, First
<1> QED BY <1>1, <1>8, <1>9 DEF Onward

(* The test a handshake leads to is itself, or the one its successor leads   *)
(* to when it is a question.                                                 *)
LEMMA SkipQuestion ==
    ASSUME NEW arg \in Args, NEW p \in Position, Regular(p)
    PROVE  /\ p.op # "conf" => Report!TestFrom(arg, p) = p
           /\ p.op = "conf" => Report!TestFrom(arg, p) = Report!TestFrom(arg, Onward(arg, p))
<1> DEFINE Skip(q) == IF q.op = "conf" THEN Onward(arg, q) ELSE q
<1>1. \A q : Report!TestFrom(arg, q) = Skip(Skip(q))
  BY SamePlan DEF Report!TestFrom
<1>2. ASSUME p.op = "conf"
      PROVE  Skip(Onward(arg, p)).op # "conf"
  <2>1. CpuCount(p) \in Int /\ NodeNum \in Int /\ NodeNum > 0
    BY CpuCountType
  <2>2. p.ph \in Sockets \cup {"node", "stats"}
    BY <1>2 DEF Regular, WellFormed
  <2>3. CASE p.ph = "node" /\ p.node = -1
    <3>1. Onward(arg, p) = NodeConf(1, 0)
      BY <1>2, <2>1, <2>3 DEF Onward, Successor, Sockets
    <3>2. NodeConf(1, 0) \in Position /\ Regular(NodeConf(1, 0)) /\ NodeConf(1, 0).op = "conf"
          /\ NodeConf(1, 0).ph = "node" /\ NodeConf(1, 0).node = 0
      BY DEF Regular, WellFormed, NodeConf, At, Position, Phases
    <3>3. Onward(arg, NodeConf(1, 0)) = StartOf("node", NodeConf(1, 0).mode, 0, 1)
      BY <3>2 DEF Onward, Successor, Sockets
    <3> QED BY <3>1, <3>2, <3>3 DEF StartOf, At
  <2>4. CASE ~(p.ph = "node" /\ p.node = -1)
    <3>1. Onward(arg, p) \in {StartOf(p.ph, 1, -1, 1), StartOf("node", p.mode, p.node, 1), Done}
      BY <1>2, <2>1, <2>2, <2>4, SuccessorIs DEF Onward
    <3>2. Onward(arg, p).op # "conf"
      BY <3>1 DEF StartOf, Done, At
    <3> QED BY <3>2
  <2> QED BY <2>3, <2>4
<1>3. CASE p.op # "conf"
  BY <1>1, <1>3
<1>4. CASE p.op = "conf"
  <2>1. Report!TestFrom(arg, p) = Skip(Onward(arg, p))
    BY <1>1, <1>4
  <2>2. Report!TestFrom(arg, Onward(arg, p)) = Skip(Skip(Onward(arg, p)))
    BY <1>1
  <2> HIDE DEF Skip
  <2>3. Skip(Skip(Onward(arg, p))) = Skip(Onward(arg, p))
    BY <1>2, <1>4 DEF Skip
  <2> QED BY <1>4, <2>1, <2>2, <2>3
<1> QED BY <1>3, <1>4

(* A new line of result.txt is one more test of the report when it ends one, *)
(* and nothing otherwise.                                                    *)
LEMMA ReportedAppend ==
    ASSUME TypeOK, TypeOK', MeasuredOK, NEW line \in Line, result' = Append(result, line)
    PROVE  LET new == Len(result) + 1 IN
           /\ line.kind # "finish" => Reported' = Reported
           /\ line.kind = "finish" =>
                 /\ DOMAIN Reported' = DOMAIN Reported \cup {new}
                 /\ \A i \in DOMAIN Reported : i < new /\ Reported'[i] = Reported[i]
                 /\ Reported'[new].test = line.test
                 /\ Report!LastLine' = new
<1> DEFINE new == Len(result) + 1
           Ends == {k \in DOMAIN result : result[k].kind = "finish"}
           EndsNext == {k \in DOMAIN result' : result'[k].kind = "finish"}
<1>1. /\ Len(result) \in Nat /\ new \in Nat
      /\ DOMAIN result = 1..Len(result) /\ DOMAIN result' = 1..new
      /\ result'[new] = line /\ \A i \in 1..Len(result) : result'[i] = result[i]
  <2>1. result \in Seq(Line)
    BY DEF TypeOK
  <2> QED BY <2>1, AppendLine
<1>2. \A i \in Ends : i \in 1..Len(result) /\ i - 1 \in 1..Len(result)
  BY <1>1 DEF MeasuredOK
<1>3. EndsNext = Ends \cup (IF line.kind = "finish" THEN {new} ELSE {})
  BY <1>1
<1>4. /\ Reported = [i \in Ends |-> [test |-> result[i].test, on |-> result[i - 1].on]]
      /\ Reported' = [i \in EndsNext |-> [test |-> result'[i].test, on |-> result'[i - 1].on]]
  BY DEF Reported
<1> HIDE DEF Ends, EndsNext
<1>5. \A i \in Ends : i < new /\ Reported'[i] = Reported[i]
  <2> SUFFICES ASSUME NEW i \in Ends PROVE i < new /\ Reported'[i] = Reported[i]
    OBVIOUS
  <2>1. result'[i] = result[i] /\ result'[i - 1] = result[i - 1] /\ i < new
    BY <1>1, <1>2
  <2> QED BY <1>3, <1>4, <2>1
<1>6. DOMAIN Reported = Ends /\ DOMAIN Reported' = EndsNext
  BY <1>4
<1>7. CASE line.kind # "finish"
  <2>1. EndsNext = Ends
    BY <1>3, <1>7
  <2>2. Reported' = [i \in Ends |-> Reported'[i]] /\ Reported = [i \in Ends |-> Reported[i]]
    BY <1>4, <2>1
  <2> QED BY <1>5, <1>7, <2>2
<1>8. CASE line.kind = "finish"
  <2>1. EndsNext = Ends \cup {new} /\ new \in EndsNext
    BY <1>3, <1>8
  <2>2. Reported'[new].test = line.test
    BY <1>1, <1>4, <2>1
  <2>3. \A j \in EndsNext : j <= new
    BY <1>1, <1>2, <2>1
  <2>4. \A i \in EndsNext : (\A j \in EndsNext : j <= i) => i = new
    BY <1>1, <1>2, <2>1
  <2>5. Report!LastLine' = CHOOSE i \in EndsNext : \A j \in EndsNext : j <= i
    BY <1>6 DEF Report!LastLine
  <2>6. Report!LastLine' = new
    BY <2>1, <2>3, <2>4, <2>5
  <2> QED BY <1>5, <1>6, <1>8, <2>1, <2>2, <2>6
<1> QED BY <1>7, <1>8

(* The report goes on where it was.                                          *)
LEMMA OrderKept ==
    ASSUME InOrder, Reported' = Reported, cli'.arg = cli.arg, Live' => Live, Live' => Coming' = Coming
    PROVE  InOrder'
<1>1. Report!NextTest' = Report!NextTest
  BY DEF Report!NextTest, Report!LastLine
<1> QED BY <1>1 DEF InOrder

(* The answer to a question takes wrk.sh to the next handshake, or it ends:  *)
(* even the answer to a question its dead predecessor has asked.             *)
LEMMA AnsweredOnward ==
    ASSUME TypeOK, LinedUp, ClientAnswered
    PROVE  /\ cli.pos.op = "conf" /\ Live /\ cli'.arg = cli.arg
           /\ Live' => cli'.pos = Onward(cli.arg, cli.pos)
<1> DEFINE num == inbox["client"].num
           ofNodes == cli.pos.ph = "node" /\ cli.pos.node = -1
           nodes == IF ofNodes THEN num ELSE cli.nodes
           count == IF ofNodes THEN cli.count ELSE num
           next == Successor(cli.arg, cli.pos, nodes, count)
<1>1. /\ cli.pc = "await" /\ cli.pos.op = "conf" /\ inbox["client"] # NoMessage
      /\ cli' = ClientAt(cli.arg, next, nodes, count)
  BY DEF ClientAnswered
<1>2. /\ cli.pos \in Position /\ cli.arg \in Args /\ Regular(cli.pos) /\ ReplyOK
      /\ cli.pos.ph \in Sockets \cup {"node", "stats"}
  BY <1>1, Kinds DEF LinedUp, Regular, WellFormed
<1>3. ofNodes => nodes = num
  OBVIOUS
<1> HIDE DEF nodes, count
<1>4. cli'.pos = next /\ cli'.arg = cli.arg /\ (next.op = "done" => ~Live')
  BY <1>1 DEF ClientAt, Live
<1>5. CASE ~ofNodes
  <2>1. next = Onward(cli.arg, cli.pos)
    BY <1>1, <1>2, <1>5 DEF Onward, Successor, Sockets
  <2> QED BY <1>1, <1>4, <2>1 DEF Live
<1>6. CASE ofNodes
  <2>1. /\ next = IF nodes > 0 THEN NodeConf(1, 0) ELSE PhaseAfter(cli.arg, "node")
        /\ Onward(cli.arg, cli.pos) = NodeConf(1, 0)
    BY <1>1, <1>6 DEF Onward, Successor, Sockets
  <2>2. CASE inbox["client"] = Reply(cli.pos)
    <3>1. nodes = NodeNum
      BY <1>1, <1>3, <1>6, <2>2 DEF Reply, Number, Answer
    <3> QED BY <1>1, <1>4, <2>1, <3>1 DEF Live
  <2>3. CASE Fresh
    <3>1. cli.arg = "node"
      BY <1>1, <1>2, <1>6, <2>3, FirstConf DEF Fresh
    <3>2. PhaseAfter(cli.arg, "node") = Done /\ Done.op = "done"
      BY <3>1, PhaseAfterIs DEF Done, At
    <3> HIDE DEF next
    <3> QED BY <1>1, <1>4, <2>1, <3>2 DEF Live
  <2> QED BY <1>1, <1>2, <2>2, <2>3 DEF ReplyOK
<1> QED BY <1>5, <1>6

(* The reply that ends a test takes wrk.sh to the next handshake.            *)
LEMMA FinishedOnward ==
    ASSUME TypeOK, Lockstep, LinedUp, ClientFinished, Contains(inbox["client"].pos, cli.pos)
    PROVE  /\ cli.pc = "await" /\ cli.pos.op = "finish" /\ cli.arg # "stats"
           /\ result' = Append(result, Entry("finish", cli.pos, {}))
           /\ cli'.arg = cli.arg /\ cli'.pos = Onward(cli.arg, cli.pos)
           /\ cli'.pos \in Position /\ Regular(cli'.pos) /\ cli'.pos.op # "finish"
<1>1. /\ cli.pc = "await" /\ cli.pos.op = "finish" /\ inbox["client"] # NoMessage
      /\ result' = Append(result, Entry("finish", cli.pos, {}))
      /\ cli' = ClientAt(cli.arg, ClientNext, cli.nodes, cli.count)
  BY DEF ClientFinished, ClientChecked
<1>2. /\ inbox["client"] = Reply(cli.pos)
      /\ Up => Anew \/ srv.pos = Successor(srv.arg, cli.pos, NodeNum, CpuCount(cli.pos))
  BY <1>1 DEF LinedUp, ReplyOK
<1>3. /\ ClientNext = Onward(cli.arg, cli.pos)
      /\ ClientNext \in Position /\ Regular(ClientNext)
  BY <1>1, <1>2, Kinds, TakesReply DEF ClientNext, Onward
<1>4. cli.arg # "stats"
  BY <1>1 DEF LinedUp, Conf, Done, At
<1>5. ClientNext.op # "finish"
  BY <1>1, Kinds, SuccessorType DEF ClientNext
<1>6. cli'.arg = cli.arg /\ cli'.pos = ClientNext
  BY <1>1 DEF ClientAt
<1> QED BY <1>1, <1>3, <1>4, <1>5, <1>6

(* wrk.sh in a test comes to that test.                                      *)
LEMMA ComingIs ==
    ASSUME NEW arg \in Args, NEW p \in Position, Regular(p), p.op = "finish"
    PROVE  Report!TestFrom(arg, [p EXCEPT !.op = "start"]) = [p EXCEPT !.op = "start"]
<1> DEFINE q == [p EXCEPT !.op = "start"]
<1>1. q \in Position /\ q.op = "start"
  BY DEF Position
<1>2. Regular(q)
  BY DEF Regular, WellFormed, Position
<1> QED BY <1>1, <1>2, SkipQuestion

(* Every step keeps the order.                                               *)
LEMMA OrderStep ==
    ASSUME TypeOK, TypeOK', Lockstep, LinedUp, MeasuredOK, InOrder, [Next]_vars
    PROVE  InOrder'
<1>0. result' = result => Reported' = Reported
  BY DEF Reported
<1>1. CASE cli' = cli /\ result' = result
  BY <1>0, <1>1, OrderKept DEF Live, Coming
<1>2. ASSUME NEW arg \in ClientArgs, ClientLaunch(arg) PROVE InOrder'
  <2>1. /\ arg \in Args /\ cli' = ClientAt(arg, First(arg), 0, 0)
        /\ arg # "stats" => result' = <<>>
    BY <1>2, ArgsAssumption DEF ClientLaunch
  <2>2. cli'.arg = arg /\ cli'.pos = First(arg) /\ First(arg).op # "finish"
    BY <2>1, LaunchPlaces, FirstType DEF ClientAt
  <2>3. Coming' = Report!TestFrom(arg, First(arg))
    BY <2>2 DEF Coming
  <2>4. arg # "stats" => Reported' = [i \in {} |-> Reported'[i]]
    BY <2>1 DEF Reported
  <2>5. arg # "stats" => Report!NextTest' = Report!TestFrom(arg, First(arg))
    BY <2>2, <2>4, SamePlan DEF Report!NextTest
  <2> QED BY <2>2, <2>3, <2>5 DEF InOrder
<1>3. CASE ClientSend \/ ClientSendLost \/ WrkRun \/ WrkFails
  <2>1. /\ cli.pc \in {"send", "wrk"} /\ cli'.pos = cli.pos /\ cli'.arg = cli.arg /\ result' = result
    BY <1>3 DEF ClientSend, ClientSendLost, ClientAsked, WrkRun, WrkFails, TypeOK
  <2> QED BY <1>0, <2>1, OrderKept DEF Live, Coming
<1>4. CASE WrkEnds
  <2>1. /\ cli.pc = "running" /\ cli'.pos = cli.pos /\ cli'.arg = cli.arg
        /\ result' = Append(result, Entry("sec", cli.pos, seen))
    BY <1>4 DEF WrkEnds, TypeOK
  <2>2. Entry("sec", cli.pos, seen) \in Line /\ Entry("sec", cli.pos, seen).kind = "sec"
    BY Kinds, EntryType DEF Entry, TypeOK
  <2>3. Reported' = Reported
    BY <2>1, <2>2, ReportedAppend
  <2> QED BY <2>1, <2>3, OrderKept DEF Live, Coming
<1>5. CASE ClientKilled
  <2>1. ~Live'
    BY <1>5 DEF ClientKilled, Live, TypeOK
  <2> QED BY <2>1 DEF InOrder
<1>6. CASE ClientAnswered
  <2>1. result' = result
    BY <1>6 DEF ClientAnswered
  <2>2. /\ cli.pos.op = "conf" /\ Live /\ cli'.arg = cli.arg
        /\ Live' => cli'.pos = Onward(cli.arg, cli.pos)
    BY <1>6, AnsweredOnward
  <2>3. Onward(cli.arg, cli.pos).op # "finish"
    BY <2>2, Kinds, SuccessorType DEF Onward
  <2>4. Live' => Coming' = Report!TestFrom(cli.arg, Onward(cli.arg, cli.pos))
    BY <2>2, <2>3 DEF Coming
  <2>5. Coming = Report!TestFrom(cli.arg, Onward(cli.arg, cli.pos))
    BY <2>2, Kinds, SkipQuestion DEF Coming, LinedUp
  <2> QED BY <1>0, <2>1, <2>2, <2>4, <2>5, OrderKept
<1>7. CASE (ClientStarted \/ ClientFinished) /\ ~Contains(inbox["client"].pos, cli.pos)
  <2>1. ~Live'
    BY <1>7 DEF ClientStarted, ClientFinished, ClientChecked, Live, TypeOK
  <2> QED BY <2>1 DEF InOrder
<1>8. CASE ClientStarted /\ Contains(inbox["client"].pos, cli.pos)
  <2>1. /\ cli.pc = "await" /\ cli.pos.op = "start" /\ cli'.pos = ClientNext /\ cli'.arg = cli.arg
        /\ result' = Append(result, Entry("start", cli.pos, {}))
    BY <1>8 DEF ClientStarted, ClientChecked, TypeOK
  <2>2. Entry("start", cli.pos, {}) \in Line /\ Entry("start", cli.pos, {}).kind = "start"
    BY Kinds, EntryType DEF Entry
  <2>3. Reported' = Reported
    BY <2>1, <2>2, ReportedAppend
  <2>4. ClientNext = SameTest(cli.pos)
    BY <2>1, Kinds, SuccessorType DEF ClientNext
  <2>5. /\ SameTest(cli.pos).op = "finish"
        /\ [SameTest(cli.pos) EXCEPT !.op = "start"] = cli.pos
    BY <2>1, Kinds DEF SameTest, Position
  <2>6. Coming' = Report!TestFrom(cli.arg, cli.pos) /\ Coming = Report!TestFrom(cli.arg, cli.pos)
    BY <2>1, <2>4, <2>5 DEF Coming
  <2> QED BY <2>1, <2>3, <2>6, OrderKept DEF Live
<1>9. CASE ClientFinished /\ Contains(inbox["client"].pos, cli.pos)
  <2>1. /\ cli.pc = "await" /\ cli.pos.op = "finish" /\ cli.arg # "stats"
        /\ result' = Append(result, Entry("finish", cli.pos, {}))
        /\ cli'.arg = cli.arg /\ cli'.pos = Onward(cli.arg, cli.pos)
        /\ cli'.pos \in Position /\ Regular(cli'.pos) /\ cli'.pos.op # "finish"
    BY <1>9, FinishedOnward
  <2>2. /\ Entry("finish", cli.pos, {}) \in Line /\ Entry("finish", cli.pos, {}).kind = "finish"
        /\ Entry("finish", cli.pos, {}).test = cli.pos
    BY Kinds, EntryType DEF Entry
  <2>3. /\ DOMAIN Reported' # {} /\ Reported'[Report!LastLine'].test = cli.pos
    BY <2>1, <2>2, ReportedAppend
  <2>4. Report!NextTest' = Report!TestFrom(cli.arg, Onward(cli.arg, cli.pos))
    BY <2>1, <2>3, SamePlan DEF Report!NextTest
  <2>5. Coming' = Report!TestFrom(cli.arg, Onward(cli.arg, cli.pos))
    BY <2>1 DEF Coming
  <2> QED BY <2>4, <2>5 DEF InOrder
<1>10. CASE \/ ServerStep \/ StopNginxFails \/ StartNginxFails \/ ServerReplyLost \/ ServerKilled
            \/ \E arg \in ServerArgs : ServerLaunch(arg)
  <2>1. cli' = cli /\ result' = result
    BY <1>10 DEF ServerStep, StopNginx, StopNginxFails, StartNginx, StartNginxFails, Reconfigure,
                 Restarted, ServerReceive, ServerReply, ServerReplyLost, ServerAdvance,
                 ServerKilled, ServerLaunch
  <2> QED BY <1>1, <2>1
<1> QED
  BY <1>1, <1>2, <1>3, <1>4, <1>5, <1>6, <1>7, <1>8, <1>9, <1>10
     DEF Next, ClientStep, Fault, Terminated, vars

-----------------------------------------------------------------------------
(* The scripts implement the report                                          *)

(* The report counts as the scripts' model does.                             *)
LEMMA SameCount ==
    ASSUME NEW S
    PROVE  Report!Cardinality(S) = Cardinality(S)
BY DEF Report!Cardinality, Cardinality

(* A test that ends is the next one of the report.                           *)
LEMMA FinishedReports ==
    ASSUME TypeOK, TypeOK', Lockstep, IInv, Accounted', ClientFinished,
           Contains(inbox["client"].pos, cli.pos)
    PROVE  Report!ReportTest
<1> DEFINE new == Len(result) + 1
           line == Entry("finish", cli.pos, {})
           test == [cli.pos EXCEPT !.op = "start"]
<1>1. /\ cli.pc = "await" /\ cli.pos.op = "finish" /\ cli.arg # "stats"
      /\ result' = Append(result, line) /\ cli'.arg = cli.arg
  BY FinishedOnward DEF IInv
<1>2. used' = used
  BY DEF ClientFinished, ClientChecked
<1>3. line \in Line /\ line.kind = "finish" /\ line.test = cli.pos
  BY Kinds, EntryType DEF Entry
<1> HIDE DEF line
<1>4. /\ DOMAIN Reported' = DOMAIN Reported \cup {new}
      /\ \A i \in DOMAIN Reported : i < new /\ Reported'[i] = Reported[i]
      /\ Reported'[new].test = cli.pos
  BY <1>1, <1>3, ReportedAppend DEF IInv
<1>5. Report!NextTest = test
  <2>1. Coming = test
    BY <1>1, Kinds, ComingIs DEF Coming, IInv, LinedUp
  <2> QED BY <1>1, <2>1 DEF IInv, InOrder, Live
<1>6. test.op = "start" /\ [test EXCEPT !.op = "finish"] = cli.pos
  BY <1>1, Kinds DEF Position
<1>7. Report!Cardinality(Report!Spoiled(Reported')) <= used["stop"]
  <2>1. SpoiledLines' = Report!Spoiled(Reported')
    BY DEF SpoiledLines
  <2>2. Cardinality(SpoiledLines') \in Nat
    BY SpoiledFinite
  <2>3. One(Tainted)' \in Nat /\ One(Pending)' \in Nat
    BY DEF One
  <2>4. used["stop"] \in Nat
    BY DEF TypeOK, FaultKinds
  <2>5. Cardinality(SpoiledLines') <= used["stop"]
    BY <1>2, <2>2, <2>3, <2>4 DEF Accounted
  <2> QED BY <2>1, <2>5, SameCount
<1> HIDE DEF new, test
<1>8. Report!NextTest.op = "start" /\ [Report!NextTest EXCEPT !.op = "finish"] = cli.pos
  BY <1>5, <1>6
<1>9. \E i \in DOMAIN Reported' :
         /\ DOMAIN Reported' = DOMAIN Reported \cup {i}
         /\ \A j \in DOMAIN Reported : j < i /\ Reported'[j] = Reported[j]
         /\ Reported'[i].test = [Report!NextTest EXCEPT !.op = "finish"]
  BY <1>4, <1>8
<1> QED BY <1>1, <1>2, <1>7, <1>8, <1>9 DEF Report!ReportTest

(* Every step of the scripts, and every fault, is a step of the report or    *)
(* none.                                                                     *)
LEMMA ReportStep ==
    ASSUME TypeOK, TypeOK', Lockstep, IInv, Accounted', [Next]_vars
    PROVE  [Report!ReportNext]_(Report!reportVars)
<1>0. result' = result => Reported' = Reported
  BY DEF Reported
<1>1. CASE cli'.arg = cli.arg /\ Reported' = Reported /\ used'["stop"] = used["stop"]
  BY <1>1 DEF Report!reportVars
<1>2. ASSUME NEW arg \in ClientArgs, ClientLaunch(arg)
      PROVE  Report!NewReport \/ Report!Summarise
  <2>1. /\ cli'.arg = arg /\ used'["stop"] = used["stop"]
        /\ result' = IF arg = "stats" THEN result ELSE <<>>
    BY <1>2 DEF ClientLaunch, ClientAt, Spend, TypeOK, FaultKinds
  <2>2. CASE arg = "stats"
    BY <1>0, <1>2, <2>1, <2>2 DEF Report!Summarise
  <2>3. CASE arg # "stats"
    <3>1. DOMAIN Reported' = {}
      BY <2>1, <2>3 DEF Reported
    <3> QED BY <1>2, <2>1, <2>3, <3>1 DEF Report!NewReport
  <2> QED BY <2>2, <2>3
<1>3. CASE StopNginxFails
  <2>1. used'["stop"] = used["stop"] + 1 /\ cli' = cli /\ result' = result
    BY <1>3 DEF StopNginxFails, Reconfigure, Spend, TypeOK, FaultKinds
  <2>2. Report!StopFailed
    BY <1>0, <2>1 DEF Report!StopFailed
  <2> QED BY <2>2 DEF Report!ReportNext
<1>4. CASE ClientFinished /\ Contains(inbox["client"].pos, cli.pos)
  BY <1>4, FinishedReports DEF Report!ReportNext
<1>5. CASE \/ ClientStarted \/ WrkEnds
           \/ ClientFinished /\ ~Contains(inbox["client"].pos, cli.pos)
  <2>1. \E kind \in {"start", "starterror", "finisherror", "sec"},
           on \in SUBSET (NginxConf \cup {Down}) : result' = Append(result, Entry(kind, cli.pos, on))
    BY <1>5 DEF ClientStarted, ClientFinished, ClientChecked, WrkEnds, TypeOK
  <2>2. PICK kind \in {"start", "starterror", "finisherror", "sec"},
             on \in SUBSET (NginxConf \cup {Down}) :
             result' = Append(result, Entry(kind, cli.pos, on))
    BY <2>1
  <2>3. Entry(kind, cli.pos, on) \in Line /\ Entry(kind, cli.pos, on).kind # "finish"
    BY Kinds, EntryType DEF Entry
  <2>4. Reported' = Reported
    BY <2>2, <2>3, ReportedAppend DEF IInv
  <2>5. cli'.arg = cli.arg /\ used' = used
    BY <1>5 DEF ClientStarted, ClientFinished, ClientChecked, WrkEnds, TypeOK
  <2> QED BY <1>1, <2>4, <2>5
<1>6. CASE ClientSend \/ ClientSendLost \/ ClientAnswered \/ WrkRun \/ WrkFails \/ ClientKilled
  <2>1. cli'.arg = cli.arg
    BY <1>6 DEF ClientSend, ClientSendLost, ClientAsked, ClientAnswered, ClientAt, WrkRun, WrkFails,
                ClientKilled, TypeOK
  <2>2. result' = result
    BY <1>6 DEF ClientSend, ClientSendLost, ClientAsked, ClientAnswered, WrkRun, WrkFails,
                ClientKilled
  <2>3. used' = used \/ Spend("loss") \/ Spend("kill")
    BY <1>6 DEF ClientSend, ClientSendLost, ClientAnswered, WrkRun, WrkFails, ClientKilled
  <2>4. used'["stop"] = used["stop"]
    BY <2>3 DEF Spend, TypeOK, FaultKinds
  <2> QED BY <1>0, <1>1, <2>1, <2>2, <2>4
<1>7. CASE ServerStep \/ StartNginxFails \/ ServerReplyLost \/ ServerKilled
           \/ \E arg \in ServerArgs : ServerLaunch(arg)
  <2>1. cli' = cli /\ result' = result /\ used'["stop"] = used["stop"]
    BY <1>7 DEF ServerStep, StopNginx, StartNginx, StartNginxFails, Reconfigure, Restarted,
                ServerReceive, ServerReply, ServerReplyLost, ServerAdvance, ServerKilled,
                ServerLaunch, Spend, TypeOK, FaultKinds
  <2> QED BY <1>0, <1>1, <2>1
<1>8. CASE UNCHANGED vars
  BY <1>0, <1>1, <1>8 DEF vars
<1> QED
  BY <1>2, <1>3, <1>4, <1>5, <1>6, <1>7, <1>8
     DEF Next, ClientStep, Fault, Terminated, Report!ReportNext

(* The invariant holds before anything was started,                          *)
LEMMA IInvInit ==
    ASSUME Init
    PROVE  IInv
<1>1. /\ srv.pos = Done /\ cli.pos = Done /\ cli.pc = "off" /\ srv.pc = "off" /\ cli.arg = "all"
      /\ inbox["client"] = NoMessage /\ result = <<>> /\ used["stop"] = 0
  BY DEF Init, Hosts, FaultKinds
<1>2. Regular(Done) /\ Done.op = "done"
  BY DEF Regular, WellFormed, Done, At
<1>3. LinedUp
  BY <1>1, <1>2 DEF LinedUp, Live
<1>4. InOrder /\ MeasuredOK
  BY <1>1, <1>2 DEF InOrder, MeasuredOK, Live
<1>5. Accounted
  <2>1. SpoiledLines = {}
    BY <1>1, SpoiledAre
  <2>2. ~Tainted /\ ~Pending
    BY <1>1 DEF Tainted, Pending
  <2> QED BY <1>1, <2>1, <2>2, FS_EmptySet DEF Accounted, One
<1> QED BY <1>3, <1>4, <1>5 DEF IInv

(* and every step keeps it.                                                  *)
LEMMA IInvStep ==
    ASSUME TypeOK, TypeOK', Lockstep, IInv, [Next]_vars
    PROVE  IInv'
BY LinedStep, OrderStep, MeasuredStep, AccountedStep DEF IInv

(* What the refinement rests on: the scripts are lined up, wrk.sh comes to   *)
(* the next test of the report, what it measures in a session is the nginx   *)
(* of the session, and every spoiled test is paid for by a failed stop.      *)
THEOREM ReportInvariant == Spec => []IInv
<1>1. Init => IInv
  BY IInvInit
<1>2. TypeOK /\ TypeOK' /\ Lockstep /\ IInv /\ [Next]_vars => IInv'
  BY IInvStep
<1> QED BY <1>1, <1>2, TypeCorrect, LockstepHolds, PTL DEF Spec

(* nginx.sh and wrk.sh implement BenchReport: result.txt lists the tests of  *)
(* the plan (the loops of wrk.sh) in their order, from the first and without *)
(* a gap, and no more of them were measured on a wrong nginx than stops of   *)
(* nginx_restart have failed, through every kill, restart and loss.          *)
THEOREM ReportImplemented == Spec => ReportSpec
<1>1. Init => Report!ReportInit
  BY DEF Init, Reported, Report!ReportInit, FaultKinds
<1>2. /\ TypeOK /\ TypeOK' /\ Lockstep /\ IInv /\ IInv' /\ [Next]_vars
         => [Report!ReportNext]_(Report!reportVars)
  BY ReportStep DEF IInv
<1> QED
  BY <1>1, <1>2, TypeCorrect, LockstepHolds, ReportInvariant, PTL
     DEF Spec, ReportSpec, Report!ReportSpec
=============================================================================
