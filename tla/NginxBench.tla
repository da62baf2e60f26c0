------------------------------ MODULE NginxBench ------------------------------
(***************************************************************************)
(* nginx.sh on the server under test and wrk.sh on the load generator,     *)
(* kept in lockstep by one-shot "nc" connections on port 61234.            *)
(*                                                                         *)
(* Every exchange of the two scripts has the same shape: the client sends  *)
(* the text of its position (retrying while the connection is refused) and *)
(* then listens; the server listens, checks with grep that the text holds  *)
(* the one it expects (or exits), and sends its reply (retrying while      *)
(* refused).  A send that fails in any way other than "refused" leaves the *)
(* retry loop as if it had succeeded.                                      *)
(*                                                                         *)
(* Either script may be killed and started again, with any argument: the   *)
(* nginx daemon and the files on both disks survive that.                  *)
(***************************************************************************)
EXTENDS NginxPlan, Sequences, FiniteSets

CONSTANTS
    ServerArgs,  \* the arguments nginx.sh is started with
    ClientArgs,  \* the arguments wrk.sh is started with
    Budget       \* how often each of FaultKinds may happen

FaultKinds == {"serverlaunch", "clientlaunch", "kill", "loss", "stop", "start"}

ASSUME ArgsAssumption == ServerArgs \subseteq Args /\ ClientArgs \subseteq Args
ASSUME BudgetAssumption == Budget \in [FaultKinds -> Nat]

VARIABLES
    srv,     \* nginx.sh: where it is, its position in the plan, its argument
    cli,     \* wrk.sh: the same, and the two numbers it was told
    inbox,   \* per host, the text its "nc -l" accepted and has not printed yet
    conf,    \* /usr/local/nginx/conf/nginx.conf on the server's disk
    nginx,   \* the configuration the nginx daemon runs with, or Down
    seen,    \* what the current wrk run has met on the server so far
    result,  \* result.txt on the client's disk
    csv,     \* result_<name>.csv, a section per mode
    used     \* how much of Budget is spent

vars == <<srv, cli, inbox, conf, nginx, seen, result, csv, used>>

Hosts == {"server", "client"}

Message == [pos : Position, num : Int]
NoMessage == [pos |-> Done, num |-> -1]

(* A text with a tag.  Used as a number in bash arithmetic it is a           *)
(* difference of unset variables, which is 0.                                *)
Text(p) == [pos |-> p, num |-> 0]
Number(n) == [pos |-> Done, num |-> n]

Down == [gzip |-> FALSE, workers |-> 0, unit |-> <<"down", -1>>, masks |-> 0]

(* The nginx.conf of the repository, which setup.sh installs and starts.     *)
Stock == [gzip |-> FALSE, workers |-> 1, unit |-> <<"node", 0>>, masks |-> 1]

(* A line of result.txt; "sec" stands for the two lines of a wrk report that *)
(* hold "Requests/sec" and "Transfer/sec", on the configurations the run met.*)
Line == [kind : {"start", "starterror", "sec", "finish", "finisherror"},
         test : Position, on : SUBSET (NginxConf \cup {Down})]

Entry(kind, p, on) == [kind |-> kind, test |-> p, on |-> on]

(* A script between two handshakes: nginx.sh first rewrites nginx.conf when  *)
(* a test is next.                                                           *)
ServerAt(arg, p) ==
    [pc  |-> CASE p.op = "start" -> "configure"
               [] p.op = "done"  -> "exit"
               [] OTHER          -> "listen",
     pos |-> p, arg |-> arg]

ClientAt(arg, p, nodes, count) ==
    [pc  |-> IF p.op = "done" THEN "exit" ELSE "send",
     pos |-> p, arg |-> arg, nodes |-> nodes, count |-> count]

(* nginx_on_one_socket_handle and nodehandle begin by copying the stock file *)
(* over nginx.conf; serverhandle works on whatever is there.                 *)
Recopied(p) == IF p.op = "conf" /\ p.mode = 0 /\ p.ph # "stats" THEN Stock ELSE conf

(* The handshake after p; the variant forgets wait_test_finish.              *)
ServerNext_NoFinish(p) ==
    LET next == Successor(srv.arg, p, NodeNum, CpuCount(p))
    IN  IF p.op = "start" THEN Successor(srv.arg, next, NodeNum, CpuCount(p)) ELSE next

ServerNext(p) == Successor(srv.arg, p, NodeNum, CpuCount(p))

Accepting(host) ==
    /\ inbox[host] = NoMessage
    /\ IF host = "server" THEN srv.pc = "listen" ELSE cli.pc = "await"

Spend(kind) == /\ used[kind] < Budget[kind]
               /\ used' = [used EXCEPT ![kind] = @ + 1]

Meets(new) == seen' = IF cli.pc = "running" THEN seen \cup {new} ELSE seen

Init ==
    /\ srv = [pc |-> "off", pos |-> Done, arg |-> "all"]
    /\ cli = [pc |-> "off", pos |-> Done, arg |-> "all", nodes |-> 0, count |-> 0]
    /\ inbox = [h \in Hosts |-> NoMessage]
    /\ conf = Stock
    /\ nginx \in {Stock, Down}
    /\ seen = {}
    /\ result = <<>>
    /\ csv = [m \in 1..NumModes |-> {}]
    /\ used = [k \in FaultKinds |-> 0]

-----------------------------------------------------------------------------
(* nginx.sh                                                                  *)

ServerLaunch(arg) ==
    /\ srv.pc \in {"off", "exit"}
    /\ Spend("serverlaunch")
    /\ srv' = ServerAt(arg, First(arg))
    /\ conf' = Recopied(First(arg))
    /\ UNCHANGED <<cli, inbox, nginx, seen, result, csv>>

(* The seds on nginx.conf and the first half of nginx_restart.  The gzip     *)
(* line is written when the mode begins; nothing reads the file until the    *)
(* restart that follows.  The variant of the stop never finds nginx running. *)
Reconfigure(after) ==
    /\ srv.pc = "configure"
    /\ conf' = ConfFor(srv.pos)
    /\ nginx' = after
    /\ Meets(after)
    /\ srv' = [srv EXCEPT !.pc = "restart"]
    /\ UNCHANGED <<cli, inbox, result, csv>>

StopNginx_Skipped == Reconfigure(nginx) /\ UNCHANGED used

StopNginx == Reconfigure(Down) /\ UNCHANGED used

(* "nginx -s stop" failed, or its pass phrase prompt timed out: unchecked.   *)
StopNginxFails == nginx # Down /\ Reconfigure(nginx) /\ Spend("stop")

(* The second half of nginx_restart.  A new nginx cannot bind the port of    *)
(* one that still runs.                                                      *)
Restarted(after) ==
    /\ srv.pc = "restart"
    /\ nginx' = after
    /\ Meets(after)
    /\ srv' = [srv EXCEPT !.pc = "listen"]
    /\ UNCHANGED <<cli, inbox, conf, result, csv>>

StartNginx ==
    /\ Restarted(IF nginx = Down /\ Loadable(conf) THEN conf ELSE nginx)
    /\ UNCHANGED used

StartNginxFails == nginx = Down /\ Restarted(Down) /\ Spend("start")

(* "nc -l" returns: the check at the head of get_nginx_server_info,          *)
(* wait_test_start and wait_test_finish; the variant trusts every text.      *)
ServerReceive_Unchecked ==
    /\ srv.pc = "listen"
    /\ inbox["server"] # NoMessage
    /\ inbox' = [inbox EXCEPT !["server"] = NoMessage]
    /\ srv' = [srv EXCEPT !.pc = "reply"]
    /\ UNCHANGED <<cli, conf, nginx, seen, result, csv, used>>

ServerReceive ==
    /\ srv.pc = "listen"
    /\ inbox["server"] # NoMessage
    /\ inbox' = [inbox EXCEPT !["server"] = NoMessage]
    /\ srv' = [srv EXCEPT !.pc = IF Contains(inbox["server"].pos, srv.pos)
                                 THEN "reply" ELSE "exit"]
    /\ UNCHANGED <<cli, conf, nginx, seen, result, csv, used>>

Reply(p) == IF p.op = "conf" THEN Number(Answer(p)) ELSE Text(p)

(* Leaving the reply loop; the variant does not break out of it.             *)
ServerAdvance_Repeats ==
    /\ srv.pc = "reply"
    /\ UNCHANGED <<srv, cli, conf, nginx, seen, result, csv>>

ServerAdvance ==
    /\ srv.pc = "reply"
    /\ srv' = ServerAt(srv.arg, ServerNext(srv.pos))
    /\ conf' = Recopied(ServerNext(srv.pos))
    /\ UNCHANGED <<cli, nginx, seen, result, csv>>

ServerReply ==
    /\ Accepting("client")
    /\ ServerAdvance
    /\ inbox' = [inbox EXCEPT !["client"] = Reply(srv.pos)]
    /\ UNCHANGED used

ServerReplyLost == ServerAdvance /\ Spend("loss") /\ UNCHANGED inbox

ServerKilled ==
    /\ srv.pc \notin {"off", "exit"}
    /\ Spend("kill")
    /\ srv' = [srv EXCEPT !.pc = "off"]
    /\ inbox' = [inbox EXCEPT !["server"] = NoMessage]
    /\ UNCHANGED <<cli, conf, nginx, seen, result, csv>>

-----------------------------------------------------------------------------
(* wrk.sh                                                                    *)

(* Every argument but stats begins a new result.txt.                         *)
ClientLaunch(arg) ==
    /\ cli.pc \in {"off", "exit"}
    /\ Spend("clientlaunch")
    /\ cli' = ClientAt(arg, First(arg), 0, 0)
    /\ result' = IF arg = "stats" THEN result ELSE <<>>
    /\ UNCHANGED <<srv, inbox, conf, nginx, seen, csv>>

(* The send loops of get_nginx_server_info, request_test_start and           *)
(* request_test_finish; a refused attempt changes nothing.                   *)
ClientAsked ==
    /\ cli.pc = "send"
    /\ cli' = [cli EXCEPT !.pc = "await"]
    /\ UNCHANGED <<srv, conf, nginx, seen, result, csv>>

ClientSend ==
    /\ Accepting("server")
    /\ ClientAsked
    /\ inbox' = [inbox EXCEPT !["server"] = Text(cli.pos)]
    /\ UNCHANGED used

ClientSendLost == ClientAsked /\ Spend("loss") /\ UNCHANGED inbox

(* grep -E "start|sec" keeps these lines; grep -A2 "<mode>-" then takes each *)
(* start line of the mode and the two lines that follow it (the variant, as  *)
(* with -A3, one line more).                                                 *)
Kept == {i \in DOMAIN result : result[i].kind \in {"start", "starterror", "sec"}}

Between(i, j) == {k \in Kept : i < k /\ k < j}

Section_OneMore(m) ==
    {result[j] : j \in {k \in Kept : \E i \in Kept :
        /\ i <= k
        /\ result[i].kind # "sec" /\ result[i].test.mode = m
        /\ Cardinality(Between(i, k)) <= 1}}

Section(m) ==
    {result[j] : j \in {k \in Kept : \E i \in Kept :
        /\ i <= k
        /\ result[i].kind # "sec" /\ result[i].test.mode = m
        /\ \A n \in Between(i, k) : Between(i, k) = {n} /\ result[n].kind # "sec"}}

(* The answer to a "conf" question is used as it comes.                      *)
ClientAnswered ==
    /\ cli.pc = "await" /\ cli.pos.op = "conf"
    /\ inbox["client"] # NoMessage
    /\ inbox' = [inbox EXCEPT !["client"] = NoMessage]
    /\ LET num == inbox["client"].num
           ofNodes == cli.pos.ph = "node" /\ cli.pos.node = -1
           nodes == IF ofNodes THEN num ELSE cli.nodes
           count == IF ofNodes THEN cli.count ELSE num
       IN  cli' = ClientAt(cli.arg, Successor(cli.arg, cli.pos, nodes, count), nodes, count)
    /\ csv' = IF cli.pos.ph = "stats" THEN [m \in 1..NumModes |-> Section(m)] ELSE csv
    /\ UNCHANGED <<srv, conf, nginx, seen, result, used>>

(* The second halves of request_test_start and request_test_finish: the      *)
(* reply holds the text that was sent, or the script notes an error and ends.*)
ClientChecked(op, good, bad, then) ==
    /\ cli.pc = "await" /\ cli.pos.op = op
    /\ inbox["client"] # NoMessage
    /\ inbox' = [inbox EXCEPT !["client"] = NoMessage]
    /\ IF Contains(inbox["client"].pos, cli.pos)
       THEN cli' = then /\ result' = Append(result, Entry(good, cli.pos, {}))
       ELSE /\ cli' = [cli EXCEPT !.pc = "exit"]
            /\ result' = Append(result, Entry(bad, cli.pos, {}))
    /\ UNCHANGED <<srv, conf, nginx, seen, csv, used>>

ClientNext == Successor(cli.arg, cli.pos, cli.nodes, cli.count)

ClientStarted ==
    ClientChecked("start", "start", "starterror",
                  [cli EXCEPT !.pc = "wrk", !.pos = ClientNext])

ClientFinished ==
    ClientChecked("finish", "finish", "finisherror",
                  ClientAt(cli.arg, ClientNext, cli.nodes, cli.count))

(* wrk begins by connecting; it exits non-zero when nothing listens, and the *)
(* socket and node loops then try again until it works.                      *)
WrkRun ==
    /\ cli.pc = "wrk"
    /\ nginx # Down
    /\ cli' = [cli EXCEPT !.pc = "running"]
    /\ seen' = {nginx}
    /\ UNCHANGED <<srv, inbox, conf, nginx, result, csv, used>>

(* serverhandle runs wrk once and does not look at its exit status.          *)
WrkFails ==
    /\ cli.pc = "wrk" /\ cli.pos.ph = "server"
    /\ nginx = Down
    /\ cli' = [cli EXCEPT !.pc = "send"]
    /\ UNCHANGED <<srv, inbox, conf, nginx, seen, result, csv, used>>

(* Once under way wrk counts errors and still exits 0.                       *)
WrkEnds ==
    /\ cli.pc = "running"
    /\ cli' = [cli EXCEPT !.pc = "send"]
    /\ result' = Append(result, Entry("sec", cli.pos, seen))
    /\ UNCHANGED <<srv, inbox, conf, nginx, seen, csv, used>>

ClientKilled ==
    /\ cli.pc \notin {"off", "exit"}
    /\ Spend("kill")
    /\ cli' = [cli EXCEPT !.pc = "off"]
    /\ inbox' = [inbox EXCEPT !["client"] = NoMessage]
    /\ UNCHANGED <<srv, conf, nginx, seen, result, csv>>

-----------------------------------------------------------------------------
ServerStep == StopNginx \/ StartNginx \/ ServerReceive \/ ServerReply

ClientStep == ClientSend \/ ClientAnswered \/ ClientStarted \/ ClientFinished
              \/ WrkRun \/ WrkFails \/ WrkEnds

Fault == StopNginxFails \/ StartNginxFails \/ ServerReplyLost \/ ClientSendLost
         \/ ServerKilled \/ ClientKilled

Terminated == srv.pc = "exit" /\ cli.pc = "exit" /\ UNCHANGED vars

Next == \/ \E arg \in ServerArgs : ServerLaunch(arg)
        \/ \E arg \in ClientArgs : ClientLaunch(arg)
        \/ ServerStep \/ ClientStep \/ Fault
        \/ Terminated

Spec == Init /\ [][Next]_vars

(* Both scripts are running programs; nobody has to start them, and no fault *)
(* has to happen.                                                            *)
FairSpec == Spec /\ WF_vars(ServerStep) /\ WF_vars(ClientStep)

-----------------------------------------------------------------------------
(* Properties                                                                *)

(* Types: every script is at a place and a position the code has, and the    *)
(* files hold lines and directives the code writes.                          *)
TypeOK ==
    /\ srv \in [pc : {"off", "configure", "restart", "listen", "reply", "exit"},
                pos : Position, arg : Args]
    /\ srv.pos.mode <= NumModes /\ srv.pos.node < NodeNum
    /\ cli \in [pc : {"off", "send", "await", "wrk", "running", "exit"},
                pos : Position, arg : Args, nodes : Int, count : Int]
    /\ inbox \in [Hosts -> Message]
    /\ conf \in NginxConf
    /\ nginx \in NginxConf \cup {Down}
    /\ seen \subseteq NginxConf \cup {Down}
    /\ result \in Seq(Line)
    /\ csv \in [1..NumModes -> SUBSET Line]
    /\ used \in [FaultKinds -> Nat]

(* What a line "finish T" of result.txt vouches for: the line before it is a *)
(* wrk report of T taken from its first to its last request on an nginx that *)
(* ran with T's configuration, or T is a whole-server test, whose wrk is run *)
(* once and unchecked, and it left no report.                                *)
Vouched(i) ==
    /\ i > 1
    /\ result[i - 1].test.op = (IF result[i - 1].kind = "sec" THEN "finish" ELSE "start")
    /\ [result[i - 1].test EXCEPT !.op = "finish"] = result[i].test
    /\ \/ /\ result[i - 1].kind = "sec"
          /\ result[i - 1].on = {ConfFor(result[i].test)}
       \/ /\ result[i - 1].kind = "start"
          /\ result[i].test.ph = "server"

(* Every finished test of result.txt was measured on its own configuration,  *)
(* whatever was killed, restarted with whatever argument, or lost on the     *)
(* way, as long as "nginx -s stop" (nginx_restart) stopped nginx.            *)
FinishedTestsVouched ==
    used["stop"] = 0 =>
        \A i \in DOMAIN result : result[i].kind = "finish" => Vouched(i)

(* Until a script is killed, nginx.sh does not touch nginx while a wrk run   *)
(* of wrk.sh is under way (nginx_restart against "eval $cmdt").              *)
NoRestartUnderLoad ==
    [][cli.pc = "running" /\ used["kill"] = 0 => nginx' = nginx]_vars

(* A pair started once each with the same argument, with no loss and no kill. *)
OrderlyPair ==
    /\ used["serverlaunch"] = 1 /\ used["clientlaunch"] = 1
    /\ used["kill"] = 0 /\ used["loss"] = 0
    /\ srv.arg = cli.arg

(* A pair started once each with the same argument never takes the "is       *)
(* error" exits of wait_test_start, wait_test_finish, get_nginx_server_info, *)
(* request_test_start and request_test_finish, unless a message was lost or  *)
(* a script killed.                                                          *)
NoErrorExit ==
    OrderlyPair =>
        /\ srv.pc = "exit" => srv.pos = Done
        /\ cli.pc = "exit" => cli.pos = Done
        /\ \A i \in DOMAIN result : result[i].kind \notin {"starterror", "finisherror"}

(* The port is used one way at a time: a text on its way to one script and   *)
(* a text on its way to the other, or to a script that is about to send one, *)
(* never exist together.                                                     *)
OneTextInFlight ==
    inbox["client"] # NoMessage =>
        inbox["server"] = NoMessage /\ srv.pc # "reply"

(* statisticshandle: the rows "grep -A2" puts in the section of a mode are   *)
(* tests and reports of that mode, unless nginx once failed to start.        *)
SectionsPure ==
    used["start"] = 0 => \A m \in 1..NumModes : \A row \in csv[m] : row.test.mode = m

(* "Test cores:1, 2, 4... 2^n m(the maximum number of cores)": nginx is      *)
(* measured with at most as many workers as the unit has cores.              *)
CoresWithinUnit ==
    \A i \in DOMAIN result :
        result[i].kind = "sec" /\ result[i].test.ph # "server" =>
            result[i].test.core <= CpuCount(result[i].test)

UnitsHaveCpus ==
    /\ \A s \in Sockets : SocketCpus[s] > 0
    /\ \A n \in 0..NodeNum-1 : NodeCpus[n] > 0

Undisturbed == OrderlyPair /\ used["start"] = 0 /\ used["stop"] = 0

(* Once both scripts run with the same argument, both come to the end of the *)
(* plan unless something fails on the way.  A unit without CPUs is not so:   *)
(* nginx rejects its empty worker_cpu_affinity and wrk.sh retries wrk        *)
(* forever.                                                                  *)
Completes ==
    UnitsHaveCpus /\ Undisturbed
        ~> \/ ~Undisturbed
           \/ srv.pc = "exit" /\ cli.pc = "exit" /\ srv.pos = Done /\ cli.pos = Done

-----------------------------------------------------------------------------
(* The abstract report, read off result.txt: a finished test and the wrk     *)
(* report on the line before it.                                             *)
Reported ==
    [i \in {k \in DOMAIN result : result[k].kind = "finish"} |->
        [test |-> result[i].test, on |-> result[i - 1].on]]

Report == INSTANCE BenchReport
          WITH Plans <- ClientArgs, plan <- cli.arg, report <- Reported,
               failed <- used["stop"]

(* The two scripts implement the report: result.txt grows by the tests of    *)
(* the plan, in order and without a gap, through kills, restarts, losses and *)
(* starts and stops of nginx that fail.                                      *)
ReportSpec == Report!ReportSpec

-----------------------------------------------------------------------------
(* The inductive invariant behind FinishedTestsVouched.                      *)

SameTest(p) == [p EXCEPT !.op = "finish"]

(* The server holds the test p open, or it will not acknowledge its end.     *)
InSession(p) == srv.pos = p /\ srv.pc \in {"listen", "reply"}
Gone == srv.pc \in {"off", "exit"} \/ srv.pos.op # "finish"

(* The client has had no reply since it was started.                         *)
Fresh == cli.pos = First(cli.arg)

PlacesOK ==
    /\ srv.pc \in {"configure", "restart"} => srv.pos.op = "start"
    /\ srv.pc \in {"listen", "reply"} => srv.pos.op # "done"
    /\ cli.pc \in {"send", "await"} => cli.pos.op # "done"
    /\ cli.pc \in {"wrk", "running"} => cli.pos.op = "finish"

(* Who may hold the line: what a text in flight says of the two scripts.     *)
TurnsOK ==
    /\ cli.pc \in {"send", "wrk", "running"} /\ ~Fresh =>
           srv.pc # "reply" /\ inbox["server"] = NoMessage
    /\ inbox["client"] # NoMessage =>
           cli.pc = "await" /\ srv.pc # "reply" /\ inbox["server"] = NoMessage
    /\ inbox["server"] # NoMessage =>
           /\ srv.pc = "listen"
           /\ cli.pc = "await" => Fresh \/ inbox["server"] = Text(cli.pos)
    /\ srv.pc = "reply" /\ cli.pc = "await" => Fresh \/ Contains(cli.pos, srv.pos)

(* A client past the start of a test has the server with it, or not at all.  *)
SessionOK ==
    /\ cli.pos.op = "start" /\ inbox["client"] # NoMessage
       /\ Contains(inbox["client"].pos, cli.pos) => InSession(SameTest(cli.pos)) \/ Gone
    /\ cli.pos.op = "finish" /\ cli.pc \in {"wrk", "running", "send", "await"}
       /\ inbox["client"] = NoMessage => InSession(cli.pos) \/ Gone

(* nginx runs with the configuration of the server's test.                   *)
NginxOK ==
    /\ srv.pc = "restart" => conf = ConfFor(srv.pos) /\ (used["stop"] = 0 => nginx = Down)
    /\ used["stop"] = 0 /\ srv.pc \in {"listen", "reply"} /\ srv.pos.op \in {"start", "finish"} =>
           nginx \in {ConfFor(srv.pos), Down}
    /\ used["stop"] = 0 /\ cli.pc = "running" /\ InSession(cli.pos) =>
           nginx \in {ConfFor(cli.pos), Down} /\ seen = {ConfFor(cli.pos)}

LastLine == result[Len(result)]

(* The end of result.txt while a test is being measured and ended.           *)
TailOK ==
    /\ cli.pc \in {"wrk", "running"} =>
           /\ result # <<>> /\ LastLine.kind = "start"
           /\ LastLine.test.op = "start" /\ SameTest(LastLine.test) = cli.pos
    /\ used["stop"] = 0 /\ cli.pos.op = "finish" /\ cli.pc \in {"send", "await"}
       /\ (InSession(cli.pos) \/ inbox["client"] # NoMessage) =>
           /\ result # <<>>
           /\ \/ LastLine = Entry("sec", cli.pos, {ConfFor(cli.pos)})
              \/ /\ LastLine.kind = "start" /\ LastLine.test.op = "start"
                 /\ SameTest(LastLine.test) = cli.pos /\ cli.pos.ph = "server"

(* The lockstep of the two scripts, through kills, restarts and losses.      *)
Lockstep == PlacesOK /\ TurnsOK /\ SessionOK /\ NginxOK /\ TailOK

=============================================================================
