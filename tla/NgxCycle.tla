------------------------------ MODULE NgxCycle ------------------------------
(***************************************************************************)
(* How a master process of the bundled nginx goes from one configuration   *)
(* to the next (ngx_init_cycle): it opens what the new one needs, takes    *)
(* over what both have, and then either gives back what only the old one   *)
(* had or, if a step failed, what it had opened for the new one.  The same *)
(* code runs at the start, and in a new binary that inherits the listening *)
(* sockets.                                                                *)
(*                                                                         *)
(* A configuration has listening addresses in order (one may be there more *)
(* than once, with reuseport), shared memory zones, log files and the name *)
(* of its pid file.  A faulty configuration file changes nothing and is    *)
(* left out; so is ngx_init_modules failing, which ends the process, a     *)
(* master that reloads too.                                                *)
(***************************************************************************)
EXTENDS Integers, Sequences, FiniteSets, SequencesExt

CONSTANTS
    Conf,      \* configurations: listen, zones, logs, pid
    Unix,      \* the addresses that are paths
    NoReuse,   \* tags of zones that every configuration has anew
    Tries,     \* of binding: 5
    Ids,       \* descriptors, and addresses of shared memory
    Upgrades   \* whether a new binary is started

Confs == DOMAIN Conf
Process == {1, 2}   \* the first binary, and the new one
Addrs == UNION {{Conf[c].listen[i].addr : i \in DOMAIN Conf[c].listen} : c \in Confs}

ConstantsAssumption ==
    /\ Unix \subseteq Addrs /\ Tries \in Nat \ {0} /\ Ids \subseteq Nat \ {0}
    /\ \A c \in Confs : DOMAIN Conf[c] = {"listen", "zones", "logs", "pid"}

VARIABLES
    proc,     \* the masters
    obj,      \* what a descriptor stands for: a socket or a file
    path,     \* the socket the path of a unix address leads to, 0 or Stale
    pidf,     \* whose pid is in which pid file, or 0
    linger,   \* sockets old workers still have open
    taken     \* addresses other programs use

vars == <<proc, obj, path, pidf, linger, taken>>

None == [kind |-> "none"]
Stale == -1   \* the path is there, its socket was closed
Least(S) == CHOOSE i \in S : \A j \in S : i <= j
Entries(cyc) == {cyc.listen[i] : i \in DOMAIN cyc.listen}
Fds(cyc) == {e.fd : e \in Entries(cyc)} \ {0}
LogFds(cyc) == {cyc.logs[n] : n \in DOMAIN cyc.logs} \ {0}
Mem(cyc) == {cyc.zones[z].at : z \in DOMAIN cyc.zones} \ {0}

NewCycle(c) ==
    [pid |-> Conf[c].pid,
     listen |-> [i \in DOMAIN Conf[c].listen |->
                    [addr |-> Conf[c].listen[i].addr, reuse |-> Conf[c].listen[i].reuse, fd |-> 0,
                     inherited |-> FALSE, open |-> FALSE, add |-> FALSE]],
     zones |-> [z \in DOMAIN Conf[c].zones |-> [tag |-> Conf[c].zones[z].tag, size |-> Conf[c].zones[z].size, at |-> 0]],
     logs |-> [n \in Conf[c].logs |-> 0]]
InitCycle(listen) == [pid |-> "none", listen |-> listen, zones |-> <<>>, logs |-> <<>>]

Starting(c, listen, held) ==
    [pc |-> "logs", start |-> TRUE, cyc |-> InitCycle(listen), new |-> NewCycle(c), held |-> held, mem |-> {},
     i |-> 1, tries |-> Tries, inuse |-> {}, child |-> FALSE]
Gone == [pc |-> "gone", start |-> TRUE, cyc |-> InitCycle(<<>>), new |-> InitCycle(<<>>), held |-> {}, mem |-> {},
         i |-> 1, tries |-> Tries, inuse |-> {}, child |-> FALSE]

Init ==
    /\ \E c \in Confs : proc = [p \in Process |-> IF p = 1 THEN Starting(c, <<>>, {}) ELSE Gone]
    /\ obj = [i \in Ids |-> None]
    /\ path = [a \in Unix |-> 0]
    /\ pidf = [f \in {Conf[c].pid : c \in Confs} \X {"pid", "oldbin"} |-> 0]
    /\ linger = {} /\ taken = {}

(* The kernel drops what nobody has open.                                    *)
Open(pr, lg) == UNION {pr[p].held : p \in Process} \cup lg
Becomes(p, y, o, lg) ==
    LET pr == [proc EXCEPT ![p] = y] IN
    /\ proc' = pr /\ linger' = lg
    /\ obj' = [i \in Ids |-> IF i \in Open(pr, lg) THEN o[i] ELSE None]
NewId == Least(Ids \ Open(proc, linger))

-----------------------------------------------------------------------------
(* A zone goes on in the new cycle if it is declared as before, unless its   *)
(* kind does not allow it.                                                   *)
SameZone(old, new, z) ==
    /\ z \in DOMAIN old.zones /\ z \in DOMAIN new.zones
    /\ old.zones[z].tag = new.zones[z].tag /\ old.zones[z].size = new.zones[z].size
    /\ new.zones[z].tag \notin NoReuse

(* The part behind failed: what was opened for the new cycle is given back.  *)
(* The path of a unix socket and the pid file are not.                       *)
NewZones(y) == {y.new.zones[z].at : z \in {w \in DOMAIN y.new.zones : ~SameZone(y.cyc, y.new, w)}} \ {0}
NewSockets(y) == {e.fd : e \in {f \in Entries(y.new) : f.open}} \ {0}
RolledBack(y) ==
    IF y.start THEN Gone
    ELSE [y EXCEPT !.pc = "run", !.new = InitCycle(<<>>), !.i = 1, !.tries = Tries, !.inuse = {},
                   !.held = (@ \ LogFds(y.new)) \ NewSockets(y), !.mem = @ \ NewZones(y)]
LeftBehind(y) == [a \in Unix |-> IF path[a] \in NewSockets(y) THEN Stale ELSE path[a]]
Fails(p) == Becomes(p, RolledBack(proc[p]), obj, linger) /\ path' = LeftBehind(proc[p])

-----------------------------------------------------------------------------
(* SIGHUP.  A new pid file is made, and the old one deleted, right away.     *)
Reload(p, c) ==
    LET y == proc[p] IN
    /\ y.pc = "run" /\ ~y.child
    /\ \/ /\ Becomes(p, [y EXCEPT !.pc = "logs", !.new = NewCycle(c)], obj, linger)
          /\ pidf' = IF Conf[c].pid = y.cyc.pid THEN pidf
                     ELSE [pidf EXCEPT ![<<Conf[c].pid, "pid">>] = p, ![<<y.cyc.pid, "pid">>] = 0]
          /\ UNCHANGED path
       \/ Conf[c].pid # y.cyc.pid /\ Fails(p) /\ UNCHANGED pidf
    /\ UNCHANGED taken

OpenLogs(p) ==
    LET y == proc[p]
        todo == {n \in DOMAIN y.new.logs : y.new.logs[n] = 0} IN
    /\ y.pc = "logs"
    /\ \/ todo = {} /\ Becomes(p, [y EXCEPT !.pc = "zones"], obj, linger) /\ UNCHANGED path
       \/ /\ \E n \in todo :
                LET i == NewId IN
                Becomes(p, [y EXCEPT !.new.logs[n] = i, !.held = @ \cup {i}],
                        [obj EXCEPT ![i] = [kind |-> "log", name |-> n]], linger)
          /\ UNCHANGED path
       \/ todo # {} /\ Fails(p)
    /\ UNCHANGED <<pidf, taken>>

(* The zones: taken over or made.  The init function of a zone may refuse    *)
(* either.                                                                   *)
MakeZones(p) ==
    LET y == proc[p]
        todo == {z \in DOMAIN y.new.zones : y.new.zones[z].at = 0}
        Made(z) == IF SameZone(y.cyc, y.new, z) THEN [y EXCEPT !.new.zones[z].at = y.cyc.zones[z].at]
                   ELSE LET a == Least(Ids \ y.mem) IN [y EXCEPT !.new.zones[z].at = a, !.mem = @ \cup {a}] IN
    /\ y.pc = "zones"
    /\ \/ todo = {} /\ Becomes(p, [y EXCEPT !.pc = "match"], obj, linger) /\ UNCHANGED path
       \/ /\ \E z \in todo : Becomes(p, Made(z), obj, linger) \/ Becomes(p, RolledBack(Made(z)), obj, linger)
          /\ UNCHANGED path
       \/ todo # {} /\ Fails(p)
    /\ UNCHANGED <<pidf, taken>>

(* The listening sockets: the k-th of an address takes over the k-th of the  *)
(* old cycle.                                                                *)
Rank(listen, i) == Cardinality({j \in 1..i : listen[j].addr = listen[i].addr})
Previous(old, new, i) == {j \in DOMAIN old : old[j].addr = new[i].addr /\ Rank(old, j) = Rank(new, i)}
Matched(old, new) ==
    [i \in DOMAIN new |->
        IF Previous(old, new, i) = {} THEN [new[i] EXCEPT !.open = TRUE]
        ELSE LET e == old[Least(Previous(old, new, i))] IN
             [new[i] EXCEPT !.fd = e.fd, !.inherited = e.inherited, !.add = new[i].reuse /\ ~e.reuse]]
MatchSockets(p) ==
    /\ proc[p].pc = "match"
    /\ Becomes(p, [proc[p] EXCEPT !.pc = "bind", !.new.listen = Matched(proc[p].cyc.listen, @)], obj, linger)
    /\ UNCHANGED <<path, pidf, taken>>

-----------------------------------------------------------------------------
(* ngx_open_listening_sockets.                                               *)
Sockets(a) == {i \in Ids : obj[i].kind = "socket" /\ obj[i].addr = a}
InUse(e) ==
    IF e.addr \in Unix THEN path[e.addr] # 0
    ELSE e.addr \in taken \/ \E i \in Sockets(e.addr) : ~(obj[i].reuse /\ e.reuse)
(* Whether a failed attempt left its path, or somebody else has the address. *)
Left(a) == a \in Unix /\ path[a] = Stale
Others(p, a) == a \in taken \/ Sockets(a) \cap (linger \cup UNION {proc[q].held : q \in Process \ {p}}) # {}

(* The old socket has to allow others before they are bound.                 *)
Shared(e) == IF e.add THEN [obj EXCEPT ![e.fd].reuse = TRUE] ELSE obj
Bind(p) ==
    LET y == [proc[p] EXCEPT !.i = @ + 1]
        k == proc[p].i
        e == y.new.listen[k] IN
    /\ y.pc = "bind" /\ k <= Len(y.new.listen)
    /\ \/ /\ e.fd # 0
          /\ Becomes(p, [y EXCEPT !.new.listen[k].add = FALSE], Shared(e), linger) /\ UNCHANGED path
       \/ e.fd = 0 /\ Fails(p)
       \/ /\ e.fd = 0 /\ InUse(e)
          /\ Becomes(p, [y EXCEPT !.inuse = @ \cup {[addr |-> e.addr, other |-> Others(p, e.addr), left |-> Left(e.addr)]}],
                     obj, linger)
          /\ UNCHANGED path
       \/ /\ e.fd = 0 /\ ~InUse(e)
          /\ LET i == NewId IN
             /\ Becomes(p, [y EXCEPT !.new.listen[k].fd = i, !.held = @ \cup {i}],
                        [obj EXCEPT ![i] = [kind |-> "socket", addr |-> e.addr, reuse |-> e.reuse]], linger)
             /\ path' = IF e.addr \in Unix THEN [path EXCEPT ![e.addr] = i] ELSE path
    /\ UNCHANGED <<pidf, taken>>
BoundAll(p) == proc[p].pc = "bind" /\ proc[p].i > Len(proc[p].new.listen)
(* All is tried again, a bounded number of times.                            *)
MoreTries(y) == y.tries > 1
BindAgain(p) ==
    /\ BoundAll(p) /\ proc[p].inuse # {}
    /\ IF MoreTries(proc[p])
       THEN Becomes(p, [proc[p] EXCEPT !.i = 1, !.tries = @ - 1, !.inuse = {}], obj, linger) /\ UNCHANGED path
       ELSE Fails(p)
    /\ UNCHANGED <<pidf, taken>>

-----------------------------------------------------------------------------
(* What only the old cycle had is given back.                                *)
OldZones(y) == {y.cyc.zones[z].at : z \in {w \in DOMAIN y.cyc.zones : ~SameZone(y.cyc, y.new, w)}}
\* Variant: all of the old sockets are closed.
Closed_All(y) == Fds(y.cyc)
Closed(y) == Fds(y.cyc) \ Fds(y.new)
Committed(y) ==
    [y EXCEPT !.pc = "run", !.start = FALSE, !.cyc = y.new, !.new = InitCycle(<<>>), !.i = 1, !.tries = Tries,
              !.held = (@ \ Closed(y)) \ LogFds(y.cyc), !.mem = @ \ OldZones(y)]

(* The sockets that are closed are still open in the old workers, until they *)
(* were told to go.  The paths of unix sockets are deleted.  At the start,   *)
(* main then writes the pid file, or gives up.                               *)
Commit(p) ==
    LET y == proc[p]
        gone == {e.addr : e \in {f \in Entries(y.cyc) : f.fd \in Closed(y)}} IN
    /\ BoundAll(p) /\ y.inuse = {}
    /\ \/ /\ Becomes(p, Committed(y), obj, IF y.start THEN linger ELSE linger \cup Closed(y))
          /\ path' = [a \in Unix |-> IF a \in gone THEN 0 ELSE path[a]]
          /\ pidf' = IF y.start THEN [pidf EXCEPT ![<<y.new.pid, "pid">>] = p] ELSE pidf
       \/ /\ y.start /\ Becomes(p, Gone, obj, linger)
          /\ path' = [a \in Unix |-> IF a \in gone THEN 0 ELSE LeftBehind(y)[a]]
          /\ UNCHANGED pidf
    /\ UNCHANGED taken
WorkersClose ==
    /\ linger # {} /\ Becomes(1, proc[1], obj, {})
    /\ UNCHANGED <<path, pidf, taken>>

(* SIGUSR1: log files are opened anew, those that can be.                    *)
Reopen(p) ==
    LET y == proc[p] IN
    /\ y.pc = "run"
    /\ \E n \in DOMAIN y.cyc.logs :
          LET i == NewId IN
          Becomes(p, [y EXCEPT !.cyc.logs[n] = i, !.held = (@ \ {y.cyc.logs[n]}) \cup {i}],
                  [obj EXCEPT ![i] = [kind |-> "log", name |-> n]], linger)
    /\ UNCHANGED <<path, pidf, taken>>

-----------------------------------------------------------------------------
(* SIGUSR2: a new binary with the sockets of the first, as described by the  *)
(* environment.                                                              *)
Upgrade(c) ==
    LET y == proc[1]
        inherited == [i \in DOMAIN y.cyc.listen |->
                         [y.cyc.listen[i] EXCEPT !.inherited = TRUE, !.open = FALSE, !.add = FALSE,
                                                 !.reuse = obj[y.cyc.listen[i].fd].reuse]] IN
    /\ Upgrades /\ y.pc = "run" /\ ~y.child /\ proc[2].pc = "gone"
    /\ proc' = [proc EXCEPT ![1].child = TRUE, ![2] = Starting(c, inherited, Fds(y.cyc))]
    /\ pidf' = [pidf EXCEPT ![<<y.cyc.pid, "oldbin">>] = 1, ![<<y.cyc.pid, "pid">>] = 0]
    /\ UNCHANGED <<obj, path, linger, taken>>
(* The first one sees that the new binary is gone.                           *)
BinaryGone ==
    LET y == proc[1] IN
    /\ y.pc = "run" /\ y.child /\ proc[2].pc = "gone"
    /\ proc' = [proc EXCEPT ![1].child = FALSE]
    /\ pidf' = [pidf EXCEPT ![<<y.cyc.pid, "pid">>] = 1, ![<<y.cyc.pid, "oldbin">>] = 0]
    /\ UNCHANGED <<obj, path, linger, taken>>

(* A master exits: ngx_close_listening_sockets deletes the paths, unless the *)
(* other binary needs them, and its own pid file.                            *)
PidName(y) == <<y.cyc.pid, IF y.child THEN "oldbin" ELSE "pid">>
Deletes(p, e) ==
    /\ e.addr \in Unix /\ ~proc[p].child
    /\ ~e.inherited \/ proc[1].pc = "gone"
Exit(p) ==
    LET y == proc[p] IN
    /\ y.pc = "run"
    /\ Becomes(p, Gone, obj, linger)
    /\ path' = [a \in Unix |-> IF \E e \in Entries(y.cyc) : e.addr = a /\ Deletes(p, e) THEN 0 ELSE path[a]]
    /\ pidf' = [pidf EXCEPT ![PidName(y)] = 0]
    /\ UNCHANGED taken

OtherProgram(a) ==
    /\ a \notin Unix
    /\ \/ a \in taken /\ taken' = taken \ {a}
       \/ a \notin taken /\ Sockets(a) = {} /\ taken' = taken \cup {a}
    /\ UNCHANGED <<proc, obj, path, pidf, linger>>

Next ==
    \/ \E p \in Process :
          \/ OpenLogs(p) \/ MakeZones(p) \/ MatchSockets(p) \/ Bind(p) \/ BindAgain(p) \/ Commit(p)
          \/ Reopen(p) \/ Exit(p) \/ \E c \in Confs : Reload(p, c)
    \/ WorkersClose \/ BinaryGone
    \/ \E c \in Confs : Upgrade(c)
    \/ \E a \in Addrs : OtherProgram(a)
Over == (\A p \in Process : proc[p].pc = "gone") /\ UNCHANGED vars
Spec == Init /\ [][Next \/ Over]_vars

-----------------------------------------------------------------------------
(* The states of the masters have their types, and there are ids enough.     *)
TypeOK ==
    /\ \A p \in Process :
          /\ proc[p].pc \in {"gone", "logs", "zones", "match", "bind", "run"}
          /\ proc[p].held \subseteq Ids /\ proc[p].mem \subseteq Ids /\ proc[p].tries \in 1..Tries
    /\ linger \subseteq Ids /\ Open(proc, linger) # Ids

Fixed(p) == proc[p].pc = "run"
(* After any reloads, failed ones too, a master has exactly the sockets, log *)
(* files and zones of its cycle open, each socket once and for its address.  *)
NothingLeaks ==
    \A p \in Process : Fixed(p) =>
        /\ proc[p].held = Fds(proc[p].cyc) \cup LogFds(proc[p].cyc)
        /\ proc[p].mem = Mem(proc[p].cyc)
        /\ Cardinality(Fds(proc[p].cyc)) = Len(proc[p].cyc.listen)
        /\ \A e \in Entries(proc[p].cyc) : obj[e.fd].kind = "socket" /\ obj[e.fd].addr = e.addr

(* While the new cycle is made, and if that fails, the old one goes on       *)
(* unharmed: nothing it uses is closed or freed.                             *)
OldIntact ==
    \A p \in Process :
        /\ Fds(proc[p].cyc) \cup LogFds(proc[p].cyc) \subseteq proc[p].held
        /\ Mem(proc[p].cyc) \subseteq proc[p].mem

(* A reload never gives up a socket, and with it the connections that wait   *)
(* in it, if the new configuration listens on the address too, nor the       *)
(* content of a zone that is declared as before; and no zone lives on in     *)
(* memory of another size.                                                   *)
TakenOver ==
    \A p \in Process :
        LET old == proc[p].cyc
            new == proc'[p].cyc IN
        Fixed(p)' /\ proc[p].pc = "bind" /\ new # old =>
            /\ \A a \in Addrs :
                  LET o == {e.fd : e \in {f \in Entries(old) : f.addr = a}}
                      n == {e.fd : e \in {f \in Entries(new) : f.addr = a}} IN
                  o \subseteq n \/ n \subseteq o
            /\ \A z \in DOMAIN new.zones \cap DOMAIN old.zones :
                  new.zones[z].at = old.zones[z].at <=>
                      /\ [new.zones[z] EXCEPT !.at = 0] = [old.zones[z] EXCEPT !.at = 0]
                      /\ new.zones[z].tag \notin NoReuse

(* An address is found in use only because of somebody else: another         *)
(* program, the other binary, or old workers.  The process never stands in   *)
(* its own way, neither with the sockets it has nor with those an earlier    *)
(* attempt bound.  The exception is the path of a unix socket that a failed  *)
(* attempt bound: the socket is closed and its path is not deleted, so the   *)
(* next reload finds the address in use, and every later one.                *)
NotInOwnWay == \A p \in Process : \A u \in proc[p].inuse : u.other \/ u.left

(* The path of a unix address that a master listens on leads to its socket,  *)
(* if no configuration gives the address up.                                 *)
PathsLead ==
    \A p \in Process : Fixed(p) =>
        \A e \in Entries(proc[p].cyc) : e.addr \in Unix => path[e.addr] = e.fd

(* The pid file a master's configuration names holds its pid.                *)
PidFound ==
    \A p \in Process : Fixed(p) /\ ~proc[p].child =>
        pidf[<<proc[p].cyc.pid, "pid">>] = p
=============================================================================
