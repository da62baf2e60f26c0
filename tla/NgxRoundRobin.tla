--------------------------- MODULE NgxRoundRobin ---------------------------
(***************************************************************************)
(* The round-robin balancer of the bundled nginx,                          *)
(* http/ngx_http_upstream_round_robin.c: which server of an upstream a     *)
(* request is sent to (smooth weighted round robin), which servers are     *)
(* left out (tried, down, failed, full), how failures lower a server's     *)
(* weight and take it out of service, and how it comes back.               *)
(*                                                                         *)
(* Times are kept as ages, in seconds and only up to FailTimeout + 1: the  *)
(* code compares now - checked with fail_timeout and accessed with         *)
(* checked, and nothing else.  fails is kept up to max_fails, the only     *)
(* number it is compared with.  Each of get and free runs under the lock   *)
(* of the peers (or in one worker): it is one step.                        *)
(***************************************************************************)
EXTENDS Integers, FiniteSets, Functions

CONSTANTS
  Reqs,         \* requests in flight at the same time
  Weight,       \* the peers, 1..N in list order, and their weights
  Backup,       \* the peers of peers->next
  Down,         \* the peers configured "down"
  MaxFails,     \* max_fails of each peer, 0 is "never taken out"
  MaxConns,     \* max_conns of each peer, 0 is "no limit"
  FailTimeout,  \* fail_timeout, the same for every peer
  Failing       \* the peers whose answers may fail

Peers == DOMAIN Weight

PeersAssumption ==
  /\ IsFiniteSet(Peers) /\ Peers # {} /\ Peers = 1..Cardinality(Peers)
  /\ \A p \in Peers : Weight[p] \in Nat \ {0}
  /\ MaxFails \in [Peers -> Nat] /\ MaxConns \in [Peers -> Nat]
  /\ FailTimeout \in Nat
  /\ Backup \subseteq Peers /\ Backup # Peers
  /\ Down \subseteq Peers /\ Failing \subseteq Peers
  /\ IsFiniteSet(Reqs)

VARIABLES
  peer,    \* ngx_http_upstream_rr_peer_t of each peer
  rr       \* ngx_http_upstream_rr_peer_data_t of each request

rrvars == <<peer, rr>>

None == 0
Groups == {"primary", "backup"}

\* The peers of rrp->peers.
Members(g) == IF g = "backup" THEN Backup ELSE Peers \ Backup

\* peers->single: one server and no backup.
Single == Cardinality(Peers) = 1

FreshPeer(p) == [current_weight |-> 0, effective_weight |-> Weight[p],
                 fails |-> 0, age |-> FailTimeout + 1,
                 accessedEarlier |-> FALSE, conns |-> 0]

FreshData == [group |-> "primary", tried |-> {}, current |-> None,
              held |-> FALSE, probe |-> FALSE, age |-> 0]

RRInit == /\ peer = [p \in Peers |-> FreshPeer(p)]
          /\ rr = [r \in Reqs |-> FreshData]

Disabled(p) == MaxFails[p] > 0 /\ peer[p].fails >= MaxFails[p]

Full(p) == MaxConns[p] > 0 /\ peer[p].conns >= MaxConns[p]

\* The peers the loop does not skip, for a peer not tried yet.  A single
\* peer is asked even when it failed.
Eligible(p) ==
  /\ p \notin Down
  /\ Single \/ ~(Disabled(p) /\ peer[p].age <= FailTimeout)
  /\ ~Full(p)

Candidates(g, tried) == {p \in Members(g) : p \notin tried /\ Eligible(p)}

\* The candidate with the greatest current_weight once its effective_weight
\* is added, the first of them in list order.
Best(C) ==
  LET w(p) == peer[p].current_weight + peer[p].effective_weight
  IN CHOOSE p \in C : \A q \in C : w(p) > w(q) \/ (w(p) = w(q) /\ p <= q)

\* A lowered weight grows back by one at every choice.
Recovered(ew, p) == IF ew < Weight[p] THEN ew + 1 ELSE ew

Paid(w, total, p) == w - total

Checked(q) == IF q.age > FailTimeout
              THEN [q EXCEPT !.age = 0, !.accessedEarlier = TRUE]
              ELSE q

\* A candidate gains its weight; the one that is chosen pays for them all, and
\* its connection is counted (by the caller).
Gained(q, p) == [q EXCEPT !.current_weight = @ + q.effective_weight,
                          !.effective_weight = Recovered(@, p)]
Charged(q, total, p) == [q EXCEPT !.current_weight = Paid(@, total, p),
                                  !.conns = @ + 1]

\* The peers after best was chosen out of C.
Chosen(C, best) ==
  LET total == SumFunctionOnSet([p \in Peers |-> peer[p].effective_weight], C)
      added == [p \in Peers |-> IF p \in C THEN Gained(peer[p], p) ELSE peer[p]]
  IN [added EXCEPT ![best] = Charged(Checked(added[best]), total, best)]

\* A single peer is asked without weights.
Asked == [peer EXCEPT ![1].conns = @ + 1]

\* The switch to the backup servers, which starts with none of them tried.
Regroup(d) == [d EXCEPT !.group = "backup", !.tried = {}]

\* The group a get ends in: the backup servers when the primary ones have
\* no candidate.
Grouped(d) ==
  IF d.group = "primary" /\ Backup # {} /\ Candidates(d.group, d.tried) = {}
  THEN Regroup(d) ELSE d

\* The request's data when no server is left: NGX_BUSY.
Busy(d) == Candidates(Grouped(d).group, Grouped(d).tried) = {}

\* ngx_http_upstream_get_round_robin_peer: p is chosen for request r.
GetPeer(r) ==
  LET d == Grouped(rr[r])
      C == Candidates(d.group, d.tried)
      p == Best(C)
      v == [d EXCEPT !.current = p, !.held = TRUE, !.age = 0,
                     !.tried = IF Single THEN @ ELSE @ \cup {p},
                     !.probe = ~Single /\ Disabled(p)]
  IN /\ ~rr[r].held
     /\ C # {}
     /\ peer' = IF Single THEN Asked ELSE Chosen(C, p)
     /\ rr' = [rr EXCEPT ![r] = v]

\* ngx_http_upstream_get_round_robin_peer: NGX_BUSY.
GetBusy(r) ==
  LET d == Grouped(rr[r])
  IN /\ ~rr[r].held
     /\ Busy(rr[r])
     /\ rr' = [rr EXCEPT ![r] = d]
     /\ UNCHANGED peer

Lowered(ew, p) ==
  IF MaxFails[p] = 0 THEN ew
  ELSE LET w == ew - Weight[p] \div MaxFails[p] IN IF w < 0 THEN 0 ELSE w

\* A failed answer: the peer was accessed and checked now.
Failed(q, p) == [q EXCEPT !.fails = IF @ < MaxFails[p] THEN @ + 1 ELSE @,
                          !.age = 0, !.accessedEarlier = FALSE,
                          !.effective_weight = Lowered(@, p)]

\* An answer: a peer that was being checked is live again.
Passed(q) == IF q.accessedEarlier THEN [q EXCEPT !.fails = 0] ELSE q

Answered(q, p, failed) == IF Single THEN q ELSE IF failed THEN Failed(q, p) ELSE Passed(q)

Released(q, p, failed) == [Answered(q, p, failed) EXCEPT !.conns = @ - 1]

\* ngx_http_upstream_free_round_robin_peer; last says that the request ends
\* with it and its data is gone.
FreePeer(r, failed, last) ==
  LET p == rr[r].current
  IN /\ rr[r].held
     /\ peer' = [peer EXCEPT ![p] = Released(peer[p], p, failed)]
     /\ rr' = [rr EXCEPT ![r] =
                 IF last THEN FreshData
                 ELSE [rr[r] EXCEPT !.held = FALSE, !.probe = FALSE, !.age = 0]]

\* ngx_http_upstream_init_round_robin_peer: a new request, with nothing tried.
InitPeer(r) == /\ ~rr[r].held
               /\ rr' = [rr EXCEPT ![r] = FreshData]
               /\ UNCHANGED peer

Older(a) == IF a <= FailTimeout THEN a + 1 ELSE a

\* A second passes.
Tick == /\ peer' = [p \in Peers |-> [peer[p] EXCEPT !.age = Older(@)]]
        /\ rr' = [r \in Reqs |->
                    IF rr[r].held THEN [rr[r] EXCEPT !.age = Older(@)]
                                  ELSE rr[r]]

RRNext == \/ \E r \in Reqs : \/ GetPeer(r)
                             \/ GetBusy(r)
                             \/ InitPeer(r)
                             \/ FreePeer(r, FALSE, TRUE)
                             \/ /\ rr[r].current \in Failing
                                /\ \E failed \in BOOLEAN : FreePeer(r, failed, FALSE)
          \/ Tick

RRSpec == RRInit /\ [][RRNext]_rrvars

----------------------------------------------------------------------------

(* Type invariant of the peers: weights, failures and connections are in     *)
(* range.                                                                    *)
RRTypeOK ==
  /\ \A p \in Peers :
       /\ peer[p].current_weight \in Int
       /\ peer[p].effective_weight \in 0..Weight[p]
       /\ peer[p].fails \in 0..MaxFails[p]
       /\ peer[p].age \in 0..FailTimeout + 1
       /\ peer[p].accessedEarlier \in BOOLEAN
       /\ peer[p].conns \in 0..Cardinality(Reqs)
  /\ rr \in [Reqs -> [group : Groups, tried : SUBSET Peers,
                      current : Peers \cup {None}, held : BOOLEAN,
                      probe : BOOLEAN, age : 0..FailTimeout + 1]]

\* A peer's connection count, which max_conns is compared with, is the
\* number of requests that hold the peer, whatever order they were answered,
\* failed or retried in; it never exceeds the limit.
ConnsExact ==
  \A p \in Peers :
    LET n == Cardinality({r \in Reqs : rr[r].held /\ rr[r].current = p})
    IN /\ peer[p].conns = n
       /\ MaxConns[p] > 0 => n <= MaxConns[p]

\* What the candidates gain the chosen peer pays: within a group the current
\* weights always sum to 0, also when peers are skipped, fail and recover,
\* so no peer's weight can drift away from the others'.
WeightsBalance ==
  \A g \in Groups :
    SumFunctionOnSet([p \in Peers |-> peer[p].current_weight], Members(g)) = 0

\* A peer that was taken out gets at most one request per fail_timeout,
\* however many requests choose at the moment it comes back.
ProbesApart ==
  \A p \in Peers :
    Cardinality({r \in Reqs : /\ rr[r].held /\ rr[r].probe
                              /\ rr[r].current = p
                              /\ rr[r].age <= FailTimeout}) <= 1
============================================================================
