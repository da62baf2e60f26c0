----------------------------- MODULE NgxLimitReq -----------------------------
(***************************************************************************)
(* The limit_req module of the bundled nginx                               *)
(* (http/modules/ngx_http_limit_req_module.c): worker processes share      *)
(* zones of leaky buckets, one bucket per key.  A request passes through   *)
(* several zones; the mutex of a zone is held for one bucket at a time, so *)
(* that a request first looks at the buckets of all zones but the last,    *)
(* holding them by a count, and pays into them when the last agreed.       *)
(*                                                                         *)
(* A worker's clock is the time its event loop cached, up to Stale behind. *)
(* A request that was accounted once (limit_req_status) passes the handler *)
(* by, and one whose key cannot be computed ends like a refused one: both  *)
(* are left out.                                                           *)
(***************************************************************************)
EXTENDS Integers, Sequences, FiniteSets, SequencesExt

CONSTANTS
    Workers,
    Keys,        \* values of the keys; NoKey is the empty one
    NoKey,
    Limits,      \* the limit_req directives: zone n has [rate, burst, delay, slots]
    Unit,        \* 1000: of a request, and milliseconds in a second
    Minute,      \* 60000
    Stale,       \* bound: how old a worker's clock is
    Start,       \* the clock at the start
    MaxTicks,    \* bound: time that passes
    MaxRequests  \* bound: requests

LimitsAssumption ==
    /\ Len(Limits) > 0 /\ Unit \in Nat \ {0} /\ Stale < Minute /\ NoKey \notin Keys
    /\ \A n \in DOMAIN Limits :
         /\ Limits[n].rate > 0 /\ Limits[n].slots > 0 /\ Limits[n].burst \in Nat /\ Limits[n].delay \in Nat
         /\ Start * Limits[n].rate >= Unit * Unit

VARIABLES
    clock,   \* the time
    zone,    \* the shared memory: a queue of buckets, the last looked up first
    worker,  \* the request each worker is at, and ctx->node of its zones
    paid,    \* for each zone and key, when requests were accounted and their delays
    left     \* requests still to come

vars == <<clock, zone, worker, paid, left>>

Zones == DOMAIN Limits
Larger(a, b) == IF a > b THEN a ELSE b
Held(v, n) == v.node[n] # NoKey
Idle == [pc |-> "idle", now |-> Start, n |-> 0, key |-> [n \in Zones |-> NoKey],
         node |-> [n \in Zones |-> NoKey], excess |-> 0, delay |-> 0, rc |-> "declined"]

-----------------------------------------------------------------------------
(* What leaked since a bucket was paid into, and what is in it with this     *)
(* request.                                                                  *)
Elapsed(now, last) ==
    CASE now - last < -Minute -> 1
      [] now - last \in -Minute..-1 -> 0
      [] OTHER -> now - last
Excess(n, b, now) ==
    Larger(0, b.excess - (Limits[n].rate * Elapsed(now, b.last)) \div Unit + Unit)

(* One bucket of ngx_http_limit_req_expire: the one looked up longest ago,   *)
(* unless it is held, or not empty for a minute and not forced.              *)
ExpireOne(n, z, now, forced) ==
    LET b == Last(z)
        ms == IF now > b.last THEN now - b.last ELSE b.last - now IN
    IF z = <<>> THEN z
    ELSE IF b.count > 0 THEN z
    ELSE IF ~forced /\ (ms < Minute \/ b.excess > (Limits[n].rate * ms) \div Unit) THEN z
    ELSE Front(z)
Expire(n, z, now) == ExpireOne(n, ExpireOne(n, z, now, FALSE), now, FALSE)
ExpireForced(n, z, now) == Expire(n, ExpireOne(n, z, now, TRUE), now)

Index(z, key) == CHOOSE i \in 0..Len(z) :
    IF i = 0 THEN \A j \in DOMAIN z : z[j].key # key ELSE z[i].key = key
(* Back to the head of the queue.                                            *)
ToHead(z, i, b) == <<b>> \o SubSeq(z, 1, i - 1) \o SubSeq(z, i + 1, Len(z))

(* Variant: one request more than the burst.                                 *)
TooMany_Late(n, excess) == excess > Limits[n].burst + Unit

(* A request that is refused.                                                *)
TooMany(n, excess) == excess > Limits[n].burst

(* ngx_http_limit_req_lookup in zone n: the zone after it, what it returns,  *)
(* the excess, and the keys whose buckets were removed by force (gone).      *)
Lookup(n, z, key, now) ==
    LET i == Index(z, key)
        b == z[i]
        e == Excess(n, b, now)
        account == n = Len(Limits)
        x == Expire(n, z, now)
        y == IF Len(x) < Limits[n].slots THEN x ELSE ExpireForced(n, x, now)
        new == [key |-> key, excess |-> 0, last |-> IF account THEN now ELSE 0,
                count |-> IF account THEN 0 ELSE 1]
        rc == IF account THEN "ok" ELSE "again" IN
    CASE i > 0 /\ TooMany(n, e) -> [z |-> ToHead(z, i, b), rc |-> "busy", excess |-> e, gone |-> {}]
      [] i > 0 /\ ~TooMany(n, e) ->
           [z |-> ToHead(z, i, IF account
                               THEN [b EXCEPT !.excess = e, !.last = IF Elapsed(now, b.last) > 0 THEN now ELSE @]
                               ELSE [b EXCEPT !.count = @ + 1]),
            rc |-> rc, excess |-> e, gone |-> {}]
      [] i = 0 /\ Len(y) < Limits[n].slots ->
           [z |-> <<new>> \o y, rc |-> rc, excess |-> 0,
            gone |-> {x[j].key : j \in (Len(y) + 1)..Len(x)}]
      [] OTHER -> [z |-> y, rc |-> "error", excess |-> 0, gone |-> {}]

(* The delay a zone asks for.                                                *)
Delay(n, excess) ==
    IF excess <= Limits[n].delay THEN 0 ELSE ((excess - Limits[n].delay) * Unit) \div Limits[n].rate

-----------------------------------------------------------------------------
Init ==
    /\ clock = Start /\ left = MaxRequests
    /\ zone = [n \in Zones |-> <<>>]
    /\ worker = [w \in Workers |-> Idle]
    /\ paid = [n \in Zones |-> [k \in Keys |-> <<>>]]

Tick ==
    /\ clock < Start + MaxTicks
    /\ \A w \in Workers : worker[w].pc # "idle" => clock + 1 - worker[w].now <= Stale
    /\ clock' = clock + 1
    /\ UNCHANGED <<zone, worker, paid, left>>

(* A request reaches ngx_http_limit_req_handler.                             *)
Request(w) ==
    /\ worker[w].pc = "idle" /\ left > 0
    /\ left' = left - 1
    /\ \E key \in [Zones -> Keys \cup {NoKey}], now \in Larger(worker[w].now, clock - Stale)..clock :
         worker' = [worker EXCEPT ![w] = [Idle EXCEPT !.pc = "look", !.now = now, !.n = 1, !.key = key,
                                                      !.node = worker[w].node]]
    /\ UNCHANGED <<clock, zone, paid>>

(* A history: what a key was accounted since its bucket exists.  A bucket    *)
(* that is removed by force, to make room, forgets what was paid into it,    *)
(* and so does the history of its key.                                       *)
Pays(n, key, delay, gone) ==
    paid' = [paid EXCEPT ![n] = [k \in Keys |->
        IF k \in gone THEN <<>> ELSE IF k = key THEN Append(@[k], [at |-> clock, delay |-> delay]) ELSE @[k]]]

(* The loop over the limits: a zone whose key is empty is passed over, and   *)
(* one that does not say NGX_AGAIN ends it.                                  *)
Finished(v) == [Idle EXCEPT !.now = v.now, !.node = v.node]
Ended(v, rc) ==
    CASE rc = "declined" -> Finished(v)
      [] rc \in {"busy", "error"} -> [v EXCEPT !.pc = "unlock", !.rc = rc]
      [] rc = "again" -> [v EXCEPT !.pc = "account", !.rc = rc, !.delay = 0, !.excess = 0]
      [] rc = "ok" -> [v EXCEPT !.pc = "account", !.rc = rc, !.delay = Delay(v.n, v.excess)]
Look(w) ==
    LET v == worker[w]
        n == v.n
        key == v.key[n]
        r == Lookup(n, zone[n], key, v.now) IN
    /\ v.pc = "look" /\ n <= Len(Limits)
    /\ IF key = NoKey
       THEN /\ worker' = [worker EXCEPT ![w].n = n + 1]
            /\ UNCHANGED <<zone, paid>>
       ELSE /\ zone' = [zone EXCEPT ![n] = r.z]
            /\ LET u == [v EXCEPT !.excess = r.excess, !.rc = r.rc] IN
               worker' = [worker EXCEPT ![w] = IF r.rc # "again" THEN Ended(u, r.rc)
                                               ELSE [u EXCEPT !.n = n + 1, !.node[n] = key]]
            /\ Pays(n, IF r.rc = "ok" THEN key ELSE NoKey, Delay(n, r.excess), r.gone)
    /\ UNCHANGED <<clock, left>>
LookedAll(w) ==
    /\ worker[w].pc = "look" /\ worker[w].n > Len(Limits)
    /\ worker' = [worker EXCEPT ![w] = Ended(@, @.rc)]
    /\ UNCHANGED <<clock, zone, paid, left>>

(* Done with zone n - 1 of the loops that go down.                           *)
Down(v) == [v EXCEPT !.n = @ - 1, !.node[v.n - 1] = NoKey]

(* One zone of ngx_http_limit_req_account.                                   *)
Paid(n, b, now) ==
    [b EXCEPT !.excess = Excess(n, b, now), !.count = @ - 1,
              !.last = IF Elapsed(now, b.last) > 0 THEN now ELSE @]
Account(w) ==
    LET v == worker[w]
        n == v.n - 1
        i == Index(zone[n], v.node[n])
        b == Paid(n, zone[n][i], v.now) IN
    /\ v.pc = "account" /\ n > 0
    /\ IF ~Held(v, n)
       THEN worker' = [worker EXCEPT ![w] = Down(v)] /\ UNCHANGED <<zone, paid>>
       ELSE /\ i > 0
            /\ zone' = [zone EXCEPT ![n][i] = b]
            /\ worker' = [worker EXCEPT ![w] = [Down(v) EXCEPT !.delay = Larger(@, Delay(n, b.excess))]]
            /\ Pays(n, v.node[n], Delay(n, b.excess), {})
    /\ UNCHANGED <<clock, left>>

(* One zone of ngx_http_limit_req_unlock.                                    *)
Released(b) == [b EXCEPT !.count = @ - 1]
Unlock(w) ==
    LET v == worker[w]
        n == v.n - 1
        i == Index(zone[n], v.node[n]) IN
    /\ v.pc = "unlock" /\ n > 0
    /\ worker' = [worker EXCEPT ![w] = Down(v)]
    /\ IF Held(v, n) THEN i > 0 /\ zone' = [zone EXCEPT ![n][i] = Released(@)] ELSE zone' = zone
    /\ UNCHANGED <<clock, paid, left>>

(* The request is passed on, now or after its delay, or refused.             *)
Return(w) ==
    /\ worker[w].pc \in {"account", "unlock"} /\ worker[w].n = 1
    /\ worker' = [worker EXCEPT ![w] = Finished(@)]
    /\ UNCHANGED <<clock, zone, paid, left>>

Over == left = 0 /\ (\A w \in Workers : worker[w].pc = "idle") /\ clock = Start + MaxTicks /\ UNCHANGED vars

Next ==
    \/ Tick \/ Over
    \/ \E w \in Workers :
         Request(w) \/ Look(w) \/ LookedAll(w) \/ Account(w) \/ Unlock(w) \/ Return(w)

Spec == Init /\ [][Next]_vars

-----------------------------------------------------------------------------
(* Type invariant of limit_req: the clock, the zones and the requests.       *)
TypeOK ==
    /\ clock \in Start..(Start + MaxTicks) /\ left \in 0..MaxRequests
    /\ \A n \in Zones :
         /\ Len(zone[n]) <= Limits[n].slots
         /\ \A i, j \in DOMAIN zone[n] : zone[n][i].key = zone[n][j].key => i = j
         /\ \A i \in DOMAIN zone[n] : zone[n][i].excess \in Nat /\ zone[n][i].last <= clock

(* A bucket a worker holds between its two visits is there on the second:    *)
(* expiry in another worker does not free it.  Its count is the number of    *)
(* workers that hold it, so that what is given up can be freed.              *)
HeldStays ==
    \A n \in Zones :
        /\ \A w \in Workers : Held(worker[w], n) => Index(zone[n], worker[w].node[n]) > 0
        /\ \A i \in DOMAIN zone[n] :
             zone[n][i].count = Cardinality({w \in Workers : worker[w].node[n] = zone[n][i].key})

(* The promise of the rate: in any stretch of time a key gets no more        *)
(* requests past a zone than the burst and what leaked, whichever workers    *)
(* take them and however old their clocks are.  Where zones are looked at    *)
(* before they are paid into, every other worker may be ahead by one.  The   *)
(* stretches are those in which the bucket of the key was not removed by     *)
(* force: a zone too small for its keys forgets what they were accounted.    *)
RateKept ==
    \A n \in Zones, k \in Keys :
        LET q == paid[n][k]
            ahead == IF n = Len(Limits) THEN 0 ELSE Unit * (Cardinality(Workers) - 1) IN
        \A i, j \in DOMAIN q :
            i < j => (j - i) * Unit * Unit <= (Limits[n].burst + ahead) * Unit
                                              + Limits[n].rate * (q[j].at - q[i].at + Stale)

(* And of the delay: requests that are held back are let go at the rate,     *)
(* beyond those that need not wait.                                          *)
Smoothed ==
    \A n \in Zones, k \in Keys :
        LET q == paid[n][k] IN
        \A i, j \in DOMAIN q :
            i < j => (j - i) * Unit * Unit <=
                (IF q[i].delay = 0 THEN Limits[n].delay * Unit ELSE 0)
                + Limits[n].rate * (q[j].at + q[j].delay - q[i].at - q[i].delay + 1 + Stale)

(* A full zone refuses a new key only because another worker is between its  *)
(* two visits to this zone and holds a bucket: what nobody uses gives way.   *)
FullOnlyWhenHeld ==
    \A w \in Workers :
        worker[w].rc # "error" /\ worker'[w].rc = "error" =>
            \E u \in Workers \ {w} : Held(worker[u], worker[w].n)
=============================================================================
