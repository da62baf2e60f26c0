---------------------------- MODULE NgxLimitConn ----------------------------
(***************************************************************************)
(* The limit_conn module of the bundled nginx                              *)
(* (http/modules/ngx_http_limit_conn_module.c): requests of all worker     *)
(* processes are counted in nodes of shared zones, one per key, by a       *)
(* handler that runs in a phase of the request and may run again after an  *)
(* internal redirect, and uncounted by cleanups of the request's pool.     *)
(* The mutex of a zone is held for one node at a time.                     *)
(*                                                                         *)
(* A zone has one limit here; in the code a limit belongs to a limit_conn  *)
(* directive, and locations may limit one zone differently.                *)
(*                                                                         *)
(* Left out: a failing ngx_pool_cleanup_add, and the cleanups of other     *)
(* handlers, at the first of which ngx_http_limit_conn_cleanup_all stops   *)
(* (one that evaluating a key added would keep the counts before it until  *)
(* the request's pool is destroyed).                                       *)
(***************************************************************************)
EXTENDS Integers, Sequences, FiniteSets, SequencesExt

CONSTANTS
    Requests,
    Keys,      \* the keys' values
    NoKey,     \* the empty value, or one that is too long
    Limits,    \* zone n admits Limits[n].conn and has room for Limits[n].slots keys
    Locations, \* the limit_conn directives that apply in a location: sequences of zones
    DryRun,
    MaxRedirects

LimitsAssumption ==
    /\ \A n \in DOMAIN Limits : Limits[n].conn \in Nat \ {0} /\ Limits[n].slots \in Nat \ {0}
    /\ Locations \subseteq Seq(DOMAIN Limits)
    /\ \A l \in Locations : \A i, j \in DOMAIN l : l[i] = l[j] => i = j
    /\ IsFiniteSet(Requests) /\ NoKey \notin Keys /\ DryRun \in BOOLEAN /\ MaxRedirects \in Nat

VARIABLES
    conn,  \* zone -> key -> lc->conn, 0 for no node
    req    \* the requests

vars == <<conn, req>>

Zones == DOMAIN Limits
NewRequest == [pc |-> "new", loc |-> <<>>, i |-> 0, key |-> [n \in Zones |-> NoKey],
               status |-> "none", cleanups |-> <<>>, redirects |-> MaxRedirects]

Init ==
    /\ conn = [n \in Zones |-> [k \in Keys |-> 0]]
    /\ req = [r \in Requests |-> NewRequest]

(* The phase handler is entered, with the location's limits.                 *)
Skips(v) == v.status # "none"
Enters(v, l, key) ==
    IF Skips(v) THEN [v EXCEPT !.pc = "content"] ELSE [v EXCEPT !.pc = "limit", !.loc = l, !.i = 1, !.key = key]
Enter(r) ==
    /\ req[r].pc = "new"
    /\ \E l \in Locations, key \in [Zones -> Keys \cup {NoKey}] :
         req' = [req EXCEPT ![r] = Enters(@, l, key)]
    /\ UNCHANGED conn
Redirect(r) ==
    /\ req[r].pc = "content" /\ req[r].redirects > 0
    /\ \E l \in Locations :
         LET v == [req[r] EXCEPT !.redirects = @ - 1]
         IN  req' = [req EXCEPT ![r] = Enters(v, l, v.key)]
    /\ UNCHANGED conn

Full(n) == Cardinality({k \in Keys : conn[n][k] > 0}) = Limits[n].slots
Refused(n, k) == IF conn[n][k] = 0 THEN Full(n) ELSE conn[n][k] >= Limits[n].conn

(* One limit of ngx_http_limit_conn_handler.                                 *)
Limit(r) ==
    LET v == req[r]
        n == v.loc[v.i]
        k == v.key[n] IN
    /\ v.pc = "limit"
    /\ IF v.i > Len(v.loc)
       THEN req' = [req EXCEPT ![r].pc = "content"] /\ UNCHANGED conn
       ELSE IF k = NoKey
       THEN req' = [req EXCEPT ![r].i = @ + 1] /\ UNCHANGED conn
       ELSE IF Refused(n, k)
       THEN req' = [req EXCEPT ![r].pc = "undo", ![r].status = "rejected"] /\ UNCHANGED conn
       ELSE /\ conn' = [conn EXCEPT ![n][k] = @ + 1]
            /\ req' = [req EXCEPT ![r].i = @ + 1, ![r].status = "passed",
                                  ![r].cleanups = <<[zone |-> n, key |-> k]>> \o @]

(* The cleanups of the pool run, the last added first:                       *)
(* ngx_http_limit_conn_cleanup_all of a refused request, and the pool's own  *)
(* when the request is over. The variant runs only the first.                *)
Undone_First(v) == [v EXCEPT !.cleanups = <<>>]
Undone(v) == [v EXCEPT !.cleanups = Tail(@)]
Cleanup(r) ==
    LET v == req[r]
        c == Head(v.cleanups) IN
    /\ v.pc \in {"undo", "closing"} /\ v.cleanups # <<>>
    /\ conn' = [conn EXCEPT ![c.zone][c.key] = @ - 1]
    /\ req' = [req EXCEPT ![r] = Undone(v)]
Undid(r) ==
    /\ req[r].pc = "undo" /\ req[r].cleanups = <<>>
    /\ req' = [req EXCEPT ![r].pc = IF DryRun THEN "content" ELSE "refused"]
    /\ UNCHANGED conn
Close(r) ==
    /\ req[r].pc \in {"content", "refused"}
    /\ req' = [req EXCEPT ![r].pc = "closing"]
    /\ UNCHANGED conn
Freed(r) ==
    /\ req[r].pc = "closing" /\ req[r].cleanups = <<>>
    /\ req' = [req EXCEPT ![r] = NewRequest]
    /\ UNCHANGED conn

Next == \E r \in Requests :
    Enter(r) \/ Redirect(r) \/ Limit(r) \/ Cleanup(r) \/ Undid(r) \/ Close(r) \/ Freed(r)

Spec == Init /\ [][Next]_vars

-----------------------------------------------------------------------------
(* Type invariant of limit_conn: counts are natural numbers, requests are at *)
(* a place of the handler.                                                   *)
TypeOK ==
    /\ \A n \in Zones, k \in Keys : conn[n][k] \in Nat
    /\ \A r \in Requests : req[r].status \in {"none", "passed", "rejected"}

Counted(r, n, k) == \E i \in DOMAIN req[r].cleanups : req[r].cleanups[i] = [zone |-> n, key |-> k]

(* A node counts the requests that will uncount it, each once: no count is   *)
(* lost when a later limit refuses the request, none is given back twice,    *)
(* and a redirect adds none.                                                 *)
CountsExact ==
    \A n \in Zones, k \in Keys :
        conn[n][k] = Cardinality({r \in Requests : Counted(r, n, k)})

(* Never are more requests of a key in progress than the limit says, over    *)
(* all workers and at every moment of counting several zones.                *)
LimitKept == \A n \in Zones, k \in Keys : conn[n][k] <= Limits[n].conn

(* A refused request holds no place while its error page is sent, and one    *)
(* that passed was counted in all zones of the location that limited it.     *)
RefusedFree ==
    \A r \in Requests :
        /\ req[r].pc = "refused" => req[r].cleanups = <<>>
        /\ req[r].pc = "content" /\ req[r].status = "passed" =>
             \A i \in DOMAIN req[r].loc : LET n == req[r].loc[i] IN
                 req[r].key[n] # NoKey => Counted(r, n, req[r].key[n])
=============================================================================
