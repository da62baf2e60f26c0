--------------------------- MODULE NgxZoneProofs ----------------------------
(***************************************************************************)
(* Proofs about what the workers of nginx share in memory: the counts of   *)
(* limit_conn (NgxLimitConn), for any number of requests, keys, zones and  *)
(* locations, and the mutex of a zone (NgxShmtx), for any finite set of    *)
(* workers, any number of calls and of deaths at any place.  The first is  *)
(* about the locked sections, the second about what makes them exclusive.  *)
(***************************************************************************)
EXTENDS NgxLimitConn, FiniteSetTheorems, SequenceTheorems, TLAPS

(* limit_conn: the limit is kept and every count is given back once.         *)
Slot == [zone : Zones, key : Keys]
Places == {"new", "limit", "undo", "content", "refused", "closing"}
Request ==
    [pc : Places, loc : Locations \cup {<<>>}, i : Nat, key : [Zones -> Keys \cup {NoKey}],
     status : {"none", "passed", "rejected"}, cleanups : Seq(Slot), redirects : Nat]

Distinct(q) == \A i, j \in DOMAIN q : q[i] = q[j] => i = j
In(q, e) == \E i \in DOMAIN q : q[i] = e

(* The first limits of the location, up to and without the n-th, were        *)
(* counted where there was a key.                                            *)
CountedUpTo(v, n) ==
    \A j \in DOMAIN v.loc : j < n /\ v.key[v.loc[j]] # NoKey =>
        In(v.cleanups, [zone |-> v.loc[j], key |-> v.key[v.loc[j]]])

(* What holds of one request: its cleanups are different ones, of the limits *)
(* it has been through.                                                      *)
RequestOK(v) ==
    /\ Distinct(v.cleanups)
    /\ v.status = "none" \/ v.pc = "refused" => v.cleanups = <<>>
    /\ v.pc = "new" => v.status = "none"
    /\ v.pc = "limit" =>
          /\ v.i > 0 /\ v.status # "rejected" /\ CountedUpTo(v, v.i)
          /\ \A m \in DOMAIN v.cleanups :
                \E j \in DOMAIN v.loc : j < v.i /\ v.loc[j] = v.cleanups[m].zone
    /\ v.pc = "undo" => v.status = "rejected"
    /\ v.pc = "content" /\ v.status = "passed" => CountedUpTo(v, Len(v.loc) + 1)

Typed == conn \in [Zones -> [Keys -> Int]] /\ req \in [Requests -> Request]

(* The inductive invariant.                                                  *)
IInv == Typed /\ (\A r \in Requests : RequestOK(req[r])) /\ CountsExact /\ LimitKept

-----------------------------------------------------------------------------
(* The cleanups of one request                                               *)

(* A cleanup that is added at the head is there, with all the others.        *)
LEMMA Pushed ==
    ASSUME NEW S, NEW q \in Seq(S), NEW c \in S
    PROVE  /\ <<c>> \o q \in Seq(S)
           /\ \A e : In(<<c>> \o q, e) <=> e = c \/ In(q, e)
           /\ Distinct(q) /\ ~In(q, c) => Distinct(<<c>> \o q)
<1> DEFINE p == <<c>> \o q
<1>1. <<c>> \in Seq(S) /\ Len(<<c>>) = 1 /\ <<c>>[1] = c
  OBVIOUS
<1>2. p \in Seq(S) /\ Len(p) = 1 + Len(q) /\ Len(q) \in Nat
  BY <1>1, ConcatProperties, LenProperties
<1>3. \A i \in 1..1+Len(q) : p[i] = IF i <= 1 THEN c ELSE q[i - 1]
  <2>1. \A i \in 1..Len(<<c>>)+Len(q) :
           p[i] = IF i <= Len(<<c>>) THEN <<c>>[i] ELSE q[i - Len(<<c>>)]
    BY <1>1, ConcatProperties
  <2>2. \A i \in 1..1+Len(q) : i <= 1 => i = 1
    BY <1>2
  <2> QED BY <1>1, <2>1, <2>2
<1>4. DOMAIN p = 1..1+Len(q) /\ DOMAIN q = 1..Len(q)
  BY <1>2, LenProperties
<1> HIDE DEF p
<1>5. ASSUME NEW e PROVE In(p, e) <=> e = c \/ In(q, e)
  <2>1. ASSUME In(p, e) PROVE e = c \/ In(q, e)
    <3>1. PICK i \in 1..1+Len(q) : p[i] = e
      BY <1>4, <2>1 DEF In
    <3>2. CASE i <= 1
      BY <1>3, <3>1, <3>2
    <3>3. CASE i > 1
      <4>1. i - 1 \in DOMAIN q /\ q[i - 1] = e
        BY <1>2, <1>3, <1>4, <3>1, <3>3
      <4> QED BY <4>1 DEF In
    <3> QED BY <1>2, <3>2, <3>3
  <2>2. In(p, c)
    <3>1. 1 \in DOMAIN p /\ p[1] = c
      BY <1>2, <1>3, <1>4
    <3> QED BY <3>1 DEF In
  <2>3. ASSUME In(q, e) PROVE In(p, e)
    <3>1. PICK i \in 1..Len(q) : q[i] = e
      BY <1>4, <2>3 DEF In
    <3>2. i + 1 \in DOMAIN p /\ p[i + 1] = q[i + 1 - 1] /\ i + 1 - 1 = i
      BY <1>2, <1>3, <1>4
    <3> QED BY <3>1, <3>2 DEF In
  <2> QED BY <2>1, <2>2, <2>3
<1>6. ASSUME Distinct(q), ~In(q, c) PROVE Distinct(p)
  <2> SUFFICES ASSUME NEW i \in DOMAIN p, NEW j \in DOMAIN p, p[i] = p[j] PROVE i = j
    BY DEF Distinct
  <2>1. \A k \in DOMAIN p : k \in Nat /\ (k = 1 \/ (k > 1 /\ k - 1 \in DOMAIN q /\ p[k] = q[k - 1]))
    BY <1>2, <1>3, <1>4
  <2>2. \A k \in DOMAIN p : k = 1 => p[k] = c
    BY <1>2, <1>3
  <2>3. \A k \in DOMAIN p : k > 1 => p[k] # c
    BY <1>6, <2>1 DEF In
  <2>4. CASE i = 1 \/ j = 1
    BY <2>1, <2>2, <2>3, <2>4
  <2>5. CASE i > 1 /\ j > 1
    <3>1. i - 1 = j - 1
      BY <1>6, <2>1, <2>5 DEF Distinct
    <3> QED BY <2>1, <3>1
  <2> QED BY <2>1, <2>4, <2>5
<1> QED BY <1>2, <1>5, <1>6 DEF p

(* A cleanup that has run is gone, and the others stay.                      *)
LEMMA Popped ==
    ASSUME NEW S, NEW q \in Seq(S), q # <<>>, Distinct(q)
    PROVE  /\ Head(q) \in S /\ Tail(q) \in Seq(S) /\ In(q, Head(q))
           /\ \A e : In(Tail(q), e) <=> In(q, e) /\ e # Head(q)
           /\ Distinct(Tail(q))
<1>1. Head(q) = q[1]
  OBVIOUS
<1>2. Len(q) \in Nat \ {0} /\ DOMAIN q = 1..Len(q)
  BY EmptySeq, LenProperties
<1>3. Head(q) \in S /\ Tail(q) \in Seq(S) /\ Len(Tail(q)) = Len(q) - 1
      /\ \A i \in 1..Len(Tail(q)) : Tail(q)[i] = q[i + 1]
  BY HeadTailProperties
<1>4. DOMAIN Tail(q) = 1..Len(q)-1 /\ \A i \in 1..Len(q)-1 : Tail(q)[i] = q[i + 1]
  BY <1>3, LenProperties
<1> DEFINE t == Tail(q)
           h == Head(q)
<1>5. DOMAIN t = 1..Len(q)-1 /\ (\A i \in 1..Len(q)-1 : t[i] = q[i + 1]) /\ h = q[1]
  BY <1>1, <1>4
<1> HIDE DEF t, h
<1>6. 1 \in DOMAIN q
  BY <1>2
<1>7. In(q, h)
  BY <1>5, <1>6 DEF In
<1>8. ASSUME NEW e PROVE In(t, e) <=> In(q, e) /\ e # h
  <2>1. ASSUME In(t, e) PROVE In(q, e) /\ e # h
    <3>1. PICK i \in 1..Len(q)-1 : t[i] = e
      BY <1>5, <2>1 DEF In
    <3>2. i + 1 \in DOMAIN q /\ q[i + 1] = e /\ i + 1 # 1
      BY <1>2, <1>5, <3>1
    <3> QED BY <1>5, <1>6, <3>2 DEF In, Distinct
  <2>2. ASSUME In(q, e), e # h PROVE In(t, e)
    <3>1. PICK i \in 1..Len(q) : q[i] = e
      BY <1>2, <2>2 DEF In
    <3>2. i - 1 \in DOMAIN t /\ t[i - 1] = q[i - 1 + 1] /\ i - 1 + 1 = i
      BY <1>2, <1>5, <2>2, <3>1
    <3> QED BY <3>1, <3>2 DEF In
  <2> QED BY <2>1, <2>2
<1>9. Distinct(t)
  <2> SUFFICES ASSUME NEW i \in DOMAIN t, NEW j \in DOMAIN t, t[i] = t[j] PROVE i = j
    BY DEF Distinct
  <2>1. /\ i \in Nat /\ j \in Nat /\ i + 1 \in DOMAIN q /\ j + 1 \in DOMAIN q
        /\ q[i + 1] = q[j + 1]
    BY <1>2, <1>5
  <2>2. i + 1 = j + 1
    BY <2>1 DEF Distinct
  <2> QED BY <2>1, <2>2
<1> QED BY <1>3, <1>7, <1>8, <1>9 DEF t, h

-----------------------------------------------------------------------------
(* The counts                                                                *)

Holders(n, k) == {r \in Requests : Counted(r, n, k)}

(* A count is of the requests that hold it.                                  *)
LEMMA HoldersCount ==
    ASSUME LimitsAssumption, CountsExact
    PROVE  \A n \in Zones, k \in Keys :
               /\ conn[n][k] = Cardinality(Holders(n, k)) /\ conn[n][k] \in Nat
               /\ IsFiniteSet(Holders(n, k))
<1> SUFFICES ASSUME NEW n \in Zones, NEW k \in Keys
             PROVE  /\ conn[n][k] = Cardinality(Holders(n, k)) /\ conn[n][k] \in Nat
                    /\ IsFiniteSet(Holders(n, k))
    OBVIOUS
<1>1. conn[n][k] = Cardinality(Holders(n, k))
  BY DEF CountsExact, Holders
<1>2. IsFiniteSet(Holders(n, k))
  <2>1. Holders(n, k) \subseteq Requests
    BY DEF Holders
  <2> QED BY <2>1, FS_Subset DEF LimitsAssumption
<1> QED BY <1>1, <1>2, FS_CardinalityType

(* A step that leaves one request with the same cleanups leaves the counts.  *)
LEMMA SameCounts ==
    ASSUME IInv, NEW r \in Requests, NEW w, req' = [req EXCEPT ![r] = w],
           w.cleanups = req[r].cleanups, UNCHANGED conn
    PROVE  CountsExact' /\ LimitKept'
<1>1. \A x \in Requests : req'[x].cleanups = req[x].cleanups
  BY DEF IInv, Typed
<1>2. \A n, k : \A x \in Requests : Counted(x, n, k)' <=> Counted(x, n, k)
  BY <1>1 DEF Counted
<1>3. \A n, k : {x \in Requests : Counted(x, n, k)'} = {x \in Requests : Counted(x, n, k)}
  BY <1>2
<1> QED BY <1>3 DEF IInv, CountsExact, LimitKept

(* One that counts the request in one more zone adds one there.              *)
LEMMA CountUp ==
    ASSUME LimitsAssumption, IInv, NEW r \in Requests, NEW w, req' = [req EXCEPT ![r] = w],
           NEW n \in Zones, NEW k \in Keys, ~In(req[r].cleanups, [zone |-> n, key |-> k]),
           \A e : In(w.cleanups, e) <=> e = [zone |-> n, key |-> k] \/ In(req[r].cleanups, e),
           conn' = [conn EXCEPT ![n][k] = @ + 1]
    PROVE  CountsExact'
<1> SUFFICES ASSUME NEW m \in Zones, NEW l \in Keys
             PROVE  conn'[m][l] = Cardinality({x \in Requests : Counted(x, m, l)'})
    BY DEF CountsExact
<1> DEFINE now == {x \in Requests : Counted(x, m, l)'}
<1>1. \A x \in Requests : Counted(x, m, l)' <=> IF x = r THEN In(w.cleanups, [zone |-> m, key |-> l])
                                                         ELSE Counted(x, m, l)
  BY DEF Counted, In, IInv, Typed
<1>2. Counted(r, m, l) <=> In(req[r].cleanups, [zone |-> m, key |-> l])
  BY DEF Counted, In
<1>3. [zone |-> m, key |-> l] = [zone |-> n, key |-> k] <=> m = n /\ l = k
  OBVIOUS
<1>4. conn[m][l] = Cardinality(Holders(m, l)) /\ conn[m][l] \in Nat /\ IsFiniteSet(Holders(m, l))
  BY HoldersCount DEF IInv
<1>5. CASE m = n /\ l = k
  <2>1. r \notin Holders(m, l) /\ now = Holders(m, l) \cup {r}
    BY <1>1, <1>2, <1>5 DEF Holders
  <2>2. conn'[m][l] = conn[m][l] + 1
    BY <1>5 DEF IInv, Typed
  <2>3. Cardinality(now) = Cardinality(Holders(m, l)) + 1
    BY <1>4, <2>1, FS_AddElement
  <2> QED BY <1>4, <2>2, <2>3
<1>6. CASE ~(m = n /\ l = k)
  <2>1. now = Holders(m, l)
    BY <1>1, <1>2, <1>3, <1>6 DEF Holders
  <2>2. conn'[m][l] = conn[m][l]
    BY <1>6 DEF IInv, Typed
  <2> QED BY <1>4, <2>1, <2>2
<1> QED BY <1>5, <1>6

(* One that runs a cleanup gives one count back.                             *)
LEMMA CountDown ==
    ASSUME LimitsAssumption, IInv, NEW r \in Requests, NEW w, req' = [req EXCEPT ![r] = w],
           NEW n \in Zones, NEW k \in Keys, In(req[r].cleanups, [zone |-> n, key |-> k]),
           \A e : In(w.cleanups, e) <=> In(req[r].cleanups, e) /\ e # [zone |-> n, key |-> k],
           conn' = [conn EXCEPT ![n][k] = @ - 1]
    PROVE  CountsExact' /\ LimitKept'
<1> SUFFICES ASSUME NEW m \in Zones, NEW l \in Keys
             PROVE  /\ conn'[m][l] = Cardinality({x \in Requests : Counted(x, m, l)'})
                    /\ conn'[m][l] <= Limits[m].conn
    BY DEF CountsExact, LimitKept
<1> DEFINE now == {x \in Requests : Counted(x, m, l)'}
<1>1. \A x \in Requests : Counted(x, m, l)' <=> IF x = r THEN In(w.cleanups, [zone |-> m, key |-> l])
                                                         ELSE Counted(x, m, l)
  BY DEF Counted, In, IInv, Typed
<1>2. Counted(r, m, l) <=> In(req[r].cleanups, [zone |-> m, key |-> l])
  BY DEF Counted, In
<1>3. [zone |-> m, key |-> l] = [zone |-> n, key |-> k] <=> m = n /\ l = k
  OBVIOUS
<1>4. conn[m][l] = Cardinality(Holders(m, l)) /\ conn[m][l] \in Nat /\ IsFiniteSet(Holders(m, l))
  BY HoldersCount DEF IInv
<1>5. conn[m][l] <= Limits[m].conn /\ Limits[m].conn \in Nat
  BY DEF IInv, LimitKept, LimitsAssumption, Zones
<1>6. CASE m = n /\ l = k
  <2>1. r \in Holders(m, l) /\ now = Holders(m, l) \ {r}
    BY <1>1, <1>2, <1>6 DEF Holders
  <2>2. conn'[m][l] = conn[m][l] - 1
    BY <1>6 DEF IInv, Typed
  <2>3. Cardinality(now) = Cardinality(Holders(m, l)) - 1
    <3> HIDE DEF now
    <3> QED BY <1>4, <2>1, FS_RemoveElement
  <2>4. conn'[m][l] <= Limits[m].conn
    BY <1>4, <1>5, <2>2
  <2> QED BY <1>4, <2>2, <2>3, <2>4
<1>7. CASE ~(m = n /\ l = k)
  <2>1. now = Holders(m, l)
    BY <1>1, <1>2, <1>3, <1>7 DEF Holders
  <2>2. conn'[m][l] = conn[m][l]
    BY <1>7 DEF IInv, Typed
  <2> QED BY <1>4, <1>5, <2>1, <2>2
<1> QED BY <1>6, <1>7

-----------------------------------------------------------------------------
(* The steps                                                                 *)

(* A step of one request that keeps its cleanups keeps the invariant, if it  *)
(* keeps what holds of the request.                                          *)
LEMMA QuietStep ==
    ASSUME IInv, NEW r \in Requests, NEW w \in Request, req' = [req EXCEPT ![r] = w],
           w.cleanups = req[r].cleanups, RequestOK(w), UNCHANGED conn
    PROVE  IInv'
<1>1. Typed'
  BY DEF IInv, Typed
<1>2. \A x \in Requests : RequestOK(req'[x])
  BY DEF IInv, Typed
<1>3. CountsExact' /\ LimitKept'
  BY SameCounts
<1> QED BY <1>1, <1>2, <1>3 DEF IInv

(* A new request holds nothing.                                              *)
LEMMA NewOK ==
    ASSUME LimitsAssumption
    PROVE  NewRequest \in Request /\ RequestOK(NewRequest) /\ NewRequest.cleanups = <<>>
<1>1. <<>> \in Seq(Slot)
  BY EmptySeq
<1>2. NewRequest \in Request
  BY <1>1 DEF NewRequest, Request, Places, LimitsAssumption
<1>3. NewRequest.pc = "new" /\ NewRequest.status = "none" /\ NewRequest.cleanups = <<>>
  BY DEF NewRequest
<1>4. DOMAIN NewRequest.cleanups = {}
  BY <1>3
<1> QED BY <1>2, <1>3, <1>4 DEF RequestOK, Distinct

(* The handler begins with nothing counted, or does not begin.               *)
LEMMA EntersOK ==
    ASSUME LimitsAssumption,
           NEW v \in Request, RequestOK(v), v.pc \in {"new", "content"},
           NEW l \in Locations, NEW key \in [Zones -> Keys \cup {NoKey}]
    PROVE  /\ Enters(v, l, key) \in Request /\ RequestOK(Enters(v, l, key))
           /\ Enters(v, l, key).cleanups = v.cleanups
<1> DEFINE w == Enters(v, l, key)
<1>1. CASE v.status = "none"
  <2>1. w = [v EXCEPT !.pc = "limit", !.loc = l, !.i = 1, !.key = key]
    BY <1>1 DEF Enters, Skips
  <2>2. v.cleanups = <<>>
    BY <1>1 DEF RequestOK
  <2>3. /\ w \in Request /\ w.pc = "limit" /\ w.loc = l /\ w.i = 1
        /\ w.status = "none" /\ w.cleanups = <<>>
    <3>1. w \in Request
      <4>1. w = [pc |-> "limit", loc |-> l, i |-> 1, key |-> key, status |-> v.status,
                 cleanups |-> v.cleanups, redirects |-> v.redirects]
        BY <2>1 DEF Request
      <4>2. v.status \in {"none", "passed", "rejected"} /\ v.cleanups \in Seq(Slot) /\ v.redirects \in Nat
        BY DEF Request
      <4> QED BY <4>1, <4>2 DEF Request, Places
    <3>2. w.pc = "limit" /\ w.loc = l /\ w.i = 1 /\ w.status = v.status /\ w.cleanups = v.cleanups
      BY <2>1 DEF Request
    <3> QED BY <1>1, <2>2, <3>1, <3>2
  <2>4. \A j \in DOMAIN l : j \in Nat \ {0}
    <3>1. l \in Seq(Zones)
      BY DEF LimitsAssumption, Zones
    <3> QED BY <3>1, LenProperties
  <2> HIDE DEF w
  <2>5. CountedUpTo(w, w.i)
    BY <2>3, <2>4 DEF CountedUpTo
  <2>6. DOMAIN w.cleanups = {}
    BY <2>3
  <2>7. RequestOK(w)
    BY <2>3, <2>5, <2>6 DEF RequestOK, Distinct
  <2> QED BY <2>2, <2>3, <2>7 DEF w
<1>2. CASE v.status # "none"
  <2>1. w = [v EXCEPT !.pc = "content"] /\ v.pc = "content"
    BY <1>2 DEF Enters, Skips, RequestOK
  <2>2. w = v
    BY <2>1 DEF Request
  <2> QED BY <2>2
<1> QED BY <1>1, <1>2

(* Entering the handler, first or after a redirect.                          *)
LEMMA EnterStep ==
    ASSUME LimitsAssumption, IInv, NEW r \in Requests, Enter(r) \/ Redirect(r)
    PROVE  IInv'
<1>1. req[r] \in Request /\ RequestOK(req[r])
  BY DEF IInv, Typed
<1>2. CASE Enter(r)
  <2>1. PICK l \in Locations, key \in [Zones -> Keys \cup {NoKey}] :
            req' = [req EXCEPT ![r] = Enters(req[r], l, key)]
    BY <1>2 DEF Enter
  <2>2. req[r].pc = "new" /\ UNCHANGED conn
    BY <1>2 DEF Enter
  <2>3. /\ Enters(req[r], l, key) \in Request /\ RequestOK(Enters(req[r], l, key))
        /\ Enters(req[r], l, key).cleanups = req[r].cleanups
    BY <1>1, <2>2, EntersOK
  <2> QED BY <2>1, <2>2, <2>3, QuietStep
<1>3. CASE Redirect(r)
  <2> DEFINE v == [req[r] EXCEPT !.redirects = @ - 1]
  <2>1. PICK l \in Locations : req' = [req EXCEPT ![r] = Enters(v, l, v.key)]
    BY <1>3 DEF Redirect
  <2>2. req[r].pc = "content" /\ req[r].redirects > 0 /\ UNCHANGED conn
    BY <1>3 DEF Redirect
  <2>3. /\ v \in Request /\ v.pc = "content" /\ v.cleanups = req[r].cleanups
        /\ v.status = req[r].status /\ v.loc = req[r].loc /\ v.key = req[r].key
        /\ v.key \in [Zones -> Keys \cup {NoKey}]
    BY <1>1, <2>2 DEF Request
  <2> HIDE DEF v
  <2>4. RequestOK(v)
    BY <1>1, <2>2, <2>3 DEF RequestOK, CountedUpTo
  <2>5. /\ Enters(v, l, v.key) \in Request /\ RequestOK(Enters(v, l, v.key))
        /\ Enters(v, l, v.key).cleanups = v.cleanups
    BY <2>3, <2>4, EntersOK
  <2> QED BY <2>1, <2>2, <2>3, <2>5, QuietStep
<1> QED BY <1>2, <1>3

(* The limit the handler is at is one of a zone, and its key is counted      *)
(* nowhere yet.                                                              *)
LEMMA NextLimit ==
    ASSUME LimitsAssumption, NEW v \in Request, RequestOK(v), v.pc = "limit", ~(v.i > Len(v.loc))
    PROVE  /\ v.i \in DOMAIN v.loc /\ v.loc[v.i] \in Zones
           /\ v.key[v.loc[v.i]] # NoKey => v.key[v.loc[v.i]] \in Keys
           /\ \A k : ~In(v.cleanups, [zone |-> v.loc[v.i], key |-> k])
<1>1. v.i \in Nat /\ v.i > 0 /\ v.loc \in Locations \cup {<<>>} /\ v.key \in [Zones -> Keys \cup {NoKey}]
  BY DEF Request, RequestOK
<1>2. v.loc # <<>>
  BY <1>1
<1>3. v.loc \in Locations /\ v.loc \in Seq(Zones)
  BY <1>1, <1>2 DEF LimitsAssumption, Zones
<1>4. v.i \in DOMAIN v.loc /\ v.loc[v.i] \in Zones
  BY <1>1, <1>3, LenProperties
<1>5. ASSUME NEW k, In(v.cleanups, [zone |-> v.loc[v.i], key |-> k]) PROVE FALSE
  <2>1. PICK m \in DOMAIN v.cleanups : v.cleanups[m].zone = v.loc[v.i]
    BY <1>5 DEF In
  <2>2. PICK j \in DOMAIN v.loc : j < v.i /\ v.loc[j] = v.loc[v.i]
    BY <2>1 DEF RequestOK
  <2>3. j = v.i
    BY <1>3, <1>4, <2>2 DEF LimitsAssumption
  <2> QED BY <1>1, <2>2, <2>3
<1> QED BY <1>1, <1>4, <1>5

(* A limit that is past: it was counted, or had no key.                      *)
LEMMA OneMore ==
    ASSUME LimitsAssumption, NEW v \in Request, NEW w \in Request, CountedUpTo(v, v.i),
           w.loc = v.loc, w.key = v.key, \A e : In(v.cleanups, e) => In(w.cleanups, e),
           v.key[v.loc[v.i]] # NoKey =>
               In(w.cleanups, [zone |-> v.loc[v.i], key |-> v.key[v.loc[v.i]]])
    PROVE  CountedUpTo(w, v.i + 1)
<1>1. v.loc \in Seq(Zones) /\ v.i \in Nat
  <2>1. v.loc \in Locations \cup {<<>>} /\ v.i \in Nat
    BY DEF Request
  <2>2. <<>> \in Seq(Zones)
    BY EmptySeq
  <2> QED BY <2>1, <2>2 DEF LimitsAssumption, Zones
<1>2. \A j \in DOMAIN v.loc : j \in Nat
  BY <1>1, LenProperties
<1>3. \A j \in DOMAIN v.loc : j < v.i + 1 => j < v.i \/ j = v.i
  BY <1>1, <1>2
<1> QED BY <1>3 DEF CountedUpTo

Advance(v, j, q) == [v EXCEPT !.i = j, !.status = "passed", !.cleanups = q]

(* A request that is counted goes on to the next limit.                      *)
LEMMA Advanced ==
    ASSUME NEW v \in Request, NEW j \in Nat, NEW q \in Seq(Slot)
    PROVE  LET w == Advance(v, j, q)
           IN  /\ w \in Request /\ w.pc = v.pc /\ w.cleanups = q /\ w.loc = v.loc
               /\ w.key = v.key /\ w.status = "passed" /\ w.i = j
<1> DEFINE u == [v EXCEPT !.i = j]
           s == [u EXCEPT !.status = "passed"]
           w == [s EXCEPT !.cleanups = q]
<1>1. Advance(v, j, q) = w
  BY DEF Advance
<1>2. u \in Request /\ u.pc = v.pc /\ u.loc = v.loc /\ u.key = v.key /\ u.i = j
  BY DEF Request
<1> HIDE DEF u
<1>3. /\ s \in Request /\ s.pc = v.pc /\ s.loc = v.loc /\ s.key = v.key /\ s.i = j
      /\ s.status = "passed"
  BY <1>2 DEF Request
<1> HIDE DEF s
<1>4. /\ w \in Request /\ w.pc = v.pc /\ w.loc = v.loc /\ w.key = v.key /\ w.i = j
      /\ w.status = "passed" /\ w.cleanups = q
  BY <1>3 DEF Request
<1> QED BY <1>1, <1>4

(* The handler passes a limit, refuses the request or comes to its end.      *)
LEMMA LimitStep ==
    ASSUME LimitsAssumption, IInv, NEW r \in Requests, Limit(r)
    PROVE  IInv'
<1> DEFINE v == req[r]
           n == v.loc[v.i]
           k == v.key[n]
<1>1. v \in Request /\ RequestOK(v) /\ v.pc = "limit"
  BY DEF IInv, Typed, Limit
<1>2. /\ v.i \in Nat /\ v.i > 0 /\ v.status # "rejected" /\ CountedUpTo(v, v.i)
      /\ v.cleanups \in Seq(Slot) /\ Distinct(v.cleanups)
      /\ \A m \in DOMAIN v.cleanups :
            \E j \in DOMAIN v.loc : j < v.i /\ v.loc[j] = v.cleanups[m].zone
  BY <1>1 DEF Request, RequestOK
<1>3. CASE v.i > Len(v.loc)
  <2> DEFINE w == [v EXCEPT !.pc = "content"]
  <2>1. req' = [req EXCEPT ![r] = w] /\ UNCHANGED conn
    BY <1>3 DEF Limit
  <2>2. /\ w \in Request /\ w.pc = "content" /\ w.cleanups = v.cleanups /\ w.loc = v.loc
        /\ w.key = v.key /\ w.status = v.status
    BY <1>1 DEF Request, Places
  <2>3. v.loc \in Seq(Zones)
    <3>1. v.loc \in Locations \cup {<<>>}
      BY <1>1 DEF Request
    <3> QED BY <3>1, EmptySeq DEF LimitsAssumption, Zones
  <2>4. \A j \in DOMAIN v.loc : j < v.i
    BY <1>2, <1>3, <2>3, LenProperties
  <2> HIDE DEF w, v
  <2>5. CountedUpTo(w, Len(w.loc) + 1)
    BY <1>2, <2>2, <2>4 DEF CountedUpTo
  <2>6. RequestOK(w)
    BY <1>1, <1>2, <2>2, <2>5 DEF RequestOK
  <2> QED BY <2>1, <2>2, <2>6, QuietStep DEF v
<1>4. CASE ~(v.i > Len(v.loc)) /\ k = NoKey
  <2> DEFINE w == [v EXCEPT !.i = @ + 1]
  <2>1. req' = [req EXCEPT ![r] = w] /\ UNCHANGED conn
    BY <1>4 DEF Limit
  <2>2. /\ w \in Request /\ w.pc = "limit" /\ w.cleanups = v.cleanups /\ w.loc = v.loc
        /\ w.key = v.key /\ w.status = v.status /\ w.i = v.i + 1
    BY <1>1 DEF Request, Places
  <2>3. CountedUpTo(w, v.i + 1)
    BY <1>1, <1>2, <1>4, <2>2, OneMore
  <2>4. \A j \in DOMAIN v.loc : j < v.i => j < v.i + 1
    <3>1. v.loc \in Seq(Zones)
      <4>1. v.loc \in Locations \cup {<<>>}
        BY <1>1 DEF Request
      <4> QED BY <4>1, EmptySeq DEF LimitsAssumption, Zones
    <3> QED BY <1>2, <3>1, LenProperties
  <2> HIDE DEF w, v
  <2>5. RequestOK(w)
    BY <1>1, <1>2, <2>2, <2>3, <2>4 DEF RequestOK
  <2> QED BY <2>1, <2>2, <2>5, QuietStep DEF v
<1>5. CASE ~(v.i > Len(v.loc)) /\ k # NoKey /\ Refused(n, k)
  <2> DEFINE w == [v EXCEPT !.pc = "undo", !.status = "rejected"]
  <2>1. req' = [req EXCEPT ![r] = w] /\ UNCHANGED conn
    BY <1>5 DEF Limit
  <2>2. w \in Request /\ w.pc = "undo" /\ w.cleanups = v.cleanups /\ w.status = "rejected"
    BY <1>1 DEF Request, Places
  <2> HIDE DEF w, v
  <2>3. RequestOK(w)
    BY <1>2, <2>2 DEF RequestOK
  <2> QED BY <2>1, <2>2, <2>3, QuietStep DEF v
<1>6. CASE ~(v.i > Len(v.loc)) /\ k # NoKey /\ ~Refused(n, k)
  <2> DEFINE c == [zone |-> n, key |-> k]
             w == [v EXCEPT !.i = @ + 1, !.status = "passed", !.cleanups = <<c>> \o @]
  <2>1. req' = [req EXCEPT ![r] = w] /\ conn' = [conn EXCEPT ![n][k] = @ + 1]
    BY <1>6 DEF Limit
  <2>2. v.i \in DOMAIN v.loc /\ n \in Zones /\ k \in Keys /\ ~In(v.cleanups, c)
    BY <1>1, <1>6, NextLimit
  <2>3. c \in Slot
    BY <2>2 DEF Slot
  <2>4. /\ <<c>> \o v.cleanups \in Seq(Slot) /\ Distinct(<<c>> \o v.cleanups)
        /\ \A e : In(<<c>> \o v.cleanups, e) <=> e = c \/ In(v.cleanups, e)
    <3> HIDE DEF c, v
    <3> QED BY <1>2, <2>2, <2>3, Pushed
  <2>5. /\ w \in Request /\ w.pc = "limit" /\ w.cleanups = <<c>> \o v.cleanups /\ w.loc = v.loc
        /\ w.key = v.key /\ w.status = "passed" /\ w.i = v.i + 1
    <3> DEFINE q == <<c>> \o v.cleanups
               j == v.i + 1
    <3>1. j \in Nat
      BY <1>2
    <3>2. q \in Seq(Slot)
      BY <2>4
    <3>3. w = Advance(v, j, q)
      BY DEF Advance
    <3> HIDE DEF q, j, w, v
    <3>4. /\ w \in Request /\ w.pc = v.pc /\ w.cleanups = q /\ w.loc = v.loc
          /\ w.key = v.key /\ w.status = "passed" /\ w.i = j
      BY <1>1, <3>1, <3>2, <3>3, Advanced
    <3> QED BY <1>1, <3>4 DEF q, j
  <2>6. CountedUpTo(w, v.i + 1)
    BY <1>1, <1>2, <2>4, <2>5, OneMore
  <2>7. v.loc \in Seq(Zones)
    <3>1. v.loc \in Locations \cup {<<>>}
      BY <1>1 DEF Request
    <3> QED BY <3>1, EmptySeq DEF LimitsAssumption, Zones
  <2>8. ASSUME NEW m \in DOMAIN w.cleanups
        PROVE  \E j \in DOMAIN w.loc : j < w.i /\ w.loc[j] = w.cleanups[m].zone
    <3>1. In(w.cleanups, w.cleanups[m])
      BY DEF In
    <3>2. w.cleanups[m] = c \/ In(v.cleanups, w.cleanups[m])
      BY <2>4, <2>5, <3>1
    <3>3. CASE w.cleanups[m] = c
      <4>1. v.i < v.i + 1 /\ c.zone = v.loc[v.i]
        BY <1>2
      <4> QED BY <2>2, <2>5, <3>3, <4>1
    <3>4. CASE In(v.cleanups, w.cleanups[m])
      <4>1. PICK i \in DOMAIN v.cleanups : v.cleanups[i] = w.cleanups[m]
        BY <3>4 DEF In
      <4>2. PICK j \in DOMAIN v.loc : j < v.i /\ v.loc[j] = v.cleanups[i].zone
        BY <1>2, <4>1
      <4>3. j < v.i + 1
        BY <1>2, <2>7, <4>2, LenProperties
      <4> QED BY <2>5, <4>1, <4>2, <4>3
    <3> QED BY <3>2, <3>3, <3>4
  <2>9. RequestOK(w)
    <3> HIDE DEF w, v
    <3>1. w.i > 0
      BY <1>2, <2>5
    <3> QED BY <2>4, <2>5, <2>6, <2>8, <3>1 DEF RequestOK
  <2>10. Typed'
    <3> HIDE DEF w, n, k, v
    <3>1. conn' \in [Zones -> [Keys -> Int]]
      BY <2>1, <2>2 DEF IInv, Typed
    <3>2. req' \in [Requests -> Request]
      BY <2>1, <2>5 DEF IInv, Typed
    <3> QED BY <3>1, <3>2 DEF Typed
  <2>11. \A x \in Requests : RequestOK(req'[x])
    <3> HIDE DEF w
    <3> QED BY <2>1, <2>9 DEF IInv, Typed
  <2>12. CountsExact'
    <3>1. \A e : In(w.cleanups, e) <=> e = c \/ In(v.cleanups, e)
      BY <2>4, <2>5
    <3> HIDE DEF w
    <3> QED BY <2>1, <2>2, <3>1, CountUp
  <2>13. LimitKept'
    <3> HIDE DEF n, k, v
    <3>1. conn[n][k] \in Nat /\ Limits[n].conn \in Nat \ {0}
      BY <2>2, HoldersCount DEF IInv, LimitsAssumption, Zones
    <3>2. conn[n][k] + 1 <= Limits[n].conn
      BY <1>6, <3>1 DEF Refused
    <3> QED BY <2>1, <2>2, <3>2 DEF IInv, Typed, LimitKept
  <2> QED BY <2>10, <2>11, <2>12, <2>13 DEF IInv
<1> QED BY <1>3, <1>4, <1>5, <1>6

(* A cleanup gives back what it was added for.                               *)
LEMMA CleanupStep ==
    ASSUME LimitsAssumption, IInv, NEW r \in Requests, Cleanup(r)
    PROVE  IInv'
<1> DEFINE v == req[r]
           c == Head(v.cleanups)
           w == [v EXCEPT !.cleanups = Tail(@)]
<1>1. /\ v \in Request /\ RequestOK(v) /\ v.pc \in {"undo", "closing"} /\ v.cleanups # <<>>
      /\ v.cleanups \in Seq(Slot) /\ Distinct(v.cleanups)
  BY DEF IInv, Typed, Cleanup, Request, RequestOK
<1>2. req' = [req EXCEPT ![r] = w] /\ conn' = [conn EXCEPT ![c.zone][c.key] = @ - 1]
  BY DEF Cleanup, Undone
<1>3. /\ c \in Slot /\ Tail(v.cleanups) \in Seq(Slot) /\ In(v.cleanups, c)
      /\ Distinct(Tail(v.cleanups))
      /\ \A e : In(Tail(v.cleanups), e) <=> In(v.cleanups, e) /\ e # c
  BY <1>1, Popped
<1>4. c.zone \in Zones /\ c.key \in Keys /\ c = [zone |-> c.zone, key |-> c.key]
  BY <1>3 DEF Slot
<1>5. w \in Request /\ w.pc = v.pc /\ w.status = v.status /\ w.cleanups = Tail(v.cleanups)
  BY <1>1, <1>3 DEF Request
<1>6. v.status # "none"
  BY <1>1 DEF RequestOK
<1> HIDE DEF w, v, c
<1>7. RequestOK(w)
  BY <1>1, <1>3, <1>5, <1>6 DEF RequestOK
<1>8. Typed'
  <2>1. conn' \in [Zones -> [Keys -> Int]]
    BY <1>2, <1>4 DEF IInv, Typed
  <2> QED BY <1>2, <1>5, <2>1 DEF IInv, Typed
<1>9. \A x \in Requests : RequestOK(req'[x])
  BY <1>2, <1>7 DEF IInv, Typed
<1>10. CountsExact' /\ LimitKept'
  <2>1. \A e : In(w.cleanups, e) <=> In(req[r].cleanups, e) /\ e # [zone |-> c.zone, key |-> c.key]
    BY <1>3, <1>4, <1>5 DEF v
  <2>2. In(req[r].cleanups, [zone |-> c.zone, key |-> c.key])
    BY <1>3, <1>4 DEF v
  <2> QED BY <1>2, <1>4, <2>1, <2>2, CountDown
<1> QED BY <1>8, <1>9, <1>10 DEF IInv

(* The other steps keep the cleanups: a refused request has undone them, and *)
(* a request that is over has none left.                                     *)
LEMMA EndStep ==
    ASSUME LimitsAssumption, IInv, NEW r \in Requests, Undid(r) \/ Close(r) \/ Freed(r)
    PROVE  IInv'
<1>1. req[r] \in Request /\ RequestOK(req[r])
  BY DEF IInv, Typed
<1>2. CASE Undid(r)
  <2> DEFINE w == [req[r] EXCEPT !.pc = IF DryRun THEN "content" ELSE "refused"]
  <2>1. /\ req[r].pc = "undo" /\ req[r].cleanups = <<>>
        /\ req' = [req EXCEPT ![r] = w] /\ UNCHANGED conn
    BY <1>2 DEF Undid
  <2>2. req[r].status = "rejected"
    BY <1>1, <2>1 DEF RequestOK
  <2>3. /\ w \in Request /\ w.pc \in {"content", "refused"} /\ w.status = "rejected"
        /\ w.cleanups = req[r].cleanups
    BY <1>1, <2>2 DEF Request, Places
  <2> HIDE DEF w
  <2>4. RequestOK(w)
    BY <1>1, <2>1, <2>3 DEF RequestOK
  <2> QED BY <2>1, <2>3, <2>4, QuietStep
<1>3. CASE Close(r)
  <2> DEFINE w == [req[r] EXCEPT !.pc = "closing"]
  <2>1. req' = [req EXCEPT ![r] = w] /\ UNCHANGED conn
    BY <1>3 DEF Close
  <2>2. /\ w \in Request /\ w.pc = "closing" /\ w.status = req[r].status
        /\ w.cleanups = req[r].cleanups
    BY <1>1 DEF Request, Places
  <2> HIDE DEF w
  <2>3. RequestOK(w)
    BY <1>1, <2>2 DEF RequestOK
  <2> QED BY <2>1, <2>2, <2>3, QuietStep
<1>4. CASE Freed(r)
  <2>1. req[r].cleanups = <<>> /\ req' = [req EXCEPT ![r] = NewRequest] /\ UNCHANGED conn
    BY <1>4 DEF Freed
  <2> QED BY <2>1, NewOK, QuietStep
<1> QED BY <1>2, <1>3, <1>4

-----------------------------------------------------------------------------
(* For any number of requests, keys, zones and locations, the counts and the *)
(* requests' cleanups belong together.                                       *)
THEOREM CountsInvariant ==
    ASSUME LimitsAssumption PROVE Spec => []IInv
<1>1. Init => IInv
  <2> SUFFICES ASSUME Init PROVE IInv
    OBVIOUS
  <2>1. Typed /\ \A r \in Requests : RequestOK(req[r])
    BY NewOK DEF Init, Typed
  <2>2. \A n, k : {r \in Requests : Counted(r, n, k)} = {}
    BY DEF Init, NewRequest, Counted
  <2>3. CountsExact
    BY <2>2, FS_EmptySet DEF Init, CountsExact
  <2>4. LimitKept
    BY DEF Init, LimitKept, LimitsAssumption, Zones
  <2> QED BY <2>1, <2>3, <2>4 DEF IInv
<1>2. IInv /\ [Next]_vars => IInv'
  <2> SUFFICES ASSUME IInv, [Next]_vars PROVE IInv'
    OBVIOUS
  <2>1. ASSUME NEW r \in Requests,
               Enter(r) \/ Redirect(r) \/ Limit(r) \/ Cleanup(r) \/ Undid(r) \/ Close(r) \/ Freed(r)
        PROVE  IInv'
    BY <2>1, EnterStep, LimitStep, CleanupStep, EndStep
  <2>2. CASE UNCHANGED vars
    <3>1. req' = req /\ conn' = conn
      BY <2>2 DEF vars
    <3>2. Typed' /\ \A r \in Requests : RequestOK(req'[r])
      BY <3>1 DEF IInv, Typed
    <3>3. LimitKept' /\ \A r, n, k : Counted(r, n, k)' <=> Counted(r, n, k)
      BY <3>1 DEF IInv, LimitKept, Counted
    <3>4. \A n, k : {r \in Requests : Counted(r, n, k)'} = {r \in Requests : Counted(r, n, k)}
      BY <3>3
    <3>5. CountsExact'
      BY <3>1, <3>4 DEF IInv, CountsExact
    <3> QED BY <3>2, <3>3, <3>5 DEF IInv
  <2> QED BY <2>1, <2>2 DEF Next
<1> QED BY <1>1, <1>2, PTL DEF Spec

(* Counts are natural numbers and requests at a place of the handler.        *)
THEOREM TypeCorrect ==
    ASSUME LimitsAssumption PROVE Spec => []TypeOK
<1>1. IInv => TypeOK
  <2> SUFFICES ASSUME IInv PROVE TypeOK
    OBVIOUS
  <2>1. \A n \in Zones, k \in Keys : conn[n][k] \in Nat
    BY HoldersCount DEF IInv
  <2>2. \A r \in Requests : req[r].status \in {"none", "passed", "rejected"}
    BY DEF IInv, Typed, Request
  <2> QED BY <2>1, <2>2 DEF TypeOK
<1> QED BY <1>1, CountsInvariant, PTL

(* A node counts exactly the requests that will uncount it, each once,       *)
(* through refusals, dry runs and redirects.                                 *)
THEOREM CountsExactHolds ==
    ASSUME LimitsAssumption PROVE Spec => []CountsExact
<1>1. IInv => CountsExact
  BY DEF IInv
<1> QED BY <1>1, CountsInvariant, PTL

(* Never are more requests of a key in progress than the limit says, over    *)
(* any number of workers' requests.                                          *)
THEOREM LimitKeptHolds ==
    ASSUME LimitsAssumption PROVE Spec => []LimitKept
<1>1. IInv => LimitKept
  BY DEF IInv
<1> QED BY <1>1, CountsInvariant, PTL

(* A refused request holds no place while its error page is sent, and one    *)
(* that passed was counted in all zones of its location.                     *)
THEOREM RefusedFreeHolds ==
    ASSUME LimitsAssumption PROVE Spec => []RefusedFree
<1>1. IInv => RefusedFree
  <2> SUFFICES ASSUME IInv, NEW r \in Requests
               PROVE  /\ req[r].pc = "refused" => req[r].cleanups = <<>>
                      /\ req[r].pc = "content" /\ req[r].status = "passed" =>
                           \A i \in DOMAIN req[r].loc : LET n == req[r].loc[i] IN
                               req[r].key[n] # NoKey => Counted(r, n, req[r].key[n])
    BY DEF RefusedFree
  <2>1. req[r] \in Request /\ RequestOK(req[r])
    BY DEF IInv, Typed
  <2>2. \A i \in DOMAIN req[r].loc : i < Len(req[r].loc) + 1
    <3>1. req[r].loc \in Locations \cup {<<>>}
      BY <2>1 DEF Request
    <3>2. req[r].loc \in Seq(Zones)
      BY <3>1, EmptySeq DEF LimitsAssumption, Zones
    <3> QED BY <3>2, LenProperties
  <2> QED BY <2>1, <2>2 DEF RequestOK, CountedUpTo, Counted, In
<1> QED BY <1>1, CountsInvariant, PTL


-----------------------------------------------------------------------------
(* The mutex: the constants and the variables of NgxShmtx                    *)

CONSTANTS Workers, Master, MaxLocks, MaxKills
VARIABLES lock, wait, sem, pc, saw, calls, died

M == INSTANCE NgxShmtx

(* The instance counts as this module does.                                  *)
LEMMA SameCount ==
    \A S : M!Cardinality(S) = Cardinality(S)
BY DEF M!Cardinality, Cardinality

(* Processes have distinct pids other than 0, and there are finitely many.   *)
ProcsAssumption == M!MasterAssumption /\ M!PidAssumption /\ IsFiniteSet(Workers)

(* A process that moves is where it went; the others stay.                   *)
LEMMA GoEffect ==
    ASSUME M!TypeOK, NEW p \in M!Procs, NEW place \in M!Places, M!Go(p, place)
    PROVE  /\ pc' \in [M!Procs -> M!Places] /\ pc'[p] = place
           /\ \A q \in M!Procs : q # p => pc'[q] = pc[q]
BY DEF M!TypeOK, M!Go

-----------------------------------------------------------------------------
(* Types                                                                     *)

(* Every step keeps the types.                                               *)
LEMMA TypeStep ==
    ASSUME M!TypeOK, [M!Next]_M!vars
    PROVE  M!TypeOK'
<1> USE DEF M!TypeOK, M!Procs, M!Places
<1>1. ASSUME NEW p \in Workers, M!Lock(p) \/ M!Trylock(p) PROVE M!TypeOK'
  BY <1>1 DEF M!Lock, M!Trylock, M!Call, M!Go
<1>2. ASSUME NEW p \in Workers, NEW place, NEW got \in M!Places, NEW failed \in M!Places,
             M!CmpSet(p, place, got, failed)
      PROVE  M!TypeOK'
  BY <1>2 DEF M!CmpSet, M!Go
<1>3. ASSUME NEW p \in Workers, M!Spin(p) \/ M!Recheck(p) \/ M!TryOnce(p) PROVE M!TypeOK'
  BY <1>2, <1>3 DEF M!Spin, M!Recheck, M!TryOnce
<1>4. ASSUME NEW p \in Workers, M!CountWaiter(p) \/ M!Uncount(p) \/ M!Awake(p) PROVE M!TypeOK'
  BY <1>4 DEF M!CountWaiter, M!Uncount, M!Awake, M!Go
<1>5. ASSUME NEW p \in Workers, M!Unlock(p) PROVE M!TypeOK'
  BY <1>5 DEF M!Unlock, M!Release, M!Go
<1>6. ASSUME NEW p \in M!Procs, M!Wakeup(p) PROVE M!TypeOK'
  <2>1. CASE M!ReadWait(p)
    BY <1>6, <2>1 DEF M!ReadWait, M!Go
  <2>2. CASE M!TakeWaiter(p)
    BY <1>6, <2>2 DEF M!TakeWaiter, M!Go
  <2>3. CASE M!Post(p)
    BY <1>6, <2>3 DEF M!Post, M!Go
  <2> QED BY <1>6, <2>1, <2>2, <2>3 DEF M!Wakeup
<1>7. ASSUME NEW p \in Workers, M!Kill(p) PROVE M!TypeOK'
  BY <1>7 DEF M!Kill, M!Go
<1>8. ASSUME NEW p \in Workers, M!UnlockMutexes(p) \/ M!Respawn(p) PROVE M!TypeOK'
  BY <1>8 DEF M!UnlockMutexes, M!Respawn, M!Go
<1>9. CASE UNCHANGED M!vars
  BY <1>9 DEF M!vars
<1> QED BY <1>1, <1>3, <1>4, <1>5, <1>6, <1>7, <1>8, <1>9 DEF M!Next, M!Proceed

(* The shared words and the places keep their types.                         *)
THEOREM MutexTypeOK == ASSUME M!PidAssumption PROVE M!Spec => []M!TypeOK
<1>1. M!Init => M!TypeOK
  BY DEF M!Init, M!TypeOK, M!Procs, M!Places
<1>2. M!TypeOK /\ [M!Next]_M!vars => M!TypeOK'
  BY TypeStep
<1> QED BY <1>1, <1>2, PTL DEF M!Spec

-----------------------------------------------------------------------------
(* Mutual exclusion                                                          *)

(* Whoever is inside has its pid in the lock.                                *)
Owned == \A p \in Workers : M!Inside(p) => lock = p

(* Every step keeps the pid in the lock the holder's.                        *)
LEMMA OwnedStep ==
    ASSUME M!TypeOK, Owned, ProcsAssumption, [M!Next]_M!vars
    PROVE  Owned'
<1> USE DEF ProcsAssumption, M!PidAssumption, M!MasterAssumption
<1>1. ASSUME NEW p \in M!Procs, NEW place \in M!Places, M!Go(p, place), UNCHANGED lock,
             place \notin {"in", "uncount"} \/ (p \in Workers /\ lock = p)
      PROVE  Owned'
  BY <1>1, GoEffect DEF Owned, M!Inside, M!Procs
<1>2. ASSUME NEW p \in Workers, NEW place, NEW got \in M!Places,
             NEW failed \in M!Places \ {"in", "uncount"}, M!CmpSet(p, place, got, failed)
      PROVE  Owned'
  <2>1. CASE lock = M!Free
    <3>1. lock' = p /\ M!Go(p, got)
      BY <1>2, <2>1 DEF M!CmpSet
    <3>2. \A q \in Workers : ~M!Inside(q)
      BY <2>1 DEF Owned, M!Procs
    <3> QED BY <3>1, <3>2, GoEffect DEF Owned, M!Inside, M!Procs
  <2>2. CASE lock # M!Free
    BY <1>1, <1>2, <2>2 DEF M!CmpSet, M!Procs
  <2> QED BY <2>1, <2>2
<1>3. ASSUME NEW p \in Workers, M!Spin(p) \/ M!Recheck(p) \/ M!TryOnce(p) PROVE Owned'
  BY <1>2, <1>3 DEF M!Spin, M!Recheck, M!TryOnce, M!Places
<1>4. ASSUME NEW p \in Workers,
             M!Lock(p) \/ M!Trylock(p) \/ M!CountWaiter(p) \/ M!Awake(p) \/ M!Kill(p) \/ M!Respawn(p)
      PROVE  Owned'
  BY <1>1, <1>4 DEF M!Lock, M!Trylock, M!Call, M!CountWaiter, M!Awake, M!Kill, M!Respawn, M!Places, M!Procs
<1>5. ASSUME NEW p \in Workers, M!Uncount(p) PROVE Owned'
  <2>1. lock = p
    BY <1>5 DEF M!Uncount, M!At, Owned, M!Inside
  <2> QED BY <1>1, <1>5, <2>1 DEF M!Uncount, M!Places, M!Procs
<1>6. ASSUME NEW p \in Workers, M!Unlock(p) PROVE Owned'
  <2>1. lock = p
    BY <1>6 DEF M!Unlock, M!At, Owned, M!Inside
  <2>2. M!Go(p, "wake")
    BY <1>6, <2>1 DEF M!Unlock, M!Release
  <2> QED BY <2>1, <2>2, GoEffect DEF Owned, M!Inside, M!Places, M!Procs
<1>7. ASSUME NEW p \in M!Procs, M!Wakeup(p) PROVE Owned'
  BY <1>1, <1>7 DEF M!Wakeup, M!ReadWait, M!TakeWaiter, M!Post, M!Places
<1>8. ASSUME NEW p \in Workers, M!UnlockMutexes(p) PROVE Owned'
  <2>1. /\ pc[p] = "dead" /\ pc'[p] = "reaped"
        /\ \A q \in Workers \ {p} : pc'[q] = pc[q]
        /\ lock' = IF lock = p THEN M!Free ELSE lock
    BY <1>8 DEF M!UnlockMutexes, M!At, M!TypeOK, M!Procs
  <2> QED BY <2>1 DEF Owned, M!Inside
<1>9. CASE UNCHANGED M!vars
  BY <1>9 DEF M!vars, Owned, M!Inside
<1> QED BY <1>3, <1>4, <1>5, <1>6, <1>7, <1>8, <1>9 DEF M!Next, M!Proceed, M!Procs

(* ngx_shmtx_lock excludes: no two workers are inside, however they spin,    *)
(* wait and die, and the master's force_unlock never takes the mutex from a  *)
(* living one.                                                               *)
THEOREM ExclusiveHolds == ASSUME ProcsAssumption PROVE M!Spec => []M!Exclusive
<1>1. M!Init => Owned
  BY DEF M!Init, Owned, M!Inside, M!Procs
<1>2. M!TypeOK /\ Owned /\ [M!Next]_M!vars => Owned'
  BY OwnedStep
<1>3. Owned => M!Exclusive
  BY DEF Owned, M!Exclusive
<1>4. M!Spec => []M!TypeOK
  BY MutexTypeOK DEF ProcsAssumption
<1> QED BY <1>1, <1>2, <1>3, <1>4, PTL DEF M!Spec

-----------------------------------------------------------------------------
(* The wakeups                                                               *)

WaitingPlaces == {"recheck", "uncount", "sleep"}

One(b) == IF b THEN 1 ELSE 0

(* There are finitely many waiters and posters.                              *)
LEMMA FinitelyMany ==
    ASSUME ProcsAssumption
    PROVE  /\ IsFiniteSet(M!Waiting) /\ IsFiniteSet(M!Posting)
           /\ Cardinality(M!Waiting) \in Nat /\ Cardinality(M!Posting) \in Nat
<1>1. IsFiniteSet(Workers) /\ IsFiniteSet(M!Procs)
  BY FS_AddElement DEF ProcsAssumption, M!Procs
<1>2. M!Waiting \in SUBSET Workers /\ M!Posting \in SUBSET M!Procs
  BY DEF M!Waiting, M!Posting
<1>3. IsFiniteSet(M!Waiting) /\ IsFiniteSet(M!Posting)
  BY <1>1, <1>2, FS_Subset
<1> QED BY <1>3, FS_CardinalityType

(* How a move changes the number of waiters and of posters.                  *)
LEMMA MoveCounts ==
    ASSUME M!TypeOK, ProcsAssumption, NEW p \in M!Procs, NEW place \in M!Places, M!Go(p, place),
           p \in Workers \/ (pc[p] \notin WaitingPlaces /\ place \notin WaitingPlaces)
    PROVE  /\ Cardinality(M!Waiting') =
                 Cardinality(M!Waiting) + One(place \in WaitingPlaces)
                                      - One(pc[p] \in WaitingPlaces)
           /\ Cardinality(M!Posting') =
                 Cardinality(M!Posting) + One(place = "post") - One(pc[p] = "post")
<1>1. /\ pc'[p] = place /\ \A q \in M!Procs : q # p => pc'[q] = pc[q]
  BY GoEffect
<1>2. /\ IsFiniteSet(M!Waiting) /\ IsFiniteSet(M!Posting)
      /\ Cardinality(M!Waiting) \in Nat /\ Cardinality(M!Posting) \in Nat
  BY FinitelyMany
<1>3. Cardinality(M!Waiting') = Cardinality(M!Waiting) + One(place \in WaitingPlaces)
                                                   - One(pc[p] \in WaitingPlaces)
  <2>1. CASE place \in WaitingPlaces /\ pc[p] \notin WaitingPlaces
    <3>1. M!Waiting' = M!Waiting \cup {p} /\ p \notin M!Waiting
      BY <1>1, <2>1 DEF M!Waiting, WaitingPlaces, M!Procs
    <3>2. Cardinality(M!Waiting') = Cardinality(M!Waiting) + 1
      BY <1>2, <3>1, FS_AddElement
    <3> QED BY <1>2, <2>1, <3>2 DEF One
  <2>2. CASE place \notin WaitingPlaces /\ pc[p] \in WaitingPlaces
    <3>1. M!Waiting' = M!Waiting \ {p} /\ p \in M!Waiting
      BY <1>1, <2>2 DEF M!Waiting, WaitingPlaces, M!Procs
    <3>2. Cardinality(M!Waiting') = Cardinality(M!Waiting) - 1
      BY <1>2, <3>1, FS_RemoveElement
    <3> QED BY <1>2, <2>2, <3>2 DEF One
  <2>3. CASE place \in WaitingPlaces <=> pc[p] \in WaitingPlaces
    <3>1. M!Waiting' = M!Waiting
      BY <1>1, <2>3 DEF M!Waiting, WaitingPlaces, M!Procs
    <3> QED BY <1>2, <2>3, <3>1 DEF One
  <2> QED BY <2>1, <2>2, <2>3
<1>4. Cardinality(M!Posting') = Cardinality(M!Posting) + One(place = "post") - One(pc[p] = "post")
  <2>1. CASE place = "post" /\ pc[p] # "post"
    <3>1. M!Posting' = M!Posting \cup {p} /\ p \notin M!Posting
      BY <1>1, <2>1 DEF M!Posting
    <3>2. Cardinality(M!Posting') = Cardinality(M!Posting) + 1
      BY <1>2, <3>1, FS_AddElement
    <3> QED BY <1>2, <2>1, <3>2 DEF One
  <2>2. CASE place # "post" /\ pc[p] = "post"
    <3>1. M!Posting' = M!Posting \ {p} /\ p \in M!Posting
      BY <1>1, <2>2 DEF M!Posting
    <3>2. Cardinality(M!Posting') = Cardinality(M!Posting) - 1
      BY <1>2, <3>1, FS_RemoveElement
    <3> QED BY <1>2, <2>2, <3>2 DEF One
  <2>3. CASE place = "post" <=> pc[p] = "post"
    <3>1. M!Posting' = M!Posting
      BY <1>1, <2>3 DEF M!Posting
    <3> QED BY <1>2, <2>3, <3>1 DEF One
  <2> QED BY <2>1, <2>2, <2>3
<1> QED BY <1>3, <1>4

(* The master neither waits nor dies.                                        *)
MasterAwake == pc[Master] \in {"idle", "wake", "take", "post"}

(* A move between places that are no waiting place and no post, with the     *)
(* words unchanged, leaves the account as it is.                             *)
LEMMA QuietMove ==
    ASSUME M!TypeOK, ProcsAssumption, M!WakeupsConserved,
           NEW p \in M!Procs, NEW place \in M!Places, M!Go(p, place),
           UNCHANGED <<wait, sem, died>>,
           pc[p] \notin WaitingPlaces \cup {"post"}, place \notin WaitingPlaces \cup {"post"}
    PROVE  M!WakeupsConserved'
<1>1. Cardinality(M!Waiting) \in Nat /\ Cardinality(M!Posting) \in Nat
  BY FinitelyMany
<1>2. Cardinality(M!Waiting') = Cardinality(M!Waiting) /\ Cardinality(M!Posting') = Cardinality(M!Posting)
  BY <1>1, MoveCounts DEF One
<1> QED BY <1>2, SameCount DEF M!WakeupsConserved

(* An account stays balanced when one is taken from both of its sides.       *)
LEMMA BothLess ==
    \A w, s, a, b \in Int : \A r, u, z, t \in Nat :
        w + s + a = b + r + u + z - t => w + s + (a - 1) = b + r + u + z - (t + 1)
OBVIOUS

(* Every step keeps the account of the wakeups.                              *)
LEMMA ConservedStep ==
    ASSUME M!TypeOK, ProcsAssumption, MasterAwake, M!WakeupsConserved, [M!Next]_M!vars
    PROVE  M!WakeupsConserved' /\ MasterAwake'
<1>1. /\ wait \in Int /\ sem \in Int /\ died \in [M!Places -> Nat]
      /\ Cardinality(M!Waiting) \in Nat /\ Cardinality(M!Posting) \in Nat
      /\ \A place \in M!Places : died[place] \in Nat
      /\ Master \in M!Procs /\ Master \notin Workers /\ Workers \subseteq M!Procs
  BY FinitelyMany DEF M!TypeOK, ProcsAssumption, M!MasterAssumption, M!Procs
<1>2. ASSUME NEW p \in Workers, NEW place \in M!Places, M!Go(p, place) PROVE MasterAwake'
  BY <1>1, <1>2, GoEffect DEF MasterAwake
<1>3. ASSUME NEW p \in Workers, M!Lock(p) \/ M!Trylock(p) \/ M!Spin(p) \/ M!TryOnce(p) \/ M!Respawn(p)
      PROVE  M!WakeupsConserved' /\ MasterAwake'
  <2>1. PICK place \in M!Places :
          /\ M!Go(p, place) /\ place \notin WaitingPlaces \cup {"post"}
          /\ pc[p] \notin WaitingPlaces \cup {"post"} /\ UNCHANGED <<wait, sem, died>>
    BY <1>3 DEF M!Lock, M!Trylock, M!Call, M!Spin, M!TryOnce, M!CmpSet, M!Respawn, M!At, M!Places, WaitingPlaces
  <2> QED BY <1>1, <1>2, <2>1, QuietMove
<1>4. ASSUME NEW p \in Workers, M!Unlock(p)
      PROVE  M!WakeupsConserved' /\ MasterAwake'
  <2>1. PICK place \in M!Places :
          /\ M!Go(p, place) /\ place \notin WaitingPlaces \cup {"post"}
          /\ pc[p] \notin WaitingPlaces \cup {"post"} /\ UNCHANGED <<wait, sem, died>>
    BY <1>4 DEF M!Unlock, M!Release, M!At, M!Places, WaitingPlaces
  <2> QED BY <1>1, <1>2, <2>1, QuietMove
<1>5. ASSUME NEW p \in Workers, M!CountWaiter(p) PROVE M!WakeupsConserved' /\ MasterAwake'
  <2>1. pc[p] = "count" /\ M!Go(p, "recheck") /\ wait' = wait + 1 /\ UNCHANGED <<sem, died>>
        /\ "recheck" \in M!Places
    BY <1>5 DEF M!CountWaiter, M!At, M!Places
  <2>2. /\ Cardinality(M!Waiting') = Cardinality(M!Waiting) + 1
        /\ Cardinality(M!Posting') = Cardinality(M!Posting)
    BY <1>1, <2>1, MoveCounts DEF One, WaitingPlaces
  <2> QED BY <1>1, <1>2, <2>1, <2>2, SameCount DEF M!WakeupsConserved, M!Places
<1>6. ASSUME NEW p \in Workers, M!Recheck(p) PROVE M!WakeupsConserved' /\ MasterAwake'
  <2>1. PICK place \in {"uncount", "sleep"} : M!Go(p, place)
    BY <1>6 DEF M!Recheck, M!CmpSet
  <2>2. pc[p] = "recheck" /\ UNCHANGED <<wait, sem, died>> /\ place \in M!Places
    BY <1>6 DEF M!Recheck, M!CmpSet, M!At, M!Places
  <2>3. /\ Cardinality(M!Waiting') = Cardinality(M!Waiting)
        /\ Cardinality(M!Posting') = Cardinality(M!Posting)
    BY <1>1, <2>1, <2>2, MoveCounts DEF One, WaitingPlaces
  <2> QED BY <1>1, <1>2, <2>1, <2>2, <2>3, SameCount DEF M!WakeupsConserved
<1>7. ASSUME NEW p \in Workers, M!Uncount(p) PROVE M!WakeupsConserved' /\ MasterAwake'
  <2>1. pc[p] = "uncount" /\ M!Go(p, "in") /\ wait' = wait - 1 /\ UNCHANGED <<sem, died>>
        /\ "in" \in M!Places
    BY <1>7 DEF M!Uncount, M!At, M!Places
  <2>2. /\ Cardinality(M!Waiting') = Cardinality(M!Waiting) - 1
        /\ Cardinality(M!Posting') = Cardinality(M!Posting)
    BY <1>1, <2>1, MoveCounts DEF One, WaitingPlaces
  <2> QED BY <1>1, <1>2, <2>1, <2>2, SameCount DEF M!WakeupsConserved, M!Places
<1>8. ASSUME NEW p \in Workers, M!Awake(p) PROVE M!WakeupsConserved' /\ MasterAwake'
  <2>1. pc[p] = "sleep" /\ M!Go(p, "spin") /\ sem' = sem - 1 /\ UNCHANGED <<wait, died>>
        /\ "spin" \in M!Places
    BY <1>8 DEF M!Awake, M!At, M!Places
  <2>2. /\ Cardinality(M!Waiting') = Cardinality(M!Waiting) - 1
        /\ Cardinality(M!Posting') = Cardinality(M!Posting)
    BY <1>1, <2>1, MoveCounts DEF One, WaitingPlaces
  <2> QED BY <1>1, <1>2, <2>1, <2>2, SameCount DEF M!WakeupsConserved, M!Places
<1>9. ASSUME NEW p \in M!Procs, M!Wakeup(p) PROVE M!WakeupsConserved' /\ MasterAwake'
  <2>1. MasterAwake'
    <3>1. PICK place \in {"idle", "wake", "take", "post"} : M!Go(p, place)
      BY <1>9 DEF M!Wakeup, M!ReadWait, M!TakeWaiter, M!Post
    <3> QED BY <1>1, <3>1, GoEffect DEF MasterAwake, M!Places
  <2>2. CASE M!ReadWait(p)
    <3>1. PICK place \in {"idle", "take"} : M!Go(p, place)
      BY <2>2 DEF M!ReadWait
    <3>2. pc[p] = "wake" /\ UNCHANGED <<wait, sem, died>> /\ place \in M!Places
      BY <2>2 DEF M!ReadWait, M!At, M!Places
    <3> QED BY <2>1, <3>1, <3>2, QuietMove DEF WaitingPlaces
  <2>3. CASE M!TakeWaiter(p) /\ wait = saw[p]
    <3>1. pc[p] = "take" /\ M!Go(p, "post") /\ wait' = wait - 1 /\ UNCHANGED <<sem, died>>
          /\ "post" \in M!Places
      BY <2>3 DEF M!TakeWaiter, M!At, M!Places
    <3>2. /\ Cardinality(M!Waiting') = Cardinality(M!Waiting)
          /\ Cardinality(M!Posting') = Cardinality(M!Posting) + 1
      BY <1>1, <3>1, MoveCounts DEF One, WaitingPlaces
    <3> QED BY <1>1, <2>1, <3>1, <3>2, SameCount DEF M!WakeupsConserved, M!Places
  <2>4. CASE M!TakeWaiter(p) /\ wait # saw[p]
    <3>1. pc[p] = "take" /\ M!Go(p, "wake") /\ UNCHANGED <<wait, sem, died>> /\ "wake" \in M!Places
      BY <2>4 DEF M!TakeWaiter, M!At, M!Places
    <3> QED BY <2>1, <3>1, QuietMove DEF WaitingPlaces
  <2>5. CASE M!Post(p)
    <3>1. pc[p] = "post" /\ M!Go(p, "idle") /\ sem' = sem + 1 /\ UNCHANGED <<wait, died>>
          /\ "idle" \in M!Places
      BY <2>5 DEF M!Post, M!At, M!Places
    <3>2. /\ Cardinality(M!Waiting') = Cardinality(M!Waiting)
          /\ Cardinality(M!Posting') = Cardinality(M!Posting) - 1
      BY <1>1, <3>1, MoveCounts DEF One, WaitingPlaces
    <3> QED BY <1>1, <2>1, <3>1, <3>2, SameCount DEF M!WakeupsConserved, M!Places
  <2> QED BY <1>9, <2>2, <2>3, <2>4, <2>5 DEF M!Wakeup
<1>10. ASSUME NEW p \in Workers, M!Kill(p) PROVE M!WakeupsConserved' /\ MasterAwake'
  <2>1. /\ M!Go(p, "dead") /\ "dead" \in M!Places /\ pc[p] \in M!Places /\ UNCHANGED <<wait, sem>>
        /\ died' = [died EXCEPT ![pc[p]] = @ + 1]
    BY <1>1, <1>10 DEF M!Kill, M!TypeOK, M!Places
  <2>2. /\ Cardinality(M!Waiting') = Cardinality(M!Waiting) - One(pc[p] \in WaitingPlaces)
        /\ Cardinality(M!Posting') = Cardinality(M!Posting) - One(pc[p] = "post")
    BY <1>1, <2>1, MoveCounts DEF One, WaitingPlaces
  <2>3. \A place \in M!Places : died'[place] = died[place] + One(pc[p] = place)
    BY <1>1, <2>1 DEF One
  <2>4. One(pc[p] \in WaitingPlaces) =
          One(pc[p] = "recheck") + One(pc[p] = "uncount") + One(pc[p] = "sleep")
    BY DEF One, WaitingPlaces
  <2>5. {"recheck", "uncount", "sleep", "post"} \subseteq M!Places
    BY DEF M!Places
  <2>6. \A place \in M!Places : One(pc[p] = place) \in Nat
    BY DEF One
  <2>7. wait + sem + Cardinality(M!Posting) =
          Cardinality(M!Waiting) + died["recheck"] + died["uncount"] + died["sleep"] - died["post"]
    BY SameCount DEF M!WakeupsConserved
  <2>8. /\ died'["recheck"] = died["recheck"] + One(pc[p] = "recheck")
        /\ died'["uncount"] = died["uncount"] + One(pc[p] = "uncount")
        /\ died'["sleep"] = died["sleep"] + One(pc[p] = "sleep")
        /\ died'["post"] = died["post"] + One(pc[p] = "post")
    BY <2>3, <2>5
  <2>9. /\ died["recheck"] \in Nat /\ died["uncount"] \in Nat /\ died["sleep"] \in Nat
        /\ died["post"] \in Nat
        /\ One(pc[p] = "recheck") \in Nat /\ One(pc[p] = "uncount") \in Nat
        /\ One(pc[p] = "sleep") \in Nat /\ One(pc[p] = "post") \in Nat
    BY <1>1, <2>5, <2>6
  <2>10. wait' + sem' + Cardinality(M!Posting') =
           Cardinality(M!Waiting') + died'["recheck"] + died'["uncount"] + died'["sleep"] - died'["post"]
    <3>1. wait' = wait /\ sem' = sem
      BY <2>1
    <3>2. CASE pc[p] = "recheck"
      BY <1>1, <2>2, <2>7, <2>8, <2>9, <3>1, <3>2 DEF One, WaitingPlaces
    <3>3. CASE pc[p] = "uncount"
      BY <1>1, <2>2, <2>7, <2>8, <2>9, <3>1, <3>3 DEF One, WaitingPlaces
    <3>4. CASE pc[p] = "sleep"
      BY <1>1, <2>2, <2>7, <2>8, <2>9, <3>1, <3>4 DEF One, WaitingPlaces
    <3>5. CASE pc[p] = "post"
      <4>1. /\ Cardinality(M!Waiting') = Cardinality(M!Waiting)
            /\ Cardinality(M!Posting') = Cardinality(M!Posting) - 1
        BY <1>1, <2>2, <3>5 DEF One, WaitingPlaces
      <4>2. /\ died'["recheck"] = died["recheck"] /\ died'["uncount"] = died["uncount"]
            /\ died'["sleep"] = died["sleep"] /\ died'["post"] = died["post"] + 1
        BY <2>8, <2>9, <3>5 DEF One
      <4>3. wait + sem + (Cardinality(M!Posting) - 1) =
              Cardinality(M!Waiting) + died["recheck"] + died["uncount"] + died["sleep"]
                - (died["post"] + 1)
        <5>1. wait \in Int /\ sem \in Int /\ Cardinality(M!Posting) \in Int
              /\ Cardinality(M!Waiting) \in Int
          BY <1>1
        <5> QED BY <2>7, <2>9, <5>1, BothLess
      <4> QED BY <3>1, <4>1, <4>2, <4>3, Zenon
    <3>6. CASE pc[p] \notin WaitingPlaces \cup {"post"}
      BY <1>1, <2>2, <2>7, <2>8, <2>9, <3>1, <3>6 DEF One, WaitingPlaces
    <3> QED BY <3>2, <3>3, <3>4, <3>5, <3>6 DEF WaitingPlaces
  <2>11. MasterAwake'
    BY <1>2, <2>1
  <2> QED BY <2>10, <2>11, SameCount DEF M!WakeupsConserved
<1>11. ASSUME NEW p \in Workers, M!UnlockMutexes(p) PROVE M!WakeupsConserved' /\ MasterAwake'
  <2>1. /\ pc[p] = "dead" /\ pc'[p] = "reaped" /\ pc[Master] = "idle"
        /\ pc'[Master] \in {"idle", "wake"}
        /\ \A q \in M!Procs \ {p, Master} : pc'[q] = pc[q]
        /\ UNCHANGED <<wait, sem, died>>
    BY <1>1, <1>11 DEF M!UnlockMutexes, M!At, M!TypeOK
  <2>2. M!Waiting' = M!Waiting /\ M!Posting' = M!Posting
    BY <1>1, <2>1 DEF M!Waiting, M!Posting
  <2> QED BY <2>1, <2>2, SameCount DEF M!WakeupsConserved, MasterAwake
<1>12. CASE UNCHANGED M!vars
  BY <1>12, SameCount DEF M!vars, M!WakeupsConserved, MasterAwake, M!Waiting, M!Posting
<1> QED
  BY <1>1, <1>3, <1>4, <1>5, <1>6, <1>7, <1>8, <1>9, <1>10, <1>11, <1>12 DEF M!Next, M!Proceed

(* The waiters' account holds in every state: "wait", the semaphore and the  *)
(* posters together are the waiters, up to those that died, however the      *)
(* decrements of different processes cross.                                  *)
THEOREM ConservedHolds == ASSUME ProcsAssumption PROVE M!Spec => []M!WakeupsConserved
<1>1. M!Init => M!WakeupsConserved /\ MasterAwake
  <2> SUFFICES ASSUME M!Init PROVE M!WakeupsConserved /\ MasterAwake
    OBVIOUS
  <2>1. M!Waiting = {} /\ M!Posting = {}
    BY DEF M!Init, M!Waiting, M!Posting, M!Procs
  <2> QED BY <2>1, FS_EmptySet, SameCount DEF M!Init, M!WakeupsConserved, MasterAwake, M!Places, M!Procs
<1>2. M!TypeOK /\ MasterAwake /\ M!WakeupsConserved /\ [M!Next]_M!vars => M!WakeupsConserved' /\ MasterAwake'
  BY ConservedStep
<1>3. M!Spec => []M!TypeOK
  BY MutexTypeOK DEF ProcsAssumption
<1> QED BY <1>1, <1>2, <1>3, PTL DEF M!Spec

-----------------------------------------------------------------------------
(* No wakeup is lost                                                         *)

(* A step that moves nobody off the way and makes nobody sleep keeps the     *)
(* free mutex in sight.                                                      *)
LEMMA InSight ==
    ASSUME M!TypeOK, M!NoLostWakeup, UNCHANGED <<lock, sem>>,
           M!CutOff => M!CutOff',
           \A p \in M!Procs : pc'[p] = "sleep" => pc[p] = "sleep",
           \A p \in M!Procs : pc[p] \in M!OnTheWay => pc'[p] \in M!OnTheWay
    PROVE  M!NoLostWakeup'
BY DEF M!NoLostWakeup, M!Procs

(* Every step keeps a free mutex in sight of somebody awake.                 *)
LEMMA NoLostStep ==
    ASSUME M!TypeOK, M!TypeOK', ProcsAssumption, Owned, M!WakeupsConserved', M!NoLostWakeup, [M!Next]_M!vars
    PROVE  M!NoLostWakeup'
<1> USE DEF ProcsAssumption, M!PidAssumption, M!MasterAssumption
<1>1. Workers \subseteq M!Procs /\ Master \in M!Procs /\ \A p \in M!Procs : p # M!Free
  BY DEF M!Procs
<1>2. ASSUME NEW p \in M!Procs, NEW place \in M!Places, M!Go(p, place), place \in M!OnTheWay
      PROVE  M!NoLostWakeup'
  BY <1>2, GoEffect DEF M!NoLostWakeup
<1>3. CASE lock' # M!Free
  BY <1>3 DEF M!NoLostWakeup
<1>4. ASSUME NEW p \in Workers, M!Lock(p) \/ M!CountWaiter(p) \/ M!Awake(p) PROVE M!NoLostWakeup'
  BY <1>1, <1>2, <1>4 DEF M!Lock, M!Call, M!CountWaiter, M!Awake, M!Places, M!OnTheWay
<1>5. ASSUME NEW p \in Workers, NEW place \in M!Places, M!Go(p, place),
             UNCHANGED <<lock, sem, died>>,
             pc[p] \notin M!OnTheWay, place # "sleep"
      PROVE  M!NoLostWakeup'
  <2>1. M!CutOff => M!CutOff'
    BY <1>5 DEF M!CutOff
  <2> QED BY <1>1, <1>5, <2>1, GoEffect, InSight
<1>6. ASSUME NEW p \in Workers, M!Trylock(p) \/ M!Respawn(p) PROVE M!NoLostWakeup'
  <2>1. PICK place \in {"try", "idle"} : M!Go(p, place)
    BY <1>6 DEF M!Trylock, M!Call, M!Respawn
  <2>2. pc[p] \in {"idle", "reaped"} /\ UNCHANGED <<lock, sem, died>> /\ place \in M!Places
    BY <1>6 DEF M!Trylock, M!Call, M!Respawn, M!At, M!Places
  <2> QED BY <1>5, <2>1, <2>2 DEF M!OnTheWay
<1>7. ASSUME NEW p \in Workers, M!Spin(p) PROVE M!NoLostWakeup'
  BY <1>1, <1>2, <1>3, <1>7 DEF M!Spin, M!CmpSet, M!Places, M!OnTheWay
<1>8. ASSUME NEW p \in Workers, M!Recheck(p) \/ M!TryOnce(p) PROVE M!NoLostWakeup'
  BY <1>1, <1>3, <1>8 DEF M!Recheck, M!TryOnce, M!CmpSet
<1>9. ASSUME NEW p \in Workers, M!Uncount(p) PROVE M!NoLostWakeup'
  <2>1. lock = p
    BY <1>9 DEF M!Uncount, M!At, Owned, M!Inside
  <2> QED BY <1>1, <1>3, <1>9, <2>1 DEF M!Uncount
<1>10. ASSUME NEW p \in Workers, M!Unlock(p) PROVE M!NoLostWakeup'
  <2>1. lock = p
    BY <1>10 DEF M!Unlock, M!At, Owned, M!Inside
  <2> QED BY <1>1, <1>2, <1>10, <2>1 DEF M!Unlock, M!Release, M!Places, M!OnTheWay
<1>11. ASSUME NEW p \in M!Procs, M!ReadWait(p), wait <= 0 PROVE M!NoLostWakeup'
  <2> SUFFICES ASSUME lock' = M!Free, NEW q \in Workers, pc'[q] = "sleep", ~M!CutOff'
               PROVE  sem' > 0 \/ \E r \in M!Procs : pc'[r] \in M!OnTheWay
    BY DEF M!NoLostWakeup
  <2>1. /\ IsFiniteSet(M!Waiting') /\ IsFiniteSet(M!Posting')
        /\ Cardinality(M!Waiting') \in Nat /\ Cardinality(M!Posting') \in Nat
    <3>1. IsFiniteSet(Workers) /\ IsFiniteSet(M!Procs)
      BY FS_AddElement DEF M!Procs
    <3>2. M!Waiting' \in SUBSET Workers /\ M!Posting' \in SUBSET M!Procs
      BY DEF M!Waiting, M!Posting
    <3>3. IsFiniteSet(M!Waiting') /\ IsFiniteSet(M!Posting')
      BY <3>1, <3>2, FS_Subset
    <3> QED BY <3>3, FS_CardinalityType
  <2>2. q \in M!Waiting'
    BY DEF M!Waiting
  <2>3. Cardinality(M!Waiting') > 0
    <3>1. Cardinality(M!Waiting') # 0
      BY <2>1, <2>2, FS_EmptySet
    <3> QED BY <2>1, <3>1
  <2>4. died'["post"] = 0 /\ wait' <= 0
    BY <1>11 DEF M!CutOff, M!OnTheWay, M!ReadWait, M!TypeOK, M!Places
  <2>5. /\ wait' \in Int /\ sem' \in Nat
        /\ died'["recheck"] \in Nat /\ died'["uncount"] \in Nat /\ died'["sleep"] \in Nat
    BY DEF M!TypeOK, M!Places
  <2>6. sem' > 0 \/ Cardinality(M!Posting') > 0
    BY <2>1, <2>3, <2>4, <2>5, SameCount DEF M!WakeupsConserved
  <2>7. Cardinality(M!Posting') > 0 => \E r \in M!Procs : pc'[r] \in M!OnTheWay
    <3>1. Cardinality(M!Posting') > 0 => M!Posting' # {}
      BY <2>1, FS_EmptySet
    <3> QED BY <3>1 DEF M!Posting, M!OnTheWay
  <2> QED BY <2>6, <2>7
<1>12. ASSUME NEW p \in M!Procs, M!ReadWait(p), ~(wait <= 0) PROVE M!NoLostWakeup'
  BY <1>2, <1>12 DEF M!ReadWait, M!Places, M!OnTheWay
<1>13. ASSUME NEW p \in M!Procs, M!TakeWaiter(p) PROVE M!NoLostWakeup'
  BY <1>2, <1>13 DEF M!TakeWaiter, M!Places, M!OnTheWay
<1>14. ASSUME NEW p \in M!Procs, M!Post(p) PROVE M!NoLostWakeup'
  BY <1>14 DEF M!Post, M!NoLostWakeup, M!TypeOK
<1>15. ASSUME NEW p \in Workers, M!Kill(p) PROVE M!NoLostWakeup'
  <2>1. /\ M!Go(p, "dead") /\ "dead" \in M!Places /\ UNCHANGED <<lock, sem>>
        /\ died' = [died EXCEPT ![pc[p]] = @ + 1] /\ pc[p] \in M!Places
    BY <1>1, <1>15 DEF M!Kill, M!Places, M!TypeOK
  <2>2. M!CutOff => M!CutOff'
    BY <2>1 DEF M!CutOff, M!TypeOK, M!OnTheWay, M!Places
  <2>3. CASE pc[p] \in M!OnTheWay
    <3>1. died'[pc[p]] > 0
      BY <2>1 DEF M!TypeOK
    <3> QED BY <2>3, <3>1 DEF M!CutOff, M!NoLostWakeup
  <2>4. CASE pc[p] \notin M!OnTheWay
    BY <1>1, <2>1, <2>2, <2>4, GoEffect, InSight
  <2> QED BY <2>3, <2>4
<1>16. ASSUME NEW p \in Workers, M!UnlockMutexes(p) PROVE M!NoLostWakeup'
  <2>1. /\ pc[p] = "dead" /\ pc'[p] = "reaped" /\ pc[Master] = "idle"
        /\ pc'[Master] = (IF lock = p THEN "wake" ELSE "idle")
        /\ \A q \in M!Procs \ {p, Master} : pc'[q] = pc[q]
        /\ lock' = (IF lock = p THEN M!Free ELSE lock) /\ UNCHANGED <<sem, died>>
    BY <1>1, <1>16 DEF M!UnlockMutexes, M!At, M!TypeOK
  <2>2. CASE lock = p
    BY <1>1, <2>1, <2>2 DEF M!NoLostWakeup, M!OnTheWay
  <2>3. CASE lock # p
    <3>1. M!CutOff => M!CutOff'
      BY <2>1 DEF M!CutOff
    <3>2. \A q \in M!Procs : pc'[q] = "sleep" => pc[q] = "sleep"
      BY <2>1, <2>3
    <3>3. \A q \in M!Procs : pc[q] \in M!OnTheWay => pc'[q] \in M!OnTheWay
      BY <2>1, <2>3 DEF M!OnTheWay
    <3>4. UNCHANGED <<lock, sem>>
      BY <2>1, <2>3
    <3> QED BY <3>1, <3>2, <3>3, <3>4, InSight
  <2> QED BY <2>2, <2>3
<1>17. CASE UNCHANGED M!vars
  BY <1>17 DEF M!vars, M!NoLostWakeup, M!CutOff
<1> QED
  BY <1>1, <1>4, <1>6, <1>7, <1>8, <1>9, <1>10, <1>11, <1>12, <1>13, <1>14, <1>15, <1>16, <1>17
     DEF M!Next, M!Proceed, M!Wakeup

(* ngx_shmtx_wakeup loses no wakeup: a free mutex with a sleeper always has  *)
(* somebody awake who will take it or post, unless a worker died between the *)
(* two, for any number of workers and deaths.                                *)
THEOREM NoLostWakeupHolds == ASSUME ProcsAssumption PROVE M!Spec => []M!NoLostWakeup
<1>1. M!Init => M!NoLostWakeup
  BY DEF M!Init, M!NoLostWakeup, M!Procs
<1>2. M!TypeOK /\ M!TypeOK' /\ Owned /\ M!WakeupsConserved' /\ M!NoLostWakeup /\ [M!Next]_M!vars
      => M!NoLostWakeup'
  BY NoLostStep
<1>3. M!Init => Owned
  BY DEF M!Init, Owned, M!Inside, M!Procs
<1>4. M!TypeOK /\ Owned /\ [M!Next]_M!vars => Owned'
  BY OwnedStep
<1>5. M!Spec => []M!TypeOK /\ []M!WakeupsConserved
  BY MutexTypeOK, ConservedHolds DEF ProcsAssumption
<1> QED BY <1>1, <1>2, <1>3, <1>4, <1>5, PTL DEF M!Spec
=============================================================================
