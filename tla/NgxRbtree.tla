------------------------------ MODULE NgxRbtree ------------------------------
(***************************************************************************)
(* The red-black tree of the bundled nginx (core/ngx_rbtree.c) with the    *)
(* insertion its timers use: keys are unsigned numbers of a fixed width    *)
(* and are compared by the sign of their difference, so that an order      *)
(* survives the wrap of the clock.                                         *)
(*                                                                         *)
(* Node 0 is the sentinel.  The code is written twice, for the left and    *)
(* for the right; here a side is a parameter.  Its loops are iterated      *)
(* until they end: one that did not end within the number of nodes, and a  *)
(* step through a null pointer, would be an error of evaluation.           *)
(***************************************************************************)
EXTENDS Integers, SequencesExt

CONSTANTS N,        \* nodes
          Width,    \* the number of keys: 2^32 or 2^64 in the code
          KeysOf    \* the keys each node may be inserted with

RbtreeAssumption ==
  /\ N \in Nat \ {0} /\ Width \in Nat /\ Width % 2 = 0 /\ Width > 0
  /\ KeysOf \in [1..N -> SUBSET (0..Width-1)]

VARIABLES tree, in    \* the tree; the nodes that were put into it

Sentinel == 0
Null == -1
Nodes == 1..N
AllNodes == 0..N
Sides == {"left", "right"}
Opp(side) == IF side = "left" THEN "right" ELSE "left"

\* The sign of (ngx_rbtree_key_int_t) (a - b).
Diff(a, b) == LET d == (a - b) % Width
              IN IF d >= Width \div 2 THEN d - Width ELSE d

\* ngx_rbtree_init; the links of a node are set when it is inserted.
Empty == [root |-> Sentinel,
          kid |-> [side \in Sides |-> [n \in AllNodes |-> Null]],
          parent |-> [n \in AllNodes |-> Null],
          red |-> [n \in AllNodes |-> FALSE],
          key |-> [n \in AllNodes |-> 0]]

\* ngx_rbtree_min.
Least(t, n) == LET least[x \in Nodes] == IF t.kid["left"][x] = Sentinel THEN x
                                       ELSE least[t.kid["left"][x]]
             IN least[n]

\* ngx_rbtree_next.
Successor(t, n) ==
  LET up[x \in Nodes] == IF x = t.root THEN Null
                         ELSE IF x = t.kid["left"][t.parent[x]] THEN t.parent[x]
                         ELSE up[t.parent[x]]
  IN IF t.kid["right"][n] # Sentinel THEN Least(t, t.kid["right"][n]) ELSE up[n]

SideOf(t, n) == IF n = t.kid["left"][t.parent[n]] THEN "left" ELSE "right"

Relink(t, n, m) == IF n = t.root THEN [t EXCEPT !.root = m]
                   ELSE [t EXCEPT !.kid[SideOf(t, n)][t.parent[n]] = m]

Rotate(t, side, n) ==
  LET m == t.kid[Opp(side)][n]
      g == t.kid[side][m]
      u == [Relink(t, n, m) EXCEPT !.kid[Opp(side)][n] = g, !.kid[side][m] = n]
  IN [u EXCEPT !.parent = [@ EXCEPT ![g] = IF g # Sentinel THEN n ELSE @,
                                    ![m] = t.parent[n], ![n] = m]]

Before(a, b) == Diff(a, b) < 0

\* ngx_rbtree_insert_timer_value: the new node becomes a red leaf.
Leaf(t, n, k) ==
  LET side(x) == IF Before(k, t.key[x]) THEN "left" ELSE "right"
      foot[x \in Nodes] == IF t.kid[side(x)][x] = Sentinel THEN x
                           ELSE foot[t.kid[side(x)][x]]
      p == foot[t.root]
  IN [t EXCEPT !.kid[side(p)][p] = n, !.parent[n] = p, !.red[n] = TRUE,
               !.kid["left"][n] = Sentinel, !.kid["right"][n] = Sentinel]

\* One turn of the loop of ngx_rbtree_insert, at a red node with a red
\* parent.
InsertFix(t, n) ==
  LET p == t.parent[n]
      g == t.parent[p]
      side == SideOf(t, p)
      u == t.kid[Opp(side)][g]
      inner == n = t.kid[Opp(side)][p]
      m == IF inner THEN p ELSE n
      v == IF inner THEN Rotate(t, side, p) ELSE t
      q == v.parent[m]
      w == [v EXCEPT !.red[q] = FALSE, !.red[v.parent[q]] = TRUE]
  IN IF t.red[u]
     THEN [t |-> [t EXCEPT !.red[p] = FALSE, !.red[u] = FALSE, !.red[g] = TRUE],
           n |-> g]
     ELSE [t |-> Rotate(w, Opp(side), v.parent[q]), n |-> m]

InsertTurn(x) == InsertFix(x.t, x.n)

InsertDone(x) == x.n = x.t.root \/ ~x.t.red[x.t.parent[x.n]]

\* A loop: Turn is repeated from x until Done.
Loop(x, Turn(_), Done(_)) ==
  LET after[i \in 0..N] == IF i = 0 THEN x ELSE Turn(after[i - 1])
  IN after[CHOOSE i \in 0..N : Done(after[i]) /\ \A j \in 0..(i-1) : ~Done(after[j])]

\* ngx_rbtree_insert.
Inserted(t0, n, k) ==
  LET t == [t0 EXCEPT !.key[n] = k]
  IN IF t.root = Sentinel
     THEN [t EXCEPT !.root = n, !.parent[n] = Null, !.red[n] = FALSE,
                    !.kid["left"][n] = Sentinel, !.kid["right"][n] = Sentinel]
     ELSE LET u == Loop([t |-> Leaf(t, n, k), n |-> n], InsertTurn, InsertDone).t
          IN [u EXCEPT !.red[u.root] = FALSE]

\* One turn of the loop of ngx_rbtree_delete, at a node that lacks a black
\* one: w is its brother.
DeleteFix(t0, n) ==
  LET p == t0.parent[n]
      side == SideOf(t0, n)
      o == Opp(side)
      w0 == t0.kid[o][p]
      t == IF t0.red[w0]
           THEN Rotate([t0 EXCEPT !.red[w0] = FALSE, !.red[p] = TRUE], side, p)
           ELSE t0
      w == t.kid[o][p]
      u == IF t.red[t.kid[o][w]] THEN t
           ELSE Rotate([t EXCEPT !.red[t.kid[side][w]] = FALSE, !.red[w] = TRUE],
                       o, w)
      x == u.kid[o][p]
  IN IF ~t.red[t.kid["left"][w]] /\ ~t.red[t.kid["right"][w]]
     THEN [t |-> [t EXCEPT !.red[w] = TRUE], n |-> p]
     ELSE LET v == Rotate([u EXCEPT !.red[x] = u.red[p], !.red[p] = FALSE,
                                    !.red[u.kid[o][x]] = FALSE], side, p)
          IN [t |-> v, n |-> v.root]

DeleteTurn(x) == DeleteFix(x.t, x.n)

DeleteDone(x) == x.n = x.t.root \/ x.t.red[x.n]

\* The node's links are overwritten (DEBUG stuff).  So is its colour here,
\* which the code leaves and never reads before an insertion sets it.
Cut(t, n) == [t EXCEPT !.kid["left"][n] = Null, !.kid["right"][n] = Null,
                       !.parent[n] = Null, !.key[n] = 0, !.red[n] = FALSE]

Moved(t, n, sub, tmp) ==
  LET u == [t EXCEPT !.parent[tmp] = IF t.parent[sub] = n THEN sub ELSE t.parent[sub],
                     !.kid["left"][sub] = t.kid["left"][n],
                     !.kid["right"][sub] = t.kid["right"][n],
                     !.parent[sub] = t.parent[n],
                     !.red[sub] = t.red[n]]
      v == Relink(u, n, sub)
  IN [v EXCEPT !.parent = [x \in AllNodes |->
        IF x # Sentinel /\ x \in {v.kid["left"][sub], v.kid["right"][sub]}
        THEN sub ELSE @[x]]]

\* ngx_rbtree_delete.
Deleted(t, n) ==
  LET l == t.kid["left"][n]
      r == t.kid["right"][n]
      sub == IF l = Sentinel \/ r = Sentinel THEN n ELSE Least(t, r)
      tmp == IF l = Sentinel THEN r ELSE IF r = Sentinel THEN l
             ELSE t.kid["right"][sub]
      u == Relink(t, sub, tmp)
      v == Cut(IF sub = n THEN [u EXCEPT !.parent[tmp] = t.parent[sub]]
               ELSE Moved(u, n, sub, tmp), n)
      x == Loop([t |-> v, n |-> tmp], DeleteTurn, DeleteDone)
  IN IF sub = t.root THEN Cut([t EXCEPT !.root = tmp, !.red[tmp] = FALSE], n)
     ELSE IF t.red[sub] THEN v
     ELSE [x.t EXCEPT !.red[x.n] = FALSE]

----------------------------------------------------------------------------

RbInit == tree = Empty /\ in = {}

Insert(n, k) == /\ n \notin in
                /\ tree' = Inserted(tree, n, k)
                /\ in' = in \cup {n}

Delete(n) == /\ n \in in
             /\ tree' = Deleted(tree, n)
             /\ in' = in \ {n}

RbNext == \E n \in Nodes : Delete(n) \/ \E k \in KeysOf[n] : Insert(n, k)

RbSpec == RbInit /\ [][RbNext]_<<tree, in>>

----------------------------------------------------------------------------

(* Type invariant of the tree: links lead to nodes of the tree or to the     *)
(* sentinel.                                                                 *)
RbTypeOK ==
  /\ in \subseteq Nodes
  /\ tree.root \in in \cup {Sentinel}
  /\ \A n \in in : /\ \A side \in Sides : tree.kid[side][n] \in in \cup {Sentinel}
                   /\ tree.key[n] \in 0..Width-1

\* The nodes below n from left to right.
InOrder(t) ==
  LET walk[n \in AllNodes] == IF n = Sentinel THEN <<>>
                              ELSE walk[t.kid["left"][n]] \o <<n>>
                                   \o walk[t.kid["right"][n]]
  IN walk[t.root]

\* The number of black nodes on every way down, 0 if the ways differ.
BlackHeight(t) ==
  LET high[n \in AllNodes] ==
        IF n = Sentinel THEN 1
        ELSE LET a == high[t.kid["left"][n]]
             IN IF a # high[t.kid["right"][n]] \/ a = 0 THEN 0
                ELSE IF t.red[n] THEN a ELSE a + 1
  IN high[t.root]

\* Whatever was inserted and deleted, the tree is a red-black tree: the root
\* and the sentinel are black, no red node has a red child, and all ways
\* down pass the same number of black nodes.  Its height stays logarithmic.
RedBlack ==
  /\ ~tree.red[Sentinel] /\ (in # {} => ~tree.red[tree.root])
  /\ \A n \in in : tree.red[n] => \A side \in Sides : ~tree.red[tree.kid[side][n]]
  /\ BlackHeight(tree) # 0

\* The tree holds each inserted node once, in the order of the timers, also
\* where the keys wrap.
Sorted ==
  LET w == InOrder(tree)
  IN /\ Len(w) = Cardinality(in) /\ ToSet(w) = in
     /\ \A i \in 1..(Len(w) - 1) : Diff(tree.key[w[i]], tree.key[w[i + 1]]) <= 0

\* ngx_rbtree_min and ngx_rbtree_next visit every node once and in order:
\* the upward links agree with the downward ones.
VisitsAll ==
  LET w == InOrder(tree)
  IN w # <<>> => /\ Least(tree, tree.root) = Head(w)
                 /\ \A i \in 1..Len(w) :
                      Successor(tree, w[i]) = IF i = Len(w) THEN Null ELSE w[i + 1]
============================================================================
