-------------------------- MODULE NgxUpstreamProofs --------------------------
(***************************************************************************)
(* Proofs about NgxRoundRobin and NgxUpstream, for any servers, weights,   *)
(* limits and configuration of retries, any finite set of requests and     *)
(* any size of the cache of idle connections.                              *)
(***************************************************************************)
EXTENDS NgxUpstream, FiniteSetTheorems, SequenceTheorems, WellFoundedInduction, TLAPS

-----------------------------------------------------------------------------
(* Sums over finite sets                                                     *)

(* Every nonempty set of natural numbers has a least element. Facts about    *)
(* all finite sets are proved below from the least size of a counterexample. *)
LEMMA LeastNatural ==
    ASSUME NEW T, T \subseteq Nat, T # {}
    PROVE  \E x \in T : \A y \in T : x <= y
<1>1. ASSUME NEW R, IsWellFoundedOn(R, Nat), \A x, y \in Nat : <<y, x>> \in R <=> y < x
      PROVE  \E x \in T : \A y \in T : x <= y
  <2>1. PICK x \in T : \A y \in T : ~ (<<y, x>> \in R)
    BY <1>1, WFMin
  <2>2. ASSUME NEW y \in T PROVE x <= y
    <3>1. x \in Nat /\ y \in Nat /\ ~(y < x)
      BY <1>1, <2>1
    <3> QED BY <3>1
  <2> QED BY <2>2
<1>2. \A x, y \in Nat : <<y, x>> \in OpToRel(<, Nat) <=> y < x
  BY DEF OpToRel
<1> QED BY <1>1, <1>2, NatLessThanWellFounded, Zenon

(* What the recursive function of MapThenFoldSet is, for a sum.              *)
SumStep(f, s, rest) == IF s = {} THEN 0 ELSE f[CHOOSE x \in s : TRUE] + rest[s \ {CHOOSE x \in s : TRUE}]
IsSums(g, f, S) == g = [s \in SUBSET S |-> SumStep(f, s, g)]

LEMMA SumDef ==
    ASSUME NEW f, NEW S
    PROVE  SumFunctionOnSet(f, S) = (CHOOSE g : IsSums(g, f, S))[S]
BY DEF SumFunctionOnSet, FoldFunctionOnSet, MapThenFoldSet, IsSums, SumStep

(* One element less.                                                         *)
LEMMA Smaller ==
    ASSUME NEW s, IsFiniteSet(s), NEW x \in s
    PROVE  /\ IsFiniteSet(s \ {x}) /\ Cardinality(s) \in Nat /\ Cardinality(s \ {x}) \in Nat
           /\ Cardinality(s \ {x}) = Cardinality(s) - 1
BY FS_RemoveElement, FS_CardinalityType

(* The recursive definition has a solution, whose values are integers: the   *)
(* sums of all sets of at most n elements can be told from those of fewer.   *)
LEMMA SumsExist ==
    ASSUME NEW f, NEW S, IsFiniteSet(S), \A x \in S : f[x] \in Int
    PROVE  \E g \in [SUBSET S -> Int] : IsSums(g, f, S)
<1> DEFINE G(n) == {s \in SUBSET S : Cardinality(s) <= n}
           Good(n) == \E g \in [G(n) -> Int] : \A s \in G(n) : g[s] = SumStep(f, s, g)
           Bad == {n \in Nat : ~Good(n)}
<1>1. \A s \in SUBSET S : IsFiniteSet(s) /\ Cardinality(s) \in Nat
  BY FS_Subset, FS_CardinalityType
<1>2. Good(0)
  <2>1. G(0) = {{}}
    BY <1>1, FS_EmptySet
  <2> DEFINE g == [s \in G(0) |-> 0]
  <2>2. g \in [G(0) -> Int] /\ \A s \in G(0) : g[s] = SumStep(f, s, g)
    BY <2>1 DEF SumStep
  <2> QED BY <2>2
<1>3. ASSUME NEW n \in Nat, Good(n) PROVE Good(n + 1)
  <2>1. PICK g \in [G(n) -> Int] : \A s \in G(n) : g[s] = SumStep(f, s, g)
    BY <1>3
  <2> DEFINE c(s) == CHOOSE x \in s : TRUE
             h == [s \in G(n + 1) |-> IF s \in G(n) THEN g[s] ELSE f[c(s)] + g[s \ {c(s)}]]
  <2>2. ASSUME NEW s \in G(n + 1), s # {}
        PROVE  c(s) \in s /\ s \ {c(s)} \in G(n) /\ s \ {c(s)} \in G(n + 1) /\ f[c(s)] \in Int
    <3>1. c(s) \in s
      BY <2>2
    <3>2. Cardinality(s \ {c(s)}) = Cardinality(s) - 1 /\ Cardinality(s) \in Nat
      BY <1>1, <3>1, Smaller
    <3> HIDE DEF c
    <3>3. s \ {c(s)} \in SUBSET S /\ f[c(s)] \in Int
      BY <3>1
    <3>4. Cardinality(s) <= n + 1
      OBVIOUS
    <3> QED BY <3>1, <3>2, <3>3, <3>4
  <2>3. \A s \in G(n + 1) : s \notin G(n) => s # {}
    <3>1. Cardinality({}) = 0 /\ 0 <= n /\ {} \in SUBSET S
      BY FS_EmptySet
    <3>2. {} \in G(n)
      BY <3>1
    <3> QED BY <3>2
  <2>4. h \in [G(n + 1) -> Int]
    <3>1. ASSUME NEW s \in G(n + 1)
          PROVE  (IF s \in G(n) THEN g[s] ELSE f[c(s)] + g[s \ {c(s)}]) \in Int
      <4>1. CASE s \in G(n)
        BY <4>1
      <4>2. CASE s \notin G(n)
        <5>1. f[c(s)] \in Int /\ g[s \ {c(s)}] \in Int
          BY <2>2, <2>3, <4>2
        <5> QED BY <4>2, <5>1
      <4> QED BY <4>1, <4>2
    <3> QED BY <3>1
  <2>5. ASSUME NEW s \in G(n + 1) PROVE h[s] = SumStep(f, s, h)
    <3>1. CASE s = {}
      <4>1. s \in G(n)
        BY <3>1, FS_EmptySet
      <4> QED BY <2>1, <3>1, <4>1 DEF SumStep
    <3>2. CASE s # {}
      <4>1. h[s \ {c(s)}] = g[s \ {c(s)}]
        BY <2>2, <3>2
      <4>2. h[s] = f[c(s)] + g[s \ {c(s)}]
        BY <2>1, <3>2 DEF SumStep
      <4> QED BY <3>2, <4>1, <4>2 DEF SumStep
    <3> QED BY <3>1, <3>2
  <2> QED BY <2>4, <2>5
<1>4. Good(Cardinality(S))
  <2> HIDE DEF Good
  <2>1. Cardinality(S) \in Nat
    BY FS_CardinalityType
  <2>2. ASSUME Bad # {} PROVE FALSE
    <3>1. PICK n \in Bad : \A m \in Bad : n <= m
      BY <2>2, LeastNatural
    <3>2. n # 0
      BY <1>2, <3>1
    <3>3. n - 1 \in Nat /\ n - 1 \notin Bad
      BY <3>1, <3>2
    <3>4. Good((n - 1) + 1)
      BY <1>3, <3>3
    <3> QED BY <3>1, <3>3, <3>4
  <2> QED BY <2>1, <2>2
<1>5. G(Cardinality(S)) = SUBSET S
  BY FS_Subset, FS_CardinalityType
<1>6. PICK g \in [SUBSET S -> Int] : \A s \in SUBSET S : g[s] = SumStep(f, s, g)
  BY <1>4, <1>5
<1>7. g = [s \in SUBSET S |-> SumStep(f, s, g)]
  BY <1>6
<1> QED BY <1>7 DEF IsSums


(* Two solutions agree where both are defined.                               *)
LEMMA SumsAgree ==
    ASSUME NEW f, NEW S, NEW R, NEW g, NEW h, IsSums(g, f, S), IsSums(h, f, R),
           NEW s, s \subseteq S, s \subseteq R, IsFiniteSet(s)
    PROVE  g[s] = h[s]
<1> DEFINE Bad == {n \in Nat : \E u \in SUBSET s : Cardinality(u) = n /\ g[u] # h[u]}
<1>1. \A u \in SUBSET s : IsFiniteSet(u) /\ Cardinality(u) \in Nat
  BY FS_Subset, FS_CardinalityType
<1>2. \A u \in SUBSET s : g[u] = SumStep(f, u, g) /\ h[u] = SumStep(f, u, h)
  BY DEF IsSums
<1>3. ASSUME Bad # {} PROVE FALSE
  <2>1. PICK n \in Bad : \A m \in Bad : n <= m
    BY <1>3, LeastNatural
  <2>2. PICK u \in SUBSET s : Cardinality(u) = n /\ g[u] # h[u]
    BY <2>1
  <2>3. u # {}
    BY <1>2, <2>2 DEF SumStep
  <2> DEFINE c == CHOOSE x \in u : TRUE
  <2>4. c \in u
    BY <2>3
  <2>5. Cardinality(u \ {c}) = Cardinality(u) - 1 /\ Cardinality(u) \in Nat /\ Cardinality(u \ {c}) \in Nat
    BY <1>1, <2>4, Smaller
  <2>6. g[u] = f[c] + g[u \ {c}] /\ h[u] = f[c] + h[u \ {c}]
    BY <1>2, <2>3 DEF SumStep
  <2> HIDE DEF c
  <2>7. g[u \ {c}] # h[u \ {c}] /\ u \ {c} \in SUBSET s
    BY <2>2, <2>6
  <2>8. Cardinality(u \ {c}) \in Bad
    BY <2>5, <2>7
  <2>9. n \in Nat /\ n <= Cardinality(u \ {c})
    BY <2>1, <2>8
  <2> QED BY <2>2, <2>5, <2>9
<1>4. Cardinality(s) \in Nat /\ s \in SUBSET s
  BY <1>1
<1>5. Cardinality(s) \notin Bad
  BY <1>3
<1> QED BY <1>4, <1>5

(* The sum over a finite set, by the element that CHOOSE takes first.        *)
LEMMA SumFirst ==
    ASSUME NEW f, NEW S, IsFiniteSet(S), \A x \in S : f[x] \in Int
    PROVE  /\ SumFunctionOnSet(f, S) \in Int
           /\ S = {} => SumFunctionOnSet(f, S) = 0
           /\ S # {} => LET c == CHOOSE x \in S : TRUE
                        IN  SumFunctionOnSet(f, S) = f[c] + SumFunctionOnSet(f, S \ {c})
<1> DEFINE sums(R) == CHOOSE g : IsSums(g, f, R)
<1>1. ASSUME NEW R \in SUBSET S
      PROVE  IsSums(sums(R), f, R) /\ sums(R)[R] \in Int /\ IsFiniteSet(R)
  <2>1. IsFiniteSet(R) /\ \A x \in R : f[x] \in Int
    BY FS_Subset
  <2>2. PICK g \in [SUBSET R -> Int] : IsSums(g, f, R)
    BY <2>1, SumsExist
  <2>3. IsSums(sums(R), f, R)
    BY <2>2
  <2> HIDE DEF sums
  <2>4. sums(R)[R] = g[R]
    BY <2>1, <2>2, <2>3, SumsAgree
  <2> QED BY <2>1, <2>2, <2>3, <2>4
<1>2. \A R : SumFunctionOnSet(f, R) = sums(R)[R]
  BY SumDef
<1> HIDE DEF sums
<1>3. sums(S)[S] = SumStep(f, S, sums(S))
  BY <1>1 DEF IsSums
<1>4. CASE S = {}
  BY <1>1, <1>2, <1>3, <1>4 DEF SumStep
<1>5. CASE S # {}
  <2> DEFINE c == CHOOSE x \in S : TRUE
  <2>1. sums(S)[S] = f[c] + sums(S)[S \ {c}]
    BY <1>3, <1>5 DEF SumStep
  <2> HIDE DEF c
  <2>2. sums(S)[S \ {c}] = sums(S \ {c})[S \ {c}]
    BY <1>1, SumsAgree
  <2>3. SumFunctionOnSet(f, S) = f[c] + SumFunctionOnSet(f, S \ {c})
    BY <1>2, <2>1, <2>2
  <2> QED BY <1>1, <1>2, <1>5, <2>3 DEF c
<1> QED BY <1>4, <1>5

(* The sum by any of the elements: the order does not matter.                *)
LEMMA SumRemove ==
    ASSUME NEW f, NEW S, IsFiniteSet(S), \A x \in S : f[x] \in Int, NEW e \in S
    PROVE  SumFunctionOnSet(f, S) = f[e] + SumFunctionOnSet(f, S \ {e})
<1> DEFINE Sum(R) == SumFunctionOnSet(f, R)
           Wrong(R) == \E x \in R : Sum(R) # f[x] + Sum(R \ {x})
           Bad == {n \in Nat : \E R \in SUBSET S : Cardinality(R) = n /\ Wrong(R)}
<1>1. \A R \in SUBSET S : IsFiniteSet(R) /\ Cardinality(R) \in Nat
  BY FS_Subset, FS_CardinalityType
<1>2. ASSUME NEW R \in SUBSET S
      PROVE  /\ Sum(R) \in Int
             /\ R # {} => LET c == CHOOSE x \in R : TRUE IN Sum(R) = f[c] + Sum(R \ {c})
  <2>1. IsFiniteSet(R) /\ \A x \in R : f[x] \in Int
    BY <1>1
  <2> QED BY <2>1, SumFirst
<1> HIDE DEF Sum
<1>3. ASSUME Bad # {} PROVE FALSE
  <2>1. PICK n \in Bad : \A m \in Bad : n <= m
    BY <1>3, LeastNatural
  <2>2. PICK R \in SUBSET S : Cardinality(R) = n /\ Wrong(R)
    BY <2>1
  <2>3. PICK x \in R : Sum(R) # f[x] + Sum(R \ {x})
    BY <2>2
  <2> DEFINE c == CHOOSE y \in R : TRUE
  <2>4. c \in R /\ Sum(R) = f[c] + Sum(R \ {c})
    BY <1>2, <2>3
  <2> HIDE DEF c
  <2>5. x # c
    BY <2>3, <2>4
  <2>6. ASSUME NEW y \in R, NEW z \in R \ {y} PROVE Sum(R \ {y}) = f[z] + Sum((R \ {y}) \ {z})
    <3>1. Cardinality(R \ {y}) = n - 1 /\ n - 1 \in Nat
      BY <1>1, <2>2, Smaller
    <3>2. n - 1 \notin Bad
      BY <2>1, <3>1
    <3>3. R \ {y} \in SUBSET S
      OBVIOUS
    <3>4. ~Wrong(R \ {y})
      BY <3>1, <3>2, <3>3
    <3> QED BY <3>4
  <2>7. Sum(R \ {c}) = f[x] + Sum((R \ {c}) \ {x}) /\ Sum(R \ {x}) = f[c] + Sum((R \ {x}) \ {c})
    BY <2>4, <2>5, <2>6
  <2> DEFINE rest == Sum((R \ {x}) \ {c})
  <2>8. (R \ {c}) \ {x} = (R \ {x}) \ {c}
    OBVIOUS
  <2>9. f[x] \in Int /\ f[c] \in Int /\ rest \in Int
    BY <1>2, <2>4
  <2>10. Sum(R) = f[c] + (f[x] + rest) /\ Sum(R) # f[x] + (f[c] + rest)
    BY <2>3, <2>4, <2>7, <2>8
  <2> HIDE DEF rest
  <2> QED BY <2>9, <2>10
<1>4. Cardinality(S) \in Nat /\ S \in SUBSET S
  BY <1>1
<1>5. ~Wrong(S)
  BY <1>3, <1>4
<1> QED BY <1>5 DEF Sum


LEMMA SumFacts ==
    ASSUME NEW f, NEW S, IsFiniteSet(S), \A x \in S : f[x] \in Int
    PROVE  /\ SumFunctionOnSet(f, S) \in Int
           /\ S = {} => SumFunctionOnSet(f, S) = 0
           /\ \A x \in S : SumFunctionOnSet(f, S) = f[x] + SumFunctionOnSet(f, S \ {x})
<1>1. SumFunctionOnSet(f, S) \in Int /\ (S = {} => SumFunctionOnSet(f, S) = 0)
  BY SumFirst
<1>2. \A x \in S : SumFunctionOnSet(f, S) = f[x] + SumFunctionOnSet(f, S \ {x})
  BY SumRemove
<1> QED BY <1>1, <1>2

(* What is added to the values of the elements of C is added to the sum.     *)
LEMMA SumPlus ==
    ASSUME NEW M, IsFiniteSet(M), NEW C, C \subseteq M, NEW f, NEW g, NEW e,
           \A p \in M : f[p] \in Int /\ e[p] \in Int
                        /\ g[p] = IF p \in C THEN f[p] + e[p] ELSE f[p]
    PROVE  SumFunctionOnSet(g, M) = SumFunctionOnSet(f, M) + SumFunctionOnSet(e, C)
<1> DEFINE F(R) == SumFunctionOnSet(f, R)
           G(R) == SumFunctionOnSet(g, R)
           E(R) == SumFunctionOnSet(e, C \cap R)
           Bad == {n \in Nat : \E R \in SUBSET M : Cardinality(R) = n /\ G(R) # F(R) + E(R)}
<1>1. ASSUME NEW R \in SUBSET M
      PROVE  /\ IsFiniteSet(R) /\ Cardinality(R) \in Nat /\ IsFiniteSet(C \cap R)
             /\ F(R) \in Int /\ G(R) \in Int /\ E(R) \in Int
             /\ R = {} => F(R) = 0 /\ G(R) = 0 /\ E(R) = 0
             /\ \A x \in R : F(R) = f[x] + F(R \ {x}) /\ G(R) = g[x] + G(R \ {x})
  <2>1. IsFiniteSet(R) /\ Cardinality(R) \in Nat /\ IsFiniteSet(C \cap R)
    BY FS_Subset, FS_CardinalityType
  <2>2. /\ \A x \in R : f[x] \in Int
        /\ \A x \in R : g[x] \in Int
        /\ \A x \in C \cap R : e[x] \in Int
    OBVIOUS
  <2>3. F(R) \in Int /\ (R = {} => F(R) = 0) /\ \A x \in R : F(R) = f[x] + F(R \ {x})
    BY <2>1, <2>2, SumFacts
  <2>4. G(R) \in Int /\ (R = {} => G(R) = 0) /\ \A x \in R : G(R) = g[x] + G(R \ {x})
    BY <2>1, <2>2, SumFacts
  <2>5. E(R) \in Int /\ (R = {} => E(R) = 0)
    BY <2>1, <2>2, SumFacts
  <2> QED BY <2>1, <2>3, <2>4, <2>5
<1>2. ASSUME NEW R \in SUBSET M, NEW x \in R
      PROVE  E(R) = IF x \in C THEN e[x] + E(R \ {x}) ELSE E(R \ {x})
  <2>1. CASE x \in C
    <3>1. (C \cap R) \ {x} = C \cap (R \ {x}) /\ x \in C \cap R
      BY <2>1
    <3>2. \A y \in C \cap R : e[y] \in Int
      OBVIOUS
    <3>3. IsFiniteSet(C \cap R)
      BY <1>1
    <3>4. SumFunctionOnSet(e, C \cap R) = e[x] + SumFunctionOnSet(e, (C \cap R) \ {x})
      BY <3>1, <3>2, <3>3, SumFacts
    <3> QED BY <2>1, <3>1, <3>4
  <2>2. CASE x \notin C
    <3>1. C \cap R = C \cap (R \ {x})
      BY <2>2
    <3> QED BY <2>2, <3>1
  <2> QED BY <2>1, <2>2
<1> HIDE DEF F, G, E
<1>3. ASSUME Bad # {} PROVE FALSE
  <2>1. PICK n \in Bad : \A m \in Bad : n <= m
    BY <1>3, LeastNatural
  <2>2. PICK R \in SUBSET M : Cardinality(R) = n /\ G(R) # F(R) + E(R)
    BY <2>1
  <2>3. R # {}
    <3>1. R = {} => G(R) = 0 /\ F(R) = 0 /\ E(R) = 0
      BY <1>1
    <3> QED BY <2>2, <3>1
  <2>4. PICK x \in R : TRUE
    BY <2>3
  <2>5. Cardinality(R \ {x}) = n - 1 /\ n - 1 \in Nat /\ R \ {x} \in SUBSET M
    BY <1>1, <2>2, Smaller
  <2>6. n - 1 \notin Bad
    BY <2>1, <2>5
  <2>7. G(R \ {x}) = F(R \ {x}) + E(R \ {x})
    BY <2>5, <2>6
  <2>8. /\ F(R \ {x}) \in Int /\ E(R \ {x}) \in Int /\ G(R \ {x}) \in Int
        /\ f[x] \in Int /\ e[x] \in Int /\ g[x] = IF x \in C THEN f[x] + e[x] ELSE f[x]
    BY <1>1, <2>5
  <2>9. /\ F(R) = f[x] + F(R \ {x}) /\ G(R) = g[x] + G(R \ {x})
        /\ E(R) = IF x \in C THEN e[x] + E(R \ {x}) ELSE E(R \ {x})
    BY <1>1, <1>2
  <2> QED BY <2>2, <2>7, <2>8, <2>9
<1>4. Cardinality(M) \in Nat /\ M \in SUBSET M
  BY <1>1
<1>5. G(M) = F(M) + E(M)
  BY <1>3, <1>4
<1>6. C \cap M = C
  OBVIOUS
<1> QED BY <1>5, <1>6 DEF F, G, E

(* What one element loses the sum loses; sums of equal values are equal.     *)
LEMMA SumPaid ==
    ASSUME NEW M, IsFiniteSet(M), NEW b \in M, NEW t \in Int, NEW f, NEW g,
           \A p \in M : f[p] \in Int /\ g[p] = IF p = b THEN f[p] - t ELSE f[p]
    PROVE  SumFunctionOnSet(g, M) = SumFunctionOnSet(f, M) - t
<1> DEFINE e == [p \in M |-> 0 - t]
<1>1. \A p \in M : f[p] \in Int /\ e[p] \in Int
                   /\ g[p] = IF p \in {b} THEN f[p] + e[p] ELSE f[p]
  OBVIOUS
<1>2. SumFunctionOnSet(e, {b}) = 0 - t
  <2>1. IsFiniteSet({b}) /\ IsFiniteSet({})
    BY FS_Singleton, FS_EmptySet
  <2>2. e[b] = 0 - t /\ e[b] \in Int
    OBVIOUS
  <2> HIDE DEF e
  <2>3. SumFunctionOnSet(e, {}) = 0
    BY <2>1, SumFacts
  <2>4. SumFunctionOnSet(e, {b}) = e[b] + SumFunctionOnSet(e, {b} \ {b})
    BY <2>1, <2>2, SumFacts
  <2>5. {b} \ {b} = {}
    OBVIOUS
  <2>6. SumFunctionOnSet(e, {b}) = e[b] + 0
    BY <2>3, <2>4, <2>5
  <2> QED BY <2>2, <2>6
<1> HIDE DEF e
<1>3. SumFunctionOnSet(g, M) = SumFunctionOnSet(f, M) + SumFunctionOnSet(e, {b})
  BY <1>1, SumPlus
<1>4. SumFunctionOnSet(f, M) \in Int
  BY SumFacts
<1> QED BY <1>2, <1>3, <1>4

LEMMA SumSame ==
    ASSUME NEW M, IsFiniteSet(M), NEW f, NEW g, \A p \in M : f[p] \in Int /\ g[p] = f[p]
    PROVE  SumFunctionOnSet(g, M) = SumFunctionOnSet(f, M)
<1> DEFINE e == [p \in M |-> 0]
<1>1. \A p \in M : f[p] \in Int /\ e[p] \in Int
                   /\ g[p] = IF p \in {} THEN f[p] + e[p] ELSE f[p]
  OBVIOUS
<1>2. SumFunctionOnSet(e, {}) = 0
  BY SumFacts, FS_EmptySet
<1> HIDE DEF e
<1>3. SumFunctionOnSet(g, M) = SumFunctionOnSet(f, M) + SumFunctionOnSet(e, {})
  BY <1>1, SumPlus
<1>4. SumFunctionOnSet(f, M) \in Int
  BY SumFacts
<1> QED BY <1>2, <1>3, <1>4

-----------------------------------------------------------------------------
(* The choice of a server                                                    *)

(* In a finite set that is not empty, some element is beaten by no other     *)
(* when beating is transitive and nothing beats itself: the one that the     *)
(* fewest beat.                                                              *)
LEMMA Unbeaten ==
    ASSUME NEW C, IsFiniteSet(C), C # {}, NEW beats,
           \A p, q, r \in C : <<p, q>> \in beats /\ <<q, r>> \in beats => <<p, r>> \in beats,
           \A p \in C : <<p, p>> \notin beats
    PROVE  \E p \in C : \A q \in C : <<q, p>> \notin beats
<1> DEFINE Over(p) == {q \in C : <<q, p>> \in beats}
           Sizes == {Cardinality(Over(p)) : p \in C}
<1>1. \A p \in C : IsFiniteSet(Over(p)) /\ Cardinality(Over(p)) \in Nat
  BY FS_Subset, FS_CardinalityType
<1>2. PICK n \in Sizes : \A m \in Sizes : n <= m
  <2> HIDE DEF Over
  <2>1. Sizes \subseteq Nat
    BY <1>1
  <2>2. Sizes # {}
    <3>1. PICK p \in C : TRUE
      OBVIOUS
    <3> QED BY <3>1
  <2> HIDE DEF Sizes
  <2> QED BY <2>1, <2>2, LeastNatural
<1>3. PICK p \in C : n = Cardinality(Over(p))
  BY <1>2
<1>4. ASSUME NEW q \in C, <<q, p>> \in beats PROVE FALSE
  <2>1. Over(q) \subseteq Over(p) \ {q} /\ q \in Over(p)
    BY <1>4
  <2> HIDE DEF Over
  <2>2. IsFiniteSet(Over(p)) /\ Cardinality(Over(p) \ {q}) = Cardinality(Over(p)) - 1
        /\ IsFiniteSet(Over(p) \ {q})
    BY <1>1, <2>1, Smaller
  <2>3. Cardinality(Over(q)) <= Cardinality(Over(p) \ {q})
    BY <2>1, <2>2, FS_Subset
  <2>4. Cardinality(Over(p)) <= Cardinality(Over(q))
    BY <1>2, <1>3
  <2>5. Cardinality(Over(p)) \in Nat /\ Cardinality(Over(q)) \in Nat
    BY <1>1
  <2> QED BY <2>2, <2>3, <2>4, <2>5
<1> QED BY <1>3, <1>4


PeerRecord == [current_weight : Int, effective_weight : Nat, fails : Nat,
               age : 0..FailTimeout + 1, accessedEarlier : BOOLEAN, conns : Int]
DataRecord == [group : Groups, tried : SUBSET Peers, current : Peers \cup {None},
               held : BOOLEAN, probe : BOOLEAN, age : 0..FailTimeout + 1]

(* The records of the peers and the requests, and their ranges.              *)
RRTyped ==
    /\ peer \in [Peers -> PeerRecord] /\ rr \in [Reqs -> DataRecord]
    /\ \A p \in Peers : peer[p].effective_weight <= Weight[p] /\ peer[p].fails <= MaxFails[p]
    /\ \A r \in Reqs : rr[r].held => rr[r].current \in Peers

(* The constants.                                                            *)
LEMMA PeersFacts ==
    ASSUME PeersAssumption
    PROVE  /\ IsFiniteSet(Peers) /\ Peers \subseteq Nat /\ None \notin Peers /\ IsFiniteSet(Reqs)
           /\ FailTimeout \in Nat
           /\ \A p \in Peers : Weight[p] \in Nat \ {0} /\ MaxFails[p] \in Nat /\ MaxConns[p] \in Nat
           /\ Single => Peers = {1}
           /\ \A g : Members(g) \subseteq Peers /\ IsFiniteSet(Members(g))
<1>1. PICK n \in Nat \ {0} : Peers = 1..n
  <2>1. IsFiniteSet(Peers) /\ Peers # {} /\ Peers = 1..Cardinality(Peers)
    BY DEF PeersAssumption
  <2> HIDE DEF Peers
  <2>2. Cardinality(Peers) \in Nat
    BY <2>1, FS_CardinalityType
  <2> QED BY <2>1, <2>2
<1>2. IsFiniteSet(1..n) /\ Cardinality(1..n) = n
  <2>1. 1 \in Int /\ n \in Int
    OBVIOUS
  <2>2. IsFiniteSet(1..n) /\ Cardinality(1..n) = IF 1 > n THEN 0 ELSE n - 1 + 1
    BY <2>1, FS_Interval
  <2> QED BY <2>2
<1>3. Single => Peers = {1}
  BY <1>1, <1>2 DEF Single
<1>4. \A g : Members(g) \subseteq Peers
  BY DEF Members, PeersAssumption
<1>5. IsFiniteSet(Peers) /\ \A g : IsFiniteSet(Members(g))
  BY <1>1, <1>2, <1>4, FS_Subset
<1>6. /\ \A p \in Peers : Weight[p] \in Nat \ {0} /\ MaxFails[p] \in Nat /\ MaxConns[p] \in Nat
      /\ FailTimeout \in Nat /\ IsFiniteSet(Reqs)
  BY DEF PeersAssumption
<1> HIDE DEF Peers
<1>7. Peers \subseteq Nat /\ None \notin Peers
  BY <1>1 DEF None
<1> QED BY <1>3, <1>4, <1>5, <1>6, <1>7

(* The loop finds the first of the candidates whose weight is the greatest.  *)
LEMMA BestChosen ==
    ASSUME PeersAssumption, RRTyped, NEW C, C \subseteq Peers, C # {}
    PROVE  Best(C) \in C
<1> DEFINE w(p) == peer[p].current_weight + peer[p].effective_weight
           beats == {x \in C \X C : w(x[1]) > w(x[2]) \/ (w(x[1]) = w(x[2]) /\ x[1] < x[2])}
<1>1. \A p \in C : w(p) \in Int /\ p \in Nat
  BY PeersFacts DEF RRTyped, PeerRecord
<1>2. \A p, q \in C : <<p, q>> \in beats <=> w(p) > w(q) \/ (w(p) = w(q) /\ p < q)
  OBVIOUS
<1> HIDE DEF w, beats
<1>3. \A p, q, r \in C : <<p, q>> \in beats /\ <<q, r>> \in beats => <<p, r>> \in beats
  BY <1>1, <1>2
<1>4. \A p \in C : <<p, p>> \notin beats
  BY <1>1, <1>2
<1>5. IsFiniteSet(C)
  BY PeersFacts, FS_Subset
<1>6. PICK p \in C : \A q \in C : <<q, p>> \notin beats
  BY <1>3, <1>4, <1>5, Unbeaten
<1>7. ASSUME NEW q \in C PROVE w(p) > w(q) \/ (w(p) = w(q) /\ p <= q)
  <2>1. ~(w(q) > w(p) \/ (w(q) = w(p) /\ q < p))
    BY <1>2, <1>6
  <2>2. w(p) \in Int /\ w(q) \in Int /\ p \in Nat /\ q \in Nat
    BY <1>1
  <2> QED BY <2>1, <2>2
<1> QED BY <1>6, <1>7 DEF Best, w

(* The group a request ends in, and its candidates.                          *)
LEMMA GroupedData ==
    ASSUME PeersAssumption, NEW d \in DataRecord
    PROVE  /\ Grouped(d) \in DataRecord
           /\ Grouped(d).current = d.current /\ Grouped(d).held = d.held
           /\ Grouped(d).probe = d.probe /\ Grouped(d).age = d.age
           /\ \A g, tried : Candidates(g, tried) \subseteq Members(g)
           /\ \A g, tried : \A p \in Candidates(g, tried) : Eligible(p)
<1>1. Regroup(d) \in DataRecord /\ Regroup(d).current = d.current /\ Regroup(d).held = d.held
      /\ Regroup(d).probe = d.probe /\ Regroup(d).age = d.age
  BY DEF Regroup, DataRecord, Groups
<1>2. Grouped(d) = Regroup(d) \/ Grouped(d) = d
  BY DEF Grouped
<1> QED BY <1>1, <1>2 DEF Candidates

(* What happens to the records of the peers, field by field.                 *)
LEMMA CheckedRecord ==
    ASSUME PeersAssumption, NEW q \in PeerRecord
    PROVE  /\ Checked(q) \in PeerRecord
           /\ Checked(q).current_weight = q.current_weight
           /\ Checked(q).effective_weight = q.effective_weight
           /\ Checked(q).fails = q.fails /\ Checked(q).conns = q.conns
           /\ Checked(q).age = IF q.age > FailTimeout THEN 0 ELSE q.age
<1>1. FailTimeout \in Nat /\ 0 \in 0..FailTimeout + 1
  BY PeersFacts
<1>2. CASE q.age > FailTimeout
  <2>1. Checked(q) = [q EXCEPT !.age = 0, !.accessedEarlier = TRUE]
    BY <1>2 DEF Checked
  <2> QED BY <1>1, <1>2, <2>1 DEF PeerRecord
<1>3. CASE ~(q.age > FailTimeout)
  BY <1>3 DEF Checked
<1> QED BY <1>2, <1>3

LEMMA GainedRecord ==
    ASSUME PeersAssumption, NEW p \in Peers, NEW q \in PeerRecord, q.effective_weight <= Weight[p]
    PROVE  /\ Gained(q, p) \in PeerRecord
           /\ Gained(q, p).current_weight = q.current_weight + q.effective_weight
           /\ Gained(q, p).effective_weight <= Weight[p]
           /\ Gained(q, p).fails = q.fails /\ Gained(q, p).conns = q.conns
           /\ Gained(q, p).age = q.age
<1>1. Weight[p] \in Nat
  BY PeersFacts
<1>2. q.current_weight \in Int /\ q.effective_weight \in Nat
  BY DEF PeerRecord
<1> DEFINE ew == Recovered(q.effective_weight, p)
           cw == q.current_weight + q.effective_weight
<1>3. ew \in Nat /\ ew <= Weight[p] /\ cw \in Int
  BY <1>1, <1>2 DEF Recovered
<1>4. Gained(q, p) = [q EXCEPT !.current_weight = cw, !.effective_weight = ew]
  BY DEF Gained
<1> HIDE DEF ew, cw
<1>5. /\ Gained(q, p) \in PeerRecord
      /\ Gained(q, p).current_weight = cw /\ Gained(q, p).effective_weight = ew
      /\ Gained(q, p).fails = q.fails /\ Gained(q, p).conns = q.conns
      /\ Gained(q, p).age = q.age
  BY <1>3, <1>4 DEF PeerRecord
<1> QED BY <1>3, <1>5 DEF cw

LEMMA ChargedRecord ==
    ASSUME NEW p, NEW q \in PeerRecord, NEW total \in Int
    PROVE  /\ Charged(q, total, p) \in PeerRecord
           /\ Charged(q, total, p).current_weight = q.current_weight - total
           /\ Charged(q, total, p).effective_weight = q.effective_weight
           /\ Charged(q, total, p).fails = q.fails /\ Charged(q, total, p).age = q.age
           /\ Charged(q, total, p).conns = q.conns + 1
<1>1. q.current_weight - total \in Int /\ q.conns + 1 \in Int
  BY DEF PeerRecord
<1>2. Charged(q, total, p) = [q EXCEPT !.current_weight = q.current_weight - total,
                                       !.conns = q.conns + 1]
  BY DEF Charged, Paid
<1> QED BY <1>1, <1>2 DEF PeerRecord

(* The weights the candidates gain, and their sum.                           *)
Weights == [p \in Peers |-> peer[p].effective_weight]
Total(C) == SumFunctionOnSet(Weights, C)

(* The peers after the choice, field by field.                               *)
LEMMA ChosenPeers ==
    ASSUME PeersAssumption, RRTyped, NEW C, C \subseteq Peers, NEW b \in C,
           NEW new, new = Chosen(C, b)
    PROVE  /\ Total(C) \in Int
           /\ new \in [Peers -> PeerRecord]
           /\ \A p \in Peers :
                 /\ new[p].current_weight =
                      (IF p \in C THEN peer[p].current_weight + Weights[p]
                                  ELSE peer[p].current_weight)
                      - (IF p = b THEN Total(C) ELSE 0)
                 /\ new[p].effective_weight <= Weight[p]
                 /\ new[p].fails = peer[p].fails
                 /\ new[p].conns = IF p = b THEN peer[p].conns + 1 ELSE peer[p].conns
                 /\ new[p].age = IF p = b /\ peer[p].age > FailTimeout THEN 0 ELSE peer[p].age
<1> DEFINE e == [p \in Peers |-> peer[p].effective_weight]
           total == SumFunctionOnSet(e, C)
           added == [p \in Peers |-> IF p \in C THEN Gained(peer[p], p) ELSE peer[p]]
<1>1. \A p \in Peers : peer[p] \in PeerRecord /\ peer[p].effective_weight <= Weight[p]
  BY DEF RRTyped
<1>2. total \in Int
  <2>1. \A p \in C : e[p] \in Int
    BY <1>1 DEF PeerRecord
  <2>2. IsFiniteSet(C)
    BY PeersFacts, FS_Subset
  <2> QED BY <2>1, <2>2, SumFacts
<1>3. new = [added EXCEPT ![b] = Charged(Checked(added[b]), total, b)]
  BY DEF Chosen
<1>4. ASSUME NEW p \in Peers
      PROVE  /\ added[p] \in PeerRecord
             /\ added[p].current_weight = IF p \in C THEN peer[p].current_weight + e[p]
                                                     ELSE peer[p].current_weight
             /\ added[p].effective_weight <= Weight[p]
             /\ added[p].fails = peer[p].fails /\ added[p].conns = peer[p].conns
             /\ added[p].age = peer[p].age
  <2>1. CASE p \in C
    <3>1. added[p] = Gained(peer[p], p) /\ e[p] = peer[p].effective_weight
      BY <2>1
    <3> HIDE DEF added, e
    <3> QED BY <1>1, <2>1, <3>1, GainedRecord
  <2>2. CASE p \notin C
    <3>1. added[p] = peer[p]
      BY <2>2
    <3> QED BY <1>1, <2>2, <3>1
  <2> QED BY <2>1, <2>2
<1>5. added \in [Peers -> PeerRecord]
  BY <1>4
<1> DEFINE chk == Checked(added[b])
           chg == Charged(chk, total, b)
<1> HIDE DEF total, added, e
<1>6. /\ chk \in PeerRecord /\ chk.current_weight = added[b].current_weight
      /\ chk.effective_weight = added[b].effective_weight
      /\ chk.fails = added[b].fails /\ chk.conns = added[b].conns
      /\ chk.age = IF added[b].age > FailTimeout THEN 0 ELSE added[b].age
  BY <1>4, CheckedRecord
<1> HIDE DEF chk
<1>7. /\ chg \in PeerRecord /\ chg.current_weight = added[b].current_weight - total
      /\ chg.effective_weight = added[b].effective_weight
      /\ chg.fails = added[b].fails /\ chg.conns = added[b].conns + 1
      /\ chg.age = chk.age
  BY <1>2, <1>6, ChargedRecord
<1>8. new = [added EXCEPT ![b] = chg]
  BY <1>3 DEF chk
<1> HIDE DEF chg
<1>9. new \in [Peers -> PeerRecord] /\ new[b] = chg /\ \A p \in Peers : p # b => new[p] = added[p]
  BY <1>5, <1>7, <1>8
<1>10. ASSUME NEW p \in Peers
       PROVE  /\ new[p].current_weight =
                   (IF p \in C THEN peer[p].current_weight + e[p] ELSE peer[p].current_weight)
                   - (IF p = b THEN total ELSE 0)
              /\ new[p].effective_weight <= Weight[p]
              /\ new[p].fails = peer[p].fails
              /\ new[p].conns = IF p = b THEN peer[p].conns + 1 ELSE peer[p].conns
              /\ new[p].age = IF p = b /\ peer[p].age > FailTimeout THEN 0 ELSE peer[p].age
  <2>1. CASE p = b
    BY <1>4, <1>6, <1>7, <1>9, <2>1
  <2>2. CASE p # b
    <3>1. added[p].current_weight \in Int
      BY <1>4 DEF PeerRecord
    <3> QED BY <1>4, <1>9, <2>2, <3>1
  <2> QED BY <2>1, <2>2
<1> QED BY <1>2, <1>9, <1>10 DEF total, e, Total, Weights


(* The weights of each group sum to 0 after the choice as before: the one    *)
(* that is chosen pays what the candidates of its group gained.              *)
LEMMA ChosenBalance ==
    ASSUME PeersAssumption, RRTyped, WeightsBalance, NEW h \in Groups,
           NEW C, C \subseteq Members(h), NEW b \in C, peer' = Chosen(C, b)
    PROVE  WeightsBalance'
<1> SUFFICES ASSUME NEW g \in Groups
             PROVE  SumFunctionOnSet([p \in Peers |-> peer'[p].current_weight], Members(g)) = 0
  BY DEF WeightsBalance, Members
<1> DEFINE e == Weights
           total == Total(C)
           old == [p \in Peers |-> peer[p].current_weight]
           mid == [p \in Peers |-> IF p \in C THEN old[p] + e[p] ELSE old[p]]
           new == [p \in Peers |-> peer'[p].current_weight]
           M == Members(g)
<1>1. C \subseteq Peers /\ M \subseteq Peers /\ IsFiniteSet(M)
  BY PeersFacts
<1>2. \A p \in Peers : old[p] \in Int /\ e[p] \in Int /\ mid[p] \in Int
  BY DEF RRTyped, PeerRecord, Weights
<1>3. /\ total \in Int
      /\ \A p \in Peers : new[p] = mid[p] - (IF p = b THEN total ELSE 0)
  <2>1. /\ total \in Int
        /\ \A p \in Peers :
              peer'[p].current_weight =
                 (IF p \in C THEN peer[p].current_weight + e[p] ELSE peer[p].current_weight)
                 - (IF p = b THEN total ELSE 0)
    <3> DEFINE q == peer'
    <3>1. q = Chosen(C, b)
      OBVIOUS
    <3> HIDE DEF q
    <3>2. /\ total \in Int
          /\ \A p \in Peers :
                q[p].current_weight =
                   (IF p \in C THEN peer[p].current_weight + e[p] ELSE peer[p].current_weight)
                   - (IF p = b THEN total ELSE 0)
      BY <1>1, <3>1, ChosenPeers
    <3> QED BY <3>2 DEF q
  <2>2. \A p \in Peers : /\ new[p] = peer'[p].current_weight
                         /\ mid[p] = IF p \in C THEN peer[p].current_weight + e[p]
                                                ELSE peer[p].current_weight
    OBVIOUS
  <2> HIDE DEF e, total, new, mid
  <2> QED BY <2>1, <2>2
<1>4. SumFunctionOnSet(old, M) = 0
  BY DEF WeightsBalance
<1>5. \A p \in Peers : mid[p] = IF p \in C THEN old[p] + e[p] ELSE old[p]
  OBVIOUS
<1> HIDE DEF old, mid, new, e
<1>6. CASE g = h
  <2>1. SumFunctionOnSet(mid, M) = SumFunctionOnSet(old, M) + total
    <3>1. total = SumFunctionOnSet(e, C)
      BY DEF total, Total, e
    <3> HIDE DEF total
    <3> QED BY <1>1, <1>2, <1>5, <1>6, <3>1, SumPlus
  <2>2. SumFunctionOnSet(new, M) = SumFunctionOnSet(mid, M) - total
    <3>1. \A p \in M : mid[p] \in Int /\ new[p] = IF p = b THEN mid[p] - total ELSE mid[p]
      BY <1>1, <1>2, <1>3
    <3>2. b \in M
      BY <1>6
    <3> HIDE DEF total, M
    <3> QED BY <1>1, <1>3, <3>1, <3>2, SumPaid
  <2> QED BY <1>3, <1>4, <2>1, <2>2 DEF new
<1>7. CASE g # h
  <2>1. M \cap C = {}
    BY <1>7 DEF Members, Groups
  <2>2. \A p \in M : old[p] \in Int /\ new[p] = old[p]
    BY <1>1, <1>2, <1>3, <1>5, <2>1
  <2>3. SumFunctionOnSet(new, M) = SumFunctionOnSet(old, M)
    BY <1>1, <2>2, SumSame
  <2> QED BY <1>4, <2>3 DEF new
<1> QED BY <1>6, <1>7

(* What leaves the current weights alone leaves their sums alone.            *)
LEMMA SameBalance ==
    ASSUME WeightsBalance, \A p \in Peers : peer'[p].current_weight = peer[p].current_weight
    PROVE  WeightsBalance'
<1> SUFFICES ASSUME NEW g \in Groups
             PROVE  SumFunctionOnSet([p \in Peers |-> peer'[p].current_weight], Members(g)) = 0
  BY DEF WeightsBalance, Members
<1>1. [p \in Peers |-> peer'[p].current_weight] = [p \in Peers |-> peer[p].current_weight]
  OBVIOUS
<1>2. SumFunctionOnSet([p \in Peers |-> peer[p].current_weight], Members(g)) = 0
  BY DEF WeightsBalance
<1> QED BY <1>1, <1>2, Zenon

-----------------------------------------------------------------------------
(* The inductive invariant of the balancer                                   *)

Holders(p) == {r \in Reqs : rr[r].held /\ rr[r].current = p}

(* A request that checks a peer was sent there no later than the peer was    *)
(* last checked or failed.                                                   *)
ProbesDated == \A r \in Reqs : rr[r].held /\ rr[r].probe => peer[rr[r].current].age <= rr[r].age

(* Two that check the same peer are a fail_timeout apart.                    *)
ProbesPaired ==
    \A q, r \in Reqs :
        /\ rr[q].held /\ rr[q].probe /\ rr[r].held /\ rr[r].probe
        /\ rr[q].current = rr[r].current /\ q # r
        => rr[q].age > FailTimeout \/ rr[r].age > FailTimeout

RRInv == RRTyped /\ ConnsExact /\ WeightsBalance /\ ProbesDated /\ ProbesPaired

(* The holders of a peer are finitely many.                                  *)
LEMMA HoldersFinite ==
    ASSUME PeersAssumption
    PROVE  \A p : /\ IsFiniteSet(Holders(p)) /\ Cardinality(Holders(p)) \in Nat
                  /\ Cardinality(Holders(p)) <= Cardinality(Reqs)
<1>1. IsFiniteSet(Reqs) /\ \A p : Holders(p) \subseteq Reqs
  BY PeersFacts DEF Holders
<1> QED BY <1>1, FS_Subset, FS_CardinalityType

(* Connections are counted right as long as nobody takes or gives one back,  *)
LEMMA SameConns ==
    ASSUME ConnsExact,
           \A x \in Reqs : rr'[x].held = rr[x].held /\ (rr[x].held => rr'[x].current = rr[x].current),
           \A p \in Peers : peer'[p].conns = peer[p].conns
    PROVE  ConnsExact'
<1>1. \A p : Holders(p)' = Holders(p)
  BY DEF Holders
<1> QED BY <1>1 DEF ConnsExact, Holders

(* when a request takes a peer that is not full,                             *)
LEMMA MoreConns ==
    ASSUME PeersAssumption, ConnsExact, NEW r \in Reqs, ~rr[r].held, NEW b \in Peers,
           rr'[r].held, rr'[r].current = b, \A x \in Reqs : x # r => rr'[x] = rr[x],
           peer'[b].conns = peer[b].conns + 1, \A p \in Peers : p # b => peer'[p].conns = peer[p].conns,
           ~Full(b)
    PROVE  ConnsExact'
<1> SUFFICES ASSUME NEW p \in Peers
             PROVE  /\ peer'[p].conns = Cardinality(Holders(p)')
                    /\ MaxConns[p] > 0 => Cardinality(Holders(p)') <= MaxConns[p]
  BY DEF ConnsExact, Holders
<1>1. /\ peer[p].conns = Cardinality(Holders(p))
      /\ MaxConns[p] > 0 => Cardinality(Holders(p)) <= MaxConns[p]
  BY DEF ConnsExact, Holders
<1>2. IsFiniteSet(Holders(p)) /\ Cardinality(Holders(p)) \in Nat /\ MaxConns[p] \in Nat
  BY HoldersFinite, PeersFacts
<1>3. CASE p = b
  <2>1. r \notin Holders(p) /\ Holders(p)' = Holders(p) \cup {r}
    BY <1>3 DEF Holders
  <2>2. Cardinality(Holders(p)') = Cardinality(Holders(p)) + 1
    <3> DEFINE H == Holders(p)
    <3>1. IsFiniteSet(H) /\ r \notin H /\ Holders(p)' = H \cup {r}
      BY <1>2, <2>1
    <3> HIDE DEF H
    <3>2. Cardinality(H \cup {r}) = Cardinality(H) + 1
      BY <3>1, FS_AddElement
    <3> QED BY <3>1, <3>2 DEF H
  <2> QED BY <1>1, <1>2, <1>3, <2>2 DEF Full
<1>4. CASE p # b
  <2>1. Holders(p)' = Holders(p)
    BY <1>4 DEF Holders
  <2> QED BY <1>1, <1>4, <2>1
<1> QED BY <1>3, <1>4

(* and when it gives the peer back.                                          *)
LEMMA FewerConns ==
    ASSUME PeersAssumption, ConnsExact, NEW r \in Reqs, rr[r].held, ~rr'[r].held,
           NEW b \in Peers, rr[r].current = b, \A x \in Reqs : x # r => rr'[x] = rr[x],
           peer'[b].conns = peer[b].conns - 1, \A p \in Peers : p # b => peer'[p].conns = peer[p].conns
    PROVE  ConnsExact'
<1> SUFFICES ASSUME NEW p \in Peers
             PROVE  /\ peer'[p].conns = Cardinality(Holders(p)')
                    /\ MaxConns[p] > 0 => Cardinality(Holders(p)') <= MaxConns[p]
  BY DEF ConnsExact, Holders
<1>1. /\ peer[p].conns = Cardinality(Holders(p))
      /\ MaxConns[p] > 0 => Cardinality(Holders(p)) <= MaxConns[p]
  BY DEF ConnsExact, Holders
<1>2. IsFiniteSet(Holders(p)) /\ Cardinality(Holders(p)) \in Nat /\ MaxConns[p] \in Nat
  BY HoldersFinite, PeersFacts
<1>3. CASE p = b
  <2>1. r \in Holders(p) /\ Holders(p)' = Holders(p) \ {r}
    BY <1>3 DEF Holders
  <2>2. Cardinality(Holders(p)') = Cardinality(Holders(p)) - 1
    BY <1>2, <2>1, Smaller
  <2> QED BY <1>1, <1>2, <1>3, <2>2
<1>4. CASE p # b
  <2>1. Holders(p)' = Holders(p)
    BY <1>4 DEF Holders
  <2> QED BY <1>1, <1>4, <2>1
<1> QED BY <1>3, <1>4

-----------------------------------------------------------------------------
(* The steps of the balancer                                                 *)

(* The server a get chooses, and what it makes of the request's data.        *)
LEMMA GetPeerData ==
    ASSUME PeersAssumption, RRTyped, NEW r \in Reqs, GetPeer(r)
    PROVE  \E p \in Peers, h \in Groups, C \in SUBSET Peers :
              /\ C \subseteq Members(h) /\ p \in C /\ Eligible(p) /\ ~rr[r].held
              /\ peer' = IF Single THEN Asked ELSE Chosen(C, p)
              /\ rr' \in [Reqs -> DataRecord]
              /\ \A x \in Reqs : x # r => rr'[x] = rr[x]
              /\ rr'[r].current = p /\ rr'[r].held /\ rr'[r].age = 0
              /\ rr'[r].probe = (~Single /\ Disabled(p))
<1> DEFINE d == Grouped(rr[r])
           C == Candidates(d.group, d.tried)
           p == Best(C)
           pr == ~Single /\ Disabled(p)
           tr == IF Single THEN d.tried ELSE d.tried \cup {p}
           v == [d EXCEPT !.current = p, !.held = TRUE, !.age = 0, !.tried = tr, !.probe = pr]
<1>1. ~rr[r].held /\ C # {} /\ rr' = [rr EXCEPT ![r] = v]
      /\ peer' = IF Single THEN Asked ELSE Chosen(C, p)
  BY DEF GetPeer
<1>2. d \in DataRecord /\ C \subseteq Members(d.group) /\ \A q \in C : Eligible(q)
  BY GroupedData DEF RRTyped
<1>3. d.group \in Groups /\ d.tried \in SUBSET Peers /\ Members(d.group) \subseteq Peers
  BY <1>2, PeersFacts DEF DataRecord
<1>4. p \in C
  BY <1>1, <1>2, <1>3, BestChosen
<1>5. pr \in BOOLEAN /\ 0 \in 0..FailTimeout + 1 /\ FailTimeout \in Nat
  BY PeersFacts
<1> HIDE DEF C, d, p, pr
<1>6. p \in Peers /\ tr \in SUBSET Peers
  BY <1>2, <1>3, <1>4
<1> HIDE DEF tr
<1>7. v \in DataRecord /\ v.current = p /\ v.held /\ v.age = 0 /\ v.probe = pr
  BY <1>2, <1>5, <1>6 DEF DataRecord
<1> HIDE DEF v
<1>8. rr' \in [Reqs -> DataRecord] /\ rr'[r] = v /\ \A x \in Reqs : x # r => rr'[x] = rr[x]
  BY <1>1, <1>7 DEF RRTyped
<1>9. /\ C \subseteq Members(d.group) /\ p \in C /\ Eligible(p) /\ ~rr[r].held
      /\ peer' = IF Single THEN Asked ELSE Chosen(C, p)
      /\ rr' \in [Reqs -> DataRecord]
      /\ \A x \in Reqs : x # r => rr'[x] = rr[x]
      /\ rr'[r].current = p /\ rr'[r].held /\ rr'[r].age = 0
      /\ rr'[r].probe = (~Single /\ Disabled(p))
  BY <1>1, <1>2, <1>4, <1>7, <1>8 DEF pr
<1>10. C \in SUBSET Peers
  BY <1>2, <1>3
<1> QED BY <1>3, <1>6, <1>9, <1>10, Zenon

(* What a get makes of the peers.                                            *)
LEMMA GetPeerPeers ==
    ASSUME PeersAssumption, RRTyped, WeightsBalance, NEW p \in Peers, NEW h \in Groups,
           NEW C \in SUBSET Peers, C \subseteq Members(h), p \in C,
           peer' = IF Single THEN Asked ELSE Chosen(C, p)
    PROVE  /\ peer' \in [Peers -> PeerRecord]
           /\ \A q \in Peers :
                 /\ peer'[q].effective_weight <= Weight[q]
                 /\ peer'[q].fails = peer[q].fails
                 /\ peer'[q].conns = IF q = p THEN peer[q].conns + 1 ELSE peer[q].conns
                 /\ peer'[q].age = IF ~Single /\ q = p /\ peer[q].age > FailTimeout
                                   THEN 0 ELSE peer[q].age
           /\ WeightsBalance'
<1>1. CASE Single
  <2>1. Peers = {1} /\ p = 1
    BY <1>1, PeersFacts
  <2>2. peer[1] \in PeerRecord /\ peer[1].conns + 1 \in Int
    BY <2>1 DEF RRTyped, PeerRecord
  <2> DEFINE v == [peer[1] EXCEPT !.conns = peer[1].conns + 1]
  <2>3. peer' = [peer EXCEPT ![1] = v]
    BY <1>1 DEF Asked
  <2>4. /\ v \in PeerRecord /\ v.effective_weight = peer[1].effective_weight
        /\ v.fails = peer[1].fails /\ v.conns = peer[1].conns + 1 /\ v.age = peer[1].age
        /\ v.current_weight = peer[1].current_weight
    BY <2>2 DEF PeerRecord
  <2> HIDE DEF v
  <2>5. peer' \in [Peers -> PeerRecord] /\ peer'[1] = v
    BY <2>1, <2>3, <2>4 DEF RRTyped
  <2>6. \A q \in Peers : peer'[q].current_weight = peer[q].current_weight
    BY <2>1, <2>4, <2>5
  <2>7. WeightsBalance'
    BY <2>6, SameBalance
  <2> QED BY <1>1, <2>1, <2>4, <2>5, <2>7 DEF RRTyped
<1>2. CASE ~Single
  <2>1. C \subseteq Members(h) /\ C \subseteq Peers
    BY PeersFacts
  <2>2. peer' = Chosen(C, p)
    BY <1>2
  <2>3. WeightsBalance'
    BY <2>1, <2>2, ChosenBalance
  <2> DEFINE new == peer'
  <2>4. new = Chosen(C, p)
    BY <2>2
  <2> HIDE DEF new
  <2>5. /\ new \in [Peers -> PeerRecord]
        /\ \A q \in Peers :
              /\ new[q].effective_weight <= Weight[q]
              /\ new[q].fails = peer[q].fails
              /\ new[q].conns = IF q = p THEN peer[q].conns + 1 ELSE peer[q].conns
              /\ new[q].age = IF q = p /\ peer[q].age > FailTimeout THEN 0 ELSE peer[q].age
    BY <2>1, <2>4, ChosenPeers
  <2> QED BY <1>2, <2>3, <2>5 DEF new
<1> QED BY <1>1, <1>2

LEMMA GetPeerStep ==
    ASSUME PeersAssumption, RRInv, NEW r \in Reqs, GetPeer(r)
    PROVE  RRInv'
<1> RRTyped /\ ConnsExact /\ WeightsBalance /\ ProbesDated /\ ProbesPaired
  BY DEF RRInv
<1>1. PICK p \in Peers, h \in Groups, C \in SUBSET Peers :
              /\ C \subseteq Members(h) /\ p \in C /\ Eligible(p) /\ ~rr[r].held
              /\ peer' = IF Single THEN Asked ELSE Chosen(C, p)
              /\ rr' \in [Reqs -> DataRecord]
              /\ \A x \in Reqs : x # r => rr'[x] = rr[x]
              /\ rr'[r].current = p /\ rr'[r].held /\ rr'[r].age = 0
              /\ rr'[r].probe = (~Single /\ Disabled(p))
  BY GetPeerData
<1>2. /\ peer' \in [Peers -> PeerRecord]
      /\ \A q \in Peers :
            /\ peer'[q].effective_weight <= Weight[q]
            /\ peer'[q].fails = peer[q].fails
            /\ peer'[q].conns = IF q = p THEN peer[q].conns + 1 ELSE peer[q].conns
            /\ peer'[q].age = IF ~Single /\ q = p /\ peer[q].age > FailTimeout
                              THEN 0 ELSE peer[q].age
      /\ WeightsBalance'
  BY <1>1, GetPeerPeers
<1>3. RRTyped'
  BY <1>1, <1>2 DEF RRTyped
<1>4. ConnsExact'
  <2>1. ~Full(p)
    BY <1>1 DEF Eligible
  <2> QED BY <1>1, <1>2, <2>1, MoreConns
<1>5. ASSUME ~Single, Disabled(p) PROVE peer[p].age > FailTimeout
  <2>1. peer[p].age \in 0..FailTimeout + 1 /\ FailTimeout \in Nat
    BY PeersFacts DEF RRTyped, PeerRecord
  <2> QED BY <1>1, <1>5, <2>1 DEF Eligible
<1>6. \A q \in Peers : peer[q].age \in Nat /\ peer'[q].age \in Nat /\ peer'[q].age <= peer[q].age
  BY <1>2, PeersFacts DEF RRTyped, PeerRecord
<1>7. \A x \in Reqs : rr[x].age \in Nat /\ (rr[x].held => rr[x].current \in Peers)
  BY PeersFacts DEF RRTyped, DataRecord
<1>8. ProbesDated'
  <2> SUFFICES ASSUME NEW x \in Reqs, rr'[x].held, rr'[x].probe
               PROVE  peer'[rr'[x].current].age <= rr'[x].age
    BY DEF ProbesDated
  <2>1. CASE x = r
    <3>1. peer'[p].age = 0
      BY <1>1, <1>2, <1>5, <2>1
    <3> QED BY <1>1, <2>1, <3>1
  <2>2. CASE x # r
    <3>1. rr'[x] = rr[x] /\ peer[rr[x].current].age <= rr[x].age /\ rr[x].current \in Peers
      BY <1>1, <1>7, <2>2 DEF ProbesDated
    <3>2. peer'[rr[x].current].age <= peer[rr[x].current].age
          /\ peer[rr[x].current].age \in Nat /\ peer'[rr[x].current].age \in Nat
      BY <1>6, <3>1
    <3> QED BY <1>7, <3>1, <3>2
  <2> QED BY <2>1, <2>2
<1>9. ASSUME NEW x \in Reqs, x # r, rr'[x].held, rr'[x].probe, rr'[r].probe,
             rr'[x].current = rr'[r].current
      PROVE  rr'[x].age > FailTimeout
  <2>1. rr'[x] = rr[x] /\ rr[x].current = p /\ peer[p].age > FailTimeout
    BY <1>1, <1>5, <1>9
  <2>2. peer[p].age <= rr[x].age
    BY <1>9, <2>1 DEF ProbesDated
  <2>3. peer[p].age \in Nat /\ rr[x].age \in Nat /\ FailTimeout \in Nat
    BY <1>6, <1>7, PeersFacts
  <2> QED BY <2>1, <2>2, <2>3
<1>10. ProbesPaired'
  <2> SUFFICES ASSUME NEW x \in Reqs, NEW y \in Reqs, x # y,
                      rr'[x].held, rr'[x].probe, rr'[y].held, rr'[y].probe,
                      rr'[x].current = rr'[y].current
               PROVE  rr'[x].age > FailTimeout \/ rr'[y].age > FailTimeout
    BY DEF ProbesPaired
  <2>1. CASE x = r
    BY <1>9, <2>1
  <2>2. CASE y = r
    BY <1>9, <2>2
  <2>3. CASE x # r /\ y # r
    BY <1>1, <2>3 DEF ProbesPaired
  <2> QED BY <2>1, <2>2, <2>3
<1> QED BY <1>2, <1>3, <1>4, <1>8, <1>10 DEF RRInv

(* A request that holds no peer before and after changes nothing but its     *)
(* own data.                                                                 *)
LEMMA LooseStep ==
    ASSUME PeersAssumption, RRInv, NEW r \in Reqs, ~rr[r].held, peer' = peer,
           rr' \in [Reqs -> DataRecord], ~rr'[r].held, \A x \in Reqs : x # r => rr'[x] = rr[x]
    PROVE  RRInv'
<1> RRTyped /\ ConnsExact /\ WeightsBalance /\ ProbesDated /\ ProbesPaired
  BY DEF RRInv
<1>1. \A x \in Reqs : rr'[x].held = rr[x].held /\ (rr[x].held => rr'[x] = rr[x])
  <2>1. rr[r].held \in BOOLEAN /\ rr'[r].held \in BOOLEAN
    BY DEF RRTyped, DataRecord
  <2> QED BY <2>1
<1>2. RRTyped'
  BY <1>1 DEF RRTyped
<1>3. ConnsExact'
  BY <1>1, SameConns
<1>4. WeightsBalance'
  BY SameBalance
<1>5. ProbesDated'
  BY <1>1 DEF ProbesDated
<1>6. ProbesPaired'
  BY <1>1 DEF ProbesPaired
<1> QED BY <1>2, <1>3, <1>4, <1>5, <1>6 DEF RRInv

LEMMA FreshDataTyped ==
    ASSUME PeersAssumption
    PROVE  FreshData \in DataRecord /\ ~FreshData.held
<1> FailTimeout \in Nat
  BY PeersFacts
<1> QED BY DEF FreshData, DataRecord, Groups

LEMMA GetBusyStep ==
    ASSUME PeersAssumption, RRInv, NEW r \in Reqs, GetBusy(r)
    PROVE  RRInv'
<1>1. rr \in [Reqs -> DataRecord]
  BY DEF RRInv, RRTyped
<1>2. Grouped(rr[r]) \in DataRecord /\ Grouped(rr[r]).held = rr[r].held
  BY <1>1, GroupedData
<1>3. ~rr[r].held /\ rr' = [rr EXCEPT ![r] = Grouped(rr[r])] /\ peer' = peer
  BY DEF GetBusy
<1>4. rr' \in [Reqs -> DataRecord] /\ ~rr'[r].held /\ \A x \in Reqs : x # r => rr'[x] = rr[x]
  BY <1>1, <1>2, <1>3
<1> QED BY <1>3, <1>4, LooseStep

LEMMA InitPeerStep ==
    ASSUME PeersAssumption, RRInv, NEW r \in Reqs, InitPeer(r)
    PROVE  RRInv'
<1>1. rr \in [Reqs -> DataRecord]
  BY DEF RRInv, RRTyped
<1>2. ~rr[r].held /\ rr' = [rr EXCEPT ![r] = FreshData] /\ peer' = peer
  BY DEF InitPeer
<1>3. rr' \in [Reqs -> DataRecord] /\ ~rr'[r].held /\ \A x \in Reqs : x # r => rr'[x] = rr[x]
  BY <1>1, <1>2, FreshDataTyped
<1> QED BY <1>2, <1>3, LooseStep

(* The record of a peer that is given back.                                  *)
LEMMA ReleasedRecord ==
    ASSUME PeersAssumption, NEW p \in Peers, NEW q \in PeerRecord,
           q.effective_weight <= Weight[p], q.fails <= MaxFails[p], NEW failed
    PROVE  /\ Released(q, p, failed) \in PeerRecord
           /\ Released(q, p, failed).current_weight = q.current_weight
           /\ Released(q, p, failed).effective_weight <= Weight[p]
           /\ Released(q, p, failed).fails <= MaxFails[p]
           /\ Released(q, p, failed).conns = q.conns - 1
           /\ Released(q, p, failed).age <= q.age
<1> DEFINE a == Answered(q, p, failed)
<1>1. Weight[p] \in Nat \ {0} /\ MaxFails[p] \in Nat /\ FailTimeout \in Nat
  BY PeersFacts
<1>2. /\ q.effective_weight \in Nat /\ q.fails \in Nat /\ q.age \in Nat /\ q.conns \in Int
      /\ 0 \in 0..FailTimeout + 1 /\ 0 <= q.age
  BY <1>1 DEF PeerRecord
<1>3. /\ Failed(q, p) \in PeerRecord /\ Failed(q, p).current_weight = q.current_weight
      /\ Failed(q, p).effective_weight <= Weight[p] /\ Failed(q, p).fails <= MaxFails[p]
      /\ Failed(q, p).conns = q.conns /\ Failed(q, p).age <= q.age
  <2> DEFINE f == IF q.fails < MaxFails[p] THEN q.fails + 1 ELSE q.fails
             e == Lowered(q.effective_weight, p)
  <2>1. f \in Nat /\ f <= MaxFails[p]
    BY <1>1, <1>2
  <2>2. e \in Nat /\ e <= Weight[p]
    <3>1. CASE MaxFails[p] = 0
      BY <1>2, <3>1 DEF Lowered
    <3>2. CASE MaxFails[p] # 0
      <4> DEFINE k == Weight[p] \div MaxFails[p]
      <4>1. k \in Nat
        BY <1>1, <3>2
      <4>2. e = IF q.effective_weight - k < 0 THEN 0 ELSE q.effective_weight - k
        BY <3>2 DEF Lowered
      <4> HIDE DEF k, e
      <4> QED BY <1>1, <1>2, <4>1, <4>2
    <3> QED BY <3>1, <3>2
  <2>3. Failed(q, p) = [q EXCEPT !.fails = f, !.age = 0, !.accessedEarlier = FALSE,
                                 !.effective_weight = e]
    BY DEF Failed
  <2> HIDE DEF f, e
  <2> QED BY <1>2, <2>1, <2>2, <2>3 DEF PeerRecord
<1>4. /\ Passed(q) \in PeerRecord /\ Passed(q).current_weight = q.current_weight
      /\ Passed(q).effective_weight <= Weight[p] /\ Passed(q).fails <= MaxFails[p]
      /\ Passed(q).conns = q.conns /\ Passed(q).age <= q.age
  <2>1. CASE q.accessedEarlier
    <3>1. Passed(q) = [q EXCEPT !.fails = 0]
      BY <2>1 DEF Passed
    <3> QED BY <1>1, <1>2, <3>1 DEF PeerRecord
  <2>2. CASE ~q.accessedEarlier
    BY <1>2, <2>2 DEF Passed
  <2> QED BY <2>1, <2>2
<1>5. a = q \/ a = Failed(q, p) \/ a = Passed(q)
  BY DEF Answered
<1>6. /\ a \in PeerRecord /\ a.current_weight = q.current_weight
      /\ a.effective_weight <= Weight[p] /\ a.fails <= MaxFails[p]
      /\ a.conns = q.conns /\ a.age <= q.age
  <2> HIDE DEF a
  <2>1. CASE a = q
    BY <1>2, <2>1
  <2>2. CASE a = Failed(q, p)
    BY <1>3, <2>2
  <2>3. CASE a = Passed(q)
    BY <1>4, <2>3
  <2> QED BY <1>5, <2>1, <2>2, <2>3
<1>7. Released(q, p, failed) = [a EXCEPT !.conns = a.conns - 1]
  BY DEF Released
<1> HIDE DEF a
<1>8. a.conns - 1 \in Int
  BY <1>2, <1>6
<1> QED BY <1>6, <1>7, <1>8 DEF PeerRecord

LEMMA FreePeerStep ==
    ASSUME PeersAssumption, RRInv, NEW r \in Reqs, NEW failed, NEW last, FreePeer(r, failed, last)
    PROVE  RRInv'
<1> RRTyped /\ ConnsExact /\ WeightsBalance /\ ProbesDated /\ ProbesPaired
  BY DEF RRInv
<1> DEFINE b == rr[r].current
           q == Released(peer[b], b, failed)
           d == IF last THEN FreshData ELSE [rr[r] EXCEPT !.held = FALSE, !.probe = FALSE, !.age = 0]
<1>1. rr[r].held /\ peer' = [peer EXCEPT ![b] = q] /\ rr' = [rr EXCEPT ![r] = d]
  BY DEF FreePeer
<1>2. b \in Peers /\ peer[b] \in PeerRecord
      /\ peer[b].effective_weight <= Weight[b] /\ peer[b].fails <= MaxFails[b]
  BY <1>1 DEF RRTyped
<1>3. d \in DataRecord /\ ~d.held
  <2>1. 0 \in 0..FailTimeout + 1
    BY PeersFacts
  <2>2. [rr[r] EXCEPT !.held = FALSE, !.probe = FALSE, !.age = 0] \in DataRecord
        /\ ~[rr[r] EXCEPT !.held = FALSE, !.probe = FALSE, !.age = 0].held
    BY <2>1 DEF RRTyped, DataRecord
  <2> QED BY <2>2, FreshDataTyped
<1>4. /\ q \in PeerRecord /\ q.current_weight = peer[b].current_weight
      /\ q.effective_weight <= Weight[b] /\ q.fails <= MaxFails[b]
      /\ q.conns = peer[b].conns - 1 /\ q.age <= peer[b].age
  BY <1>2, ReleasedRecord
<1> HIDE DEF b, q, d
<1>5. rr' \in [Reqs -> DataRecord] /\ ~rr'[r].held /\ \A x \in Reqs : x # r => rr'[x] = rr[x]
  BY <1>1, <1>3 DEF RRTyped
<1>6. peer' \in [Peers -> PeerRecord] /\ peer'[b] = q /\ \A p \in Peers : p # b => peer'[p] = peer[p]
  BY <1>1, <1>2, <1>4 DEF RRTyped
<1>7. RRTyped'
  BY <1>4, <1>5, <1>6 DEF RRTyped
<1>8. ConnsExact'
  <2>1. rr[r].current = b
    BY DEF b
  <2> QED BY <1>1, <1>2, <1>4, <1>5, <1>6, <2>1, FewerConns
<1>9. WeightsBalance'
  BY <1>4, <1>6, SameBalance
<1>10. \A p \in Peers : peer[p].age \in Nat /\ peer'[p].age \in Nat /\ peer'[p].age <= peer[p].age
  <2>1. FailTimeout \in Nat
    BY PeersFacts
  <2> QED BY <1>4, <1>6, <2>1 DEF RRTyped, PeerRecord
<1>11. ProbesDated'
  <2> SUFFICES ASSUME NEW x \in Reqs, rr'[x].held, rr'[x].probe
               PROVE  peer'[rr'[x].current].age <= rr'[x].age
    BY DEF ProbesDated
  <2>1. x # r /\ rr'[x] = rr[x]
    BY <1>5
  <2>2. rr[x].current \in Peers /\ peer[rr[x].current].age <= rr[x].age
    BY <2>1 DEF ProbesDated, RRTyped
  <2>3. rr[x].age \in Nat
    BY PeersFacts DEF RRTyped, DataRecord
  <2>4. /\ peer'[rr[x].current].age <= peer[rr[x].current].age
        /\ peer'[rr[x].current].age \in Nat /\ peer[rr[x].current].age \in Nat
    BY <1>10, <2>2
  <2> QED BY <2>1, <2>2, <2>3, <2>4
<1>12. ProbesPaired'
  BY <1>5 DEF ProbesPaired
<1> QED BY <1>7, <1>8, <1>9, <1>11, <1>12 DEF RRInv

(* A second makes every age older, in the same order.                        *)
LEMMA OlderAges ==
    ASSUME PeersAssumption, NEW a \in 0..FailTimeout + 1, NEW b \in 0..FailTimeout + 1
    PROVE  /\ Older(a) \in 0..FailTimeout + 1
           /\ a <= b => Older(a) <= Older(b)
           /\ a > FailTimeout => Older(a) > FailTimeout
<1> FailTimeout \in Nat
  BY PeersFacts
<1> QED BY DEF Older

LEMMA TickStep ==
    ASSUME PeersAssumption, RRInv, Tick
    PROVE  RRInv'
<1> RRTyped /\ ConnsExact /\ WeightsBalance /\ ProbesDated /\ ProbesPaired
  BY DEF RRInv
<1>1. ASSUME NEW p \in Peers
      PROVE  /\ peer'[p] \in PeerRecord /\ peer'[p].age = Older(peer[p].age)
             /\ peer'[p].current_weight = peer[p].current_weight
             /\ peer'[p].effective_weight = peer[p].effective_weight
             /\ peer'[p].fails = peer[p].fails /\ peer'[p].conns = peer[p].conns
  <2>1. peer[p] \in PeerRecord /\ peer[p].age \in 0..FailTimeout + 1
    BY DEF RRTyped, PeerRecord
  <2>2. Older(peer[p].age) \in 0..FailTimeout + 1
    BY <2>1, OlderAges
  <2>3. peer'[p] = [peer[p] EXCEPT !.age = Older(peer[p].age)]
    BY DEF Tick
  <2> QED BY <2>1, <2>2, <2>3 DEF PeerRecord
<1>2. ASSUME NEW x \in Reqs
      PROVE  /\ rr'[x] \in DataRecord
             /\ rr'[x].held = rr[x].held /\ rr'[x].probe = rr[x].probe
             /\ rr'[x].current = rr[x].current
             /\ rr[x].held => rr'[x].age = Older(rr[x].age)
  <2>1. rr[x] \in DataRecord /\ rr[x].age \in 0..FailTimeout + 1
    BY DEF RRTyped, DataRecord
  <2>2. Older(rr[x].age) \in 0..FailTimeout + 1
    BY <2>1, OlderAges
  <2>3. rr'[x] = IF rr[x].held THEN [rr[x] EXCEPT !.age = Older(rr[x].age)] ELSE rr[x]
    BY DEF Tick
  <2>4. CASE rr[x].held
    BY <2>1, <2>2, <2>3, <2>4 DEF DataRecord
  <2>5. CASE ~rr[x].held
    BY <2>1, <2>3, <2>5
  <2> QED BY <2>4, <2>5
<1>3. peer' \in [Peers -> PeerRecord] /\ rr' \in [Reqs -> DataRecord]
  <2>1. peer' = [p \in Peers |-> peer'[p]] /\ rr' = [x \in Reqs |-> rr'[x]]
    BY DEF Tick
  <2> QED BY <1>1, <1>2, <2>1
<1>4. RRTyped'
  BY <1>1, <1>2, <1>3 DEF RRTyped
<1>5. ConnsExact'
  BY <1>1, <1>2, SameConns
<1>6. WeightsBalance'
  BY <1>1, SameBalance
<1>7. \A p \in Peers : peer[p].age \in 0..FailTimeout + 1
  BY DEF RRTyped, PeerRecord
<1>8. \A x \in Reqs : rr[x].age \in 0..FailTimeout + 1 /\ (rr[x].held => rr[x].current \in Peers)
  BY DEF RRTyped, DataRecord
<1>9. ProbesDated'
  <2> SUFFICES ASSUME NEW x \in Reqs, rr'[x].held, rr'[x].probe
               PROVE  peer'[rr'[x].current].age <= rr'[x].age
    BY DEF ProbesDated
  <2>1. rr[x].held /\ rr[x].current \in Peers /\ peer[rr[x].current].age <= rr[x].age
        /\ rr'[x].current = rr[x].current /\ rr'[x].age = Older(rr[x].age)
    BY <1>2, <1>8 DEF ProbesDated
  <2>2. peer'[rr[x].current].age = Older(peer[rr[x].current].age)
    BY <1>1, <2>1
  <2>3. Older(peer[rr[x].current].age) <= Older(rr[x].age)
    BY <1>7, <1>8, <2>1, OlderAges
  <2> QED BY <2>1, <2>2, <2>3
<1>10. ProbesPaired'
  <2> SUFFICES ASSUME NEW x \in Reqs, NEW y \in Reqs, x # y,
                      rr'[x].held, rr'[x].probe, rr'[y].held, rr'[y].probe,
                      rr'[x].current = rr'[y].current
               PROVE  rr'[x].age > FailTimeout \/ rr'[y].age > FailTimeout
    BY DEF ProbesPaired
  <2>1. rr[x].age > FailTimeout \/ rr[y].age > FailTimeout
    BY <1>2 DEF ProbesPaired
  <2>2. rr'[x].age = Older(rr[x].age) /\ rr'[y].age = Older(rr[y].age)
    BY <1>2
  <2> QED BY <1>8, <2>1, <2>2, OlderAges
<1> QED BY <1>4, <1>5, <1>6, <1>9, <1>10 DEF RRInv

LEMMA RRInitInv ==
    ASSUME PeersAssumption, RRInit
    PROVE  RRInv
<1>1. FailTimeout \in Nat /\ \A p \in Peers : Weight[p] \in Nat \ {0} /\ MaxFails[p] \in Nat
                             /\ MaxConns[p] \in Nat
  BY PeersFacts
<1>2. \A p \in Peers : /\ FreshPeer(p) \in PeerRecord /\ FreshPeer(p).current_weight = 0
                       /\ FreshPeer(p).conns = 0
                       /\ FreshPeer(p).effective_weight <= Weight[p]
                       /\ FreshPeer(p).fails <= MaxFails[p]
  BY <1>1 DEF FreshPeer, PeerRecord
<1>3. peer = [p \in Peers |-> FreshPeer(p)] /\ rr = [r \in Reqs |-> FreshData]
  BY DEF RRInit
<1>4. \A r \in Reqs : rr[r] \in DataRecord /\ ~rr[r].held
  BY <1>3, FreshDataTyped
<1>5. RRTyped
  BY <1>2, <1>3, <1>4 DEF RRTyped
<1>6. ConnsExact
  <2>1. \A p \in Peers : Holders(p) = {} /\ peer[p].conns = 0
    BY <1>2, <1>3, <1>4 DEF Holders
  <2>2. Cardinality({}) = 0
    BY FS_EmptySet
  <2>3. \A p \in Peers : Cardinality(Holders(p)) = 0
    BY <2>1, <2>2
  <2> QED BY <1>1, <2>1, <2>3 DEF ConnsExact, Holders
<1>7. WeightsBalance
  <2> SUFFICES ASSUME NEW g \in Groups
               PROVE  SumFunctionOnSet([p \in Peers |-> peer[p].current_weight], Members(g)) = 0
    BY DEF WeightsBalance
  <2> DEFINE f == [p \in Peers |-> peer[p].current_weight]
             M == Members(g)
  <2>1. IsFiniteSet(M) /\ M \subseteq Peers
    BY PeersFacts
  <2>2. \A p \in M : f[p] = 0
    BY <1>2, <1>3, <2>1
  <2> HIDE DEF f, M
  <2>3. SumFunctionOnSet(f, M) = 0
    <3>1. \A p \in M : f[p] \in Int /\ f[p] \in Int
                       /\ f[p] = IF p \in M THEN f[p] + f[p] ELSE f[p]
      BY <2>2
    <3>2. SumFunctionOnSet(f, M) = SumFunctionOnSet(f, M) + SumFunctionOnSet(f, M)
      BY <2>1, <3>1, SumPlus
    <3>3. SumFunctionOnSet(f, M) \in Int
      BY <2>1, <3>1, SumFacts
    <3>4. \A x \in Int : x = x + x => x = 0
      OBVIOUS
    <3> QED BY <3>2, <3>3, <3>4, Zenon
  <2> QED BY <2>3 DEF f, M
<1>8. ProbesDated /\ ProbesPaired
  BY <1>4 DEF ProbesDated, ProbesPaired
<1> QED BY <1>5, <1>6, <1>7, <1>8 DEF RRInv

LEMMA RRStep ==
    ASSUME PeersAssumption, RRInv, [RRNext]_rrvars
    PROVE  RRInv'
<1>1. CASE UNCHANGED rrvars
  BY <1>1 DEF rrvars, RRInv, RRTyped, ConnsExact, WeightsBalance, ProbesDated, ProbesPaired,
              Members
<1>2. CASE RRNext
  <2>1. ASSUME NEW r \in Reqs, GetPeer(r) PROVE RRInv'
    BY <2>1, GetPeerStep
  <2>2. ASSUME NEW r \in Reqs, GetBusy(r) PROVE RRInv'
    BY <2>2, GetBusyStep
  <2>3. ASSUME NEW r \in Reqs, InitPeer(r) PROVE RRInv'
    BY <2>3, InitPeerStep
  <2>4. ASSUME NEW r \in Reqs, NEW failed, NEW last, FreePeer(r, failed, last) PROVE RRInv'
    BY <2>4, FreePeerStep
  <2>5. ASSUME Tick PROVE RRInv'
    BY <2>5, TickStep
  <2> QED BY <1>2, <2>1, <2>2, <2>3, <2>4, <2>5 DEF RRNext
<1> QED BY <1>1, <1>2

(* The inductive invariant gives the properties: the ranges of the type      *)
(* invariant,                                                                *)
LEMMA RRTypes ==
    ASSUME PeersAssumption, RRInv
    PROVE  RRTypeOK
<1> RRTyped /\ ConnsExact
  BY DEF RRInv
<1>1. ASSUME NEW p \in Peers PROVE peer[p].conns \in 0..Cardinality(Reqs)
  <2>1. peer[p].conns = Cardinality(Holders(p))
    BY DEF ConnsExact, Holders
  <2>2. IsFiniteSet(Reqs) /\ Holders(p) \subseteq Reqs
    BY PeersFacts DEF Holders
  <2>3. Cardinality(Holders(p)) \in Nat /\ Cardinality(Reqs) \in Nat
        /\ Cardinality(Holders(p)) <= Cardinality(Reqs)
    BY <2>2, HoldersFinite, FS_Subset, FS_CardinalityType
  <2> QED BY <2>1, <2>3
<1>2. ASSUME NEW p \in Peers
      PROVE  /\ peer[p].current_weight \in Int /\ peer[p].effective_weight \in 0..Weight[p]
             /\ peer[p].fails \in 0..MaxFails[p] /\ peer[p].age \in 0..FailTimeout + 1
             /\ peer[p].accessedEarlier \in BOOLEAN
  <2>1. Weight[p] \in Nat /\ MaxFails[p] \in Nat
    BY PeersFacts
  <2> QED BY <2>1 DEF RRTyped, PeerRecord
<1> QED BY <1>1, <1>2 DEF RRTypeOK, RRTyped, DataRecord

(* and the single probe of a peer that was taken out.                        *)
LEMMA RRProbes ==
    ASSUME PeersAssumption, RRInv
    PROVE  ProbesApart
<1> SUFFICES ASSUME NEW p \in Peers
             PROVE  Cardinality({r \in Reqs : /\ rr[r].held /\ rr[r].probe
                                              /\ rr[r].current = p
                                              /\ rr[r].age <= FailTimeout}) <= 1
  BY DEF ProbesApart
<1> DEFINE S == {r \in Reqs : /\ rr[r].held /\ rr[r].probe /\ rr[r].current = p
                              /\ rr[r].age <= FailTimeout}
<1>1. \A q, r \in S : q = r
  <2>1. \A r \in Reqs : rr[r].age \in Nat /\ FailTimeout \in Nat
    BY PeersFacts DEF RRInv, RRTyped, DataRecord
  <2> QED BY <2>1 DEF RRInv, ProbesPaired
<1> HIDE DEF S
<1>2. CASE S = {}
  BY <1>2, FS_EmptySet DEF S
<1>3. CASE S # {}
  <2>1. PICK r \in S : TRUE
    BY <1>3
  <2>2. S = {r}
    BY <1>1, <2>1
  <2>3. Cardinality(S) = 1
    BY <2>2, FS_Singleton
  <2> QED BY <2>3 DEF S
<1> QED BY <1>2, <1>3

(* The balancer by itself (ngx_http_upstream_get_round_robin_peer and        *)
(* ngx_http_upstream_free_round_robin_peer in any order a worker may call    *)
(* them) keeps its invariant, for every number of peers, weights and limits. *)
THEOREM BalancerInvariant ==
    ASSUME PeersAssumption
    PROVE  RRSpec => []RRInv
<1>1. RRInit => RRInv
  BY RRInitInv
<1>2. RRInv /\ [RRNext]_rrvars => RRInv'
  BY RRStep
<1> QED BY <1>1, <1>2, PTL DEF RRSpec

(* A peer's connection count is the number of requests that hold it, and     *)
(* never exceeds max_conns: it is counted up in                              *)
(* ngx_http_upstream_get_round_robin_peer and down in                        *)
(* ngx_http_upstream_free_round_robin_peer, once each.                       *)
THEOREM ConnsExactHolds ==
    ASSUME PeersAssumption
    PROVE  RRSpec => []ConnsExact
<1>1. RRInv => ConnsExact
  BY DEF RRInv
<1> QED BY <1>1, BalancerInvariant, PTL

(* The current weights of a group sum to 0 after every choice of             *)
(* ngx_http_upstream_get_peer, whichever servers it skipped and whatever     *)
(* their failures made of their effective weights.                           *)
THEOREM WeightsBalanceHolds ==
    ASSUME PeersAssumption
    PROVE  RRSpec => []WeightsBalance
<1>1. RRInv => WeightsBalance
  BY DEF RRInv
<1> QED BY <1>1, BalancerInvariant, PTL

(* A server that was taken out of service is tried by one request per        *)
(* fail_timeout: peer->checked is set before the request is sent.            *)
THEOREM ProbesApartHolds ==
    ASSUME PeersAssumption
    PROVE  RRSpec => []ProbesApart
<1>1. RRInv => ProbesApart
  BY RRProbes
<1> QED BY <1>1, BalancerInvariant, PTL

-----------------------------------------------------------------------------
(* The list of idle connections                                              *)

(* An item is taken out of the list, wherever it is,                         *)
LEMMA ListRemove ==
    ASSUME NEW S, NEW s \in Seq(S), NEW i \in 1..Len(s), IsInjective(s)
    PROVE  /\ RemoveAt(s, i) \in Seq(S) /\ Len(RemoveAt(s, i)) = Len(s) - 1
           /\ IsInjective(RemoveAt(s, i))
           /\ ToSet(RemoveAt(s, i)) = ToSet(s) \ {s[i]}
           /\ s[i] \in ToSet(s) /\ s[i] \in S
<1> DEFINE n == Len(s)
           t == RemoveAt(s, i)
           at(k) == IF k < i THEN k ELSE k + 1
<1>1. n \in Nat /\ i \in 1..n /\ DOMAIN s = 1..n /\ \A k \in 1..n : s[k] \in S
  OBVIOUS
<1>2. t \in Seq(S) /\ Len(t) = n - 1 /\ \A k \in 1..(n - 1) : t[k] = s[at(k)]
  <2> DEFINE a == SubSeq(s, 1, i - 1)
             b == SubSeq(s, i + 1, n)
  <2>1. a \in Seq(S) /\ Len(a) = i - 1 /\ \A k \in 1..(i - 1) : a[k] = s[k]
    BY <1>1
  <2>2. b \in Seq(S) /\ Len(b) = n - i /\ \A k \in 1..(n - i) : b[k] = s[i + k]
    <3> DEFINE m == i + 1
    <3>1. m \in 1..(Len(s) + 1) /\ n \in (m - 1)..Len(s) /\ n - m + 1 = n - i
      BY <1>1
    <3> HIDE DEF m
    <3>2. /\ SubSeq(s, m, n) \in Seq(S) /\ Len(SubSeq(s, m, n)) = n - m + 1
          /\ \A k \in 1..(n - m + 1) : SubSeq(s, m, n)[k] = s[m + k - 1]
      BY <3>1, SubSeqProperties
    <3>3. \A k \in 1..(n - i) : m + k - 1 = i + k
      BY <1>1 DEF m
    <3>4. b = SubSeq(s, m, n)
      BY DEF m
    <3> HIDE DEF b
    <3> QED BY <3>1, <3>2, <3>3, <3>4
  <2>3. t = a \o b
    BY DEF RemoveAt
  <2> HIDE DEF a, b, t, n
  <2>4. t \in Seq(S) /\ Len(t) = n - 1
    BY <1>1, <2>1, <2>2, <2>3
  <2>5. ASSUME NEW k \in 1..(n - 1) PROVE t[k] = s[at(k)]
    <3>1. CASE k < i
      <4>1. k \in 1..Len(a) /\ k \in 1..(i - 1)
        BY <1>1, <2>1, <3>1
      <4>2. t[k] = a[k]
        BY <2>1, <2>2, <2>3, <4>1
      <4> QED BY <2>1, <3>1, <4>1, <4>2
    <3>2. CASE ~(k < i)
      <4> DEFINE j == k - (i - 1)
      <4>1. j \in 1..(n - i) /\ k = Len(a) + j /\ i + j = k + 1 /\ Len(b) = n - i
        BY <1>1, <2>1, <2>2, <3>2
      <4> HIDE DEF j
      <4>2. t[Len(a) + j] = b[j]
        <5>1. /\ k \in 1..(Len(a) + Len(b)) /\ ~(k <= Len(a)) /\ k - Len(a) = j
          BY <1>1, <2>1, <2>2, <3>2, <4>1
        <5>2. (a \o b)[k] = IF k <= Len(a) THEN a[k] ELSE b[k - Len(a)]
          BY <2>1, <2>2, <5>1, ConcatProperties
        <5> QED BY <2>3, <4>1, <5>1, <5>2
      <4> QED BY <2>2, <3>2, <4>1, <4>2
    <3> QED BY <3>1, <3>2
  <2> QED BY <2>4, <2>5
<1> HIDE DEF n, t
<1>3. DOMAIN t = 1..(n - 1)
  BY <1>2
<1>4. \A a, b \in 1..n : s[a] = s[b] => a = b
  BY <1>1 DEF IsInjective
<1>5. IsInjective(t)
  <2> SUFFICES ASSUME NEW a \in 1..(n - 1), NEW b \in 1..(n - 1), t[a] = t[b] PROVE a = b
    BY <1>3 DEF IsInjective
  <2>1. at(a) \in 1..n /\ at(b) \in 1..n /\ s[at(a)] = s[at(b)]
    BY <1>1, <1>2
  <2>2. at(a) = at(b)
    BY <1>4, <2>1
  <2> QED BY <1>1, <2>2
<1>6. ToSet(t) = {t[k] : k \in 1..(n - 1)} /\ ToSet(s) = {s[k] : k \in 1..n}
  BY <1>1, <1>3 DEF ToSet
<1>7. ASSUME NEW k \in 1..(n - 1) PROVE t[k] \in ToSet(s) \ {s[i]}
  <2>1. at(k) \in 1..n /\ at(k) # i
    BY <1>1
  <2> HIDE DEF at
  <2> QED BY <1>1, <1>2, <1>4, <1>6, <2>1
<1>8. ASSUME NEW k \in 1..n, k # i PROVE s[k] \in ToSet(t)
  <2>1. PICK j \in 1..(n - 1) : at(j) = k
    <3>1. CASE k < i
      <4>1. k \in 1..(n - 1) /\ at(k) = k
        BY <1>1, <3>1
      <4> QED BY <4>1
    <3>2. CASE k > i
      <4>1. k - 1 \in 1..(n - 1) /\ at(k - 1) = k
        BY <1>1, <3>2
      <4> QED BY <4>1
    <3> QED BY <1>1, <1>8, <3>1, <3>2
  <2> QED BY <1>2, <1>6, <2>1
<1>9. ToSet(t) = ToSet(s) \ {s[i]}
  BY <1>6, <1>7, <1>8
<1> QED BY <1>1, <1>2, <1>5, <1>6, <1>9 DEF n, t

(* or from its end,                                                          *)
LEMMA ListFront ==
    ASSUME NEW S, NEW s \in Seq(S), Len(s) > 0, IsInjective(s)
    PROVE  /\ Front(s) \in Seq(S) /\ Len(Front(s)) = Len(s) - 1
           /\ IsInjective(Front(s))
           /\ ToSet(Front(s)) = ToSet(s) \ {Last(s)}
           /\ Last(s) \in ToSet(s) /\ Last(s) \in S
<1>1. Len(s) \in 1..Len(s)
  OBVIOUS
<1>2. Front(s) = RemoveAt(s, Len(s))
  <2>1. SubSeq(s, Len(s) + 1, Len(s)) = <<>>
    OBVIOUS
  <2>2. SubSeq(s, 1, Len(s) - 1) \in Seq(S)
    OBVIOUS
  <2>3. SubSeq(s, 1, Len(s) - 1) \o <<>> = SubSeq(s, 1, Len(s) - 1)
    BY <2>2
  <2> QED BY <2>1, <2>3 DEF Front, RemoveAt
<1> DEFINE i == Len(s)
<1>3. i \in 1..Len(s) /\ Front(s) = RemoveAt(s, i) /\ Last(s) = s[i]
  BY <1>1, <1>2 DEF Last
<1> HIDE DEF i
<1>4. /\ RemoveAt(s, i) \in Seq(S) /\ Len(RemoveAt(s, i)) = Len(s) - 1
      /\ IsInjective(RemoveAt(s, i))
      /\ ToSet(RemoveAt(s, i)) = ToSet(s) \ {s[i]}
      /\ s[i] \in ToSet(s) /\ s[i] \in S
  BY <1>3, ListRemove
<1> QED BY <1>3, <1>4, Zenon

(* and a new one is put at its head.                                         *)
LEMMA ListPush ==
    ASSUME NEW S, NEW s \in Seq(S), IsInjective(s), NEW c \in S, c \notin ToSet(s)
    PROVE  /\ <<c>> \o s \in Seq(S) /\ Len(<<c>> \o s) = Len(s) + 1
           /\ IsInjective(<<c>> \o s)
           /\ ToSet(<<c>> \o s) = ToSet(s) \cup {c}
           /\ Tail(<<c>> \o s) = s
<1> DEFINE n == Len(s)
           t == <<c>> \o s
<1>1. n \in Nat /\ DOMAIN s = 1..n
  OBVIOUS
<1>2. t \in Seq(S) /\ Len(t) = n + 1 /\ t[1] = c /\ \A k \in 1..n : t[k + 1] = s[k]
  OBVIOUS
<1>3. Tail(t) = s
  <2>1. Tail(t) \in Seq(S) /\ Len(Tail(t)) = n /\ \A k \in 1..n : Tail(t)[k] = s[k]
    BY <1>1, <1>2
  <2> HIDE DEF t
  <2> QED BY <2>1, SeqEqual
<1> HIDE DEF t, n
<1>4. DOMAIN t = 1..(n + 1)
  BY <1>2
<1>5. \A k \in 2..(n + 1) : k - 1 \in 1..n /\ t[k] = s[k - 1]
  <2> SUFFICES ASSUME NEW k \in 2..(n + 1) PROVE k - 1 \in 1..n /\ t[k] = s[k - 1]
    OBVIOUS
  <2>1. k - 1 \in 1..n /\ (k - 1) + 1 = k
    BY <1>1
  <2>2. t[(k - 1) + 1] = s[k - 1]
    BY <1>2, <2>1
  <2> QED BY <2>1, <2>2
<1>6. ToSet(t) = {t[k] : k \in 1..(n + 1)} /\ ToSet(s) = {s[k] : k \in 1..n}
  BY <1>1, <1>4 DEF ToSet
<1>7. \A a, b \in 1..n : s[a] = s[b] => a = b
  BY <1>1 DEF IsInjective
<1>8. \A k \in 1..(n + 1) : k = 1 \/ k \in 2..(n + 1)
  BY <1>1
<1>9. \A k \in 2..(n + 1) : t[k] \in ToSet(s)
  BY <1>5, <1>6
<1>10. IsInjective(t)
  <2> SUFFICES ASSUME NEW a \in 1..(n + 1), NEW b \in 1..(n + 1), t[a] = t[b] PROVE a = b
    BY <1>4 DEF IsInjective
  <2>1. CASE a = 1 \/ b = 1
    BY <1>2, <1>8, <1>9, <2>1
  <2>2. CASE a \in 2..(n + 1) /\ b \in 2..(n + 1)
    <3>1. a - 1 \in 1..n /\ b - 1 \in 1..n /\ s[a - 1] = s[b - 1]
      BY <1>5, <2>2
    <3>2. a - 1 = b - 1
      BY <1>7, <3>1
    <3> QED BY <3>2
  <2> QED BY <1>8, <2>1, <2>2
<1>11. ToSet(t) = ToSet(s) \cup {c}
  <2>1. ToSet(t) \subseteq ToSet(s) \cup {c}
    BY <1>2, <1>6, <1>8, <1>9
  <2>2. c \in ToSet(t)
    <3>1. 1 \in 1..(n + 1)
      BY <1>1
    <3> QED BY <1>2, <1>6, <3>1
  <2>3. \A k \in 1..n : k + 1 \in 1..(n + 1) /\ t[k + 1] = s[k]
    BY <1>1, <1>2
  <2>4. ToSet(s) \subseteq ToSet(t)
    BY <1>6, <2>3
  <2> QED BY <2>1, <2>2, <2>4
<1> QED BY <1>2, <1>3, <1>10, <1>11 DEF t, n

(* The search for a cached connection finds a place in the list or nothing.  *)
LEMMA CachedToPlace ==
    ASSUME NEW S, cache \in Seq(S), NEW p, CachedTo(p) > 0
    PROVE  CachedTo(p) \in 1..Len(cache)
<1> DEFINE I == {i \in 1..Len(cache) : conn[cache[i]].server = p}
<1>1. CachedTo(p) = IF I # {} THEN Min(I) ELSE 0
  BY DEF CachedTo, SelectInSeq
<1>2. I # {} => Min(I) \in I
  <2> SUFFICES ASSUME I # {} PROVE Min(I) \in I
    OBVIOUS
  <2>1. I \subseteq Nat
    OBVIOUS
  <2> HIDE DEF I
  <2>2. \E x \in I : \A y \in I : x <= y
    BY <2>1, LeastNatural
  <2> QED BY <2>2 DEF Min
<1>3. I \subseteq 1..Len(cache)
  OBVIOUS
<1> HIDE DEF I
<1>4. CASE I # {}
  BY <1>1, <1>2, <1>3, <1>4
<1>5. CASE I = {}
  <2>1. CachedTo(p) = 0
    BY <1>1, <1>5
  <2>2. ~(0 > 0)
    OBVIOUS
  <2> QED BY <2>1, <2>2
<1> QED BY <1>4, <1>5

-----------------------------------------------------------------------------
(* The inductive invariant of the proxied requests                           *)

Steps == {"idle", "connect", "connecting", "sent", "next", "finish"}
Ends == FailureKinds \cup {"none", "nolive", "internal", "keep", "stopped"}

UpRecord == [st : Steps, tries : Nat, conn : Conns \cup {None}, cached : BOOLEAN,
             sent : BOOLEAN, post : BOOLEAN, ft : Ends, sends : 0..2]
ConnRecord == [open : BOOLEAN, server : Peers \cup {None}, dead : BOOLEAN]

UTyped ==
    /\ conn \in [Conns -> ConnRecord] /\ cache \in Seq(Conns) /\ free \in Nat
    /\ up \in [Reqs -> UpRecord] /\ exiting \in BOOLEAN
    /\ \A r \in Reqs : up[r].tries <= Cardinality(Peers)

(* Which step of the handlers a request is at says whether it holds a server *)
(* and a connection: one that fails has a server to give back, unless none   *)
(* was left to choose, and one whose connection may be saved, after a        *)
(* response or before the next server, has it.                               *)
Placed(u, held) ==
    /\ u.st \in {"idle", "connect"} => ~held /\ u.conn = None
    /\ u.st \in {"connecting", "sent"} => held /\ u.conn # None
    /\ u.st = "next" => u.ft # "keep" /\ (held \/ u.ft = "nolive")
    /\ u.st = "next" /\ u.ft = "http_404" => u.conn # None
    /\ u.st = "finish" /\ u.ft = "keep" => u.conn # None

(* A request that must not be repeated and may still go out did not go out.  *)
Once(u) ==
    u.post /\ "non_idempotent" \notin NextOn =>
        /\ u.sends <= 1
        /\ u.sends > 0 => u.sent
        /\ u.st \in {"idle", "connect", "connecting"} => u.sends = 0

Unseen(u) ==
    "error" \in NextOn /\ Single /\ u.st = "finish" /\ u.ft = "error" /\ ~u.post => ~u.cached

Steady(u, held) == Placed(u, held) /\ Once(u) /\ Unseen(u)

RequestsSteady == \A r \in Reqs : Steady(up[r], rr[r].held)

UInv == RRInv /\ UTyped /\ CacheExact /\ RequestsSteady /\ ExitingDrains

Open == {c \in Conns : conn[c].open}
Apart == \A q, r \in Reqs : q # r /\ up[q].conn # None => up[q].conn # up[r].conn

(* The connections in use, when no request changes its own,                  *)
LEMMA InUseSame ==
    ASSUME \A x \in Reqs : up'[x].conn = up[x].conn
    PROVE  InUse' = InUse /\ (Apart => Apart')
  BY DEF InUse, Apart

(* when one takes a connection,                                              *)
LEMMA InUseTaken ==
    ASSUME Apart, NEW r \in Reqs, NEW c, c # None, up[r].conn = None, up'[r].conn = c,
           c \notin InUse, \A x \in Reqs : x # r => up'[x].conn = up[x].conn
    PROVE  InUse' = InUse \cup {c} /\ Apart'
<1>1. InUse' = InUse \cup {c}
  BY DEF InUse
<1>2. \A x \in Reqs : up[x].conn # c
  BY DEF InUse
<1>3. Apart'
  BY <1>2 DEF Apart
<1> QED BY <1>1, <1>3

(* and when one gives it up.                                                 *)
LEMMA InUseDropped ==
    ASSUME Apart, NEW r \in Reqs, up'[r].conn = None,
           \A x \in Reqs : x # r => up'[x].conn = up[x].conn
    PROVE  InUse' = InUse \ {up[r].conn} /\ Apart'
<1>1. \A x \in Reqs : x # r /\ up[x].conn # None => up[x].conn # up[r].conn
  BY DEF Apart
<1>2. InUse' = InUse \ {up[r].conn}
  BY <1>1 DEF InUse
<1>3. Apart'
  BY DEF Apart
<1> QED BY <1>2, <1>3

LEMMA ShutConn ==
    ASSUME UTyped, UpstreamAssumption, NEW c \in Conns \cup {None}
    PROVE  /\ Shut(c) \in [Conns -> ConnRecord]
           /\ {d \in Conns : Shut(c)[d].open} = Open \ {c}
<1>1. Closed \in ConnRecord /\ ~Closed.open
  BY DEF Closed, ConnRecord
<1>2. conn \in [Conns -> ConnRecord] /\ None \notin Conns
  BY DEF UTyped, UpstreamAssumption
<1>3. CASE c = None
  BY <1>2, <1>3 DEF Shut, Open
<1>4. CASE c # None
  <2>1. Shut(c) = [conn EXCEPT ![c] = Closed] /\ c \in Conns
    BY <1>4 DEF Shut
  <2>2. Shut(c) \in [Conns -> ConnRecord] /\ Shut(c)[c] = Closed
        /\ \A d \in Conns : d # c => Shut(c)[d] = conn[d]
    BY <1>1, <1>2, <2>1
  <2> QED BY <1>1, <2>2 DEF Open
<1> QED BY <1>3, <1>4

(* A step in which one request changes.                                      *)
LEMMA RequestStep ==
    ASSUME UInv, NEW r \in Reqs, NEW u \in UpRecord, u.tries <= Cardinality(Peers),
           up' = [up EXCEPT ![r] = u], RRInv', Steady(u, rr'[r].held),
           \A x \in Reqs : x # r => rr'[x].held = rr[x].held,
           conn' \in [Conns -> ConnRecord], cache' \in Seq(Conns), free' \in Nat,
           exiting' = exiting, CacheExact', ExitingDrains'
    PROVE  UInv'
<1> UTyped /\ RequestsSteady
  BY DEF UInv
<1>1. up' \in [Reqs -> UpRecord] /\ up'[r] = u /\ \A x \in Reqs : x # r => up'[x] = up[x]
  BY DEF UTyped
<1>2. UTyped'
  BY <1>1 DEF UTyped
<1>3. RequestsSteady'
  <2> SUFFICES ASSUME NEW x \in Reqs PROVE Steady(up'[x], rr'[x].held)
    BY DEF RequestsSteady, Steady, Placed, Once, Unseen, Single
  <2>1. CASE x = r
    BY <1>1, <2>1
  <2>2. CASE x # r
    BY <1>1, <2>2 DEF RequestsSteady
  <2> QED BY <2>1, <2>2
<1> QED BY <1>2, <1>3 DEF UInv

(* One in which its connection and the idle ones stay as they are.           *)
LEMMA QuietStep ==
    ASSUME UInv, NEW r \in Reqs, NEW u \in UpRecord, u.tries <= Cardinality(Peers),
           u.conn = up[r].conn, up' = [up EXCEPT ![r] = u], RRInv', Steady(u, rr'[r].held),
           \A x \in Reqs : x # r => rr'[x].held = rr[x].held,
           UNCHANGED <<conn, cache, free, exiting>>
    PROVE  UInv'
<1> UTyped /\ CacheExact /\ ExitingDrains
  BY DEF UInv
<1>1. \A x \in Reqs : up'[x].conn = up[x].conn
  BY DEF UTyped
<1>2. InUse' = InUse /\ (Apart => Apart')
  BY <1>1, InUseSame
<1>3. CacheExact'
  BY <1>2 DEF CacheExact, Apart
<1>4. conn' \in [Conns -> ConnRecord] /\ cache' \in Seq(Conns) /\ free' \in Nat
      /\ exiting' = exiting /\ ExitingDrains'
  BY DEF UTyped, ExitingDrains
<1> QED BY <1>3, <1>4, RequestStep

(* Who holds a server after a step of the balancer.                          *)
LEMMA GetHeld ==
    ASSUME PeersAssumption, RRTyped, NEW r \in Reqs, GetPeer(r)
    PROVE  rr'[r].held /\ rr'[r].current \in Peers /\ \A x \in Reqs : x # r => rr'[x].held = rr[x].held
  BY GetPeerData

LEMMA LooseHeld ==
    ASSUME PeersAssumption, RRTyped, NEW r \in Reqs,
           GetBusy(r) \/ InitPeer(r) \/ \E failed, last : FreePeer(r, failed, last)
    PROVE  ~rr'[r].held /\ \A x \in Reqs : x # r => rr'[x].held = rr[x].held
<1>1. rr \in [Reqs -> DataRecord]
  BY DEF RRTyped
<1>2. CASE GetBusy(r)
  <2>1. ~rr[r].held /\ rr' = [rr EXCEPT ![r] = Grouped(rr[r])]
    BY <1>2 DEF GetBusy
  <2>2. Grouped(rr[r]).held = rr[r].held
    BY <1>1, GroupedData
  <2> QED BY <1>1, <2>1, <2>2
<1>3. CASE InitPeer(r)
  BY <1>1, <1>3, FreshDataTyped DEF InitPeer
<1>4. ASSUME NEW failed, NEW last, FreePeer(r, failed, last)
      PROVE  ~rr'[r].held /\ \A x \in Reqs : x # r => rr'[x].held = rr[x].held
  <2> DEFINE d == [rr[r] EXCEPT !.held = FALSE, !.probe = FALSE, !.age = 0]
             e == IF last THEN FreshData ELSE d
  <2>1. rr' = [rr EXCEPT ![r] = e]
    BY <1>4 DEF FreePeer
  <2>2. ~d.held
    BY <1>1 DEF DataRecord
  <2>3. ~e.held
    BY <2>2, FreshDataTyped
  <2> HIDE DEF e
  <2> QED BY <1>1, <2>1, <2>3
<1> QED BY <1>2, <1>3, <1>4

(* The tries of a request never exceed the number of servers.                *)
LEMMA TriesBound ==
    ASSUME PeersAssumption, UpstreamAssumption
    PROVE  /\ Cardinality(Peers) \in Nat /\ Cardinality(Peers) >= 1
           /\ Tries \in Nat /\ Tries <= Cardinality(Peers)
           /\ \A u \in UpRecord : u.tries <= Cardinality(Peers)
                 => Retried(u) \in Nat /\ Retried(u) <= Cardinality(Peers)
<1>1. Cardinality(Peers) \in Nat /\ Cardinality(Peers) >= 1
  <2>1. IsFiniteSet(Peers) /\ Peers # {} /\ Peers = 1..Cardinality(Peers)
    BY DEF PeersAssumption
  <2> HIDE DEF Peers
  <2>2. Cardinality(Peers) \in Nat
    BY <2>1, FS_CardinalityType
  <2> QED BY <2>1, <2>2
<1>2. Cardinality(Peers \ Down) \in Nat /\ Cardinality(Peers \ Down) <= Cardinality(Peers)
  <2>1. IsFiniteSet(Peers) /\ Peers \ Down \subseteq Peers
    BY PeersFacts
  <2> HIDE DEF Peers
  <2> QED BY <2>1, FS_Subset, FS_CardinalityType
<1>3. Tries \in Nat /\ Tries <= Cardinality(Peers)
  BY <1>1, <1>2 DEF Tries, UpstreamAssumption
<1>4. ASSUME NEW u \in UpRecord, u.tries <= Cardinality(Peers)
      PROVE  Retried(u) \in Nat /\ Retried(u) <= Cardinality(Peers)
  <2>1. u.tries \in Nat
    BY DEF UpRecord
  <2> DEFINE t == IF Single THEN 0 ELSE IF u.tries > 0 THEN u.tries - 1 ELSE 0
  <2>2. (t \in Nat /\ t + 1 <= Cardinality(Peers)) \/ (t \in Nat /\ t = 0)
    BY <1>1, <1>4, <2>1
  <2>3. Retried(u) = t + 1 \/ Retried(u) = t
    BY DEF Retried
  <2> HIDE DEF t
  <2> QED BY <1>1, <2>2, <2>3
<1> QED BY <1>1, <1>3, <1>4

(* What a request's record is once it went out.                              *)
LEMMA SentRecord ==
    ASSUME NEW u \in UpRecord, u.conn # None, Once(u), u.st \in {"connect", "connecting"}
    PROVE  /\ Sent(u) \in UpRecord /\ Steady(Sent(u), TRUE)
           /\ Sent(u).conn = u.conn /\ Sent(u).tries = u.tries
<1> DEFINE n == IF u.post /\ u.sends < 2 THEN u.sends + 1 ELSE u.sends
<1>1. u.sends \in 0..2 /\ n \in 0..2
  BY DEF UpRecord
<1>2. Sent(u) = [u EXCEPT !.st = "sent", !.sent = TRUE, !.sends = n]
  BY DEF Sent
<1>3. u.sends = 0 => n <= 1
  BY <1>1
<1> HIDE DEF n
<1>4. /\ Sent(u) \in UpRecord /\ Sent(u).conn = u.conn /\ Sent(u).tries = u.tries
      /\ Sent(u).st = "sent" /\ Sent(u).sent /\ Sent(u).post = u.post /\ Sent(u).sends = n
  BY <1>1, <1>2 DEF UpRecord, Steps
<1>5. Once(Sent(u))
  BY <1>3, <1>4 DEF Once
<1>6. Placed(Sent(u), TRUE) /\ Unseen(Sent(u))
  BY <1>4 DEF Placed, Unseen
<1> QED BY <1>4, <1>5, <1>6 DEF Steady

(* The steps that leave the connections alone.                               *)
LEMMA StartStep ==
    ASSUME PeersAssumption, UpstreamAssumption, UInv, NEW r \in Reqs, NEW post \in BOOLEAN,
           Start(r, post)
    PROVE  UInv'
<1> RRInv /\ RRTyped /\ UTyped /\ RequestsSteady
  BY DEF UInv, RRInv
<1> DEFINE u == [FreshUp EXCEPT !.st = "connect", !.post = post, !.tries = Tries]
<1>1. InitPeer(r) /\ up[r].st = "idle" /\ up' = [up EXCEPT ![r] = u]
      /\ UNCHANGED <<conn, cache, free, exiting>>
  BY DEF Start
<1>2. Tries \in Nat /\ Tries <= Cardinality(Peers)
  BY TriesBound
<1>3. /\ u \in UpRecord /\ u.tries = Tries /\ u.conn = None /\ u.st = "connect" /\ u.sends = 0
  <2>1. FreshUp \in UpRecord /\ FreshUp.conn = None /\ FreshUp.sends = 0
    BY DEF FreshUp, UpRecord, Steps, Ends
  <2> HIDE DEF FreshUp
  <2> QED BY <1>2, <2>1 DEF UpRecord, Steps
<1> HIDE DEF u
<1>4. up[r].conn = None
  BY <1>1 DEF RequestsSteady, Steady, Placed
<1>5. RRInv' /\ ~rr'[r].held /\ \A x \in Reqs : x # r => rr'[x].held = rr[x].held
  BY <1>1, InitPeerStep, LooseHeld
<1>6. Steady(u, rr'[r].held)
  BY <1>3, <1>5 DEF Steady, Placed, Once, Unseen
<1> QED BY <1>1, <1>2, <1>3, <1>4, <1>5, <1>6, QuietStep

LEMMA ConnectBusyStep ==
    ASSUME PeersAssumption, UpstreamAssumption, UInv, NEW r \in Reqs, ConnectBusy(r)
    PROVE  UInv'
<1> RRInv /\ RRTyped /\ UTyped /\ RequestsSteady
  BY DEF UInv, RRInv
<1> DEFINE u == [up[r] EXCEPT !.st = "next", !.ft = "nolive", !.cached = FALSE]
<1>1. GetBusy(r) /\ up[r].st = "connect" /\ up' = [up EXCEPT ![r] = u]
      /\ UNCHANGED <<conn, cache, free, exiting>>
  BY DEF ConnectBusy
<1>2. up[r] \in UpRecord /\ up[r].tries <= Cardinality(Peers) /\ Steady(up[r], rr[r].held)
  BY DEF UTyped, RequestsSteady
<1>3. /\ u \in UpRecord /\ u.tries = up[r].tries /\ u.conn = up[r].conn /\ u.st = "next"
      /\ u.ft = "nolive" /\ u.sends = up[r].sends /\ u.sent = up[r].sent /\ u.post = up[r].post
  BY <1>2 DEF UpRecord, Steps, Ends
<1> HIDE DEF u
<1>4. RRInv' /\ ~rr'[r].held /\ \A x \in Reqs : x # r => rr'[x].held = rr[x].held
  BY <1>1, GetBusyStep, LooseHeld
<1>5. Steady(u, rr'[r].held)
  BY <1>2, <1>3 DEF Steady, Placed, Once, Unseen
<1> QED BY <1>1, <1>2, <1>3, <1>4, <1>5, QuietStep

LEMMA EventStep ==
    ASSUME PeersAssumption, UpstreamAssumption, UInv, NEW r \in Reqs, Event(r) \/ ClientGone(r)
    PROVE  UInv'
<1> RRInv /\ RRTyped /\ UTyped /\ RequestsSteady
  BY DEF UInv, RRInv
<1>1. up[r] \in UpRecord /\ up[r].tries <= Cardinality(Peers) /\ Steady(up[r], rr[r].held)
  BY DEF UTyped, RequestsSteady
<1>2. ASSUME UNCHANGED <<rrvars, conn, cache, free, exiting>>,
             NEW u \in UpRecord, u.tries = up[r].tries, u.conn = up[r].conn,
             up' = [up EXCEPT ![r] = u], Steady(u, rr[r].held)
      PROVE  UInv'
  <2>1. RRInv' /\ rr' = rr
    <3>1. UNCHANGED rrvars
      BY <1>2
    <3> QED BY <3>1, RRStep DEF rrvars
  <2> QED BY <1>1, <1>2, <2>1, QuietStep
<1>3. ASSUME NEW ft \in Ends, ft # "keep", up[r].st \in {"connecting", "sent"}
      PROVE  LET u == [up[r] EXCEPT !.st = "next", !.ft = ft]
             IN  /\ u \in UpRecord /\ u.tries = up[r].tries /\ u.conn = up[r].conn
                 /\ Steady(u, rr[r].held)
  <2> DEFINE u == [up[r] EXCEPT !.st = "next", !.ft = ft]
  <2>1. /\ u \in UpRecord /\ u.tries = up[r].tries /\ u.conn = up[r].conn /\ u.st = "next"
        /\ u.ft = ft /\ u.sends = up[r].sends /\ u.sent = up[r].sent /\ u.post = up[r].post
    BY <1>1, <1>3 DEF UpRecord, Steps
  <2> HIDE DEF u
  <2>2. Steady(u, rr[r].held)
    BY <1>1, <1>3, <2>1 DEF Steady, Placed, Once, Unseen
  <2> QED BY <2>1, <2>2 DEF u
<1>4. ASSUME NEW ft \in {"none", "keep"}, up[r].st \in {"connecting", "sent"}
      PROVE  LET u == [up[r] EXCEPT !.st = "finish", !.ft = ft]
             IN  /\ u \in UpRecord /\ u.tries = up[r].tries /\ u.conn = up[r].conn
                 /\ Steady(u, rr[r].held)
  <2> DEFINE u == [up[r] EXCEPT !.st = "finish", !.ft = ft]
  <2>1. /\ u \in UpRecord /\ u.tries = up[r].tries /\ u.conn = up[r].conn /\ u.st = "finish"
        /\ u.ft = ft /\ u.sends = up[r].sends /\ u.sent = up[r].sent /\ u.post = up[r].post
    BY <1>1, <1>4 DEF UpRecord, Steps, Ends
  <2> HIDE DEF u
  <2>2. Steady(u, rr[r].held)
    BY <1>1, <1>4, <2>1 DEF Steady, Placed, Once, Unseen
  <2> QED BY <2>1, <2>2 DEF u
<1>5. CASE Connected(r)
  <2>1. up[r].st = "connecting" /\ UNCHANGED <<rrvars, conn, cache, free, exiting>>
    BY <1>5 DEF Connected
  <2>2. CASE conn[up[r].conn].dead
    <3>1. up' = [up EXCEPT ![r] = [up[r] EXCEPT !.st = "next", !.ft = "error"]]
      BY <1>5, <2>2 DEF Connected
    <3>2. "error" \in Ends
      BY DEF Ends, FailureKinds
    <3> QED BY <1>2, <1>3, <2>1, <3>1, <3>2
  <2>3. CASE ~conn[up[r].conn].dead
    <3>1. up' = [up EXCEPT ![r] = Sent(up[r])]
      BY <1>5, <2>3 DEF Connected
    <3>2. rr[r].held /\ up[r].conn # None /\ Once(up[r])
      BY <1>1, <2>1 DEF Steady, Placed
    <3>3. rr[r].held = TRUE
      BY <3>2 DEF RRTyped, DataRecord
    <3>4. /\ Sent(up[r]) \in UpRecord /\ Steady(Sent(up[r]), rr[r].held)
          /\ Sent(up[r]).conn = up[r].conn /\ Sent(up[r]).tries = up[r].tries
      BY <1>1, <2>1, <3>2, <3>3, SentRecord
    <3> QED BY <1>2, <2>1, <3>1, <3>4
  <2> QED BY <2>2, <2>3
<1>6. ASSUME NEW ft \in {"error", "timeout", "invalid_header"}, Fails(r, ft) PROVE UInv'
  <2>1. /\ up[r].st \in {"connecting", "sent"} /\ UNCHANGED <<rrvars, conn, cache, free, exiting>>
        /\ up' = [up EXCEPT ![r] = [up[r] EXCEPT !.st = "next", !.ft = ft]]
    BY <1>6 DEF Fails
  <2>2. ft \in Ends /\ ft # "keep"
    BY DEF Ends, FailureKinds
  <2> QED BY <1>2, <1>3, <2>1, <2>2
<1>7. ASSUME NEW ft \in {"http_404", "http_500"}, ErrorStatus(r, ft) PROVE UInv'
  <2> DEFINE v == [up[r] EXCEPT !.ft = ft]
  <2>1. /\ up[r].st = "sent" /\ UNCHANGED <<rrvars, conn, cache, free, exiting>>
        /\ \/ up' = [up EXCEPT ![r] = [v EXCEPT !.st = "next"]]
           \/ up' = [up EXCEPT ![r] = [v EXCEPT !.st = "finish", !.ft = "none"]]
    BY <1>7 DEF ErrorStatus
  <2>2. /\ [v EXCEPT !.st = "next"] = [up[r] EXCEPT !.st = "next", !.ft = ft]
        /\ [v EXCEPT !.st = "finish", !.ft = "none"] = [up[r] EXCEPT !.st = "finish", !.ft = "none"]
    BY <1>1 DEF UpRecord
  <2>3. ft \in Ends /\ ft # "keep"
    BY DEF Ends, FailureKinds
  <2> HIDE DEF v
  <2>4. CASE up' = [up EXCEPT ![r] = [v EXCEPT !.st = "next"]]
    BY <1>2, <1>3, <2>1, <2>2, <2>3, <2>4
  <2>5. CASE up' = [up EXCEPT ![r] = [v EXCEPT !.st = "finish", !.ft = "none"]]
    BY <1>2, <1>4, <2>1, <2>2, <2>5
  <2> QED BY <2>1, <2>4, <2>5
<1>8. ASSUME NEW keep \in BOOLEAN, Answer(r, keep) PROVE UInv'
  <2> DEFINE ft == IF keep THEN "keep" ELSE "none"
  <2>1. /\ up[r].st = "sent" /\ UNCHANGED <<rrvars, conn, cache, free, exiting>>
        /\ up' = [up EXCEPT ![r] = [up[r] EXCEPT !.st = "finish", !.ft = ft]]
    BY <1>8 DEF Answer
  <2>2. ft \in {"none", "keep"}
    OBVIOUS
  <2> HIDE DEF ft
  <2> QED BY <1>2, <1>4, <2>1, <2>2
<1>9. CASE ClientGone(r)
  <2>1. /\ up[r].st \in {"connecting", "sent"} /\ UNCHANGED <<rrvars, conn, cache, free, exiting>>
        /\ up' = [up EXCEPT ![r] = [up[r] EXCEPT !.st = "finish", !.ft = "none"]]
    BY <1>9 DEF ClientGone
  <2> QED BY <1>2, <1>4, <2>1
<1> QED BY <1>5, <1>6, <1>7, <1>8, <1>9 DEF Event

(* The steps in which a connection changes hands.                            *)
LEMMA ConnectCachedStep ==
    ASSUME PeersAssumption, UpstreamAssumption, UInv, NEW r \in Reqs, ConnectCached(r)
    PROVE  UInv'
<1> RRInv /\ RRTyped /\ UTyped /\ RequestsSteady /\ CacheExact /\ ExitingDrains
  BY DEF UInv, RRInv
<1>1. up[r] \in UpRecord /\ up[r].tries <= Cardinality(Peers) /\ Steady(up[r], rr[r].held)
  BY DEF UTyped, RequestsSteady
<1> DEFINE p == rr'[r].current
           j == CachedTo(p)
           c == cache[j]
           v == [up[r] EXCEPT !.conn = c, !.cached = TRUE]
           f == [v EXCEPT !.st = "next", !.ft = "error", !.sent = FALSE]
<1>2. /\ up[r].st = "connect" /\ GetPeer(r) /\ j > 0
      /\ cache' = RemoveAt(cache, j) /\ free' = free + 1
      /\ \/ up' = [up EXCEPT ![r] = Sent(v)]
         \/ up' = [up EXCEPT ![r] = f]
      /\ conn' = conn /\ exiting' = exiting
  BY DEF ConnectCached, Taken
<1>3. RRInv' /\ rr'[r].held /\ \A x \in Reqs : x # r => rr'[x].held = rr[x].held
  BY <1>2, GetPeerStep, GetHeld
<1>4. j \in 1..Len(cache)
  <2>1. cache \in Seq(Conns)
    BY DEF UTyped
  <2> HIDE DEF p
  <2> QED BY <1>2, <2>1, CachedToPlace
<1> HIDE DEF j
<1>5. /\ cache' \in Seq(Conns) /\ Len(cache') = Len(cache) - 1 /\ IsInjective(cache')
      /\ ToSet(cache') = ToSet(cache) \ {c} /\ c \in ToSet(cache) /\ c \in Conns
  <2>1. cache \in Seq(Conns) /\ IsInjective(cache)
    BY DEF UTyped, CacheExact
  <2>2. /\ RemoveAt(cache, j) \in Seq(Conns) /\ Len(RemoveAt(cache, j)) = Len(cache) - 1
        /\ IsInjective(RemoveAt(cache, j))
        /\ ToSet(RemoveAt(cache, j)) = ToSet(cache) \ {cache[j]}
        /\ cache[j] \in ToSet(cache) /\ cache[j] \in Conns
    BY <1>4, <2>1, ListRemove
  <2> QED BY <1>2, <2>2
<1>6. c # None /\ c \notin InUse
  BY <1>5 DEF UpstreamAssumption, CacheExact
<1> HIDE DEF c
<1>7. /\ v \in UpRecord /\ v.conn = c /\ v.tries = up[r].tries /\ v.st = "connect"
      /\ v.post = up[r].post /\ v.sends = up[r].sends /\ v.sent = up[r].sent
  BY <1>1, <1>2, <1>5 DEF UpRecord
<1> HIDE DEF v
<1>8. Once(v)
  BY <1>1, <1>2, <1>7 DEF Steady, Once
<1>9. /\ Sent(v) \in UpRecord /\ Steady(Sent(v), TRUE)
      /\ Sent(v).conn = c /\ Sent(v).tries = up[r].tries
  BY <1>6, <1>7, <1>8, SentRecord
<1>10. PICK w : /\ up' = [up EXCEPT ![r] = w] /\ w \in UpRecord /\ Steady(w, TRUE)
                /\ w.conn = c /\ w.tries = up[r].tries
  <2>1. CASE up' = [up EXCEPT ![r] = Sent(v)]
    BY <1>9, <2>1
  <2>2. CASE up' = [up EXCEPT ![r] = f]
    <3>1. /\ f \in UpRecord /\ f.conn = c /\ f.tries = up[r].tries /\ f.st = "next"
          /\ f.ft = "error" /\ f.post = v.post /\ f.sends = v.sends
      BY <1>7 DEF UpRecord, Steps, Ends, FailureKinds
    <3>2. f.post /\ "non_idempotent" \notin NextOn => f.sends = 0
      BY <1>7, <1>8, <3>1 DEF Once
    <3> HIDE DEF f
    <3>3. Steady(f, TRUE)
      BY <3>1, <3>2 DEF Steady, Placed, Once, Unseen
    <3> QED BY <2>2, <3>1, <3>3
  <2> QED BY <1>2, <2>1, <2>2
<1>11. Steady(w, rr'[r].held)
  <2>1. rr'[r].held = TRUE
    BY <1>3 DEF RRInv, RRTyped, DataRecord
  <2> QED BY <1>10, <2>1
<1>12. CacheExact'
  <2>1. up[r].conn = None
    BY <1>1, <1>2 DEF Steady, Placed
  <2>2. up'[r].conn = c /\ \A x \in Reqs : x # r => up'[x].conn = up[x].conn
    BY <1>10 DEF UTyped
  <2>3. Apart
    BY DEF CacheExact, Apart
  <2>4. InUse' = InUse \cup {c} /\ Apart'
    BY <1>6, <2>1, <2>2, <2>3, InUseTaken
  <2>5. free' + Len(cache') = MaxCached
    <3>1. free \in Nat /\ Len(cache) \in Nat /\ free + Len(cache) = MaxCached
      BY DEF UTyped, CacheExact
    <3> QED BY <1>2, <1>5, <3>1
  <2>6. {d \in Conns : conn'[d].open} = ToSet(cache') \cup InUse' /\ ToSet(cache') \cap InUse' = {}
    BY <1>2, <1>5, <1>6, <2>4 DEF CacheExact
  <2> QED BY <1>5, <2>4, <2>5, <2>6 DEF CacheExact, Apart
<1>13. ExitingDrains'
  <2>1. cache = <<>> => Len(cache) = 0
    OBVIOUS
  <2> QED BY <1>2, <1>4, <2>1 DEF ExitingDrains
<1>14. conn' \in [Conns -> ConnRecord] /\ free' \in Nat /\ exiting' = exiting
  BY <1>2 DEF UTyped
<1> HIDE DEF f
<1> QED BY <1>1, <1>2, <1>3, <1>5, <1>10, <1>11, <1>12, <1>13, <1>14, RequestStep

LEMMA ConnectNewStep ==
    ASSUME PeersAssumption, UpstreamAssumption, UInv, NEW r \in Reqs,
           NEW res \in {"again", "declined", "failed"}, ConnectNew(r, res)
    PROVE  UInv'
<1> RRInv /\ RRTyped /\ UTyped /\ RequestsSteady /\ CacheExact /\ ExitingDrains
  BY DEF UInv, RRInv
<1>1. up[r] \in UpRecord /\ up[r].tries <= Cardinality(Peers) /\ Steady(up[r], rr[r].held)
  BY DEF UTyped, RequestsSteady
<1>2. up[r].st = "connect" /\ GetPeer(r) /\ UNCHANGED <<cache, free, exiting>>
  BY DEF ConnectNew
<1>3. RRInv' /\ rr'[r].held /\ rr'[r].current \in Peers
      /\ \A x \in Reqs : x # r => rr'[x].held = rr[x].held
  BY <1>2, GetPeerStep, GetHeld
<1>4. CASE res = "again"
  <2>1. PICK c \in Conns :
              /\ ~conn[c].open
              /\ conn' = [conn EXCEPT ![c] = [open |-> TRUE, dead |-> FALSE,
                                              server |-> rr'[r].current]]
              /\ up' = [up EXCEPT ![r] =
                          [up[r] EXCEPT !.st = "connecting", !.conn = c,
                                        !.cached = FALSE, !.sent = FALSE]]
    BY <1>4 DEF ConnectNew
  <2> DEFINE u == [up[r] EXCEPT !.st = "connecting", !.conn = c, !.cached = FALSE, !.sent = FALSE]
             o == [open |-> TRUE, dead |-> FALSE, server |-> rr'[r].current]
  <2>2. c # None /\ c \notin ToSet(cache) /\ c \notin InUse
    BY <2>1 DEF UpstreamAssumption, CacheExact
  <2>3. /\ u \in UpRecord /\ u.conn = c /\ u.tries = up[r].tries /\ u.st = "connecting"
        /\ u.post = up[r].post /\ u.sends = up[r].sends
    BY <1>1 DEF UpRecord, Steps
  <2>4. o \in ConnRecord /\ o.open
    BY <1>3 DEF ConnRecord
  <2>5. conn' = [conn EXCEPT ![c] = o] /\ up' = [up EXCEPT ![r] = u]
    BY <2>1
  <2> HIDE DEF u, o
  <2>6. conn' \in [Conns -> ConnRecord]
        /\ {d \in Conns : conn'[d].open} = {d \in Conns : conn[d].open} \cup {c}
    BY <2>4, <2>5 DEF UTyped
  <2>7. up[r].sends = 0 \/ ~up[r].post \/ "non_idempotent" \in NextOn
    BY <1>1, <1>2 DEF Steady, Once
  <2>8. Steady(u, rr'[r].held)
    BY <1>3, <2>2, <2>3, <2>7 DEF Steady, Placed, Once, Unseen
  <2>9. CacheExact'
    <3>1. up[r].conn = None
      BY <1>1, <1>2 DEF Steady, Placed
    <3>2. up'[r].conn = c /\ \A x \in Reqs : x # r => up'[x].conn = up[x].conn
      BY <2>3, <2>5 DEF UTyped
    <3>3. Apart
      BY DEF CacheExact, Apart
    <3>4. InUse' = InUse \cup {c} /\ Apart'
      BY <2>2, <3>1, <3>2, <3>3, InUseTaken
    <3>5. {d \in Conns : conn'[d].open} = ToSet(cache') \cup InUse' /\ ToSet(cache') \cap InUse' = {}
      BY <1>2, <2>2, <2>6, <3>4 DEF CacheExact
    <3> QED BY <1>2, <3>4, <3>5 DEF CacheExact, Apart
  <2>10. cache' \in Seq(Conns) /\ free' \in Nat /\ exiting' = exiting /\ ExitingDrains'
    BY <1>2 DEF UTyped, ExitingDrains
  <2> QED BY <1>1, <1>3, <2>3, <2>5, <2>6, <2>8, <2>9, <2>10, RequestStep
<1>5. CASE res = "declined"
  <2> DEFINE u == [up[r] EXCEPT !.st = "next", !.ft = "error", !.cached = FALSE]
  <2>1. up' = [up EXCEPT ![r] = u] /\ conn' = conn
    BY <1>5 DEF ConnectNew
  <2>2. /\ u \in UpRecord /\ u.tries = up[r].tries /\ u.conn = up[r].conn /\ u.st = "next"
        /\ u.ft = "error" /\ u.sends = up[r].sends /\ u.sent = up[r].sent /\ u.post = up[r].post
    BY <1>1 DEF UpRecord, Steps, Ends, FailureKinds
  <2> HIDE DEF u
  <2>3. Steady(u, rr'[r].held)
    BY <1>1, <1>2, <1>3, <2>2 DEF Steady, Placed, Once, Unseen
  <2> QED BY <1>1, <1>2, <1>3, <2>1, <2>2, <2>3, QuietStep
<1>6. CASE res = "failed"
  <2> DEFINE u == [up[r] EXCEPT !.st = "finish", !.ft = "internal", !.cached = FALSE]
  <2>1. up' = [up EXCEPT ![r] = u] /\ conn' = conn
    BY <1>6 DEF ConnectNew
  <2>2. /\ u \in UpRecord /\ u.tries = up[r].tries /\ u.conn = up[r].conn /\ u.st = "finish"
        /\ u.ft = "internal" /\ u.sends = up[r].sends /\ u.sent = up[r].sent /\ u.post = up[r].post
    BY <1>1 DEF UpRecord, Steps, Ends
  <2> HIDE DEF u
  <2>3. Steady(u, rr'[r].held)
    BY <1>1, <1>2, <1>3, <2>2 DEF Steady, Placed, Once, Unseen
  <2> QED BY <1>1, <1>2, <1>3, <2>1, <2>2, <2>3, QuietStep
<1> QED BY <1>4, <1>5, <1>6

(* The record of a request after its server failed.                          *)
Turned(u, tries, stop) ==
    [u EXCEPT !.tries = tries, !.conn = None,
              !.st = IF MayRetry(u, tries) /\ ~stop THEN "connect" ELSE "finish",
              !.ft = IF MayRetry(u, tries) /\ ~stop THEN "none"
                     ELSE IF stop THEN "stopped" ELSE u.ft]

LEMMA NextRecord ==
    ASSUME PeersAssumption, UpstreamAssumption, NEW u \in UpRecord, u.st = "next",
           u.tries <= Cardinality(Peers), NEW held \in BOOLEAN, Steady(u, held), NEW tries,
           tries = IF held THEN Retried(u) ELSE u.tries, NEW stop \in BOOLEAN,
           NEW v, v = Turned(u, tries, stop)
    PROVE  v \in UpRecord /\ v.tries <= Cardinality(Peers) /\ v.conn = None /\ Steady(v, FALSE)
<1>1. tries \in Nat /\ tries <= Cardinality(Peers)
  BY TriesBound DEF UpRecord
<1>2. Mask(u) = {u.ft} \cup (IF u.sent /\ u.post THEN {"non_idempotent"} ELSE {})
  BY DEF Mask
<1>3. u.sends \in 0..2
  BY DEF UpRecord
<1>4. CASE MayRetry(u, tries) /\ ~stop
  <2>1. /\ v \in UpRecord /\ v.tries = tries /\ v.conn = None /\ v.st = "connect"
        /\ v.post = u.post /\ v.sends = u.sends /\ v.sent = u.sent
    BY <1>1, <1>4 DEF Turned, UpRecord, Steps, Ends
  <2>2. ASSUME u.post, "non_idempotent" \notin NextOn PROVE u.sends = 0
    <3>1. ~u.sent
      BY <1>2, <1>4, <2>2 DEF MayRetry
    <3> QED BY <1>3, <2>2, <3>1 DEF Steady, Once
  <2>3. Steady(v, FALSE)
    BY <2>1, <2>2 DEF Steady, Placed, Once, Unseen
  <2> QED BY <1>1, <2>1, <2>3
<1>5. CASE ~(MayRetry(u, tries) /\ ~stop)
  <2> DEFINE e == IF stop THEN "stopped" ELSE u.ft
  <2>0. e \in Ends
    BY DEF Ends, UpRecord
  <2>1. /\ v \in UpRecord /\ v.tries = tries /\ v.conn = None /\ v.st = "finish" /\ v.ft = e
        /\ v.post = u.post /\ v.sends = u.sends /\ v.sent = u.sent /\ v.cached = u.cached
    <3>1. v = [u EXCEPT !.tries = tries, !.conn = None, !.st = "finish", !.ft = e]
      BY <1>5 DEF Turned
    <3> HIDE DEF e
    <3> QED BY <1>1, <2>0, <3>1 DEF UpRecord, Steps
  <2>2. u.ft # "keep" /\ (held \/ u.ft = "nolive")
    BY DEF Steady, Placed
  <2>3. Once(v)
    BY <2>1 DEF Steady, Once
  <2>4. ASSUME "error" \in NextOn, Single, u.ft = "error", ~stop, ~u.post, u.cached PROVE FALSE
    <3>1. held /\ Retried(u) = 1
      BY <2>2, <2>4 DEF Retried
    <3>2. Mask(u) \subseteq NextOn
      BY <1>2, <2>4
    <3>3. tries = 1 /\ 1 > 0
      BY <3>1
    <3> QED BY <1>5, <2>4, <3>2, <3>3 DEF MayRetry
  <2>5. Unseen(v)
    BY <2>1, <2>4 DEF Unseen
  <2>6. Placed(v, FALSE)
    BY <2>1, <2>2 DEF Placed
  <2> QED BY <1>1, <2>1, <2>3, <2>5, <2>6 DEF Steady
<1> QED BY <1>4, <1>5

(* A connection that is saved joins the idle ones, in place of the oldest of *)
(* them, which is closed, when the list is full.                             *)
LEMMA SavedConn ==
    ASSUME UpstreamAssumption, UTyped, CacheExact, NEW c \in Conns, c \in InUse
    PROVE  /\ Saved(c).cache \in Seq(Conns) /\ Saved(c).free \in Nat
           /\ Saved(c).conn \in [Conns -> ConnRecord]
           /\ Saved(c).free + Len(Saved(c).cache) = MaxCached
           /\ IsInjective(Saved(c).cache) /\ c \in ToSet(Saved(c).cache)
           /\ {d \in Conns : Saved(c).conn[d].open} = ToSet(Saved(c).cache) \cup InUse
           /\ ToSet(Saved(c).cache) \cap InUse = {c}
           /\ Tail(Saved(c).cache) \in Seq(Conns) /\ IsInjective(Tail(Saved(c).cache))
           /\ ToSet(Tail(Saved(c).cache)) = ToSet(Saved(c).cache) \ {c}
           /\ Len(Tail(Saved(c).cache)) = Len(Saved(c).cache) - 1
<1> DEFINE k == IF free = 0 THEN Front(cache) ELSE cache
           f == IF free = 0 THEN 0 ELSE free - 1
           o == IF free = 0 THEN Shut(Last(cache)) ELSE conn
           s == <<c>> \o k
<1>1. Saved(c) = [cache |-> s, free |-> f, conn |-> o]
  BY DEF Saved
<1>2. Saved(c).cache = s /\ Saved(c).free = f /\ Saved(c).conn = o
  BY <1>1
<1>3. /\ cache \in Seq(Conns) /\ IsInjective(cache) /\ free \in Nat /\ Len(cache) \in Nat
      /\ free + Len(cache) = MaxCached /\ MaxCached \in Nat \ {0}
      /\ Open = ToSet(cache) \cup InUse /\ ToSet(cache) \cap InUse = {}
  BY DEF UTyped, CacheExact, UpstreamAssumption, Open
<1>4. /\ k \in Seq(Conns) /\ IsInjective(k) /\ f \in Nat /\ f + Len(k) + 1 = MaxCached
      /\ o \in [Conns -> ConnRecord] /\ ToSet(k) \subseteq ToSet(cache)
      /\ {d \in Conns : o[d].open} = ToSet(k) \cup InUse
  <2>1. CASE free = 0
    <3>1. Len(cache) > 0 /\ k = Front(cache) /\ f = 0 /\ o = Shut(Last(cache))
      BY <1>3, <2>1
    <3>2. /\ Front(cache) \in Seq(Conns) /\ Len(Front(cache)) = Len(cache) - 1
          /\ IsInjective(Front(cache)) /\ ToSet(Front(cache)) = ToSet(cache) \ {Last(cache)}
          /\ Last(cache) \in ToSet(cache) /\ Last(cache) \in Conns
      BY <1>3, <3>1, ListFront
    <3> DEFINE l == Last(cache)
    <3>3. l \in Conns \cup {None} /\ l \in ToSet(cache)
      BY <3>2
    <3> HIDE DEF l
    <3>4. Shut(l) \in [Conns -> ConnRecord] /\ {d \in Conns : Shut(l)[d].open} = Open \ {l}
      BY <3>3, ShutConn
    <3>5. o = Shut(l) /\ ToSet(k) = ToSet(cache) \ {l}
      BY <3>1, <3>2 DEF l
    <3>6. {d \in Conns : o[d].open} = ToSet(k) \cup InUse
      BY <1>3, <3>3, <3>4, <3>5
    <3>7. f \in Nat /\ f + Len(k) + 1 = MaxCached
      BY <1>3, <2>1, <3>1, <3>2
    <3> HIDE DEF k, f, o
    <3> QED BY <3>1, <3>2, <3>4, <3>5, <3>6, <3>7
  <2>2. CASE free # 0
    <3>1. k = cache /\ f = free - 1 /\ o = conn
      BY <2>2
    <3>2. f \in Nat /\ f + Len(k) + 1 = MaxCached
      BY <1>3, <2>2, <3>1
    <3> HIDE DEF k, f, o
    <3> QED BY <1>3, <3>1, <3>2 DEF Open, UTyped
  <2> QED BY <2>1, <2>2
<1>5. c \notin ToSet(k)
  BY <1>3, <1>4
<1> HIDE DEF k, f, o
<1>6. /\ s \in Seq(Conns) /\ Len(s) = Len(k) + 1 /\ IsInjective(s)
      /\ ToSet(s) = ToSet(k) \cup {c} /\ Tail(s) = k
  BY <1>4, <1>5, ListPush
<1> HIDE DEF s
<1>7. f + Len(s) = MaxCached /\ Len(k) = Len(s) - 1
  <2>1. Len(k) \in Nat
    BY <1>4
  <2> QED BY <1>3, <1>4, <1>6, <2>1
<1>8. /\ {d \in Conns : o[d].open} = ToSet(s) \cup InUse /\ ToSet(s) \cap InUse = {c}
      /\ c \in ToSet(s) /\ ToSet(k) = ToSet(s) \ {c}
  BY <1>3, <1>4, <1>5, <1>6
<1> QED BY <1>2, <1>4, <1>6, <1>7, <1>8

(* The connection a request gives up is saved or closed, and every one is    *)
(* still in one place.                                                       *)
LEMMA LeftConn ==
    ASSUME UpstreamAssumption, UTyped, CacheExact, ExitingDrains, NEW c \in Conns \cup {None},
           c # None => c \in InUse, NEW save, save => c # None /\ ~exiting,
           LeftBy(c, save), exiting' = exiting, InUse' = InUse \ {c}, Apart'
    PROVE  /\ conn' \in [Conns -> ConnRecord] /\ cache' \in Seq(Conns) /\ free' \in Nat
           /\ CacheExact' /\ ExitingDrains'
<1> DEFINE s == Saved(c)
<1>1. \/ save /\ cache' = s.cache /\ free' = s.free /\ conn' = s.conn
      \/ save /\ cache' = Tail(s.cache) /\ free' = s.free + 1 /\ conn' = [s.conn EXCEPT ![c] = Closed]
      \/ ~save /\ conn' = Shut(c) /\ cache' = cache /\ free' = free
  BY DEF LeftBy
<1>2. None \notin Conns /\ ToSet(cache) \cap InUse = {} /\ Open = ToSet(cache) \cup InUse
  BY DEF UpstreamAssumption, CacheExact, Open
<1>3. CASE save
  <2>1. c \in Conns /\ c \in InUse /\ ~exiting
    BY <1>3
  <2>2. /\ s.cache \in Seq(Conns) /\ s.free \in Nat /\ s.conn \in [Conns -> ConnRecord]
        /\ s.free + Len(s.cache) = MaxCached
        /\ IsInjective(s.cache) /\ c \in ToSet(s.cache)
        /\ {d \in Conns : s.conn[d].open} = ToSet(s.cache) \cup InUse
        /\ ToSet(s.cache) \cap InUse = {c}
        /\ Tail(s.cache) \in Seq(Conns) /\ IsInjective(Tail(s.cache))
        /\ ToSet(Tail(s.cache)) = ToSet(s.cache) \ {c}
        /\ Len(Tail(s.cache)) = Len(s.cache) - 1
    BY <2>1, SavedConn
  <2> HIDE DEF s
  <2>3. ExitingDrains'
    BY <2>1 DEF ExitingDrains
  <2>4. CASE cache' = s.cache /\ free' = s.free /\ conn' = s.conn
    <3>1. {d \in Conns : conn'[d].open} = ToSet(cache') \cup InUse' /\ ToSet(cache') \cap InUse' = {}
      BY <2>2, <2>4
    <3> QED BY <2>2, <2>3, <2>4, <3>1 DEF CacheExact, Apart
  <2>5. CASE cache' = Tail(s.cache) /\ free' = s.free + 1 /\ conn' = [s.conn EXCEPT ![c] = Closed]
    <3>1. Closed \in ConnRecord /\ ~Closed.open
      BY DEF Closed, ConnRecord
    <3>2. conn' \in [Conns -> ConnRecord]
          /\ {d \in Conns : conn'[d].open} = {d \in Conns : s.conn[d].open} \ {c}
      BY <2>1, <2>2, <2>5, <3>1
    <3>3. {d \in Conns : conn'[d].open} = ToSet(cache') \cup InUse' /\ ToSet(cache') \cap InUse' = {}
      BY <2>2, <2>5, <3>2
    <3>4. free' + Len(cache') = MaxCached /\ free' \in Nat
      <4>1. Len(s.cache) \in Nat
        BY <2>2
      <4> DEFINE a == s.free
                 b == Len(s.cache)
      <4>2. a \in Nat /\ b \in Nat /\ a + b = MaxCached /\ free' = a + 1 /\ Len(cache') = b - 1
        BY <2>2, <2>5, <4>1
      <4> HIDE DEF a, b
      <4> QED BY <4>2
    <3> QED BY <2>2, <2>3, <2>5, <3>2, <3>3, <3>4 DEF CacheExact, Apart
  <2> QED BY <1>1, <1>3, <2>4, <2>5
<1>4. CASE ~save
  <2>1. conn' = Shut(c) /\ cache' = cache /\ free' = free
    BY <1>1, <1>4
  <2>2. conn' \in [Conns -> ConnRecord] /\ {d \in Conns : conn'[d].open} = Open \ {c}
    BY <2>1, ShutConn
  <2>3. c \notin ToSet(cache)
    BY <1>2 DEF CacheExact
  <2>4. {d \in Conns : conn'[d].open} = ToSet(cache') \cup InUse' /\ ToSet(cache') \cap InUse' = {}
    BY <1>2, <2>1, <2>2, <2>3
  <2>5. ExitingDrains'
    BY <2>1 DEF ExitingDrains
  <2> QED BY <2>1, <2>2, <2>4, <2>5 DEF CacheExact, Apart, UTyped
<1> QED BY <1>3, <1>4

LEMMA NextServerStep ==
    ASSUME PeersAssumption, UpstreamAssumption, UInv, NEW r \in Reqs,
           NEW keepalive \in BOOLEAN, NEW stop \in BOOLEAN, NextServer(r, keepalive, stop)
    PROVE  UInv'
<1> RRInv /\ RRTyped /\ UTyped /\ RequestsSteady /\ CacheExact /\ ExitingDrains
  BY DEF UInv, RRInv
<1> DEFINE u == up[r]
           tries == IF rr[r].held THEN Retried(u) ELSE u.tries
           retry == MayRetry(u, tries) /\ ~stop
           save == MaySave(r, keepalive /\ ~FreeFor(u))
           c == u.conn
           v == [u EXCEPT !.tries = tries, !.conn = None,
                          !.st = IF retry THEN "connect" ELSE "finish",
                          !.ft = IF retry THEN "none" ELSE IF stop THEN "stopped" ELSE u.ft]
<1>1. /\ u.st = "next" /\ GivenBack(r, u) /\ LeftBy(c, save) /\ up' = [up EXCEPT ![r] = v]
      /\ exiting' = exiting
  BY DEF NextServer
<1>2. u \in UpRecord /\ u.tries <= Cardinality(Peers) /\ Steady(u, rr[r].held) /\ rr[r].held \in BOOLEAN
  BY DEF UTyped, RequestsSteady, RRTyped, DataRecord
<1> HIDE DEF u
<1>3. v \in UpRecord /\ v.tries <= Cardinality(Peers) /\ v.conn = None /\ Steady(v, FALSE)
  <2> DEFINE held == rr[r].held
  <2>1. /\ tries = (IF held THEN Retried(u) ELSE u.tries)
        /\ v = Turned(u, tries, stop)
        /\ held \in BOOLEAN /\ Steady(u, held) /\ u.st = "next"
        /\ u \in UpRecord /\ u.tries <= Cardinality(Peers)
    BY <1>1, <1>2 DEF Turned
  <2> HIDE DEF tries, v, held
  <2> QED BY <2>1, NextRecord
<1> HIDE DEF v
<1>4. RRInv' /\ rr'[r].held = FALSE /\ \A x \in Reqs : x # r => rr'[x].held = rr[x].held
  <2>1. CASE rr[r].held
    <3>1. FreePeer(r, FreeFor(u), FALSE)
      BY <1>1, <2>1 DEF GivenBack
    <3>2. RRInv'
      BY <3>1, FreePeerStep
    <3>3. ~rr'[r].held /\ \A x \in Reqs : x # r => rr'[x].held = rr[x].held
      BY <3>1, LooseHeld
    <3> QED BY <3>2, <3>3 DEF RRInv, RRTyped, DataRecord
  <2>2. CASE ~rr[r].held
    <3>1. UNCHANGED rrvars
      BY <1>1, <2>2 DEF GivenBack
    <3>2. RRInv' /\ rr' = rr
      BY <3>1, RRStep DEF rrvars
    <3> QED BY <1>2, <2>2, <3>2
  <2> QED BY <2>1, <2>2
<1>5. c \in Conns \cup {None} /\ (c # None => c \in InUse)
  BY <1>2 DEF UpRecord, InUse, u
<1>6. InUse' = InUse \ {c} /\ Apart'
  <2>1. up'[r].conn = None /\ \A x \in Reqs : x # r => up'[x].conn = up[x].conn
    BY <1>1, <1>3 DEF UTyped
  <2>2. Apart
    BY DEF CacheExact, Apart
  <2> QED BY <2>1, <2>2, InUseDropped DEF u
<1>7. /\ conn' \in [Conns -> ConnRecord] /\ cache' \in Seq(Conns) /\ free' \in Nat
      /\ CacheExact' /\ ExitingDrains'
  <2>1. save => c # None /\ ~exiting
    BY <1>1, <1>2 DEF MaySave, FreeFor, Steady, Placed
  <2> HIDE DEF c, save
  <2> QED BY <1>1, <1>5, <1>6, <2>1, LeftConn
<1>8. Steady(v, rr'[r].held)
  BY <1>3, <1>4
<1> HIDE DEF c, save
<1> QED BY <1>1, <1>3, <1>4, <1>7, <1>8, RequestStep

LEMMA FinishStep ==
    ASSUME PeersAssumption, UpstreamAssumption, UInv, NEW r \in Reqs, Finish(r)
    PROVE  UInv'
<1> RRInv /\ RRTyped /\ UTyped /\ RequestsSteady /\ CacheExact /\ ExitingDrains
  BY DEF UInv, RRInv
<1> DEFINE c == up[r].conn
           save == MaySave(r, up[r].ft = "keep")
<1>1. /\ up[r].st = "finish" /\ up' = [up EXCEPT ![r] = FreshUp] /\ exiting' = exiting
      /\ IF rr[r].held THEN FreePeer(r, FALSE, TRUE) ELSE InitPeer(r)
      /\ LeftBy(c, save)
  BY DEF Finish
<1>2. RRInv' /\ rr'[r].held = FALSE /\ \A x \in Reqs : x # r => rr'[x].held = rr[x].held
  <2>1. RRInv'
    BY <1>1, FreePeerStep, InitPeerStep
  <2>2. ~rr'[r].held /\ \A x \in Reqs : x # r => rr'[x].held = rr[x].held
    BY <1>1, LooseHeld
  <2> QED BY <2>1, <2>2 DEF RRInv, RRTyped, DataRecord
<1>3. FreshUp \in UpRecord /\ FreshUp.conn = None /\ FreshUp.tries <= Cardinality(Peers)
      /\ Steady(FreshUp, FALSE)
  <2>1. FreshUp \in UpRecord /\ FreshUp.conn = None /\ FreshUp.tries = 0 /\ FreshUp.sends = 0
        /\ FreshUp.st = "idle"
    BY DEF FreshUp, UpRecord, Steps, Ends
  <2>2. 0 <= Cardinality(Peers)
    BY TriesBound
  <2> QED BY <2>1, <2>2 DEF Steady, Placed, Once, Unseen
<1>4. up[r] \in UpRecord /\ Steady(up[r], rr[r].held) /\ c \in Conns \cup {None}
  BY DEF UTyped, RequestsSteady, UpRecord
<1>5. Apart
  BY DEF CacheExact, Apart
<1>6. InUse' = InUse \ {c} /\ Apart'
  <2>1. up'[r].conn = None /\ \A x \in Reqs : x # r => up'[x].conn = up[x].conn
    BY <1>1, <1>3 DEF UTyped
  <2> QED BY <1>5, <2>1, InUseDropped
<1>7. c # None => c \in InUse
  BY DEF InUse
<1>8. /\ conn' \in [Conns -> ConnRecord] /\ cache' \in Seq(Conns) /\ free' \in Nat
      /\ CacheExact' /\ ExitingDrains'
  <2>1. save => c # None /\ ~exiting
    BY <1>1, <1>4 DEF MaySave, Steady, Placed
  <2> HIDE DEF c, save
  <2> QED BY <1>1, <1>4, <1>6, <1>7, <2>1, LeftConn
<1>9. Steady(FreshUp, rr'[r].held)
  BY <1>2, <1>3
<1> HIDE DEF c, save
<1> QED BY <1>1, <1>2, <1>3, <1>8, <1>9, RequestStep

(* The steps of the servers, the idle connections and the worker, in which   *)
(* the requests and the balancer stay as they are.                           *)
LEMMA OtherStep ==
    ASSUME UInv, UNCHANGED up, RRInv', \A x \in Reqs : rr'[x].held = rr[x].held,
           conn' \in [Conns -> ConnRecord], cache' \in Seq(Conns), free' \in Nat,
           exiting' \in BOOLEAN, IsInjective(cache'), free' + Len(cache') = MaxCached,
           {c \in Conns : conn'[c].open} = ToSet(cache') \cup InUse, ToSet(cache') \cap InUse = {},
           ExitingDrains'
    PROVE  UInv'
<1> UTyped /\ RequestsSteady /\ CacheExact
  BY DEF UInv
<1>1. InUse' = InUse /\ Apart'
  BY InUseSame DEF CacheExact, Apart
<1>2. CacheExact'
  BY <1>1 DEF CacheExact, Apart
<1>3. UTyped'
  BY DEF UTyped
<1>4. RequestsSteady'
  <2> SUFFICES ASSUME NEW x \in Reqs PROVE Steady(up[x], rr'[x].held)
    BY DEF RequestsSteady, Steady, Placed, Once, Unseen, Single
  <2> QED BY DEF RequestsSteady
<1> QED BY <1>2, <1>3, <1>4 DEF UInv

LEMMA ServerClosesStep ==
    ASSUME UInv, NEW c \in Conns, ServerCloses(c), PeersAssumption
    PROVE  UInv'
<1> RRInv /\ UTyped /\ CacheExact /\ ExitingDrains
  BY DEF UInv
<1> DEFINE d == [conn[c] EXCEPT !.dead = TRUE]
<1>1. conn[c].open /\ conn' = [conn EXCEPT ![c] = d] /\ UNCHANGED <<rrvars, cache, free, up, exiting>>
  BY DEF ServerCloses
<1>2. d \in ConnRecord /\ d.open
  BY <1>1 DEF UTyped, ConnRecord
<1> HIDE DEF d
<1>3. conn' \in [Conns -> ConnRecord] /\ \A x \in Conns : conn'[x].open = conn[x].open
  <2>1. conn' \in [Conns -> ConnRecord] /\ conn'[c] = d /\ \A x \in Conns : x # c => conn'[x] = conn[x]
    BY <1>1, <1>2 DEF UTyped
  <2>2. d.open = conn[c].open
    BY <1>1, <1>2 DEF UTyped, ConnRecord
  <2> QED BY <2>1, <2>2
<1>4. RRInv' /\ rr' = rr
  <2>1. UNCHANGED rrvars
    BY <1>1
  <2> QED BY <2>1, RRStep DEF rrvars
<1> QED BY <1>1, <1>3, <1>4, OtherStep DEF UTyped, CacheExact, ExitingDrains

LEMMA CloseHandlerStep ==
    ASSUME PeersAssumption, UpstreamAssumption, UInv, NEW i, CloseHandler(i)
    PROVE  UInv'
<1> RRInv /\ UTyped /\ CacheExact /\ ExitingDrains
  BY DEF UInv
<1> DEFINE c == cache[i]
<1>1. /\ i \in DOMAIN cache /\ conn' = Shut(c) /\ cache' = RemoveAt(cache, i) /\ free' = free + 1
      /\ UNCHANGED <<rrvars, up, exiting>>
  BY DEF CloseHandler, Taken
<1>2. cache \in Seq(Conns) /\ IsInjective(cache) /\ free \in Nat /\ free + Len(cache) = MaxCached
      /\ Len(cache) \in Nat
  BY DEF UTyped, CacheExact
<1>3. i \in 1..Len(cache)
  BY <1>1, <1>2
<1>4. /\ RemoveAt(cache, i) \in Seq(Conns) /\ Len(RemoveAt(cache, i)) = Len(cache) - 1
      /\ IsInjective(RemoveAt(cache, i))
      /\ ToSet(RemoveAt(cache, i)) = ToSet(cache) \ {c}
      /\ c \in ToSet(cache) /\ c \in Conns
  BY <1>2, <1>3, ListRemove
<1> HIDE DEF c
<1>5. conn' \in [Conns -> ConnRecord] /\ {d \in Conns : conn'[d].open} = Open \ {c}
  BY <1>1, <1>4, ShutConn
<1>6. {d \in Conns : conn'[d].open} = ToSet(cache') \cup InUse /\ ToSet(cache') \cap InUse = {}
  BY <1>1, <1>4, <1>5 DEF CacheExact, Open
<1>7. RRInv' /\ rr' = rr
  <2>1. UNCHANGED rrvars
    BY <1>1
  <2> QED BY <2>1, RRStep DEF rrvars
<1>8. ExitingDrains'
  <2>1. cache # <<>>
    BY <1>3
  <2> QED BY <1>1, <2>1 DEF ExitingDrains
<1>9. free' \in Nat /\ free' + Len(cache') = MaxCached
  BY <1>1, <1>2, <1>4
<1>10. exiting' \in BOOLEAN /\ UNCHANGED up
  BY <1>1 DEF UTyped
<1> QED BY <1>1, <1>4, <1>5, <1>6, <1>7, <1>8, <1>9, <1>10, OtherStep

LEMMA ExitStep ==
    ASSUME PeersAssumption, UpstreamAssumption, UInv, Exit
    PROVE  UInv'
<1> RRInv /\ UTyped /\ CacheExact
  BY DEF UInv
<1>1. /\ exiting' = TRUE /\ cache' = <<>> /\ free' = free + Len(cache) /\ UNCHANGED <<rrvars, up>>
      /\ conn' = [c \in Conns |-> IF Contains(cache, c) THEN Closed ELSE conn[c]]
  BY DEF Exit
<1>2. cache \in Seq(Conns) /\ free \in Nat /\ free + Len(cache) = MaxCached /\ Len(cache) \in Nat
      /\ conn \in [Conns -> ConnRecord]
  BY DEF UTyped, CacheExact
<1>3. \A c : Contains(cache, c) <=> c \in ToSet(cache)
  BY <1>2 DEF Contains, ToSet
<1>4. Closed \in ConnRecord /\ ~Closed.open
  BY DEF Closed, ConnRecord
<1>5. conn' \in [Conns -> ConnRecord]
  BY <1>1, <1>2, <1>4
<1>6. {c \in Conns : conn'[c].open} = {c \in Conns : conn[c].open} \ ToSet(cache)
  BY <1>1, <1>2, <1>3, <1>4
<1>7. cache' \in Seq(Conns) /\ Len(cache') = 0 /\ ToSet(cache') = {} /\ IsInjective(cache')
  BY <1>1 DEF ToSet, IsInjective
<1>8. {c \in Conns : conn'[c].open} = ToSet(cache') \cup InUse /\ ToSet(cache') \cap InUse = {}
  BY <1>6, <1>7 DEF CacheExact
<1>9. RRInv' /\ rr' = rr
  <2>1. UNCHANGED rrvars
    BY <1>1
  <2> QED BY <2>1, RRStep DEF rrvars
<1>10. free' \in Nat /\ free' + Len(cache') = MaxCached /\ exiting' \in BOOLEAN /\ ExitingDrains'
  BY <1>1, <1>2, <1>7 DEF ExitingDrains
<1>11. UNCHANGED up
  BY <1>1
<1> QED BY <1>5, <1>7, <1>8, <1>9, <1>10, <1>11, OtherStep

LEMMA SecondStep ==
    ASSUME PeersAssumption, UInv, Second
    PROVE  UInv'
<1> RRInv /\ RRTyped /\ UTyped /\ CacheExact /\ ExitingDrains
  BY DEF UInv, RRInv
<1>1. Tick /\ UNCHANGED <<conn, cache, free, up, exiting>>
  BY DEF Second
<1>2. RRInv'
  BY <1>1, TickStep
<1>3. \A x \in Reqs : rr'[x].held = rr[x].held
  <2> SUFFICES ASSUME NEW x \in Reqs PROVE rr'[x].held = rr[x].held
    OBVIOUS
  <2>1. rr[x] \in DataRecord
    BY DEF RRTyped
  <2>2. rr'[x] = IF rr[x].held THEN [rr[x] EXCEPT !.age = Older(rr[x].age)] ELSE rr[x]
    BY <1>1 DEF Tick
  <2> QED BY <2>1, <2>2 DEF DataRecord
<1> QED BY <1>1, <1>2, <1>3, OtherStep DEF UTyped, CacheExact, ExitingDrains

LEMMA UpstreamInit ==
    ASSUME PeersAssumption, UpstreamAssumption, Init
    PROVE  UInv
<1>1. /\ RRInit /\ conn = [c \in Conns |-> Closed] /\ cache = <<>> /\ free = MaxCached
      /\ up = [r \in Reqs |-> FreshUp] /\ exiting = FALSE
  BY DEF Init
<1>2. RRInv
  BY <1>1, RRInitInv
<1>3. MaxCached \in Nat
  BY DEF UpstreamAssumption
<1>4. Closed \in ConnRecord /\ ~Closed.open
  BY DEF Closed, ConnRecord
<1>5. FreshUp \in UpRecord /\ FreshUp.conn = None /\ FreshUp.tries = 0 /\ FreshUp.sends = 0
      /\ FreshUp.st = "idle"
  BY DEF FreshUp, UpRecord, Steps, Ends
<1>6. \A r \in Reqs : up[r] = FreshUp /\ rr[r].held = FALSE
  BY <1>1 DEF RRInit, FreshData
<1>7. UTyped
  <2>1. 0 <= Cardinality(Peers)
    BY TriesBound
  <2>2. up \in [Reqs -> UpRecord] /\ \A r \in Reqs : up[r].tries <= Cardinality(Peers)
    <3> HIDE DEF FreshUp, UpRecord
    <3> QED BY <1>1, <1>5, <1>6, <2>1
  <2>3. conn \in [Conns -> ConnRecord]
    BY <1>1, <1>4
  <2>4. cache \in Seq(Conns) /\ free \in Nat /\ exiting \in BOOLEAN
    <3>1. <<>> \in Seq(Conns)
      OBVIOUS
    <3>2. cache = <<>> /\ free = MaxCached /\ exiting = FALSE
      BY <1>1
    <3> QED BY <1>3, <3>1, <3>2
  <2> QED BY <2>2, <2>3, <2>4 DEF UTyped
<1>8. RequestsSteady
  BY <1>5, <1>6 DEF RequestsSteady, Steady, Placed, Once, Unseen
<1>9. CacheExact
  <2>1. InUse = {}
    BY <1>5, <1>6 DEF InUse
  <2>2. Len(cache) = 0 /\ ToSet(cache) = {} /\ IsInjective(cache)
    BY <1>1 DEF ToSet, IsInjective
  <2>3. {c \in Conns : conn[c].open} = {}
    BY <1>1, <1>4
  <2> QED BY <1>1, <1>3, <1>5, <1>6, <2>1, <2>2, <2>3 DEF CacheExact
<1>10. ExitingDrains
  BY <1>1 DEF ExitingDrains
<1> QED BY <1>2, <1>7, <1>8, <1>9, <1>10 DEF UInv

LEMMA UpstreamStep ==
    ASSUME PeersAssumption, UpstreamAssumption, UInv, [Next]_vars
    PROVE  UInv'
<1>1. CASE UNCHANGED vars
  <2>1. UNCHANGED <<conn, cache, free, up, exiting>> /\ UNCHANGED rrvars
    BY <1>1 DEF vars
  <2>2. RRInv'
    BY <2>1, RRStep DEF UInv
  <2>3. \A x \in Reqs : rr'[x].held = rr[x].held
    BY <2>1 DEF rrvars
  <2> QED BY <2>1, <2>2, <2>3, OtherStep DEF UInv, UTyped, CacheExact, ExitingDrains
<1>2. CASE Next
  <2>1. ASSUME NEW r \in Reqs, NEW post \in BOOLEAN, Start(r, post) PROVE UInv'
    BY <2>1, StartStep
  <2>2. ASSUME NEW r \in Reqs, Handler(r) PROVE UInv'
    BY <2>2, ConnectCachedStep, ConnectNewStep, ConnectBusyStep, NextServerStep, FinishStep
       DEF Handler
  <2>3. ASSUME NEW r \in Reqs, Event(r) \/ ClientGone(r) PROVE UInv'
    BY <2>3, EventStep
  <2>4. ASSUME NEW c \in Conns, ServerCloses(c) PROVE UInv'
    BY <2>4, ServerClosesStep
  <2>5. ASSUME NEW i \in 1..MaxCached, CloseHandler(i) PROVE UInv'
    BY <2>5, CloseHandlerStep
  <2>6. CASE Exit
    BY <2>6, ExitStep
  <2>7. CASE Second
    BY <2>7, SecondStep
  <2> QED BY <1>2, <2>1, <2>2, <2>3, <2>4, <2>5, <2>6, <2>7 DEF Next
<1> QED BY <1>1, <1>2

(* Every step of a proxied request is, for the balancer, one of its own      *)
(* steps or none.                                                            *)
LEMMA FollowedStep ==
    ASSUME PeersAssumption, UpstreamAssumption, Failing = Peers, UInv, [Next]_vars
    PROVE  BalancerFollowed
<1>1. ASSUME NEW r \in Reqs, GetPeer(r) PROVE BalancerFollowed
  BY <1>1 DEF BalancerFollowed, RRNext
<1>2. ASSUME NEW r \in Reqs, GetBusy(r) PROVE BalancerFollowed
  BY <1>2 DEF BalancerFollowed, RRNext
<1>3. ASSUME NEW r \in Reqs, InitPeer(r) PROVE BalancerFollowed
  BY <1>3 DEF BalancerFollowed, RRNext
<1>4. ASSUME NEW r \in Reqs, FreePeer(r, FALSE, TRUE) PROVE BalancerFollowed
  BY <1>4 DEF BalancerFollowed, RRNext
<1>5. ASSUME NEW r \in Reqs, NEW failed \in BOOLEAN, FreePeer(r, failed, FALSE)
      PROVE  BalancerFollowed
  <2>1. rr[r].held
    BY <1>5 DEF FreePeer
  <2>2. rr[r].current \in Failing
    BY <2>1 DEF UInv, RRInv, RRTyped
  <2> QED BY <1>5, <2>2 DEF BalancerFollowed, RRNext
<1>6. ASSUME UNCHANGED rrvars PROVE BalancerFollowed
  BY <1>6 DEF BalancerFollowed
<1>7. CASE UNCHANGED vars
  BY <1>6, <1>7 DEF vars
<1>8. CASE Next
  <2>1. ASSUME NEW r \in Reqs, NEW post \in BOOLEAN, Start(r, post) PROVE BalancerFollowed
    BY <1>3, <2>1 DEF Start
  <2>2. ASSUME NEW r \in Reqs, Handler(r) PROVE BalancerFollowed
    <3>1. CASE ConnectCached(r)
      BY <1>1, <3>1 DEF ConnectCached
    <3>2. ASSUME NEW res \in {"again", "declined", "failed"}, ConnectNew(r, res)
          PROVE  BalancerFollowed
      <4>1. GetPeer(r)
        BY <3>2 DEF ConnectNew
      <4> QED BY <1>1, <4>1
    <3>3. CASE ConnectBusy(r)
      BY <1>2, <3>3 DEF ConnectBusy
    <3>4. ASSUME NEW keepalive \in BOOLEAN, NEW stop \in BOOLEAN, NextServer(r, keepalive, stop)
          PROVE  BalancerFollowed
      <4>1. GivenBack(r, up[r])
        BY <3>4 DEF NextServer
      <4>2. FreeFor(up[r]) \in BOOLEAN
        BY DEF FreeFor
      <4>3. CASE rr[r].held
        BY <1>5, <4>1, <4>2, <4>3 DEF GivenBack
      <4>4. CASE ~rr[r].held
        BY <1>6, <4>1, <4>4 DEF GivenBack
      <4> QED BY <4>3, <4>4
    <3>5. CASE Finish(r)
      <4>1. IF rr[r].held THEN FreePeer(r, FALSE, TRUE) ELSE InitPeer(r)
        BY <3>5 DEF Finish
      <4> QED BY <1>3, <1>4, <4>1
    <3> QED BY <2>2, <3>1, <3>2, <3>3, <3>4, <3>5 DEF Handler
  <2>3. ASSUME NEW r \in Reqs, Event(r) \/ ClientGone(r) PROVE BalancerFollowed
    BY <1>6, <2>3 DEF Event, ClientGone, Connected, Fails, ErrorStatus, Answer
  <2>4. ASSUME NEW c \in Conns, ServerCloses(c) PROVE BalancerFollowed
    BY <1>6, <2>4 DEF ServerCloses
  <2>5. ASSUME NEW i \in 1..MaxCached, CloseHandler(i) PROVE BalancerFollowed
    BY <1>6, <2>5 DEF CloseHandler
  <2>6. CASE Exit
    BY <1>6, <2>6 DEF Exit
  <2>7. CASE Second
    BY <2>7 DEF Second, BalancerFollowed, RRNext
  <2> QED BY <1>8, <2>1, <2>2, <2>3, <2>4, <2>5, <2>6, <2>7 DEF Next
<1> QED BY <1>7, <1>8

-----------------------------------------------------------------------------
(* The theorems of the proxied requests: of every number of requests,        *)
(* servers and connections and every proxy_next_upstream.                    *)

(* The inductive invariant: what a request holds is what its step says, the  *)
(* connections are accounted for, and the balancer keeps its own.            *)
THEOREM UpstreamInvariant ==
    ASSUME PeersAssumption, UpstreamAssumption
    PROVE  Spec => []UInv
<1>1. Init => UInv
  BY UpstreamInit
<1>2. UInv /\ [Next]_vars => UInv'
  BY UpstreamStep
<1> QED BY <1>1, <1>2, PTL DEF Spec

(* The type invariant of the balancer and the requests: weights, failures,   *)
(* connections and tries stay in range.                                      *)
THEOREM UpstreamTypeOK ==
    ASSUME PeersAssumption, UpstreamAssumption
    PROVE  Spec => []TypeOK
<1>1. ASSUME UInv PROVE TypeOK
  <2>1. RRTypeOK
    BY <1>1, RRTypes DEF UInv
  <2>2. free \in 0..MaxCached /\ Len(cache) <= MaxCached
    <3>1. free \in Nat /\ Len(cache) \in Nat /\ free + Len(cache) = MaxCached
      BY <1>1 DEF UInv, UTyped, CacheExact
    <3> QED BY <3>1
  <2>3. Cardinality(Peers) \in Nat
    BY TriesBound
  <2>4. \A r \in Reqs : up[r].tries \in 0..Cardinality(Peers) + 1
    BY <1>1, <2>3 DEF UInv, UTyped, UpRecord
  <2> QED BY <1>1, <2>1, <2>2, <2>4 DEF TypeOK, UInv, UTyped, UpRecord, ConnRecord, Steps
<1> QED BY <1>1, UpstreamInvariant, PTL

(* Every open connection to a server is idle in the cache of                 *)
(* ngx_http_upstream_keepalive_module.c or used by one request, and no item  *)
(* of the cache is lost.                                                     *)
THEOREM CacheExactHolds ==
    ASSUME PeersAssumption, UpstreamAssumption
    PROVE  Spec => []CacheExact
<1>1. UInv => CacheExact
  BY DEF UInv
<1> QED BY <1>1, UpstreamInvariant, PTL

(* A request that must not be repeated is sent at most once, through every   *)
(* retry of ngx_http_upstream_next.                                          *)
THEOREM NotResentHolds ==
    ASSUME PeersAssumption, UpstreamAssumption
    PROVE  Spec => []NotResent
<1>1. UInv => NotResent
  BY DEF UInv, RequestsSteady, Steady, Once, NotResent
<1> QED BY <1>1, UpstreamInvariant, PTL

(* An exiting worker keeps no idle connection, also when a request that ends *)
(* later could have left one (ngx_http_upstream_free_keepalive_peer).        *)
THEOREM ExitingDrainsHolds ==
    ASSUME PeersAssumption, UpstreamAssumption
    PROVE  Spec => []ExitingDrains
<1>1. UInv => ExitingDrains
  BY DEF UInv
<1> QED BY <1>1, UpstreamInvariant, PTL

(* With the "error" of the default proxy_next_upstream, the client of a      *)
(* single server never sees that the server closed its idle connections:     *)
(* ngx_http_upstream_next gives a cached connection that fails its try back. *)
THEOREM StaleHiddenHolds ==
    ASSUME PeersAssumption, UpstreamAssumption, "error" \in NextOn
    PROVE  Spec => []StaleHidden
<1>1. UInv => StaleHidden
  BY DEF UInv, RequestsSteady, Steady, Unseen, StaleHidden
<1> QED BY <1>1, UpstreamInvariant, PTL

(* Below the requests the balancer keeps exact counts and balanced weights,  *)
(* and tries a server that was taken out with one request at a time.         *)
THEOREM UpstreamBalanced ==
    ASSUME PeersAssumption, UpstreamAssumption
    PROVE  Spec => [](ConnsExact /\ WeightsBalance /\ ProbesApart)
<1>1. UInv => ConnsExact /\ WeightsBalance /\ ProbesApart
  BY RRProbes DEF UInv, RRInv
<1> QED BY <1>1, UpstreamInvariant, PTL

(* A request takes a server, gives it back exactly once whatever its end, and *)
(* only then takes the next, when every server may fail: each step of the     *)
(* handlers of ngx_http_upstream.c is one call of the balancer or none.       *)
THEOREM BalancerFollowedHolds ==
    ASSUME PeersAssumption, UpstreamAssumption, Failing = Peers
    PROVE  Spec => [][BalancerFollowed]_vars
<1>1. UInv /\ [Next]_vars => [BalancerFollowed]_vars
  BY FollowedStep
<1> QED BY <1>1, UpstreamInvariant, PTL DEF Spec

(* The requests implement the specification of the balancer by itself.       *)
THEOREM UpstreamRefinesBalancer ==
    ASSUME PeersAssumption, UpstreamAssumption, Failing = Peers
    PROVE  Spec => RRSpec
<1>1. Init => RRInit
  BY DEF Init
<1>2. UInv /\ [Next]_vars => [RRNext]_rrvars
  BY FollowedStep DEF BalancerFollowed
<1> QED BY <1>1, <1>2, UpstreamInvariant, PTL DEF Spec, RRSpec

==============================================================================
