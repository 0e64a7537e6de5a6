--------------------------- MODULE Induction_proofs ---------------------------
(***************************************************************************)
(* Induction over the naturals stated for sets instead of predicates, so   *)
(* that it can be instantiated: a property is the set of numbers that have *)
(* it.  The proofs about counters and buffers use it for functions defined *)
(* by recursion over channels and ticks.                                   *)
(***************************************************************************)
EXTENDS Integers, FiniteSetTheorems, TLAPS

(* A set of naturals has a least element: without one, adding one maps its *)
(* lower bounds into themselves and misses only zero.                      *)
LEMMA LeastNumber ==
  ASSUME NEW S \in SUBSET Nat, S # {}
  PROVE  \E x \in S : \A y \in S : x <= y
<1> DEFINE Below == {n \in Nat : \A x \in S : n <= x}
           next  == [n \in Below |-> n + 1]
<1>1. IsFiniteSet(Below)
  <2>1. PICK x \in S : TRUE
    OBVIOUS
  <2>2. Below \in SUBSET (0 .. x) /\ x \in Nat
    BY <2>1
  <2>3. IsFiniteSet(0 .. x)
    BY <2>2, FS_Interval
  <2> HIDE DEF Below
  <2> QED
    BY <2>2, <2>3, FS_Subset
<1>2. \E x \in S : x \in Below
  <2> SUFFICES ASSUME \A x \in S : x \notin Below
               PROVE  FALSE
    OBVIOUS
  <2>1. \A n \in Below : n + 1 \in Below
    <3> TAKE n \in Below
    <3>1. \A x \in S : n <= x /\ n # x
      OBVIOUS
    <3>2. \A x \in S : n + 1 <= x
      BY <3>1
    <3> QED
      BY <3>2
  <2>2. next \in Injection(Below, Below)
    <3>1. next \in [Below -> Below]
      BY <2>1
    <3>2. \A m, n \in Below : next[m] = next[n] => m = n
      OBVIOUS
    <3> QED
      BY <3>1, <3>2 DEF Injection, IsInjective
  <2>3. next \in Surjection(Below, Below)
    BY <1>1, <2>2, FS_Injection
  <2>4. \E n \in Below : next[n] = 0
    <3>1. 0 \in Below
      OBVIOUS
    <3> QED
      BY <2>3, <3>1 DEF Surjection
  <2> QED
    BY <2>4
<1> QED
  BY <1>2

(* What holds of 0, and of each number below a bound whose predecessor has *)
(* it, holds up to the bound.                                              *)
LEMMA UpToTheBound ==
  ASSUME NEW N \in Nat, NEW S, 0 \in S,
         \A k \in 1 .. N : k - 1 \in S => k \in S
  PROVE  \A k \in 0 .. N : k \in S
<1> DEFINE Missing == {k \in 0 .. N : k \notin S}
<1> SUFFICES ASSUME Missing # {} PROVE FALSE
  OBVIOUS
<1>1. Missing \in SUBSET Nat
  OBVIOUS
<1>2. PICK m \in Missing : \A k \in Missing : m <= k
  <2> HIDE DEF Missing
  <2> QED
    BY <1>1, LeastNumber
<1>3. m \in 1 .. N /\ m \notin S
  OBVIOUS
<1>4. m - 1 \in 0 .. N /\ ~(m <= m - 1)
  BY <1>3
<1>5. m - 1 \in S
  BY <1>2, <1>4
<1> QED
  BY <1>3, <1>5

(* A function defined by recursion over an interval: from its first value  *)
(* and the step that leads from each value to the next.                    *)
IsChain(f, N, S, first, step) ==
  /\ f \in [0 .. N -> S] /\ f[0] = first
  /\ \A k \in 1 .. N : f[k] = step[k][f[k - 1]]

LEMMA ChainExists ==
  ASSUME NEW N \in Nat, NEW S, NEW first \in S,
         NEW step \in [1 .. N -> [S -> S]]
  PROVE  \E f : IsChain(f, N, S, first, step)
<1> DEFINE Chain(n, f) == IsChain(f, n, S, first, step)
           Reached == {n \in 0 .. N : \E f : Chain(n, f)}
<1>1. 0 \in Reached
  <2> DEFINE g == [k \in 0 .. 0 |-> first]
  <2>1. Chain(0, g)
    BY DEF IsChain
  <2> HIDE DEF g, Chain
  <2> QED
    BY <2>1
<1>2. ASSUME NEW n \in 1 .. N, n - 1 \in Reached
      PROVE  n \in Reached
  <2>1. PICK f : Chain(n - 1, f)
    BY <1>2
  <2> DEFINE g == [k \in 0 .. n |-> IF k < n THEN f[k] ELSE step[n][f[n - 1]]]
  <2>2. \A k \in 0 .. n - 1 : f[k] \in S /\ k \in 0 .. n /\ k < n
    BY <2>1 DEF IsChain
  <2>3. step[n][f[n - 1]] \in S
    <3>1. n - 1 \in 0 .. n - 1
      OBVIOUS
    <3>2. step[n] \in [S -> S] /\ f[n - 1] \in S
      BY <2>2, <3>1
    <3> QED
      BY <3>2
  <2>4. g \in [0 .. n -> S]
    BY <2>2, <2>3
  <2>5. g[0] = first
    BY <2>1, <2>2 DEF IsChain
  <2>6. \A k \in 1 .. n : g[k] = step[k][g[k - 1]]
    <3> TAKE k \in 1 .. n
    <3>1. g[k - 1] = f[k - 1]
      BY <2>2
    <3>2. CASE k = n
      <4>1. g[n] = step[n][f[n - 1]]
        OBVIOUS
      <4> HIDE DEF g
      <4> QED
        BY <3>1, <3>2, <4>1
    <3>3. CASE k < n
      <4>1. g[k] = f[k] /\ f[k] = step[k][f[k - 1]]
        BY <2>1, <3>3 DEF IsChain
      <4> HIDE DEF g
      <4> QED
        BY <3>1, <4>1
    <3> QED
      BY <3>2, <3>3
  <2>7. Chain(n, g)
    <3> HIDE DEF g
    <3> QED
      BY <2>4, <2>5, <2>6 DEF IsChain
  <2> HIDE DEF g, Chain
  <2> QED
    BY <2>7
<1> HIDE DEF Reached
<1>3. N \in Reached
  <2>1. \A k \in 0 .. N : k \in Reached
    BY <1>1, <1>2, UpToTheBound
  <2> QED
    BY <2>1
<1> QED
  BY <1>3 DEF Reached

(* Remainders, of which the provers know little.                           *)
LEMMA RemainderIsSmall ==
  ASSUME NEW a \in Nat, NEW r \in Nat \ {0}
  PROVE  /\ a % r \in 0 .. r - 1
         /\ a \in 0 .. r - 1 => a % r = a
         /\ a = r * (a \div r) + (a % r) /\ a \div r \in Nat
  OBVIOUS

LEMMA RemainderIsUnique ==
  ASSUME NEW n \in Nat, NEW r \in Nat \ {0}, NEW m \in Nat, NEW y \in 0 .. r - 1,
         n = r * m + y
  PROVE  n % r = y
  BY Z3

LEMMA RemaindersOfSums ==
  ASSUME NEW n \in Nat, NEW d \in Nat, NEW r \in Nat \ {0}
  PROVE  ((n % r) + d) % r = (n + d) % r
<1> DEFINE x == n % r
           q == n \div r
           y == (x + d) % r
           p == (x + d) \div r
<1>1. x \in 0 .. r - 1 /\ q \in Nat /\ n = r * q + x
  BY RemainderIsSmall, Zenon
<1>2. y \in 0 .. r - 1 /\ p \in Nat /\ x + d = r * p + y
  <2>1. x + d \in Nat
    BY <1>1
  <2> HIDE DEF x
  <2> QED
    BY <2>1, RemainderIsSmall, Zenon
<1> HIDE DEF x, q, y, p
<1>3. n + d = r * (q + p) + y /\ q + p \in Nat /\ n + d \in Nat
  <2>1. r * (q + p) = r * q + r * p /\ r * q \in Nat /\ r * p \in Nat
    BY <1>1, <1>2
  <2> QED
    BY <1>1, <1>2, <2>1
<1>4. (n + d) % r = y
  BY <1>2, <1>3, RemainderIsUnique
<1> QED
  BY <1>4 DEF y, x
=============================================================================
