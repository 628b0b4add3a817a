----------------------------- MODULE Induction -----------------------------
(***************************************************************************)
(* Induction on the natural numbers, stated over sets rather than over a   *)
(* predicate, and what follows from it for functions that are defined by   *)
(* recursion on a number: they exist, so they satisfy their definition.    *)
(***************************************************************************)
EXTENDS Integers, WellFoundedInduction, TLAPS

(* A set of numbers that is not empty has a least one.                     *)
LEMMA LeastNat ==
    ASSUME NEW T \in SUBSET Nat, T # {}
    PROVE  \E x \in T : \A y \in T : x <= y
<1> DEFINE less == {p \in Nat \X Nat : p[1] < p[2]}
<1>1. IsWellFoundedOn(less, Nat)
  BY NatLessThanWellFounded DEF OpToRel
<1>2. \A x, y \in Nat : <<y, x>> \notin less => x <= y
  OBVIOUS
<1> HIDE DEF less
<1>3. PICK x \in T : \A y \in T : <<y, x>> \notin less
  BY <1>1, WFMin
<1> QED BY <1>2, <1>3

(* Numbers that include 0 and every successor are all the numbers.         *)
LEMMA SetInduction ==
    ASSUME NEW T \in SUBSET Nat, 0 \in T, \A n \in T : n + 1 \in T
    PROVE  T = Nat
<1> SUFFICES ASSUME Nat \ T # {} PROVE FALSE
  OBVIOUS
<1>1. PICK x \in Nat \ T : \A y \in Nat \ T : x <= y
  BY LeastNat
<1>2. x - 1 \in T
  BY <1>1
<1> QED BY <1>1, <1>2

(* f starts from base, and step gives its value at k from k and the value  *)
(* before it, up to n.                                                     *)
Iterates(f, S, base, step, n) ==
    /\ f \in [0..n -> S]
    /\ f[0] = base
    /\ \A k \in 1..n : f[k] = step[<<k, f[k - 1]>>]

(* A function defined that way exists.                                     *)
LEMMA RecursionExists ==
    ASSUME NEW S, NEW base \in S, NEW step \in [Nat \X S -> S], NEW last \in Nat
    PROVE  \E f : Iterates(f, S, base, step, last)
<1> DEFINE T == {n \in Nat : \E f : Iterates(f, S, base, step, n)}
<1>1. Iterates([i \in 0..0 |-> base], S, base, step, 0)
  BY DEF Iterates
<1>2. ASSUME NEW n \in Nat, NEW f, Iterates(f, S, base, step, n)
      PROVE  \E g : Iterates(g, S, base, step, n + 1)
  <2> DEFINE g == [i \in 0..n + 1 |-> IF i = n + 1 THEN step[<<n + 1, f[n]>>] ELSE f[i]]
  <2>1. f[n] \in S /\ step[<<n + 1, f[n]>>] \in S
    BY <1>2 DEF Iterates
  <2>2. g \in [0..n + 1 -> S] /\ g[0] = base
    BY <1>2, <2>1 DEF Iterates
  <2>3. ASSUME NEW k \in 1..n + 1 PROVE g[k] = step[<<k, g[k - 1]>>]
    <3>1. k - 1 \in 0..n /\ g[k - 1] = f[k - 1]
      OBVIOUS
    <3>2. CASE k = n + 1
      <4>1. g[k] = step[<<n + 1, f[n]>>] /\ f[k - 1] = f[n]
        BY <3>2
      <4> QED BY <3>1, <3>2, <4>1
    <3>3. CASE k # n + 1
      <4>1. k \in 1..n /\ g[k] = f[k]
        BY <3>3
      <4> QED BY <1>2, <3>1, <4>1 DEF Iterates
    <3> QED BY <3>2, <3>3
  <2> HIDE DEF g
  <2> QED BY <2>2, <2>3 DEF Iterates
<1>3. 0 \in T /\ \A n \in T : n + 1 \in T
  BY <1>1, <1>2
<1> HIDE DEF T
<1>4. last \in T
  BY <1>3, SetInduction DEF T
<1> QED BY <1>4 DEF T

(* u is the sum of the terms up to each index, from i on.                  *)
Sums(u, term, i, j) ==
    /\ u = [k \in i..j |-> u[k]]
    /\ u[i] = 0
    /\ \A k \in i + 1..j : u[k] = u[k - 1] + term[k]

(* The sums of integers exist.                                             *)
LEMMA SumsExist ==
    ASSUME NEW i \in Int, NEW j \in Int, i <= j, NEW term \in [i + 1..j -> Int]
    PROVE  \E u : Sums(u, term, i, j)
<1> DEFINE step == [p \in Nat \X Int |-> IF p[1] \in 1..j - i THEN p[2] + term[i + p[1]] ELSE 0]
<1>1. \A m \in 1..j - i : i + m \in i + 1..j
  OBVIOUS
<1>2. step \in [Nat \X Int -> Int]
  BY <1>1
<1>3. \A m \in 1..j - i : \A x \in Int : step[<<m, x>>] = x + term[i + m]
  OBVIOUS
<1> HIDE DEF step
<1>4. j - i \in Nat /\ 0 \in Int
  OBVIOUS
<1>5. PICK f : Iterates(f, Int, 0, step, j - i)
  BY <1>2, <1>4, RecursionExists
<1>6. /\ f \in [0..j - i -> Int] /\ f[0] = 0
      /\ \A m \in 1..j - i : f[m] = f[m - 1] + term[i + m]
  <2>1. f \in [0..j - i -> Int] /\ f[0] = 0
    BY <1>5 DEF Iterates
  <2>2. ASSUME NEW m \in 1..j - i PROVE f[m] = f[m - 1] + term[i + m]
    <3>1. f[m] = step[<<m, f[m - 1]>>] /\ f[m - 1] \in Int
      BY <1>5, <2>1 DEF Iterates
    <3> QED BY <1>3, <3>1
  <2> QED BY <2>1, <2>2
<1> DEFINE u == [k \in i..j |-> f[k - i]]
<1>7. u = [k \in i..j |-> u[k]] /\ u[i] = 0
  BY <1>6
<1>8. ASSUME NEW k \in i + 1..j PROVE u[k] = u[k - 1] + term[k]
  <2>1. k - i \in 1..j - i /\ (k - i) - 1 = (k - 1) - i /\ i + (k - i) = k
    OBVIOUS
  <2>2. f[k - i] = f[(k - 1) - i] + term[k]
    BY <1>6, <2>1
  <2> QED BY <2>2
<1> HIDE DEF u
<1> QED BY <1>7, <1>8 DEF Sums

(* They are integers, and natural numbers if the terms are.                *)
LEMMA SumsType ==
    ASSUME NEW i \in Int, NEW j \in Int, NEW S \in {Nat, Int}, NEW term \in [i + 1..j -> S],
           NEW u, Sums(u, term, i, j)
    PROVE  u \in [i..j -> S]
<1> DEFINE T == {m \in Nat : i + m <= j => u[i + m] \in S}
<1>1. 0 \in T
  BY DEF Sums
<1>2. ASSUME NEW m \in T PROVE m + 1 \in T
  <2>1. ASSUME i + (m + 1) <= j PROVE u[i + (m + 1)] \in S
    <3>1. i + (m + 1) \in i + 1..j /\ (i + (m + 1)) - 1 = i + m /\ u[i + m] \in S
      BY <2>1
    <3>2. u[i + (m + 1)] = u[i + m] + term[i + (m + 1)] /\ term[i + (m + 1)] \in S
      BY <3>1 DEF Sums
    <3> QED BY <3>1, <3>2
  <2> QED BY <2>1
<1>3. T = Nat
  <2> HIDE DEF T
  <2> QED BY <1>1, <1>2, SetInduction DEF T
<1>4. ASSUME NEW k \in i..j PROVE u[k] \in S
  <2>1. k - i \in Nat /\ i + (k - i) = k /\ k <= j
    OBVIOUS
  <2>2. k - i \in T
    BY <1>3, <2>1
  <2> QED BY <2>1, <2>2
<1>5. u = [k \in i..j |-> u[k]]
  BY DEF Sums
<1> QED BY <1>4, <1>5

(* There is one sequence of sums.                                          *)
LEMMA SumsUnique ==
    ASSUME NEW i \in Int, NEW j \in Int, NEW term, NEW u, NEW v,
           Sums(u, term, i, j), Sums(v, term, i, j)
    PROVE  u = v
<1> DEFINE T == {m \in Nat : i + m <= j => u[i + m] = v[i + m]}
<1>1. 0 \in T
  BY DEF Sums
<1>2. ASSUME NEW m \in T PROVE m + 1 \in T
  <2>1. ASSUME i + (m + 1) <= j PROVE u[i + (m + 1)] = v[i + (m + 1)]
    <3>1. i + (m + 1) \in i + 1..j /\ (i + (m + 1)) - 1 = i + m /\ u[i + m] = v[i + m]
      BY <2>1
    <3>2. /\ u[i + (m + 1)] = u[i + m] + term[i + (m + 1)]
          /\ v[i + (m + 1)] = v[i + m] + term[i + (m + 1)]
      BY <3>1 DEF Sums
    <3> QED BY <3>1, <3>2
  <2> QED BY <2>1
<1>3. T = Nat
  <2> HIDE DEF T
  <2> QED BY <1>1, <1>2, SetInduction DEF T
<1>4. ASSUME NEW k \in i..j PROVE u[k] = v[k]
  <2>1. k - i \in Nat /\ i + (k - i) = k /\ k <= j
    OBVIOUS
  <2>2. k - i \in T
    BY <1>3, <2>1
  <2> QED BY <2>1, <2>2
<1>5. u = [k \in i..j |-> u[k]] /\ v = [k \in i..j |-> v[k]]
  BY DEF Sums
<1> QED BY <1>4, <1>5
=============================================================================
