----------------------------- MODULE Induction -----------------------------
(***************************************************************************)
(* Induction and recursion for proofs about recursive functions: the least *)
(* of some numbers, induction over a set of them, and the functions that   *)
(* recursion defines, which exist and keep to the values of their steps.   *)
(***************************************************************************)
EXTENDS Integers, WellFoundedInduction, TLAPS

(* The least of some natural numbers. *)
LEMMA NatMin ==
  ASSUME NEW T \in SUBSET Nat, T # {}
  PROVE  \E x \in T : \A y \in T : x <= y
PROOF
<1> DEFINE R == {ss \in Nat \X Nat : ss[1] < ss[2]}
<1>1. IsWellFoundedOn(R, Nat)
  BY NatLessThanWellFounded DEF OpToRel
<1>2. \A x, y \in Nat : x < y => <<x, y>> \in R
  OBVIOUS
<1> HIDE DEF R
<1>3. PICK x \in T : \A y \in T : ~(<<y, x>> \in R)
  BY <1>1, WFMin
<1>4. \A y \in T : ~(y < x)
  BY <1>2, <1>3
<1> QED BY <1>3, <1>4

(* Induction, for a set of numbers.                                         *)
LEMMA NatSetInduction ==
  ASSUME NEW N \in Nat, NEW T, 0 \in T, \A n \in 0 .. N - 1 : n \in T => n + 1 \in T
  PROVE  0..N \subseteq T
PROOF
<1> DEFINE F == 0..N \ T
<1> SUFFICES ASSUME F # {} PROVE FALSE
  OBVIOUS
<1>0. F \in SUBSET Nat
  OBVIOUS
<1>1. PICK x \in F : \A y \in F : x <= y
  <2> HIDE DEF F
  <2> QED BY <1>0, NatMin
<1>2. x # 0 /\ x - 1 \in 0 .. N - 1 /\ x - 1 \notin F
  BY <1>1
<1> QED BY <1>1, <1>2

(* f is defined by recursion from 0 to k. *)
Recurs(f, base, G, k) == f[0] = base /\ \A n \in 1..k : f[n] = G[n][f[n - 1]]

(* There is such a function. *)
LEMMA Recursion ==
  ASSUME NEW V, NEW base \in V, NEW N \in Nat, NEW G \in [1..N -> [V -> V]]
  PROVE  \E f \in [0..N -> V] : Recurs(f, base, G, N)
PROOF
<1> USE DEF Recurs
<1> DEFINE Upto(f, k) == f[0] = base /\ \A n \in 1..k : f[n] = G[n][f[n - 1]]
           T == {k \in 0..N : \E f \in [0..k -> V] : Upto(f, k)}
<1>1. 0 \in T
  <2> DEFINE f == [n \in 0..0 |-> base]
  <2>1. f \in [0..0 -> V] /\ f[0] = base
    OBVIOUS
  <2>2. Upto(f, 0)
    BY <2>1
  <2> HIDE DEF f, Upto
  <2> QED BY <2>1, <2>2
<1>2. \A k \in 0 .. N - 1 : k \in T => k + 1 \in T
  <2> SUFFICES ASSUME NEW k \in 0 .. N - 1, k \in T PROVE k + 1 \in T
    OBVIOUS
  <2>1. PICK f \in [0..k -> V] : Upto(f, k)
    OBVIOUS
  <2> DEFINE g == [n \in 0 .. k + 1 |-> IF n = k + 1 THEN G[k + 1][f[k]] ELSE f[n]]
  <2>2. g \in [0 .. k + 1 -> V] /\ g[k + 1] = G[k + 1][f[k]]
        /\ \A n \in 0..k : g[n] = f[n]
    OBVIOUS
  <2> HIDE DEF g
  <2>3. ASSUME NEW n \in 1 .. k + 1 PROVE g[n] = G[n][g[n - 1]]
    <3>1. CASE n = k + 1
      <4>1. n - 1 = k /\ k \in 0..k
        BY <3>1
      <4> QED BY <2>2, <3>1, <4>1
    <3>2. CASE n \in 1..k
      BY <2>1, <2>2, <3>2
    <3> QED BY <3>1, <3>2
  <2>4. Upto(g, k + 1)
    BY <2>1, <2>2, <2>3
  <2> HIDE DEF Upto
  <2> QED BY <2>2, <2>4
<1>3. 0..N \subseteq T
  <2> HIDE DEF T
  <2> QED BY <1>1, <1>2, NatSetInduction
<1> QED BY <1>3

(* A function defined by recursion whose steps are known on the values of V *)
(* only has its values in V.                                                *)
LEMMA RecursionType ==
  ASSUME NEW V, NEW base \in V, NEW N \in Nat, NEW G \in [1..N -> [V -> V]],
         NEW u, u = [i \in 0..N |-> u[i]], u[0] = base,
         \A i \in 1..N : u[i - 1] \in V => u[i] = G[i][u[i - 1]]
  PROVE  u \in [0..N -> V] /\ \A i \in 1..N : u[i] = G[i][u[i - 1]]
PROOF
<1> DEFINE T == {i \in 0..N : u[i] \in V}
<1>1. 0 \in T
  OBVIOUS
<1>2. \A i \in 0 .. N - 1 : i \in T => i + 1 \in T
  <2> SUFFICES ASSUME NEW i \in 0 .. N - 1, i \in T PROVE i + 1 \in T
    OBVIOUS
  <2>0. u[i] \in V /\ i + 1 \in 0..N
    OBVIOUS
  <2>1. i + 1 \in 1..N /\ (i + 1) - 1 = i
    OBVIOUS
  <2>2. u[i + 1] = G[i + 1][u[i]] /\ G[i + 1] \in [V -> V]
    BY <2>0, <2>1
  <2>3. u[i + 1] \in V
    BY <2>0, <2>2
  <2> QED BY <2>0, <2>3
<1>3. 0..N \subseteq T
  <2> HIDE DEF T
  <2> QED BY <1>1, <1>2, NatSetInduction
<1>4. \A i \in 0..N : u[i] \in V
  BY <1>3
<1>5. \A i \in 1..N : i - 1 \in 0..N
  OBVIOUS
<1> QED BY <1>4, <1>5

(* Induction over all numbers.                                              *)
LEMMA NatAll ==
  ASSUME NEW T, 0 \in T, \A i \in Nat : i \in T => i + 1 \in T
  PROVE  Nat \subseteq T
PROOF
<1> SUFFICES ASSUME NEW i \in Nat PROVE i \in T
  OBVIOUS
<1>1. \A j \in 0 .. i - 1 : j \in T => j + 1 \in T
  OBVIOUS
<1>2. 0..i \subseteq T
  BY <1>1, NatSetInduction
<1>3. i \in 0..i
  OBVIOUS
<1> QED BY <1>2, <1>3
=============================================================================
