---------------------------- MODULE ShamirProofs ----------------------------
(***************************************************************************)
(* gf_mul and gf_inv make a field of the bytes; a share of split() is the  *)
(* value of a polynomial over it; reconstruct() finds the polynomial of    *)
(* the shares again when they are k or more, and when they are fewer there *)
(* is one for every secret.  For every length, threshold, draw of the      *)
(* coefficients and set of shares.                                         *)
(*                                                                         *)
(* In order: bytes as sums of bits, and functions that are additive on     *)
(* them; the laws of gf_mul; squares and the inverse; the textbook product *)
(* and the theorems about the loop of gf_mul; polynomials, their roots,    *)
(* Lagrange's interpolation and Horner's scheme; the theorems about        *)
(* sharing; and that k - 1 shares leave one draw for every secret.         *)
(***************************************************************************)
EXTENDS Shamir, FieldMul, Induction, FiniteSetTheorems

(* The bits of exclusive or, of a shift and of a product with x: exclusive  *)
(* or is an operation of bytes, associative and commutative, and its own    *)
(* inverse.                                                                 *)
LEMMA XorLaws ==
  /\ \A a, b \in Byte : Xor(a, b) \in Byte
  /\ Zero \in Byte /\ One \in Byte /\ One # Zero
  /\ \A a, b : Xor(a, b) = Xor(b, a)
  /\ \A a, b, c : Xor(Xor(a, b), c) = Xor(a, Xor(b, c))
  /\ \A a, b, c, d : Xor(Xor(a, b), Xor(c, d)) = Xor(Xor(a, c), Xor(b, d))
  /\ \A a : Xor(a, a) = Zero
  /\ \A a \in Byte : Xor(a, Zero) = a /\ Xor(Zero, a) = a
  /\ \A a, b : Xor(a, b) = Zero => a = b
PROOF
<1>1. \A a, b \in Byte : Xor(a, b) \in Byte
  BY DEF Xor, Byte
<1>2. Zero \in Byte /\ One \in Byte /\ One # Zero
  BY DEF Zero, One, Byte
<1>3. /\ \A a, b : Xor(a, b) = Xor(b, a)
      /\ \A a, b, c : Xor(Xor(a, b), c) = Xor(a, Xor(b, c))
  BY DEF Xor
<1>4. \A a, b, c, d : Xor(Xor(a, b), Xor(c, d)) = Xor(Xor(a, c), Xor(b, d))
  BY DEF Xor
<1>5. \A a : Xor(a, a) = Zero
  BY DEF Xor, Zero
<1>6. \A a \in Byte : Xor(a, Zero) = a /\ Xor(Zero, a) = a
  BY DEF Xor, Zero
<1>7. \A a, b : Xor(a, b) = Zero => a = b
  BY DEF Xor, Zero
<1> QED BY <1>1, <1>2, <1>3, <1>4, <1>5, <1>6, <1>7

(* Two bytes are one when they have the same bits.                          *)
LEMMA SameBits ==
  ASSUME NEW a \in Byte, NEW b \in Byte,
         0 \in a <=> 0 \in b, 1 \in a <=> 1 \in b, 2 \in a <=> 2 \in b, 3 \in a <=> 3 \in b,
         4 \in a <=> 4 \in b, 5 \in a <=> 5 \in b, 6 \in a <=> 6 \in b, 7 \in a <=> 7 \in b
  PROVE  a = b
PROOF
<1>1. \A i \in 0..7 : i \in a <=> i \in b
  OBVIOUS
<1> QED BY <1>1 DEF Byte

(* The bits of a byte times x: each moves up, and the one carried out comes *)
(* back at 0, 1, 3 and 4.                                                   *)
LEMMA TimesXBits ==
  ASSUME NEW a \in Byte
  PROVE  /\ TimesX(a) \in Byte
         /\ 0 \in TimesX(a) <=> 7 \in a
         /\ 1 \in TimesX(a) <=> ~(0 \in a <=> 7 \in a)
         /\ 2 \in TimesX(a) <=> 1 \in a
         /\ 3 \in TimesX(a) <=> ~(2 \in a <=> 7 \in a)
         /\ 4 \in TimesX(a) <=> ~(3 \in a <=> 7 \in a)
         /\ 5 \in TimesX(a) <=> 4 \in a
         /\ 6 \in TimesX(a) <=> 5 \in a
         /\ 7 \in TimesX(a) <=> 6 \in a
PROOF
<1>1. TimesX(a) \in Byte
  BY DEF TimesX, Byte, ShiftLeft, Xor
<1> QED BY <1>1 DEF TimesX, Byte, ShiftLeft, Xor

(* TimesX is additive.                                                      *)
LEMMA TimesXAdditive ==
  ASSUME NEW a \in Byte, NEW b \in Byte
  PROVE  TimesX(Xor(a, b)) = Xor(TimesX(a), TimesX(b))
PROOF
<1> DEFINE l == TimesX(Xor(a, b))
           m == Xor(TimesX(a), TimesX(b))
<1>1. \A i : i \in Xor(a, b) <=> ~(i \in a <=> i \in b)
  BY DEF Xor
<1>2. \A i : i \in m <=> ~(i \in TimesX(a) <=> i \in TimesX(b))
  BY DEF Xor
<1>3. Xor(a, b) \in Byte /\ TimesX(a) \in Byte /\ TimesX(b) \in Byte
  BY XorLaws, TimesXBits
<1>4. l \in Byte /\ m \in Byte
  BY <1>3, XorLaws, TimesXBits
<1>5. /\ 0 \in l <=> 0 \in m
      /\ 1 \in l <=> 1 \in m
      /\ 2 \in l <=> 2 \in m
      /\ 3 \in l <=> 3 \in m
  <2> HIDE DEF m
  <2> QED BY <1>1, <1>2, <1>3, TimesXBits
<1>6. /\ 4 \in l <=> 4 \in m
      /\ 5 \in l <=> 5 \in m
      /\ 6 \in l <=> 6 \in m
      /\ 7 \in l <=> 7 \in m
  <2> HIDE DEF m
  <2> QED BY <1>1, <1>2, <1>3, TimesXBits
<1> HIDE DEF l, m
<1>7. l = m
  BY <1>4, <1>5, <1>6, SameBits
<1> QED BY <1>7 DEF l, m

(* The sum of eight bytes. *)
Sum8(t) ==
  Xor(Xor(Xor(Xor(Xor(Xor(Xor(t[0], t[1]), t[2]), t[3]), t[4]), t[5]), t[6]), t[7])

(* The sum of eight bytes is a byte.                                        *)
LEMMA Sum8Type ==
  ASSUME NEW t \in [0..7 -> Byte]
  PROVE  Sum8(t) \in Byte
PROOF
<1>1. /\ t[0] \in Byte /\ t[1] \in Byte /\ t[2] \in Byte /\ t[3] \in Byte
      /\ t[4] \in Byte /\ t[5] \in Byte /\ t[6] \in Byte /\ t[7] \in Byte
  OBVIOUS
<1>2. \A a, b \in Byte : Xor(a, b) \in Byte
  BY XorLaws
<1> QED BY <1>1, <1>2 DEF Sum8

(* The sum of sums is the sum of the two sums.                              *)
LEMMA Sum8Xor ==
  ASSUME NEW s, NEW t, NEW u, \A i \in 0..7 : u[i] = Xor(s[i], t[i])
  PROVE  Sum8(u) = Xor(Sum8(s), Sum8(t))
PROOF
<1>1. /\ u[0] = Xor(s[0], t[0]) /\ u[1] = Xor(s[1], t[1]) /\ u[2] = Xor(s[2], t[2])
      /\ u[3] = Xor(s[3], t[3]) /\ u[4] = Xor(s[4], t[4]) /\ u[5] = Xor(s[5], t[5])
      /\ u[6] = Xor(s[6], t[6]) /\ u[7] = Xor(s[7], t[7])
  OBVIOUS
<1>2. \A a, b, c, d : Xor(Xor(a, b), Xor(c, d)) = Xor(Xor(a, c), Xor(b, d))
  BY XorLaws
<1> QED BY <1>1, <1>2 DEF Sum8

(* A byte is the sum of its bits.                                           *)
LEMMA SumOfBits ==
  ASSUME NEW b \in Byte
  PROVE  b = Sum8([i \in 0..7 |-> IF i \in b THEN {i} ELSE Zero])
PROOF
<1> DEFINE t == [i \in 0..7 |-> IF i \in b THEN {i} ELSE Zero]
<1>1. /\ t[0] = b \cap {0} /\ t[1] = b \cap {1} /\ t[2] = b \cap {2} /\ t[3] = b \cap {3}
      /\ t[4] = b \cap {4} /\ t[5] = b \cap {5} /\ t[6] = b \cap {6} /\ t[7] = b \cap {7}
  BY DEF Zero
<1> HIDE DEF t
<1> DEFINE Low(S) == b \cap S
<1>2. \A S, T : S \cap T = {} => Xor(Low(S), Low(T)) = Low(S \cup T)
  BY DEF Xor
<1>3. Sum8(t) = Low(0..7)
  <2>1. \A i \in 0..6 : Xor(Low(0..i), Low({i + 1})) = Low(0 .. i + 1)
    <3> SUFFICES ASSUME NEW i \in 0..6 PROVE Xor(Low(0..i), Low({i + 1})) = Low(0 .. i + 1)
      OBVIOUS
    <3>1. (0..i) \cap {i + 1} = {} /\ (0..i) \cup {i + 1} = 0 .. i + 1
      OBVIOUS
    <3> HIDE DEF Low
    <3> QED BY <1>2, <3>1
  <2>2. \A i \in 0..7 : t[i] = Low({i})
    BY <1>1
  <2>3. /\ Xor(Low(0..0), Low({1})) = Low(0..1) /\ Xor(Low(0..1), Low({2})) = Low(0..2)
        /\ Xor(Low(0..2), Low({3})) = Low(0..3) /\ Xor(Low(0..3), Low({4})) = Low(0..4)
        /\ Xor(Low(0..4), Low({5})) = Low(0..5) /\ Xor(Low(0..5), Low({6})) = Low(0..6)
        /\ Xor(Low(0..6), Low({7})) = Low(0..7)
    <3> HIDE DEF Low
    <3>1. /\ 0 + 1 = 1 /\ 1 + 1 = 2 /\ 2 + 1 = 3 /\ 3 + 1 = 4
          /\ 4 + 1 = 5 /\ 5 + 1 = 6 /\ 6 + 1 = 7
          /\ 0 \in 0..6 /\ 1 \in 0..6 /\ 2 \in 0..6 /\ 3 \in 0..6
          /\ 4 \in 0..6 /\ 5 \in 0..6 /\ 6 \in 0..6
      OBVIOUS
    <3> QED BY <2>1, <3>1
  <2>4. 0..0 = {0}
    OBVIOUS
  <2> HIDE DEF Low
  <2>5. t[0] = Low(0..0)
    BY <2>2, <2>4
  <2> QED BY <2>2, <2>3, <2>5 DEF Sum8
<1>4. b = Low(0..7)
  BY DEF Byte
<1>5. b = Sum8(t)
  BY <1>3, <1>4
<1> QED BY <1>5 DEF t

(* A function on bytes that is additive is known from the bytes of one bit. *)
Additive(f) ==
  /\ f \in [Byte -> Byte]
  /\ \A a, b \in Byte : f[Xor(a, b)] = Xor(f[a], f[b])

(* Its value is the sum of its values on the bits, and 0 goes to 0.         *)
LEMMA AdditiveSum ==
  ASSUME NEW f, Additive(f), NEW b \in Byte
  PROVE  /\ f[Zero] = Zero
         /\ f[b] = Sum8([i \in 0..7 |-> IF i \in b THEN f[{i}] ELSE Zero])
PROOF
<1>1. f[Zero] = Zero
  <2>1. Zero \in Byte /\ Xor(Zero, Zero) = Zero /\ f[Zero] \in Byte
    BY XorLaws DEF Additive
  <2>2. f[Zero] = Xor(f[Zero], f[Zero])
    BY <2>1 DEF Additive
  <2> QED BY <2>2, XorLaws
<1> DEFINE t == [i \in 0..7 |-> IF i \in b THEN {i} ELSE Zero]
           u == [i \in 0..7 |-> IF i \in b THEN f[{i}] ELSE Zero]
<1>2. /\ t \in [0..7 -> Byte]
      /\ \A i \in 0..7 : u[i] = f[t[i]]
  BY <1>1 DEF Byte, Zero
<1> HIDE DEF t, u
<1>3. /\ t[0] \in Byte /\ t[1] \in Byte /\ t[2] \in Byte /\ t[3] \in Byte
      /\ t[4] \in Byte /\ t[5] \in Byte /\ t[6] \in Byte /\ t[7] \in Byte
  BY <1>2
<1>4. /\ u[0] = f[t[0]] /\ u[1] = f[t[1]] /\ u[2] = f[t[2]] /\ u[3] = f[t[3]]
      /\ u[4] = f[t[4]] /\ u[5] = f[t[5]] /\ u[6] = f[t[6]] /\ u[7] = f[t[7]]
  BY <1>2
<1>5. \A c, d \in Byte : Xor(c, d) \in Byte /\ f[Xor(c, d)] = Xor(f[c], f[d])
  BY XorLaws DEF Additive
<1>6. f[Sum8(t)] = Sum8(u)
  BY <1>3, <1>4, <1>5 DEF Sum8
<1>7. b = Sum8(t)
  BY SumOfBits DEF t
<1> QED BY <1>1, <1>6, <1>7 DEF u

(* So two of them that agree on the bits are one.                           *)
LEMMA SameOnBits ==
  ASSUME NEW f, NEW g, Additive(f), Additive(g), \A i \in 0..7 : f[{i}] = g[{i}]
  PROVE  \A b \in Byte : f[b] = g[b]
PROOF
<1> SUFFICES ASSUME NEW b \in Byte PROVE f[b] = g[b]
  OBVIOUS
<1>1. [i \in 0..7 |-> IF i \in b THEN f[{i}] ELSE Zero]
        = [i \in 0..7 |-> IF i \in b THEN g[{i}] ELSE Zero]
  OBVIOUS
<1>2. f[b] = Sum8([i \in 0..7 |-> IF i \in b THEN f[{i}] ELSE Zero])
  BY AdditiveSum
<1>3. g[b] = Sum8([i \in 0..7 |-> IF i \in b THEN g[{i}] ELSE Zero])
  BY AdditiveSum
<1> QED BY <1>1, <1>2, <1>3

(* a, a times x, and so on to the power 7 of x. *)
IsPowers(p, a) ==
  p \in [0..7 -> Byte] /\ p[0] = a /\ \A i \in 1..7 : p[i] = TimesX(p[i - 1])
Powers(a) == CHOOSE p : IsPowers(p, a)

(* There is such a list for every byte.                                     *)
LEMMA PowersOf ==
  ASSUME NEW a \in Byte
  PROVE  IsPowers(Powers(a), a)
PROOF
<1> DEFINE G == [i \in 1..7 |-> [v \in Byte |-> TimesX(v)]]
<1>1. G \in [1..7 -> [Byte -> Byte]] /\ 7 \in Nat
  BY TimesXBits
<1>2. PICK p \in [0..7 -> Byte] : Recurs(p, a, G, 7)
  <2> HIDE DEF G
  <2> QED BY <1>1, Recursion
<1>3. \A i \in 1..7 : p[i] = TimesX(p[i - 1])
  <2> SUFFICES ASSUME NEW i \in 1..7 PROVE p[i] = TimesX(p[i - 1])
    OBVIOUS
  <2>1. p[i] = G[i][p[i - 1]] /\ p[i - 1] \in Byte
    BY <1>2 DEF Recurs
  <2>2. G[i] = [v \in Byte |-> TimesX(v)]
    OBVIOUS
  <2> HIDE DEF G
  <2> QED BY <2>1, <2>2
<1>4. IsPowers(p, a)
  BY <1>2, <1>3 DEF IsPowers, Recurs
<1> QED BY <1>4 DEF Powers

(* The terms gf_mul adds up: a, shifted as often as b, for the bits of b.   *)
Terms(a, b) == [i \in 0..7 |-> IF i \in b THEN Powers(a)[i] ELSE Zero]

(* The terms are bytes.                                                     *)
LEMMA TermsType ==
  ASSUME NEW a \in Byte, NEW b \in Byte
  PROVE  Terms(a, b) \in [0..7 -> Byte]
BY PowersOf, XorLaws DEF Terms, IsPowers

(* gf_mul adds up these terms, also when it stops early: then no bit of b   *)
(* is left.                                                                 *)
LEMMA MulIsSum ==
  ASSUME NEW a \in Byte, NEW b \in Byte
  PROVE  GfMul(a, b) = Sum8(Terms(a, b))
PROOF
<1> DEFINE V == [a : Byte, b : Byte, acc : Byte]
           base == MulStart(a, b)
           Go(v) == IF v.b = Zero THEN v ELSE MulStep(v)
           G == [i \in 1..8 |-> [v \in V |-> Go(v)]]
           Rec(h) == [i \in 0..8 |-> IF i = 0 THEN MulStart(a, b)
                                     ELSE LET r_ == h[i - 1] IN IF r_.b = Zero THEN r_ ELSE MulStep(r_)]
           p == Powers(a)
           t == Terms(a, b)
<1>1. base \in V
  BY XorLaws DEF MulStart
<1>2. \A v \in V : Go(v) \in V
  <2> SUFFICES ASSUME NEW v \in V PROVE MulStep(v) \in V
    OBVIOUS
  <2>1. ShiftRight(v.b) \in Byte
    BY DEF ShiftRight, Byte
  <2> QED BY <2>1, XorLaws, TimesXBits DEF MulStep
<1>3. G \in [1..8 -> [V -> V]] /\ 8 \in Nat
  BY <1>2
<1>4. PICK f \in [0..8 -> V] : Recurs(f, base, G, 8)
  <2> HIDE DEF G, V, base
  <2> QED BY <1>1, <1>3, Recursion
<1>5. f[0] = base /\ \A i \in 1..8 : f[i] = Go(f[i - 1])
  <2>1. \A i \in 1..8 : f[i] = G[i][f[i - 1]] /\ f[i - 1] \in V
    <3> HIDE DEF G, V
    <3> QED BY <1>4 DEF Recurs
  <2>2. \A i \in 1..8 : \A v \in V : G[i][v] = Go(v)
    OBVIOUS
  <2> HIDE DEF G, V, Go, base
  <2>3. f[0] = base
    BY <1>4 DEF Recurs
  <2> QED BY <2>1, <2>2, <2>3
<1>6. f = Rec(f)
  <2>1. \A i \in 0..8 : f[i] = Rec(f)[i]
    BY <1>5
  <2> HIDE DEF V, G
  <2>2. f = [i \in 0..8 |-> f[i]]
    BY <1>4
  <2> QED BY <2>1, <2>2
<1> DEFINE u == CHOOSE h : h = Rec(h)
<1>7. u = Rec(u)
  <2> HIDE DEF Rec
  <2> QED BY <1>6
<1>8. GfMul(a, b) = u[8].acc
  BY DEF GfMul
<1> HIDE DEF u
<1>9. u[0] = base /\ \A i \in 1..8 : u[i] = Go(u[i - 1])
  BY <1>7
<1>10. \A i \in 1..8 : u[i - 1] \in V => u[i] = G[i][u[i - 1]]
  <2>1. \A i \in 1..8 : \A v \in V : G[i][v] = Go(v)
    OBVIOUS
  <2> HIDE DEF G, V, Go
  <2> QED BY <1>9, <2>1
<1>11. u = [i \in 0..8 |-> u[i]]
  BY <1>7
<1>12. u \in [0..8 -> V]
  <2> HIDE DEF G, V, base, Rec
  <2> QED BY <1>1, <1>3, <1>9, <1>10, <1>11, RecursionType
<1>13. /\ p \in [0..7 -> Byte] /\ p[0] = a
       /\ \A i \in 1..7 : p[i] = TimesX(p[i - 1])
  BY PowersOf DEF IsPowers
<1> HIDE DEF p
<1> DEFINE Left(i) == {j \in 0..7 : j + i \in b}
           T == {i \in 0..8 : u[i].b = Left(i) /\ (Left(i) # Zero => u[i].a = p[i])}
<1>14. 0 \in T
  BY <1>9, <1>13 DEF MulStart, Byte
<1>15. \A i \in 0..7 : u[i].b = Left(i) =>
         IF Left(i) = Zero THEN u[i + 1] = u[i]
         ELSE u[i + 1] = MulStep(u[i])
  <2> SUFFICES ASSUME NEW i \in 0..7 PROVE u[i + 1] = Go(u[i])
    OBVIOUS
  <2>1. i + 1 \in 1..8 /\ (i + 1) - 1 = i
    OBVIOUS
  <2> HIDE DEF Go
  <2> QED BY <1>9, <2>1
<1>16. \A i \in 0 .. 8 - 1 : i \in T => i + 1 \in T
  <2> SUFFICES ASSUME NEW i \in 0..7, i \in T PROVE i + 1 \in T
    OBVIOUS
  <2>1. u[i].b = Left(i) /\ (Left(i) # Zero => u[i].a = p[i])
    OBVIOUS
  <2>2. CASE Left(i) = Zero
    <3>1. Left(i + 1) = Zero
      <4> SUFFICES ASSUME NEW j \in Left(i + 1) PROVE FALSE
        BY DEF Zero
      <4>1. (j + 1) + i \in b /\ j + 1 \in 0..7
        BY DEF Byte
      <4> QED BY <2>2, <4>1 DEF Zero
    <3> HIDE DEF Left
    <3> QED BY <1>15, <2>1, <2>2, <3>1
  <2>3. CASE Left(i) # Zero
    <3>1. u[i + 1] = MulStep(u[i])
      <4> HIDE DEF Left
      <4> QED BY <1>15, <2>1, <2>3
    <3>2. ShiftRight(Left(i)) = Left(i + 1)
      BY DEF ShiftRight, Byte
    <3>3. Left(i + 1) # Zero => i \in 0..6
      BY DEF Zero, Byte
    <3>4. i \in 0..6 => p[i + 1] = TimesX(p[i])
      <4> SUFFICES ASSUME i \in 0..6 PROVE p[i + 1] = TimesX(p[i])
        OBVIOUS
      <4>1. i + 1 \in 1..7 /\ (i + 1) - 1 = i
        OBVIOUS
      <4> QED BY <1>13, <4>1
    <3> HIDE DEF Left
    <3> QED BY <2>1, <2>3, <3>1, <3>2, <3>3, <3>4 DEF MulStep
  <2> QED BY <2>2, <2>3
<1>17. 0..8 \subseteq T
  <2> HIDE DEF T
  <2> QED BY <1>14, <1>16, NatSetInduction
<1>18. \A i \in 0..7 : u[i + 1].acc = Xor(u[i].acc, t[i])
  <2> SUFFICES ASSUME NEW i \in 0..7 PROVE u[i + 1].acc = Xor(u[i].acc, t[i])
    OBVIOUS
  <2>1. u[i].b = Left(i) /\ (Left(i) # Zero => u[i].a = p[i])
    BY <1>17
  <2>2. t[i] = IF i \in b THEN p[i] ELSE Zero
    BY DEF Terms, p
  <2>3. 0 \in Left(i) <=> i \in b
    OBVIOUS
  <2>4. u[i].acc \in Byte
    BY <1>12
  <2>5. CASE Left(i) = Zero
    <3>1. i \notin b
      BY <2>3, <2>5 DEF Zero
    <3>2. u[i + 1] = u[i]
      <4> HIDE DEF Left
      <4> QED BY <1>15, <2>1, <2>5
    <3> HIDE DEF t
    <3> QED BY <2>2, <2>4, <3>1, <3>2, XorLaws
  <2>6. CASE Left(i) # Zero
    <3>1. u[i + 1] = MulStep(u[i])
      <4> HIDE DEF Left
      <4> QED BY <1>15, <2>1, <2>6
    <3>2. u[i + 1].acc = IF 0 \in u[i].b THEN Xor(u[i].acc, u[i].a) ELSE u[i].acc
      BY <3>1 DEF MulStep
    <3> HIDE DEF Left, t
    <3> QED BY <2>1, <2>2, <2>3, <2>4, <2>6, <3>2, XorLaws
  <2> QED BY <2>5, <2>6
<1>19. /\ u[1].acc = Xor(u[0].acc, t[0]) /\ u[2].acc = Xor(u[1].acc, t[1])
       /\ u[3].acc = Xor(u[2].acc, t[2]) /\ u[4].acc = Xor(u[3].acc, t[3])
       /\ u[5].acc = Xor(u[4].acc, t[4]) /\ u[6].acc = Xor(u[5].acc, t[5])
       /\ u[7].acc = Xor(u[6].acc, t[6]) /\ u[8].acc = Xor(u[7].acc, t[7])
  <2>1. /\ 0 + 1 = 1 /\ 1 + 1 = 2 /\ 2 + 1 = 3 /\ 3 + 1 = 4
        /\ 4 + 1 = 5 /\ 5 + 1 = 6 /\ 6 + 1 = 7 /\ 7 + 1 = 8
        /\ 0 \in 0..7 /\ 1 \in 0..7 /\ 2 \in 0..7 /\ 3 \in 0..7
        /\ 4 \in 0..7 /\ 5 \in 0..7 /\ 6 \in 0..7 /\ 7 \in 0..7
    OBVIOUS
  <2> HIDE DEF t
  <2> QED BY <1>18, <2>1
<1>20. u[0].acc = Zero /\ t[0] \in Byte
  BY <1>9, TermsType DEF MulStart
<1>21. Xor(u[0].acc, t[0]) = t[0]
  BY <1>20, XorLaws
<1> HIDE DEF t
<1>22. u[8].acc = Sum8(t)
  BY <1>19, <1>21 DEF Sum8
<1> QED BY <1>8, <1>22 DEF t

(* The product of two bytes is a byte.                                      *)
LEMMA MulType ==
  \A a, b \in Byte : GfMul(a, b) \in Byte
BY MulIsSum, TermsType, Sum8Type

(* gf_mul distributes over exclusive or, on both sides.                     *)
LEMMA MulAdditive ==
  ASSUME NEW a \in Byte, NEW b \in Byte, NEW c \in Byte
  PROVE  /\ GfMul(c, Xor(a, b)) = Xor(GfMul(c, a), GfMul(c, b))
         /\ GfMul(Xor(a, b), c) = Xor(GfMul(a, c), GfMul(b, c))
PROOF
<1>0. Xor(a, b) \in Byte
  BY XorLaws
<1>1. GfMul(c, Xor(a, b)) = Xor(GfMul(c, a), GfMul(c, b))
  <2>1. \A i \in 0..7 : Terms(c, Xor(a, b))[i] = Xor(Terms(c, a)[i], Terms(c, b)[i])
    <3> SUFFICES ASSUME NEW i \in 0..7
                 PROVE  Terms(c, Xor(a, b))[i] = Xor(Terms(c, a)[i], Terms(c, b)[i])
      OBVIOUS
    <3>1. i \in Xor(a, b) <=> ~(i \in a <=> i \in b)
      BY DEF Xor
    <3>2. Powers(c)[i] \in Byte
      BY PowersOf DEF IsPowers
    <3> QED BY <3>1, <3>2, XorLaws DEF Terms
  <2> QED BY <1>0, <2>1, MulIsSum, Sum8Xor
<1>2. GfMul(Xor(a, b), c) = Xor(GfMul(a, c), GfMul(b, c))
  <2> DEFINE T == {i \in 0..7 : Powers(Xor(a, b))[i] = Xor(Powers(a)[i], Powers(b)[i])}
  <2>1. IsPowers(Powers(a), a) /\ IsPowers(Powers(b), b) /\ IsPowers(Powers(Xor(a, b)), Xor(a, b))
    BY <1>0, PowersOf
  <2>2. 0 \in T
    BY <2>1 DEF IsPowers
  <2>3. \A i \in 0 .. 7 - 1 : i \in T => i + 1 \in T
    <3> SUFFICES ASSUME NEW i \in 0 .. 7 - 1, i \in T PROVE i + 1 \in T
      OBVIOUS
    <3>1. /\ i + 1 \in 1..7 /\ (i + 1) - 1 = i /\ i \in 0..7 /\ i + 1 \in 0..7
          /\ Powers(Xor(a, b))[i] = Xor(Powers(a)[i], Powers(b)[i])
      OBVIOUS
    <3>2. Powers(Xor(a, b))[i + 1] = Xor(Powers(a)[i + 1], Powers(b)[i + 1])
      BY <2>1, <3>1, TimesXAdditive DEF IsPowers
    <3> QED BY <3>1, <3>2
  <2>4. 0..7 \subseteq T
    <3> HIDE DEF T
    <3> QED BY <2>2, <2>3, NatSetInduction
  <2>5. \A i \in 0..7 : Terms(Xor(a, b), c)[i] = Xor(Terms(a, c)[i], Terms(b, c)[i])
    BY <2>4, XorLaws DEF Terms
  <2> QED BY <1>0, <2>5, MulIsSum, Sum8Xor
<1> QED BY <1>1, <1>2

(* A sum with one term only is this term.                                   *)
LEMMA SumOfOne ==
  ASSUME NEW t \in [0..7 -> Byte], NEW j \in 0..7, \A i \in 0..7 : i # j => t[i] = Zero
  PROVE  Sum8(t) = t[j]
PROOF
<1>1. Zero \in Byte /\ \A a \in Byte : Xor(a, Zero) = a /\ Xor(Zero, a) = a
  BY XorLaws
<1>2. /\ t[0] \in Byte /\ t[1] \in Byte /\ t[2] \in Byte /\ t[3] \in Byte
      /\ t[4] \in Byte /\ t[5] \in Byte /\ t[6] \in Byte /\ t[7] \in Byte
  OBVIOUS
<1>3. /\ 0 # j => t[0] = Zero
      /\ 1 # j => t[1] = Zero
      /\ 2 # j => t[2] = Zero
      /\ 3 # j => t[3] = Zero
      /\ 4 # j => t[4] = Zero
      /\ 5 # j => t[5] = Zero
      /\ 6 # j => t[6] = Zero
      /\ 7 # j => t[7] = Zero
  <2>1. 0 # j => t[0] = Zero OBVIOUS
  <2>2. 1 # j => t[1] = Zero OBVIOUS
  <2>3. 2 # j => t[2] = Zero OBVIOUS
  <2>4. 3 # j => t[3] = Zero OBVIOUS
  <2>5. 4 # j => t[4] = Zero OBVIOUS
  <2>6. 5 # j => t[5] = Zero OBVIOUS
  <2>7. 6 # j => t[6] = Zero OBVIOUS
  <2>8. 7 # j => t[7] = Zero OBVIOUS
  <2> QED BY <2>1, <2>2, <2>3, <2>4, <2>5, <2>6, <2>7, <2>8
<1>4. CASE j = 0 BY <1>1, <1>2, <1>3, <1>4 DEF Sum8
<1>5. CASE j = 1 BY <1>1, <1>2, <1>3, <1>5 DEF Sum8
<1>6. CASE j = 2 BY <1>1, <1>2, <1>3, <1>6 DEF Sum8
<1>7. CASE j = 3 BY <1>1, <1>2, <1>3, <1>7 DEF Sum8
<1>8. CASE j = 4 BY <1>1, <1>2, <1>3, <1>8 DEF Sum8
<1>9. CASE j = 5 BY <1>1, <1>2, <1>3, <1>9 DEF Sum8
<1>10. CASE j = 6 BY <1>1, <1>2, <1>3, <1>10 DEF Sum8
<1>11. CASE j = 7 BY <1>1, <1>2, <1>3, <1>11 DEF Sum8
<1> QED BY <1>4, <1>5, <1>6, <1>7, <1>8, <1>9, <1>10, <1>11

(* A product with a power of x.                                             *)
LEMMA MulByBit ==
  ASSUME NEW a \in Byte, NEW j \in 0..7
  PROVE  GfMul(a, {j}) = Powers(a)[j]
PROOF
<1>1. {j} \in Byte
  BY DEF Byte
<1>2. \A i \in 0..7 : Terms(a, {j})[i] = IF i = j THEN Powers(a)[i] ELSE Zero
  BY DEF Terms
<1>3. Sum8(Terms(a, {j})) = Terms(a, {j})[j]
  BY <1>1, <1>2, TermsType, SumOfOne
<1> QED BY <1>1, <1>2, <1>3, MulIsSum

(* The powers of x, up to the highest in a product of three bits.           *)
IsScale(w) ==
  /\ w \in [0..21 -> Byte]
  /\ \A m \in 0..7 : w[m] = {m}
  /\ \A m \in 0..14 : \A j \in 0..7 : GfMul(w[m], {j}) = w[m + j]

(* There are such powers.                                                   *)
LEMMA Scale ==
  \E w : IsScale(w)
PROOF
<1> DEFINE G == [i \in 1..21 |-> [v \in Byte |-> TimesX(v)]]
<1>1. G \in [1..21 -> [Byte -> Byte]] /\ 21 \in Nat /\ One \in Byte
  BY TimesXBits, XorLaws
<1>2. PICK w \in [0..21 -> Byte] : Recurs(w, One, G, 21)
  <2> HIDE DEF G
  <2> QED BY <1>1, Recursion
<1>3. \A i \in 0..20 : w[i + 1] = TimesX(w[i])
  <2> SUFFICES ASSUME NEW i \in 0..20 PROVE w[i + 1] = TimesX(w[i])
    OBVIOUS
  <2>0. i + 1 \in 1..21 /\ (i + 1) - 1 = i
    OBVIOUS
  <2>1. w[i + 1] = G[i + 1][w[i]] /\ w[i] \in Byte
    <3> HIDE DEF G
    <3> QED BY <1>2, <2>0 DEF Recurs
  <2>2. G[i + 1] = [v \in Byte |-> TimesX(v)]
    BY <2>0
  <2> HIDE DEF G
  <2> QED BY <2>1, <2>2
<1>4. w[0] = One
  BY <1>2 DEF Recurs
<1> HIDE DEF G
<1>5. \A m \in 0..7 : w[m] = {m}
  <2> DEFINE T == {m \in 0..7 : w[m] = {m}}
  <2>1. 0 \in T
    BY <1>4 DEF One
  <2>2. \A m \in 0 .. 7 - 1 : m \in T => m + 1 \in T
    <3> SUFFICES ASSUME NEW m \in 0..6, w[m] = {m} PROVE w[m + 1] = {m + 1}
      OBVIOUS
    <3>1. TimesX({m}) = {m + 1}
      BY DEF TimesX, ShiftLeft
    <3> QED BY <1>3, <3>1
  <2>3. 0..7 \subseteq T
    <3> HIDE DEF T
    <3> QED BY <2>1, <2>2, NatSetInduction
  <2> QED BY <2>3
<1>6. ASSUME NEW m \in 0..14, NEW j \in 0..7
      PROVE  GfMul(w[m], {j}) = w[m + j]
  <2> DEFINE p == Powers(w[m])
             T == {i \in 0..7 : p[i] = w[m + i]}
  <2>0. w[m] \in Byte
    BY <1>2
  <2>1. p \in [0..7 -> Byte] /\ p[0] = w[m] /\ \A i \in 1..7 : p[i] = TimesX(p[i - 1])
    BY <2>0, PowersOf DEF IsPowers
  <2> HIDE DEF p
  <2>2. 0 \in T
    BY <2>1
  <2>3. \A i \in 0 .. 7 - 1 : i \in T => i + 1 \in T
    <3> SUFFICES ASSUME NEW i \in 0..6, p[i] = w[m + i] PROVE p[i + 1] = w[m + (i + 1)]
      OBVIOUS
    <3>1. i + 1 \in 1..7 /\ (i + 1) - 1 = i /\ m + i \in 0..20 /\ m + (i + 1) = (m + i) + 1
      OBVIOUS
    <3> QED BY <1>3, <2>1, <3>1
  <2>4. 0..7 \subseteq T
    <3> HIDE DEF T
    <3> QED BY <2>2, <2>3, NatSetInduction
  <2>5. p[j] = w[m + j]
    BY <2>4
  <2> QED BY <2>0, <2>5, MulByBit DEF p
<1> QED BY <1>2, <1>5, <1>6 DEF IsScale

(* The two products with a, and additive functions one after the other.     *)
FromLeft(a)  == [b \in Byte |-> GfMul(a, b)]
FromRight(a) == [b \in Byte |-> GfMul(b, a)]

(* Both are additive.                                                       *)
LEMMA ProductsAdditive ==
  ASSUME NEW a \in Byte
  PROVE  Additive(FromLeft(a)) /\ Additive(FromRight(a))
PROOF
<1>1. \A u, v \in Byte : Xor(u, v) \in Byte
  BY XorLaws
<1>2. \A u \in Byte : GfMul(a, u) \in Byte /\ GfMul(u, a) \in Byte
  BY MulType
<1>3. \A u, v \in Byte : /\ GfMul(a, Xor(u, v)) = Xor(GfMul(a, u), GfMul(a, v))
                         /\ GfMul(Xor(u, v), a) = Xor(GfMul(u, a), GfMul(v, a))
  BY MulAdditive
<1>4. Additive(FromLeft(a))
  BY <1>1, <1>2, <1>3 DEF Additive, FromLeft
<1>5. Additive(FromRight(a))
  BY <1>1, <1>2, <1>3 DEF Additive, FromRight
<1> QED BY <1>4, <1>5

(* One additive function after another is additive.                         *)
LEMMA AdditiveTwice ==
  ASSUME NEW f, NEW g, Additive(f), Additive(g)
  PROVE  Additive([b \in Byte |-> g[f[b]]])
PROOF
<1>1. \A u, v \in Byte : Xor(u, v) \in Byte
  BY XorLaws
<1> QED BY <1>1 DEF Additive

(* gf_mul is commutative: it is on bits, then on a bit and a byte, then on  *)
(* bytes.                                                                   *)
LEMMA MulCommutes ==
  \A a, b \in Byte : GfMul(a, b) = GfMul(b, a)
PROOF
<1> DEFINE L(a) == FromLeft(a)
           R(a) == FromRight(a)
<1>1. \A a \in Byte : Additive(L(a)) /\ Additive(R(a))
  BY ProductsAdditive
<1>2. \A i \in 0..7 : {i} \in Byte
  BY DEF Byte
<1>3. \A i, j \in 0..7 : GfMul({i}, {j}) = GfMul({j}, {i})
  <2>1. PICK w : IsScale(w)
    BY Scale
  <2>2. \A i, j \in 0..7 : GfMul({i}, {j}) = w[i + j]
    <3> SUFFICES ASSUME NEW i \in 0..7, NEW j \in 0..7 PROVE GfMul({i}, {j}) = w[i + j]
      OBVIOUS
    <3>1. i \in 0..14
      OBVIOUS
    <3>2. w[i] = {i} /\ GfMul(w[i], {j}) = w[i + j]
      BY <2>1, <3>1 DEF IsScale
    <3> QED BY <3>2
  <2>3. \A i, j \in 0..7 : i + j = j + i
    OBVIOUS
  <2> QED BY <2>2, <2>3
<1>4. \A i \in 0..7 : \A b \in Byte : GfMul({i}, b) = GfMul(b, {i})
  <2> SUFFICES ASSUME NEW i \in 0..7 PROVE \A b \in Byte : GfMul({i}, b) = GfMul(b, {i})
    OBVIOUS
  <2>1. \A j \in 0..7 : L({i})[{j}] = R({i})[{j}]
    BY <1>2, <1>3 DEF FromLeft, FromRight
  <2>2. \A b \in Byte : L({i})[b] = R({i})[b]
    <3> HIDE DEF L, R
    <3> QED BY <1>1, <1>2, <2>1, SameOnBits
  <2> QED BY <1>2, <2>2 DEF FromLeft, FromRight
<1>5. \A a \in Byte : \A b \in Byte : GfMul(a, b) = GfMul(b, a)
  <2> SUFFICES ASSUME NEW a \in Byte PROVE \A b \in Byte : GfMul(a, b) = GfMul(b, a)
    OBVIOUS
  <2>1. \A j \in 0..7 : L(a)[{j}] = R(a)[{j}]
    BY <1>2, <1>4 DEF FromLeft, FromRight
  <2>2. \A b \in Byte : L(a)[b] = R(a)[b]
    <3> HIDE DEF L, R
    <3> QED BY <1>1, <2>1, SameOnBits
  <2> QED BY <2>2 DEF FromLeft, FromRight
<1> QED BY <1>5

(* gf_mul is associative, by the same three steps.                          *)
LEMMA MulAssociates ==
  \A a, b, c \in Byte : GfMul(GfMul(a, b), c) = GfMul(a, GfMul(b, c))
PROOF
<1>0. \A i \in 0..7 : {i} \in Byte
  BY DEF Byte
<1> DEFINE L3(a, b) == [v \in Byte |-> GfMul(GfMul(a, b), v)]
           R3(a, b) == [v \in Byte |-> GfMul(a, GfMul(b, v))]
           L2(a, c) == [v \in Byte |-> GfMul(GfMul(a, v), c)]
           R2(a, c) == [v \in Byte |-> GfMul(a, GfMul(v, c))]
           L1(b, c) == [v \in Byte |-> GfMul(GfMul(v, b), c)]
           R1(b, c) == [v \in Byte |-> GfMul(v, GfMul(b, c))]
<1>1. \A a, b \in Byte : /\ Additive(L3(a, b)) /\ Additive(R3(a, b))
                         /\ Additive(L2(a, b)) /\ Additive(R2(a, b))
                         /\ Additive(L1(a, b)) /\ Additive(R1(a, b))
  <2> SUFFICES ASSUME NEW a \in Byte, NEW b \in Byte
               PROVE  /\ Additive(L3(a, b)) /\ Additive(R3(a, b))
                      /\ Additive(L2(a, b)) /\ Additive(R2(a, b))
                      /\ Additive(L1(a, b)) /\ Additive(R1(a, b))
    OBVIOUS
  <2>1. \A c \in Byte : Additive(FromLeft(c)) /\ Additive(FromRight(c))
    BY ProductsAdditive
  <2>2. \A u, v \in Byte : GfMul(u, v) \in Byte
    BY MulType
  <2>3. /\ L3(a, b) = FromLeft(GfMul(a, b))
        /\ R3(a, b) = [v \in Byte |-> FromLeft(a)[FromLeft(b)[v]]]
        /\ L2(a, b) = [v \in Byte |-> FromRight(b)[FromLeft(a)[v]]]
        /\ R2(a, b) = [v \in Byte |-> FromLeft(a)[FromRight(b)[v]]]
        /\ L1(a, b) = [v \in Byte |-> FromRight(b)[FromRight(a)[v]]]
        /\ R1(a, b) = FromRight(GfMul(a, b))
    BY <2>2 DEF FromLeft, FromRight
  <2> HIDE DEF L1, L2, L3, R1, R2, R3
  <2>4. Additive(L3(a, b)) /\ Additive(R1(a, b))
    BY <2>1, <2>2, <2>3
  <2>5. Additive(R3(a, b)) /\ Additive(L2(a, b))
    BY <2>1, <2>3, AdditiveTwice
  <2>6. Additive(R2(a, b)) /\ Additive(L1(a, b))
    BY <2>1, <2>3, AdditiveTwice
  <2> QED BY <2>4, <2>5, <2>6
<1>2. \A i, j, m \in 0..7 : GfMul(GfMul({i}, {j}), {m}) = GfMul({i}, GfMul({j}, {m}))
  <2>1. PICK w : IsScale(w)
    BY Scale
  <2> SUFFICES ASSUME NEW i \in 0..7, NEW j \in 0..7, NEW m \in 0..7
               PROVE  GfMul(GfMul({i}, {j}), {m}) = GfMul({i}, GfMul({j}, {m}))
    OBVIOUS
  <2>2. i + j \in 0..14 /\ j + m \in 0..14 /\ (i + j) + m = (j + m) + i
        /\ i \in 0..14 /\ j \in 0..14 /\ j + m \in 0..21
    OBVIOUS
  <2>3. GfMul({i}, {j}) = w[i + j] /\ GfMul({j}, {m}) = w[j + m]
    BY <2>1, <2>2 DEF IsScale
  <2>4. GfMul(w[i + j], {m}) = w[(i + j) + m] /\ GfMul(w[j + m], {i}) = w[(j + m) + i]
    BY <2>1, <2>2 DEF IsScale
  <2>5. GfMul({i}, w[j + m]) = GfMul(w[j + m], {i})
    BY <1>0, <2>1, <2>2, MulCommutes DEF IsScale
  <2> QED BY <2>2, <2>3, <2>4, <2>5
<1>3. \A i, j \in 0..7 : \A c \in Byte : GfMul(GfMul({i}, {j}), c) = GfMul({i}, GfMul({j}, c))
  <2> SUFFICES ASSUME NEW i \in 0..7, NEW j \in 0..7
               PROVE  \A c \in Byte : GfMul(GfMul({i}, {j}), c) = GfMul({i}, GfMul({j}, c))
    OBVIOUS
  <2>1. \A m \in 0..7 : L3({i}, {j})[{m}] = R3({i}, {j})[{m}]
    BY <1>0, <1>2
  <2>2. \A v \in Byte : L3({i}, {j})[v] = R3({i}, {j})[v]
    <3> HIDE DEF L1, L2, L3, R1, R2, R3
    <3>1. Additive(L3({i}, {j})) /\ Additive(R3({i}, {j}))
      BY <1>0, <1>1
    <3> QED BY <2>1, <3>1, SameOnBits
  <2> QED BY <2>2
<1>4. \A i \in 0..7 : \A b, c \in Byte : GfMul(GfMul({i}, b), c) = GfMul({i}, GfMul(b, c))
  <2> SUFFICES ASSUME NEW i \in 0..7, NEW c \in Byte
               PROVE  \A b \in Byte : GfMul(GfMul({i}, b), c) = GfMul({i}, GfMul(b, c))
    OBVIOUS
  <2>1. \A m \in 0..7 : L2({i}, c)[{m}] = R2({i}, c)[{m}]
    BY <1>0, <1>3
  <2>2. \A v \in Byte : L2({i}, c)[v] = R2({i}, c)[v]
    <3> HIDE DEF L1, L2, L3, R1, R2, R3
    <3>1. Additive(L2({i}, c)) /\ Additive(R2({i}, c))
      BY <1>0, <1>1
    <3> QED BY <2>1, <3>1, SameOnBits
  <2> QED BY <2>2
<1>5. \A b, c \in Byte : \A a \in Byte : GfMul(GfMul(a, b), c) = GfMul(a, GfMul(b, c))
  <2> SUFFICES ASSUME NEW b \in Byte, NEW c \in Byte
               PROVE  \A a \in Byte : GfMul(GfMul(a, b), c) = GfMul(a, GfMul(b, c))
    OBVIOUS
  <2>1. \A m \in 0..7 : L1(b, c)[{m}] = R1(b, c)[{m}]
    BY <1>0, <1>4
  <2>2. \A v \in Byte : L1(b, c)[v] = R1(b, c)[v]
    <3> HIDE DEF L1, L2, L3, R1, R2, R3
    <3>1. Additive(L1(b, c)) /\ Additive(R1(b, c))
      BY <1>0, <1>1
    <3> QED BY <2>1, <3>1, SameOnBits
  <2> QED BY <2>2
<1> QED BY <1>5

(* One and Zero. *)
LEMMA MulUnits ==
  ASSUME NEW a \in Byte
  PROVE  /\ GfMul(a, One) = a /\ GfMul(One, a) = a
         /\ GfMul(a, Zero) = Zero /\ GfMul(Zero, a) = Zero
PROOF
<1>1. GfMul(a, One) = a
  <2>1. IsPowers(Powers(a), a)
    BY PowersOf
  <2>2. GfMul(a, {0}) = Powers(a)[0]
    BY MulByBit
  <2> QED BY <2>1, <2>2 DEF IsPowers, One
<1>2. GfMul(a, Zero) = Zero
  <2>1. FromLeft(a)[Zero] = Zero
    BY ProductsAdditive, XorLaws, AdditiveSum
  <2> QED BY <2>1, XorLaws DEF FromLeft
<1> QED BY <1>1, <1>2, MulCommutes, XorLaws

Square(a) == GfMul(a, a)

(* Squares are sums of squares, and products of squares.                    *)
LEMMA SquareLaws ==
  ASSUME NEW a \in Byte, NEW b \in Byte
  PROVE  /\ Square(a) \in Byte
         /\ Square(Xor(a, b)) = Xor(Square(a), Square(b))
         /\ Square(GfMul(a, b)) = GfMul(Square(a), Square(b))
PROOF
<1>1. Xor(a, b) \in Byte /\ GfMul(a, a) \in Byte /\ GfMul(b, b) \in Byte
      /\ GfMul(a, b) \in Byte /\ GfMul(b, a) \in Byte
  BY XorLaws, MulType
<1>2. Square(Xor(a, b)) = Xor(Square(a), Square(b))
  <2>1. GfMul(Xor(a, b), Xor(a, b)) = Xor(GfMul(a, Xor(a, b)), GfMul(b, Xor(a, b)))
    BY <1>1, MulAdditive
  <2>2. /\ GfMul(a, Xor(a, b)) = Xor(GfMul(a, a), GfMul(a, b))
        /\ GfMul(b, Xor(a, b)) = Xor(GfMul(b, a), GfMul(b, b))
    BY MulAdditive
  <2>3. GfMul(b, a) = GfMul(a, b)
    BY MulCommutes
  <2>4. \A u, v, w : Xor(Xor(u, v), Xor(v, w)) = Xor(u, w)
    BY DEF Xor
  <2> QED BY <2>1, <2>2, <2>3, <2>4 DEF Square
<1>3. Square(GfMul(a, b)) = GfMul(Square(a), Square(b))
  <2>1. GfMul(GfMul(a, b), GfMul(a, b)) = GfMul(a, GfMul(b, GfMul(a, b)))
    BY <1>1, MulAssociates
  <2>2. GfMul(b, GfMul(a, b)) = GfMul(GfMul(b, b), a)
    <3>1. GfMul(b, GfMul(b, a)) = GfMul(GfMul(b, b), a)
      BY MulAssociates
    <3> QED BY <3>1, MulCommutes
  <2>3. GfMul(GfMul(b, b), a) = GfMul(a, GfMul(b, b))
    BY <1>1, MulCommutes
  <2>4. GfMul(a, GfMul(a, GfMul(b, b))) = GfMul(GfMul(a, a), GfMul(b, b))
    BY <1>1, MulAssociates
  <2> QED BY <2>1, <2>2, <2>3, <2>4 DEF Square
<1> QED BY <1>1, <1>2, <1>3 DEF Square

(* The squares of the bytes of one bit. *)
LEMMA SquaresOfBits ==
  /\ Square({0}) = {0} /\ Square({1}) = {2} /\ Square({2}) = {4} /\ Square({3}) = {6}
  /\ Square({4}) = {0, 1, 3, 4} /\ Square({5}) = {2, 3, 5, 6}
  /\ Square({6}) = {0, 1, 3, 5, 7} /\ Square({7}) = {1, 3, 4, 7}
PROOF
<1>1. /\ TimesX({0}) = {1} /\ TimesX({1}) = {2} /\ TimesX({2}) = {3} /\ TimesX({3}) = {4}
      /\ TimesX({4}) = {5} /\ TimesX({5}) = {6} /\ TimesX({6}) = {7}
  <2>1. \A i \in 0..6 : TimesX({i}) = {i + 1}
    BY DEF TimesX, ShiftLeft
  <2> QED BY <2>1
<1>2. /\ {0} \in Byte /\ {1} \in Byte /\ {2} \in Byte /\ {3} \in Byte
      /\ {4} \in Byte /\ {5} \in Byte /\ {6} \in Byte /\ {7} \in Byte
      /\ {0, 1, 3, 4} \in Byte /\ {1, 2, 4, 5} \in Byte /\ {2, 3, 5, 6} \in Byte
      /\ {3, 4, 6, 7} \in Byte /\ {0, 1, 3, 5, 7} \in Byte /\ {0, 2, 3, 6} \in Byte
      /\ {1, 3, 4, 7} \in Byte
  BY DEF Byte
<1>3. TimesX({7}) = {0, 1, 3, 4}
  BY <1>2, TimesXBits, SameBits
<1>4. TimesX({0, 1, 3, 4}) = {1, 2, 4, 5}
  BY <1>2, TimesXBits, SameBits
<1>5. TimesX({1, 2, 4, 5}) = {2, 3, 5, 6}
  BY <1>2, TimesXBits, SameBits
<1>6. TimesX({2, 3, 5, 6}) = {3, 4, 6, 7}
  BY <1>2, TimesXBits, SameBits
<1>7. TimesX({3, 4, 6, 7}) = {0, 1, 3, 5, 7}
  BY <1>2, TimesXBits, SameBits
<1>8. TimesX({0, 1, 3, 5, 7}) = {0, 2, 3, 6}
  BY <1>2, TimesXBits, SameBits
<1>9. TimesX({0, 2, 3, 6}) = {1, 3, 4, 7}
  BY <1>2, TimesXBits, SameBits
<1>10. \A a \in Byte : IsPowers(Powers(a), a)
  BY PowersOf
<1>11. ASSUME NEW a \in Byte
       PROVE  /\ Powers(a)[0] = a
              /\ Powers(a)[1] = TimesX(Powers(a)[0])
              /\ Powers(a)[2] = TimesX(Powers(a)[1])
              /\ Powers(a)[3] = TimesX(Powers(a)[2])
              /\ Powers(a)[4] = TimesX(Powers(a)[3])
              /\ Powers(a)[5] = TimesX(Powers(a)[4])
              /\ Powers(a)[6] = TimesX(Powers(a)[5])
              /\ Powers(a)[7] = TimesX(Powers(a)[6])
  <2>1. \A i \in 0..6 : Powers(a)[i + 1] = TimesX(Powers(a)[i])
    <3> SUFFICES ASSUME NEW i \in 0..6 PROVE Powers(a)[i + 1] = TimesX(Powers(a)[i])
      OBVIOUS
    <3>1. i + 1 \in 1..7 /\ (i + 1) - 1 = i
      OBVIOUS
    <3> QED BY <1>10, <3>1 DEF IsPowers
  <2>2. /\ 0 + 1 = 1 /\ 1 + 1 = 2 /\ 2 + 1 = 3 /\ 3 + 1 = 4
        /\ 4 + 1 = 5 /\ 5 + 1 = 6 /\ 6 + 1 = 7
        /\ 0 \in 0..6 /\ 1 \in 0..6 /\ 2 \in 0..6 /\ 3 \in 0..6
        /\ 4 \in 0..6 /\ 5 \in 0..6 /\ 6 \in 0..6
    OBVIOUS
  <2>3. Powers(a)[0] = a
    BY <1>10 DEF IsPowers
  <2> QED BY <2>1, <2>2, <2>3
<1>12. \A i \in 0..7 : Square({i}) = Powers({i})[i]
  BY MulByBit DEF Byte, Square
<1>13. /\ Square({0}) = Powers({0})[0] /\ Square({1}) = Powers({1})[1]
       /\ Square({2}) = Powers({2})[2] /\ Square({3}) = Powers({3})[3]
       /\ Square({4}) = Powers({4})[4] /\ Square({5}) = Powers({5})[5]
       /\ Square({6}) = Powers({6})[6] /\ Square({7}) = Powers({7})[7]
  BY <1>12
<1>14. Square({0}) = {0}
  BY <1>2, <1>11, <1>13
<1>15. Square({1}) = {2}
  <2>1. /\ Powers({1})[0] = {1}
        /\ Powers({1})[1] = TimesX(Powers({1})[0])
    BY <1>2, <1>11
  <2> QED BY <1>1, <1>13, <2>1
<1>16. Square({2}) = {4}
  <2>1. /\ Powers({2})[0] = {2}
        /\ Powers({2})[1] = TimesX(Powers({2})[0])
        /\ Powers({2})[2] = TimesX(Powers({2})[1])
    BY <1>2, <1>11
  <2> QED BY <1>1, <1>13, <2>1
<1>17. Square({3}) = {6}
  <2>1. /\ Powers({3})[0] = {3}
        /\ Powers({3})[1] = TimesX(Powers({3})[0])
        /\ Powers({3})[2] = TimesX(Powers({3})[1])
        /\ Powers({3})[3] = TimesX(Powers({3})[2])
    BY <1>2, <1>11
  <2>2. Powers({3})[2] = {5}
    BY <1>1, <2>1
  <2> QED BY <1>1, <1>13, <2>1, <2>2
<1>18. Square({4}) = {0, 1, 3, 4}
  <2>1. /\ Powers({4})[0] = {4}
        /\ Powers({4})[1] = TimesX(Powers({4})[0])
        /\ Powers({4})[2] = TimesX(Powers({4})[1])
        /\ Powers({4})[3] = TimesX(Powers({4})[2])
        /\ Powers({4})[4] = TimesX(Powers({4})[3])
    BY <1>2, <1>11
  <2>2. Powers({4})[2] = {6}
    BY <1>1, <2>1
  <2>3. Powers({4})[3] = {7}
    BY <1>1, <2>1, <2>2
  <2> QED BY <1>3, <1>13, <2>1, <2>3
<1>19. Square({5}) = {2, 3, 5, 6}
  <2>1. /\ Powers({5})[0] = {5}
        /\ Powers({5})[1] = TimesX(Powers({5})[0])
        /\ Powers({5})[2] = TimesX(Powers({5})[1])
        /\ Powers({5})[3] = TimesX(Powers({5})[2])
        /\ Powers({5})[4] = TimesX(Powers({5})[3])
        /\ Powers({5})[5] = TimesX(Powers({5})[4])
    BY <1>2, <1>11
  <2>2. Powers({5})[2] = {7}
    BY <1>1, <2>1
  <2>3. Powers({5})[3] = {0, 1, 3, 4}
    BY <1>3, <2>1, <2>2
  <2>4. Powers({5})[4] = {1, 2, 4, 5}
    BY <1>4, <2>1, <2>3
  <2> QED BY <1>5, <1>13, <2>1, <2>4
<1>20. Square({6}) = {0, 1, 3, 5, 7}
  <2>1. /\ Powers({6})[0] = {6}
        /\ Powers({6})[1] = TimesX(Powers({6})[0])
        /\ Powers({6})[2] = TimesX(Powers({6})[1])
        /\ Powers({6})[3] = TimesX(Powers({6})[2])
        /\ Powers({6})[4] = TimesX(Powers({6})[3])
        /\ Powers({6})[5] = TimesX(Powers({6})[4])
        /\ Powers({6})[6] = TimesX(Powers({6})[5])
    BY <1>2, <1>11
  <2>2. Powers({6})[1] = {7}
    BY <1>1, <2>1
  <2>3. Powers({6})[2] = {0, 1, 3, 4}
    BY <1>3, <2>1, <2>2
  <2>4. Powers({6})[3] = {1, 2, 4, 5}
    BY <1>4, <2>1, <2>3
  <2>5. Powers({6})[4] = {2, 3, 5, 6}
    BY <1>5, <2>1, <2>4
  <2>6. Powers({6})[5] = {3, 4, 6, 7}
    BY <1>6, <2>1, <2>5
  <2> QED BY <1>7, <1>13, <2>1, <2>6
<1>21. Square({7}) = {1, 3, 4, 7}
  <2>1. /\ Powers({7})[0] = {7}
        /\ Powers({7})[1] = TimesX(Powers({7})[0])
        /\ Powers({7})[2] = TimesX(Powers({7})[1])
        /\ Powers({7})[3] = TimesX(Powers({7})[2])
        /\ Powers({7})[4] = TimesX(Powers({7})[3])
        /\ Powers({7})[5] = TimesX(Powers({7})[4])
        /\ Powers({7})[6] = TimesX(Powers({7})[5])
        /\ Powers({7})[7] = TimesX(Powers({7})[6])
    BY <1>2, <1>11
  <2>2. Powers({7})[1] = {0, 1, 3, 4}
    BY <1>3, <2>1
  <2>3. Powers({7})[2] = {1, 2, 4, 5}
    BY <1>4, <2>1, <2>2
  <2>4. Powers({7})[3] = {2, 3, 5, 6}
    BY <1>5, <2>1, <2>3
  <2>5. Powers({7})[4] = {3, 4, 6, 7}
    BY <1>6, <2>1, <2>4
  <2>6. Powers({7})[5] = {0, 1, 3, 5, 7}
    BY <1>7, <2>1, <2>5
  <2>7. Powers({7})[6] = {0, 2, 3, 6}
    BY <1>8, <2>1, <2>6
  <2> QED BY <1>9, <1>13, <2>1, <2>7
<1> QED BY <1>14, <1>15, <1>16, <1>17, <1>18, <1>19, <1>20, <1>21

(* The bits of a square. *)
LEMMA SquareBits ==
  ASSUME NEW a \in Byte
  PROVE  /\ 0 \in Square(a) <=> ((0 \in a <=> 4 \in a) <=> 6 \in a)
         /\ 1 \in Square(a) <=> ((4 \in a <=> 6 \in a) <=> 7 \in a)
         /\ 2 \in Square(a) <=> ~(1 \in a <=> 5 \in a)
         /\ 3 \in Square(a) <=> ~((4 \in a <=> 5 \in a) <=> (6 \in a <=> 7 \in a))
         /\ 4 \in Square(a) <=> ((2 \in a <=> 4 \in a) <=> 7 \in a)
         /\ 5 \in Square(a) <=> ~(5 \in a <=> 6 \in a)
         /\ 6 \in Square(a) <=> ~(3 \in a <=> 5 \in a)
         /\ 7 \in Square(a) <=> ~(6 \in a <=> 7 \in a)
PROOF
<1> DEFINE f == [b \in Byte |-> Square(b)]
           t == [i \in 0..7 |-> IF i \in a THEN f[{i}] ELSE Zero]
<1>0. \A i \in 0..7 : {i} \in Byte
  BY DEF Byte
<1>1. Additive(f)
  <2>1. \A u, v \in Byte : /\ Square(u) \in Byte /\ Square(Xor(u, v)) = Xor(Square(u), Square(v))
    BY SquareLaws
  <2>2. \A u, v \in Byte : Xor(u, v) \in Byte
    BY XorLaws
  <2> QED BY <2>1, <2>2 DEF Additive
<1>2. Square(a) = Sum8(t)
  <2>1. f[a] = Sum8(t)
    <3> HIDE DEF f
    <3> QED BY <1>1, AdditiveSum
  <2> QED BY <2>1
<1>3. \A i \in 0..7 : t[i] = IF i \in a THEN Square({i}) ELSE Zero
  BY <1>0
<1> HIDE DEF t, f
<1>4. /\ t[0] = IF 0 \in a THEN {0} ELSE {}
      /\ t[1] = IF 1 \in a THEN {2} ELSE {}
      /\ t[2] = IF 2 \in a THEN {4} ELSE {}
      /\ t[3] = IF 3 \in a THEN {6} ELSE {}
      /\ t[4] = IF 4 \in a THEN {0, 1, 3, 4} ELSE {}
      /\ t[5] = IF 5 \in a THEN {2, 3, 5, 6} ELSE {}
      /\ t[6] = IF 6 \in a THEN {0, 1, 3, 5, 7} ELSE {}
      /\ t[7] = IF 7 \in a THEN {1, 3, 4, 7} ELSE {}
  BY <1>3, SquaresOfBits DEF Zero
<1>5. \A u, v, i : i \in Xor(u, v) <=> ~(i \in u <=> i \in v)
  BY DEF Xor
<1>6. \A i : i \in Sum8(t) <=>
        ~(~(~(~(~(~(~(i \in t[0] <=> i \in t[1]) <=> i \in t[2]) <=> i \in t[3])
            <=> i \in t[4]) <=> i \in t[5]) <=> i \in t[6]) <=> i \in t[7])
  BY <1>5 DEF Sum8
<1>7. 0 \in Square(a) <=> ((0 \in a <=> 4 \in a) <=> 6 \in a)
  BY <1>2, <1>4, <1>6
<1>8. 1 \in Square(a) <=> ((4 \in a <=> 6 \in a) <=> 7 \in a)
  BY <1>2, <1>4, <1>6
<1>9. 2 \in Square(a) <=> ~(1 \in a <=> 5 \in a)
  BY <1>2, <1>4, <1>6
<1>10. 3 \in Square(a) <=> ~((4 \in a <=> 5 \in a) <=> (6 \in a <=> 7 \in a))
  BY <1>2, <1>4, <1>6
<1>11. 4 \in Square(a) <=> ((2 \in a <=> 4 \in a) <=> 7 \in a)
  BY <1>2, <1>4, <1>6
<1>12. 5 \in Square(a) <=> ~(5 \in a <=> 6 \in a)
  BY <1>2, <1>4, <1>6
<1>13. 6 \in Square(a) <=> ~(3 \in a <=> 5 \in a)
  BY <1>2, <1>4, <1>6
<1>14. 7 \in Square(a) <=> ~(6 \in a <=> 7 \in a)
  BY <1>2, <1>4, <1>6
<1> QED BY <1>7, <1>8, <1>9, <1>10, <1>11, <1>12, <1>13, <1>14

(* The bytes that are their own square. *)
LEMMA OwnSquare ==
  ASSUME NEW a \in Byte, Square(a) = a
  PROVE  a = Zero \/ a = One
PROOF
<1>1. 1 \notin a /\ 2 \notin a /\ 3 \notin a /\ 4 \notin a
      /\ 5 \notin a /\ 6 \notin a /\ 7 \notin a
  BY SquareBits
<1>2. Zero \in Byte /\ One \in Byte
  BY XorLaws
<1>3. CASE 0 \in a
  BY <1>1, <1>2, <1>3, SameBits DEF One
<1>4. CASE 0 \notin a
  BY <1>1, <1>2, <1>4, SameBits DEF Zero
<1> QED BY <1>3, <1>4

(* Squared eight times, a byte is what it was: a^256 = a. *)
LEMMA EightSquares ==
  ASSUME NEW a \in Byte
  PROVE  Square(Square(Square(Square(Square(Square(Square(Square(a)))))))) = a
PROOF
<1> DEFINE F(b) == Square(Square(Square(Square(Square(Square(Square(Square(b))))))))
           f == [b \in Byte |-> F(b)]
<1>1. \A u, v \in Byte : /\ Square(u) \in Byte
                         /\ Square(Xor(u, v)) = Xor(Square(u), Square(v))
                         /\ Square(GfMul(u, v)) = GfMul(Square(u), Square(v))
  BY SquareLaws
<1>2. \A u, v \in Byte : Xor(u, v) \in Byte
  BY XorLaws
<1>3. \A u \in Byte : F(u) \in Byte
  BY <1>1
<1>4. \A u, v \in Byte : F(GfMul(u, v)) = GfMul(F(u), F(v))
  <2> SUFFICES ASSUME NEW u \in Byte, NEW v \in Byte PROVE F(GfMul(u, v)) = GfMul(F(u), F(v))
    OBVIOUS
  <2> QED BY <1>1
<1>5. Additive(f)
  <2>1. \A u, v \in Byte : F(Xor(u, v)) = Xor(F(u), F(v))
    <3> SUFFICES ASSUME NEW u \in Byte, NEW v \in Byte PROVE F(Xor(u, v)) = Xor(F(u), F(v))
      OBVIOUS
    <3> QED BY <1>1
  <2> HIDE DEF F
  <2> QED BY <1>2, <1>3, <2>1 DEF Additive
<1>6. \A i \in 0..7 : {i} \in Byte
  BY DEF Byte
<1>7. F({0}) = {0}
  BY SquaresOfBits
<1>8. F({1}) = {1}
  <2>0. /\ {4} \in Byte /\ {0, 1, 3, 4} \in Byte /\ {1, 2, 3, 4, 6} \in Byte
        /\ {2, 5, 6, 7} \in Byte /\ {0, 2, 3, 6} \in Byte /\ {1, 3, 4, 5, 6, 7} \in Byte
        /\ {1} \in Byte
    BY DEF Byte
  <2>1. Square({0, 1, 3, 4}) = {1, 2, 3, 4, 6}
    BY <1>1, <2>0, SquareBits, SameBits
  <2>2. Square({1, 2, 3, 4, 6}) = {2, 5, 6, 7}
    BY <1>1, <2>0, SquareBits, SameBits
  <2>3. Square({2, 5, 6, 7}) = {0, 2, 3, 6}
    BY <1>1, <2>0, SquareBits, SameBits
  <2>4. Square({0, 2, 3, 6}) = {1, 3, 4, 5, 6, 7}
    BY <1>1, <2>0, SquareBits, SameBits
  <2>5. Square({1, 3, 4, 5, 6, 7}) = {1}
    BY <1>1, <2>0, SquareBits, SameBits
  <2>6. Square(Square(Square({1}))) = {0, 1, 3, 4}
    BY SquaresOfBits
  <2>7. Square(Square(Square(Square(Square({1}))))) = {2, 5, 6, 7}
    BY <2>1, <2>2, <2>6
  <2>8. Square(Square(Square(Square(Square(Square(Square({1}))))))) = {1, 3, 4, 5, 6, 7}
    BY <2>3, <2>4, <2>7
  <2> QED BY <2>5, <2>8
<1> HIDE DEF F
<1>9. \A i \in 0..6 : GfMul({i}, {1}) = {i + 1}
  <2>1. PICK w : IsScale(w)
    BY Scale
  <2> SUFFICES ASSUME NEW i \in 0..6 PROVE GfMul({i}, {1}) = {i + 1}
    OBVIOUS
  <2>2. i \in 0..7 /\ i \in 0..14 /\ 1 \in 0..7 /\ i + 1 \in 0..7
    OBVIOUS
  <2> QED BY <2>1, <2>2 DEF IsScale
<1>10. \A i \in 0..7 : F({i}) = {i}
  <2> DEFINE T == {i \in 0..7 : F({i}) = {i}}
  <2>1. 0 \in T
    BY <1>7
  <2>2. \A i \in 0 .. 7 - 1 : i \in T => i + 1 \in T
    <3> SUFFICES ASSUME NEW i \in 0 .. 7 - 1, i \in T PROVE i + 1 \in T
      BY Zenon
    <3>1. {i} \in Byte /\ {1} \in Byte
      BY DEF Byte
    <3>2. F({i}) = {i}
      BY Zenon
    <3>5. i + 1 \in 0..7
      OBVIOUS
    <3>3. F(GfMul({i}, {1})) = GfMul(F({i}), F({1}))
      BY <1>4, <3>1
    <3>6. GfMul({i}, {1}) = {i + 1}
      <4>1. i \in 0..6
        OBVIOUS
      <4> HIDE DEF F, T, f
      <4> QED BY <1>9, <4>1, Zenon
    <3>4. F({i + 1}) = {i + 1}
      BY <1>8, <3>2, <3>3, <3>6
    <3> QED BY <3>4, <3>5, Zenon
  <2>3. 0..7 \subseteq T
    <3> HIDE DEF T
    <3> QED BY <2>1, <2>2, NatSetInduction
  <2> QED BY <2>3
<1> DEFINE g == [b \in Byte |-> b]
<1>11. Additive(g)
  BY <1>2 DEF Additive
<1>12. \A i \in 0..7 : f[{i}] = g[{i}]
  BY <1>6, <1>10
<1>13. f[a] = g[a]
  <2> HIDE DEF f, g
  <2> QED BY <1>5, <1>11, <1>12, SameOnBits
<1>14. F(a) = a
  BY <1>13
<1> QED BY <1>14 DEF F

(* What gf_inv makes: the product of the squares, but for the first.        *)
IsInvLoop(q, s, a) ==
  /\ q \in [0..8 -> Byte] /\ s \in [0..8 -> Byte]
  /\ s[0] = a /\ q[0] = One /\ q[1] = One
  /\ \A i \in 0..7 : s[i + 1] = Square(s[i])
  /\ \A i \in 1..7 : q[i + 1] = GfMul(q[i], s[i])

(* gf_inv goes through such lists.                                          *)
LEMMA InvLoop ==
  ASSUME NEW a \in Byte
  PROVE  \E q, s : IsInvLoop(q, s, a) /\ GfInv(a) = q[8]
PROOF
<1> DEFINE V == [result : Byte, base : Byte]
           start == [result |-> One, base |-> a]
           Go(i, v) == [result |-> IF i - 1 \in ByteOf(254)
                                     THEN GfMul(v.result, v.base) ELSE v.result,
                        base |-> GfMul(v.base, v.base)]
           G == [i \in 1..8 |-> [v \in V |-> Go(i, v)]]
           Rec(h) == [i \in 0..8 |-> IF i = 0 THEN [result |-> One, base |-> a]
                                     ELSE LET r_ == h[i - 1] IN
                                          [result |-> IF i - 1 \in ByteOf(254)
                                             THEN GfMul(r_.result, r_.base) ELSE r_.result,
                                           base |-> GfMul(r_.base, r_.base)]]
<1>1. start \in V
  BY XorLaws
<1>2. \A i \in 1..8 : \A v \in V : Go(i, v) \in V
  BY MulType
<1>3. G \in [1..8 -> [V -> V]] /\ 8 \in Nat
  BY <1>2
<1>4. PICK f \in [0..8 -> V] : Recurs(f, start, G, 8)
  <2> HIDE DEF G, V, start
  <2> QED BY <1>1, <1>3, Recursion
<1>5. f[0] = start /\ \A i \in 1..8 : f[i] = Go(i, f[i - 1])
  <2>1. \A i \in 1..8 : f[i] = G[i][f[i - 1]] /\ f[i - 1] \in V
    <3> HIDE DEF G, V
    <3> QED BY <1>4 DEF Recurs
  <2>2. \A i \in 1..8 : \A v \in V : G[i][v] = Go(i, v)
    OBVIOUS
  <2> HIDE DEF G, V, Go, start
  <2>3. f[0] = start
    BY <1>4 DEF Recurs
  <2> QED BY <2>1, <2>2, <2>3
<1>6. f = Rec(f)
  <2>1. \A i \in 0..8 : f[i] = Rec(f)[i]
    BY <1>5
  <2> HIDE DEF V, G
  <2>2. f = [i \in 0..8 |-> f[i]]
    BY <1>4
  <2> QED BY <2>1, <2>2
<1> DEFINE u == CHOOSE h : h = Rec(h)
<1>7. u = Rec(u)
  <2> HIDE DEF Rec
  <2> QED BY <1>6
<1>8. GfInv(a) = u[8].result
  BY DEF GfInv
<1> HIDE DEF u
<1>9. u[0] = start /\ \A i \in 1..8 : u[i] = Go(i, u[i - 1])
  BY <1>7
<1>10. \A i \in 1..8 : u[i - 1] \in V => u[i] = G[i][u[i - 1]]
  <2>1. \A i \in 1..8 : \A v \in V : G[i][v] = Go(i, v)
    OBVIOUS
  <2> HIDE DEF G, V, Go
  <2> QED BY <1>9, <2>1
<1>11. u = [i \in 0..8 |-> u[i]]
  BY <1>7
<1>12. u \in [0..8 -> V]
  <2> HIDE DEF G, V, start, Rec
  <2> QED BY <1>1, <1>3, <1>9, <1>10, <1>11, RecursionType
<1> DEFINE q == [i \in 0..8 |-> u[i].result]
           s == [i \in 0..8 |-> u[i].base]
<1>13. ByteOf(254) = 1..7
  BY DEF ByteOf
<1>14. \A i \in 0..7 : s[i + 1] = Square(s[i])
                       /\ q[i + 1] = IF i = 0 THEN q[i] ELSE GfMul(q[i], s[i])
  <2> SUFFICES ASSUME NEW i \in 0..7
               PROVE  /\ u[i + 1].base = Square(u[i].base)
                      /\ u[i + 1].result = IF i = 0 THEN u[i].result
                                           ELSE GfMul(u[i].result, u[i].base)
    OBVIOUS
  <2>1. i + 1 \in 1..8 /\ (i + 1) - 1 = i /\ (i \in 1..7 <=> i # 0)
    OBVIOUS
  <2>2. u[i + 1] = Go(i + 1, u[i])
    <3> HIDE DEF Go
    <3> QED BY <1>9, <2>1
  <2> QED BY <1>13, <2>1, <2>2 DEF Square
<1>15. s[0] = a /\ q[0] = One
  BY <1>9
<1>16. q[1] = One
  <2>1. 0 + 1 = 1 /\ 0 \in 0..7
    OBVIOUS
  <2> HIDE DEF q, s
  <2> QED BY <1>14, <1>15, <2>1
<1>17. q \in [0..8 -> Byte] /\ s \in [0..8 -> Byte]
  BY <1>12
<1>18. q[8] = u[8].result
  OBVIOUS
<1> HIDE DEF q, s
<1>19. \A i \in 1..7 : q[i + 1] = GfMul(q[i], s[i])
  BY <1>14
<1> QED BY <1>8, <1>14, <1>15, <1>16, <1>17, <1>18, <1>19 DEF IsInvLoop

(* gf_inv is an inverse, for every byte but 0.                              *)
LEMMA Inverses ==
  ASSUME NEW a \in Byte, a # Zero
  PROVE  GfInv(a) \in Byte /\ GfMul(a, GfInv(a)) = One
PROOF
<1>1. PICK q, s : IsInvLoop(q, s, a) /\ GfInv(a) = q[8]
  BY InvLoop
<1>2. \A u, v \in Byte : /\ GfMul(u, v) \in Byte /\ GfMul(u, v) = GfMul(v, u)
                         /\ Square(u) \in Byte
                         /\ Square(GfMul(u, v)) = GfMul(Square(u), Square(v))
  BY MulType, MulCommutes, SquareLaws
<1>3. \A u, v, w \in Byte : GfMul(GfMul(u, v), w) = GfMul(u, GfMul(v, w))
  BY MulAssociates
<1>4. \A u \in Byte : GfMul(u, One) = u /\ GfMul(One, u) = u
  BY MulUnits
<1>5. One \in Byte /\ Zero \in Byte /\ Square(One) = One
  BY <1>4, XorLaws DEF Square
<1>6. \A i \in 0..8 : s[i] \in Byte /\ q[i] \in Byte
  BY <1>1 DEF IsInvLoop
<1>7. s[8] = a
  <2>1. /\ s[1] = Square(s[0]) /\ s[2] = Square(s[1]) /\ s[3] = Square(s[2])
        /\ s[4] = Square(s[3]) /\ s[5] = Square(s[4]) /\ s[6] = Square(s[5])
        /\ s[7] = Square(s[6]) /\ s[8] = Square(s[7])
    <3>1. /\ 0 + 1 = 1 /\ 1 + 1 = 2 /\ 2 + 1 = 3 /\ 3 + 1 = 4
          /\ 4 + 1 = 5 /\ 5 + 1 = 6 /\ 6 + 1 = 7 /\ 7 + 1 = 8
          /\ 0 \in 0..7 /\ 1 \in 0..7 /\ 2 \in 0..7 /\ 3 \in 0..7
          /\ 4 \in 0..7 /\ 5 \in 0..7 /\ 6 \in 0..7 /\ 7 \in 0..7
      OBVIOUS
    <3>2. \A i \in 0..7 : s[i + 1] = Square(s[i])
      BY <1>1 DEF IsInvLoop
    <3> QED BY <3>1, <3>2
  <2>2. s[0] = a
    BY <1>1 DEF IsInvLoop
  <2> QED BY <2>1, <2>2, EightSquares
<1> DEFINE b == s[1]
<1>8. b = GfMul(a, a) /\ b \in Byte
  <2>1. 0 + 1 = 1 /\ 0 \in 0..7 /\ 1 \in 0..8
    OBVIOUS
  <2> QED BY <1>1, <1>6, <2>1 DEF IsInvLoop, Square
<1>9. \A i \in 1..8 : GfMul(b, q[i]) = s[i]
  <2> DEFINE T == {i \in 0..8 : i # 0 => GfMul(b, q[i]) = s[i]}
  <2>1. 0 \in T
    OBVIOUS
  <2>2. \A i \in 0 .. 8 - 1 : i \in T => i + 1 \in T
    <3> SUFFICES ASSUME NEW i \in 0..7, i # 0 => GfMul(b, q[i]) = s[i]
                 PROVE  GfMul(b, q[i + 1]) = s[i + 1]
      OBVIOUS
    <3>1. CASE i = 0
      <4>1. i + 1 = 1
        BY <3>1
      <4>2. q[1] = One
        BY <1>1 DEF IsInvLoop
      <4> QED BY <1>4, <1>8, <4>1, <4>2
    <3>2. CASE i # 0
      <4>1. q[i + 1] = GfMul(q[i], s[i]) /\ s[i + 1] = Square(s[i])
        BY <1>1, <3>2 DEF IsInvLoop
      <4>2. GfMul(b, GfMul(q[i], s[i])) = GfMul(GfMul(b, q[i]), s[i])
        BY <1>3, <1>6, <1>8
      <4> QED BY <3>2, <4>1, <4>2 DEF Square
    <3> QED BY <3>1, <3>2
  <2>3. 0..8 \subseteq T
    <3> HIDE DEF T
    <3> QED BY <2>1, <2>2, NatSetInduction
  <2> QED BY <2>3
<1>10. \A i \in 1..7 : GfMul(b, Square(q[i])) = q[i + 1]
  <2> DEFINE T == {i \in 0..7 : i # 0 => GfMul(b, Square(q[i])) = q[i + 1]}
  <2>1. 0 \in T
    OBVIOUS
  <2>2. \A i \in 0 .. 7 - 1 : i \in T => i + 1 \in T
    <3> SUFFICES ASSUME NEW i \in 0..6, i # 0 => GfMul(b, Square(q[i])) = q[i + 1]
                 PROVE  GfMul(b, Square(q[i + 1])) = q[(i + 1) + 1]
      OBVIOUS
    <3>0. i + 1 \in 1..7
      OBVIOUS
    <3>1. q[(i + 1) + 1] = GfMul(q[i + 1], s[i + 1])
      BY <1>1, <3>0 DEF IsInvLoop
    <3>2. CASE i = 0
      <4>1. i + 1 = 1 /\ q[1] = One
        BY <1>1, <3>2 DEF IsInvLoop
      <4> QED BY <1>4, <1>5, <1>8, <3>1, <4>1
    <3>3. CASE i # 0
      <4>1. q[i + 1] = GfMul(q[i], s[i]) /\ s[i + 1] = Square(s[i])
        BY <1>1, <3>3 DEF IsInvLoop
      <4>2. Square(q[i + 1]) = GfMul(Square(q[i]), Square(s[i]))
        BY <1>2, <1>6, <4>1
      <4>3. GfMul(b, GfMul(Square(q[i]), Square(s[i]))) = GfMul(GfMul(b, Square(q[i])), Square(s[i]))
        <5>1. i \in 0..8
          OBVIOUS
        <5>2. Square(q[i]) \in Byte /\ Square(s[i]) \in Byte
          BY <1>2, <1>6, <5>1
        <5> QED BY <1>3, <1>8, <5>2
      <4> QED BY <3>1, <3>3, <4>1, <4>2, <4>3
    <3> QED BY <3>2, <3>3
  <2>3. 0..7 \subseteq T
    <3> HIDE DEF T
    <3> QED BY <2>1, <2>2, NatSetInduction
  <2> QED BY <2>3
<1> DEFINE e == GfMul(a, q[8])
<1>11. q[8] \in Byte /\ q[7] \in Byte /\ s[7] \in Byte /\ e \in Byte
  <2>1. 7 \in 0..8 /\ 8 \in 0..8
    OBVIOUS
  <2>2. q[8] \in Byte /\ q[7] \in Byte /\ s[7] \in Byte
    BY <1>6, <2>1
  <2> QED BY <1>2, <2>2
<1>12. GfMul(a, e) = a
  <2>1. GfMul(b, q[8]) = s[8]
    BY <1>9
  <2>2. GfMul(a, GfMul(a, q[8])) = GfMul(GfMul(a, a), q[8])
    BY <1>3, <1>11
  <2> QED BY <1>7, <1>8, <2>1, <2>2
<1>13. Square(e) = e
  <2>1. q[8] = GfMul(q[7], s[7]) /\ s[8] = Square(s[7]) /\ 7 \in 1..7
    <3>1. 7 + 1 = 8 /\ 7 \in 1..7 /\ 7 \in 0..7
      OBVIOUS
    <3> QED BY <1>1, <3>1 DEF IsInvLoop
  <2>2. GfMul(b, Square(q[7])) = q[8]
    <3>1. 7 + 1 = 8
      OBVIOUS
    <3> QED BY <1>10, <2>1, <3>1
  <2>3. Square(q[8]) = GfMul(Square(q[7]), Square(s[7]))
    BY <1>2, <1>11, <2>1
  <2>4. GfMul(b, Square(q[8])) = GfMul(GfMul(b, Square(q[7])), Square(s[7]))
    <3>1. Square(q[7]) \in Byte /\ Square(s[7]) \in Byte
      BY <1>2, <1>11
    <3> QED BY <1>3, <1>8, <2>3, <3>1
  <2>5. GfMul(b, Square(q[8])) = GfMul(q[8], a)
    BY <1>7, <2>1, <2>2, <2>4
  <2>6. Square(e) = GfMul(Square(a), Square(q[8]))
    BY <1>2, <1>11
  <2> QED BY <1>2, <1>8, <1>11, <2>5, <2>6 DEF Square
<1>14. e = One
  <2>1. e = Zero \/ e = One
    BY <1>11, <1>13, OwnSquare
  <2>2. e # Zero
    BY <1>12, MulUnits
  <2> QED BY <2>1, <2>2
<1> QED BY <1>1, <1>11, <1>14

(* There are no divisors of 0.                                              *)
LEMMA NoDivisors ==
  ASSUME NEW a \in Byte, NEW b \in Byte, GfMul(a, b) = Zero
  PROVE  a = Zero \/ b = Zero
PROOF
<1> SUFFICES ASSUME a # Zero PROVE b = Zero
  OBVIOUS
<1> DEFINE c == GfInv(a)
<1>1. c \in Byte /\ GfMul(a, c) = One
  BY Inverses
<1> HIDE DEF c
<1>2. GfMul(c, GfMul(a, b)) = GfMul(GfMul(c, a), b)
  BY <1>1, MulAssociates
<1>3. GfMul(c, a) = One
  BY <1>1, MulCommutes
<1> QED BY <1>1, <1>2, <1>3, MulUnits
-----------------------------------------------------------------------------
(* A step of Remainder: the term of degree d + 1 is taken away.             *)
Reduced(d, p) ==
  IF d + 1 \in p THEN Xor(p, {d + 1, d - 3, d - 4, d - 6, d - 7}) ELSE p

(* Remainder takes the seven steps, from the highest degree down.           *)
LEMMA RemainderSteps ==
  ASSUME NEW p
  PROVE  Remainder(p) = Reduced(7, Reduced(8, Reduced(9, Reduced(10,
                          Reduced(11, Reduced(12, Reduced(13, p)))))))
PROOF
<1> DEFINE Rec(g) == [d \in 7..14 |-> IF d = 14 THEN p ELSE Reduced(d, g[d + 1])]
           u == CHOOSE g : g = Rec(g)
           a13 == Reduced(13, p)
           a12 == Reduced(12, a13)
           a11 == Reduced(11, a12)
           a10 == Reduced(10, a11)
           a9 == Reduced(9, a10)
           a8 == Reduced(8, a9)
           a7 == Reduced(7, a8)
           f == [d \in 7..14 |-> IF d = 14 THEN p ELSE IF d = 13 THEN a13
                                 ELSE IF d = 12 THEN a12 ELSE IF d = 11 THEN a11
                                 ELSE IF d = 10 THEN a10 ELSE IF d = 9 THEN a9
                                 ELSE IF d = 8 THEN a8 ELSE a7]
<1>1. /\ f[14] = p /\ f[13] = a13 /\ f[12] = a12 /\ f[11] = a11
      /\ f[10] = a10 /\ f[9] = a9 /\ f[8] = a8 /\ f[7] = a7
  <2> HIDE DEF a7, a8, a9, a10, a11, a12, a13
  <2> QED OBVIOUS
<1>2. f = [d \in 7..14 |-> f[d]]
  OBVIOUS
<1> HIDE DEF f
<1>3. \A d \in 7..13 : f[d] = Reduced(d, f[d + 1])
  <2> SUFFICES ASSUME NEW d \in 7..13 PROVE f[d] = Reduced(d, f[d + 1])
    OBVIOUS
  <2>1. /\ f[13] = Reduced(13, f[14]) /\ f[12] = Reduced(12, f[13])
        /\ f[11] = Reduced(11, f[12]) /\ f[10] = Reduced(10, f[11])
        /\ f[9] = Reduced(9, f[10]) /\ f[8] = Reduced(8, f[9]) /\ f[7] = Reduced(7, f[8])
    BY <1>1
  <2>2. d = 7 \/ d = 8 \/ d = 9 \/ d = 10 \/ d = 11 \/ d = 12 \/ d = 13
    <3> HIDE DEF a7, a8, a9, a10, a11, a12, a13
    <3> QED OBVIOUS
  <2>3. 7 + 1 = 8 /\ 8 + 1 = 9 /\ 9 + 1 = 10 /\ 10 + 1 = 11
        /\ 11 + 1 = 12 /\ 12 + 1 = 13 /\ 13 + 1 = 14
    OBVIOUS
  <2> QED BY <2>1, <2>2, <2>3
<1>4. f = Rec(f)
  <2>1. \A d \in 7..14 : f[d] = IF d = 14 THEN p ELSE Reduced(d, f[d + 1])
    BY <1>1, <1>3
  <2> QED BY <1>2, <2>1
<1>5. u = Rec(u)
  BY <1>4
<1> HIDE DEF u
<1>6. \A d \in 7..13 : u[d] = Reduced(d, u[d + 1])
  BY <1>5
<1>7. u[14] = p
  BY <1>5
<1>8. /\ u[13] = Reduced(13, u[14]) /\ u[12] = Reduced(12, u[13])
      /\ u[11] = Reduced(11, u[12]) /\ u[10] = Reduced(10, u[11])
      /\ u[9] = Reduced(9, u[10]) /\ u[8] = Reduced(8, u[9]) /\ u[7] = Reduced(7, u[8])
  BY <1>6
<1>9. u[7] = a7
  BY <1>7, <1>8
<1>10. Remainder(p) = u[7]
  BY DEF Remainder, Reduced, u
<1> QED BY <1>9, <1>10

(* The remainder is additive.                                               *)
LEMMA RemainderAdditive ==
  \A p, q : Remainder(Xor(p, q)) = Xor(Remainder(p), Remainder(q))
PROOF
<1>1. \A p, q, d : Reduced(d, Xor(p, q)) = Xor(Reduced(d, p), Reduced(d, q))
  <2> SUFFICES ASSUME NEW p, NEW q, NEW d
               PROVE  Reduced(d, Xor(p, q)) = Xor(Reduced(d, p), Reduced(d, q))
    OBVIOUS
  <2> DEFINE K == {d + 1, d - 3, d - 4, d - 6, d - 7}
             e == d + 1
  <2>1. \A s : Reduced(d, s) = IF e \in s THEN Xor(s, K) ELSE s
    BY DEF Reduced
  <2>2. e \in Xor(p, q) <=> ~(e \in p <=> e \in q)
    BY DEF Xor
  <2> HIDE DEF K, e
  <2>3. /\ Xor(Xor(p, q), K) = Xor(Xor(p, K), q)
        /\ Xor(Xor(p, q), K) = Xor(p, Xor(q, K))
        /\ Xor(p, q) = Xor(Xor(p, K), Xor(q, K))
    BY DEF Xor
  <2>4. CASE e \in p /\ e \in q
    BY <2>1, <2>2, <2>3, <2>4
  <2>5. CASE e \in p /\ e \notin q
    <3>1. Reduced(d, p) = Xor(p, K) /\ Reduced(d, q) = q
      BY <2>1, <2>5
    <3>2. Reduced(d, Xor(p, q)) = Xor(Xor(p, q), K)
      BY <2>1, <2>2, <2>5
    <3> QED BY <2>3, <3>1, <3>2
  <2>6. CASE e \notin p /\ e \in q
    BY <2>1, <2>2, <2>3, <2>6
  <2>7. CASE e \notin p /\ e \notin q
    BY <2>1, <2>2, <2>7
  <2> QED BY <2>4, <2>5, <2>6, <2>7
<1> QED BY <1>1, RemainderSteps

(* The remainder is a byte.                                                 *)
LEMMA RemainderByte ==
  ASSUME NEW p \in SUBSET (0..14)
  PROVE  Remainder(p) \in Byte
PROOF
<1>1. \A d \in 7..13 : \A q \in SUBSET (0 .. d + 1) : Reduced(d, q) \in SUBSET (0..d)
  <2> SUFFICES ASSUME NEW d \in 7..13, NEW q \in SUBSET (0 .. d + 1)
               PROVE  Reduced(d, q) \in SUBSET (0..d)
    OBVIOUS
  <2>1. CASE d + 1 \in q
    <3>1. \A e \in Xor(q, {d + 1, d - 3, d - 4, d - 6, d - 7}) : e \in 0..d
      BY <2>1 DEF Xor
    <3> QED BY <2>1, <3>1 DEF Reduced
  <2>2. CASE d + 1 \notin q
    BY <2>2 DEF Reduced
  <2> QED BY <2>1, <2>2
<1>2. \A q : /\ q \in SUBSET (0..14) => Reduced(13, q) \in SUBSET (0..13)
             /\ q \in SUBSET (0..13) => Reduced(12, q) \in SUBSET (0..12)
             /\ q \in SUBSET (0..12) => Reduced(11, q) \in SUBSET (0..11)
             /\ q \in SUBSET (0..11) => Reduced(10, q) \in SUBSET (0..10)
             /\ q \in SUBSET (0..10) => Reduced(9, q) \in SUBSET (0..9)
             /\ q \in SUBSET (0..9) => Reduced(8, q) \in SUBSET (0..8)
             /\ q \in SUBSET (0..8) => Reduced(7, q) \in SUBSET (0..7)
  <2>1. /\ 13 + 1 = 14 /\ 12 + 1 = 13 /\ 11 + 1 = 12 /\ 10 + 1 = 11
        /\ 9 + 1 = 10 /\ 8 + 1 = 9 /\ 7 + 1 = 8
        /\ \A d \in {7, 8, 9, 10, 11, 12, 13} : d \in 7..13
    OBVIOUS
  <2> QED BY <1>1, <2>1
<1> QED BY <1>2, RemainderSteps DEF Byte

(* The remainders of the powers of x are the powers of x in the field.      *)
LEMMA RemainderOfPower ==
  ASSUME NEW w, IsScale(w), NEW l \in 0..14
  PROVE  Remainder({l}) = w[l]
PROOF
<1>1. ASSUME NEW m \in 0..7 PROVE Remainder({m}) = w[m]
  <2>1. \A d \in 7..13 : Reduced(d, {m}) = {m}
    BY DEF Reduced
  <2>2. Remainder({m}) = {m}
    BY <2>1, RemainderSteps
  <2> QED BY <2>2 DEF IsScale
<1>2. \A m \in 7..13 : w[m + 1] = TimesX(w[m]) /\ w[m] \in Byte
  <2> SUFFICES ASSUME NEW m \in 7..13 PROVE w[m + 1] = TimesX(w[m]) /\ w[m] \in Byte
    OBVIOUS
  <2>1. w[m] \in Byte /\ GfMul(w[m], {1}) = w[m + 1]
    BY DEF IsScale
  <2>2. GfMul(w[m], {1}) = Powers(w[m])[1]
    BY <2>1, MulByBit
  <2>3. Powers(w[m])[1] = TimesX(w[m])
    <3>1. 1 \in 1..7 /\ 1 - 1 = 0
      OBVIOUS
    <3> QED BY <2>1, <3>1, PowersOf DEF IsPowers
  <2> QED BY <2>1, <2>2, <2>3
<1>3. /\ w[8] = TimesX(w[7]) /\ w[9] = TimesX(w[8]) /\ w[10] = TimesX(w[9])
      /\ w[11] = TimesX(w[10]) /\ w[12] = TimesX(w[11]) /\ w[13] = TimesX(w[12])
      /\ w[14] = TimesX(w[13]) /\ w[7] = {7}
  BY <1>2 DEF IsScale
<1>4. /\ TimesX({7}) = {0, 1, 3, 4}
      /\ TimesX({0, 1, 3, 4}) = {1, 2, 4, 5}
      /\ TimesX({1, 2, 4, 5}) = {2, 3, 5, 6}
      /\ TimesX({2, 3, 5, 6}) = {3, 4, 6, 7}
  BY DEF TimesX, ShiftLeft, Xor
<1>5. /\ TimesX({3, 4, 6, 7}) = {0, 1, 3, 5, 7}
      /\ TimesX({0, 1, 3, 5, 7}) = {0, 2, 3, 6}
      /\ TimesX({0, 2, 3, 6}) = {1, 3, 4, 7}
  BY DEF TimesX, ShiftLeft, Xor
<1>6. \A d \in 7..13 : \A p : d + 1 \notin p => Reduced(d, p) = p
  BY DEF Reduced
<1>7. \A d \in 7..13 : Reduced(d, {d + 1}) = {d - 3, d - 4, d - 6, d - 7}
  BY DEF Reduced, Xor
<1>8. /\ Reduced(7, {4, 5, 7, 8}) = {0, 1, 3, 5, 7}
      /\ Reduced(8, {5, 6, 8, 9}) = {1, 2, 4, 6, 8}
      /\ Reduced(7, {1, 2, 4, 6, 8}) = {0, 2, 3, 6}
      /\ Reduced(9, {6, 7, 9, 10}) = {2, 3, 5, 7, 9}
      /\ Reduced(8, {2, 3, 5, 7, 9}) = {1, 3, 4, 7}
  BY DEF Reduced, Xor
<1> DEFINE R(p) == Remainder(p)
<1>9. Remainder({8}) = {0, 1, 3, 4}
  <2>1. /\ Reduced(13, {8}) = {8} /\ Reduced(12, {8}) = {8} /\ Reduced(11, {8}) = {8}
        /\ Reduced(10, {8}) = {8} /\ Reduced(9, {8}) = {8} /\ Reduced(8, {8}) = {8}
        /\ Reduced(7, {8}) = {4, 3, 1, 0}
    BY <1>6, <1>7
  <2> QED BY <2>1, RemainderSteps
<1>10. Remainder({9}) = {1, 2, 4, 5}
  <2>1. /\ Reduced(13, {9}) = {9} /\ Reduced(12, {9}) = {9} /\ Reduced(11, {9}) = {9}
        /\ Reduced(10, {9}) = {9} /\ Reduced(9, {9}) = {9}
        /\ Reduced(8, {9}) = {5, 4, 2, 1} /\ Reduced(7, {5, 4, 2, 1}) = {5, 4, 2, 1}
    BY <1>6, <1>7
  <2> QED BY <2>1, RemainderSteps
<1>11. Remainder({10}) = {2, 3, 5, 6}
  <2>1. /\ Reduced(13, {10}) = {10} /\ Reduced(12, {10}) = {10}
        /\ Reduced(11, {10}) = {10} /\ Reduced(10, {10}) = {10}
        /\ Reduced(9, {10}) = {6, 5, 3, 2} /\ Reduced(8, {6, 5, 3, 2}) = {6, 5, 3, 2}
        /\ Reduced(7, {6, 5, 3, 2}) = {6, 5, 3, 2}
    BY <1>6, <1>7
  <2> QED BY <2>1, RemainderSteps
<1>12. Remainder({11}) = {3, 4, 6, 7}
  <2>1. /\ Reduced(13, {11}) = {11} /\ Reduced(12, {11}) = {11} /\ Reduced(11, {11}) = {11}
        /\ Reduced(10, {11}) = {7, 6, 4, 3} /\ Reduced(9, {7, 6, 4, 3}) = {7, 6, 4, 3}
        /\ Reduced(8, {7, 6, 4, 3}) = {7, 6, 4, 3}
        /\ Reduced(7, {7, 6, 4, 3}) = {7, 6, 4, 3}
    BY <1>6, <1>7
  <2> QED BY <2>1, RemainderSteps
<1>13. Remainder({12}) = {0, 1, 3, 5, 7}
  <2>1. /\ Reduced(13, {12}) = {12} /\ Reduced(12, {12}) = {12}
        /\ Reduced(11, {12}) = {4, 5, 7, 8} /\ Reduced(10, {4, 5, 7, 8}) = {4, 5, 7, 8}
        /\ Reduced(9, {4, 5, 7, 8}) = {4, 5, 7, 8} /\ Reduced(8, {4, 5, 7, 8}) = {4, 5, 7, 8}
    BY <1>6, <1>7
  <2> QED BY <1>8, <2>1, RemainderSteps
<1>14. Remainder({13}) = {0, 2, 3, 6}
  <2>1. /\ Reduced(13, {13}) = {13} /\ Reduced(12, {13}) = {5, 6, 8, 9}
        /\ Reduced(11, {5, 6, 8, 9}) = {5, 6, 8, 9} /\ Reduced(10, {5, 6, 8, 9}) = {5, 6, 8, 9}
        /\ Reduced(9, {5, 6, 8, 9}) = {5, 6, 8, 9}
    BY <1>6, <1>7
  <2> QED BY <1>8, <2>1, RemainderSteps
<1>15. Remainder({14}) = {1, 3, 4, 7}
  <2>1. /\ Reduced(13, {14}) = {6, 7, 9, 10} /\ Reduced(12, {6, 7, 9, 10}) = {6, 7, 9, 10}
        /\ Reduced(11, {6, 7, 9, 10}) = {6, 7, 9, 10}
        /\ Reduced(10, {6, 7, 9, 10}) = {6, 7, 9, 10}
        /\ Reduced(7, {1, 3, 4, 7}) = {1, 3, 4, 7}
    BY <1>6, <1>7
  <2> QED BY <1>8, <2>1, RemainderSteps
<1>16. l \in 0..7 \/ l = 8 \/ l = 9 \/ l = 10 \/ l = 11 \/ l = 12 \/ l = 13 \/ l = 14
  OBVIOUS
<1>17. /\ w[8] = {0, 1, 3, 4} /\ w[9] = {1, 2, 4, 5} /\ w[10] = {2, 3, 5, 6}
       /\ w[11] = {3, 4, 6, 7} /\ w[12] = {0, 1, 3, 5, 7} /\ w[13] = {0, 2, 3, 6}
       /\ w[14] = {1, 3, 4, 7}
  BY <1>3, <1>4, <1>5
<1> QED BY <1>1, <1>9, <1>10, <1>11, <1>12, <1>13, <1>14, <1>15, <1>16, <1>17

(* The symmetric difference of two sets has the parity of their sizes.      *)
Odd(S) == Cardinality(S) % 2 = 1

(* It is odd when one of the sizes is odd and the other is not.             *)
LEMMA OddXor ==
  ASSUME NEW S, NEW T, IsFiniteSet(S), IsFiniteSet(T)
  PROVE  Odd(Xor(S, T)) <=> ~(Odd(S) <=> Odd(T))
PROOF
<1> DEFINE A == S \ T
           B == T \ S
           C == S \cap T
<1>1. IsFiniteSet(A) /\ IsFiniteSet(B) /\ IsFiniteSet(C)
  BY FS_Difference, FS_Intersection
<1>2. A \cap B = {} /\ A \cap C = {} /\ B \cap C = {}
      /\ Xor(S, T) = A \cup B /\ S = A \cup C /\ T = B \cup C
  BY DEF Xor
<1> HIDE DEF A, B, C
<1>3. Cardinality(A) \in Nat /\ Cardinality(B) \in Nat /\ Cardinality(C) \in Nat
  BY <1>1, FS_CardinalityType
<1>4. \A U, V : IsFiniteSet(U) /\ IsFiniteSet(V) /\ U \cap V = {}
                  => Cardinality(U \cup V) = Cardinality(U) + Cardinality(V)
  <2> SUFFICES ASSUME NEW U, NEW V, IsFiniteSet(U), IsFiniteSet(V), U \cap V = {}
               PROVE  Cardinality(U \cup V) = Cardinality(U) + Cardinality(V)
    OBVIOUS
  <2>1. Cardinality(U \cup V) = Cardinality(U) + Cardinality(V) - Cardinality(U \cap V)
    BY FS_Union
  <2>2. Cardinality(U \cap V) = 0
    BY FS_EmptySet
  <2>3. Cardinality(U) \in Nat /\ Cardinality(V) \in Nat
    BY FS_CardinalityType
  <2> QED BY <2>1, <2>2, <2>3
<1>5. /\ Cardinality(Xor(S, T)) = Cardinality(A) + Cardinality(B)
      /\ Cardinality(S) = Cardinality(A) + Cardinality(C)
      /\ Cardinality(T) = Cardinality(B) + Cardinality(C)
  BY <1>1, <1>2, <1>4
<1>6. \A n_, m_ \in Nat : (n_ + m_) % 2 = 1 <=> ~(n_ % 2 = 1 <=> m_ % 2 = 1)
  OBVIOUS
<1> HIDE DEF A, B, C
<1> QED BY <1>3, <1>5, <1>6 DEF Odd

(* The product before it is reduced.                                        *)
Unreduced(a, b) == {d \in 0..14 : Odd({i \in a : d - i \in b})}

(* It is additive in both factors.                                          *)
LEMMA UnreducedAdditive ==
  ASSUME NEW a \in Byte, NEW b \in Byte, NEW c \in Byte
  PROVE  /\ Unreduced(c, Xor(a, b)) = Xor(Unreduced(c, a), Unreduced(c, b))
         /\ Unreduced(Xor(a, b), c) = Xor(Unreduced(a, c), Unreduced(b, c))
PROOF
<1>1. \A S \in Byte : \A b_, d : IsFiniteSet({i \in S : d - i \in b_})
  <2> SUFFICES ASSUME NEW S \in Byte, NEW b_, NEW d PROVE IsFiniteSet({i \in S : d - i \in b_})
    OBVIOUS
  <2>1. IsFiniteSet(0..7)
    <3>1. 0 \in Int /\ 7 \in Int
      OBVIOUS
    <3> QED BY <3>1, FS_Interval
  <2>2. {i \in S : d - i \in b_} \subseteq 0..7
    BY DEF Byte
  <2> QED BY <2>1, <2>2, FS_Subset
<1>2. \A d : {i \in c : d - i \in Xor(a, b)}
               = Xor({i \in c : d - i \in a}, {i \in c : d - i \in b})
  BY DEF Xor
<1>3. \A d : {i \in Xor(a, b) : d - i \in c}
               = Xor({i \in a : d - i \in c}, {i \in b : d - i \in c})
  BY DEF Xor
<1>4. \A S, T : IsFiniteSet(S) /\ IsFiniteSet(T) => (Odd(Xor(S, T)) <=> ~(Odd(S) <=> Odd(T)))
  BY OddXor
<1>5. ASSUME NEW d
      PROVE  /\ Odd({i \in c : d - i \in Xor(a, b)})
                  <=> ~(Odd({i \in c : d - i \in a}) <=> Odd({i \in c : d - i \in b}))
             /\ Odd({i \in Xor(a, b) : d - i \in c})
                  <=> ~(Odd({i \in a : d - i \in c}) <=> Odd({i \in b : d - i \in c}))
  <2> DEFINE s1 == {i \in c : d - i \in a}
             s2 == {i \in c : d - i \in b}
             t1 == {i \in a : d - i \in c}
             t2 == {i \in b : d - i \in c}
  <2>1. IsFiniteSet(s1) /\ IsFiniteSet(s2) /\ IsFiniteSet(t1) /\ IsFiniteSet(t2)
    BY <1>1
  <2>2. {i \in c : d - i \in Xor(a, b)} = Xor(s1, s2)
    BY <1>2
  <2>3. {i \in Xor(a, b) : d - i \in c} = Xor(t1, t2)
    BY <1>3
  <2>4. /\ Odd(Xor(s1, s2)) <=> ~(Odd(s1) <=> Odd(s2))
        /\ Odd(Xor(t1, t2)) <=> ~(Odd(t1) <=> Odd(t2))
    <3> HIDE DEF s1, s2, t1, t2
    <3> QED BY <1>4, <2>1
  <2> QED BY <2>2, <2>3, <2>4
<1>6. \A d \in 0..14 :
        d \in Unreduced(c, Xor(a, b)) <=> ~(d \in Unreduced(c, a) <=> d \in Unreduced(c, b))
  BY <1>5 DEF Unreduced
<1>7. \A d \in 0..14 :
        d \in Unreduced(Xor(a, b), c) <=> ~(d \in Unreduced(a, c) <=> d \in Unreduced(b, c))
  BY <1>5 DEF Unreduced
<1>8. \A a_, b_ : Unreduced(a_, b_) \subseteq 0..14
  BY DEF Unreduced
<1>9. \A S, T, U \in SUBSET (0..14) :
        (\A d \in 0..14 : d \in S <=> ~(d \in T <=> d \in U)) => S = Xor(T, U)
  BY DEF Xor
<1> QED BY <1>6, <1>7, <1>8, <1>9

(* For two bits it is the power of x whose degree is the sum of theirs.     *)
LEMMA UnreducedBits ==
  ASSUME NEW i \in 0..7, NEW j \in 0..7
  PROVE  Unreduced({i}, {j}) = {i + j}
PROOF
<1>1. Odd({i}) /\ ~Odd({})
  <2>1. Cardinality({i}) = 1 /\ Cardinality({}) = 0
    BY FS_EmptySet, FS_Singleton
  <2>2. 1 % 2 = 1 /\ 0 % 2 # 1
    OBVIOUS
  <2> QED BY <2>1, <2>2 DEF Odd
<1>2. \A d \in 0..14 : {k_ \in {i} : d - k_ \in {j}} = IF d = i + j THEN {i} ELSE {}
  OBVIOUS
<1>3. i + j \in 0..14 /\ Odd({k_ \in {i} : (i + j) - k_ \in {j}})
  BY <1>1, <1>2
<1>4. \A d \in 0..14 : d # i + j => ~Odd({k_ \in {i} : d - k_ \in {j}})
  BY <1>1, <1>2
<1> QED BY <1>3, <1>4 DEF Unreduced

(* The textbook product is what gf_mul returns: both are additive, and      *)
(* agree on bits.                                                           *)
LEMMA ProductIsMul ==
  \A a, b \in Byte : Product(a, b) = GfMul(a, b)
PROOF
<1> DEFINE L(a) == [b \in Byte |-> Product(a, b)]
           R(b) == [a \in Byte |-> Product(a, b)]
<1>0. \A a, b : Product(a, b) = Remainder(Unreduced(a, b))
  BY DEF Product, Unreduced, Odd
<1>1. \A a, b, c \in Byte : /\ Product(c, Xor(a, b)) = Xor(Product(c, a), Product(c, b))
                            /\ Product(Xor(a, b), c) = Xor(Product(a, c), Product(b, c))
  BY <1>0, UnreducedAdditive, RemainderAdditive
<1>2. \A i \in 0..7 : {i} \in Byte
  BY DEF Byte
<1>3. \A i, j \in 0..7 : Product({i}, {j}) = GfMul({i}, {j})
  <2> SUFFICES ASSUME NEW i \in 0..7, NEW j \in 0..7
               PROVE  Product({i}, {j}) = GfMul({i}, {j})
    OBVIOUS
  <2>1. PICK w : IsScale(w)
    BY Scale
  <2>2. w[i] = {i} /\ GfMul(w[i], {j}) = w[i + j] /\ i + j \in 0..14
    <3>1. i \in 0..14 /\ i + j \in 0..14
      OBVIOUS
    <3> QED BY <2>1, <3>1 DEF IsScale
  <2>3. Remainder({i + j}) = w[i + j]
    BY <2>1, <2>2, RemainderOfPower
  <2> QED BY <1>0, <2>2, <2>3, UnreducedBits
<1>4. \A a, b \in Byte : Product(a, b) \in Byte
  BY <1>0, RemainderByte DEF Unreduced
<1>5. \A a \in Byte : Additive(L(a)) /\ Additive(R(a))
  <2>1. \A u, v \in Byte : Xor(u, v) \in Byte
    BY XorLaws
  <2> SUFFICES ASSUME NEW a \in Byte PROVE Additive(L(a)) /\ Additive(R(a))
    OBVIOUS
  <2>2. \A u, v \in Byte : /\ Product(a, u) \in Byte /\ Product(u, a) \in Byte
                           /\ Product(a, Xor(u, v)) = Xor(Product(a, u), Product(a, v))
                           /\ Product(Xor(u, v), a) = Xor(Product(u, a), Product(v, a))
    BY <1>1, <1>4
  <2>3. Additive(L(a))
    BY <2>1, <2>2 DEF Additive
  <2>4. Additive(R(a))
    BY <2>1, <2>2 DEF Additive
  <2> QED BY <2>3, <2>4
<1>6. \A a \in Byte : Additive(FromLeft(a)) /\ Additive(FromRight(a))
  BY ProductsAdditive
<1>7. \A i \in 0..7 : \A b \in Byte : Product(b, {i}) = GfMul(b, {i})
  <2> SUFFICES ASSUME NEW i \in 0..7 PROVE \A b \in Byte : Product(b, {i}) = GfMul(b, {i})
    OBVIOUS
  <2>1. \A j \in 0..7 : R({i})[{j}] = FromRight({i})[{j}]
    BY <1>2, <1>3 DEF FromRight
  <2>2. \A b \in Byte : R({i})[b] = FromRight({i})[b]
    <3>1. Additive(R({i})) /\ Additive(FromRight({i}))
      BY <1>2, <1>5, <1>6
    <3> HIDE DEF R
    <3> QED BY <2>1, <3>1, SameOnBits
  <2> QED BY <1>2, <2>2 DEF FromRight
<1>8. \A a \in Byte : \A b \in Byte : Product(a, b) = GfMul(a, b)
  <2> SUFFICES ASSUME NEW a \in Byte PROVE \A b \in Byte : Product(a, b) = GfMul(a, b)
    OBVIOUS
  <2>1. \A j \in 0..7 : L(a)[{j}] = FromLeft(a)[{j}]
    BY <1>2, <1>7 DEF FromLeft
  <2>2. \A b \in Byte : L(a)[b] = FromLeft(a)[b]
    <3>1. Additive(L(a)) /\ Additive(FromLeft(a))
      BY <1>5, <1>6
    <3> HIDE DEF L
    <3> QED BY <2>1, <3>1, SameOnBits
  <2> QED BY <2>2 DEF FromLeft
<1> QED BY <1>8

(* One turn of gf_mul's loop.                                               *)
MulInv == x \in Byte /\ y \in Byte /\ r \in [a : Byte, b : Byte, acc : Byte] /\ MulIsProduct

(* The product by b is that by its lowest bit and by the others, shifted.   *)
LEMMA MulTurn ==
  ASSUME NEW a \in Byte, NEW b \in Byte
  PROVE  /\ ShiftRight(b) \in Byte
         /\ GfMul(a, b) = Xor(IF 0 \in b THEN a ELSE Zero, GfMul(TimesX(a), ShiftRight(b)))
PROOF
<1> DEFINE f == [c \in Byte |-> GfMul(a, c)]
           g == [c \in Byte |-> Xor(IF 0 \in c THEN a ELSE Zero,
                                     GfMul(TimesX(a), ShiftRight(c)))]
<1>0. \A c \in Byte : ShiftRight(c) \in Byte
  BY DEF ShiftRight, Byte
<1>1. TimesX(a) \in Byte /\ \A u, v \in Byte : Xor(u, v) \in Byte /\ GfMul(u, v) \in Byte
  BY TimesXBits, XorLaws, MulType
<1>2. Additive(f)
  BY ProductsAdditive DEF FromLeft
<1>3. Additive(g)
  <2> DEFINE low(c) == IF 0 \in c THEN a ELSE Zero
  <2>1. \A u, v \in Byte : ShiftRight(Xor(u, v)) = Xor(ShiftRight(u), ShiftRight(v))
    BY DEF ShiftRight, Xor, Byte
  <2>2. \A u, v \in Byte : low(Xor(u, v)) = Xor(low(u), low(v))
    <3> SUFFICES ASSUME NEW u \in Byte, NEW v \in Byte PROVE low(Xor(u, v)) = Xor(low(u), low(v))
      OBVIOUS
    <3>1. 0 \in Xor(u, v) <=> ~(0 \in u <=> 0 \in v)
      BY DEF Xor
    <3>2. Xor(a, a) = Zero /\ Xor(a, Zero) = a /\ Xor(Zero, a) = a /\ Xor(Zero, Zero) = Zero
      BY XorLaws
    <3> QED BY <3>1, <3>2
  <2>3. \A u, v \in Byte : GfMul(TimesX(a), Xor(u, v))
                             = Xor(GfMul(TimesX(a), u), GfMul(TimesX(a), v))
    BY <1>1, MulAdditive
  <2>4. \A c \in Byte : low(c) \in Byte
    BY XorLaws
  <2>5. \A c \in Byte : g[c] = Xor(low(c), GfMul(TimesX(a), ShiftRight(c)))
    OBVIOUS
  <2>6. g \in [Byte -> Byte]
    BY <1>0, <1>1, <2>4
  <2> HIDE DEF g, low
  <2>7. ASSUME NEW u \in Byte, NEW v \in Byte PROVE g[Xor(u, v)] = Xor(g[u], g[v])
    <3> DEFINE hu == GfMul(TimesX(a), ShiftRight(u))
               hv == GfMul(TimesX(a), ShiftRight(v))
    <3>1. ShiftRight(Xor(u, v)) = Xor(ShiftRight(u), ShiftRight(v))
      BY <2>1
    <3>2. GfMul(TimesX(a), ShiftRight(Xor(u, v))) = Xor(hu, hv)
      BY <1>0, <2>3, <3>1
    <3>3. Xor(u, v) \in Byte /\ low(Xor(u, v)) = Xor(low(u), low(v))
      BY <1>1, <2>2
    <3>4. g[Xor(u, v)] = Xor(Xor(low(u), low(v)), Xor(hu, hv))
      BY <2>5, <3>2, <3>3
    <3>5. g[u] = Xor(low(u), hu) /\ g[v] = Xor(low(v), hv)
      BY <2>5
    <3> HIDE DEF hu, hv
    <3>6. Xor(Xor(low(u), low(v)), Xor(hu, hv)) = Xor(Xor(low(u), hu), Xor(low(v), hv))
      BY XorLaws
    <3> QED BY <3>4, <3>5, <3>6
  <2> QED BY <2>6, <2>7 DEF Additive
<1>4. \A i \in 0..7 : f[{i}] = g[{i}]
  <2> SUFFICES ASSUME NEW i \in 0..7 PROVE f[{i}] = g[{i}]
    OBVIOUS
  <2>1. {i} \in Byte /\ f[{i}] = Powers(a)[i]
    BY MulByBit DEF Byte
  <2>2. CASE i = 0
    <3>1. ShiftRight({i}) = Zero /\ 0 \in {i}
      BY <2>2 DEF ShiftRight, Zero
    <3>2. GfMul(TimesX(a), Zero) = Zero /\ Xor(a, Zero) = a /\ Powers(a)[0] = a
      BY <1>1, MulUnits, XorLaws, PowersOf DEF IsPowers
    <3> QED BY <2>1, <2>2, <3>1, <3>2
  <2>3. CASE i \in 1..7
    <3>1. ShiftRight({i}) = {i - 1} /\ 0 \notin {i} /\ i - 1 \in 0..7
      BY <2>3 DEF ShiftRight
    <3>2. GfMul(TimesX(a), {i - 1}) = Powers(TimesX(a))[i - 1]
      BY <1>1, <3>1, MulByBit
    <3>3. Powers(TimesX(a))[i - 1] = Powers(a)[i]
      <4>1. IsPowers(Powers(a), a) /\ IsPowers(Powers(TimesX(a)), TimesX(a))
        BY <1>1, PowersOf
      <4> DEFINE p == Powers(a)
                 q == Powers(TimesX(a))
      <4>2. /\ q[0] = p[1] /\ \A j \in 1..7 : q[j] = TimesX(q[j - 1]) /\ p[j] = TimesX(p[j - 1])
        <5>1. 1 \in 1..7 /\ 1 - 1 = 0
          OBVIOUS
        <5> QED BY <4>1, <5>1 DEF IsPowers
      <4> HIDE DEF p, q
      <4>3. \A j \in 1..6 : q[j - 1] = p[j] => q[j] = p[j + 1]
        <5> SUFFICES ASSUME NEW j \in 1..6, q[j - 1] = p[j] PROVE q[j] = p[j + 1]
          OBVIOUS
        <5>1. j \in 1..7 /\ j + 1 \in 1..7 /\ (j + 1) - 1 = j
          OBVIOUS
        <5> QED BY <4>2, <5>1
      <4>4. q[1] = p[2] /\ q[2] = p[3] /\ q[3] = p[4] /\ q[4] = p[5] /\ q[5] = p[6] /\ q[6] = p[7]
        <5>1. /\ q[0] = p[1] => q[1] = p[2]
              /\ q[1] = p[2] => q[2] = p[3]
              /\ q[2] = p[3] => q[3] = p[4]
              /\ q[3] = p[4] => q[4] = p[5]
              /\ q[4] = p[5] => q[5] = p[6]
              /\ q[5] = p[6] => q[6] = p[7]
          BY <4>3
        <5> QED BY <4>2, <5>1
      <4>5. q[i - 1] = p[i]
        <5>1. i = 1 \/ i = 2 \/ i = 3 \/ i = 4 \/ i = 5 \/ i = 6 \/ i = 7
          BY <2>3
        <5>2. 1 - 1 = 0 /\ 2 - 1 = 1 /\ 3 - 1 = 2 /\ 4 - 1 = 3
              /\ 5 - 1 = 4 /\ 6 - 1 = 5 /\ 7 - 1 = 6
          OBVIOUS
        <5> QED BY <4>2, <4>4, <5>1, <5>2
      <4> QED BY <4>5 DEF p, q
    <3>4. Powers(a)[i] \in Byte
      BY PowersOf DEF IsPowers
    <3>5. Xor(Zero, Powers(a)[i]) = Powers(a)[i]
      BY <3>4, XorLaws
    <3> QED BY <2>1, <3>1, <3>2, <3>3, <3>5
  <2> QED BY <2>2, <2>3
<1> HIDE DEF f, g
<1>5. f[b] = g[b]
  BY <1>2, <1>3, <1>4, SameOnBits
<1> QED BY <1>0, <1>5 DEF f, g

(* Types of gf_mul's loop and what it keeps: accumulator and remaining      *)
(* product make the product of the arguments.                               *)
THEOREM MulInvHolds == MulSpec => []MulInv
PROOF
<1>1. MulInit => MulInv
  <2> SUFFICES ASSUME MulInit PROVE MulInv
    OBVIOUS
  <2>1. x \in Byte /\ y \in Byte /\ r = [a |-> x, b |-> y, acc |-> Zero]
    BY FactorAssumption DEF MulInit, Call, MulStart
  <2>2. Zero \in Byte /\ Product(x, y) \in Byte
    BY <2>1, XorLaws, ProductIsMul, MulType
  <2>3. Xor(Zero, Product(x, y)) = Product(x, y)
    BY <2>2, XorLaws
  <2> QED BY <2>1, <2>2, <2>3 DEF MulInv, MulIsProduct
<1>2. MulInv /\ [Turn]_loop => MulInv'
  <2> SUFFICES ASSUME MulInv, [Turn]_loop PROVE MulInv'
    OBVIOUS
  <2>1. CASE UNCHANGED loop
    BY <2>1 DEF MulInv, MulIsProduct, loop
  <2>2. CASE Turn
    <3>1. /\ r.a \in Byte /\ r.b \in Byte /\ r.acc \in Byte /\ x' = x /\ y' = y
          /\ r' = [a |-> TimesX(r.a), b |-> ShiftRight(r.b),
                   acc |-> IF 0 \in r.b THEN Xor(r.acc, r.a) ELSE r.acc]
          /\ x \in Byte /\ y \in Byte
      BY <2>2 DEF MulInv, Turn, MulStep
    <3>2. TimesX(r.a) \in Byte /\ ShiftRight(r.b) \in Byte /\ Xor(r.acc, r.a) \in Byte
      BY <3>1, TimesXBits, MulTurn, XorLaws
    <3>3. r' \in [a : Byte, b : Byte, acc : Byte]
      BY <3>1, <3>2
    <3> DEFINE low == IF 0 \in r.b THEN r.a ELSE Zero
               high == GfMul(TimesX(r.a), ShiftRight(r.b))
    <3>4. r'.acc = Xor(r.acc, low)
      BY <3>1, XorLaws
    <3>5. GfMul(r.a, r.b) = Xor(low, high)
      BY <3>1, MulTurn
    <3>6. Xor(Xor(r.acc, low), high) = Xor(r.acc, Xor(low, high))
      BY XorLaws
    <3>7. Product(r'.a, r'.b) = high /\ Product(r.a, r.b) = GfMul(r.a, r.b)
      BY <3>1, <3>2, ProductIsMul
    <3>8. Xor(r'.acc, Product(r'.a, r'.b)) = Product(x, y)
      BY <3>4, <3>5, <3>6, <3>7 DEF MulInv, MulIsProduct
    <3>9. Product(x, y)' = Product(x, y)
      BY <3>1
    <3> QED BY <3>1, <3>3, <3>8, <3>9 DEF MulInv, MulIsProduct
  <2> QED BY <2>1, <2>2
<1> QED BY <1>1, <1>2, PTL DEF MulSpec

(* gf_mul multiplies in the field: the textbook product, turn by turn.      *)
THEOREM MulIsProductAlways == MulSpec => []MulIsProduct
PROOF
<1>1. MulInv => MulIsProduct
  BY DEF MulInv
<1> QED BY <1>1, MulInvHolds, PTL

(* gf_inv returns the inverse of every byte but 0.                          *)
THEOREM InverseIsInverseAlways == MulSpec => []InverseIsInverse
PROOF
<1>1. MulInv => InverseIsInverse
  <2> SUFFICES ASSUME x \in Byte, x # Zero PROVE Product(x, GfInv(x)) = One
    BY DEF MulInv, InverseIsInverse
  <2>1. GfInv(x) \in Byte /\ GfMul(x, GfInv(x)) = One
    BY Inverses
  <2> QED BY <2>1, ProductIsMul
<1> QED BY <1>1, MulInvHolds, PTL
-----------------------------------------------------------------------------
(* The functions on bytes that a polynomial of degree d at most computes:   *)
(* the constant ones, and v * g(v) + c for a polynomial g of a degree less. *)
Fns == [Byte -> Byte]
ConstantFns == {f \in Fns : \E c \in Byte : \A v \in Byte : f[v] = c}
Raised(S) ==
  {f \in Fns : \E g \in S : \E c \in Byte : \A v \in Byte : f[v] = Xor(GfMul(v, g[v]), c)}
Levels(p, d) ==
  /\ p \in [0..d -> SUBSET Fns] /\ p[0] = ConstantFns
  /\ \A i \in 1..d : p[i] = Raised(p[i - 1])
Poly(d) == {f \in Fns : \E p \in [0..d -> SUBSET Fns] : Levels(p, d) /\ f \in p[d]}

(* Degree 0: the constants; degree d + 1: x times one of degree d, plus a   *)
(* constant.                                                                *)
LEMMA PolyDef ==
  /\ Poly(0) = ConstantFns
  /\ \A d \in Nat : Poly(d) \subseteq Fns /\ Poly(d + 1) = Raised(Poly(d))
PROOF
<1>1. ASSUME NEW d \in Nat PROVE \E p : Levels(p, d)
  <2> DEFINE V == SUBSET Fns
             G == [i \in 1..d |-> [S \in V |-> Raised(S)]]
  <2>1. G \in [1..d -> [V -> V]] /\ ConstantFns \in V
    BY DEF Raised, ConstantFns
  <2>2. PICK p \in [0..d -> V] : Recurs(p, ConstantFns, G, d)
    <3> HIDE DEF G, V
    <3> QED BY <2>1, Recursion
  <2>3. p[0] = ConstantFns
    BY <2>2 DEF Recurs
  <2>4. \A i \in 1..d : p[i] = Raised(p[i - 1])
    <3> SUFFICES ASSUME NEW i \in 1..d PROVE p[i] = Raised(p[i - 1])
      OBVIOUS
    <3>1. i - 1 \in 0..d
      OBVIOUS
    <3>2. p[i] = G[i][p[i - 1]] /\ p[i - 1] \in V
      <4> HIDE DEF G, V
      <4> QED BY <2>2, <3>1 DEF Recurs
    <3>3. G[i] = [S \in V |-> Raised(S)]
      OBVIOUS
    <3> HIDE DEF G, V
    <3> QED BY <3>2, <3>3
  <2> QED BY <2>2, <2>3, <2>4 DEF Levels
<1>2. ASSUME NEW d \in Nat, NEW e \in Nat, NEW p, NEW q, d <= e, Levels(p, d), Levels(q, e)
      PROVE  p[d] = q[d]
  <2> DEFINE T == {i \in 0..d : p[i] = q[i]}
  <2>1. 0 \in T
    BY <1>2 DEF Levels
  <2>2. \A i \in 0 .. d - 1 : i \in T => i + 1 \in T
    <3> SUFFICES ASSUME NEW i \in 0 .. d - 1, i \in T PROVE i + 1 \in T
      BY Zenon
    <3>1. i + 1 \in 1..d /\ i + 1 \in 1..e /\ (i + 1) - 1 = i /\ i + 1 \in 0..d
      BY <1>2
    <3>2. p[i] = q[i]
      BY Zenon
    <3>3. p[i + 1] = q[i + 1]
      BY <1>2, <3>1, <3>2 DEF Levels
    <3> QED BY <3>1, <3>3, Zenon
  <2>3. 0..d \subseteq T
    <3> HIDE DEF T
    <3> QED BY <2>1, <2>2, NatSetInduction
  <2>4. d \in 0..d
    OBVIOUS
  <2> QED BY <2>3, <2>4
<1>3. ASSUME NEW d \in Nat, NEW e \in Nat, NEW p, d <= e, Levels(p, e)
      PROVE  Poly(d) = p[d]
  <2>1. p[d] \subseteq Fns
    BY <1>3 DEF Levels
  <2>2. \A f : f \in p[d] => f \in Poly(d)
    <3> SUFFICES ASSUME NEW f, f \in p[d] PROVE f \in Poly(d)
      OBVIOUS
    <3>1. PICK q : Levels(q, d)
      BY <1>1
    <3>2. q[d] = p[d]
      BY <1>2, <1>3, <3>1
    <3> QED BY <2>1, <3>1, <3>2 DEF Poly, Levels
  <2>3. \A f : f \in Poly(d) => f \in p[d]
    BY <1>2, <1>3 DEF Poly
  <2> QED BY <2>2, <2>3
<1>4. Poly(0) = ConstantFns
  <2>1. PICK p : Levels(p, 0)
    BY <1>1
  <2>2. 0 \in Nat /\ 0 <= 0
    OBVIOUS
  <2>3. Poly(0) = p[0]
    BY <1>3, <2>1, <2>2
  <2> QED BY <2>1, <2>3 DEF Levels
<1>5. ASSUME NEW d \in Nat PROVE Poly(d) \subseteq Fns /\ Poly(d + 1) = Raised(Poly(d))
  <2>1. PICK p : Levels(p, d + 1)
    BY <1>1
  <2>2. Poly(d) = p[d] /\ Poly(d + 1) = p[d + 1]
    BY <1>3, <2>1
  <2>3. p[d + 1] = Raised(p[d])
    <3>1. d + 1 \in 1 .. d + 1 /\ (d + 1) - 1 = d
      OBVIOUS
    <3> QED BY <2>1, <3>1 DEF Levels
  <2> QED BY <2>2, <2>3 DEF Poly
<1> QED BY <1>4, <1>5

(* The laws of the field, in the form the polynomials need.                 *)
LEMMA FieldLaws ==
  /\ \A a, b \in Byte : Xor(a, b) \in Byte /\ GfMul(a, b) \in Byte
  /\ Zero \in Byte /\ One \in Byte
  /\ \A a, b \in Byte : Xor(a, b) = Xor(b, a) /\ GfMul(a, b) = GfMul(b, a)
  /\ \A a \in Byte : /\ Xor(a, Zero) = a /\ Xor(a, a) = Zero
                     /\ GfMul(a, Zero) = Zero /\ GfMul(a, One) = a
PROOF
<1>1. \A a, b \in Byte : Xor(a, b) \in Byte /\ GfMul(a, b) \in Byte
  BY XorLaws, MulType
<1>2. Zero \in Byte /\ One \in Byte
  BY XorLaws
<1>3. \A a, b \in Byte : Xor(a, b) = Xor(b, a) /\ GfMul(a, b) = GfMul(b, a)
  BY XorLaws, MulCommutes
<1>4. \A a \in Byte : Xor(a, Zero) = a /\ Xor(a, a) = Zero
  BY XorLaws
<1>5. \A a \in Byte : GfMul(a, Zero) = Zero /\ GfMul(a, One) = a
  BY MulUnits
<1> QED BY <1>1, <1>2, <1>3, <1>4, <1>5

(* Multiples and sums of polynomials. *)
LEMMA PolyScale ==
  ASSUME NEW d \in Nat, NEW f \in Poly(d), NEW b \in Byte
  PROVE  [v \in Byte |-> GfMul(b, f[v])] \in Poly(d)
PROOF
<1> DEFINE By(h) == [v \in Byte |-> GfMul(b, h[v])]
           T == {i \in Nat : \A h \in Poly(i) : By(h) \in Poly(i)}
<1>0. \A h \in Fns : By(h) \in Fns /\ \A v \in Byte : By(h)[v] = GfMul(b, h[v])
  BY FieldLaws DEF Fns
<1> HIDE DEF By
<1>1. 0 \in T
  <2> SUFFICES ASSUME NEW h \in Poly(0) PROVE By(h) \in Poly(0)
    OBVIOUS
  <2>1. PICK c \in Byte : \A v \in Byte : h[v] = c
    BY PolyDef DEF ConstantFns
  <2>2. h \in Fns
    BY PolyDef
  <2>3. By(h) \in Fns /\ \A v \in Byte : By(h)[v] = GfMul(b, c)
    BY <1>0, <2>1, <2>2
  <2> QED BY <2>3, FieldLaws, PolyDef DEF ConstantFns
<1>2. \A i \in Nat : i \in T => i + 1 \in T
  <2> SUFFICES ASSUME NEW i \in Nat, i \in T, NEW h \in Poly(i + 1)
               PROVE  By(h) \in Poly(i + 1)
    OBVIOUS
  <2>1. Poly(i + 1) = Raised(Poly(i)) /\ Poly(i) \subseteq Fns
    BY PolyDef
  <2>2. PICK g \in Poly(i), c \in Byte : \A v \in Byte : h[v] = Xor(GfMul(v, g[v]), c)
    BY <2>1 DEF Raised
  <2>3. By(g) \in Poly(i) /\ g \in Fns /\ h \in Fns
    BY <2>1 DEF Raised
  <2>4. \A v \in Byte : By(h)[v] = Xor(GfMul(v, By(g)[v]), GfMul(b, c))
    <3> SUFFICES ASSUME NEW v \in Byte
                 PROVE  By(h)[v] = Xor(GfMul(v, By(g)[v]), GfMul(b, c))
      OBVIOUS
    <3>1. g[v] \in Byte /\ GfMul(v, g[v]) \in Byte
      BY <2>3, FieldLaws DEF Fns
    <3>2. By(h)[v] = GfMul(b, Xor(GfMul(v, g[v]), c)) /\ By(g)[v] = GfMul(b, g[v])
      BY <1>0, <2>2, <2>3
    <3>3. GfMul(b, Xor(GfMul(v, g[v]), c)) = Xor(GfMul(b, GfMul(v, g[v])), GfMul(b, c))
      BY <3>1, MulAdditive
    <3>4. GfMul(b, GfMul(v, g[v])) = GfMul(GfMul(b, v), g[v])
          /\ GfMul(v, GfMul(b, g[v])) = GfMul(GfMul(v, b), g[v])
      BY <3>1, MulAssociates
    <3>5. GfMul(b, v) = GfMul(v, b)
      BY MulCommutes
    <3> QED BY <3>2, <3>3, <3>4, <3>5
  <2>5. By(h) \in Fns /\ GfMul(b, c) \in Byte
    BY <1>0, <2>3, FieldLaws
  <2> QED BY <2>1, <2>3, <2>4, <2>5 DEF Raised
<1>3. Nat \subseteq T
  <2> HIDE DEF T
  <2> QED BY <1>1, <1>2, NatAll
<1> QED BY <1>3 DEF By

(* The sum of two polynomials of a degree is one of that degree.            *)
LEMMA PolySum ==
  ASSUME NEW d \in Nat, NEW f \in Poly(d), NEW g \in Poly(d)
  PROVE  [v \in Byte |-> Xor(f[v], g[v])] \in Poly(d)
PROOF
<1> DEFINE Add(p, q) == [v \in Byte |-> Xor(p[v], q[v])]
           T == {i \in Nat : \A p, q \in Poly(i) : Add(p, q) \in Poly(i)}
<1>0. \A p, q \in Fns : Add(p, q) \in Fns /\ \A v \in Byte : Add(p, q)[v] = Xor(p[v], q[v])
  BY FieldLaws DEF Fns
<1> HIDE DEF Add
<1>1. 0 \in T
  <2> SUFFICES ASSUME NEW p \in Poly(0), NEW q \in Poly(0) PROVE Add(p, q) \in Poly(0)
    OBVIOUS
  <2>1. PICK b \in Byte : \A v \in Byte : p[v] = b
    BY PolyDef DEF ConstantFns
  <2>2. PICK c \in Byte : \A v \in Byte : q[v] = c
    BY PolyDef DEF ConstantFns
  <2>3. p \in Fns /\ q \in Fns
    BY PolyDef
  <2>4. Add(p, q) \in Fns /\ \A v \in Byte : Add(p, q)[v] = Xor(b, c)
    BY <1>0, <2>1, <2>2, <2>3
  <2>5. Xor(b, c) \in Byte
    BY FieldLaws
  <2> QED BY <2>4, <2>5, PolyDef DEF ConstantFns
<1>2. \A i \in Nat : i \in T => i + 1 \in T
  <2> SUFFICES ASSUME NEW i \in Nat, i \in T, NEW p \in Poly(i + 1), NEW q \in Poly(i + 1)
               PROVE  Add(p, q) \in Poly(i + 1)
    OBVIOUS
  <2>1. Poly(i + 1) = Raised(Poly(i)) /\ Poly(i) \subseteq Fns
    BY PolyDef
  <2>2. PICK s \in Poly(i), b \in Byte : \A v \in Byte : p[v] = Xor(GfMul(v, s[v]), b)
    BY <2>1 DEF Raised
  <2>3. PICK t \in Poly(i), c \in Byte : \A v \in Byte : q[v] = Xor(GfMul(v, t[v]), c)
    BY <2>1 DEF Raised
  <2>4. Add(s, t) \in Poly(i) /\ s \in Fns /\ t \in Fns /\ p \in Fns /\ q \in Fns
    BY <2>1 DEF Raised
  <2>5. \A v \in Byte : Add(p, q)[v] = Xor(GfMul(v, Add(s, t)[v]), Xor(b, c))
    <3> SUFFICES ASSUME NEW v \in Byte
                 PROVE  Add(p, q)[v] = Xor(GfMul(v, Add(s, t)[v]), Xor(b, c))
      OBVIOUS
    <3>1. s[v] \in Byte /\ t[v] \in Byte
      BY <2>4 DEF Fns
    <3>2. Add(p, q)[v] = Xor(Xor(GfMul(v, s[v]), b), Xor(GfMul(v, t[v]), c))
          /\ Add(s, t)[v] = Xor(s[v], t[v])
      BY <1>0, <2>2, <2>3, <2>4
    <3>3. GfMul(v, Xor(s[v], t[v])) = Xor(GfMul(v, s[v]), GfMul(v, t[v]))
      BY <3>1, MulAdditive
    <3>4. \A u, w, y_, z : Xor(Xor(u, w), Xor(y_, z)) = Xor(Xor(u, y_), Xor(w, z))
      BY XorLaws
    <3> QED BY <3>2, <3>3, <3>4
  <2>6. Add(p, q) \in Fns /\ Xor(b, c) \in Byte
    BY <1>0, <2>4, FieldLaws
  <2> QED BY <2>1, <2>4, <2>5, <2>6 DEF Raised
<1>3. Nat \subseteq T
  <2> HIDE DEF T
  <2> QED BY <1>1, <1>2, NatAll
<1> QED BY <1>3 DEF Add

(* A polynomial is one of a higher degree too, and one times v, plus a      *)
(* constant, is of a degree more.                                           *)
LEMMA PolyRaise ==
  ASSUME NEW d \in Nat, NEW f \in Poly(d), NEW b \in Byte
  PROVE  /\ f \in Poly(d + 1)
         /\ [v \in Byte |-> Xor(GfMul(v, f[v]), b)] \in Poly(d + 1)
         /\ [v \in Byte |-> GfMul(f[v], Xor(b, v))] \in Poly(d + 1)
PROOF
<1>1. \A i \in Nat : \A h \in Poly(i) : h \in Poly(i + 1)
  <2> DEFINE T == {i \in Nat : \A h \in Poly(i) : h \in Poly(i + 1)}
  <2>1. 0 \in T
    <3> SUFFICES ASSUME NEW h \in Poly(0) PROVE h \in Poly(0 + 1)
      OBVIOUS
    <3>1. PICK c \in Byte : \A v \in Byte : h[v] = c
      BY PolyDef DEF ConstantFns
    <3> DEFINE z == [v \in Byte |-> Zero]
    <3>2. z \in Poly(0)
      BY PolyDef, FieldLaws DEF ConstantFns, Fns
    <3>3. \A v \in Byte : h[v] = Xor(GfMul(v, z[v]), c)
      BY <3>1, XorLaws, MulUnits
    <3>4. h \in Fns
      BY PolyDef
    <3> HIDE DEF z
    <3> QED BY <3>2, <3>3, <3>4, PolyDef DEF Raised
  <2>2. \A i \in Nat : i \in T => i + 1 \in T
    <3> SUFFICES ASSUME NEW i \in Nat, i \in T, NEW h \in Poly(i + 1)
                 PROVE  h \in Poly((i + 1) + 1)
      OBVIOUS
    <3>1. /\ Poly(i + 1) = Raised(Poly(i)) /\ Poly(i) \subseteq Poly(i + 1)
          /\ Poly((i + 1) + 1) = Raised(Poly(i + 1))
      BY PolyDef
    <3> QED BY <3>1 DEF Raised
  <2>3. Nat \subseteq T
    <3> HIDE DEF T
    <3> QED BY <2>1, <2>2, NatAll
  <2> QED BY <2>3
<1>2. f \in Fns /\ \A v \in Byte : f[v] \in Byte
  BY PolyDef DEF Fns
<1>3. ASSUME NEW c \in Byte PROVE [v \in Byte |-> Xor(GfMul(v, f[v]), c)] \in Poly(d + 1)
  <2> DEFINE h == [v \in Byte |-> Xor(GfMul(v, f[v]), c)]
  <2>1. h \in Fns
    BY <1>2, FieldLaws DEF Fns
  <2>2. \A v \in Byte : h[v] = Xor(GfMul(v, f[v]), c)
    OBVIOUS
  <2> HIDE DEF h
  <2>3. h \in Poly(d + 1)
    BY <2>1, <2>2, PolyDef DEF Raised
  <2> QED BY <2>3 DEF h
<1>4. [v \in Byte |-> GfMul(f[v], Xor(b, v))] \in Poly(d + 1)
  <2> DEFINE p == [v \in Byte |-> GfMul(b, f[v])]
             q == [v \in Byte |-> Xor(GfMul(v, f[v]), Zero)]
  <2>1. p \in Poly(d + 1)
    <3>1. p \in Poly(d)
      BY PolyScale
    <3> HIDE DEF p
    <3> QED BY <1>1, <3>1
  <2>2. q \in Poly(d + 1)
    BY <1>3, FieldLaws
  <2>3. \A v \in Byte : Xor(p[v], q[v]) = GfMul(f[v], Xor(b, v))
    <3> SUFFICES ASSUME NEW v \in Byte PROVE Xor(p[v], q[v]) = GfMul(f[v], Xor(b, v))
      OBVIOUS
    <3>1. f[v] \in Byte /\ GfMul(v, f[v]) \in Byte
      BY <1>2, FieldLaws
    <3>2. p[v] = GfMul(b, f[v]) /\ q[v] = GfMul(v, f[v])
      BY <3>1, FieldLaws
    <3>3. GfMul(f[v], Xor(b, v)) = Xor(GfMul(f[v], b), GfMul(f[v], v))
      BY <3>1, MulAdditive
    <3>4. GfMul(f[v], b) = GfMul(b, f[v]) /\ GfMul(f[v], v) = GfMul(v, f[v])
      BY <3>1, MulCommutes
    <3> HIDE DEF p, q
    <3> QED BY <3>2, <3>3, <3>4
  <2> HIDE DEF p, q
  <2>4. [v \in Byte |-> Xor(p[v], q[v])] \in Poly(d + 1)
    BY <2>1, <2>2, PolySum
  <2>5. [v \in Byte |-> Xor(p[v], q[v])] = [v \in Byte |-> GfMul(f[v], Xor(b, v))]
    BY <2>3
  <2> QED BY <2>4, <2>5
<1> QED BY <1>1, <1>3, <1>4

(* Division by v - a: what is left is the value at a.                       *)
LEMMA PolyDivide ==
  ASSUME NEW d \in Nat, NEW f \in Poly(d + 1), NEW a \in Byte
  PROVE  \E g \in Poly(d) : \A v \in Byte : f[v] = Xor(f[a], GfMul(g[v], Xor(a, v)))
PROOF
<1> DEFINE Divides(i, h, g) == \A v \in Byte : h[v] = Xor(h[a], GfMul(g[v], Xor(a, v)))
           T == {i \in Nat : \A h \in Poly(i + 1) : \E g \in Poly(i) : Divides(i, h, g)}
<1>1. 0 \in T
  <2> SUFFICES ASSUME NEW h \in Poly(0 + 1) PROVE \E g \in Poly(0) : Divides(0, h, g)
    OBVIOUS
  <2>1. PICK g \in Poly(0), c \in Byte : \A v \in Byte : h[v] = Xor(GfMul(v, g[v]), c)
    BY PolyDef DEF Raised
  <2>2. PICK b \in Byte : \A v \in Byte : g[v] = b
    BY PolyDef DEF ConstantFns
  <2>3. ASSUME NEW v \in Byte PROVE h[v] = Xor(h[a], GfMul(g[v], Xor(a, v)))
    <3>1. /\ h[v] = Xor(GfMul(v, b), c) /\ h[a] = Xor(GfMul(a, b), c) /\ g[v] = b
      BY <2>1, <2>2
    <3>2. GfMul(b, Xor(a, v)) = Xor(GfMul(b, a), GfMul(b, v))
      BY MulAdditive
    <3>3. GfMul(b, a) = GfMul(a, b) /\ GfMul(b, v) = GfMul(v, b)
      BY MulCommutes
    <3>4. \A u, w, z : Xor(Xor(u, z), Xor(u, w)) = Xor(w, z)
      BY DEF Xor
    <3> QED BY <3>1, <3>2, <3>3, <3>4
  <2> QED BY <2>3
<1>2. \A i \in Nat : i \in T => i + 1 \in T
  <2> SUFFICES ASSUME NEW i \in Nat, i \in T, NEW h \in Poly((i + 1) + 1)
               PROVE  \E g \in Poly(i + 1) : Divides(i + 1, h, g)
    OBVIOUS
  <2>1. PICK g \in Poly(i + 1), c \in Byte : \A v \in Byte : h[v] = Xor(GfMul(v, g[v]), c)
    <3>1. i + 1 \in Nat
      OBVIOUS
    <3>2. h \in Raised(Poly(i + 1))
      BY <3>1, PolyDef
    <3> QED BY <3>2 DEF Raised
  <2>2. PICK p \in Poly(i) : \A v \in Byte : g[v] = Xor(g[a], GfMul(p[v], Xor(a, v)))
    OBVIOUS
  <2>3. g \in Fns /\ p \in Fns /\ g[a] \in Byte
    BY PolyDef DEF Fns
  <2> DEFINE q == [v \in Byte |-> Xor(GfMul(v, p[v]), g[a])]
  <2>4. q \in Poly(i + 1)
    BY <2>3, PolyRaise
  <2>5. ASSUME NEW v \in Byte PROVE h[v] = Xor(h[a], GfMul(q[v], Xor(a, v)))
    <3> DEFINE w == Xor(a, v)
               t == GfMul(v, p[v])
    <3>1. p[v] \in Byte /\ w \in Byte /\ t \in Byte /\ GfMul(p[v], w) \in Byte
      BY <2>3, FieldLaws DEF Fns
    <3>2. h[v] = Xor(GfMul(v, Xor(g[a], GfMul(p[v], w))), c)
      BY <2>1, <2>2
    <3>3. h[a] = Xor(GfMul(a, g[a]), c)
      BY <2>1
    <3>4. GfMul(v, Xor(g[a], GfMul(p[v], w))) = Xor(GfMul(v, g[a]), GfMul(v, GfMul(p[v], w)))
      BY <2>3, <3>1, MulAdditive
    <3>5. GfMul(v, GfMul(p[v], w)) = GfMul(t, w)
      BY <3>1, MulAssociates
    <3>6. GfMul(q[v], w) = Xor(GfMul(t, w), GfMul(g[a], w))
      BY <2>3, <3>1, MulAdditive
    <3>7. GfMul(g[a], w) = Xor(GfMul(g[a], a), GfMul(g[a], v))
      BY <2>3, MulAdditive
    <3>8. GfMul(g[a], a) = GfMul(a, g[a]) /\ GfMul(g[a], v) = GfMul(v, g[a])
      BY <2>3, MulCommutes
    <3>9. \A k1, k2, k3, k4 :
             Xor(Xor(k1, k2), k3) = Xor(Xor(k4, k3), Xor(k2, Xor(k4, k1)))
      BY DEF Xor
    <3> HIDE DEF w, t, q
    <3> QED BY <3>2, <3>3, <3>4, <3>5, <3>6, <3>7, <3>8, <3>9 DEF w
  <2> HIDE DEF q
  <2> QED BY <2>4, <2>5
<1>3. Nat \subseteq T
  <2> HIDE DEF T
  <2> QED BY <1>1, <1>2, NatAll
<1> QED BY <1>3

(* A polynomial of degree d at most that has d + 1 roots is 0 everywhere.   *)
LEMMA PolyRoots ==
  ASSUME NEW d \in Nat, NEW f \in Poly(d), NEW z \in [1 .. d + 1 -> Byte],
         \A i, j \in 1 .. d + 1 : z[i] = z[j] => i = j,
         \A i \in 1 .. d + 1 : f[z[i]] = Zero
  PROVE  \A v \in Byte : f[v] = Zero
PROOF
<1> DEFINE Roots(h, i) == /\ \A j \in 1 .. i + 1 : z[j] \in Byte /\ h[z[j]] = Zero
                          /\ \A j, l \in 1 .. i + 1 : z[j] = z[l] => j = l
           T == {i \in Nat : \A h \in Poly(i) : Roots(h, i) => \A v \in Byte : h[v] = Zero}
<1>1. 0 \in T
  <2> SUFFICES ASSUME NEW h \in Poly(0), Roots(h, 0), NEW v \in Byte PROVE h[v] = Zero
    OBVIOUS
  <2>1. PICK c \in Byte : \A u \in Byte : h[u] = c
    BY PolyDef DEF ConstantFns
  <2>2. 1 \in 1 .. 0 + 1
    OBVIOUS
  <2>3. h[z[1]] = Zero /\ z[1] \in Byte
    BY <2>2
  <2> QED BY <2>1, <2>3
<1>2. \A i \in Nat : i \in T => i + 1 \in T
  <2> SUFFICES ASSUME NEW i \in Nat, i \in T, NEW h \in Poly(i + 1), Roots(h, i + 1),
                      NEW v \in Byte
               PROVE  h[v] = Zero
    OBVIOUS
  <2> DEFINE m == (i + 1) + 1
             a == z[m]
  <2>0. m \in 1 .. (i + 1) + 1 /\ \A j \in 1 .. i + 1 : j \in 1 .. (i + 1) + 1 /\ j # m
    OBVIOUS
  <2>1. a \in Byte /\ h[a] = Zero
    BY <2>0
  <2>2. PICK g \in Poly(i) : \A u \in Byte : h[u] = Xor(h[a], GfMul(g[u], Xor(a, u)))
    BY <2>1, PolyDivide
  <2>3. \A u \in Byte : g[u] \in Byte /\ Xor(a, u) \in Byte
    <3>1. g \in Fns
      BY PolyDef
    <3>2. \A u \in Byte : Xor(a, u) \in Byte
      BY <2>1, FieldLaws
    <3> QED BY <3>1, <3>2 DEF Fns
  <2>4. \A u \in Byte : h[u] = GfMul(g[u], Xor(a, u))
    BY <2>1, <2>2, <2>3, MulType, XorLaws
  <2>5. \A j \in 1 .. i + 1 : g[z[j]] = Zero
    <3> SUFFICES ASSUME NEW j \in 1 .. i + 1 PROVE g[z[j]] = Zero
      OBVIOUS
    <3>1. z[j] \in Byte /\ h[z[j]] = Zero /\ z[j] # a
      BY <2>0
    <3>2. Xor(a, z[j]) # Zero
      BY <3>1, XorLaws
    <3> QED BY <2>3, <2>4, <3>1, <3>2, NoDivisors
  <2>6. Roots(g, i)
    BY <2>0, <2>5
  <2>7. g[v] = Zero
    BY <2>6
  <2> QED BY <2>3, <2>4, <2>7, MulUnits
<1>3. Nat \subseteq T
  <2> HIDE DEF T
  <2> QED BY <1>1, <1>2, NatAll
<1>4. Roots(f, d)
  OBVIOUS
<1> QED BY <1>3, <1>4

(* Polynomials of a degree are polynomials of every higher one.             *)
LEMMA PolyUp ==
  ASSUME NEW d \in Nat, NEW e \in Nat, d <= e, NEW f \in Poly(d)
  PROVE  f \in Poly(e)
PROOF
<1> DEFINE T == {i \in Nat : f \in Poly(d + i)}
<1>1. 0 \in T
  OBVIOUS
<1>2. \A i \in Nat : i \in T => i + 1 \in T
  <2> SUFFICES ASSUME NEW i \in Nat, f \in Poly(d + i) PROVE f \in Poly(d + (i + 1))
    OBVIOUS
  <2>1. d + i \in Nat /\ (d + i) + 1 = d + (i + 1)
    OBVIOUS
  <2>2. f \in Poly((d + i) + 1)
    BY <2>1, PolyRaise, FieldLaws
  <2> QED BY <2>1, <2>2
<1>3. Nat \subseteq T
  <2> HIDE DEF T
  <2> QED BY <1>1, <1>2, NatAll
<1>4. e - d \in Nat /\ d + (e - d) = e
  OBVIOUS
<1>5. f \in Poly(d + (e - d))
  BY <1>3, <1>4
<1> QED BY <1>4, <1>5

(* A constant function is a polynomial of degree 0.                         *)
LEMMA ConstantPoly ==
  ASSUME NEW f \in Fns, NEW c \in Byte, \A v \in Byte : f[v] = c
  PROVE  f \in Poly(0)
BY PolyDef DEF ConstantFns

(* The products of z_j - v over the j from 1 to m but i: the numerator and  *)
(* the denominator of a Lagrange polynomial are two of their values.        *)
IsProduct(q, z, m, i) ==
  /\ q \in [0..m -> Fns]
  /\ \A v \in Byte : q[0][v] = One
  /\ \A j \in 1..m : \A v \in Byte :
       q[j][v] = IF j = i THEN q[j - 1][v] ELSE GfMul(q[j - 1][v], Xor(z[j], v))

(* There is such a product for every i.                                     *)
LEMMA ProductExists ==
  ASSUME NEW m \in Nat, NEW z \in [1..m -> Byte], NEW i
  PROVE  \E q : IsProduct(q, z, m, i)
PROOF
<1> DEFINE Go(j, h) == IF j = i THEN h ELSE [v \in Byte |-> GfMul(h[v], Xor(z[j], v))]
           G == [j \in 1..m |-> [h \in Fns |-> Go(j, h)]]
           ones == [v \in Byte |-> One]
<1>1. \A j \in 1..m : \A h \in Fns : Go(j, h) \in Fns
  BY FieldLaws DEF Fns
<1>2. G \in [1..m -> [Fns -> Fns]] /\ ones \in Fns
  BY <1>1, FieldLaws DEF Fns
<1>3. PICK q \in [0..m -> Fns] : Recurs(q, ones, G, m)
  <2> HIDE DEF G, ones
  <2> QED BY <1>2, Recursion
<1>4. \A v \in Byte : q[0][v] = One
  BY <1>3 DEF Recurs
<1>5. ASSUME NEW j \in 1..m, NEW v \in Byte
      PROVE  q[j][v] = IF j = i THEN q[j - 1][v] ELSE GfMul(q[j - 1][v], Xor(z[j], v))
  <2>1. j - 1 \in 0..m
    OBVIOUS
  <2>2. q[j] = G[j][q[j - 1]] /\ q[j - 1] \in Fns
    <3> HIDE DEF G
    <3> QED BY <1>3, <2>1 DEF Recurs
  <2>3. G[j] = [h \in Fns |-> Go(j, h)]
    OBVIOUS
  <2>4. q[j] = Go(j, q[j - 1])
    <3> HIDE DEF G, Go
    <3> QED BY <2>2, <2>3
  <2> QED BY <2>4
<1> QED BY <1>3, <1>4, <1>5 DEF IsProduct

(* Points that are different.                                               *)
Points(z, m) == z \in [1..m -> Byte] /\ \A j, l \in 1..m : z[j] = z[l] => j = l

(* It is a polynomial of degree m - 1 that is 0 at every point but the      *)
(* i-th, where it is not.                                                   *)
LEMMA ProductFacts ==
  ASSUME NEW m \in Nat, NEW z, Points(z, m),
         NEW i \in 1..m, NEW q, IsProduct(q, z, m, i)
  PROVE  /\ q[m] \in Poly(m - 1)
         /\ \A j \in 1..m : j # i => q[m][z[j]] = Zero
         /\ q[m][z[i]] # Zero
PROOF
<1> USE DEF Points
<1>0. /\ \A j \in 0..m : q[j] \in Fns /\ \A v \in Byte : q[j][v] \in Byte
      /\ \A v \in Byte : q[0][v] = One
      /\ \A j \in 0 .. m - 1 : \A v \in Byte :
           q[j + 1][v] = IF j + 1 = i THEN q[j][v] ELSE GfMul(q[j][v], Xor(z[j + 1], v))
  <2>1. \A j \in 0 .. m - 1 : j + 1 \in 1..m /\ (j + 1) - 1 = j
    OBVIOUS
  <2>2. \A j \in 0..m : q[j] \in Fns
    BY DEF IsProduct
  <2> QED BY <2>1, <2>2 DEF IsProduct, Fns
<1>1. q[m] \in Poly(m - 1)
  <2> DEFINE Deg(j) == IF j < i THEN j ELSE j - 1
             T == {j \in 0..m : q[j] \in Poly(Deg(j))}
  <2>1. 0 \in T
    <3>1. q[0] \in Poly(0)
      <4>1. q[0] \in Fns /\ One \in Byte
        BY <1>0, FieldLaws
      <4>2. \A v \in Byte : q[0][v] = One
        BY <1>0
      <4> QED BY <4>1, <4>2, ConstantPoly
    <3> QED BY <3>1
  <2>2. \A j \in 0 .. m - 1 : j \in T => j + 1 \in T
    <3> SUFFICES ASSUME NEW j \in 0 .. m - 1, q[j] \in Poly(Deg(j))
                 PROVE  q[j + 1] \in Poly(Deg(j + 1))
      OBVIOUS
    <3>1. CASE j + 1 = i
      <4>1. Deg(j + 1) = Deg(j)
        BY <3>1
      <4>2. q[j + 1] = q[j]
        <5>1. \A v \in Byte : q[j + 1][v] = q[j][v]
          BY <1>0, <3>1
        <5>2. q[j + 1] \in Fns /\ q[j] \in Fns
          BY <1>0
        <5> QED BY <5>1, <5>2 DEF Fns
      <4> HIDE DEF Deg
      <4> QED BY <4>1, <4>2
    <3>2. CASE j + 1 # i
      <4>1. Deg(j + 1) = Deg(j) + 1 /\ Deg(j) \in Nat
        BY <3>2
      <4>2. z[j + 1] \in Byte
        OBVIOUS
      <4> HIDE DEF Deg
      <4>3. [v \in Byte |-> GfMul(q[j][v], Xor(z[j + 1], v))] \in Poly(Deg(j) + 1)
        <5> DEFINE g == q[j]
                   b == z[j + 1]
                   d == Deg(j)
        <5>1. g \in Poly(d) /\ b \in Byte /\ d \in Nat
          BY <4>1, <4>2
        <5>2. [v \in Byte |-> GfMul(g[v], Xor(b, v))] \in Poly(d + 1)
          <6> HIDE DEF g, b, d
          <6> QED BY <5>1, PolyRaise
        <5> QED BY <5>2
      <4>4. q[j + 1] = [v \in Byte |-> GfMul(q[j][v], Xor(z[j + 1], v))]
        <5>1. \A v \in Byte : q[j + 1][v] = GfMul(q[j][v], Xor(z[j + 1], v))
          BY <1>0, <3>2
        <5>2. q[j + 1] \in Fns
          BY <1>0
        <5> QED BY <5>1, <5>2 DEF Fns
      <4> QED BY <4>1, <4>3, <4>4
    <3> QED BY <3>1, <3>2
  <2>3. 0..m \subseteq T
    <3> HIDE DEF T
    <3> QED BY <2>1, <2>2, NatSetInduction
  <2>4. m \in 0..m /\ Deg(m) = m - 1
    OBVIOUS
  <2> HIDE DEF Deg
  <2> QED BY <2>3, <2>4
<1>2. ASSUME NEW p \in 1..m, p # i
      PROVE  q[m][z[p]] = Zero
  <2> DEFINE T == {j \in 0..m : p <= j => q[j][z[p]] = Zero}
  <2>0. z[p] \in Byte
    OBVIOUS
  <2>1. 0 \in T
    OBVIOUS
  <2>2. \A j \in 0 .. m - 1 : j \in T => j + 1 \in T
    <3> SUFFICES ASSUME NEW j \in 0 .. m - 1, p <= j => q[j][z[p]] = Zero, p <= j + 1
                 PROVE  q[j + 1][z[p]] = Zero
      OBVIOUS
    <3>0. q[j][z[p]] \in Byte /\ z[j + 1] \in Byte
      BY <1>0, <2>0
    <3>1. CASE p = j + 1
      <4>1. q[j + 1][z[p]] = GfMul(q[j][z[p]], Xor(z[p], z[p]))
        BY <1>0, <1>2, <2>0, <3>1
      <4>2. Xor(z[p], z[p]) = Zero
        BY XorLaws
      <4> QED BY <3>0, <4>1, <4>2, MulUnits
    <3>2. CASE p <= j
      <4>1. q[j + 1][z[p]] = IF j + 1 = i THEN q[j][z[p]]
                             ELSE GfMul(q[j][z[p]], Xor(z[j + 1], z[p]))
        BY <1>0, <2>0
      <4>2. q[j][z[p]] = Zero /\ Xor(z[j + 1], z[p]) \in Byte
        BY <2>0, <3>0, <3>2, FieldLaws
      <4> QED BY <4>1, <4>2, MulUnits
    <3> QED BY <3>1, <3>2
  <2>3. 0..m \subseteq T
    <3> HIDE DEF T
    <3> QED BY <2>1, <2>2, NatSetInduction
  <2>4. m \in T /\ p <= m
    BY <2>3
  <2> QED BY <2>4
<1>3. q[m][z[i]] # Zero
  <2> DEFINE T == {j \in 0..m : q[j][z[i]] # Zero}
  <2>0. z[i] \in Byte
    OBVIOUS
  <2>1. 0 \in T
    BY <1>0, <2>0, XorLaws
  <2>2. \A j \in 0 .. m - 1 : j \in T => j + 1 \in T
    <3> SUFFICES ASSUME NEW j \in 0 .. m - 1, q[j][z[i]] # Zero
                 PROVE  q[j + 1][z[i]] # Zero
      OBVIOUS
    <3>1. CASE j + 1 = i
      BY <1>0, <2>0, <3>1
    <3>2. CASE j + 1 # i
      <4>1. q[j + 1][z[i]] = GfMul(q[j][z[i]], Xor(z[j + 1], z[i]))
        BY <1>0, <2>0, <3>2
      <4>2. z[j + 1] \in Byte /\ z[j + 1] # z[i]
        BY <3>2
      <4>3. Xor(z[j + 1], z[i]) # Zero /\ Xor(z[j + 1], z[i]) \in Byte
        BY <2>0, <4>2, XorLaws
      <4>4. q[j][z[i]] \in Byte
        BY <1>0, <2>0
      <4> QED BY <4>1, <4>3, <4>4, NoDivisors
    <3> QED BY <3>1, <3>2
  <2>3. 0..m \subseteq T
    <3> HIDE DEF T
    <3> QED BY <2>1, <2>2, NatSetInduction
  <2>4. m \in T
    BY <2>3
  <2> QED BY <2>4
<1> QED BY <1>1, <1>2, <1>3

(* The weight of a share, by these products.                                *)
LEMMA WeightIs ==
  ASSUME NEW shares, Len(shares) \in Nat, NEW z \in [1..Len(shares) -> Byte],
         \A j \in 1..Len(shares) : shares[j].x = z[j],
         NEW i \in 1..Len(shares), NEW q, IsProduct(q, z, Len(shares), i)
  PROVE  Weight(shares, i) = GfMul(q[Len(shares)][Zero], GfInv(q[Len(shares)][z[i]]))
PROOF
<1> DEFINE m == Len(shares)
           Rec(h) == [j \in 0..m |->
                       IF j = 0 THEN [num |-> One, den |-> One]
                       ELSE IF j = i THEN h[j - 1]
                       ELSE [num |-> GfMul(h[j - 1].num, shares[j].x),
                             den |-> GfMul(h[j - 1].den, Xor(shares[j].x, shares[i].x))]]
           f == [j \in 0..m |-> [num |-> q[j][Zero], den |-> q[j][z[i]]]]
           u == CHOOSE h : h = Rec(h)
<1>0. z[i] \in Byte /\ Zero \in Byte
  BY FieldLaws
<1>1. /\ q[0][Zero] = One /\ q[0][z[i]] = One
      /\ \A j \in 1..m :
           /\ q[j][Zero] = IF j = i THEN q[j - 1][Zero] ELSE GfMul(q[j - 1][Zero], z[j])
           /\ q[j][z[i]] = IF j = i THEN q[j - 1][z[i]]
                           ELSE GfMul(q[j - 1][z[i]], Xor(z[j], z[i]))
  <2>1. \A j \in 1..m : Xor(z[j], Zero) = z[j]
    BY FieldLaws
  <2> QED BY <1>0, <2>1 DEF IsProduct
<1>2. \A j \in 1..m : j \in 0..m /\ j - 1 \in 0..m /\ j # 0
  OBVIOUS
<1>3. f = Rec(f)
  <2>1. \A j \in 0..m : f[j] = Rec(f)[j]
    <3> SUFFICES ASSUME NEW j \in 0..m PROVE f[j] = Rec(f)[j]
      OBVIOUS
    <3>1. CASE j = 0
      BY <1>1, <3>1
    <3>2. CASE j \in 1..m
      <4>1. f[j] = [num |-> q[j][Zero], den |-> q[j][z[i]]]
            /\ f[j - 1] = [num |-> q[j - 1][Zero], den |-> q[j - 1][z[i]]]
        BY <1>2, <3>2
      <4> HIDE DEF f
      <4> QED BY <1>1, <1>2, <3>2, <4>1
    <3> QED BY <3>1, <3>2
  <2> QED BY <2>1
<1>4. u = Rec(u)
  <2> HIDE DEF Rec, f
  <2> QED BY <1>3
<1>5. Weight(shares, i) = GfMul(u[m].num, GfInv(u[m].den))
  BY DEF Weight
<1> HIDE DEF u
<1>6. /\ u[0] = [num |-> One, den |-> One]
      /\ \A j \in 1..m :
           u[j] = IF j = i THEN u[j - 1]
                  ELSE [num |-> GfMul(u[j - 1].num, shares[j].x),
                        den |-> GfMul(u[j - 1].den, Xor(shares[j].x, shares[i].x))]
  <2>1. u[0] = [num |-> One, den |-> One]
    <3>1. u[0] = Rec(u)[0]
      BY <1>4
    <3> QED BY <3>1
  <2>2. ASSUME NEW j \in 1..m
        PROVE  u[j] = IF j = i THEN u[j - 1]
                      ELSE [num |-> GfMul(u[j - 1].num, shares[j].x),
                            den |-> GfMul(u[j - 1].den, Xor(shares[j].x, shares[i].x))]
    <3>1. j \in 0..m /\ j # 0
      BY <1>2
    <3>2. u[j] = Rec(u)[j]
      BY <1>4
    <3> QED BY <3>1, <3>2
  <2> QED BY <2>1, <2>2
<1> DEFINE T == {j \in 0..m : u[j].num = q[j][Zero] /\ u[j].den = q[j][z[i]]}
<1>7. 0 \in T
  BY <1>1, <1>6
<1>8. \A j \in 0 .. m - 1 : j \in T => j + 1 \in T
  <2> SUFFICES ASSUME NEW j \in 0 .. m - 1, u[j].num = q[j][Zero], u[j].den = q[j][z[i]]
               PROVE  u[j + 1].num = q[j + 1][Zero] /\ u[j + 1].den = q[j + 1][z[i]]
    OBVIOUS
  <2>1. j + 1 \in 1..m /\ (j + 1) - 1 = j
    OBVIOUS
  <2> DEFINE p == j + 1
  <2>2. p \in 1..m /\ p - 1 = j /\ shares[p].x = z[p] /\ shares[i].x = z[i]
    BY <2>1
  <2> HIDE DEF m, p
  <2>3. /\ q[p][Zero] = IF p = i THEN q[j][Zero] ELSE GfMul(q[j][Zero], z[p])
        /\ q[p][z[i]] = IF p = i THEN q[j][z[i]] ELSE GfMul(q[j][z[i]], Xor(z[p], z[i]))
    BY <1>1, <2>2
  <2>4. u[p] = IF p = i THEN u[j]
               ELSE [num |-> GfMul(u[j].num, z[p]), den |-> GfMul(u[j].den, Xor(z[p], z[i]))]
    BY <1>6, <2>2
  <2>5. u[p].num = q[p][Zero] /\ u[p].den = q[p][z[i]]
    BY <2>3, <2>4
  <2> QED BY <2>5 DEF p
<1>9. 0..m \subseteq T
  <2> HIDE DEF T
  <2> QED BY <1>7, <1>8, NatSetInduction
<1>10. m \in T
  BY <1>9
<1> QED BY <1>5, <1>10

(* The points of some shares, and the values there of one of their bytes.   *)
OnPoints(shares, pos, z, e) ==
  /\ Points(z, Len(shares)) /\ e \in [1..Len(shares) -> Byte]
  /\ pos \in DOMAIN shares[1].y
  /\ \A j \in 1..Len(shares) : shares[j].x = z[j] /\ shares[j].y[pos] = e[j]

(* Lagrange: the sums of reconstruct() are the values at 0 of a polynomial  *)
(* through the points of the shares, of a degree less than their number.    *)
LEMMA Lagrange ==
  ASSUME NEW shares, Len(shares) \in Nat \ {0},
         NEW pos, NEW z, NEW e, OnPoints(shares, pos, z, e)
  PROVE  \E f \in Poly(Len(shares) - 1) :
           /\ \A j \in 1..Len(shares) : f[z[j]] = e[j]
           /\ Interpolate(shares)[pos] = f[Zero]
PROOF
<1> DEFINE m == Len(shares)
           Q == [i \in 1..m |-> CHOOSE q : IsProduct(q, z, m, i)]
           P(i) == Q[i][m]
           w == [i \in 1..m |-> GfMul(e[i], GfInv(P(i)[z[i]]))]
<1>21. /\ Points(z, m) /\ z \in [1..m -> Byte] /\ e \in [1..m -> Byte]
      /\ pos \in DOMAIN shares[1].y
      /\ \A j \in 1..m : shares[j].x = z[j] /\ shares[j].y[pos] = e[j]
  BY DEF OnPoints, Points
<1>0. m \in Nat \ {0} /\ 1 \in 1..m /\ m \in 0..m /\ m - 1 \in Nat
  OBVIOUS
<1>1. \A i \in 1..m : IsProduct(Q[i], z, m, i)
  BY <1>21, ProductExists
<1>2. \A i \in 1..m : /\ P(i) \in Poly(m - 1) /\ P(i) \in Fns
                      /\ \A j \in 1..m : j # i => P(i)[z[j]] = Zero
                      /\ P(i)[z[i]] # Zero /\ P(i)[z[i]] \in Byte
                      /\ Weight(shares, i) = GfMul(P(i)[Zero], GfInv(P(i)[z[i]]))
  <2> SUFFICES ASSUME NEW i \in 1..m
               PROVE  /\ P(i) \in Poly(m - 1) /\ P(i) \in Fns
                      /\ \A j \in 1..m : j # i => P(i)[z[j]] = Zero
                      /\ P(i)[z[i]] # Zero /\ P(i)[z[i]] \in Byte
                      /\ Weight(shares, i) = GfMul(P(i)[Zero], GfInv(P(i)[z[i]]))
    OBVIOUS
  <2> HIDE DEF Q
  <2>1. /\ P(i) \in Poly(m - 1)
        /\ \A j \in 1..m : j # i => P(i)[z[j]] = Zero
        /\ P(i)[z[i]] # Zero
    <3> DEFINE q == Q[i]
    <3>1. IsProduct(q, z, m, i) /\ m \in Nat /\ Points(z, m)
      BY <1>1, <1>21
    <3>2. /\ q[m] \in Poly(m - 1)
          /\ \A j \in 1..m : j # i => q[m][z[j]] = Zero
          /\ q[m][z[i]] # Zero
      <4> HIDE DEF q, m
      <4> QED BY <3>1, ProductFacts
    <3> QED BY <3>2
  <2>2. P(i) \in Fns
    BY <1>0, <2>1, PolyDef
  <2>3. P(i)[z[i]] \in Byte
    BY <1>21, <2>2 DEF Fns
  <2>4. Weight(shares, i) = GfMul(P(i)[Zero], GfInv(P(i)[z[i]]))
    BY <1>1, <1>21, WeightIs
  <2> QED BY <2>1, <2>2, <2>3, <2>4
<1> HIDE DEF Q, P
<1>3. /\ w \in [1..m -> Byte]
      /\ \A i \in 1..m : /\ GfMul(w[i], P(i)[z[i]]) = e[i]
                         /\ GfMul(e[i], Weight(shares, i)) = GfMul(w[i], P(i)[Zero])
  <2> SUFFICES ASSUME NEW i \in 1..m
               PROVE  /\ GfMul(e[i], GfInv(P(i)[z[i]])) \in Byte
                      /\ GfMul(GfMul(e[i], GfInv(P(i)[z[i]])), P(i)[z[i]]) = e[i]
                      /\ GfMul(e[i], Weight(shares, i))
                           = GfMul(GfMul(e[i], GfInv(P(i)[z[i]])), P(i)[Zero])
    OBVIOUS
  <2> DEFINE a == P(i)[z[i]]
             b == GfInv(a)
             c == P(i)[Zero]
  <2>1. a \in Byte /\ a # Zero /\ c \in Byte /\ e[i] \in Byte
    BY <1>2, <1>21, FieldLaws DEF Fns
  <2>2. b \in Byte /\ GfMul(a, b) = One
    BY <2>1, Inverses
  <2>3. Weight(shares, i) = GfMul(c, b)
    BY <1>2
  <2> HIDE DEF a, b, c
  <2>4. GfMul(e[i], b) \in Byte
    BY <2>1, <2>2, FieldLaws
  <2>5. GfMul(GfMul(e[i], b), a) = GfMul(e[i], GfMul(b, a)) /\ GfMul(b, a) = One
    BY <2>1, <2>2, MulAssociates, MulCommutes
  <2>6. GfMul(e[i], GfMul(c, b)) = GfMul(GfMul(e[i], b), c)
    <3>1. GfMul(c, b) = GfMul(b, c)
      BY <2>1, <2>2, MulCommutes
    <3> QED BY <2>1, <2>2, <3>1, MulAssociates
  <2> QED BY <2>1, <2>3, <2>4, <2>5, <2>6, FieldLaws DEF a, b, c
<1> HIDE DEF w
<1> DEFINE Go(i, h) == [v \in Byte |-> Xor(h[v], GfMul(w[i], P(i)[v]))]
           G == [i \in 1..m |-> [h \in Poly(m - 1) |-> Go(i, h)]]
           zero == [v \in Byte |-> Zero]
<1>4. \A i \in 1..m : \A h \in Poly(m - 1) : Go(i, h) \in Poly(m - 1)
  <2> SUFFICES ASSUME NEW i \in 1..m, NEW h \in Poly(m - 1) PROVE Go(i, h) \in Poly(m - 1)
    OBVIOUS
  <2> DEFINE g == [v \in Byte |-> GfMul(w[i], P(i)[v])]
  <2>1. g \in Poly(m - 1)
    BY <1>0, <1>2, <1>3, PolyScale
  <2>2. [v \in Byte |-> Xor(h[v], g[v])] \in Poly(m - 1)
    <3> HIDE DEF g
    <3> QED BY <1>0, <2>1, PolySum
  <2>3. [v \in Byte |-> Xor(h[v], g[v])] = Go(i, h)
    OBVIOUS
  <2> HIDE DEF g, Go
  <2> QED BY <2>2, <2>3
<1>5. G \in [1..m -> [Poly(m - 1) -> Poly(m - 1)]]
  <2> HIDE DEF Go
  <2> QED BY <1>4
<1>6. zero \in Poly(m - 1)
  <2>1. zero \in Poly(0)
    BY ConstantPoly, FieldLaws DEF Fns
  <2> HIDE DEF zero
  <2> QED BY <1>0, <2>1, PolyUp
<1>7. PICK S \in [0..m -> Poly(m - 1)] : Recurs(S, zero, G, m)
  <2> HIDE DEF G, zero
  <2> QED BY <1>0, <1>5, <1>6, Recursion
<1>8. /\ \A v \in Byte : S[0][v] = Zero
      /\ \A i \in 0 .. m - 1 : \A v \in Byte :
           S[i + 1][v] = Xor(S[i][v], GfMul(w[i + 1], P(i + 1)[v]))
      /\ \A i \in 0..m : \A v \in Byte : S[i][v] \in Byte
  <2>1. \A v \in Byte : S[0][v] = Zero
    BY <1>7 DEF Recurs
  <2>2. ASSUME NEW i \in 0 .. m - 1, NEW v \in Byte
        PROVE  S[i + 1][v] = Xor(S[i][v], GfMul(w[i + 1], P(i + 1)[v]))
    <3>1. i + 1 \in 1..m /\ (i + 1) - 1 = i /\ i \in 0..m
      OBVIOUS
    <3>2. S[i + 1] = G[i + 1][S[i]] /\ S[i] \in Poly(m - 1)
      <4> HIDE DEF G, m
      <4> QED BY <1>7, <3>1 DEF Recurs
    <3>3. G[i + 1] = [h \in Poly(m - 1) |-> Go(i + 1, h)]
      BY <3>1
    <3>4. S[i + 1] = Go(i + 1, S[i])
      <4> HIDE DEF G, Go
      <4> QED BY <3>2, <3>3
    <3> QED BY <3>4
  <2>3. \A i \in 0..m : S[i] \in Fns
    BY <1>0, <1>7, PolyDef
  <2> QED BY <2>1, <2>2, <2>3 DEF Fns
<1> HIDE DEF G, zero, Go
<1>9. ASSUME NEW p \in 1..m
      PROVE  S[m][z[p]] = e[p]
  <2> DEFINE T == {i \in 0..m : S[i][z[p]] = IF p <= i THEN e[p] ELSE Zero}
  <2>0. z[p] \in Byte /\ e[p] \in Byte /\ Zero \in Byte
    BY <1>21, FieldLaws
  <2>1. 0 \in T
    BY <1>8, <2>0
  <2>2. \A i \in 0 .. m - 1 : i \in T => i + 1 \in T
    <3> SUFFICES ASSUME NEW i \in 0 .. m - 1, S[i][z[p]] = IF p <= i THEN e[p] ELSE Zero
                 PROVE  S[i + 1][z[p]] = IF p <= i + 1 THEN e[p] ELSE Zero
      OBVIOUS
    <3>0. i + 1 \in 1..m /\ w[i + 1] \in Byte
      BY <1>3
    <3>1. S[i + 1][z[p]] = Xor(S[i][z[p]], GfMul(w[i + 1], P(i + 1)[z[p]]))
      BY <1>8, <2>0
    <3>2. CASE p = i + 1
      <4>1. GfMul(w[i + 1], P(i + 1)[z[p]]) = e[p] /\ S[i][z[p]] = Zero
        BY <1>3, <3>0, <3>2
      <4>2. Xor(Zero, e[p]) = e[p]
        BY <2>0, XorLaws
      <4> QED BY <3>1, <3>2, <4>1, <4>2
    <3>3. CASE p # i + 1
      <4>1. P(i + 1)[z[p]] = Zero
        BY <1>2, <3>0, <3>3
      <4>2. S[i + 1][z[p]] = S[i][z[p]]
        <5>1. S[i][z[p]] \in Byte
          BY <1>8, <2>0
        <5> QED BY <3>0, <3>1, <4>1, <5>1, FieldLaws
      <4>3. p <= i <=> p <= i + 1
        BY <3>3
      <4> QED BY <4>2, <4>3
    <3> QED BY <3>2, <3>3
  <2>3. 0..m \subseteq T
    <3> HIDE DEF T
    <3> QED BY <1>0, <2>1, <2>2, NatSetInduction
  <2>4. m \in T /\ p <= m
    BY <1>0, <2>3
  <2> QED BY <2>4
<1> DEFINE Rec(h) == [i \in 0..m |->
                       IF i = 0 THEN Zero
                       ELSE Xor(h[i - 1], GfMul(shares[i].y[pos], Weight(shares, i)))]
           t == [i \in 0..m |-> S[i][Zero]]
           u == CHOOSE h : h = Rec(h)
<1>10. /\ S[0][Zero] = Zero
       /\ \A i \in 1..m :
            S[i][Zero] = Xor(S[i - 1][Zero], GfMul(shares[i].y[pos], Weight(shares, i)))
  <2>1. Zero \in Byte
    BY FieldLaws
  <2>2. ASSUME NEW i \in 1..m
        PROVE  S[i][Zero] = Xor(S[i - 1][Zero], GfMul(shares[i].y[pos], Weight(shares, i)))
    <3>1. i - 1 \in 0 .. m - 1 /\ (i - 1) + 1 = i
      OBVIOUS
    <3>2. S[i][Zero] = Xor(S[i - 1][Zero], GfMul(w[i], P(i)[Zero]))
      <4> HIDE DEF m
      <4> QED BY <1>8, <2>1, <3>1
    <3> QED BY <1>21, <1>3, <3>2
  <2> QED BY <1>8, <2>1, <2>2
<1>11. \A i \in 1..m : i \in 0..m /\ i - 1 \in 0..m /\ i # 0
  OBVIOUS
<1>12. t = Rec(t)
  <2>1. \A i \in 0..m : t[i] = Rec(t)[i]
    <3> SUFFICES ASSUME NEW i \in 0..m PROVE t[i] = Rec(t)[i]
      OBVIOUS
    <3>1. CASE i = 0
      BY <1>10, <3>1
    <3>2. CASE i \in 1..m
      <4>1. t[i] = S[i][Zero] /\ t[i - 1] = S[i - 1][Zero]
        BY <1>11, <3>2
      <4> HIDE DEF t
      <4> QED BY <1>10, <1>11, <3>2, <4>1
    <3> QED BY <3>1, <3>2
  <2> QED BY <2>1
<1>13. u = Rec(u)
  <2> HIDE DEF Rec, t
  <2> QED BY <1>12
<1>14. Interpolate(shares)[pos] = u[m]
  BY <1>21 DEF Interpolate
<1> HIDE DEF u
<1>15. /\ u[0] = Zero
       /\ \A i \in 1..m :
            u[i] = Xor(u[i - 1], GfMul(shares[i].y[pos], Weight(shares, i)))
  <2>1. u[0] = Zero
    <3>1. u[0] = Rec(u)[0]
      BY <1>13
    <3> QED BY <3>1
  <2>2. ASSUME NEW i \in 1..m
        PROVE  u[i] = Xor(u[i - 1], GfMul(shares[i].y[pos], Weight(shares, i)))
    <3>1. i \in 0..m /\ i # 0
      BY <1>11
    <3>2. u[i] = Rec(u)[i]
      BY <1>13
    <3> QED BY <3>1, <3>2
  <2> QED BY <2>1, <2>2
<1>16. u[m] = S[m][Zero]
  <2> DEFINE T == {i \in 0..m : u[i] = S[i][Zero]}
  <2>1. 0 \in T
    BY <1>10, <1>15
  <2>2. \A i \in 0 .. m - 1 : i \in T => i + 1 \in T
    <3> SUFFICES ASSUME NEW i \in 0 .. m - 1, u[i] = S[i][Zero]
                 PROVE  u[i + 1] = S[i + 1][Zero]
      OBVIOUS
    <3>1. i + 1 \in 1..m /\ (i + 1) - 1 = i
      OBVIOUS
    <3> HIDE DEF m
    <3> QED BY <1>10, <1>15, <3>1
  <2>3. 0..m \subseteq T
    <3> HIDE DEF T
    <3> QED BY <1>0, <2>1, <2>2, NatSetInduction
  <2> QED BY <1>0, <2>3
<1>17. S[m] \in Poly(m - 1)
  BY <1>0, <1>7
<1> QED BY <1>9, <1>14, <1>16, <1>17

(* Two polynomials of degree d that agree on d + 1 points are one.          *)
LEMMA PolysAgree ==
  ASSUME NEW d \in Nat, NEW f \in Poly(d), NEW g \in Poly(d), NEW z, Points(z, d + 1),
         \A j \in 1 .. d + 1 : f[z[j]] = g[z[j]]
  PROVE  \A v \in Byte : f[v] = g[v]
PROOF
<1> DEFINE s == [v \in Byte |-> Xor(f[v], g[v])]
<1>1. s \in Poly(d)
  BY PolySum
<1>2. z \in [1 .. d + 1 -> Byte] /\ \A i, j \in 1 .. d + 1 : z[i] = z[j] => i = j
  BY DEF Points
<1>3. \A j \in 1 .. d + 1 : s[z[j]] = Zero
  BY <1>2, XorLaws
<1> HIDE DEF s
<1>4. \A v \in Byte : s[v] = Zero
  BY <1>1, <1>2, <1>3, PolyRoots
<1>5. \A v \in Byte : Xor(f[v], g[v]) = Zero
  BY <1>4 DEF s
<1> QED BY <1>5, XorLaws

(* Shares that lie on a polynomial, more of them than its degree: what      *)
(* reconstruct() makes of them is its value at 0.                           *)
LEMMA Rebuilds ==
  ASSUME NEW shares, Len(shares) \in Nat \ {0},
         \A j \in 1..Len(shares) : shares[j].x \in Byte,
         \A j, l \in 1..Len(shares) : shares[j].x = shares[l].x => j = l,
         NEW pos \in DOMAIN shares[1].y,
         NEW d \in 0 .. Len(shares) - 1, NEW f \in Poly(d),
         \A j \in 1..Len(shares) : shares[j].y[pos] = f[shares[j].x]
  PROVE  Interpolate(shares)[pos] = f[Zero]
PROOF
<1> DEFINE m == Len(shares)
           z == [j \in 1..m |-> shares[j].x]
           e == [j \in 1..m |-> f[shares[j].x]]
<1>0. f \in Fns /\ m - 1 \in Nat /\ d \in Nat /\ d <= m - 1
  BY PolyDef
<1>1. /\ z \in [1..m -> Byte] /\ e \in [1..m -> Byte]
      /\ \A j \in 1..m : shares[j].x = z[j] /\ shares[j].y[pos] = e[j] /\ e[j] = f[z[j]]
      /\ \A j, l \in 1..m : z[j] = z[l] => j = l
  BY <1>0 DEF Fns
<1> HIDE DEF z, e
<1>2. PICK g \in Poly(m - 1) : /\ \A j \in 1..m : g[z[j]] = e[j]
                               /\ Interpolate(shares)[pos] = g[Zero]
  <2>1. OnPoints(shares, pos, z, e)
    BY <1>1 DEF OnPoints, Points
  <2>2. \E g \in Poly(Len(shares) - 1) : /\ \A j \in 1..Len(shares) : g[z[j]] = e[j]
                                         /\ Interpolate(shares)[pos] = g[Zero]
    BY <2>1, Lagrange
  <2> QED BY <2>2
<1>3. f \in Poly(m - 1)
  BY <1>0, PolyUp
<1>4. f[Zero] = g[Zero]
  <2> DEFINE i == m - 1
  <2>1. i + 1 = m
    OBVIOUS
  <2>2. /\ i \in Nat /\ f \in Poly(i) /\ g \in Poly(i) /\ Points(z, i + 1)
        /\ \A j \in 1 .. i + 1 : f[z[j]] = g[z[j]]
    BY <1>0, <1>1, <1>2, <1>3, <2>1 DEF Points
  <2>3. \A v \in Byte : f[v] = g[v]
    <3> HIDE DEF i, m
    <3> QED BY <2>2, PolysAgree
  <2> QED BY <2>3, FieldLaws
<1> QED BY <1>2, <1>4

(* The values of Horner's scheme, turn by turn, at every byte.              *)
IsHorner(h, c, b) ==
  /\ h \in [0 .. Len(c) + 1 -> Fns]
  /\ \A v \in Byte : h[0][v] = Zero
  /\ \A i \in 1 .. Len(c) + 1 : \A v \in Byte :
       h[i][v] = Xor(GfMul(h[i - 1][v], v), IF i = Len(c) + 1 THEN b ELSE c[Len(c) + 1 - i])

(* The length of a list of coefficients.                                    *)
LEMMA CoefficientsLen ==
  ASSUME NEW d \in Nat, NEW S, NEW c \in [1..d -> S]
  PROVE  Len(c) = d /\ c \in Seq(S)
OBVIOUS

(* There is such a scheme for every list of coefficients and every byte.    *)
LEMMA HornerExists ==
  ASSUME NEW d \in Nat, NEW c \in [1..d -> Byte], NEW b \in Byte
  PROVE  \E h : IsHorner(h, c, b)
PROOF
<1> DEFINE E(i) == IF i = d + 1 THEN b ELSE c[d + 1 - i]
           Go(i, g) == [v \in Byte |-> Xor(GfMul(g[v], v), E(i))]
           G == [i \in 1 .. d + 1 |-> [g \in Fns |-> Go(i, g)]]
           zero == [v \in Byte |-> Zero]
<1>0. Len(c) = d
  BY CoefficientsLen
<1>1. \A i \in 1 .. d + 1 : E(i) \in Byte
  OBVIOUS
<1> HIDE DEF E
<1>2. \A i \in 1 .. d + 1 : \A g \in Fns : Go(i, g) \in Fns
  BY <1>1, FieldLaws DEF Fns
<1>3. G \in [1 .. d + 1 -> [Fns -> Fns]] /\ zero \in Fns /\ d + 1 \in Nat
  <2>1. zero \in Fns /\ d + 1 \in Nat
    BY FieldLaws DEF Fns
  <2> HIDE DEF Go, zero
  <2> QED BY <1>2, <2>1
<1>4. PICK h \in [0 .. d + 1 -> Fns] : Recurs(h, zero, G, d + 1)
  <2> HIDE DEF G, zero
  <2> QED BY <1>3, Recursion
<1>5. \A v \in Byte : h[0][v] = Zero
  BY <1>4 DEF Recurs
<1>6. ASSUME NEW i \in 1 .. d + 1, NEW v \in Byte
      PROVE  h[i][v] = Xor(GfMul(h[i - 1][v], v), E(i))
  <2>1. i - 1 \in 0 .. d + 1
    OBVIOUS
  <2>2. h[i] = G[i][h[i - 1]] /\ h[i - 1] \in Fns
    <3> HIDE DEF G
    <3> QED BY <1>4, <2>1 DEF Recurs
  <2>3. G[i] = [g \in Fns |-> Go(i, g)]
    OBVIOUS
  <2>4. h[i] = Go(i, h[i - 1])
    <3> HIDE DEF G, Go
    <3> QED BY <2>2, <2>3
  <2> QED BY <2>4
<1> QED BY <1>0, <1>4, <1>5, <1>6 DEF IsHorner, E

(* Horner's scheme computes a polynomial, the one with the secret byte at 0.*)
LEMMA HornerIsPoly ==
  ASSUME NEW d \in Nat, NEW c \in [1..d -> Byte], NEW b \in Byte, NEW h, IsHorner(h, c, b)
  PROVE  /\ h[d + 1] \in Poly(d) /\ h[d + 1][Zero] = b
         /\ \A i \in 0..d : h[i + 1] \in Poly(i)
PROOF
<1> DEFINE E(i) == IF i = d + 1 THEN b ELSE c[d + 1 - i]
<1>0. Len(c) = d
  BY CoefficientsLen
<1>1. \A i \in 0..d : E(i + 1) \in Byte
  OBVIOUS
<1>2. /\ \A i \in 0 .. d + 1 : h[i] \in Fns /\ \A v \in Byte : h[i][v] \in Byte
      /\ \A v \in Byte : h[0][v] = Zero
      /\ \A i \in 0..d : \A v \in Byte : h[i + 1][v] = Xor(GfMul(h[i][v], v), E(i + 1))
  <2>1. \A i \in 0..d : i + 1 \in 1 .. d + 1 /\ (i + 1) - 1 = i
    OBVIOUS
  <2>2. \A i \in 0 .. d + 1 : h[i] \in Fns
    BY <1>0 DEF IsHorner
  <2>3. \A v \in Byte : h[0][v] = Zero
    BY DEF IsHorner
  <2>4. \A i \in 1 .. d + 1 : \A v \in Byte : h[i][v] = Xor(GfMul(h[i - 1][v], v), E(i))
    BY <1>0 DEF IsHorner
  <2> HIDE DEF E
  <2> QED BY <2>1, <2>2, <2>3, <2>4 DEF Fns
<1> HIDE DEF E
<1> DEFINE T == {i \in 0..d : h[i + 1] \in Poly(i)}
<1>3. 0 \in T
  <2>1. 0 \in 0..d /\ 0 + 1 = 1 /\ 1 \in 0 .. d + 1
    OBVIOUS
  <2>2. h[1] \in Fns /\ E(1) \in Byte
    BY <1>1, <1>2, <2>1
  <2>3. \A v \in Byte : h[1][v] = E(1)
    <3> SUFFICES ASSUME NEW v \in Byte PROVE h[1][v] = E(1)
      OBVIOUS
    <3>1. h[1][v] = Xor(GfMul(Zero, v), E(1))
      BY <1>2, <2>1
    <3>2. GfMul(Zero, v) = Zero /\ Xor(Zero, E(1)) = E(1)
      BY <2>2, MulUnits, XorLaws
    <3> QED BY <3>1, <3>2
  <2>4. h[1] \in Poly(0)
    BY <2>2, <2>3, ConstantPoly
  <2> QED BY <2>1, <2>4
<1>4. \A i \in 0 .. d - 1 : i \in T => i + 1 \in T
  <2> SUFFICES ASSUME NEW i \in 0 .. d - 1, h[i + 1] \in Poly(i)
               PROVE  h[(i + 1) + 1] \in Poly(i + 1)
    OBVIOUS
  <2> DEFINE g == h[i + 1]
             e == E((i + 1) + 1)
  <2>1. i + 1 \in 0..d /\ (i + 1) + 1 \in 0 .. d + 1 /\ i + 1 \in 0 .. d + 1
    OBVIOUS
  <2>2. g \in Poly(i) /\ e \in Byte /\ \A v \in Byte : g[v] \in Byte
    BY <1>1, <1>2, <2>1
  <2>3. \A v \in Byte : h[(i + 1) + 1][v] = Xor(GfMul(v, g[v]), e)
    <3>1. \A v \in Byte : h[(i + 1) + 1][v] = Xor(GfMul(g[v], v), e)
      BY <1>2, <2>1
    <3>2. \A v \in Byte : GfMul(g[v], v) = GfMul(v, g[v])
      BY <2>2, MulCommutes
    <3> HIDE DEF g, e
    <3> QED BY <3>1, <3>2
  <2>4. h[(i + 1) + 1] = [v \in Byte |-> Xor(GfMul(v, g[v]), e)]
    <3>1. h[(i + 1) + 1] \in Fns
      BY <1>2, <2>1
    <3> HIDE DEF g, e
    <3> QED BY <2>3, <3>1 DEF Fns
  <2>5. [v \in Byte |-> Xor(GfMul(v, g[v]), e)] \in Poly(i + 1)
    <3>1. i \in Nat
      OBVIOUS
    <3> HIDE DEF g, e
    <3> QED BY <2>2, <3>1, PolyRaise
  <2> QED BY <2>4, <2>5
<1>5. 0..d \subseteq T
  <2> HIDE DEF T
  <2> QED BY <1>3, <1>4, NatSetInduction
<1>6. h[d + 1] \in Poly(d) /\ \A i \in 0..d : h[i + 1] \in Poly(i)
  BY <1>5
<1>7. h[d + 1][Zero] = b
  <2>1. d \in 0..d /\ d \in 0 .. d + 1 /\ Zero \in Byte
    BY FieldLaws
  <2>2. h[d + 1][Zero] = Xor(GfMul(h[d][Zero], Zero), E(d + 1)) /\ h[d][Zero] \in Byte
    BY <1>2, <2>1
  <2>3. E(d + 1) = b
    BY DEF E
  <2> QED BY <2>2, <2>3, MulUnits, XorLaws
<1> QED BY <1>6, <1>7

(* Byte pos of a share is the value of its polynomial at the abscissa.      *)
LEMMA ShareByteIs ==
  ASSUME NEW s, NEW cs, NEW pos, NEW p, NEW d \in Nat, cs[pos] \in [1..d -> Byte],
         NEW h, IsHorner(h, cs[pos], s[pos])
  PROVE  ShareByte(s, cs, p, pos) = h[d + 1][ByteOf(p)]
PROOF
<1> DEFINE c == cs[pos]
           w == ByteOf(p)
           E(i) == IF i = Len(c) + 1 THEN s[pos] ELSE c[Len(c) + 1 - i]
           Rec(g) == [i \in 0 .. Len(c) + 1 |->
                       IF i = 0 THEN Zero
                       ELSE Xor(GfMul(g[i - 1], ByteOf(p)),
                                IF i = Len(c) + 1 THEN s[pos] ELSE c[Len(c) + 1 - i])]
           f == [i \in 0 .. Len(c) + 1 |-> h[i][w]]
           u == CHOOSE g : g = Rec(g)
<1>0. Len(c) = d /\ w \in Byte
  BY CoefficientsLen DEF ByteOf, Byte
<1>1. /\ h[0][w] = Zero
      /\ \A i \in 1 .. Len(c) + 1 : h[i][w] = Xor(GfMul(h[i - 1][w], w), E(i))
  BY <1>0 DEF IsHorner
<1>2. \A i \in 1 .. Len(c) + 1 : i \in 0 .. Len(c) + 1 /\ i - 1 \in 0 .. Len(c) + 1 /\ i # 0
  BY <1>0
<1>3. f = Rec(f)
  <2>1. \A i \in 0 .. Len(c) + 1 : f[i] = Rec(f)[i]
    <3> SUFFICES ASSUME NEW i \in 0 .. Len(c) + 1 PROVE f[i] = Rec(f)[i]
      OBVIOUS
    <3>1. CASE i = 0
      BY <1>1, <3>1
    <3>2. CASE i \in 1 .. Len(c) + 1
      <4>1. f[i] = h[i][w] /\ f[i - 1] = h[i - 1][w]
        BY <1>2, <3>2
      <4>2. Rec(f)[i] = Xor(GfMul(f[i - 1], w), E(i))
        BY <1>2, <3>2
      <4> HIDE DEF f, Rec, E, c, w
      <4> QED BY <1>1, <3>2, <4>1, <4>2
    <3> QED BY <1>0, <3>1, <3>2
  <2> QED BY <2>1
<1>4. u = Rec(u)
  <2> HIDE DEF Rec, f
  <2> QED BY <1>3
<1>5. ShareByte(s, cs, p, pos) = u[Len(c) + 1]
  BY DEF ShareByte
<1> HIDE DEF u
<1>6. /\ u[0] = Zero
      /\ \A i \in 1 .. Len(c) + 1 : u[i] = Xor(GfMul(u[i - 1], w), E(i))
  <2>1. u[0] = Zero
    <3>1. u[0] = Rec(u)[0]
      BY <1>4
    <3>2. 0 \in 0 .. Len(c) + 1
      BY <1>0
    <3> QED BY <3>1, <3>2
  <2>2. ASSUME NEW i \in 1 .. Len(c) + 1
        PROVE  u[i] = Xor(GfMul(u[i - 1], w), E(i))
    <3>1. u[i] = Rec(u)[i]
      BY <1>4
    <3>2. i \in 0 .. Len(c) + 1 /\ i # 0
      BY <1>2
    <3> QED BY <3>1, <3>2
  <2> QED BY <2>1, <2>2
<1> DEFINE T == {i \in 0 .. d + 1 : u[i] = h[i][w]}
<1>7. 0 \in T
  BY <1>1, <1>6
<1>8. \A i \in 0 .. (d + 1) - 1 : i \in T => i + 1 \in T
  <2> SUFFICES ASSUME NEW i \in 0..d, u[i] = h[i][w] PROVE u[i + 1] = h[i + 1][w]
    OBVIOUS
  <2>1. i + 1 \in 1 .. Len(c) + 1 /\ (i + 1) - 1 = i
    BY <1>0
  <2> HIDE DEF c, w, E
  <2> QED BY <1>1, <1>6, <2>1
<1>9. 0 .. d + 1 \subseteq T
  <2> HIDE DEF T
  <2> QED BY <1>7, <1>8, NatSetInduction
<1>10. d + 1 \in T
  BY <1>9
<1> QED BY <1>0, <1>5, <1>10

(* Whichever byte b of a secret c is drawn for, the share of abscissa v     *)
(* gets the byte u.                                                         *)
Makes(c, b, v, u) ==
  \A s, cs, pos, p : cs[pos] = c /\ s[pos] = b /\ ByteOf(p) = v
                       => ShareByte(s, cs, p, pos) = u

(* A share depends on one byte of the secret and its coefficients.          *)
LEMMA ShareByteOf ==
  ASSUME NEW d \in Nat, NEW c \in [1..d -> Byte], NEW b \in Byte
  PROVE  \E f \in Poly(d) : f[Zero] = b /\ \A v : Makes(c, b, v, f[v])
PROOF
<1>1. PICK h : IsHorner(h, c, b)
  BY HornerExists
<1>2. h[d + 1] \in Poly(d) /\ h[d + 1][Zero] = b
  BY <1>1, HornerIsPoly
<1>3. \A s, cs, pos, p : cs[pos] = c /\ s[pos] = b
                           => ShareByte(s, cs, p, pos) = h[d + 1][ByteOf(p)]
  BY <1>1, ShareByteIs
<1>4. \A v : Makes(c, b, v, h[d + 1][v])
  BY <1>3 DEF Makes
<1> QED BY <1>2, <1>4

(* And every polynomial is one that split() may use.                        *)
LEMMA PolyIsHorner ==
  ASSUME NEW d \in Nat, NEW f \in Poly(d)
  PROVE  \E c \in [1..d -> Byte] : \E h :
           IsHorner(h, c, f[Zero]) /\ \A v \in Byte : h[d + 1][v] = f[v]
PROOF
<1> DEFINE Has(i, g) == \E c \in [1..i -> Byte] : \E h :
                          IsHorner(h, c, g[Zero]) /\ \A v \in Byte : h[i + 1][v] = g[v]
           T == {i \in Nat : \A g \in Poly(i) : Has(i, g)}
<1>1. 0 \in T
  <2> SUFFICES ASSUME NEW g \in Poly(0) PROVE Has(0, g)
    OBVIOUS
  <2>1. PICK b \in Byte : \A v \in Byte : g[v] = b
    BY PolyDef DEF ConstantFns
  <2>2. g[Zero] = b
    BY <2>1, FieldLaws
  <2> DEFINE c == [i \in 1..0 |-> Zero]
             h == [i \in 0..1 |-> [v \in Byte |-> IF i = 0 THEN Zero ELSE b]]
  <2>3. c \in [1..0 -> Byte] /\ Len(c) = 0
    OBVIOUS
  <2>4. h \in [0..1 -> Fns] /\ \A v \in Byte : h[0][v] = Zero /\ h[1][v] = b
    BY FieldLaws DEF Fns
  <2>5. \A v \in Byte : Xor(GfMul(h[0][v], v), b) = b
    BY <2>4, MulUnits, XorLaws
  <2> HIDE DEF c, h
  <2>6. 0 + 1 = 1 /\ \A i \in 1..1 : i = 1 /\ i - 1 = 0
    OBVIOUS
  <2>7. IsHorner(h, c, b)
    BY <2>3, <2>4, <2>5, <2>6 DEF IsHorner
  <2>8. \A v \in Byte : h[0 + 1][v] = g[v]
    BY <2>1, <2>4, <2>6
  <2> QED BY <2>2, <2>3, <2>7, <2>8
<1>2. \A i \in Nat : i \in T => i + 1 \in T
  <2> SUFFICES ASSUME NEW i \in Nat, i \in T, NEW g \in Poly(i + 1) PROVE Has(i + 1, g)
    OBVIOUS
  <2>1. PICK q \in Poly(i), b \in Byte : \A v \in Byte : g[v] = Xor(GfMul(v, q[v]), b)
    BY PolyDef DEF Raised
  <2>2. PICK a \in [1..i -> Byte] : \E l : /\ IsHorner(l, a, q[Zero])
                                            /\ \A v \in Byte : l[i + 1][v] = q[v]
    OBVIOUS
  <2>14. PICK l : IsHorner(l, a, q[Zero]) /\ \A v \in Byte : l[i + 1][v] = q[v]
    BY <2>2
  <2>3. q \in Fns /\ g \in Fns /\ q[Zero] \in Byte /\ \A v \in Byte : q[v] \in Byte
    <3>1. q \in Fns /\ g \in Fns
      <4>1. i + 1 \in Nat
        OBVIOUS
      <4> QED BY <4>1, PolyDef
    <3>2. Zero \in Byte
      BY FieldLaws
    <3> QED BY <3>1, <3>2 DEF Fns
  <2>4. g[Zero] = b
    <3>1. g[Zero] = Xor(GfMul(Zero, q[Zero]), b)
      BY <2>1, FieldLaws
    <3> QED BY <2>3, <3>1, MulUnits, XorLaws
  <2> DEFINE c == [j \in 1 .. i + 1 |-> IF j = 1 THEN q[Zero] ELSE a[j - 1]]
             h == [j \in 0 .. i + 2 |-> IF j = i + 2 THEN g ELSE l[j]]
  <2>5. c \in [1 .. i + 1 -> Byte]
    BY <2>3
  <2>6. Len(c) = i + 1 /\ Len(a) = i
    BY <2>5, CoefficientsLen
  <2>7. /\ l \in [0 .. i + 1 -> Fns]
        /\ \A v \in Byte : l[0][v] = Zero
        /\ \A j \in 1 .. i + 1 : \A v \in Byte :
             l[j][v] = Xor(GfMul(l[j - 1][v], v), IF j = i + 1 THEN q[Zero] ELSE a[i + 1 - j])
    BY <2>6, <2>14 DEF IsHorner
  <2>8. h \in [0 .. i + 2 -> Fns]
    BY <2>3, <2>7
  <2>9. \A v \in Byte : h[0][v] = Zero
    BY <2>7
  <2>10. ASSUME NEW j \in 1 .. i + 2, NEW v \in Byte
         PROVE  h[j][v] = Xor(GfMul(h[j - 1][v], v), IF j = i + 2 THEN b ELSE c[i + 2 - j])
    <3>1. CASE j = i + 2
      <4>1. h[j] = g /\ h[j - 1] = l[i + 1]
        BY <3>1
      <4>2. g[v] = Xor(GfMul(v, q[v]), b) /\ l[i + 1][v] = q[v]
        BY <2>1, <2>14
      <4>3. GfMul(v, q[v]) = GfMul(q[v], v)
        BY <2>3, MulCommutes
      <4> HIDE DEF h, c
      <4> QED BY <3>1, <4>1, <4>2, <4>3
    <3>2. CASE j \in 1 .. i + 1
      <4>1. h[j] = l[j] /\ h[j - 1] = l[j - 1] /\ j # i + 2
        BY <3>2
      <4>2. c[i + 2 - j] = IF j = i + 1 THEN q[Zero] ELSE a[i + 1 - j]
        <5>1. i + 2 - j \in 1 .. i + 1 /\ (i + 2 - j = 1 <=> j = i + 1)
              /\ (i + 2 - j) - 1 = i + 1 - j
          BY <3>2
        <5> QED BY <5>1
      <4>3. l[j][v] = Xor(GfMul(l[j - 1][v], v), IF j = i + 1 THEN q[Zero] ELSE a[i + 1 - j])
        BY <2>7, <3>2
      <4> HIDE DEF h, c
      <4> QED BY <4>1, <4>2, <4>3
    <3> QED BY <3>1, <3>2
  <2>11. Len(c) + 1 = i + 2 /\ (i + 1) + 1 = i + 2
    BY <2>6
  <2>12. h[i + 2] = g
    OBVIOUS
  <2> HIDE DEF h, c
  <2>13. IsHorner(h, c, b)
    BY <2>8, <2>9, <2>10, <2>11 DEF IsHorner
  <2> QED BY <2>4, <2>5, <2>11, <2>12, <2>13
<1>3. Nat \subseteq T
  <2> HIDE DEF T
  <2> QED BY <1>1, <1>2, NatAll
<1> QED BY <1>3

(* d + 1 different points, 0 among them: there are coefficients, and a      *)
(* secret byte, with which split() makes the d others.                      *)
LEMMA AnySecretFits ==
  ASSUME NEW d \in Nat, NEW m \in 0..d, NEW z, Points(z, m), \A j \in 1..m : z[j] # Zero,
         NEW e \in [1..m -> Byte], NEW b \in Byte
  PROVE  \E c \in [1..d -> Byte] : \A j \in 1..m : Makes(c, b, z[j], e[j])
PROOF
<1> DEFINE z_ == [j \in 1 .. m + 1 |-> IF j = m + 1 THEN Zero ELSE z[j]]
           e_ == [j \in 1 .. m + 1 |-> IF j = m + 1 THEN b ELSE e[j]]
           shares == [j \in 1 .. m + 1 |-> [x |-> z_[j], y |-> <<e_[j]>>]]
<1>1. Points(z_, m + 1)
  <2>1. z_ \in [1 .. m + 1 -> Byte]
    BY FieldLaws DEF Points
  <2>2. \A j, l \in 1 .. m + 1 : z_[j] = z_[l] => j = l
    BY DEF Points
  <2> QED BY <2>1, <2>2 DEF Points
<1>2. e_ \in [1 .. m + 1 -> Byte]
  OBVIOUS
<1>3. Len(shares) = m + 1 /\ m + 1 \in Nat \ {0}
  OBVIOUS
<1>4. \A j \in 1 .. m + 1 : shares[j].x = z_[j] /\ shares[j].y = <<e_[j]>>
  OBVIOUS
<1>5. z_[m + 1] = Zero /\ e_[m + 1] = b /\ \A j \in 1..m : z_[j] = z[j] /\ e_[j] = e[j]
  OBVIOUS
<1> HIDE DEF z_, e_, shares
<1>6. OnPoints(shares, 1, z_, e_)
  BY <1>1, <1>2, <1>3, <1>4 DEF OnPoints
<1>7. PICK g \in Poly(m) : \A j \in 1 .. m + 1 : g[z_[j]] = e_[j]
  <2>1. \E g \in Poly(Len(shares) - 1) :
          /\ \A j \in 1..Len(shares) : g[z_[j]] = e_[j]
          /\ Interpolate(shares)[1] = g[Zero]
    BY <1>3, <1>6, Lagrange
  <2>2. Len(shares) - 1 = m
    BY <1>3
  <2> QED BY <1>3, <2>1, <2>2
<1>8. g \in Poly(d)
  BY PolyUp
<1>9. g[Zero] = b /\ \A j \in 1..m : g[z[j]] = e[j]
  <2>1. m + 1 \in 1 .. m + 1 /\ \A j \in 1..m : j \in 1 .. m + 1
    OBVIOUS
  <2> QED BY <1>5, <1>7, <2>1
<1>10. PICK c \in [1..d -> Byte] : \E h : /\ IsHorner(h, c, b)
                                            /\ \A v \in Byte : h[d + 1][v] = g[v]
  BY <1>8, <1>9, PolyIsHorner
<1>12. PICK h : IsHorner(h, c, b) /\ \A v \in Byte : h[d + 1][v] = g[v]
  BY <1>10
<1>11. ASSUME NEW j \in 1..m PROVE Makes(c, b, z[j], e[j])
  <2> SUFFICES ASSUME NEW s, NEW cs, NEW pos, NEW p,
                      cs[pos] = c, s[pos] = b, ByteOf(p) = z[j]
               PROVE  ShareByte(s, cs, p, pos) = e[j]
    BY DEF Makes
  <2>1. ShareByte(s, cs, p, pos) = h[d + 1][ByteOf(p)]
    BY <1>12, ShareByteIs
  <2>2. z[j] \in Byte
    BY DEF Points
  <2> QED BY <1>9, <1>12, <2>1, <2>2
<1> QED BY <1>11
-----------------------------------------------------------------------------
(* The positions of a secret's bytes.                                       *)
Pos == 1..SecretLen

(* The shares: an abscissa and some bytes.                                  *)
ShareRecord == [x : Byte, y : Seq(Byte)]

(* What split() has drawn. *)
Drawn == k \in 2..254 /\ coeffs \in [Pos -> [1 .. k - 1 -> Coefficients]]

(* What is true of every state: types, what split() has drawn, what         *)
(* reconstruct() has answered, and where the shares come from.              *)
ShInv ==
  /\ at \in {"start", "split", "done"}
  /\ secret \in [Pos -> SecretBytes]
  /\ given \in Seq(ShareRecord) /\ genuine \in BOOLEAN
  /\ at = "start" => given = <<>>
  /\ at = "split" => Drawn
  /\ at = "done" =>
       \/ given = <<>> /\ res = Failed("InvalidParams")
       \/ /\ Drawn
          /\ res = IF Refusal(given) = "no" THEN Ok(Interpolate(given))
                                            ELSE Failed(Refusal(given))
  /\ genuine => \A i \in 1..Len(given) : \E p \in Abscissae : given[i] = Share(p)

(* The abscissae of the shares are bytes, and none is 0.                    *)
LEMMA AbscissaeBytes ==
  \A p \in Abscissae : ByteOf(p) \in Byte /\ ByteOf(p) # Zero
PROOF
<1>1. ASSUME NEW p \in 1..254 PROVE ByteOf(p) # Zero
  <2> SUFFICES ASSUME \A b \in 0..7 : b \notin ByteOf(p) PROVE FALSE
    BY DEF Zero
  <2>1. \A b \in 0..7 : (p \div <<1, 2, 4, 8, 16, 32, 64, 128>>[b + 1]) % 2 # 1
    BY DEF ByteOf
  <2>2. /\ (p \div 1) % 2 # 1 /\ (p \div 2) % 2 # 1 /\ (p \div 4) % 2 # 1
        /\ (p \div 8) % 2 # 1 /\ (p \div 16) % 2 # 1 /\ (p \div 32) % 2 # 1
        /\ (p \div 64) % 2 # 1 /\ (p \div 128) % 2 # 1
    BY <2>1
  <2> QED BY <2>2
<1> QED BY <1>1, ShamirAssumption DEF ByteOf, Byte

(* Of a secret that was split, a share has as many bytes as the secret.     *)
LEMMA ShareType ==
  ASSUME secret \in [Pos -> SecretBytes], Drawn
  PROVE  \A p : /\ Share(p) \in ShareRecord /\ Share(p).x = ByteOf(p)
                /\ Len(Share(p).y) = SecretLen /\ DOMAIN Share(p).y = Pos
                /\ \A pos \in Pos : Share(p).y[pos] = ShareByte(secret, coeffs, p, pos)
PROOF
<1> SUFFICES ASSUME NEW p
             PROVE  /\ Share(p) \in ShareRecord /\ Share(p).x = ByteOf(p)
                    /\ Len(Share(p).y) = SecretLen /\ DOMAIN Share(p).y = Pos
                    /\ \A pos \in Pos : Share(p).y[pos] = ShareByte(secret, coeffs, p, pos)
  OBVIOUS
<1>1. \A pos \in Pos : ShareByte(secret, coeffs, p, pos) \in Byte
  <2> SUFFICES ASSUME NEW pos \in Pos PROVE ShareByte(secret, coeffs, p, pos) \in Byte
    OBVIOUS
  <2>1. k - 1 \in Nat /\ coeffs[pos] \in [1 .. k - 1 -> Byte] /\ secret[pos] \in Byte
    BY ShamirAssumption DEF Drawn
  <2>2. PICK f \in Poly(k - 1) :
          \A v : Makes(coeffs[pos], secret[pos], v, f[v])
    BY <2>1, ShareByteOf
  <2>3. ByteOf(p) \in Byte
    BY DEF ByteOf, Byte
  <2>4. f \in Fns
    BY <2>1, PolyDef
  <2> QED BY <2>2, <2>3, <2>4 DEF Fns, Makes
<1>2. Share(p).x = ByteOf(p)
      /\ Share(p).y = [pos \in Pos |-> ShareByte(secret, coeffs, p, pos)]
  BY DEF Share
<1>3. Share(p).y \in [1..SecretLen -> Byte] /\ SecretLen \in Nat
  BY <1>1, <1>2, ShamirAssumption DEF Pos
<1>4. Share(p).y \in Seq(Byte) /\ Len(Share(p).y) = SecretLen
  BY <1>3, CoefficientsLen
<1>5. Share(p) \in ShareRecord
  BY <1>2, <1>4 DEF Share, ShareRecord, ByteOf, Byte
<1> QED BY <1>2, <1>4, <1>5

(* The invariant of a sharing, on which the others rest.                    *)
THEOREM ShInvHolds == Spec => []ShInv
PROOF
<1>1. Init => ShInv
  BY ShamirAssumption DEF Init, ShInv, Pos
<1>2. ShInv /\ [Next]_vars => ShInv'
  <2> SUFFICES ASSUME ShInv, [Next]_vars PROVE ShInv'
    OBVIOUS
  <2>1. CASE Split
    <3>1. PICK q \in Params :
            /\ k' = q[1] /\ n' = q[2]
            /\ IF Refused(q[1], q[2])
                 THEN at' = "done" /\ res' = Failed("InvalidParams") /\ UNCHANGED coeffs
                 ELSE /\ coeffs' \in Draws(q[1], Coefficients)
                      /\ at' = "split" /\ UNCHANGED res
      BY <2>1 DEF Split
    <3>2. q[1] \in 0..255 /\ q[2] \in 0..255
      BY ShamirAssumption
    <3>3. /\ at = "start" /\ given = <<>> /\ given' = given /\ secret' = secret
          /\ genuine' = genuine
      BY <2>1 DEF Split, ShInv
    <3>5. CASE Refused(q[1], q[2])
      BY <3>1, <3>3, <3>5 DEF ShInv
    <3>6. CASE ~Refused(q[1], q[2])
      <4>1. Drawn'
        <5>1. k' = q[1] /\ k' \in 2..254
          <6>1. q[1] \in 2..254
            BY <3>2, <3>6 DEF Refused
          <6>2. k' = q[1]
            BY <3>1
          <6> QED BY <6>1, <6>2
        <5>2. coeffs' \in [Pos -> [1 .. q[1] - 1 -> Coefficients]]
          BY <3>1, <3>6 DEF Draws, Pos
        <5> QED BY <5>1, <5>2 DEF Drawn, Pos
      <4> QED BY <3>1, <3>3, <3>6, <4>1 DEF ShInv, Pos
    <3> QED BY <3>5, <3>6
  <2>2. ASSUME HandShare \/ HandDamaged
        PROVE  /\ at = "split" /\ at' = "split" /\ UNCHANGED <<secret, k, n, coeffs, res>>
               /\ Drawn /\ Drawn' /\ Len(given) \in Nat
               /\ \A p : Share(p)' = Share(p)
    <3>1. at = "split" /\ UNCHANGED <<at, secret, k, n, coeffs, res>>
      BY <2>2 DEF HandShare, HandDamaged, Hand
    <3>2. Drawn /\ Drawn'
      BY <3>1 DEF ShInv, Drawn
    <3> QED BY <3>1, <3>2 DEF Share, ShInv
  <2>3. CASE HandShare
    <3>1. PICK p \in Abscissae : given' = Append(given, Share(p))
      BY <2>3 DEF HandShare, Hand
    <3>2. Share(p) \in ShareRecord /\ genuine' = genuine
      BY <2>2, <2>3, ShareType DEF ShInv, HandShare
    <3>3. given' \in Seq(ShareRecord) /\ Len(given') = Len(given) + 1
          /\ \A i \in 1..Len(given) : given'[i] = given[i]
          /\ given'[Len(given) + 1] = Share(p)
      BY <3>1, <3>2 DEF ShInv
    <3>4. genuine' => \A i \in 1..Len(given') : \E p_ \in Abscissae : given'[i] = Share(p_)
      <4> SUFFICES ASSUME genuine, NEW i \in 1 .. Len(given) + 1
                   PROVE  \E p_ \in Abscissae : given'[i] = Share(p_)
        BY <3>2, <3>3
      <4>1. CASE i = Len(given) + 1
        BY <3>1, <3>3, <4>1
      <4>2. CASE i \in 1..Len(given)
        BY <3>3, <4>2 DEF ShInv
      <4> QED BY <2>2, <2>3, <4>1, <4>2
    <3> QED BY <2>2, <2>3, <3>2, <3>3, <3>4 DEF ShInv, Pos
  <2>4. CASE HandDamaged
    <3>1. PICK p \in Abscissae : \/ given' = Append(given, [Share(p) EXCEPT !.x = Zero])
                                 \/ SecretLen > 0 /\ given' = Append(given, [Share(p) EXCEPT !.y = Tail(@)])
      BY <2>4 DEF HandDamaged, Hand
    <3>2. genuine' = FALSE /\ genuine' \in BOOLEAN
      BY <2>4 DEF HandDamaged
    <3>3. Share(p) \in ShareRecord /\ secret' = secret
      BY <2>2, <2>4, ShareType DEF ShInv
    <3>4. [Share(p) EXCEPT !.x = Zero] \in ShareRecord
      BY <3>3, FieldLaws DEF ShareRecord
    <3>5. SecretLen > 0 => [Share(p) EXCEPT !.y = Tail(@)] \in ShareRecord
      <4> SUFFICES ASSUME SecretLen > 0 PROVE [Share(p) EXCEPT !.y = Tail(@)] \in ShareRecord
        OBVIOUS
      <4>0. Share(p).y \in Seq(Byte) /\ Len(Share(p).y) > 0
        BY <2>2, <2>4, <3>3, ShareType DEF ShareRecord, ShInv
      <4>1. Tail(Share(p).y) \in Seq(Byte)
        BY <4>0
      <4> QED BY <3>3, <4>1 DEF ShareRecord
    <3>6. given' \in Seq(ShareRecord)
      BY <3>1, <3>4, <3>5 DEF ShInv
    <3> QED BY <2>2, <2>4, <3>2, <3>3, <3>6 DEF ShInv, Pos
  <2>5. CASE Reconstruct
    <3>1. /\ at = "split" /\ at' = "done" /\ UNCHANGED <<secret, k, n, coeffs, given, genuine>>
          /\ res' = IF Refusal(given) = "no" THEN Ok(Interpolate(given))
                                             ELSE Failed(Refusal(given))
      BY <2>5 DEF Reconstruct
    <3>2. Drawn' /\ \A p : Share(p)' = Share(p)
      BY <3>1 DEF ShInv, Drawn, Share
    <3>3. Refusal(given)' = Refusal(given) /\ Interpolate(given)' = Interpolate(given)
      BY <3>1
    <3> QED BY <3>1, <3>2, <3>3 DEF ShInv, Pos
  <2>6. CASE UNCHANGED vars
    <3>1. UNCHANGED <<at, secret, k, n, coeffs, given, genuine, res>>
      BY <2>6 DEF vars
    <3>2. Drawn' = Drawn /\ Pos' = Pos /\ (\A p : Share(p)' = Share(p))
          /\ Refusal(given)' = Refusal(given) /\ Interpolate(given)' = Interpolate(given)
      BY <3>1 DEF Drawn, Share, Pos
    <3> QED BY <3>1, <3>2 DEF ShInv
  <2> QED BY <2>1, <2>3, <2>4, <2>5, <2>6 DEF Next
<1> QED BY <1>1, <1>2, PTL DEF Spec

(* What reconstruct() does not refuse, of shares of split(): those that are *)
(* there and different.                                                     *)
LEMMA RefusalIs ==
  ASSUME ShInv, Drawn, genuine
  PROVE  Refusal(given) = "no" <=> given # <<>> /\ Distinct
PROOF
<1>0. given \in Seq(ShareRecord) /\ DOMAIN given = 1..Len(given) /\ Len(given) \in Nat
  BY DEF ShInv
<1>1. \A i \in 1..Len(given) : given[i].x # Zero /\ Len(given[i].y) = SecretLen
  BY AbscissaeBytes, ShareType DEF ShInv
<1>2. {i \in DOMAIN given : \/ given[i].x = Zero
                            \/ Len(given[i].y) # Len(given[1].y)} = {}
  BY <1>0, <1>1
<1>3. CASE given = <<>>
  BY <1>2, <1>3 DEF Refusal
<1>4. CASE given # <<>> /\ \E i, j \in DOMAIN given : i # j /\ given[i].x = given[j].x
  BY <1>2, <1>4 DEF Refusal, Distinct
<1>5. CASE given # <<>> /\ ~\E i, j \in DOMAIN given : i # j /\ given[i].x = given[j].x
  BY <1>2, <1>5 DEF Refusal, Distinct
<1> QED BY <1>3, <1>4, <1>5

(* Shares whose bytes at pos are those of a polynomial of low degree.       *)
OnPoly(shares, pos, d, f) ==
  /\ Len(shares) \in Nat \ {0} /\ pos \in DOMAIN shares[1].y
  /\ d \in 0 .. Len(shares) - 1 /\ f \in Poly(d)
  /\ \A j \in 1..Len(shares) : shares[j].x \in Byte
  /\ \A j, l \in 1..Len(shares) : shares[j].x = shares[l].x => j = l
  /\ \A j \in 1..Len(shares) : shares[j].y[pos] = f[shares[j].x]

(* Then the interpolation gives the polynomial at 0.                        *)
LEMMA OnPolyRebuilds ==
  \A shares, pos, d, f : OnPoly(shares, pos, d, f) => Interpolate(shares)[pos] = f[Zero]
PROOF
<1> SUFFICES ASSUME NEW shares, NEW pos, NEW d, NEW f, OnPoly(shares, pos, d, f)
             PROVE  Interpolate(shares)[pos] = f[Zero]
  OBVIOUS
<1> QED BY Rebuilds DEF OnPoly

(* k shares of a secret or more, all different, make it again.              *)
LEMMA SharesRebuild ==
  ASSUME ShInv, Drawn, genuine, Distinct, given # <<>>, Len(given) >= k
  PROVE  Interpolate(given) = secret
PROOF
<1>0. given \in Seq(ShareRecord) /\ DOMAIN given = 1..Len(given) /\ Len(given) \in Nat \ {0}
  BY DEF ShInv
<1>1. secret \in [Pos -> SecretBytes]
  BY DEF ShInv
<1>2. \A i \in 1..Len(given) :
        /\ given[i].x \in Byte /\ DOMAIN given[i].y = Pos
        /\ \E p \in Abscissae :
             /\ given[i].x = ByteOf(p)
             /\ \A pos \in Pos : given[i].y[pos] = ShareByte(secret, coeffs, p, pos)
  BY <1>1, AbscissaeBytes, ShareType DEF ShInv
<1>3. ASSUME NEW pos \in Pos PROVE Interpolate(given)[pos] = secret[pos]
  <2>1. k - 1 \in Nat /\ coeffs[pos] \in [1 .. k - 1 -> Byte] /\ secret[pos] \in Byte
    BY <1>1, ShamirAssumption DEF Drawn
  <2>2. PICK f \in Poly(k - 1) :
          /\ f[Zero] = secret[pos]
          /\ \A v : Makes(coeffs[pos], secret[pos], v, f[v])
    BY <2>1, ShareByteOf
  <2>3. \A i \in 1..Len(given) : given[i].y[pos] = f[given[i].x]
    BY <1>2, <2>2 DEF Makes
  <2>4. \A j, l \in 1..Len(given) : given[j].x = given[l].x => j = l
    BY <1>0 DEF Distinct
  <2> DEFINE d == k - 1
  <2>5. d \in 0 .. Len(given) - 1 /\ f \in Poly(d) /\ pos \in DOMAIN given[1].y
    <3>1. k \in Nat /\ k >= 2
      BY DEF Drawn
    <3>2. 1 \in 1..Len(given)
      BY <1>0
    <3> QED BY <1>0, <1>2, <2>2, <3>1, <3>2
  <2>6. /\ Len(given) \in Nat \ {0}
        /\ \A j \in 1..Len(given) : given[j].x \in Byte
    BY <1>0, <1>2
  <2> HIDE DEF d
  <2>7. Interpolate(given)[pos] = f[Zero]
    <3>1. OnPoly(given, pos, d, f)
      BY <2>3, <2>4, <2>5, <2>6 DEF OnPoly
    <3> QED BY <3>1, OnPolyRebuilds
  <2> QED BY <2>2, <2>7
<1>4. Interpolate(given) = [pos \in Pos |-> Interpolate(given)[pos]]
  <2>1. DOMAIN given[1].y = Pos
    BY <1>0, <1>2
  <2> QED BY <2>1 DEF Interpolate
<1> QED BY <1>1, <1>3, <1>4

(* reconstruct() gives back what split() shared, from k of its shares or    *)
(* more, for every length, threshold and draw.                              *)
THEOREM QuorumRebuildsAlways == Spec => []QuorumRebuilds
PROOF
<1>1. ShInv => QuorumRebuilds
  <2> SUFFICES ASSUME ShInv, at = "done", genuine, Distinct, Len(given) >= k, given # <<>>
               PROVE  res = Ok(secret)
    BY DEF QuorumRebuilds
  <2>1. Drawn /\ res = IF Refusal(given) = "no" THEN Ok(Interpolate(given))
                                               ELSE Failed(Refusal(given))
    BY DEF ShInv
  <2>2. Refusal(given) = "no"
    BY <2>1, RefusalIs
  <2>3. Interpolate(given) = secret
    BY <2>1, SharesRebuild
  <2> QED BY <2>1, <2>2, <2>3
<1> QED BY <1>1, ShInvHolds, PTL

(* Of k shares of split() or more, reconstruct() makes the secret or an     *)
(* error: never another secret.                                             *)
THEOREM NoFalseSecretAlways == Spec => []NoFalseSecret
PROOF
<1>1. ShInv => NoFalseSecret
  <2> SUFFICES ASSUME ShInv, at = "done", genuine, Len(given) >= k, res.err = "no"
               PROVE  res.bytes = secret
    BY DEF NoFalseSecret
  <2>1. CASE given = <<>> /\ res = Failed("InvalidParams")
    BY <2>1 DEF Failed
  <2>2. CASE /\ Drawn
             /\ res = IF Refusal(given) = "no" THEN Ok(Interpolate(given))
                                               ELSE Failed(Refusal(given))
    <3>1. Refusal(given) = "no"
      BY <2>2 DEF Failed
    <3>2. given # <<>> /\ Distinct
      BY <2>2, <3>1, RefusalIs
    <3>3. Interpolate(given) = secret
      BY <2>2, <3>2, SharesRebuild
    <3> QED BY <2>2, <3>1, <3>3 DEF Ok
  <2> QED BY <2>1, <2>2 DEF ShInv
<1> QED BY <1>1, ShInvHolds, PTL

(* Any fewer than k shares fit every secret of the length of the one they   *)
(* were made of: what split() may draw holds coefficients that make them of *)
(* it.                                                                      *)
NothingFromAnyFewer ==
  at = "split" /\ genuine /\ Distinct /\ Len(given) < k
    => \A other \in [1..SecretLen -> Byte] :
         \E cs \in Draws(k, Byte) :
           \A i \in 1..Len(given) : \A p \in Abscissae : ByteOf(p) = given[i].x =>
             given[i].y = [pos \in 1..SecretLen |-> ShareByte(other, cs, p, pos)]

(* m points that are different and not 0, m <= d, a byte for each, and a    *)
(* secret byte.                                                             *)
Apart(d, m, z, e, b) ==
  /\ d \in Nat /\ m \in 0..d /\ Points(z, m) /\ e \in [1..m -> Byte] /\ b \in Byte
  /\ \A j \in 1..m : z[j] # Zero

(* Coefficients fit them.                                                   *)
LEMMA ApartFits ==
  \A d, m, z, e, b : Apart(d, m, z, e, b) =>
    \E c \in [1..d -> Byte] : \A j \in 1..m : Makes(c, b, z[j], e[j])
PROOF
<1> SUFFICES ASSUME NEW d, NEW m, NEW z, NEW e, NEW b, Apart(d, m, z, e, b)
             PROVE  \E c \in [1..d -> Byte] : \A j \in 1..m : Makes(c, b, z[j], e[j])
  OBVIOUS
<1>1. /\ d \in Nat /\ m \in 0..d /\ Points(z, m) /\ e \in [1..m -> Byte] /\ b \in Byte
      /\ \A j \in 1..m : z[j] # Zero
  BY DEF Apart
<1> QED BY <1>1, AnySecretFits

(* For each byte of another secret there are coefficients that make the     *)
(* byte of the shares handed in.                                            *)
LEMMA FewerFit ==
  ASSUME ShInv, at = "split", genuine, Distinct, Len(given) < k,
         NEW other \in [Pos -> Byte], NEW pos \in Pos
  PROVE  \E c \in [1 .. k - 1 -> Byte] :
           \A i \in 1..Len(given) : Makes(c, other[pos], given[i].x, given[i].y[pos])
PROOF
<1> DEFINE m == Len(given)
           d == k - 1
           z == [i \in 1..m |-> given[i].x]
           e == [i \in 1..m |-> given[i].y[pos]]
<1>0. /\ Drawn /\ given \in Seq(ShareRecord) /\ DOMAIN given = 1..m /\ m \in Nat
      /\ d \in Nat /\ m \in 0..d
  <2>1. Drawn /\ given \in Seq(ShareRecord)
    BY DEF ShInv
  <2>2. k \in 2..254
    BY <2>1 DEF Drawn
  <2> QED BY <2>1, <2>2
<1>1. secret \in [Pos -> SecretBytes]
  BY DEF ShInv
<1>2. \A i \in 1..m : /\ given[i].x \in Byte /\ given[i].x # Zero
                      /\ given[i].y \in Seq(Byte) /\ DOMAIN given[i].y = Pos
  BY <1>0, <1>1, AbscissaeBytes, ShareType DEF ShInv, ShareRecord
<1>3. \A i \in 1..m : given[i].y[pos] \in Byte
  BY <1>2
<1>4. Points(z, m) /\ e \in [1..m -> Byte] /\ \A j \in 1..m : z[j] # Zero
  BY <1>0, <1>2, <1>3 DEF Points, Distinct
<1>5. \A i \in 1..m : z[i] = given[i].x /\ e[i] = given[i].y[pos]
  OBVIOUS
<1>6. other[pos] \in Byte
  OBVIOUS
<1> DEFINE b == other[pos]
<1>9. m = Len(given) /\ b = other[pos]
  OBVIOUS
<1> HIDE DEF m, d, z, e, b
<1>10. d \in Nat /\ m \in 0..d /\ Points(z, m) /\ e \in [1..m -> Byte] /\ b \in Byte
       /\ \A j \in 1..m : z[j] # Zero
  BY <1>0, <1>4, <1>6 DEF b
<1>7. PICK c \in [1..d -> Byte] : \A j \in 1..m : Makes(c, b, z[j], e[j])
  <2>1. Apart(d, m, z, e, b)
    BY <1>10 DEF Apart
  <2> QED BY <2>1, ApartFits
<1>8. \A i \in 1..m : Makes(c, other[pos], given[i].x, given[i].y[pos])
  BY <1>5, <1>7, <1>9
<1> QED BY <1>7, <1>8 DEF m, d

(* Fewer than k shares, however many, rule out no secret of their length.   *)
THEOREM NothingFromAnyFewerAlways == Spec => []NothingFromAnyFewer
PROOF
<1>1. ShInv => NothingFromAnyFewer
  <2> SUFFICES ASSUME ShInv, at = "split", genuine, Distinct, Len(given) < k,
                      NEW other \in [Pos -> Byte]
               PROVE  \E cs \in [Pos -> [1 .. k - 1 -> Byte]] :
                        \A i \in 1..Len(given) : \A p \in Abscissae : ByteOf(p) = given[i].x =>
                          given[i].y = [pos \in Pos |-> ShareByte(other, cs, p, pos)]
    BY DEF NothingFromAnyFewer, Draws, Pos
  <2> DEFINE FitsAt(pos, c) ==
        \A i \in 1..Len(given) : Makes(c, other[pos], given[i].x, given[i].y[pos])
             cs_ == [pos \in Pos |-> CHOOSE c \in [1 .. k - 1 -> Byte] : FitsAt(pos, c)]
  <2>1. \A pos \in Pos : \E c \in [1 .. k - 1 -> Byte] : FitsAt(pos, c)
    BY FewerFit
  <2> HIDE DEF FitsAt
  <2>2. cs_ \in [Pos -> [1 .. k - 1 -> Byte]] /\ \A pos \in Pos : FitsAt(pos, cs_[pos])
    BY <2>1
  <2> HIDE DEF cs_
  <2>3. ASSUME NEW i \in 1..Len(given), NEW p \in Abscissae, ByteOf(p) = given[i].x
        PROVE  given[i].y = [pos \in Pos |-> ShareByte(other, cs_, p, pos)]
    <3>1. \A pos \in Pos : ShareByte(other, cs_, p, pos) = given[i].y[pos]
      BY <2>2, <2>3 DEF FitsAt, Makes
    <3>2. secret \in [Pos -> SecretBytes] /\ Drawn
      BY DEF ShInv
    <3>3. PICK q \in Abscissae : given[i] = Share(q)
      BY DEF ShInv
    <3>4. given[i].y = [pos \in Pos |-> given[i].y[pos]]
      BY <3>2, <3>3 DEF Share
    <3> QED BY <3>1, <3>4
  <2> QED BY <2>2, <2>3
<1> QED BY <1>1, ShInvHolds, PTL

(* One share of a secret split with k = 2 rules out no secret, with the     *)
(* coefficients the property names.                                         *)
THEOREM NothingFromFewerAlways == Spec => []NothingFromFewer
PROOF
<1>1. ShInv => NothingFromFewer
  <2> SUFFICES ASSUME ShInv, at = "split", k = 2, genuine, Len(given) = 1
               PROVE  NothingFromFewer
    BY DEF NothingFromFewer
  <2>0. /\ Drawn /\ secret \in [Pos -> SecretBytes] /\ DOMAIN secret = Pos
        /\ given \in Seq(ShareRecord) /\ DOMAIN given = 1..1
    BY DEF ShInv
  <2>1. Distinct
    BY <2>0 DEF Distinct
  <2> DEFINE p == CHOOSE q \in Abscissae : ByteOf(q) = given[1].x
  <2>2. ByteOf(p) = given[1].x
    <3>1. \E q \in Abscissae : given[1] = Share(q)
      BY DEF ShInv
    <3> QED BY <3>1 DEF Share
  <2> HIDE DEF p
  <2> DEFINE Same(c) == [q \in 1..SecretLen |-> <<c>>]
  <2>3. ASSUME NEW other \in [1..SecretLen -> SecretBytes]
        PROVE  LET a(pos) == CHOOSE c \in Byte : ShareByte(other, Same(c), p, pos) = given[1].y[pos]
                   cs     == [pos \in 1..SecretLen |-> <<a(pos)>>] IN
               /\ cs \in Draws(2, Byte)
               /\ \A pos \in 1..SecretLen : ShareByte(other, cs, p, pos) = given[1].y[pos]
    <3> DEFINE a(pos) == CHOOSE c \in Byte : ShareByte(other, Same(c), p, pos) = given[1].y[pos]
               cs     == [pos \in 1..SecretLen |-> <<a(pos)>>]
    <3>1. other \in [Pos -> Byte]
      BY ShamirAssumption DEF Pos
    <3>9. ASSUME \A pos \in Pos : a(pos) \in Byte PROVE cs \in Draws(2, Byte)
      <4> HIDE DEF a
      <4>1. \A v \in Byte : <<v>> \in [1..1 -> Byte]
        OBVIOUS
      <4>2. cs \in [1..SecretLen -> [1..1 -> Byte]]
        BY <3>9, <4>1 DEF Pos
      <4> QED BY <4>2 DEF Draws
    <3> SUFFICES ASSUME NEW pos \in Pos
                 PROVE  a(pos) \in Byte /\ ShareByte(other, cs, p, pos) = given[1].y[pos]
      <4>1. \A pos \in Pos :
              a(pos) \in Byte /\ ShareByte(other, cs, p, pos) = given[1].y[pos]
        OBVIOUS
      <4>2. cs \in Draws(2, Byte)
        BY <3>9, <4>1
      <4> QED BY <4>1, <4>2 DEF Pos
    <3>2. \E c \in Byte : ShareByte(other, Same(c), p, pos) = given[1].y[pos]
      <4>1. PICK c \in [1 .. k - 1 -> Byte] :
              \A i \in 1..Len(given) : Makes(c, other[pos], given[i].x, given[i].y[pos])
        <5>1. Len(given) < k
          OBVIOUS
        <5> QED BY <2>1, <3>1, <5>1, FewerFit, Zenon
      <4>2. c[1] \in Byte /\ c = <<c[1]>>
        BY <4>1
      <4>3. Same(c[1])[pos] = c /\ 1 \in 1..Len(given)
        BY <2>0, <4>2 DEF Pos
      <4> HIDE DEF Same
      <4>4. Makes(c, other[pos], given[1].x, given[1].y[pos])
        BY <4>1, <4>3
      <4>5. ShareByte(other, Same(c[1]), p, pos) = given[1].y[pos]
        BY <2>2, <4>3, <4>4 DEF Makes
      <4> QED BY <4>2, <4>5
    <3>3. a(pos) \in Byte /\ ShareByte(other, Same(a(pos)), p, pos) = given[1].y[pos]
      <4> HIDE DEF Same
      <4> QED BY <3>2
    <3>4. ShareByte(other, cs, p, pos) = ShareByte(other, Same(a(pos)), p, pos)
      <4> DEFINE c == <<a(pos)>>
                 b == other[pos]
      <4>1. \A v \in Byte : <<v>> \in [1..1 -> Byte]
        OBVIOUS
      <4>2. c \in [1..1 -> Byte] /\ b \in Byte /\ 1 \in Nat /\ other[pos] = b
        <5> HIDE DEF a
        <5> QED BY <3>1, <3>3, <4>1
      <4>3. cs[pos] = c /\ Same(a(pos))[pos] = c
        BY DEF Pos
      <4> HIDE DEF b, c, cs, Same, a
      <4>4. PICK f : \A v : Makes(c, b, v, f[v])
        BY <4>2, ShareByteOf
      <4>5. Makes(c, b, ByteOf(p), f[ByteOf(p)])
        BY <4>4
      <4> QED BY <4>2, <4>3, <4>5 DEF Makes
    <3> QED BY <3>3, <3>4
  <2> QED BY <2>3 DEF NothingFromFewer, p
<1> QED BY <1>1, ShInvHolds, PTL
-----------------------------------------------------------------------------
(* ByteOf gives different bytes to different numbers, and only 0 is Zero.   *)
LEMMA BytesApart ==
  /\ \A i \in 1..255 : ByteOf(i) \in Byte /\ ByteOf(i) # Zero
  /\ \A i, j \in 1..255 : ByteOf(i) = ByteOf(j) => i = j
PROOF
<1> DEFINE bit(i, b) == (i \div <<1, 2, 4, 8, 16, 32, 64, 128>>[b + 1]) % 2
           N(i) == bit(i, 0) + 2 * bit(i, 1) + 4 * bit(i, 2) + 8 * bit(i, 3)
                     + 16 * bit(i, 4) + 32 * bit(i, 5) + 64 * bit(i, 6) + 128 * bit(i, 7)
<1>1. \A i : \A b \in 0..7 : b \in ByteOf(i) <=> bit(i, b) = 1
  BY DEF ByteOf
<1>2. ASSUME NEW i \in 1..255 PROVE N(i) = i
  OBVIOUS
<1>3. \A i \in 1..255 : \A b \in 0..7 : bit(i, b) = 0 \/ bit(i, b) = 1
  OBVIOUS
<1> HIDE DEF bit
<1>4. ASSUME NEW i \in 1..255, NEW j \in 1..255, ByteOf(i) = ByteOf(j)
      PROVE  i = j
  <2>1. \A b \in 0..7 : bit(i, b) = bit(j, b)
    <3> SUFFICES ASSUME NEW b \in 0..7 PROVE bit(i, b) = bit(j, b)
      OBVIOUS
    <3>1. bit(i, b) = 1 <=> bit(j, b) = 1
      BY <1>1, <1>4
    <3>2. (bit(i, b) = 0 \/ bit(i, b) = 1) /\ (bit(j, b) = 0 \/ bit(j, b) = 1)
      BY <1>3
    <3> QED BY <3>1, <3>2
  <2>2. N(i) = N(j)
    BY <2>1
  <2> QED BY <1>2, <2>2
<1>5. ASSUME NEW i \in 1..255 PROVE ByteOf(i) # Zero
  <2> SUFFICES ASSUME ByteOf(i) = Zero PROVE FALSE
    OBVIOUS
  <2>1. \A b \in 0..7 : bit(i, b) = 0
    <3> SUFFICES ASSUME NEW b \in 0..7 PROVE bit(i, b) = 0
      OBVIOUS
    <3>1. bit(i, b) # 1
      BY <1>1 DEF Zero
    <3> QED BY <1>3, <3>1
  <2>2. N(i) = 0
    BY <2>1
  <2> QED BY <1>2, <2>2
<1>6. \A i : ByteOf(i) \in Byte
  BY DEF ByteOf, Byte
<1> QED BY <1>4, <1>5, <1>6

(* Horner's scheme gives the same values with two lists of coefficients.    *)
Alike(d, c, c_, b) ==
  \E h, h_ : /\ IsHorner(h, c, b) /\ IsHorner(h_, c_, b)
             /\ \A v \in Byte : h[d + 1][v] = h_[d + 1][v]

(* When Horner's scheme gives the same values with two lists of             *)
(* coefficients, they are one: the last value at 0 is the last coefficient, *)
(* and the rest, which is as many times x, is the same but at 0, so the     *)
(* same.                                                                    *)
LEMMA OneHorner ==
  ASSUME NEW d \in 0..254, NEW c \in [1..d -> Byte], NEW c_ \in [1..d -> Byte],
         NEW b \in Byte, Alike(d, c, c_, b)
  PROVE  c = c_
PROOF
<1>21. PICK h, h_ : /\ IsHorner(h, c, b) /\ IsHorner(h_, c_, b)
                   /\ \A v \in Byte : h[d + 1][v] = h_[d + 1][v]
  BY DEF Alike
<1> DEFINE E(i) == IF i = d + 1 THEN b ELSE c[d + 1 - i]
           F(i) == IF i = d + 1 THEN b ELSE c_[d + 1 - i]
           Same(i) == /\ \A v \in Byte : h[i + 1][v] = h_[i + 1][v]
           T == {i \in 0..d : Same(d - i) /\ \A j \in 0 .. i - 1 : E(d + 1 - j) = F(d + 1 - j)}
<1>0. Len(c) = d /\ Len(c_) = d /\ d \in Nat
  BY CoefficientsLen
<1>1. \A i \in 1 .. d + 1 : E(i) \in Byte /\ F(i) \in Byte
  OBVIOUS
<1>2. \A i \in 1 .. d + 1 : \A v \in Byte :
        /\ h[i][v] = Xor(GfMul(h[i - 1][v], v), E(i))
        /\ h_[i][v] = Xor(GfMul(h_[i - 1][v], v), F(i))
  BY <1>0, <1>21 DEF IsHorner
<1>3. \A i \in 0 .. d + 1 : \A v \in Byte : h[i][v] \in Byte /\ h_[i][v] \in Byte
  BY <1>0, <1>21 DEF IsHorner, Fns
<1>4. \A i \in 0..d : h[i + 1] \in Poly(i) /\ h_[i + 1] \in Poly(i)
  BY <1>0, <1>21, HornerIsPoly
<1> HIDE DEF E, F
(* One step down. *)
<1>5. ASSUME NEW i \in 1..d, Same(i) PROVE Same(i - 1) /\ E(i + 1) = F(i + 1)
  <2>1. i + 1 \in 1 .. d + 1 /\ (i + 1) - 1 = i /\ i \in 0 .. d + 1 /\ i - 1 \in 0..d
        /\ (i - 1) + 1 = i /\ i - 1 \in 0..253
    OBVIOUS
  <2>2. E(i + 1) \in Byte /\ F(i + 1) \in Byte
    BY <1>1, <2>1
  <2>3. \A v \in Byte : /\ h[i + 1][v] = Xor(GfMul(h[i][v], v), E(i + 1))
                        /\ h_[i + 1][v] = Xor(GfMul(h_[i][v], v), F(i + 1))
                        /\ h[i][v] \in Byte /\ h_[i][v] \in Byte
                        /\ h[i + 1][v] = h_[i + 1][v]
    BY <1>2, <1>3, <1>5, <2>1
  <2>4. E(i + 1) = F(i + 1)
    <3>1. Zero \in Byte /\ h[i][Zero] \in Byte /\ h_[i][Zero] \in Byte
      BY <2>3, FieldLaws
    <3>2. GfMul(h[i][Zero], Zero) = Zero /\ GfMul(h_[i][Zero], Zero) = Zero
      BY <3>1, FieldLaws
    <3>3. Xor(Zero, E(i + 1)) = Xor(Zero, F(i + 1))
      BY <2>3, <3>1, <3>2
    <3>4. Xor(Zero, E(i + 1)) = E(i + 1) /\ Xor(Zero, F(i + 1)) = F(i + 1)
      BY <2>2, XorLaws
    <3> QED BY <3>3, <3>4
  <2>5. ASSUME NEW v \in Byte, v # Zero PROVE h[i][v] = h_[i][v]
    <3> DEFINE p == h[i][v]
               q == h_[i][v]
               e == E(i + 1)
    <3>1. p \in Byte /\ q \in Byte /\ e \in Byte
          /\ Xor(GfMul(p, v), e) = Xor(GfMul(q, v), e)
      BY <2>2, <2>3, <2>4
    <3> HIDE DEF p, q, e
    <3>2. GfMul(p, v) \in Byte /\ GfMul(q, v) \in Byte
      BY <3>1, MulType
    <3>3. \A s, t \in Byte : Xor(s, e) = Xor(t, e) => s = t
      BY DEF Xor
    <3>4. GfMul(p, v) = GfMul(q, v)
      BY <3>1, <3>2, <3>3
    <3>5. GfMul(Xor(p, q), v) = Xor(GfMul(p, v), GfMul(q, v)) /\ Xor(p, q) \in Byte
      <4>1. Xor(p, q) \in Byte
        BY <3>1, XorLaws
      <4> QED BY <3>1, <4>1, MulAdditive
    <3>6. GfMul(Xor(p, q), v) = Zero
      BY <3>4, <3>5, XorLaws
    <3>7. Xor(p, q) = Zero
      BY <2>5, <3>5, <3>6, NoDivisors
    <3>8. p = q
      BY <3>7, XorLaws
    <3> QED BY <3>8 DEF p, q
  <2>6. Same(i - 1)
    <3> DEFINE m == i - 1
               z == [j \in 1 .. m + 1 |-> ByteOf(j)]
    <3>1. m \in 0..253 /\ m \in Nat /\ m + 1 = i
      BY <2>1
    <3>2. h[i] \in Poly(m) /\ h_[i] \in Poly(m)
      BY <1>4, <2>1
    <3> HIDE DEF m
    <3>3. \A j \in 1 .. m + 1 : j \in 1..255
      BY <3>1
    <3>4. Points(z, m + 1) /\ \A j \in 1 .. m + 1 : z[j] \in Byte /\ z[j] # Zero
      <4>0. \A j \in 1 .. m + 1 : z[j] = ByteOf(j)
        OBVIOUS
      <4>1. \A j \in 1 .. m + 1 : z[j] = ByteOf(j) /\ z[j] \in Byte /\ z[j] # Zero
        <5>1. \A u \in 1..255 : ByteOf(u) \in Byte /\ ByteOf(u) # Zero
          BY BytesApart
        <5> HIDE DEF z
        <5> QED BY <3>3, <4>0, <5>1
      <4>2. z \in [1 .. m + 1 -> Byte]
        BY <4>1
      <4>3. \A j, l \in 1 .. m + 1 : z[j] = z[l] => j = l
        BY <3>3, <4>1, BytesApart
      <4> QED BY <4>1, <4>2, <4>3 DEF Points
    <3> HIDE DEF z
    <3>5. \A j \in 1 .. m + 1 : h[i][z[j]] = h_[i][z[j]]
      BY <2>5, <3>4
    <3>6. \A v \in Byte : h[i][v] = h_[i][v]
      BY <3>1, <3>2, <3>4, <3>5, PolysAgree
    <3> QED BY <2>1, <3>6
  <2> QED BY <2>4, <2>6
<1>6. 0 \in T
  <2>1. d - 0 = d /\ 0 \in 0..d /\ 0 .. 0 - 1 = {}
    BY <1>0
  <2> QED BY <1>21, <2>1
<1>7. \A i \in 0 .. d - 1 : i \in T => i + 1 \in T
  <2> SUFFICES ASSUME NEW i \in 0 .. d - 1, i \in T PROVE i + 1 \in T
    OBVIOUS
  <2>1. d - i \in 1..d /\ (d - i) - 1 = d - (i + 1) /\ (d - i) + 1 = d + 1 - i
        /\ i + 1 \in 0..d /\ \A j \in 0 .. (i + 1) - 1 : j \in 0 .. i - 1 \/ j = i
    <3> HIDE DEF T
    <3> QED BY <1>0
  <2>2. Same(d - i)
    OBVIOUS
  <2>4. \A j \in 0 .. i - 1 : E(d + 1 - j) = F(d + 1 - j)
    OBVIOUS
  <2> HIDE DEF Same
  <2>3. Same(d - (i + 1)) /\ E(d + 1 - i) = F(d + 1 - i)
    BY <1>5, <2>1, <2>2
  <2> QED BY <2>1, <2>3, <2>4
<1>8. 0..d \subseteq T
  <2> HIDE DEF T
  <2> QED BY <1>0, <1>6, <1>7, NatSetInduction
<1>9. Same(0) /\ \A j \in 0 .. d - 1 : E(d + 1 - j) = F(d + 1 - j)
  <2>1. d \in 0..d /\ d - d = 0
    BY <1>0
  <2>2. d \in T
    BY <1>8, <2>1
  <2> HIDE DEF Same
  <2> QED BY <2>1, <2>2
<1>10. E(1) = F(1)
  <2>1. Zero \in Byte /\ 1 \in 1 .. d + 1 /\ 1 - 1 = 0 /\ 0 + 1 = 1
    BY <1>0, FieldLaws
  <2>2. E(1) \in Byte /\ F(1) \in Byte /\ h[0][Zero] = Zero /\ h_[0][Zero] = Zero
    BY <1>1, <1>21, <2>1 DEF IsHorner
  <2>3. Xor(GfMul(Zero, Zero), E(1)) = Xor(GfMul(Zero, Zero), F(1))
    BY <1>2, <1>9, <2>1, <2>2
  <2>4. GfMul(Zero, Zero) = Zero /\ Xor(Zero, E(1)) = E(1) /\ Xor(Zero, F(1)) = F(1)
    BY <2>2, MulUnits, XorLaws
  <2> QED BY <2>3, <2>4
<1>11. ASSUME NEW j \in 1..d PROVE c[j] = c_[j]
  <2>1. c[j] = E(d + 1 - j) /\ c_[j] = F(d + 1 - j)
    BY DEF E, F
  <2>2. CASE j = d
    <3>1. d + 1 - j = 1
      BY <1>0, <2>2
    <3> QED BY <1>10, <2>1, <3>1
  <2>3. CASE j # d
    <3>1. j \in 0 .. d - 1
      BY <1>0, <2>3
    <3> QED BY <1>9, <2>1, <3>1
  <2> QED BY <2>2, <2>3
<1> QED BY <1>11

(* Two draws that give a byte the same shares at d points, with the secret  *)
(* byte the same, are one: the secret byte is the (d + 1)th value.          *)
TwoDraws(d, c, c_, b, z, e) ==
  /\ d \in 0..254 /\ c \in [1..d -> Byte] /\ c_ \in [1..d -> Byte] /\ b \in Byte
  /\ Points(z, d)
  /\ \A j \in 1..d : /\ z[j] # Zero /\ Makes(c, b, z[j], e[j]) /\ Makes(c_, b, z[j], e[j])
                     /\ \E p : ByteOf(p) = z[j]

(* Then they are one.                                                       *)
LEMMA OneDraw ==
  \A d, c, c_, b, z, e : TwoDraws(d, c, c_, b, z, e) => c = c_
PROOF
<1> SUFFICES ASSUME NEW d, NEW c, NEW c_, NEW b, NEW z, NEW e, TwoDraws(d, c, c_, b, z, e)
             PROVE  c = c_
  OBVIOUS
<1>21. d \in 0..254 /\ c \in [1..d -> Byte] /\ c_ \in [1..d -> Byte] /\ b \in Byte
  BY DEF TwoDraws
<1>22. Points(z, d) /\ \A j \in 1..d : z[j] # Zero
  BY DEF TwoDraws
<1>0. d \in Nat /\ Len(c) = d /\ Len(c_) = d
  BY <1>21, CoefficientsLen
<1>1. PICK h : IsHorner(h, c, b)
  BY <1>0, <1>21, HornerExists
<1>2. PICK h_ : IsHorner(h_, c_, b)
  BY <1>0, <1>21, HornerExists
<1> DEFINE f == h[d + 1]
           f_ == h_[d + 1]
<1>3. f \in Poly(d) /\ f_ \in Poly(d) /\ f[Zero] = b /\ f_[Zero] = b
  BY <1>0, <1>1, <1>2, <1>21, HornerIsPoly
<1>4. ASSUME NEW j \in 1..d PROVE f[z[j]] = f_[z[j]]
  <2>0. Makes(c, b, z[j], e[j]) /\ Makes(c_, b, z[j], e[j])
    BY DEF TwoDraws
  <2>1. PICK p : ByteOf(p) = z[j]
    BY DEF TwoDraws
  <2> DEFINE s == <<b>>
             cs == <<c>>
             cs_ == <<c_>>
  <2>2. s[1] = b /\ cs[1] = c /\ cs_[1] = c_
    OBVIOUS
  <2> HIDE DEF s, cs, cs_
  <2>3. ShareByte(s, cs, p, 1) = e[j] /\ ShareByte(s, cs_, p, 1) = e[j]
    BY <2>0, <2>1, <2>2 DEF Makes
  <2>4. ShareByte(s, cs, p, 1) = h[d + 1][ByteOf(p)]
    BY <1>0, <1>1, <1>21, <2>2, ShareByteIs
  <2>5. ShareByte(s, cs_, p, 1) = h_[d + 1][ByteOf(p)]
    BY <1>0, <1>2, <1>21, <2>2, ShareByteIs
  <2> QED BY <2>1, <2>3, <2>4, <2>5
<1> DEFINE z_ == [j \in 1 .. d + 1 |-> IF j = d + 1 THEN Zero ELSE z[j]]
<1>5. Points(z_, d + 1)
  <2>1. z_ \in [1 .. d + 1 -> Byte]
    BY <1>0, <1>22, FieldLaws DEF Points
  <2>2. \A j, l \in 1 .. d + 1 : z_[j] = z_[l] => j = l
    BY <1>0, <1>22 DEF Points
  <2> QED BY <2>1, <2>2 DEF Points
<1>6. \A j \in 1 .. d + 1 : z_[j] = Zero \/ (j \in 1..d /\ z_[j] = z[j])
  BY <1>0
<1> HIDE DEF f, f_, z_
<1>7. \A j \in 1 .. d + 1 : f[z_[j]] = f_[z_[j]]
  BY <1>3, <1>4, <1>6
<1>8. \A v \in Byte : f[v] = f_[v]
  BY <1>0, <1>3, <1>5, <1>7, PolysAgree
<1>9. \A v \in Byte : h[d + 1][v] = h_[d + 1][v]
  BY <1>8 DEF f, f_
<1> HIDE DEF f, f_
<1>10. Alike(d, c, c_, b)
  BY <1>1, <1>2, <1>9 DEF Alike
<1> QED BY <1>10, <1>21, OneHorner

(* Byte for byte, one draw.                                                 *)
LEMMA ByteDraw ==
  ASSUME ShInv, at = "split", genuine, Distinct, Len(given) = k - 1,
         NEW c \in [1 .. k - 1 -> Byte], NEW c_ \in [1 .. k - 1 -> Byte], NEW b \in Byte,
         NEW pos \in Pos,
         \A i \in 1..Len(given) : /\ Makes(c, b, given[i].x, given[i].y[pos])
                                  /\ Makes(c_, b, given[i].x, given[i].y[pos])
  PROVE  c = c_
PROOF
<1> DEFINE d == k - 1
           z == [i \in 1..d |-> given[i].x]
           e == [i \in 1..d |-> given[i].y[pos]]
<1>0. Drawn /\ DOMAIN given = 1..d /\ d \in 0..254 /\ Len(given) = d
  <2>1. Drawn /\ given \in Seq(ShareRecord)
    BY DEF ShInv
  <2>2. k \in 2..254
    BY <2>1 DEF Drawn
  <2> QED BY <2>1, <2>2
<1>1. secret \in [Pos -> SecretBytes]
  BY DEF ShInv
<1>2. \A i \in 1..d : /\ given[i].x \in Byte /\ given[i].x # Zero
                      /\ \E p : ByteOf(p) = given[i].x
  BY <1>0, <1>1, AbscissaeBytes, ShareType DEF ShInv
<1>3. \A i \in 1..d : z[i] = given[i].x /\ e[i] = given[i].y[pos]
  OBVIOUS
<1>4. z \in [1..d -> Byte]
  BY <1>2
<1>5. \A i, j \in 1..d : given[i].x = given[j].x => i = j
  BY <1>0 DEF Distinct
<1> HIDE DEF z, e, d
<1>6. Points(z, d)
  BY <1>3, <1>4, <1>5 DEF Points
<1>7. \A j \in 1..d : /\ z[j] # Zero /\ Makes(c, b, z[j], e[j]) /\ Makes(c_, b, z[j], e[j])
                      /\ \E p : ByteOf(p) = z[j]
  BY <1>0, <1>2, <1>3
<1>8. c \in [1..d -> Byte] /\ c_ \in [1..d -> Byte]
  BY DEF d
<1>9. TwoDraws(d, c, c_, b, z, e)
  BY <1>0, <1>6, <1>7, <1>8 DEF TwoDraws
<1> QED BY <1>9, OneDraw

(* The coefficients cs make, of another secret, the shares handed in.       *)
Fits(other, cs) ==
  \A i \in 1..Len(given) : \A p \in Abscissae : ByteOf(p) = given[i].x =>
    given[i].y = [pos \in 1..SecretLen |-> ShareByte(other, cs, p, pos)]

(* k - 1 shares tell nothing of the secret: of the equally likely draws of  *)
(* the coefficients, exactly one makes them of any given secret.            *)
OneDrawForAnySecret ==
  at = "split" /\ genuine /\ Distinct /\ Len(given) = k - 1
    => \A other \in [1..SecretLen -> Byte] :
         /\ \E cs \in Draws(k, Byte) : Fits(other, cs)
         /\ \A cs, cs_ \in Draws(k, Byte) :
              Fits(other, cs) /\ Fits(other, cs_) => cs = cs_

(* k - 1 shares tell nothing of the secret: each secret is as likely as any *)
(* other.                                                                   *)
THEOREM OneDrawForAnySecretAlways == Spec => []OneDrawForAnySecret
PROOF
<1>1. ShInv /\ NothingFromAnyFewer => OneDrawForAnySecret
  <2> SUFFICES ASSUME ShInv, NothingFromAnyFewer, at = "split", genuine, Distinct,
                      Len(given) = k - 1, NEW other \in [1..SecretLen -> Byte]
               PROVE  /\ \E cs \in Draws(k, Byte) : Fits(other, cs)
                      /\ \A cs, cs_ \in Draws(k, Byte) :
                           Fits(other, cs) /\ Fits(other, cs_) => cs = cs_
    BY DEF OneDrawForAnySecret
  <2>0. Drawn /\ k \in 2..254 /\ Len(given) < k /\ DOMAIN given = 1..Len(given)
    <3>1. Drawn /\ given \in Seq(ShareRecord)
      BY DEF ShInv
    <3>2. k \in 2..254
      BY <3>1 DEF Drawn
    <3> QED BY <3>1, <3>2
  <2>1. \E cs \in Draws(k, Byte) : Fits(other, cs)
    BY <2>0 DEF NothingFromAnyFewer, Fits
  <2>2. ASSUME NEW cs \in Draws(k, Byte), NEW cs_ \in Draws(k, Byte),
               Fits(other, cs), Fits(other, cs_)
        PROVE  cs = cs_
    <3> DEFINE T == [1 .. k - 1 -> Byte]
    <3>0. cs \in [Pos -> T] /\ cs_ \in [Pos -> T]
      BY DEF Draws, Pos
    <3> HIDE DEF T
    <3>4. ASSUME NEW pos \in Pos PROVE cs[pos] = cs_[pos]
      <4> DEFINE d == k - 1
                 b == other[pos]
      <4>1. /\ cs[pos] \in [1..d -> Byte] /\ cs_[pos] \in [1..d -> Byte] /\ b \in Byte
            /\ d \in Nat
        BY <2>0, <3>0 DEF Pos, T
      <4>2. ASSUME NEW i \in 1..Len(given)
            PROVE  \E p : /\ ByteOf(p) = given[i].x
                          /\ ShareByte(other, cs, p, pos) = given[i].y[pos]
                          /\ ShareByte(other, cs_, p, pos) = given[i].y[pos]
        <5>1. PICK p \in Abscissae : given[i] = Share(p)
          BY DEF ShInv
        <5>2. ByteOf(p) = given[i].x
          BY <5>1 DEF Share
        <5>3. /\ given[i].y = [q \in 1..SecretLen |-> ShareByte(other, cs, p, q)]
              /\ given[i].y = [q \in 1..SecretLen |-> ShareByte(other, cs_, p, q)]
          BY <2>2, <5>2 DEF Fits
        <5>4. /\ given[i].y[pos] = ShareByte(other, cs, p, pos)
              /\ given[i].y[pos] = ShareByte(other, cs_, p, pos)
          BY <5>3 DEF Pos
        <5> QED BY <5>2, <5>4
      <4>3. \A i \in 1..Len(given) : /\ Makes(cs[pos], b, given[i].x, given[i].y[pos])
                                     /\ Makes(cs_[pos], b, given[i].x, given[i].y[pos])
        <5> SUFFICES ASSUME NEW i \in 1..Len(given)
                     PROVE  /\ Makes(cs[pos], b, given[i].x, given[i].y[pos])
                            /\ Makes(cs_[pos], b, given[i].x, given[i].y[pos])
          OBVIOUS
        <5>1. PICK p : /\ ByteOf(p) = given[i].x
                       /\ ShareByte(other, cs, p, pos) = given[i].y[pos]
                       /\ ShareByte(other, cs_, p, pos) = given[i].y[pos]
          BY <4>2
        <5> HIDE DEF d, b
        <5>2. PICK f : \A v : Makes(cs[pos], b, v, f[v])
          BY <4>1, ShareByteOf
        <5>3. PICK f_ : \A v : Makes(cs_[pos], b, v, f_[v])
          BY <4>1, ShareByteOf
        <5>4. other[pos] = b
          BY DEF b
        <5>5. f[ByteOf(p)] = given[i].y[pos] /\ f_[ByteOf(p)] = given[i].y[pos]
          <6>1. Makes(cs[pos], b, ByteOf(p), f[ByteOf(p)])
            BY <5>2
          <6>2. Makes(cs_[pos], b, ByteOf(p), f_[ByteOf(p)])
            BY <5>3
          <6>3. f[ByteOf(p)] = ShareByte(other, cs, p, pos)
            BY <5>4, <6>1 DEF Makes
          <6>4. f_[ByteOf(p)] = ShareByte(other, cs_, p, pos)
            BY <5>4, <6>2 DEF Makes
          <6> QED BY <5>1, <6>3, <6>4
        <5> QED BY <5>1, <5>2, <5>3, <5>5
      <4> HIDE DEF b
      <4> QED BY <4>1, <4>3, ByteDraw
    <3>5. cs = [pos \in Pos |-> cs[pos]] /\ cs_ = [pos \in Pos |-> cs_[pos]]
      BY <3>0
    <3>6. [pos \in Pos |-> cs[pos]] = [pos \in Pos |-> cs_[pos]]
      BY <3>4
    <3> QED BY <3>5, <3>6, Zenon
  <2> QED BY <2>1, <2>2
<1> QED BY <1>1, ShInvHolds, NothingFromAnyFewerAlways, PTL
=============================================================================
