------------------------------ MODULE FieldMul ------------------------------
(***************************************************************************)
(* The loop of gf_mul, turn by turn: every byte x times every byte of      *)
(* Factors, compared with the product of polynomials by its textbook       *)
(* definition.                                                             *)
(***************************************************************************)
EXTENDS Gf256

CONSTANT Factors

ASSUME FactorAssumption == Factors \subseteq Byte

VARIABLES x, y, r     (* the arguments, and the variables of the loop *)

loop == <<x, y, r>>

Call(a, b) == x = a /\ y = b /\ r = MulStart(a, b)

Turn ==
  /\ r.b # Zero
  /\ r' = MulStep(r)
  /\ UNCHANGED <<x, y>>

(* gf_mul on its own, for the proofs. *)
MulInit == \E a \in Byte, b \in Factors : Call(a, b)

MulSpec == MulInit /\ [][Turn]_loop
-----------------------------------------------------------------------------
(* The remainder, by x^8+x^4+x^3+x+1, of a polynomial of degree 14 at most. *)
Remainder(p) ==
  LET reduced[d \in 7..14] ==
        IF d = 14 THEN p
                  ELSE LET q == reduced[d + 1] IN
                       IF d + 1 \in q
                         THEN Xor(q, {d + 1, d - 3, d - 4, d - 6, d - 7}) ELSE q
  IN reduced[7]

(* The product: the coefficient of degree d is the parity of the pairs of   *)
(* bits whose degrees add up to it.                                         *)
Product(a, b) ==
  Remainder({d \in 0..14 : Cardinality({i \in a : d - i \in b}) % 2 = 1})

(* The invariant of gf_mul's loop: what is accumulated and what is left to  *)
(* multiply make the product; so acc is the product when the loop ends.     *)
MulIsProduct == Xor(r.acc, Product(r.a, r.b)) = Product(x, y)

(* gf_inv is an inverse for every byte but 0, on which the interpolation    *)
(* of reconstruct() divides.                                                *)
InverseIsInverse == r.b = One /\ x # Zero => Product(x, GfInv(x)) = One
=============================================================================
