-------------------------------- MODULE Gf256 --------------------------------
(***************************************************************************)
(* The arithmetic of crates/luks-hwid-core/src/shamir.rs: bytes as         *)
(* polynomials over GF(2), modulo x^8+x^4+x^3+x+1.  A byte is the set of   *)
(* its bits that are 1: exclusive or is the symmetric difference, a shift  *)
(* adds one to each and the eighth falls off.                              *)
(***************************************************************************)
EXTENDS Integers, FiniteSets

Byte == SUBSET (0..7)
Zero == {}
One  == {0}

(* The byte that holds the number x. *)
ByteOf(x) ==
  {b \in 0..7 : (x \div <<1, 2, 4, 8, 16, 32, 64, 128>>[b + 1]) % 2 = 1}

Xor(a, b) == (a \ b) \cup (b \ a)

ShiftLeft(a)  == {b + 1 : b \in a} \cap (0..7)
ShiftRight(a) == {b - 1 : b \in a} \cap (0..7)

(* Mutant: the reduction looks at the byte after the shift. *)
ReduceLate(a) ==
  IF 7 \in ShiftLeft(a) THEN Xor(ShiftLeft(a), {0, 1, 3, 4}) ELSE ShiftLeft(a)

(* a <<= 1, then 0x1b when a bit was carried out: the product with x. *)
TimesX(a) ==
  IF 7 \in a THEN Xor(ShiftLeft(a), {0, 1, 3, 4}) ELSE ShiftLeft(a)

(* One turn of the loop of gf_mul, on its three variables. *)
MulStep(r) ==
  [a |-> TimesX(r.a), b |-> ShiftRight(r.b),
   acc |-> IF 0 \in r.b THEN Xor(r.acc, r.a) ELSE r.acc]

MulStart(a, b) == [a |-> a, b |-> b, acc |-> Zero]

(* gf_mul: the loop ends when b is 0, after eight turns at most. *)
GfMul(a, b) ==
  LET turn[i \in 0..8] ==
        IF i = 0 THEN MulStart(a, b)
                 ELSE LET r == turn[i - 1] IN IF r.b = Zero THEN r ELSE MulStep(r)
  IN turn[8].acc

(* Mutant: a^255. *)
PowerOfAll(a) ==
  LET turn[i \in 0..8] ==
        IF i = 0 THEN [result |-> One, base |-> a]
                 ELSE LET r == turn[i - 1] IN
                      [result |-> GfMul(r.result, r.base),
                       base |-> GfMul(r.base, r.base)]
  IN turn[8].result

(* gf_inv: a^254 by squaring; all bits of 254 are 1 but the first. *)
GfInv(a) ==
  LET turn[i \in 0..8] ==
        IF i = 0 THEN [result |-> One, base |-> a]
                 ELSE LET r == turn[i - 1] IN
                      [result |-> IF i - 1 \in ByteOf(254)
                                    THEN GfMul(r.result, r.base) ELSE r.result,
                       base |-> GfMul(r.base, r.base)]
  IN turn[8].result
=============================================================================
