------------------------------- MODULE Shamir -------------------------------
(***************************************************************************)
(* Secret sharing: split() and reconstruct() of                            *)
(* crates/luks-hwid-core/src/shamir.rs.  A secret is shared; some shares,  *)
(* in some order, possibly one of them twice or damaged, are handed to     *)
(* reconstruct().                                                          *)
(***************************************************************************)
EXTENDS Gf256, Sequences

CONSTANTS
  SecretBytes,    (* what a byte of the secret may be                      *)
  SecretLen,      (* length of a secret (64 in secret.rs)                  *)
  Params,         (* the <<k, n>> a caller may ask for                     *)
  Coefficients,   (* what the random generator may draw for one byte       *)
  Abscissae,      (* the shares that may be handed to reconstruct()        *)
  MaxHanded       (* bound: how many                                       *)

ASSUME ShamirAssumption ==
  /\ SecretBytes \subseteq Byte /\ SecretLen \in Nat /\ MaxHanded \in Nat
  /\ Params \subseteq (0..255) \X (0..255)
  /\ Coefficients \subseteq Byte /\ Abscissae \subseteq 1..254

VARIABLES
  at,             (* "start", "split", "done"                              *)
  secret,         (* the bytes shared                                      *)
  k, n,           (* the threshold, the number of shares                   *)
  coeffs,         (* byte of the secret -> a_1 to a_(k-1)                  *)
  given,          (* the shares handed to reconstruct()                    *)
  genuine,        (* all of them as split() made them                      *)
  res             (* what the last call returned                           *)

vars == <<at, secret, k, n, coeffs, given, genuine, res>>

Ok(bytes)   == [err |-> "no", bytes |-> bytes]
Failed(why) == [err |-> why, bytes |-> <<>>]
-----------------------------------------------------------------------------
Refused(k_, n_) == k_ < 2 \/ n_ < k_ \/ n_ > 254

(* Mutant: the coefficients are drawn once for all bytes. *)
DrawnOnce(k_, one) ==
  {[pos \in 1..SecretLen |-> c] : c \in [1 .. k_ - 1 -> one]}

(* What split() may draw with threshold k_, one byte being one of `one`:    *)
(* a_1 to a_(k_-1) anew for each byte of the secret.                        *)
Draws(k_, one) == [1..SecretLen -> [1 .. k_ - 1 -> one]]

(* Byte pos of share x, by Horner: from a_(k-1) down to the secret. *)
ShareByte(s, cs, x, pos) ==
  LET c == cs[pos]
      y[i \in 0 .. Len(c) + 1] ==
        IF i = 0 THEN Zero
                 ELSE Xor(GfMul(y[i - 1], ByteOf(x)),
                          IF i = Len(c) + 1 THEN s[pos] ELSE c[Len(c) + 1 - i])
  IN y[Len(c) + 1]

Share(x) ==
  [x |-> ByteOf(x),
   y |-> [pos \in DOMAIN secret |-> ShareByte(secret, coeffs, x, pos)]]

(* Mutant: repeated abscissae are not noticed. *)
NoDuplicates(shares) ==
  IF shares = <<>> THEN "NoShares"
  ELSE IF \E i \in DOMAIN shares : shares[i].x = Zero THEN "InvalidParams"
  ELSE IF \E i \in DOMAIN shares : Len(shares[i].y) # Len(shares[1].y)
    THEN "LengthMismatch"
  ELSE "no"

(* What reconstruct() refuses; the scan meets a zero abscissa or another    *)
(* length first, whichever share comes first.                               *)
Refusal(shares) ==
  LET bad == {i \in DOMAIN shares : \/ shares[i].x = Zero
                                    \/ Len(shares[i].y) # Len(shares[1].y)}
  IN CASE shares = <<>> -> "NoShares"
       [] bad # {} -> LET i == CHOOSE i \in bad : \A j \in bad : i <= j IN
                      IF shares[i].x = Zero THEN "InvalidParams"
                                            ELSE "LengthMismatch"
       [] \E i, j \in DOMAIN shares : i # j /\ shares[i].x = shares[j].x
                 -> "DuplicateShare"
       [] OTHER  -> "no"

(* Mutant: the denominator leaves x_i out. *)
WeightWithoutSelf(shares, i) ==
  LET turn[j \in 0 .. Len(shares)] ==
        IF j = 0 THEN [num |-> One, den |-> One]
        ELSE IF j = i THEN turn[j - 1]
        ELSE [num |-> GfMul(turn[j - 1].num, shares[j].x),
              den |-> GfMul(turn[j - 1].den, shares[j].x)]
      last == turn[Len(shares)]
  IN GfMul(last.num, GfInv(last.den))

(* l_i(0): the product of x_j / (x_j - x_i) over the other shares. *)
Weight(shares, i) ==
  LET turn[j \in 0 .. Len(shares)] ==
        IF j = 0 THEN [num |-> One, den |-> One]
        ELSE IF j = i THEN turn[j - 1]
        ELSE [num |-> GfMul(turn[j - 1].num, shares[j].x),
              den |-> GfMul(turn[j - 1].den, Xor(shares[j].x, shares[i].x))]
      last == turn[Len(shares)]
  IN GfMul(last.num, GfInv(last.den))

(* Lagrange's interpolation at 0, with all the shares. *)
Interpolate(shares) ==
  [pos \in DOMAIN shares[1].y |->
    LET sum[i \in 0 .. Len(shares)] ==
          IF i = 0 THEN Zero
                   ELSE Xor(sum[i - 1],
                            GfMul(shares[i].y[pos], Weight(shares, i)))
    IN sum[Len(shares)]]
-----------------------------------------------------------------------------
Init ==
  /\ at = "start" /\ secret \in [1..SecretLen -> SecretBytes]
  /\ k = 0 /\ n = 0 /\ coeffs = <<>>
  /\ given = <<>> /\ genuine = TRUE /\ res = Failed("none")

(* split(): fresh coefficients for each byte. *)
Split ==
  /\ at = "start"
  /\ \E p \in Params :
       /\ k' = p[1] /\ n' = p[2]
       /\ IF Refused(p[1], p[2])
            THEN at' = "done" /\ res' = Failed("InvalidParams")
                 /\ UNCHANGED coeffs
            ELSE /\ coeffs' \in Draws(p[1], Coefficients)
                 /\ at' = "split" /\ UNCHANGED res
  /\ UNCHANGED <<secret, given, genuine>>

Hand(share) ==
  /\ at = "split" /\ Len(given) < MaxHanded
  /\ given' = Append(given, share)
  /\ UNCHANGED <<at, secret, k, n, coeffs, res>>

HandShare ==
  /\ \E x \in Abscissae : x <= n /\ Hand(Share(x))
  /\ UNCHANGED genuine

(* No share of split(), at most once: abscissa 0, or a byte short. *)
HandDamaged ==
  /\ genuine
  /\ \E x \in Abscissae : x <= n /\
       \/ Hand([Share(x) EXCEPT !.x = Zero])
       \/ SecretLen > 0 /\ Hand([Share(x) EXCEPT !.y = Tail(@)])
  /\ genuine' = FALSE

Reconstruct ==
  /\ at = "split"
  /\ at' = "done"
  /\ res' = IF Refusal(given) = "no" THEN Ok(Interpolate(given))
                                     ELSE Failed(Refusal(given))
  /\ UNCHANGED <<secret, k, n, coeffs, given, genuine>>

Next == Split \/ HandShare \/ HandDamaged \/ Reconstruct

Spec == Init /\ [][Next]_vars
-----------------------------------------------------------------------------
(* Properties. *)

Distinct == \A i, j \in DOMAIN given : given[i].x = given[j].x => i = j

(* Any k shares or more rebuild the secret, in whatever order they come.    *)
(* recover() stops at k and takes them in the order of the token.           *)
QuorumRebuilds ==
  at = "done" /\ genuine /\ Distinct /\ k >= 2 /\ Len(given) >= k /\ given # <<>>
    => res = Ok(secret)

(* k shares handed in never make anything but the secret or an error, be    *)
(* one of them there twice: the other k - 1 are not taken for a quorum.     *)
NoFalseSecret ==
  at = "done" /\ genuine /\ Len(given) >= k /\ res.err = "no"
    => res.bytes = secret

(* split(): "k-1 parts ne donnent aucune information".  Whoever holds one   *)
(* share of a secret split with k = 2 can rule out no other secret of its   *)
(* length: for each, what split() may draw holds the coefficients, one for  *)
(* each byte, that make the same share.                                     *)
NothingFromFewer ==
  at = "split" /\ k = 2 /\ genuine /\ Len(given) = 1
    => LET x == CHOOSE x \in Abscissae : ByteOf(x) = given[1].x
           y == given[1].y
           Same(c) == [p \in 1..SecretLen |-> <<c>>] IN
       \A other \in [1..SecretLen -> SecretBytes] :
         LET a(pos) == CHOOSE c \in Byte : ShareByte(other, Same(c), x, pos) = y[pos]
             cs     == [pos \in 1..SecretLen |-> <<a(pos)>>] IN
         /\ cs \in Draws(2, Byte)
         /\ \A pos \in 1..SecretLen : ShareByte(other, cs, x, pos) = y[pos]
=============================================================================
