------------------------------ MODULE MCShamir ------------------------------
(***************************************************************************)
(* Shamir and FieldMul for TLC, side by side: a behaviour multiplies two   *)
(* bytes of the field, or shares a secret.  Secrets of two bytes,          *)
(* thresholds 2 and 3, abscissae at both ends of the field, and the        *)
(* parameters split() refuses.                                             *)
(***************************************************************************)
EXTENDS Shamir, FieldMul

Bytes(numbers) == {ByteOf(i) : i \in numbers}

MCSecretBytes  == Bytes({0, 83})
MCParams       == {<<2, 3>>, <<3, 254>>, <<1, 3>>, <<3, 2>>, <<2, 255>>}
MCCoefficients == Bytes({0, 202, 255})
MCAbscissae    == {1, 2, 3, 254}

Multiply == Turn /\ UNCHANGED vars
Sharing  == x = Zero /\ Next /\ UNCHANGED loop

MCInit ==
  \/ Init /\ Call(Zero, Zero)
  \/ /\ Init /\ secret = [i \in 1..SecretLen |-> Zero]
     /\ \E a \in Byte \ {Zero}, b \in Factors : Call(a, b)

MCSpec == MCInit /\ [][Multiply \/ Sharing]_<<vars, loop>>
=============================================================================
